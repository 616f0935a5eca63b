-------------------------- MODULE MonitorTableProofs --------------------------
(***************************************************************************)
(* Monitors exclude, for any threads, objects, calls and recursion, in     *)
(* tables of any size, whatever the collector reclaims: every object that  *)
(* the history does not call spoiled.                                      *)
(*                                                                         *)
(* The argument: such an object has no slot, and then nobody is inside, or *)
(* one, whose mutex says who is inside and how often (Kept).  Slots are    *)
(* only given to objects that have no flag, hence no slot, or that become  *)
(* spoiled; a mutex is only entered or exited by a thread that looked up   *)
(* the object that has its slot (Pointing), and the slots of an object     *)
(* that a thread is inside of are not given to another.                    *)
(***************************************************************************)
EXTENDS MonitorTable, FiniteSetTheorems, SequenceTheorems, TLAPS

Sizes ==
  /\ Slots \in Nat \ {0} /\ MaxBlocks \in Nat \ {0}
  /\ Null \notin Threads \cup Objects

Busy ==
  \A t \in Threads : pc[t] # "idle" =>
    obj[t] \in Objects /\ (op[t] = "exit" => depth[t][obj[t]] > 0)
\* What a lookup returned: the slot of the object, or what is no slot.
Pointing ==
  \A t \in Threads : pc[t] = "lock" =>
    IF found[t] > 0 THEN found[t] \in DOMAIN table /\ table[found[t]] = obj[t]
                    ELSE obj[t] \in spoiled /\ (found[t] = NoLock => op[t] = "exit")
Counted == \A m \in Mutexes : lock[m].owner = Null <=> lock[m].count = 0
\* An object that has one safe mutex at most.
Kept(o) ==
  /\ (\A p \in DOMAIN table : table[p] # o) => \A t \in Threads : depth[t][o] = 0
  /\ \A p \in DOMAIN table : table[p] = o =>
       /\ o \in flagged
       /\ \A q \in DOMAIN table : table[q] = o => q = p
       /\ \A t \in Threads : depth[t][o] = IF lock[p].owner = t THEN lock[p].count ELSE 0
Safe == \A o \in Objects \ spoiled : Kept(o)

MonitorInv == TypeOK /\ Busy /\ Pointing /\ Counted /\ Safe

\* The positions of the table: what its size comes to.
LEMMA TableIs ==
  ASSUME Sizes, TypeOK
  PROVE  /\ Len(table) \in Nat /\ DOMAIN table = 1 .. Len(table)
         /\ table \in Seq(Objects \cup {Null})
         /\ \A p \in DOMAIN table : p > 0 /\ p \in Mutexes /\ table[p] \in Objects \cup {Null}
         /\ Blocks \in 1 .. MaxBlocks /\ Len(table) = Blocks * Slots
         /\ (Blocks - 1) * Slots + 1 \in DOMAIN table
<1>1. PICK k \in 1 .. MaxBlocks : Len(table) = k * Slots
  BY DEF TypeOK
<1>2. k \in Nat /\ k >= 1 /\ k <= MaxBlocks /\ MaxBlocks \in Nat /\ Slots \in Nat /\ Slots >= 1
  BY DEF Sizes
<1>3. Blocks = k
  <2>1. (k * Slots) \div Slots = k
    BY <1>2
  <2> QED BY <1>1, <2>1 DEF Blocks
<1>4. k * Slots \in Nat /\ k * Slots <= MaxBlocks * Slots /\ MaxBlocks * Slots \in Nat
  BY <1>2
<1>5. (k - 1) * Slots + 1 \in 1 .. k * Slots
  <2>1. (k - 1) * Slots = k * Slots - Slots /\ (k - 1) * Slots >= 0 /\ (k - 1) * Slots \in Int
    BY <1>2
  <2> QED BY <2>1, <1>2, <1>4
<1>6. table \in Seq(Objects \cup {Null}) /\ DOMAIN table = 1 .. Len(table)
  BY DEF TypeOK
<1>7. \A p \in 1 .. Len(table) : p > 0 /\ p \in Mutexes
  BY <1>1, <1>4 DEF Mutexes, Positions
<1> QED BY <1>1, <1>2, <1>3, <1>4, <1>5, <1>6, <1>7

\* A step that has nothing to do with an object.
LEMMA Untouched ==
  ASSUME NEW o \in Objects, Kept(o), DOMAIN table \subseteq DOMAIN table',
         \A p \in DOMAIN table' : table'[p] = o <=> p \in DOMAIN table /\ table[p] = o,
         \A p \in DOMAIN table : table[p] = o => lock'[p] = lock[p],
         \A t \in Threads : depth'[t][o] = depth[t][o],
         o \in flagged => o \in flagged'
  PROVE  Kept(o)'
<1>1. (\A p \in DOMAIN table' : table'[p] # o) => \A t \in Threads : depth'[t][o] = 0
  BY DEF Kept
<1>2. ASSUME NEW p \in DOMAIN table', table'[p] = o
      PROVE  /\ o \in flagged'
             /\ \A q \in DOMAIN table' : table'[q] = o => q = p
             /\ \A t \in Threads : depth'[t][o] = IF lock'[p].owner = t THEN lock'[p].count ELSE 0
  <2>1. p \in DOMAIN table /\ table[p] = o /\ lock'[p] = lock[p] BY <1>2
  <2> QED BY <2>1 DEF Kept
<1> QED BY <1>1, <1>2 DEF Kept

\* Steps that change no more than where a thread is.
LEMMA CallSteps ==
  ASSUME MonitorInv, UNCHANGED <<table, lock, flagged, depth, spoiled>>, TypeOK', Busy', Pointing'
  PROVE  MonitorInv'
<1>1. Counted' BY DEF MonitorInv, Counted
<1>2. Safe' BY DEF MonitorInv, Safe, Kept
<1> QED BY <1>1, <1>2 DEF MonitorInv
-----------------------------------------------------------------------------
LEMMA InitMonitors == Sizes /\ Init => MonitorInv
<1> SUFFICES ASSUME Sizes, Init PROVE MonitorInv
  OBVIOUS
<1>1. Slots \in Nat \ {0} /\ MaxBlocks \in Nat \ {0} /\ Null \notin Threads \cup Objects
  BY DEF Sizes
<1>2. /\ table \in Seq(Objects \cup {Null}) /\ Len(table) = Slots
      /\ \A p \in DOMAIN table : table[p] = Null
  BY <1>1 DEF Init, EmptyBlock
<1>3. Free \in Lock /\ Free.owner = Null /\ Free.count = 0
  BY DEF Free, Lock
<1>4. Len(table) \in {k * Slots : k \in 1 .. MaxBlocks}
  <2>1. 1 \in 1 .. MaxBlocks /\ 1 * Slots = Slots BY <1>1
  <2> QED BY <2>1, <1>2
<1>5. TypeOK BY <1>2, <1>3, <1>4 DEF Init, TypeOK
<1>6. Busy /\ Pointing BY DEF Init, Busy, Pointing
<1>7. Counted BY <1>3 DEF Init, Counted
<1>8. Safe BY <1>1, <1>2 DEF Init, Safe, Kept
<1> QED BY <1>5, <1>6, <1>7, <1>8 DEF MonitorInv

LEMMA BeginMonitors ==
  ASSUME Sizes, MonitorInv, NEW t \in Threads, NEW what \in {"enter", "try", "exit"},
         NEW o \in Objects, Begin(t, what, o)
  PROVE  MonitorInv'
<1>1. TypeOK' BY DEF MonitorInv, TypeOK, Begin
<1>2. Busy' /\ Pointing' BY DEF MonitorInv, TypeOK, Begin, Busy, Pointing
<1> QED BY <1>1, <1>2, CallSteps DEF Begin

LEMMA FoundMonitors ==
  ASSUME Sizes, MonitorInv, NEW t \in Threads, NEW p \in DOMAIN table, LookupFound(t, p)
  PROVE  MonitorInv'
<1>1. p > 0 /\ p \in Mutexes BY TableIs DEF MonitorInv
<1>2. TypeOK' BY <1>1 DEF MonitorInv, TypeOK, LookupFound, Return
<1>3. Busy' /\ Pointing'
  BY <1>1 DEF MonitorInv, TypeOK, LookupFound, Return, Busy, Pointing
<1> QED BY <1>2, <1>3, CallSteps DEF LookupFound

\* The slot goes to an object that has none, or to one that is spoiled by it.
LEMMA AssignMonitors ==
  ASSUME Sizes, MonitorInv, NEW t \in Threads, NEW p \in DOMAIN table, LookupAssign(t, p)
  PROVE  MonitorInv'
<1> DEFINE o == obj[t]
<1>1. /\ table \in Seq(Objects \cup {Null}) /\ p > 0 /\ p \in Mutexes
      /\ o \in Objects /\ Null \notin Objects /\ table[p] = Null
  BY TableIs DEF MonitorInv, Busy, LookupAssign, Sizes
<1>2. /\ table' \in Seq(Objects \cup {Null}) /\ DOMAIN table' = DOMAIN table /\ Len(table') = Len(table)
      /\ \A q \in DOMAIN table : table'[q] = IF q = p THEN o ELSE table[q]
  BY <1>1 DEF LookupAssign
<1>3. /\ lock' \in [Mutexes -> Lock]
      /\ \A m \in Mutexes : lock'[m] = IF m = p THEN Free ELSE lock[m]
  <2>1. Free \in Lock BY DEF Free, Lock
  <2> QED BY <2>1, <1>1 DEF LookupAssign, MonitorInv, TypeOK
<1>4. /\ spoiled' = spoiled \cup ({o} \cap flagged) /\ flagged' = flagged \cup {o} /\ depth' = depth
      /\ obj' = obj /\ op' = op /\ blockLock' = blockLock
  BY DEF LookupAssign
<1>5. /\ pc' \in [Threads -> {"idle", "lookup", "lock"}] /\ found' \in [Threads -> Mutexes \cup {NoLock}]
      /\ pc'[t] = "lock" /\ found'[t] = p /\ pc[t] = "lookup"
      /\ \A u \in Threads \ {t} : pc'[u] = pc[u] /\ found'[u] = found[u]
  BY <1>1 DEF LookupAssign, Return, MonitorInv, TypeOK
<1>6. TypeOK' BY <1>1, <1>2, <1>3, <1>4, <1>5 DEF MonitorInv, TypeOK
<1>7. Busy' BY <1>4, <1>5 DEF MonitorInv, Busy
<1>8. Pointing'
  <2>1. ASSUME NEW u \in Threads, u # t, pc'[u] = "lock"
        PROVE  IF found'[u] > 0 THEN found'[u] \in DOMAIN table' /\ table'[found'[u]] = obj'[u]
                                ELSE obj'[u] \in spoiled' /\ (found'[u] = NoLock => op'[u] = "exit")
    <3>1. pc[u] = "lock" /\ found'[u] = found[u] /\ obj'[u] = obj[u] /\ op'[u] = op[u] /\ obj[u] # Null
      BY <2>1, <1>1, <1>4, <1>5 DEF MonitorInv, Busy
    <3>2. IF found[u] > 0 THEN found[u] \in DOMAIN table /\ table[found[u]] = obj[u]
                          ELSE obj[u] \in spoiled /\ (found[u] = NoLock => op[u] = "exit")
      BY <3>1 DEF MonitorInv, Pointing
    <3>3. found[u] > 0 => found[u] # p BY <3>1, <3>2, <1>1
    <3> QED BY <3>1, <3>2, <3>3, <1>2, <1>4
  <2> QED BY <2>1, <1>1, <1>2, <1>4, <1>5 DEF Pointing
<1>9. Counted'
  <2>1. Free.owner = Null /\ Free.count = 0 BY DEF Free
  <2> QED BY <2>1, <1>3 DEF MonitorInv, Counted
<1>10. ASSUME NEW c \in Objects \ spoiled' PROVE Kept(c)'
  <2>1. Kept(c) /\ c # Null BY <1>1, <1>4, <1>10 DEF MonitorInv, Safe
  <2>2. CASE c # o
    <3>1. \A q \in DOMAIN table' : table'[q] = c <=> q \in DOMAIN table /\ table[q] = c
      BY <1>1, <1>2, <2>1, <2>2
    <3>2. \A q \in DOMAIN table : q \in Mutexes BY TableIs DEF MonitorInv
    <3>3. \A q \in DOMAIN table : table[q] = c => lock'[q] = lock[q] BY <1>1, <1>3, <2>1, <3>2
    <3> QED BY <2>1, <3>1, <3>3, <1>2, <1>4, Untouched
  <2>3. CASE c = o
    <3>1. c \notin flagged BY <1>4, <1>10, <2>3
    <3>2. \A q \in DOMAIN table : table[q] # c BY <2>1, <3>1 DEF Kept
    <3>3. \A u \in Threads : depth'[u][c] = 0 BY <2>1, <3>2, <1>4 DEF Kept
    <3>4. \A q \in DOMAIN table' : table'[q] = c => q = p BY <1>2, <3>2
    <3>5. lock'[p].owner = Null /\ lock'[p].count = 0 BY <1>1, <1>3 DEF Free
    <3>6. table'[p] = c /\ c \in flagged' BY <1>2, <1>4, <2>3
    <3> QED BY <3>3, <3>4, <3>5, <3>6, <1>2 DEF Kept, Sizes
  <2> QED BY <2>2, <2>3
<1>11. Safe' BY <1>10 DEF Safe
<1> QED BY <1>6, <1>7, <1>8, <1>9, <1>11 DEF MonitorInv

\* Growing spoils the object it is for, and the one whose mutex it overwrites.
LEMMA ExtendMonitors ==
  ASSUME Sizes, MonitorInv, NEW t \in Threads, LookupExtend(t)
  PROVE  MonitorInv'
<1> DEFINE o == obj[t]
           f == (Blocks - 1) * Slots + 1
           b == Beyond(Blocks)
<1>1. /\ table \in Seq(Objects \cup {Null}) /\ Len(table) \in Nat /\ DOMAIN table = 1 .. Len(table)
      /\ Blocks \in 1 .. MaxBlocks /\ Len(table) = Blocks * Slots /\ f \in DOMAIN table
      /\ Blocks < MaxBlocks /\ o \in Objects /\ Null \notin Objects
      /\ \A p \in DOMAIN table : p > 0 /\ p \in Mutexes /\ table[p] \in Objects \cup {Null}
      /\ Slots \in Nat \ {0} /\ MaxBlocks \in Nat
  BY TableIs DEF MonitorInv, Busy, LookupExtend, Sizes
<1>2. table[f] \in Objects
  BY <1>1 DEF LookupExtend, NowhereToStop, Stops
<1>3. b \in Mutexes /\ b < 0 /\ b # NoLock
  BY <1>1 DEF Beyond, Mutexes, NoLock
<1>4. /\ table' \in Seq(Objects \cup {Null}) /\ Len(table') = Len(table) + Slots
      /\ DOMAIN table' = 1 .. (Len(table) + Slots)
      /\ \A p \in DOMAIN table' : table'[p] = IF p \in DOMAIN table THEN table[p] ELSE Null
  <2>1. EmptyBlock \in Seq(Objects \cup {Null}) /\ Len(EmptyBlock) = Slots
        /\ \A p \in 1 .. Slots : EmptyBlock[p] = Null
    BY <1>1 DEF EmptyBlock
  <2>2. table' = table \o EmptyBlock BY DEF LookupExtend
  <2>3. /\ table' \in Seq(Objects \cup {Null}) /\ Len(table') = Len(table) + Slots
        /\ \A p \in 1 .. (Len(table) + Slots) :
             table'[p] = IF p <= Len(table) THEN table[p] ELSE EmptyBlock[p - Len(table)]
    BY <1>1, <2>1, <2>2, ConcatProperties
  <2>4. DOMAIN table' = 1 .. (Len(table) + Slots) BY <2>3
  <2>5. ASSUME NEW p \in DOMAIN table', p \notin DOMAIN table PROVE table'[p] = Null
    <3>1. p - Len(table) \in 1 .. Slots /\ ~(p <= Len(table)) BY <1>1, <2>4, <2>5
    <3> QED BY <2>1, <2>3, <2>4, <3>1
  <2>6. ASSUME NEW p \in DOMAIN table', p \in DOMAIN table PROVE table'[p] = table[p]
    BY <1>1, <2>3, <2>4, <2>6
  <2> QED BY <2>3, <2>4, <2>5, <2>6
<1>5. DOMAIN table \subseteq DOMAIN table' BY <1>1, <1>4
<1>6. PICK broken \in {Free} \cup {[owner |-> u, count |-> 1] : u \in Threads} :
        lock' = [lock EXCEPT ![f] = broken, ![b] = Free]
  BY DEF LookupExtend
<1>7. /\ Free \in Lock /\ Free.owner = Null /\ Free.count = 0
      /\ broken \in Lock /\ (broken.owner = Null <=> broken.count = 0)
  <2>1. Free \in Lock /\ Free.owner = Null /\ Free.count = 0 BY DEF Free, Lock
  <2>2. ASSUME NEW u \in Threads, broken = [owner |-> u, count |-> 1]
        PROVE  broken \in Lock /\ (broken.owner = Null <=> broken.count = 0)
    BY <2>2 DEF Lock, Sizes
  <2> QED BY <2>1, <2>2
<1>8. /\ lock' \in [Mutexes -> Lock]
      /\ \A m \in Mutexes : lock'[m] = IF m = b THEN Free ELSE IF m = f THEN broken ELSE lock[m]
  <2>1. lock \in [Mutexes -> Lock] /\ f \in Mutexes BY <1>1 DEF MonitorInv, TypeOK
  <2> HIDE DEF f, b
  <2> QED BY <1>3, <1>6, <1>7, <2>1
<1>9. /\ spoiled' = spoiled \cup {o, table[f]} /\ flagged' = flagged \cup {o} /\ depth' = depth
      /\ obj' = obj /\ op' = op /\ blockLock' = blockLock
  BY DEF LookupExtend
<1>10. /\ pc' \in [Threads -> {"idle", "lookup", "lock"}] /\ found' \in [Threads -> Mutexes \cup {NoLock}]
       /\ pc'[t] = "lock" /\ found'[t] = b /\ pc[t] = "lookup"
       /\ \A u \in Threads \ {t} : pc'[u] = pc[u] /\ found'[u] = found[u]
  BY <1>3 DEF LookupExtend, Return, MonitorInv, TypeOK
<1>11. Len(table') \in {k * Slots : k \in 1 .. MaxBlocks}
  <2>1. Blocks + 1 \in 1 .. MaxBlocks BY <1>1
  <2>2. (Blocks + 1) * Slots = Blocks * Slots + Slots BY <1>1
  <2> QED BY <1>1, <1>4, <2>1, <2>2
<1> HIDE DEF f, b
<1>12. TypeOK' BY <1>1, <1>2, <1>4, <1>8, <1>9, <1>10, <1>11 DEF MonitorInv, TypeOK
<1>13. Busy' BY <1>9, <1>10 DEF MonitorInv, Busy
<1>14. Pointing'
  <2>1. ASSUME NEW u \in Threads, u # t, pc'[u] = "lock"
        PROVE  IF found'[u] > 0 THEN found'[u] \in DOMAIN table' /\ table'[found'[u]] = obj'[u]
                                ELSE obj'[u] \in spoiled' /\ (found'[u] = NoLock => op'[u] = "exit")
    <3>1. pc[u] = "lock" /\ found'[u] = found[u] /\ obj'[u] = obj[u] /\ op'[u] = op[u] BY <2>1, <1>9, <1>10
    <3>2. IF found[u] > 0 THEN found[u] \in DOMAIN table /\ table[found[u]] = obj[u]
                          ELSE obj[u] \in spoiled /\ (found[u] = NoLock => op[u] = "exit")
      BY <3>1 DEF MonitorInv, Pointing
    <3> QED BY <3>1, <3>2, <1>4, <1>5, <1>9
  <2>2. ~(b > 0) /\ b # NoLock
    <3>1. b \in Int BY <1>1 DEF b, Beyond
    <3> QED BY <1>3, <3>1
  <2> QED BY <2>1, <2>2, <1>9, <1>10 DEF Pointing
<1>15. Counted' BY <1>7, <1>8 DEF MonitorInv, Counted
<1>16. ASSUME NEW c \in Objects \ spoiled' PROVE Kept(c)'
  <2>1. Kept(c) /\ c # Null /\ c # table[f] BY <1>1, <1>9, <1>16 DEF MonitorInv, Safe
  <2>2. \A q \in DOMAIN table' : table'[q] = c <=> q \in DOMAIN table /\ table[q] = c
    BY <1>4, <2>1
  <2>3. \A q \in DOMAIN table : table[q] = c => lock'[q] = lock[q]
    <3>1. \A q \in DOMAIN table : q \in Mutexes /\ q # b BY <1>1, <1>3
    <3> QED BY <2>1, <3>1, <1>8
  <2> QED BY <2>1, <2>2, <2>3, <1>5, <1>9, Untouched
<1>17. Safe' BY <1>16 DEF Safe
<1> QED BY <1>12, <1>13, <1>14, <1>15, <1>17 DEF MonitorInv

\* A thread that is inside the monitor of an object finds its slot, unless the
\* object is spoiled.
LEMMA FailsMonitors ==
  ASSUME Sizes, MonitorInv, NEW t \in Threads, LookupFails(t)
  PROVE  MonitorInv'
<1>1. obj[t] \in Objects /\ depth[t][obj[t]] > 0
  BY DEF MonitorInv, Busy, LookupFails
<1>2. obj[t] \in spoiled
  <2> SUFFICES ASSUME obj[t] \notin spoiled PROVE FALSE
    OBVIOUS
  <2>1. \A p \in DOMAIN table : table[p] # obj[t]
    BY DEF LookupFails, NowhereToStop, Stops
  <2>2. Kept(obj[t]) BY <1>1 DEF MonitorInv, Safe
  <2>3. depth[t][obj[t]] = 0 BY <2>1, <2>2 DEF Kept
  <2> QED BY <1>1, <2>3
<1>3. TypeOK' BY DEF MonitorInv, TypeOK, LookupFails, Return
<1>4. Busy' BY DEF MonitorInv, TypeOK, LookupFails, Return, Busy
<1>5. ~(NoLock > 0) BY DEF NoLock
<1>6. op[t] = "exit" BY DEF LookupFails
<1>7. Pointing' BY <1>2, <1>5, <1>6 DEF MonitorInv, TypeOK, LookupFails, Return, Pointing
<1> QED BY <1>3, <1>4, <1>7, CallSteps DEF LookupFails
-----------------------------------------------------------------------------
\* Entering or exiting changes one mutex and the depth of its thread: what has
\* to hold of the two.
LEMMA MutexStep ==
  ASSUME Sizes, MonitorInv, NEW t \in Threads, pc[t] = "lock", found[t] \in Mutexes,
         NEW l \in Lock, NEW d \in Nat, l.owner = Null <=> l.count = 0,
         lock' = [lock EXCEPT ![found[t]] = l],
         depth' = [depth EXCEPT ![t][obj[t]] = d],
         Finish(t), UNCHANGED <<table, blockLock, flagged, op, obj, found, spoiled>>,
         obj[t] \notin spoiled =>
           \A u \in Threads :
             (IF u = t THEN d ELSE depth[u][obj[t]]) = IF l.owner = u THEN l.count ELSE 0
  PROVE  MonitorInv'
<1> DEFINE f == found[t]
           o == obj[t]
<1>1. /\ o \in Objects
      /\ IF f > 0 THEN f \in DOMAIN table /\ table[f] = o ELSE o \in spoiled
  BY DEF MonitorInv, Busy, Pointing
<1>2. /\ lock' \in [Mutexes -> Lock]
      /\ \A m \in Mutexes : lock'[m] = IF m = f THEN l ELSE lock[m]
  BY DEF MonitorInv, TypeOK
<1>3. /\ depth' \in [Threads -> [Objects -> Nat]]
      /\ \A u \in Threads, c \in Objects : depth'[u][c] = IF u = t /\ c = o THEN d ELSE depth[u][c]
  BY <1>1 DEF MonitorInv, TypeOK
<1>4. /\ pc' \in [Threads -> {"idle", "lookup", "lock"}]
      /\ \A u \in Threads : pc'[u] = IF u = t THEN "idle" ELSE pc[u]
  BY DEF MonitorInv, TypeOK, Finish
<1>5. TypeOK' BY <1>2, <1>3, <1>4 DEF MonitorInv, TypeOK
<1>6. Busy' BY <1>3, <1>4 DEF MonitorInv, Busy
<1>7. Pointing' BY <1>4 DEF MonitorInv, Pointing
<1>8. Counted' BY <1>2 DEF MonitorInv, Counted
<1>9. \A q \in DOMAIN table : q > 0 /\ q \in Mutexes BY TableIs DEF MonitorInv
<1>10. ASSUME NEW c \in Objects \ spoiled' PROVE Kept(c)'
  <2>1. Kept(c) /\ c \notin spoiled BY <1>10 DEF MonitorInv, Safe
  <2>2. CASE c # o
    <3>1. \A q \in DOMAIN table : table[q] = c => q # f
      BY <1>1, <1>9, <2>2
    <3>2. \A q \in DOMAIN table : table[q] = c => lock'[q] = lock[q] BY <1>2, <1>9, <3>1
    <3>3. \A u \in Threads : depth'[u][c] = depth[u][c] BY <1>3, <2>2
    <3> QED BY <2>1, <3>2, <3>3, Untouched
  <2>3. CASE c = o
    <3>1. f \in DOMAIN table /\ table[f] = c BY <1>1, <2>1, <2>3
    <3>2. c \in flagged /\ \A q \in DOMAIN table : table[q] = c => q = f BY <2>1, <3>1 DEF Kept
    <3>3. \A u \in Threads : depth'[u][c] = IF lock'[f].owner = u THEN lock'[f].count ELSE 0
      BY <1>2, <1>3, <2>1, <2>3
    <3> QED BY <3>1, <3>2, <3>3 DEF Kept
  <2> QED BY <2>2, <2>3
<1>11. Safe' BY <1>10 DEF Safe
<1> QED BY <1>5, <1>6, <1>7, <1>8, <1>11 DEF MonitorInv

\* The mutex of an object that is not spoiled says who is inside.
LEMMA MutexSays ==
  ASSUME Sizes, MonitorInv, NEW t \in Threads, pc[t] = "lock"
  PROVE  /\ obj[t] \in Objects
         /\ obj[t] \notin spoiled =>
              \A u \in Threads : depth[u][obj[t]] =
                IF lock[found[t]].owner = u THEN lock[found[t]].count ELSE 0
<1>1. /\ obj[t] \in Objects
      /\ obj[t] \notin spoiled => found[t] \in DOMAIN table /\ table[found[t]] = obj[t]
  BY DEF MonitorInv, Busy, Pointing
<1>2. obj[t] \notin spoiled => Kept(obj[t]) BY <1>1 DEF MonitorInv, Safe
<1> QED BY <1>1, <1>2 DEF Kept

LEMMA EnterMonitors ==
  ASSUME Sizes, MonitorInv, NEW t \in Threads, Enter(t), found[t] \in Mutexes
  PROVE  MonitorInv'
<1> DEFINE f == found[t]
           d == depth[t][obj[t]]
           n == lock[f].count
           l == [owner |-> t, count |-> n + 1]
<1>1. pc[t] = "lock" /\ lock[f].owner \in {Null, t} BY DEF Enter, Available
<1>2. /\ obj[t] \in Objects
      /\ obj[t] \notin spoiled =>
           \A u \in Threads : depth[u][obj[t]] = IF lock[f].owner = u THEN n ELSE 0
  BY <1>1, MutexSays
<1>3. lock[f] \in Lock /\ n \in Nat /\ d \in Nat BY <1>2 DEF MonitorInv, TypeOK, Lock
<1>4. (lock[f].owner = Null => n = 0) /\ Null \notin Threads BY DEF MonitorInv, Counted, Sizes
<1>5. lock' = [lock EXCEPT ![f] = l] BY DEF Enter, Entered, MonitorInv, TypeOK
<1>6. depth' = [depth EXCEPT ![t][obj[t]] = d + 1] BY <1>2 DEF Enter, MonitorInv, TypeOK
<1>7. Finish(t) /\ UNCHANGED <<table, blockLock, flagged, op, obj, found, spoiled>> BY DEF Enter
<1>8. l \in Lock /\ d + 1 \in Nat /\ l.owner = t /\ l.count = n + 1
  <2>1. n + 1 \in Nat /\ d + 1 \in Nat BY <1>3
  <2> HIDE DEF n, d
  <2> QED BY <2>1 DEF Lock
<1>9. l.owner = Null <=> l.count = 0 BY <1>3, <1>4, <1>8
<1>10. obj[t] \notin spoiled =>
         \A u \in Threads : (IF u = t THEN d + 1 ELSE depth[u][obj[t]]) = IF l.owner = u THEN l.count ELSE 0
  <2> SUFFICES ASSUME obj[t] \notin spoiled, NEW u \in Threads
               PROVE  (IF u = t THEN d + 1 ELSE depth[u][obj[t]]) = IF l.owner = u THEN l.count ELSE 0
    OBVIOUS
  <2>1. d = n
    <3>1. d = IF lock[f].owner = t THEN n ELSE 0 BY <1>2
    <3> QED BY <3>1, <1>1, <1>4
  <2>2. u # t => depth[u][obj[t]] = 0
    <3>1. depth[u][obj[t]] = IF lock[f].owner = u THEN n ELSE 0 BY <1>2
    <3> QED BY <3>1, <1>1, <1>4
  <2> QED BY <1>8, <2>1, <2>2
<1> HIDE DEF l, d, n
<1> QED BY <1>1, <1>5, <1>6, <1>7, <1>8, <1>9, <1>10, MutexStep DEF f

LEMMA ExitMonitors ==
  ASSUME Sizes, MonitorInv, NEW t \in Threads, Exit(t), found[t] \in Mutexes
  PROVE  MonitorInv'
<1> DEFINE f == found[t]
           d == depth[t][obj[t]]
           n == lock[f].count
           l == IF lock[f].owner # t THEN lock[f]
                ELSE IF n = 1 THEN Free ELSE [owner |-> t, count |-> n - 1]
<1>1. pc[t] = "lock" /\ op[t] = "exit" BY DEF Exit
<1>2. /\ obj[t] \in Objects
      /\ obj[t] \notin spoiled =>
           \A u \in Threads : depth[u][obj[t]] = IF lock[f].owner = u THEN n ELSE 0
  BY <1>1, MutexSays
<1>3. lock[f] \in Lock /\ n \in Nat /\ d \in Nat /\ d > 0
  BY <1>1, <1>2 DEF MonitorInv, TypeOK, Lock, Busy
<1>4. (lock[f].owner = Null <=> n = 0) /\ Null \notin Threads BY DEF MonitorInv, Counted, Sizes
<1>5. lock' = [lock EXCEPT ![f] = l] BY DEF Exit, Exited, MonitorInv, TypeOK
<1>6. depth' = [depth EXCEPT ![t][obj[t]] = d - 1] BY <1>2 DEF Exit, MonitorInv, TypeOK
<1>7. Finish(t) /\ UNCHANGED <<table, blockLock, flagged, op, obj, found, spoiled>> BY DEF Exit
<1>8. lock[f].owner = t => n >= 1 BY <1>3, <1>4
<1>9. l \in Lock /\ d - 1 \in Nat /\ (l.owner = Null <=> l.count = 0)
  <2>1. d - 1 \in Nat BY <1>3
  <2>2. Free \in Lock /\ Free.owner = Null /\ Free.count = 0 BY DEF Free, Lock
  <2>3. CASE lock[f].owner # t BY <2>1, <2>3, <1>3, <1>4
  <2>4. CASE lock[f].owner = t /\ n = 1 BY <2>1, <2>2, <2>4
  <2>5. CASE lock[f].owner = t /\ n # 1
    <3>1. n - 1 \in Nat /\ n - 1 # 0 /\ t # Null BY <2>5, <1>3, <1>4, <1>8
    <3>2. l = [owner |-> t, count |-> n - 1] BY <2>5
    <3> HIDE DEF n, l
    <3> QED BY <2>1, <3>1, <3>2 DEF Lock
  <2> QED BY <2>3, <2>4, <2>5
<1>10. obj[t] \notin spoiled =>
         \A u \in Threads : (IF u = t THEN d - 1 ELSE depth[u][obj[t]]) = IF l.owner = u THEN l.count ELSE 0
  <2> SUFFICES ASSUME obj[t] \notin spoiled, NEW u \in Threads
               PROVE  (IF u = t THEN d - 1 ELSE depth[u][obj[t]]) = IF l.owner = u THEN l.count ELSE 0
    OBVIOUS
  <2>1. lock[f].owner = t /\ d = n
    <3>1. d = IF lock[f].owner = t THEN n ELSE 0 BY <1>2
    <3> QED BY <3>1, <1>3
  <2>2. u # t => depth[u][obj[t]] = 0
    <3>1. depth[u][obj[t]] = IF lock[f].owner = u THEN n ELSE 0 BY <1>2
    <3> QED BY <3>1, <2>1
  <2>3. CASE n = 1
    <3>1. l = Free BY <2>1, <2>3
    <3>2. Free.owner = Null /\ Free.count = 0 BY DEF Free
    <3> HIDE DEF l, n, d
    <3> QED BY <2>1, <2>2, <2>3, <3>1, <3>2, <1>4
  <2>4. CASE n # 1
    <3>1. l = [owner |-> t, count |-> n - 1] BY <2>1, <2>4
    <3>2. l.owner = t /\ l.count = n - 1 BY <3>1
    <3> QED BY <2>1, <2>2, <3>2
  <2> QED BY <2>3, <2>4
<1> HIDE DEF l, d, n
<1> QED BY <1>1, <1>5, <1>6, <1>7, <1>9, <1>10, MutexStep DEF f

LEMMA TryMonitors ==
  ASSUME Sizes, MonitorInv, NEW t \in Threads, TryEnterFails(t)
  PROVE  MonitorInv'
<1>1. TypeOK' BY DEF MonitorInv, TypeOK, TryEnterFails, Finish
<1>2. Busy' /\ Pointing' BY DEF MonitorInv, TypeOK, TryEnterFails, Finish, Busy, Pointing
<1> QED BY <1>1, <1>2, CallSteps DEF TryEnterFails

\* A slot is emptied whose object nobody uses.
LEMMA ReclaimMonitors ==
  ASSUME Sizes, MonitorInv, NEW o \in Objects, Reclaim(o)
  PROVE  MonitorInv'
<1>1. /\ Unused(o) /\ flagged' = flagged \ {o} /\ Null \notin Objects
      /\ UNCHANGED <<blockLock, pc, op, obj, found, depth, spoiled>>
  BY DEF Reclaim, threadVars, Sizes
<1>2. \A t \in Threads : depth[t][o] = 0 /\ (pc[t] # "idle" => obj[t] # o)
  BY <1>1 DEF Unused, Holders, MonitorInv, TypeOK
<1>3. CASE UNCHANGED <<table, lock>> /\ \A p \in DOMAIN table : table[p] # o
  <2>1. TypeOK' BY <1>1, <1>3 DEF MonitorInv, TypeOK
  <2>2. Busy' /\ Pointing' /\ Counted' BY <1>1, <1>3 DEF MonitorInv, Busy, Pointing, Counted
  <2>3. ASSUME NEW c \in Objects \ spoiled' PROVE Kept(c)'
    <3>1. Kept(c) BY <1>1, <2>3 DEF MonitorInv, Safe
    <3>2. CASE c = o BY <1>1, <1>2, <1>3, <3>2 DEF Kept
    <3>3. CASE c # o BY <1>1, <1>3, <3>1, <3>3, Untouched
    <3> QED BY <3>2, <3>3
  <2>4. Safe' BY <2>3 DEF Safe
  <2> QED BY <2>1, <2>2, <2>4 DEF MonitorInv
<1>4. ASSUME NEW p \in DOMAIN table, table[p] = o, table' = [table EXCEPT ![p] = Null],
             lock' = [lock EXCEPT ![p] = Free]
      PROVE  MonitorInv'
  <2>1. /\ table \in Seq(Objects \cup {Null}) /\ p \in Mutexes
        /\ \A q \in DOMAIN table : q \in Mutexes
    BY TableIs DEF MonitorInv
  <2>2. /\ table' \in Seq(Objects \cup {Null}) /\ DOMAIN table' = DOMAIN table
        /\ Len(table') = Len(table)
        /\ \A q \in DOMAIN table : table'[q] = IF q = p THEN Null ELSE table[q]
    BY <1>4, <2>1
  <2>3. Free \in Lock /\ Free.owner = Null /\ Free.count = 0 BY DEF Free, Lock
  <2>4. lock' \in [Mutexes -> Lock] /\ \A m \in Mutexes : lock'[m] = IF m = p THEN Free ELSE lock[m]
    BY <1>4, <2>1, <2>3 DEF MonitorInv, TypeOK
  <2>5. TypeOK' BY <1>1, <2>2, <2>4 DEF MonitorInv, TypeOK
  <2>6. Busy' BY <1>1 DEF MonitorInv, Busy
  <2>7. Counted' BY <2>3, <2>4 DEF MonitorInv, Counted
  <2>8. Pointing'
    <3>1. ASSUME NEW u \in Threads, pc'[u] = "lock"
          PROVE  IF found'[u] > 0 THEN found'[u] \in DOMAIN table' /\ table'[found'[u]] = obj'[u]
                                  ELSE obj'[u] \in spoiled' /\ (found'[u] = NoLock => op'[u] = "exit")
      <4>1. pc[u] = "lock" /\ obj[u] # o BY <1>1, <1>2, <3>1
      <4>2. IF found[u] > 0 THEN found[u] \in DOMAIN table /\ table[found[u]] = obj[u]
                            ELSE obj[u] \in spoiled /\ (found[u] = NoLock => op[u] = "exit")
        BY <4>1 DEF MonitorInv, Pointing
      <4> QED BY <1>1, <1>4, <2>2, <4>1, <4>2
    <3> QED BY <3>1 DEF Pointing
  <2>9. ASSUME NEW c \in Objects \ spoiled' PROVE Kept(c)'
    <3>1. Kept(c) BY <1>1, <2>9 DEF MonitorInv, Safe
    <3>2. CASE c = o
      <4>1. \A q \in DOMAIN table' : table'[q] # c
        <5>1. \A q \in DOMAIN table : table[q] = c => q = p BY <1>4, <3>1, <3>2 DEF Kept
        <5> QED BY <1>1, <2>2, <5>1
      <4> QED BY <1>1, <1>2, <3>2, <4>1 DEF Kept
    <3>3. CASE c # o
      <4>1. \A q \in DOMAIN table' : table'[q] = c <=> q \in DOMAIN table /\ table[q] = c
        BY <1>1, <1>4, <2>2, <3>3
      <4>2. \A q \in DOMAIN table : table[q] = c => lock'[q] = lock[q]
        BY <1>4, <2>1, <2>4, <3>3
      <4> QED BY <1>1, <2>2, <3>1, <3>3, <4>1, <4>2, Untouched
    <3> QED BY <3>2, <3>3
  <2>10. Safe' BY <2>9 DEF Safe
  <2> QED BY <2>5, <2>6, <2>7, <2>8, <2>10 DEF MonitorInv
<1> QED BY <1>3, <1>4 DEF Reclaim
-----------------------------------------------------------------------------
LEMMA NextMonitors == Sizes /\ MonitorInv /\ [Next]_vars => MonitorInv'
<1> SUFFICES ASSUME Sizes, MonitorInv, [Next]_vars PROVE MonitorInv'
  OBVIOUS
<1>1. ASSUME NEW t \in Threads, ThreadNext(t) PROVE MonitorInv'
  <2>1. ASSUME NEW what \in {"enter", "try", "exit"}, NEW o \in Objects, Begin(t, what, o)
        PROVE  MonitorInv'
    BY <2>1, BeginMonitors
  <2>2. ASSUME NEW p \in DOMAIN table, LookupFound(t, p) PROVE MonitorInv'
    BY <2>2, FoundMonitors
  <2>3. ASSUME NEW p \in DOMAIN table, LookupAssign(t, p) PROVE MonitorInv'
    BY <2>3, AssignMonitors
  <2>4. CASE LookupExtend(t)
    BY <2>4, ExtendMonitors
  <2>5. CASE LookupFails(t)
    BY <2>5, FailsMonitors
  <2>6. found[t] \in Mutexes \cup {NoLock}
    BY DEF MonitorInv, TypeOK
  <2>7. CASE Enter(t) /\ found[t] \in Mutexes
    BY <2>7, EnterMonitors
  <2>8. CASE TryEnterFails(t)
    BY <2>8, TryMonitors
  <2>9. CASE Exit(t)
    <3>1. found[t] \in Mutexes BY <2>6, <2>9 DEF Exit
    <3> QED BY <2>9, <3>1, ExitMonitors
  <2>10. ASSUME Enter(t) PROVE found[t] \in Mutexes
    <3>1. pc[t] = "lock" /\ op[t] # "exit" BY <2>10 DEF Enter
    <3>2. ~(NoLock > 0) BY DEF NoLock
    <3>3. found[t] # NoLock BY <3>1, <3>2 DEF MonitorInv, Pointing
    <3> QED BY <2>6, <3>3
  <2> QED
    BY <1>1, <2>1, <2>2, <2>3, <2>4, <2>5, <2>7, <2>8, <2>9, <2>10 DEF ThreadNext
<1>2. ASSUME NEW o \in Objects, Reclaim(o) PROVE MonitorInv'
  BY <1>2, ReclaimMonitors
<1>3. CASE UNCHANGED vars
  BY <1>3 DEF vars, threadVars, MonitorInv, TypeOK, Busy, Pointing, Counted, Safe, Kept
<1> QED
  BY <1>1, <1>2, <1>3 DEF Next

LEMMA MonitorInvariant ==
  ASSUME Sizes
  PROVE  Spec => []MonitorInv
<1>1. Init => MonitorInv
  BY InitMonitors
<1>2. MonitorInv /\ [Next]_vars => MonitorInv'
  BY NextMonitors
<1> QED BY <1>1, <1>2, PTL DEF Spec

\* A thread that is inside a monitor is so by the one slot of the object.
LEMMA InsideOwns ==
  ASSUME Sizes, MonitorInv, NEW t \in Threads, NEW o \in Objects \ spoiled, depth[t][o] > 0
  PROVE  \E p \in DOMAIN table :
           /\ table[p] = o /\ \A q \in DOMAIN table : table[q] = o => q = p
           /\ lock[p].owner = t /\ lock[p].count = depth[t][o] /\ lock[p] \in Lock
<1>1. Kept(o) BY DEF MonitorInv, Safe
<1>2. ~(0 > 0) OBVIOUS
<1>3. PICK p \in DOMAIN table : table[p] = o
  BY <1>1, <1>2 DEF Kept
<1>4. /\ \A q \in DOMAIN table : table[q] = o => q = p
      /\ depth[t][o] = IF lock[p].owner = t THEN lock[p].count ELSE 0
  BY <1>1, <1>3 DEF Kept
<1>5. lock[p] \in Lock BY TableIs DEF MonitorInv, TypeOK
<1> QED BY <1>2, <1>3, <1>4, <1>5

\* At most one thread is inside the monitor of an object that was not given a
\* second mutex or an unsafe one (Monitor.c:75-109, 161-195).
THEOREM MonitorsExclude ==
  ASSUME Sizes
  PROVE  Spec => []MonitorExcludes
<1>1. MonitorInv => MonitorExcludes
  <2> SUFFICES ASSUME MonitorInv, NEW o \in Objects \ spoiled, NEW t \in Threads, NEW u \in Threads,
                      depth[t][o] > 0, depth[u][o] > 0
               PROVE  t = u
    BY DEF MonitorExcludes, Holders
  <2>1. PICK p \in DOMAIN table :
          /\ table[p] = o /\ lock[p].owner = t /\ \A q \in DOMAIN table : table[q] = o => q = p
    BY InsideOwns
  <2>2. PICK q \in DOMAIN table : table[q] = o /\ lock[q].owner = u
    BY InsideOwns
  <2> QED BY <2>1, <2>2
<1> QED BY <1>1, MonitorInvariant, PTL

\* The mutex a thread owns is the one its next lookup will return, with a count
\* that says how often it has to exit (Monitor.c:340-351).
THEOREM HoldersOwn ==
  ASSUME Sizes
  PROVE  Spec => []HolderOwnsItsLock
<1>1. MonitorInv => HolderOwnsItsLock
  <2> SUFFICES ASSUME MonitorInv, NEW t \in Threads, NEW o \in Objects \ spoiled, depth[t][o] > 0
               PROVE  \E p \in DOMAIN table :
                        /\ table[p] = o
                        /\ \A q \in 1 .. (p - 1) : table[q] # o
                        /\ lock[p] = [owner |-> t, count |-> depth[t][o]]
    BY DEF HolderOwnsItsLock
  <2>1. PICK p \in DOMAIN table :
          /\ table[p] = o /\ \A q \in DOMAIN table : table[q] = o => q = p
          /\ lock[p].owner = t /\ lock[p].count = depth[t][o] /\ lock[p] \in Lock
    BY InsideOwns
  <2>2. DOMAIN table = 1 .. Len(table) /\ Len(table) \in Nat
    BY TableIs DEF MonitorInv
  <2>3. \A q \in 1 .. (p - 1) : q \in DOMAIN table /\ q # p
    BY <2>1, <2>2
  <2>4. lock[p] = [owner |-> t, count |-> depth[t][o]]
    BY <2>1 DEF Lock
  <2> QED BY <2>1, <2>3, <2>4
<1> QED BY <1>1, MonitorInvariant, PTL

\* The Exit of an entered monitor finds its lock, as Monitor.c:348 asserts,
\* unless the object is spoiled.
SafeExitsFind ==
  \A t \in Threads :
    pc[t] = "lock" /\ op[t] = "exit" /\ found[t] = NoLock => obj[t] \in spoiled

\* Monitor.c:348 asserts that an Exit finds the lock: so it does in tables of any
\* size, whatever is reclaimed, but for the objects that got a second mutex, one
\* behind a block, or had theirs overwritten.
THEOREM ExitsFindTheirLock ==
  ASSUME Sizes
  PROVE  Spec => []SafeExitsFind
<1>1. MonitorInv => SafeExitsFind
  <2>1. ~(NoLock > 0) BY DEF NoLock
  <2> QED BY <2>1 DEF MonitorInv, Pointing, SafeExitsFind
<1> QED BY <1>1, MonitorInvariant, PTL
-----------------------------------------------------------------------------
(***************************************************************************)
(* Tables of any size, in which the collector empties slots of one object. *)
(***************************************************************************)
OneReclaimed ==
  /\ Slots \in Nat /\ Null \notin Objects
  /\ \A o, u \in Reclaimed : o = u

CallsAnObject ==
  /\ pc \in [Threads -> {"idle", "lookup", "lock"}] /\ obj \in [Threads -> Objects \cup {Null}]
  /\ \A t \in Threads : pc[t] # "idle" => obj[t] \in Objects

\* Before the slot of a reclaimed object there is no free one, where it would be
\* put a second time, and no other of its own.
NoneBefore(o) ==
  \A p, q \in DOMAIN table : table[p] = o /\ q < p => table[q] \notin {o, Null}

FlaggedInv ==
  /\ table \in Seq(Objects \cup {Null})
  /\ CallsAnObject
  /\ \A p \in DOMAIN table : table[p] # Null => table[p] \in flagged
  /\ \A o \in Reclaimed \cap Objects : NoneBefore(o)

\* The positions of a sequence.
LEMMA TablePlaces ==
  ASSUME table \in Seq(Objects \cup {Null})
  PROVE  /\ Len(table) \in Nat /\ DOMAIN table = 1 .. Len(table)
         /\ \A p \in DOMAIN table : p \in Nat /\ table[p] \in Objects \cup {Null}
         /\ \A p, q \in DOMAIN table : q < p => q \in 1 .. (p - 1)
         /\ \A p \in DOMAIN table : \A q \in 1 .. (p - 1) : q \in DOMAIN table /\ q < p
OBVIOUS

LEMMA InitFlagged == OneReclaimed /\ Init => FlaggedInv
<1> SUFFICES ASSUME OneReclaimed, Init PROVE FlaggedInv
  OBVIOUS
<1>1. EmptyBlock \in Seq(Objects \cup {Null}) /\ \A p \in DOMAIN EmptyBlock : EmptyBlock[p] = Null
  BY DEF EmptyBlock, OneReclaimed
<1> QED BY <1>1 DEF Init, FlaggedInv, CallsAnObject, NoneBefore, OneReclaimed

\* A call puts its object into the first free slot if no slot before has it.
LEMMA AssignFlagged ==
  ASSUME OneReclaimed, FlaggedInv, NEW t \in Threads, NEW p \in DOMAIN table, LookupAssign(t, p)
  PROVE  FlaggedInv'
<1>1. /\ obj[t] \in Objects /\ obj[t] # Null /\ table[p] = Null
      /\ StopsAt(t, p) /\ flagged' = flagged \cup {obj[t]} /\ obj' = obj
      /\ table' = [table EXCEPT ![p] = obj[t]]
  BY DEF OneReclaimed, FlaggedInv, CallsAnObject, LookupAssign
<1>2. /\ table' \in Seq(Objects \cup {Null}) /\ DOMAIN table' = DOMAIN table
      /\ table'[p] = obj[t] /\ \A q \in DOMAIN table \ {p} : table'[q] = table[q]
  BY <1>1 DEF FlaggedInv
<1>3. CallsAnObject'
  BY <1>1 DEF FlaggedInv, CallsAnObject, LookupAssign, Return
<1>4. \A q \in DOMAIN table' : table'[q] # Null => table'[q] \in flagged'
  BY <1>1, <1>2 DEF FlaggedInv
<1>5. \A q \in DOMAIN table : q < p => table[q] # obj[t] /\ table[q] # Null
  <2>1. op[t] # "exit"
    BY <1>1 DEF StopsAt, Stops
  <2> QED BY <1>1, <2>1, TablePlaces DEF FlaggedInv, StopsAt, Stops
<1>6. ASSUME NEW o \in Reclaimed \cap Objects PROVE NoneBefore(o)'
  <2> SUFFICES ASSUME NEW r \in DOMAIN table, NEW q \in DOMAIN table, table'[r] = o, q < r
               PROVE  table'[q] # o /\ table'[q] # Null
    BY <1>2 DEF NoneBefore
  <2>1. CASE r = p
    BY <1>2, <1>5, <2>1, TablePlaces DEF FlaggedInv
  <2>2. CASE r # p
    <3>1. table[r] = o /\ table[q] \notin {o, Null}
      BY <1>2, <1>6, <2>2 DEF FlaggedInv, NoneBefore
    <3>2. q # p
      BY <1>1, <3>1
    <3> QED BY <1>2, <3>1, <3>2
  <2> QED BY <2>1, <2>2
<1> QED BY <1>2, <1>3, <1>4, <1>6 DEF FlaggedInv

\* A new block has only free slots, after all others.
LEMMA ExtendFlagged ==
  ASSUME OneReclaimed, FlaggedInv, NEW t \in Threads, LookupExtend(t)
  PROVE  FlaggedInv'
<1>1. /\ table' = table \o EmptyBlock /\ flagged \subseteq flagged'
      /\ table \in Seq(Objects \cup {Null}) /\ Null \notin Objects
  BY DEF LookupExtend, FlaggedInv, OneReclaimed
<1>2. /\ EmptyBlock \in Seq(Objects \cup {Null}) /\ Len(EmptyBlock) = Slots
      /\ \A p \in 1 .. Slots : EmptyBlock[p] = Null
  BY DEF EmptyBlock, OneReclaimed
<1>3. /\ table' \in Seq(Objects \cup {Null}) /\ Len(table') = Len(table) + Slots
      /\ DOMAIN table \subseteq DOMAIN table'
      /\ \A p \in DOMAIN table : table'[p] = table[p]
      /\ \A p \in DOMAIN table' \ DOMAIN table : table'[p] = Null
  <2>1. Slots \in Nat /\ Len(table) \in Nat
    BY <1>1 DEF OneReclaimed
  <2>2. table' \in Seq(Objects \cup {Null}) /\ Len(table') = Len(table) + Slots
    BY <1>1, <1>2, ConcatProperties
  <2>3. \A p \in 1 .. (Len(table) + Slots) :
          table'[p] = IF p <= Len(table) THEN table[p] ELSE EmptyBlock[p - Len(table)]
    BY <1>1, <1>2, ConcatProperties
  <2>4. DOMAIN table = 1 .. Len(table) /\ DOMAIN table' = 1 .. (Len(table) + Slots)
    BY <1>1, <2>2
  <2>5. ASSUME NEW p \in DOMAIN table' \ DOMAIN table PROVE table'[p] = Null
    <3>1. p - Len(table) \in 1 .. Slots /\ ~(p <= Len(table))
      BY <2>1, <2>4, <2>5
    <3> QED BY <1>2, <2>3, <2>4, <3>1
  <2> QED BY <2>1, <2>2, <2>3, <2>4, <2>5
<1>4. CallsAnObject'
  BY DEF FlaggedInv, CallsAnObject, LookupExtend, Return
<1>5. \A p \in DOMAIN table' : table'[p] # Null => table'[p] \in flagged'
  BY <1>1, <1>3 DEF FlaggedInv
<1>6. ASSUME NEW o \in Reclaimed \cap Objects PROVE NoneBefore(o)'
  <2> SUFFICES ASSUME NEW r \in DOMAIN table', NEW q \in DOMAIN table', table'[r] = o, q < r
               PROVE  table'[q] \notin {o, Null}
    BY DEF NoneBefore
  <2>1. r \in DOMAIN table
    BY <1>1, <1>3, <1>6
  <2>2. q \in DOMAIN table
    BY <1>1, <1>3, <2>1
  <2> QED BY <1>3, <1>6, <2>1, <2>2 DEF FlaggedInv, NoneBefore
<1> QED BY <1>3, <1>4, <1>5, <1>6 DEF FlaggedInv

\* The slot the collector empties was the object's only one, and no other
\* object's slots are asked to have no free one before them.
LEMMA ReclaimFlagged ==
  ASSUME OneReclaimed, FlaggedInv, NEW o \in Objects, Reclaim(o)
  PROVE  FlaggedInv'
<1>1. o \in Reclaimed /\ flagged' = flagged \ {o} /\ UNCHANGED <<pc, obj>>
  BY DEF Reclaim, threadVars
<1>2. ASSUME NEW p \in DOMAIN table, table[p] = o, table' = [table EXCEPT ![p] = Null]
      PROVE  /\ table' \in Seq(Objects \cup {Null}) /\ \A q \in DOMAIN table' : table'[q] # o
             /\ DOMAIN table' = DOMAIN table
             /\ \A q \in DOMAIN table' : table'[q] # Null => table'[q] = table[q]
  <2>1. /\ table' \in Seq(Objects \cup {Null}) /\ DOMAIN table' = DOMAIN table
        /\ table'[p] = Null /\ \A q \in DOMAIN table \ {p} : table'[q] = table[q]
    BY <1>2 DEF FlaggedInv
  <2>2. \A q \in DOMAIN table \ {p} : table[q] # o
    <3>1. \A q \in DOMAIN table \ {p} : q < p \/ p < q
      BY TablePlaces DEF FlaggedInv
    <3> QED BY <1>1, <1>2, <3>1 DEF FlaggedInv, NoneBefore
  <2> QED BY <2>1, <2>2 DEF OneReclaimed
<1>3. ASSUME \A p \in DOMAIN table : table[p] # o, table' = table
      PROVE  /\ table' \in Seq(Objects \cup {Null}) /\ \A q \in DOMAIN table' : table'[q] # o
             /\ DOMAIN table' = DOMAIN table
             /\ \A q \in DOMAIN table' : table'[q] # Null => table'[q] = table[q]
  BY <1>3 DEF FlaggedInv
<1>4. /\ table' \in Seq(Objects \cup {Null}) /\ \A q \in DOMAIN table' : table'[q] # o
      /\ DOMAIN table' = DOMAIN table
      /\ \A q \in DOMAIN table' : table'[q] # Null => table'[q] = table[q]
  BY <1>2, <1>3 DEF Reclaim
<1>5. \A q \in DOMAIN table' : table'[q] # Null => table'[q] \in flagged'
  BY <1>1, <1>4 DEF FlaggedInv
<1>6. \A u \in Reclaimed \cap Objects : NoneBefore(u)'
  BY <1>1, <1>4 DEF OneReclaimed, NoneBefore
<1>7. CallsAnObject'
  BY <1>1 DEF FlaggedInv, CallsAnObject
<1> QED BY <1>4, <1>5, <1>6, <1>7 DEF FlaggedInv

LEMMA NextFlagged == OneReclaimed /\ FlaggedInv /\ [Next]_vars => FlaggedInv'
<1> SUFFICES ASSUME OneReclaimed, FlaggedInv, [Next]_vars PROVE FlaggedInv'
  OBVIOUS
<1> USE DEF threadVars
<1>1. ASSUME UNCHANGED <<table, flagged>>, CallsAnObject' PROVE FlaggedInv'
  BY <1>1 DEF FlaggedInv, NoneBefore
<1>2. ASSUME NEW t \in Threads, NEW what \in {"enter", "try", "exit"}, NEW o \in Objects,
             Begin(t, what, o)
      PROVE  FlaggedInv'
  BY <1>1, <1>2 DEF Begin, FlaggedInv, CallsAnObject
<1>3. ASSUME NEW t \in Threads, NEW p \in DOMAIN table, LookupFound(t, p) PROVE FlaggedInv'
  BY <1>1, <1>3 DEF LookupFound, Return, FlaggedInv, CallsAnObject
<1>4. ASSUME NEW t \in Threads, NEW p \in DOMAIN table, LookupAssign(t, p) PROVE FlaggedInv'
  BY <1>4, AssignFlagged
<1>5. ASSUME NEW t \in Threads, LookupExtend(t) PROVE FlaggedInv'
  BY <1>5, ExtendFlagged
<1>6. ASSUME NEW t \in Threads, LookupFails(t) PROVE FlaggedInv'
  BY <1>1, <1>6 DEF LookupFails, Return, FlaggedInv, CallsAnObject
<1>7. ASSUME NEW t \in Threads, Enter(t) \/ TryEnterFails(t) \/ Exit(t) PROVE FlaggedInv'
  BY <1>1, <1>7 DEF Enter, TryEnterFails, Exit, Finish, FlaggedInv, CallsAnObject
<1>8. ASSUME NEW o \in Objects, Reclaim(o) PROVE FlaggedInv'
  BY <1>8, ReclaimFlagged
<1>9. CASE UNCHANGED vars
  BY <1>1, <1>9 DEF vars, FlaggedInv, CallsAnObject
<1> QED BY <1>2, <1>3, <1>4, <1>5, <1>6, <1>7, <1>8, <1>9 DEF Next, ThreadNext

\* Monitor.c:82 asserts that a found object is flagged.  It is, in tables of any
\* size and whatever the calls, while the collector frees at most one of their
\* objects, however often.
THEOREM FoundObjectsAreFlagged ==
  ASSUME OneReclaimed
  PROVE  Spec => []FoundIsFlagged
<1>1. FlaggedInv => FoundIsFlagged
  <2> SUFFICES ASSUME FlaggedInv, NEW t \in Threads, NEW p \in DOMAIN table,
                      pc[t] = "lookup", table[p] = obj[t]
               PROVE  obj[t] \in flagged
    BY DEF FoundIsFlagged
  <2>1. obj[t] # Null
    BY DEF FlaggedInv, CallsAnObject, OneReclaimed
  <2> QED BY <2>1 DEF FlaggedInv
<1> QED BY <1>1, InitFlagged, NextFlagged, PTL DEF Spec
===============================================================================
