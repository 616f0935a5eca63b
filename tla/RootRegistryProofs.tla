-------------------------- MODULE RootRegistryProofs --------------------------
(***************************************************************************)
(* Registrations agree with the handles, for any threads and objects and   *)
(* however their walks meet each other and the collector's.                *)
(*                                                                         *)
(* The argument: an object belongs to at most one thread (Alone), a slot   *)
(* that is not free belongs to a thread that has come to store it and not  *)
(* to clear it (Accounted), and such a thread finds it: a walk that will   *)
(* unregister it still has its slot ahead (Found).                         *)
(***************************************************************************)
EXTENDS RootRegistry, FiniteSetTheorems, SequenceTheorems, TLAPS

RegistryConstants == Null \notin Objects /\ BlockSize \in Nat \ {0} /\ MaxSlots \in Nat

Size == Len(slots)
Places == {"idle", "register", "registered", "unregister", "clear"}
RegistryTypes ==
  /\ slots \in Seq(Objects \cup {Null})
  /\ handle \in [Threads -> Objects \cup {Null}] /\ object \in [Threads -> Objects \cup {Null}]
  /\ next \in [Threads -> Objects \cup {Null}] /\ bare \in SUBSET Threads
  /\ at \in [Threads -> Places]
  /\ left \in [Threads -> Nat] /\ free \in [Threads -> Nat] /\ walk \in Nat
  /\ \A t \in Threads : left[t] <= Size /\ free[t] <= Size
  /\ walk <= Size

\* What a thread has, at each place.
Stage(t) ==
  /\ at[t] = "idle" => object[t] = Null /\ next[t] = Null
  /\ at[t] \in {"register", "registered"} =>
       object[t] \in Objects /\ handle[t] = Null /\ next[t] = Null
  /\ at[t] \in {"unregister", "clear"} => object[t] \in Objects /\ handle[t] = object[t]
  /\ at[t] = "clear" => t \notin bare /\ left[t] > 0
  /\ handle[t] = Null => t \notin bare
Alone == \A t, u \in Threads : t # u => Of(t) \cap Of(u) = {}
Once == \A p, q \in 1 .. Size : Slot(p) = Slot(q) /\ Slot(p) # Null => p = q

\* The object that a thread has in the table, if it has one there.
InTable(t) ==
  \/ at[t] = "idle" /\ handle[t] # Null /\ t \notin bare
  \/ at[t] = "unregister" /\ left[t] > 0 /\ t \notin bare
  \/ at[t] \in {"registered", "clear"}
Entry(t) == IF at[t] = "idle" THEN handle[t] ELSE object[t]
Found(t) ==
  InTable(t) => \E p \in 1 .. Size : /\ Slot(p) = Entry(t)
                                     /\ at[t] = "unregister" => p <= left[t]
                                     /\ at[t] = "clear" => p = left[t]
Accounted ==
  \A p \in 1 .. Size : Slot(p) # Null => \E t \in Threads : InTable(t) /\ Entry(t) = Slot(p)
HeldBy(t, o) == at[t] = "idle" /\ t \notin bare /\ handle[t] = o
Marks ==
  \A o \in held :
    /\ o # Null /\ \E t \in Threads : HeldBy(t, o)
    /\ o \in marked \/ \E p \in 1 .. walk : Slot(p) = o

RegistryInv ==
  /\ RegistryTypes /\ \A t \in Threads : Stage(t) /\ Found(t)
  /\ Alone /\ Once /\ Accounted /\ Marks

\* An object in the table belongs to the thread that has it there.
LEMMA Owner ==
  ASSUME RegistryInv, NEW p \in 1 .. Size, Slot(p) # Null
  PROVE  \E t \in Threads : InTable(t) /\ Entry(t) = Slot(p) /\ Slot(p) \in Of(t)
<1>1. PICK t \in Threads : InTable(t) /\ Entry(t) = Slot(p)
  BY DEF RegistryInv, Accounted
<1>2. Slot(p) \in Of(t)
  BY <1>1 DEF Entry, Of
<1> QED BY <1>1, <1>2

\* No object is in the table that no handle has, or that its thread has not there.
LEMMA Absent ==
  ASSUME RegistryInv, NEW p \in 1 .. Size, Slot(p) # Null
  PROVE  /\ Slot(p) \notin Fresh
         /\ \A t \in Threads : Slot(p) \in Of(t) => InTable(t)
<1>1. PICK t \in Threads : InTable(t) /\ Slot(p) \in Of(t)
  BY Owner
<1>2. \A u \in Threads : Slot(p) \in Of(u) => u = t
  BY <1>1 DEF RegistryInv, Alone
<1> QED BY <1>1, <1>2 DEF Fresh

\* A step of one thread keeps objects apart if it takes only fresh ones.
LEMMA AloneStep ==
  ASSUME Alone, NEW t \in Threads,
         \A u \in Threads : u # t => Of(u)' = Of(u),
         Of(t)' \subseteq Of(t) \cup Fresh
  PROVE  Alone'
<1> SUFFICES ASSUME NEW u \in Threads, NEW v \in Threads, u # v
             PROVE  Of(u)' \cap Of(v)' = {}
  BY DEF Alone
<1>1. \A w \in Threads : Fresh \cap Of(w) = {}
  BY DEF Fresh
<1>2. CASE u # t /\ v # t
  BY <1>2 DEF Alone
<1>3. CASE u = t
  <2>1. Of(v)' = Of(v) /\ Of(u) \cap Of(v) = {}
    BY <1>3 DEF Alone
  <2> QED BY <2>1, <1>1, <1>3
<1>4. CASE v = t
  <2>1. Of(u)' = Of(u) /\ Of(u) \cap Of(v) = {}
    BY <1>4 DEF Alone
  <2> QED BY <2>1, <1>1, <1>4
<1> QED BY <1>2, <1>3, <1>4

\* What a step of t leaves alone.
Others(t) ==
  \A u \in Threads : u # t =>
    /\ at'[u] = at[u] /\ handle'[u] = handle[u] /\ object'[u] = object[u] /\ next'[u] = next[u]
    /\ left'[u] = left[u] /\ (u \in bare' <=> u \in bare)

LEMMA OthersSame ==
  ASSUME NEW t \in Threads, Others(t), NEW u \in Threads, u # t
  PROVE  /\ Of(u)' = Of(u) /\ (InTable(u)' <=> InTable(u)) /\ Entry(u)' = Entry(u)
         /\ Stage(u)' = Stage(u)
         /\ \A o : HeldBy(u, o)' <=> HeldBy(u, o)
<1>1. /\ at'[u] = at[u] /\ handle'[u] = handle[u] /\ object'[u] = object[u] /\ next'[u] = next[u]
      /\ left'[u] = left[u] /\ (u \in bare' <=> u \in bare)
  BY DEF Others
<1>2. Of(u)' = Of(u)
  BY <1>1 DEF Of
<1>3. (InTable(u)' <=> InTable(u))
  BY <1>1 DEF InTable
<1>4. Entry(u)' = Entry(u)
  BY <1>1 DEF Entry
<1>5. Stage(u)' = Stage(u)
  BY <1>1 DEF Stage
<1>6. \A o : HeldBy(u, o)' <=> HeldBy(u, o)
  BY <1>1 DEF HeldBy
<1> QED BY <1>2, <1>3, <1>4, <1>5, <1>6

\* A step of one thread that writes no slot, and neither comes to have its object
\* in the table nor ceases to.
LEMMA ReadStep ==
  ASSUME RegistryInv, NEW t \in Threads, Others(t), RegistryTypes',
         UNCHANGED <<slots, walk, marked>>,
         Stage(t)', Of(t)' \subseteq Of(t) \cup Fresh,
         (InTable(t)' <=> InTable(t)), InTable(t) => Entry(t)' = Entry(t),
         Found(t)', held' \subseteq held,
         \A o \in held' : HeldBy(t, o) => HeldBy(t, o)'
  PROVE  RegistryInv'
<1>1. \A u \in Threads : u # t => Stage(u)' /\ Found(u)'
  <2> SUFFICES ASSUME NEW u \in Threads, u # t PROVE Stage(u)' /\ Found(u)'
    OBVIOUS
  <2>1. at'[u] = at[u] /\ left'[u] = left[u]
    BY DEF Others
  <2>2. Stage(u)' /\ (InTable(u)' <=> InTable(u)) /\ Entry(u)' = Entry(u)
    BY OthersSame DEF RegistryInv
  <2> QED BY <2>1, <2>2 DEF RegistryInv, Found, Size, Slot
<1>2. Alone'
  BY AloneStep, OthersSame DEF RegistryInv
<1>3. Once'
  BY DEF RegistryInv, Once, Size, Slot
<1>4. Accounted'
  <2> SUFFICES ASSUME NEW p \in 1 .. Size, Slot(p) # Null
               PROVE  \E u \in Threads : InTable(u)' /\ Entry(u)' = Slot(p)
    BY DEF Accounted, Size, Slot
  <2>1. PICK u \in Threads : InTable(u) /\ Entry(u) = Slot(p)
    BY DEF RegistryInv, Accounted
  <2>2. InTable(u)' /\ Entry(u)' = Entry(u)
    BY <2>1, OthersSame
  <2> QED BY <2>1, <2>2
<1>5. Marks'
  <2> SUFFICES ASSUME NEW o \in held'
               PROVE  /\ o # Null /\ \E u \in Threads : HeldBy(u, o)'
                      /\ o \in marked \/ \E p \in 1 .. walk : Slot(p) = o
    BY DEF Marks, Slot
  <2>1. /\ o # Null /\ \E u \in Threads : HeldBy(u, o)
        /\ o \in marked \/ \E p \in 1 .. walk : Slot(p) = o
    BY DEF RegistryInv, Marks
  <2>2. PICK u \in Threads : HeldBy(u, o)
    BY <2>1
  <2>3. HeldBy(u, o)'
    BY <2>2, OthersSame
  <2> QED BY <2>1, <2>3
<1> QED BY <1>1, <1>2, <1>3, <1>4, <1>5 DEF RegistryInv

-----------------------------------------------------------------------------
LEMMA InitRegistry == RegistryConstants /\ Init => RegistryInv
<1> SUFFICES ASSUME RegistryConstants, Init PROVE RegistryInv
  OBVIOUS
<1>1. Size = 0 /\ slots \in Seq(Objects \cup {Null}) /\ 1 .. Size = {}
  BY DEF Init, Size
<1>2. RegistryTypes
  BY <1>1 DEF Init, RegistryTypes, Places
<1>3. ASSUME NEW t \in Threads PROVE Stage(t) /\ ~InTable(t)
  BY <1>3 DEF Init, Stage, InTable
<1>4. Alone
  BY DEF Init, Alone, Of
<1>5. Once /\ Accounted /\ Marks
  BY <1>1 DEF Init, Once, Accounted, Marks
<1> QED BY <1>2, <1>3, <1>4, <1>5 DEF RegistryInv, Found

\* A thread that begins to register an object nobody has, or makes it the target
\* of a handle that registers nothing.
LEMMA AllocRegistry ==
  ASSUME RegistryConstants, RegistryInv, NEW t \in Threads, Alloc(t) \/ AllocObject(t)
  PROVE  RegistryInv'
<1>1. /\ at[t] = "idle" /\ handle[t] = Null /\ next' = next
      /\ UNCHANGED <<slots, walk, marked, held>>
  BY DEF Alloc, AllocObject, markVars
<1>2. RegistryTypes /\ Stage(t)
  BY DEF RegistryInv
<1>3. PICK o \in Fresh :
        \/ Walk(t, "register", o) /\ UNCHANGED handleVars
        \/ /\ handle' = [handle EXCEPT ![t] = o] /\ bare' = bare \cup {t}
           /\ UNCHANGED <<at, object, left, free>>
  BY DEF Alloc, AllocObject, MakeBare
<1>4. o \in Objects /\ o # Null /\ Size \in Nat /\ ~InTable(t)
  BY <1>1, <1>2 DEF Fresh, RegistryConstants, RegistryTypes, Size, InTable
<1>5. CASE Walk(t, "register", o) /\ UNCHANGED handleVars
  <2>1. RegistryTypes'
    BY <1>1, <1>2, <1>4, <1>5 DEF RegistryTypes, Walk, Move, handleVars, Places, Size
  <2>2. Others(t)
    BY <1>1, <1>2, <1>5 DEF RegistryTypes, Walk, Move, handleVars, Others
  <2>3. at'[t] = "register" /\ object'[t] = o /\ handle'[t] = Null /\ next'[t] = Null
        /\ bare' = bare /\ t \notin bare
    BY <1>1, <1>2, <1>5 DEF RegistryTypes, Walk, Move, handleVars, Stage
  <2>4. Stage(t)' /\ ~InTable(t)' /\ Of(t)' \subseteq Of(t) \cup Fresh
    BY <2>3, <1>4 DEF Stage, InTable, Of
  <2>5. \A c : ~HeldBy(t, c) \/ c = Null
    BY <1>1 DEF HeldBy
  <2>6. \A c \in held' : HeldBy(t, c) => HeldBy(t, c)'
    BY <1>1, <2>5 DEF RegistryInv, Marks
  <2>7. Found(t)'
    BY <2>4 DEF Found
  <2> QED BY <1>1, <1>4, <2>1, <2>2, <2>4, <2>6, <2>7, ReadStep
<1>6. CASE /\ handle' = [handle EXCEPT ![t] = o] /\ bare' = bare \cup {t}
           /\ UNCHANGED <<at, object, left, free>>
  <2>1. RegistryTypes'
    BY <1>1, <1>2, <1>4, <1>6 DEF RegistryTypes, Size
  <2>2. Others(t)
    BY <1>1, <1>2, <1>6 DEF RegistryTypes, Others
  <2>3. at'[t] = "idle" /\ object'[t] = Null /\ handle'[t] = o /\ next'[t] = Null
        /\ t \in bare'
    BY <1>1, <1>2, <1>6 DEF RegistryTypes, Stage
  <2>4. Stage(t)' /\ ~InTable(t)' /\ Of(t)' \subseteq Of(t) \cup Fresh
    BY <2>3, <1>4 DEF Stage, InTable, Of
  <2>5. \A c : ~HeldBy(t, c) \/ c = Null
    BY <1>1 DEF HeldBy
  <2>6. \A c \in held' : HeldBy(t, c) => HeldBy(t, c)'
    BY <1>1, <2>5 DEF RegistryInv, Marks
  <2>7. Found(t)'
    BY <2>4 DEF Found
  <2> QED BY <1>1, <1>4, <2>1, <2>2, <2>4, <2>6, <2>7, ReadStep
<1> QED BY <1>3, <1>5, <1>6

LEMMA FreeRegistry ==
  ASSUME RegistryConstants, RegistryInv, NEW t \in Threads,
         NEW value \in Fresh \cup {handle[t], Null}, FreeHandle(t, value)
  PROVE  RegistryInv'
<1>1. /\ at[t] = "idle" /\ handle[t] # Null /\ Walk(t, "unregister", handle[t])
      /\ next' = [next EXCEPT ![t] = value] /\ held' = held \ {handle[t]}
      /\ UNCHANGED <<slots, handle, bare, walk, marked>>
  BY DEF FreeHandle, handleVars
<1>2. RegistryTypes /\ Stage(t) /\ Found(t) /\ Size \in Nat
  BY DEF RegistryInv, RegistryTypes, Size
<1>3. handle[t] \in Objects /\ value \in Objects \cup {Null}
  BY <1>1, <1>2 DEF RegistryTypes, Fresh
<1>4. RegistryTypes'
  BY <1>1, <1>2, <1>3 DEF RegistryTypes, Walk, Move, Places, Size
<1>5. Others(t)
  BY <1>1, <1>2 DEF RegistryTypes, Walk, Move, Others
<1>6. /\ at'[t] = "unregister" /\ object'[t] = handle[t] /\ handle'[t] = handle[t]
      /\ next'[t] = value /\ left'[t] = Size
  BY <1>1, <1>2 DEF RegistryTypes, Walk, Move, Size
<1>7. Stage(t)' /\ Of(t)' \subseteq Of(t) \cup Fresh /\ Entry(t)' = Entry(t)
  BY <1>1, <1>3, <1>6 DEF Stage, Of, RegistryConstants, Entry
<1>8. (InTable(t)' <=> InTable(t)) /\ Found(t)'
  <2>1. CASE t \in bare
    <3>1. ~InTable(t) /\ ~InTable(t)'
      BY <2>1, <1>1, <1>6 DEF InTable
    <3> QED BY <3>1 DEF Found
  <2>2. CASE t \notin bare
    <3>1. InTable(t)
      BY <2>2, <1>1 DEF InTable
    <3>2. PICK p \in 1 .. Size : Slot(p) = Entry(t)
      BY <3>1, <1>2 DEF Found
    <3>3. Size > 0
      BY <1>2
    <3>4. InTable(t)'
      BY <2>2, <3>3, <1>1, <1>6 DEF InTable
    <3>5. p \in 1 .. Size' /\ Slot(p)' = Entry(t)' /\ p <= left'[t]
      BY <3>2, <1>1, <1>2, <1>6, <1>7 DEF Size, Slot
    <3> QED BY <3>1, <3>4, <3>5, <1>6 DEF Found
  <2> QED BY <2>1, <2>2
<1>9. \A o \in held' : ~HeldBy(t, o)
  BY <1>1 DEF HeldBy
<1> QED BY <1>1, <1>4, <1>5, <1>7, <1>8, <1>9, ReadStep

\* The walk of a thread that registers never finds its object.
LEMMA VisitRegistry ==
  ASSUME RegistryConstants, RegistryInv, NEW t \in Threads, Visit(t)
  PROVE  RegistryInv'
<1>1. RegistryTypes /\ Stage(t) /\ Size \in Nat
  BY DEF RegistryInv, RegistryTypes, Size
<1>2. /\ at[t] = "register" /\ left[t] \in 1 .. Size /\ object[t] \in Objects
      /\ left' = [left EXCEPT ![t] = @ - 1]
      /\ UNCHANGED <<slots, handle, bare, object, next, walk, marked, held>>
  BY <1>1 DEF Visit, handleVars, markVars, Stage, RegistryTypes
<1>3. ~InTable(t) /\ object[t] # Null /\ object[t] \in Of(t)
  BY <1>2 DEF InTable, RegistryConstants, Of
<1>4. Slot(left[t]) # object[t]
  BY <1>2, <1>3, Absent
<1>5. /\ free' = [free EXCEPT ![t] = IF Slot(left[t]) = Null /\ @ = 0 THEN left[t] ELSE @]
      /\ at' = at
  BY <1>4 DEF Visit
<1>6. RegistryTypes'
  <2>1. left[t] - 1 \in Nat /\ left[t] - 1 <= Size /\ left[t] \in Nat /\ left[t] <= Size
    BY <1>1, <1>2
  <2>2. left' \in [Threads -> Nat] /\ \A u \in Threads : left'[u] <= Size
    BY <2>1, <1>1, <1>2 DEF RegistryTypes
  <2>3. free' \in [Threads -> Nat] /\ \A u \in Threads : free'[u] <= Size
    BY <2>1, <1>1, <1>5 DEF RegistryTypes
  <2> QED BY <2>2, <2>3, <1>1, <1>2, <1>5 DEF RegistryTypes, Size
<1>7. Others(t)
  BY <1>1, <1>2, <1>5 DEF RegistryTypes, Others
<1>8. Stage(t)' /\ ~InTable(t)' /\ Of(t)' \subseteq Of(t)
  BY <1>1, <1>2, <1>5 DEF Stage, InTable, Of
<1>9. \A o : ~HeldBy(t, o)
  BY <1>2 DEF HeldBy
<1>10. Found(t)'
  BY <1>8 DEF Found
<1> QED BY <1>2, <1>3, <1>6, <1>7, <1>8, <1>9, <1>10, ReadStep
LEMMA RegisteredRegistry ==
  ASSUME RegistryConstants, RegistryInv, NEW t \in Threads, Registered(t)
  PROVE  RegistryInv'
<1>1. RegistryTypes /\ Stage(t) /\ Found(t) /\ Size \in Nat
  BY DEF RegistryInv, RegistryTypes, Size
<1>2. /\ at[t] = "registered" /\ object[t] \in Objects /\ handle[t] = Null /\ next[t] = Null
      /\ UNCHANGED <<slots, next, walk, marked, held>>
  BY <1>1 DEF Registered, markVars, Stage
<1>3. RegistryTypes'
  BY <1>1, <1>2 DEF Registered, RegistryTypes, Move, Places, Size
<1>4. Others(t)
  BY <1>1, <1>2 DEF Registered, RegistryTypes, Move, Others
<1>5. /\ at'[t] = "idle" /\ handle'[t] = object[t] /\ object'[t] = Null /\ next'[t] = Null
      /\ t \notin bare'
  BY <1>1, <1>2 DEF Registered, RegistryTypes, Move
<1>6. /\ Stage(t)' /\ Of(t)' \subseteq Of(t) /\ InTable(t) /\ InTable(t)'
      /\ Entry(t)' = Entry(t)
  BY <1>2, <1>5 DEF Stage, Of, InTable, Entry, RegistryConstants
<1>7. Found(t)'
  <2>1. PICK p \in 1 .. Size : Slot(p) = Entry(t)
    BY <1>1, <1>6 DEF Found
  <2>2. p \in 1 .. Size' /\ Slot(p)' = Entry(t)'
    BY <2>1, <1>2, <1>6 DEF Size, Slot
  <2> QED BY <2>2, <1>5 DEF Found
<1>8. \A o : ~HeldBy(t, o)
  BY <1>2 DEF HeldBy
<1> QED BY <1>2, <1>3, <1>4, <1>6, <1>7, <1>8, ReadStep

\* A walk that unregisters comes to the slot of a strong handle, and of no other.
LEMMA SearchRegistry ==
  ASSUME RegistryConstants, RegistryInv, NEW t \in Threads, Search(t)
  PROVE  RegistryInv'
<1>1. RegistryTypes /\ Stage(t) /\ Found(t) /\ Size \in Nat
  BY DEF RegistryInv, RegistryTypes, Size
<1>2. /\ at[t] = "unregister" /\ left[t] \in 1 .. Size
      /\ object[t] \in Objects /\ object[t] # Null /\ handle[t] = object[t]
      /\ UNCHANGED <<slots, handle, bare, object, next, free, walk, marked, held>>
  BY <1>1 DEF Search, handleVars, markVars, Stage, RegistryTypes, RegistryConstants
<1>3. Entry(t) = object[t] /\ object[t] \in Of(t)
  BY <1>2 DEF Entry, Of
<1>4. \A o : ~HeldBy(t, o)
  BY <1>2 DEF HeldBy
<1>5. CASE Slot(left[t]) = object[t]
  <2>1. at' = [at EXCEPT ![t] = "clear"] /\ left' = left
    BY <1>5 DEF Search, Move
  <2>2. InTable(t)
    BY <1>2, <1>3, <1>5, Absent
  <2>3. RegistryTypes'
    BY <1>1, <1>2, <2>1 DEF RegistryTypes, Places, Size
  <2>4. Others(t)
    BY <1>1, <1>2, <2>1 DEF RegistryTypes, Others
  <2>5. at'[t] = "clear" /\ t \notin bare
    BY <1>1, <1>2, <2>1, <2>2 DEF RegistryTypes, InTable
  <2>6. /\ Stage(t)' /\ Of(t)' \subseteq Of(t) /\ InTable(t)' /\ Entry(t)' = Entry(t)
    BY <1>2, <1>3, <2>1, <2>5 DEF Stage, Of, InTable, Entry
  <2>7. Found(t)'
    <3>1. PICK p \in 1 .. Size : p = left[t]
      BY <1>2
    <3>2. p \in 1 .. Size' /\ Slot(p)' = Entry(t)' /\ p = left'[t]
      BY <3>1, <1>2, <1>3, <1>5, <2>1, <2>6 DEF Size, Slot
    <3> QED BY <3>2, <2>5 DEF Found
  <2> QED BY <1>2, <1>4, <2>2, <2>3, <2>4, <2>6, <2>7, ReadStep
<1>6. CASE Slot(left[t]) # object[t]
  <2>1. left' = [left EXCEPT ![t] = left[t] - 1] /\ at' = at
    BY <1>6 DEF Search
  <2>2. RegistryTypes'
    <3>1. left[t] - 1 \in Nat /\ left[t] - 1 <= Size BY <1>1, <1>2
    <3>2. left' \in [Threads -> Nat] /\ \A u \in Threads : left'[u] <= Size
      BY <3>1, <1>1, <2>1 DEF RegistryTypes
    <3> QED BY <3>2, <1>1, <1>2, <2>1 DEF RegistryTypes, Size
  <2>3. Others(t)
    BY <1>1, <1>2, <2>1 DEF RegistryTypes, Others
  <2>4. left'[t] = left[t] - 1 /\ left[t] \in Nat
    BY <1>1, <1>2, <2>1 DEF RegistryTypes
  <2>5. Stage(t)' /\ Of(t)' \subseteq Of(t) /\ Entry(t)' = Entry(t)
    BY <1>1, <1>2, <2>1 DEF Stage, Of, Entry
  <2>6. CASE t \in bare
    <3>1. ~InTable(t) /\ ~InTable(t)'
      BY <2>6, <1>2, <2>1 DEF InTable
    <3>2. Found(t)'
      BY <3>1 DEF Found
    <3> QED BY <1>2, <1>4, <2>2, <2>3, <2>5, <3>1, <3>2, ReadStep
  <2>7. CASE t \notin bare
    <3>1. InTable(t)
      BY <2>7, <1>2 DEF InTable
    <3>2. PICK p \in 1 .. Size : Slot(p) = object[t] /\ p <= left[t]
      BY <3>1, <1>1, <1>2, <1>3 DEF Found
    <3>3. p <= left[t] - 1 /\ left[t] - 1 > 0
      <4>1. p # left[t] BY <3>2, <1>6
      <4> QED BY <4>1, <3>2, <2>4, <1>1
    <3>4. InTable(t)'
      BY <2>7, <3>3, <2>4, <2>1, <1>2 DEF InTable
    <3>5. p \in 1 .. Size' /\ Slot(p)' = Entry(t)' /\ p <= left'[t]
      BY <3>2, <3>3, <2>4, <2>5, <1>2, <1>3 DEF Size, Slot
    <3>6. Found(t)'
      BY <3>5, <2>1, <1>2 DEF Found
    <3> QED BY <1>2, <1>4, <2>2, <2>3, <2>5, <3>1, <3>4, <3>6, ReadStep
  <2> QED BY <2>6, <2>7
<1> QED BY <1>5, <1>6

LEMMA UnregisteredRegistry ==
  ASSUME RegistryConstants, RegistryInv, NEW t \in Threads, Unregistered(t)
  PROVE  RegistryInv'
<1>1. RegistryTypes /\ Stage(t) /\ Size \in Nat
  BY DEF RegistryInv, RegistryTypes, Size
<1>2. /\ at[t] = "unregister" /\ left[t] = 0 /\ handle' = [handle EXCEPT ![t] = Null]
      /\ bare' = bare \ {t} /\ next' = [next EXCEPT ![t] = Null]
      /\ UNCHANGED <<slots, walk, marked, held>>
  BY DEF Unregistered, markVars
<1>3. ~InTable(t) /\ \A o : ~HeldBy(t, o)
  BY <1>2 DEF InTable, HeldBy
<1>4. CASE next[t] # Null
  <2>1. Walk(t, "register", next[t]) /\ next[t] \in Objects
    BY <1>1, <1>4 DEF Unregistered, RegistryTypes
  <2>2. RegistryTypes'
    BY <1>1, <1>2, <2>1 DEF RegistryTypes, Walk, Move, Places, Size
  <2>3. Others(t)
    BY <1>1, <1>2, <2>1 DEF RegistryTypes, Walk, Move, Others
  <2>4. /\ at'[t] = "register" /\ object'[t] = next[t] /\ handle'[t] = Null
        /\ next'[t] = Null /\ t \notin bare'
    BY <1>1, <1>2, <2>1 DEF RegistryTypes, Walk, Move
  <2>5. Stage(t)' /\ Of(t)' \subseteq Of(t) /\ ~InTable(t)'
    BY <2>1, <2>4 DEF Stage, Of, InTable
  <2>6. Found(t)'
    BY <2>5 DEF Found
  <2> QED BY <1>2, <1>3, <2>2, <2>3, <2>5, <2>6, ReadStep
<1>5. CASE next[t] = Null
  <2>1. /\ at' = [at EXCEPT ![t] = "idle"] /\ object' = [object EXCEPT ![t] = Null]
        /\ UNCHANGED <<left, free>>
    BY <1>5 DEF Unregistered, Move
  <2>2. RegistryTypes'
    BY <1>1, <1>2, <2>1 DEF RegistryTypes, Places, Size
  <2>3. Others(t)
    BY <1>1, <1>2, <2>1 DEF RegistryTypes, Others
  <2>4. /\ at'[t] = "idle" /\ object'[t] = Null /\ handle'[t] = Null
        /\ next'[t] = Null /\ t \notin bare'
    BY <1>1, <1>2, <2>1 DEF RegistryTypes
  <2>5. Stage(t)' /\ Of(t)' \subseteq Of(t) /\ ~InTable(t)'
    BY <2>4 DEF Stage, Of, InTable
  <2>6. Found(t)'
    BY <2>5 DEF Found
  <2> QED BY <1>2, <1>3, <2>2, <2>3, <2>5, <2>6, ReadStep
<1> QED BY <1>4, <1>5

-----------------------------------------------------------------------------
\* The object of a thread that registers comes into the free slot n, of an old
\* block or of a new one: nobody else has it, and what was there stays.
LEMMA StoreStep ==
  ASSUME RegistryConstants, RegistryInv, NEW t \in Threads, Others(t), RegistryTypes',
         UNCHANGED <<handle, bare, object, next, walk, marked, held>>,
         at[t] = "register", at'[t] = "registered", object[t] # Null,
         Size \in Nat, Size' \in Nat, Size <= Size',
         NEW n \in 1 .. Size', Slot(n)' = object[t],
         \A p \in 1 .. Size : p = n => Slot(p) = Null,
         \A p \in 1 .. Size : p # n => Slot(p)' = Slot(p),
         \A p \in (Size + 1) .. Size' : p # n => Slot(p)' = Null
  PROVE  RegistryInv'
<1>1. \A p \in 1 .. Size' :
        p = n \/ Slot(p)' = Null \/ (p \in 1 .. Size /\ Slot(p)' = Slot(p))
  OBVIOUS
<1>2. \A p \in 1 .. Size : Slot(p) # Null => Slot(p) # object[t] /\ p # n
  <2>1. ~InTable(t) /\ object[t] \in Of(t)
    BY DEF InTable, Of
  <2> QED BY <2>1, Absent
<1>3. /\ Stage(t)' /\ Of(t)' = Of(t) /\ InTable(t)' /\ Entry(t)' = object[t]
  BY DEF Stage, RegistryInv, Of, InTable, Entry
<1>4. \A u \in Threads : Stage(u)' /\ Found(u)'
  <2> SUFFICES ASSUME NEW u \in Threads PROVE Stage(u)' /\ Found(u)'
    OBVIOUS
  <2>1. CASE u = t
    BY <2>1, <1>3 DEF Found
  <2>2. CASE u # t
    <3>1. at'[u] = at[u] /\ left'[u] = left[u]
      BY <2>2 DEF Others
    <3>2. Stage(u)' /\ (InTable(u)' <=> InTable(u)) /\ Entry(u)' = Entry(u)
      BY <2>2, OthersSame DEF RegistryInv
    <3>3. ASSUME InTable(u) PROVE Found(u)'
      <4>1. PICK p \in 1 .. Size : /\ Slot(p) = Entry(u)
                                   /\ at[u] = "unregister" => p <= left[u]
                                   /\ at[u] = "clear" => p = left[u]
        BY <3>3 DEF RegistryInv, Found
      <4>2. Entry(u) # Null
        BY <3>3 DEF RegistryInv, Stage, InTable, Entry, RegistryConstants
      <4>3. p # n /\ p \in 1 .. Size'
        BY <4>1, <4>2, <1>2
      <4> QED BY <4>1, <4>3, <3>1, <3>2 DEF Found
    <3>4. ASSUME ~InTable(u) PROVE Found(u)'
      BY <3>2, <3>4 DEF Found
    <3> QED BY <3>2, <3>3, <3>4
  <2> QED BY <2>1, <2>2
<1>5. Alone'
  BY <1>3, AloneStep, OthersSame DEF RegistryInv
<1>6. Once'
  <2> SUFFICES ASSUME NEW p \in 1 .. Size', NEW q \in 1 .. Size',
                      Slot(p)' = Slot(q)', Slot(p)' # Null
               PROVE  p = q
    BY DEF Once
  <2>1. CASE p = n \/ q = n
    BY <2>1, <1>1, <1>2
  <2>2. CASE p # n /\ q # n
    BY <2>2, <1>1 DEF RegistryInv, Once
  <2> QED BY <2>1, <2>2
<1>7. Accounted'
  <2> SUFFICES ASSUME NEW p \in 1 .. Size', Slot(p)' # Null
               PROVE  \E u \in Threads : InTable(u)' /\ Entry(u)' = Slot(p)'
    BY DEF Accounted
  <2>1. CASE p = n
    BY <2>1, <1>3
  <2>2. CASE p # n
    <3>1. p \in 1 .. Size /\ Slot(p)' = Slot(p) /\ Slot(p) # Null
      BY <2>2, <1>1
    <3>2. PICK u \in Threads : InTable(u) /\ Entry(u) = Slot(p)
      BY <3>1 DEF RegistryInv, Accounted
    <3>3. u # t
      BY <3>2 DEF InTable
    <3>4. InTable(u)' /\ Entry(u)' = Entry(u)
      BY <3>2, <3>3, OthersSame
    <3> QED BY <3>1, <3>2, <3>4
  <2> QED BY <2>1, <2>2
<1>8. Marks'
  <2> SUFFICES ASSUME NEW o \in held
               PROVE  /\ o # Null /\ \E u \in Threads : HeldBy(u, o)'
                      /\ o \in marked \/ \E p \in 1 .. walk : Slot(p)' = o
    BY DEF Marks
  <2>1. /\ o # Null /\ \E u \in Threads : HeldBy(u, o)
        /\ o \in marked \/ \E p \in 1 .. walk : Slot(p) = o
    BY DEF RegistryInv, Marks
  <2>2. PICK u \in Threads : HeldBy(u, o)
    BY <2>1
  <2>3. u # t
    BY <2>2 DEF HeldBy
  <2>4. HeldBy(u, o)'
    BY <2>2, <2>3, OthersSame
  <2>5. ASSUME NEW p \in 1 .. walk, Slot(p) = o PROVE Slot(p)' = o
    <3>1. p \in 1 .. Size
      BY DEF RegistryInv, RegistryTypes
    <3> QED BY <3>1, <2>5, <2>1, <1>2
  <2> QED BY <2>1, <2>4, <2>5
<1> QED BY <1>4, <1>5, <1>6, <1>7, <1>8 DEF RegistryInv
LEMMA TryStoreRegistry ==
  ASSUME RegistryConstants, RegistryInv, NEW t \in Threads, TryStore(t)
  PROVE  RegistryInv'
<1>1. RegistryTypes /\ Stage(t) /\ Size \in Nat /\ Size = Len(slots)
  BY DEF RegistryInv, RegistryTypes, Size
<1>2. /\ at[t] = "register" /\ free[t] \in 1 .. Size
      /\ object[t] \in Objects /\ object[t] # Null
      /\ free' = [free EXCEPT ![t] = 0]
      /\ UNCHANGED <<handle, bare, object, next, left, walk, marked, held>>
  BY <1>1 DEF TryStore, handleVars, markVars, Stage, RegistryTypes, RegistryConstants
<1>3. CASE StillFree(t)
  <2>1. PICK n \in 1 .. Size : n = free[t]
    BY <1>2
  <2>2. /\ Slot(n) = Null /\ at' = [at EXCEPT ![t] = "registered"]
        /\ slots' = [slots EXCEPT ![Len(slots) - n + 1] = object[t]]
    BY <1>3, <2>1 DEF TryStore, StillFree, Stored, Move
  <2>3. /\ slots' \in Seq(Objects \cup {Null}) /\ Size' = Size
        /\ \A p \in 1 .. Size : Slot(p)' = IF p = n THEN object[t] ELSE Slot(p)
    <3>1. Len(slots) - n + 1 \in 1 .. Len(slots)
      BY <1>1
    <3>2. slots' \in Seq(Objects \cup {Null}) /\ Len(slots') = Len(slots)
      BY <1>1, <1>2, <2>2, <3>1 DEF RegistryTypes
    <3>3. ASSUME NEW p \in 1 .. Size
          PROVE  Slot(p)' = IF p = n THEN object[t] ELSE Slot(p)
      <4>1. Len(slots) - p + 1 \in 1 .. Len(slots) /\ (Len(slots) - p + 1 = Len(slots) - n + 1 <=> p = n)
        BY <1>1
      <4>2. Slot(p)' = slots'[Len(slots) - p + 1]
        BY <3>2 DEF Slot
      <4> QED BY <1>1, <2>2, <3>1, <4>1, <4>2 DEF Slot, RegistryTypes
    <3> QED BY <3>2, <3>3 DEF Size
  <2>4. RegistryTypes'
    BY <1>1, <1>2, <2>2, <2>3 DEF RegistryTypes, Places
  <2>5. Others(t) /\ at'[t] = "registered"
    BY <1>1, <1>2, <2>2 DEF RegistryTypes, Others
  <2>6. n \in 1 .. Size' /\ Slot(n)' = object[t] /\ (Size + 1) .. Size' = {}
    BY <1>1, <2>3
  <2> QED BY <1>1, <1>2, <2>2, <2>3, <2>4, <2>5, <2>6, StoreStep
<1>4. CASE ~StillFree(t)
  <2>1. at' = at /\ slots' = slots
    BY <1>4 DEF TryStore
  <2>2. RegistryTypes'
    BY <1>1, <1>2, <2>1 DEF RegistryTypes, Size
  <2>3. Others(t)
    BY <1>1, <1>2, <2>1 DEF RegistryTypes, Others
  <2>4. /\ Stage(t)' /\ Of(t)' \subseteq Of(t) /\ ~InTable(t) /\ ~InTable(t)'
        /\ \A o : ~HeldBy(t, o)
    BY <1>1, <1>2, <2>1 DEF Stage, Of, InTable, HeldBy
  <2>5. Found(t)'
    BY <2>4 DEF Found
  <2> QED BY <1>2, <2>1, <2>2, <2>3, <2>4, <2>5, ReadStep
<1> QED BY <1>3, <1>4

LEMMA AppendRegistry ==
  ASSUME RegistryConstants, RegistryInv, NEW t \in Threads, AppendBlock(t)
  PROVE  RegistryInv'
<1> DEFINE block == [i \in 1 .. BlockSize |-> IF i = 1 THEN object[t] ELSE Null]
<1>1. RegistryTypes /\ Stage(t) /\ Size \in Nat /\ Size = Len(slots) /\ BlockSize \in Nat \ {0}
  BY DEF RegistryInv, RegistryTypes, Size, RegistryConstants
<1>2. /\ at[t] = "register" /\ object[t] \in Objects /\ object[t] # Null
      /\ slots' = block \o slots /\ at' = [at EXCEPT ![t] = "registered"]
      /\ UNCHANGED <<handle, bare, object, next, left, free, walk, marked, held>>
  BY <1>1 DEF AppendBlock, Move, handleVars, markVars, Stage, RegistryConstants
<1>3. PICK n \in Nat : n = Size + BlockSize
  BY <1>1
<1>4. block \in Seq(Objects \cup {Null}) /\ Len(block) = BlockSize
  BY <1>1, <1>2
<1>5. slots' \in Seq(Objects \cup {Null}) /\ Len(slots') = n /\ Size' = n
  <2> HIDE DEF block
  <2>1. slots \in Seq(Objects \cup {Null})
    BY <1>1 DEF RegistryTypes
  <2>2. /\ block \o slots \in Seq(Objects \cup {Null})
        /\ Len(block \o slots) = Len(block) + Len(slots)
    BY <2>1, <1>4, ConcatProperties
  <2> QED BY <1>1, <1>2, <1>3, <1>4, <2>2 DEF Size
<1>6. ASSUME NEW p \in 1 .. Size PROVE Slot(p)' = Slot(p)
  <2>1. Slot(p)' = slots'[n - p + 1]
    BY <1>5 DEF Slot
  <2>2. n - p + 1 \in 1 .. n /\ n - p + 1 > BlockSize /\ n - p + 1 - BlockSize = Len(slots) - p + 1
    BY <1>1, <1>3
  <2>3. slots'[n - p + 1] = slots[n - p + 1 - BlockSize]
    <3> HIDE DEF block
    <3> QED BY <1>1, <1>2, <1>3, <1>4, <2>2 DEF RegistryTypes
  <2> QED BY <2>1, <2>2, <2>3 DEF Slot
<1>7. ASSUME NEW p \in (Size + 1) .. n PROVE Slot(p)' = IF p = n THEN object[t] ELSE Null
  <2>1. Slot(p)' = slots'[n - p + 1]
    BY <1>5 DEF Slot
  <2>2. n - p + 1 \in 1 .. BlockSize /\ (n - p + 1 = 1 <=> p = n)
    BY <1>1, <1>3
  <2>3. slots'[n - p + 1] = block[n - p + 1]
    <3> HIDE DEF block
    <3> QED BY <1>1, <1>2, <1>3, <1>4, <2>2 DEF RegistryTypes
  <2>4. block[n - p + 1] = IF n - p + 1 = 1 THEN object[t] ELSE Null
    BY <2>2
  <2> HIDE DEF block
  <2> QED BY <2>1, <2>2, <2>3, <2>4
<1>8. RegistryTypes'
  <2>1. Size <= Size'
    BY <1>1, <1>3, <1>5
  <2> QED BY <1>1, <1>2, <1>5, <2>1 DEF RegistryTypes, Places
<1>9. Others(t) /\ at'[t] = "registered"
  BY <1>1, <1>2 DEF RegistryTypes, Others
<1>10. /\ n \in (Size + 1) .. n /\ Size <= Size' /\ Size' \in Nat /\ n \in 1 .. Size'
       /\ ~(n \in 1 .. Size)
  BY <1>1, <1>3, <1>5
<1>11. Slot(n)' = object[t]
  BY <1>7, <1>10
<1>12. \A p \in (Size + 1) .. Size' : p # n => Slot(p)' = Null
  BY <1>5, <1>7
<1> HIDE DEF block
<1> QED BY <1>1, <1>2, <1>6, <1>8, <1>9, <1>10, <1>11, <1>12, StoreStep
\* The slot of the object becomes free; those of others stay.
LEMMA ClearRegistry ==
  ASSUME RegistryConstants, RegistryInv, NEW t \in Threads, Clear(t)
  PROVE  RegistryInv'
<1>1. RegistryTypes /\ Stage(t) /\ Found(t) /\ Size \in Nat /\ Size = Len(slots)
  BY DEF RegistryInv, RegistryTypes, Size
<1>2. /\ at[t] = "clear" /\ object[t] \in Objects /\ handle[t] = object[t] /\ t \notin bare
      /\ at' = [at EXCEPT ![t] = "unregister"] /\ left' = [left EXCEPT ![t] = 0]
      /\ slots' = [slots EXCEPT ![Len(slots) - left[t] + 1] = Null]
      /\ UNCHANGED <<handle, bare, object, next, free, walk, marked, held>>
  BY <1>1 DEF Clear, Stored, Move, handleVars, markVars, Stage
<1>3. InTable(t) /\ Entry(t) = object[t] /\ object[t] # Null
  BY <1>2 DEF InTable, Entry, RegistryConstants
<1>4. PICK n \in 1 .. Size : n = left[t] /\ Slot(n) = object[t]
  BY <1>1, <1>2, <1>3 DEF Found
<1>5. /\ slots' \in Seq(Objects \cup {Null}) /\ Size' = Size
      /\ \A p \in 1 .. Size : Slot(p)' = IF p = n THEN Null ELSE Slot(p)
  <2>1. Len(slots) - n + 1 \in 1 .. Len(slots)
    BY <1>1
  <2>2. slots' \in Seq(Objects \cup {Null}) /\ Len(slots') = Len(slots)
    BY <1>1, <1>2, <1>4, <2>1 DEF RegistryTypes
  <2>3. ASSUME NEW p \in 1 .. Size PROVE Slot(p)' = IF p = n THEN Null ELSE Slot(p)
    <3>1. Len(slots) - p + 1 \in 1 .. Len(slots) /\ (Len(slots) - p + 1 = Len(slots) - n + 1 <=> p = n)
      BY <1>1
    <3>2. Slot(p)' = slots'[Len(slots) - p + 1]
      BY <2>2 DEF Slot
    <3> QED BY <1>1, <1>2, <1>4, <2>1, <3>1, <3>2 DEF Slot, RegistryTypes
  <2> QED BY <2>2, <2>3 DEF Size
<1>6. RegistryTypes'
  BY <1>1, <1>2, <1>5 DEF RegistryTypes, Places
<1>7. Others(t)
  BY <1>1, <1>2 DEF RegistryTypes, Others
<1>8. at'[t] = "unregister" /\ left'[t] = 0
  BY <1>1, <1>2 DEF RegistryTypes
<1>9. Stage(t)' /\ ~InTable(t)' /\ Of(t)' = Of(t)
  BY <1>2, <1>8 DEF Stage, InTable, Of
<1>10. ASSUME NEW u \in Threads, u # t, InTable(u) PROVE Entry(u) # object[t]
  <2>1. Entry(u) \in Of(u) \/ Entry(u) = Null
    BY DEF Entry, Of
  <2>2. object[t] \in Of(t)
    BY <1>3 DEF Of
  <2> QED BY <2>1, <2>2, <1>3, <1>10 DEF RegistryInv, Alone
<1>11. \A u \in Threads : Stage(u)' /\ Found(u)'
  <2> SUFFICES ASSUME NEW u \in Threads PROVE Stage(u)' /\ Found(u)'
    OBVIOUS
  <2>1. CASE u = t
    BY <2>1, <1>9 DEF Found
  <2>2. CASE u # t
    <3>1. at'[u] = at[u] /\ left'[u] = left[u]
      BY <2>2, <1>7 DEF Others
    <3>2. Stage(u)' /\ (InTable(u)' <=> InTable(u)) /\ Entry(u)' = Entry(u)
      BY <2>2, <1>7, OthersSame DEF RegistryInv
    <3>3. ASSUME InTable(u) PROVE Found(u)'
      <4>1. PICK p \in 1 .. Size : /\ Slot(p) = Entry(u)
                                   /\ at[u] = "unregister" => p <= left[u]
                                   /\ at[u] = "clear" => p = left[u]
        BY <3>3 DEF RegistryInv, Found
      <4>2. p # n
        BY <4>1, <1>4, <1>10, <2>2, <3>3
      <4> QED BY <4>1, <4>2, <3>1, <3>2, <1>5 DEF Found
    <3>4. ASSUME ~InTable(u) PROVE Found(u)'
      BY <3>2, <3>4 DEF Found
    <3> QED BY <3>2, <3>3, <3>4
  <2> QED BY <2>1, <2>2
<1>12. Alone'
  BY <1>7, <1>9, AloneStep, OthersSame DEF RegistryInv
<1>13. Once'
  BY <1>5 DEF RegistryInv, Once
<1>14. Accounted'
  <2> SUFFICES ASSUME NEW p \in 1 .. Size, Slot(p)' # Null
               PROVE  \E u \in Threads : InTable(u)' /\ Entry(u)' = Slot(p)'
    BY <1>5 DEF Accounted
  <2>1. p # n /\ Slot(p)' = Slot(p)
    BY <1>5
  <2>2. PICK u \in Threads : InTable(u) /\ Entry(u) = Slot(p)
    BY <2>1 DEF RegistryInv, Accounted
  <2>3. u # t
    BY <2>1, <2>2, <1>3, <1>4 DEF RegistryInv, Once
  <2>4. InTable(u)' /\ Entry(u)' = Entry(u)
    BY <2>2, <2>3, <1>7, OthersSame
  <2> QED BY <2>1, <2>2, <2>4
<1>15. Marks'
  <2> SUFFICES ASSUME NEW o \in held
               PROVE  /\ o # Null /\ \E u \in Threads : HeldBy(u, o)'
                      /\ o \in marked \/ \E p \in 1 .. walk : Slot(p)' = o
    BY <1>2 DEF Marks
  <2>1. /\ o # Null /\ \E u \in Threads : HeldBy(u, o)
        /\ o \in marked \/ \E p \in 1 .. walk : Slot(p) = o
    BY DEF RegistryInv, Marks
  <2>2. PICK u \in Threads : HeldBy(u, o)
    BY <2>1
  <2>3. u # t /\ InTable(u) /\ Entry(u) = o
    BY <2>1, <2>2, <1>2 DEF HeldBy, InTable, Entry
  <2>4. HeldBy(u, o)'
    BY <2>2, <2>3, <1>7, OthersSame
  <2>5. o # object[t]
    BY <2>3, <1>10
  <2>6. ASSUME NEW p \in 1 .. walk, Slot(p) = o PROVE Slot(p)' = o
    <3>1. p \in 1 .. Size
      BY <1>1 DEF RegistryTypes
    <3> QED BY <3>1, <2>5, <2>6, <1>4, <1>5
  <2> QED BY <2>1, <2>4, <2>6
<1> QED BY <1>6, <1>11, <1>12, <1>13, <1>14, <1>15 DEF RegistryInv

-----------------------------------------------------------------------------
\* The collector begins with what is registered; it goes on to the next slot.
LEMMA MarkRegistry ==
  ASSUME RegistryConstants, RegistryInv, BeginMark \/ Mark
  PROVE  RegistryInv'
<1>1. RegistryTypes /\ Size \in Nat /\ Size = Len(slots)
  BY DEF RegistryInv, RegistryTypes, Size
<1>2. UNCHANGED <<slots, handle, bare, at, object, next, left, free>>
  BY DEF BeginMark, Mark, handleVars, threadVars
<1>3. walk' \in Nat /\ walk' <= Size
  BY <1>1 DEF BeginMark, Mark, RegistryTypes
<1>4. RegistryTypes'
  BY <1>1, <1>2, <1>3 DEF RegistryTypes, Size
<1>5. (\A t \in Threads : Stage(t) /\ Found(t))' /\ Alone' /\ Once' /\ Accounted'
  <2>1. (\A t \in Threads : Stage(t) /\ Found(t))' /\ Accounted'
    BY <1>2 DEF RegistryInv, Stage, Found, InTable, Entry, Accounted, Size, Slot
  <2>2. Alone' /\ Once'
    BY <1>2 DEF RegistryInv, Alone, Of, Once, Size, Slot
  <2> QED BY <2>1, <2>2
<1>6. CASE BeginMark
  <2>1. /\ walk' = Size
        /\ held' = {handle[t] : t \in {t \in Threads \ bare : at[t] = "idle"}} \ {Null}
    BY <1>1, <1>6 DEF BeginMark
  <2> SUFFICES ASSUME NEW o \in held'
               PROVE  /\ o # Null /\ \E t \in Threads : HeldBy(t, o)
                      /\ \E p \in 1 .. Size : Slot(p) = o
    BY <1>2, <1>4, <1>5, <2>1 DEF RegistryInv, Marks, HeldBy, Slot
  <2>2. PICK t \in Threads : HeldBy(t, o) /\ o # Null
    BY <2>1 DEF HeldBy
  <2>3. InTable(t) /\ Entry(t) = o
    BY <2>2 DEF HeldBy, InTable, Entry
  <2> QED BY <2>2, <2>3 DEF RegistryInv, Found
<1>7. CASE Mark
  <2>1. /\ walk > 0 /\ walk' = walk - 1 /\ held' = held
        /\ marked' = marked \cup ({Slot(walk)} \ {Null})
    BY <1>7 DEF Mark
  <2> SUFFICES ASSUME NEW o \in held
               PROVE  /\ o # Null /\ \E t \in Threads : HeldBy(t, o)
                      /\ o \in marked' \/ \E p \in 1 .. (walk - 1) : Slot(p) = o
    BY <1>2, <1>4, <1>5, <2>1 DEF RegistryInv, Marks, HeldBy, Slot
  <2>2. /\ o # Null /\ \E t \in Threads : HeldBy(t, o)
        /\ o \in marked \/ \E p \in 1 .. walk : Slot(p) = o
    BY DEF RegistryInv, Marks
  <2>3. ASSUME NEW p \in 1 .. walk, Slot(p) = o
        PROVE  o \in marked' \/ p \in 1 .. (walk - 1)
    <3>1. CASE p = walk
      BY <3>1, <2>1, <2>2, <2>3
    <3>2. CASE p # walk
      BY <3>2, <1>1 DEF RegistryTypes
    <3> QED BY <3>1, <3>2
  <2> QED BY <2>1, <2>2, <2>3
<1> QED BY <1>6, <1>7

LEMMA NextRegistry == RegistryConstants /\ RegistryInv /\ [Next]_vars => RegistryInv'
<1> SUFFICES ASSUME RegistryConstants, RegistryInv, [Next]_vars PROVE RegistryInv'
  OBVIOUS
<1>1. ASSUME NEW t \in Threads, Alloc(t) \/ AllocObject(t) PROVE RegistryInv'
  BY <1>1, AllocRegistry
<1>2. ASSUME NEW t \in Threads, Visit(t) PROVE RegistryInv'
  BY <1>2, VisitRegistry
<1>3. ASSUME NEW t \in Threads, TryStore(t) PROVE RegistryInv'
  BY <1>3, TryStoreRegistry
<1>4. ASSUME NEW t \in Threads, AppendBlock(t) PROVE RegistryInv'
  BY <1>4, AppendRegistry
<1>5. ASSUME NEW t \in Threads, Registered(t) PROVE RegistryInv'
  BY <1>5, RegisteredRegistry
<1>6. ASSUME NEW t \in Threads, NEW value \in Fresh \cup {handle[t], Null}, FreeHandle(t, value)
      PROVE  RegistryInv'
  BY <1>6, FreeRegistry
<1>7. ASSUME NEW t \in Threads, Search(t) PROVE RegistryInv'
  BY <1>7, SearchRegistry
<1>8. ASSUME NEW t \in Threads, Clear(t) PROVE RegistryInv'
  BY <1>8, ClearRegistry
<1>9. ASSUME NEW t \in Threads, Unregistered(t) PROVE RegistryInv'
  BY <1>9, UnregisteredRegistry
<1>10. CASE BeginMark \/ Mark
  BY <1>10, MarkRegistry
<1>11. CASE UNCHANGED vars
  <2>1. UNCHANGED <<slots, handle, bare, at, object, next, left, free, walk, marked, held>>
    BY <1>11 DEF vars
  <2>2. RegistryTypes' /\ Alone' /\ Once' /\ Marks'
    BY <2>1 DEF RegistryInv, RegistryTypes, Alone, Of, Once, Marks, HeldBy, Size, Slot
  <2>3. (\A t \in Threads : Stage(t) /\ Found(t))' /\ Accounted'
    BY <2>1 DEF RegistryInv, Stage, Found, InTable, Entry, Accounted, Size, Slot
  <2> QED BY <2>2, <2>3 DEF RegistryInv
<1> QED
  BY <1>1, <1>2, <1>3, <1>4, <1>5, <1>6, <1>7, <1>8, <1>9, <1>10, <1>11 DEF Next

\* What is in the table once, or not at all, in numbers.
LEMMA Counted ==
  ASSUME RegistryInv, NEW o, o # Null
  PROVE  /\ (\E p \in 1 .. Size : Slot(p) = o) => Occurrences(o) = 1
         /\ ~(\E p \in 1 .. Size : Slot(p) = o) => Occurrences(o) = 0
<1> DEFINE S == {i \in DOMAIN slots : slots[i] = o}
<1>1. DOMAIN slots = 1 .. Size /\ Size \in Nat /\ Size = Len(slots)
  BY DEF RegistryInv, RegistryTypes, Size
<1>2. ASSUME NEW i \in S PROVE Size - i + 1 \in 1 .. Size /\ Slot(Size - i + 1) = o
  <2>1. i \in 1 .. Size /\ slots[i] = o
    BY <1>1
  <2>2. Size - i + 1 \in 1 .. Size /\ Size - (Size - i + 1) + 1 = i
    BY <1>1, <2>1
  <2> QED BY <1>1, <2>1, <2>2 DEF Slot
<1>3. CASE \E p \in 1 .. Size : Slot(p) = o
  <2>1. PICK p \in 1 .. Size : Slot(p) = o
    BY <1>3
  <2>2. Size - p + 1 \in 1 .. Size /\ slots[Size - p + 1] = o
    BY <1>1, <2>1 DEF Slot
  <2>3. ASSUME NEW i \in S PROVE i = Size - p + 1
    <3>1. Size - i + 1 = p
      BY <1>2, <2>1 DEF RegistryInv, Once
    <3> QED BY <3>1, <1>1
  <2>4. S = {Size - p + 1}
    BY <1>1, <2>2, <2>3
  <2> QED BY <2>1, <2>4, FS_Singleton DEF Occurrences
<1>4. CASE ~(\E p \in 1 .. Size : Slot(p) = o)
  <2>1. S = {}
    BY <1>2, <1>4
  <2> QED BY <1>4, <2>1, FS_EmptySet DEF Occurrences
<1> QED BY <1>3, <1>4

\* Whatever other threads register and unregister at the same time, the object of
\* a handle that registers is registered once, no other object is, those of
\* Alloc(object) neither, and a collection marks each object that stays registered
\* while it walks (il2c_allocator.c:288, 310, GCHandle.c:46), if no object has two
\* handles.
THEOREM RegistrationsAgree ==
  ASSUME RegistryConstants
  PROVE  Spec => []RegistryAgrees
<1>1. Init => RegistryInv
  BY InitRegistry
<1>2. RegistryInv /\ [Next]_vars => RegistryInv'
  BY NextRegistry
<1>3. RegistryInv => RegistryAgrees
  <2> SUFFICES ASSUME RegistryInv PROVE RegistryAgrees
    OBVIOUS
  <2>1. ASSUME NEW t \in Threads, at[t] = "idle", handle[t] # Null
        PROVE  Occurrences(handle[t]) = IF t \in bare THEN 0 ELSE 1
    <3>1. handle[t] \in Of(t)
      BY <2>1 DEF Of
    <3>2. CASE t \in bare
      <4>1. ~InTable(t)
        BY <3>2, <2>1 DEF InTable
      <4>2. ~(\E p \in 1 .. Size : Slot(p) = handle[t])
        BY <4>1, <3>1, <2>1, Absent
      <4> QED BY <4>2, <3>2, <2>1, Counted
    <3>3. CASE t \notin bare
      <4>1. InTable(t) /\ Entry(t) = handle[t]
        BY <3>3, <2>1 DEF InTable, Entry
      <4>2. \E p \in 1 .. Size : Slot(p) = handle[t]
        BY <4>1 DEF RegistryInv, Found
      <4> QED BY <4>2, <3>3, <2>1, Counted
    <3> QED BY <3>2, <3>3
  <2>2. ASSUME NEW o \in Fresh PROVE Occurrences(o) = 0
    <3>1. o # Null
      BY DEF Fresh, RegistryConstants
    <3>2. ~(\E p \in 1 .. Size : Slot(p) = o)
      BY <3>1, Absent
    <3> QED BY <3>1, <3>2, Counted
  <2>3. walk = 0 => held \subseteq marked
    BY DEF RegistryInv, Marks
  <2> QED BY <2>1, <2>2, <2>3 DEF RegistryAgrees
<1> QED BY <1>1, <1>2, <1>3, PTL DEF Spec
===============================================================================
