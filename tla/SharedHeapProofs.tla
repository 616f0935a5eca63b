--------------------------- MODULE SharedHeapProofs ---------------------------
(***************************************************************************)
(* The list of headers stays one, for any threads and headers and however  *)
(* pushes meet the sweep.                                                  *)
(*                                                                         *)
(* The argument: the list is a set of headers whose links lead downwards   *)
(* in some ranking, no two to the same one and none to the head (ListOf);  *)
(* the sweep stands between two neighbours of it; the block of a thread    *)
(* that makes an object is nobody else's and not INITIALIZED, hence not    *)
(* discarded, and until it is pushed it is not in the list (Owned, Apart). *)
(***************************************************************************)
EXTENDS SharedHeap, SequenceTheorems, WellFoundedInduction, TLAPS

HeapConstants == Null \notin Headers /\ "begin" \notin Headers

Places ==
  {"managed", "malloc", "head", "link", "index", "mark", "anchor", "initialize", "initialized",
   "invert", "marking", "sweep"}
HeapTypes ==
  /\ begin \in Headers \cup {Null} /\ pNext \in [Headers -> Headers \cup {Null}]
  /\ init \in [Headers -> BOOLEAN] /\ allocated \in SUBSET Headers /\ index \in {0, 1}
  /\ at \in [Threads -> Places] /\ header \in [Threads -> Headers \cup {Null}]
  /\ read \in [Threads -> Headers \cup {Null, 0, 1}]
  /\ current \in Headers \cup {Null} /\ previous \in Headers \cup {"begin"}
  /\ scheduled \in Seq(Headers)

\* Where a thread has a block that is not an object yet.
Making == {"head", "link", "index", "mark", "anchor", "initialize"}
Owned ==
  \A t \in Threads :
    /\ at[t] \in Making => header[t] \in allocated /\ ~init[header[t]]
    /\ at[t] = "link" => pNext[header[t]] = read[t]
Apart ==
  \A t, u \in Threads :
    t # u /\ at[t] \in Making /\ at[u] \in Making => header[t] # header[u]
Discarded ==
  /\ \A i \in 1 .. Len(scheduled) : scheduled[i] \in allocated /\ init[scheduled[i]]
  /\ \A i, j \in 1 .. Len(scheduled) : scheduled[i] = scheduled[j] => i = j

\* L is the list, and r is less for what comes later in it.
ListOf(L, r) ==
  /\ begin \in L \cup {Null}
  /\ \A h \in L : /\ pNext[h] \in L \cup {Null}
                  /\ pNext[h] # Null => r[pNext[h]] < r[h] /\ pNext[h] # begin
  /\ \A h, k \in L : pNext[h] = pNext[k] /\ pNext[h] # Null => h = k
  /\ \A h \in L : h \in allocated /\ \A i \in 1 .. Len(scheduled) : scheduled[i] # h
  /\ current \in L \cup {Null}
  /\ previous # "begin" => previous \in L /\ pNext[previous] = current
  /\ \A t \in Threads : at[t] \in {"head", "link"} => header[t] \notin L
SomeList == \E L \in SUBSET Headers : \E r \in [Headers -> Nat] : ListOf(L, r)
HeapInv == HeapTypes /\ Owned /\ Apart /\ Discarded /\ SomeList

-----------------------------------------------------------------------------
\* A walk of the list ends, and meets nothing else.
LEMMA WalkEnds ==
  ASSUME HeapConstants, HeapTypes, NEW L \in SUBSET Headers, NEW r \in [Headers -> Nat],
         ListOf(L, r)
  PROVE  Null \in Walk /\ Listed \subseteq L
<1>1. ASSUME NEW S \in SUBSET (Headers \cup {Null}), begin \in S,
             \A h \in S \ {Null} : pNext[h] \in S
      PROVE  Null \in S
  <2> SUFFICES ASSUME Null \notin S PROVE FALSE
    OBVIOUS
  <2> DEFINE R == OpToRel(<, Nat)
             T == {r[h] : h \in S \cap L}
  <2>1. \A a, b \in Nat : <<a, b>> \in R <=> a < b
    BY Zenon DEF OpToRel
  <2>2. IsWellFoundedOn(R, Nat)
    BY NatLessThanWellFounded
  <2> HIDE DEF R
  <2>3. T \subseteq Nat /\ T # {}
    <3>1. begin \in S \cap L
      BY <1>1 DEF ListOf
    <3> QED BY <3>1
  <2>4. PICK m \in T : \A j \in T : ~(<<j, m>> \in R)
    <3> HIDE DEF T
    <3> QED BY <2>2, <2>3, WFMin
  <2>5. PICK h \in S \cap L : m = r[h]
    BY <2>4
  <2>6. pNext[h] \in S \cap L /\ r[pNext[h]] < r[h]
    BY <1>1, <2>5 DEF ListOf
  <2>7. r[pNext[h]] \in T /\ r[pNext[h]] \in Nat
    BY <2>3, <2>6
  <2> QED BY <2>1, <2>3, <2>4, <2>5, <2>6, <2>7
<1>2. Null \in Walk
  BY <1>1 DEF Walk
<1>3. (L \cup {Null}) \in SUBSET (Headers \cup {Null})
  OBVIOUS
<1>4. begin \in L \cup {Null} /\ \A h \in (L \cup {Null}) \ {Null} : pNext[h] \in L \cup {Null}
  BY DEF ListOf
<1>5. Walk \subseteq L \cup {Null}
  BY <1>3, <1>4 DEF Walk
<1> QED BY <1>2, <1>5 DEF Listed

LEMMA ListIsSound ==
  ASSUME HeapConstants, HeapInv
  PROVE  ListSound
<1>1. PICK L \in SUBSET Headers, r \in [Headers -> Nat] : ListOf(L, r)
  BY DEF HeapInv, SomeList
<1>2. Null \in Walk /\ Listed \subseteq L
  BY <1>1, WalkEnds DEF HeapInv
<1>3. scheduled \in Seq(Headers)
  BY DEF HeapInv, HeapTypes
<1>4. \A h : h \in ToSet(scheduled) <=> \E i \in 1 .. Len(scheduled) : h = scheduled[i]
  BY <1>3 DEF ToSet
<1>5. L \subseteq allocated \ ToSet(scheduled)
  BY <1>1, <1>4 DEF ListOf
<1>6. \A h \in ToSet(scheduled) : init[h] /\ h \in allocated
  BY <1>4 DEF HeapInv, Discarded
<1> QED BY <1>2, <1>5, <1>6 DEF ListSound

LEMMA InitHeap == HeapConstants /\ Init => HeapInv
<1> SUFFICES ASSUME HeapConstants, Init PROVE HeapInv
  OBVIOUS
<1>1. HeapTypes /\ Owned /\ Apart /\ Discarded
  BY DEF Init, HeapTypes, Owned, Apart, Discarded, Places, Making
<1>2. ListOf({}, [h \in Headers |-> 0])
  BY DEF Init, ListOf
<1>3. [h \in Headers |-> 0] \in [Headers -> Nat]
  OBVIOUS
<1> QED BY <1>1, <1>2, <1>3 DEF HeapInv, SomeList
-----------------------------------------------------------------------------
\* A step of a thread from one place to another.
LEMMA Moves ==
  ASSUME at \in [Threads -> Places], NEW t \in Threads, NEW from, NEW to \in Places,
         At(t, from, to)
  PROVE  /\ at' \in [Threads -> Places] /\ at[t] = from /\ at'[t] = to
         /\ \A u \in Threads : u # t => at'[u] = at[u]
BY DEF At

LEMMA AllocateTypes ==
  ASSUME HeapTypes, NEW t \in Threads, Allocate(t)
  PROVE  HeapTypes'
<1>1. CASE Keep(t)
  BY <1>1 DEF HeapTypes, Keep, heapVars, threadVars, sweepVars
<1>2. CASE New(t)
  BY <1>2, Moves DEF HeapTypes, New, heapVars, refVars, Places
<1>3. CASE Malloc(t)
  BY <1>3, Moves DEF HeapTypes, Malloc, sweepVars, Places
<1>4. CASE ReadHead(t)
  BY <1>4, Moves DEF HeapTypes, ReadHead, sweepVars, Places
<1>5. CASE Link(t)
  <2>1. at' \in [Threads -> Places]
    BY <1>5, Moves DEF HeapTypes, Link, Places
  <2>2. begin' \in Headers \cup {Null} /\ read' \in [Threads -> Headers \cup {Null, 0, 1}]
    BY <1>5 DEF HeapTypes, Link
  <2> QED BY <2>1, <2>2, <1>5 DEF HeapTypes, Link, sweepVars
<1>6. CASE ReadIndex(t)
  BY <1>6, Moves DEF HeapTypes, ReadIndex, heapVars, sweepVars, Places
<1>7. CASE SetMark(t)
  BY <1>7, Moves DEF HeapTypes, SetMark, sweepVars, Places
<1>8. CASE SetAnchor(t)
  BY <1>8, Moves DEF HeapTypes, SetAnchor, heapVars, sweepVars, Places
<1>9. CASE Initialize(t)
  BY <1>9, Moves DEF HeapTypes, Initialize, sweepVars, Places
<1>10. CASE Return(t)
  BY <1>10, Moves DEF HeapTypes, Return, heapVars, sweepVars, Places
<1> QED
  BY <1>1, <1>2, <1>3, <1>4, <1>5, <1>6, <1>7, <1>8, <1>9, <1>10 DEF Allocate

LEMMA CollectTypes ==
  ASSUME HeapTypes, NEW c \in Threads, Collect(c)
  PROVE  HeapTypes'
<1>1. CASE Invert(c)
  <2>1. index' \in {0, 1}
    BY <1>1 DEF HeapTypes, Invert
  <2> QED BY <2>1, <1>1, Moves DEF HeapTypes, Invert, refVars, Places
<1>2. CASE MarkRoot(c)
  BY <1>2 DEF HeapTypes, MarkRoot, refVars, threadVars
<1>3. CASE BeginSweep(c)
  BY <1>3, Moves DEF HeapTypes, BeginSweep, heapVars, refVars, Places
<1>4. CASE SweepKeep(c)
  BY <1>4 DEF HeapTypes, SweepKeep, heapVars, refVars, threadVars
<1>5. CASE SweepUnlink(c)
  <2>1. current \in Headers /\ pNext[current] \in Headers \cup {Null}
    BY <1>5 DEF HeapTypes, SweepUnlink
  <2>2. scheduled' \in Seq(Headers)
    BY <2>1, <1>5 DEF HeapTypes, SweepUnlink
  <2>3. begin' \in Headers \cup {Null} /\ pNext' \in [Headers -> Headers \cup {Null}]
    BY <2>1, <1>5 DEF HeapTypes, SweepUnlink
  <2> QED BY <2>1, <2>2, <2>3, <1>5 DEF HeapTypes, SweepUnlink, refVars, threadVars
<1>6. CASE SweepFree(c)
  <2>1. scheduled' \in Seq(Headers) /\ Head(scheduled) \in Headers
    BY <1>6 DEF HeapTypes, SweepFree
  <2> QED BY <2>1, <1>6 DEF HeapTypes, SweepFree, refVars, threadVars
<1>7. CASE EndCollection(c)
  BY <1>7, Moves DEF HeapTypes, EndCollection, heapVars, refVars, Places
<1> QED
  BY <1>1, <1>2, <1>3, <1>4, <1>5, <1>6, <1>7 DEF Collect

\* Steps that leave the list and the blocks alone: a thread goes on with its block,
\* or gives it up, and the sweep comes from one place in the list to another.
LEMMA QuietStep ==
  ASSUME HeapInv, HeapTypes', NEW t \in Threads,
         UNCHANGED <<begin, pNext, init, allocated, scheduled>>,
         \A u \in Threads : u # t =>
           at'[u] = at[u] /\ header'[u] = header[u] /\ read'[u] = read[u],
         at'[t] \in Making => at[t] \in Making /\ header'[t] = header[t],
         at'[t] # "link", at'[t] = "head" => at[t] = "link",
         \A L \in SUBSET Headers : \A r \in [Headers -> Nat] : ListOf(L, r) =>
           /\ current' \in L \cup {Null}
           /\ previous' # "begin" => previous' \in L /\ pNext[previous'] = current'
  PROVE  HeapInv'
<1>1. Owned'
  BY DEF HeapInv, Owned, HeapTypes
<1>2. Apart'
  BY DEF HeapInv, Apart
<1>3. Discarded'
  BY DEF HeapInv, Discarded
<1>4. PICK L \in SUBSET Headers, r \in [Headers -> Nat] : ListOf(L, r)
  BY DEF HeapInv, SomeList
<1>5. \A u \in Threads : at'[u] \in {"head", "link"} => header'[u] \notin L
  BY <1>4 DEF ListOf, Making
<1>6. ListOf(L, r)'
  BY <1>4, <1>5 DEF ListOf
<1>7. SomeList'
  BY <1>6 DEF SomeList
<1> QED BY <1>1, <1>2, <1>3, <1>7 DEF HeapInv

\* Where the sweep is does not matter to a thread that allocates.
LEMMA SweepStays ==
  ASSUME UNCHANGED <<pNext, current, previous>>
  PROVE  \A L \in SUBSET Headers : \A r \in [Headers -> Nat] : ListOf(L, r) =>
           /\ current' \in L \cup {Null}
           /\ previous' # "begin" => previous' \in L /\ pNext[previous'] = current'
BY DEF ListOf

LEMMA QuietAllocate ==
  ASSUME HeapInv, HeapTypes', NEW t \in Threads,
         \/ Keep(t) \/ New(t) \/ ReadIndex(t) \/ SetMark(t) \/ SetAnchor(t) \/ Return(t)
         \/ Link(t) /\ ~ Same(t)
  PROVE  HeapInv'
<1>0. HeapTypes /\ at \in [Threads -> Places]
  BY DEF HeapInv, HeapTypes
<1>1. /\ UNCHANGED <<begin, pNext, allocated, scheduled, current, previous>>
      /\ \A u \in Threads : u # t => at'[u] = at[u]
  BY <1>0, Moves
  DEF Keep, New, ReadIndex, SetMark, SetAnchor, Return, Link, heapVars, refVars, threadVars,
      sweepVars, At
<1>2. init' = init
  <2>1. CASE SetMark(t)
    <3>1. at[t] \in Making
      BY <2>1 DEF SetMark, At, Making
    <3>2. header[t] \in Headers /\ init[header[t]] = FALSE
      BY <3>1, <1>0 DEF HeapInv, Owned, HeapTypes
    <3> QED BY <3>2, <2>1, <1>0 DEF SetMark, HeapTypes
  <2>2. CASE ~ SetMark(t)
    BY <2>2 DEF Keep, New, ReadIndex, SetAnchor, Return, Link, heapVars
  <2> QED BY <2>1, <2>2
<1>3. \A u \in Threads : u # t => header'[u] = header[u] /\ read'[u] = read[u]
  BY <1>0 DEF Keep, New, ReadIndex, SetMark, SetAnchor, Return, Link, heapVars, refVars,
              threadVars, sweepVars, HeapTypes
<1>4. /\ at'[t] \in Making => at[t] \in Making /\ header'[t] = header[t]
      /\ at'[t] # "link" /\ (at'[t] = "head" => at[t] = "link")
  <2>1. CASE Keep(t)
    BY <2>1 DEF Keep, threadVars, Making
  <2>2. CASE New(t)
    BY <2>2, <1>0 DEF New, At, Making
  <2>3. CASE ReadIndex(t) \/ SetMark(t) \/ SetAnchor(t)
    BY <2>3, <1>0 DEF ReadIndex, SetMark, SetAnchor, At, Making
  <2>4. CASE Return(t)
    BY <2>4, <1>0 DEF Return, At, Making
  <2>5. CASE Link(t) /\ ~ Same(t)
    BY <2>5, <1>0 DEF Link, At, Making
  <2> QED BY <2>1, <2>2, <2>3, <2>4, <2>5
<1> QED BY <1>1, <1>2, <1>3, <1>4, SweepStays, QuietStep

LEMMA QuietCollect ==
  ASSUME HeapInv, HeapTypes', NEW c \in Threads,
         Invert(c) \/ MarkRoot(c) \/ BeginSweep(c) \/ SweepKeep(c) \/ EndCollection(c)
  PROVE  HeapInv'
<1>0. HeapTypes /\ at \in [Threads -> Places]
  BY DEF HeapInv, HeapTypes
<1>1. /\ UNCHANGED <<begin, pNext, init, allocated, scheduled, header, read>>
      /\ \A u \in Threads : u # c => at'[u] = at[u]
  BY <1>0
  DEF Invert, MarkRoot, BeginSweep, SweepKeep, EndCollection, heapVars, refVars, threadVars, At
<1>2. /\ at'[c] \in Making => at[c] \in Making
      /\ at'[c] # "link" /\ (at'[c] = "head" => at[c] = "link")
  BY <1>0 DEF Invert, MarkRoot, BeginSweep, SweepKeep, EndCollection, threadVars, At, Making
<1>3. ASSUME NEW L \in SUBSET Headers, NEW r \in [Headers -> Nat], ListOf(L, r)
      PROVE  /\ current' \in L \cup {Null}
             /\ previous' # "begin" => previous' \in L /\ pNext[previous'] = current'
  <2>1. CASE Invert(c) \/ MarkRoot(c)
    BY <2>1, <1>3 DEF Invert, MarkRoot, ListOf
  <2>2. CASE BeginSweep(c)
    BY <2>2, <1>3 DEF BeginSweep, ListOf
  <2>3. CASE SweepKeep(c)
    BY <2>3, <1>3 DEF SweepKeep, ListOf
  <2>4. CASE EndCollection(c)
    BY <2>4, <1>3 DEF EndCollection, ListOf
  <2> QED BY <2>1, <2>2, <2>3, <2>4
<1> QED BY <1>1, <1>2, <1>3, QuietStep

\* A new block is nobody's and not in the list.
LEMMA MallocStep ==
  ASSUME HeapInv, HeapTypes', NEW t \in Threads, Malloc(t)
  PROVE  HeapInv'
<1>0. HeapTypes /\ at \in [Threads -> Places]
  BY DEF HeapInv, HeapTypes
<1>1. PICK h \in Headers \ allocated :
        /\ allocated' = allocated \cup {h} /\ header' = [header EXCEPT ![t] = h]
        /\ pNext' = [pNext EXCEPT ![h] = Null] /\ init' = [init EXCEPT ![h] = FALSE]
  BY DEF Malloc
<1>2. /\ UNCHANGED <<begin, read, current, previous, scheduled>>
      /\ at[t] = "malloc" /\ at'[t] = "head" /\ \A u \in Threads : u # t => at'[u] = at[u]
  BY <1>0, Moves DEF Malloc, sweepVars, Places
<1>3. /\ header'[t] = h /\ \A u \in Threads : u # t => header'[u] = header[u]
  BY <1>0, <1>1 DEF HeapTypes
<1>4. \A k \in Headers : k # h => pNext'[k] = pNext[k] /\ init'[k] = init[k]
  BY <1>0, <1>1 DEF HeapTypes
<1>5. init'[h] = FALSE
  BY <1>0, <1>1 DEF HeapTypes
<1>6. Owned'
  <2> SUFFICES ASSUME NEW u \in Threads
               PROVE  /\ at'[u] \in Making => header'[u] \in allocated' /\ ~init'[header'[u]]
                      /\ at'[u] = "link" => pNext'[header'[u]] = read'[u]
    BY DEF Owned
  <2>1. CASE u = t
    BY <2>1, <1>1, <1>2, <1>3, <1>5
  <2>2. CASE u # t /\ at[u] \in Making
    <3>1. header[u] \in allocated /\ header[u] \in Headers /\ header[u] # h /\ ~init[header[u]]
      BY <2>2, <1>0, <1>1 DEF HeapInv, Owned, HeapTypes
    <3> QED BY <2>2, <3>1, <1>1, <1>2, <1>3, <1>4 DEF HeapInv, Owned
  <2>3. CASE u # t /\ at[u] \notin Making
    BY <2>3, <1>2 DEF Making
  <2> QED BY <2>1, <2>2, <2>3
<1>7. Apart'
  <2>1. \A u \in Threads : u # t /\ at'[u] \in Making => header'[u] # h
    BY <1>1, <1>2, <1>3 DEF HeapInv, Owned
  <2> QED BY <2>1, <1>2, <1>3 DEF HeapInv, Apart
<1>8. Discarded'
  <2>1. \A i \in 1 .. Len(scheduled) : scheduled[i] \in Headers /\ scheduled[i] # h
    BY <1>0, <1>1 DEF HeapInv, Discarded, HeapTypes
  <2> QED BY <2>1, <1>1, <1>2, <1>4 DEF HeapInv, Discarded
<1>9. PICK L \in SUBSET Headers, r \in [Headers -> Nat] : ListOf(L, r)
  BY DEF HeapInv, SomeList
<1>10. h \notin L
  BY <1>1, <1>9 DEF ListOf
<1>11. ListOf(L, r)'
  <2>1. \A k \in L : pNext'[k] = pNext[k] /\ k \in allocated'
    BY <1>1, <1>4, <1>9, <1>10 DEF ListOf
  <2>2. \A u \in Threads : at'[u] \in {"head", "link"} => header'[u] \notin L
    BY <1>2, <1>3, <1>9, <1>10 DEF ListOf
  <2> QED BY <2>1, <2>2, <1>2, <1>9 DEF ListOf
<1> QED BY <1>6, <1>7, <1>8, <1>11 DEF HeapInv, SomeList

\* The link of a block that is not in the list.
LEMMA ReadHeadStep ==
  ASSUME HeapInv, HeapTypes', NEW t \in Threads, ReadHead(t)
  PROVE  HeapInv'
<1>0. HeapTypes /\ at \in [Threads -> Places]
  BY DEF HeapInv, HeapTypes
<1>1. /\ UNCHANGED <<begin, init, allocated, header, current, previous, scheduled>>
      /\ at[t] = "head" /\ at'[t] = "link" /\ \A u \in Threads : u # t => at'[u] = at[u]
  BY <1>0, Moves DEF ReadHead, sweepVars, Places
<1>2. header[t] \in Headers /\ header[t] \in allocated /\ ~init[header[t]]
  BY <1>0, <1>1 DEF HeapInv, Owned, HeapTypes, Making
<1>3. /\ pNext'[header[t]] = begin /\ read'[t] = begin
      /\ \A k \in Headers : k # header[t] => pNext'[k] = pNext[k]
      /\ \A u \in Threads : u # t => read'[u] = read[u]
  BY <1>0, <1>2 DEF ReadHead, HeapTypes
<1>4. Owned'
  <2> SUFFICES ASSUME NEW u \in Threads
               PROVE  /\ at'[u] \in Making => header'[u] \in allocated' /\ ~init'[header'[u]]
                      /\ at'[u] = "link" => pNext'[header'[u]] = read'[u]
    BY DEF Owned
  <2>1. CASE u = t
    BY <2>1, <1>1, <1>2, <1>3
  <2>2. CASE u # t /\ at[u] \in Making
    <3>1. header[u] \in Headers /\ header[u] # header[t]
      BY <2>2, <1>0, <1>1 DEF HeapInv, Owned, Apart, HeapTypes, Making
    <3> QED BY <2>2, <3>1, <1>1, <1>3 DEF HeapInv, Owned
  <2>3. CASE u # t /\ at[u] \notin Making
    BY <2>3, <1>1 DEF Making
  <2> QED BY <2>1, <2>2, <2>3
<1>5. Apart'
  BY <1>1 DEF HeapInv, Apart, Making
<1>6. Discarded'
  BY <1>1 DEF HeapInv, Discarded
<1>7. PICK L \in SUBSET Headers, r \in [Headers -> Nat] : ListOf(L, r)
  BY DEF HeapInv, SomeList
<1>8. header[t] \notin L
  BY <1>1, <1>7 DEF ListOf
<1>9. ListOf(L, r)'
  <2>1. \A k \in L : pNext'[k] = pNext[k]
    BY <1>3, <1>8
  <2>2. \A u \in Threads : at'[u] \in {"head", "link"} => header'[u] \notin L
    BY <1>1, <1>7, <1>8 DEF ListOf
  <2> QED BY <2>1, <2>2, <1>1, <1>7 DEF ListOf
<1> QED BY <1>4, <1>5, <1>6, <1>9 DEF HeapInv, SomeList

\* il2c_icmpxchgptr finds what the link of the block is: the block becomes the head.
LEMMA LinkStep ==
  ASSUME HeapConstants, HeapInv, HeapTypes', NEW t \in Threads, Link(t), Same(t)
  PROVE  HeapInv'
<1>0. HeapTypes /\ at \in [Threads -> Places]
  BY DEF HeapInv, HeapTypes
<1>1. /\ UNCHANGED <<pNext, init, allocated, header, current, previous, scheduled>>
      /\ at[t] = "link" /\ at'[t] = "index" /\ \A u \in Threads : u # t => at'[u] = at[u]
      /\ begin' = header[t] /\ \A u \in Threads : u # t => read'[u] = read[u]
  BY <1>0, Moves DEF Link, sweepVars, Places, HeapTypes
<1>h. PICK h \in Headers : h = header[t] /\ h \in allocated /\ ~init[h]
  BY <1>0, <1>1 DEF HeapInv, Owned, HeapTypes, Making
<1>2. pNext[h] = begin
  BY <1>1, <1>h DEF HeapInv, Owned, Same
<1>3. Owned'
  BY <1>1 DEF HeapInv, Owned, Making
<1>4. Apart'
  BY <1>1 DEF HeapInv, Apart, Making
<1>5. Discarded'
  BY <1>1 DEF HeapInv, Discarded
<1>6. PICK L \in SUBSET Headers, r \in [Headers -> Nat] : ListOf(L, r)
  BY DEF HeapInv, SomeList
<1>7. h \notin L
  BY <1>1, <1>6, <1>h DEF ListOf
<1> DEFINE M == L \cup {h}
           above == IF begin = Null THEN 0 ELSE r[begin] + 1
<1>8. M \in SUBSET Headers /\ above \in Nat
  BY <1>0, <1>6 DEF ListOf, HeapTypes
<1>9. PICK s \in [Headers -> Nat] : s[h] = above /\ \A k \in L : s[k] = r[k]
  <2> HIDE DEF above
  <2> DEFINE f == [r EXCEPT ![h] = above]
  <2>1. f \in [Headers -> Nat] /\ f[h] = above /\ \A k \in L : f[k] = r[k]
    BY <1>7, <1>8
  <2> HIDE DEF f
  <2> QED BY <2>1
<1>10. ListOf(M, s)'
  <2>1. begin' \in M
    BY <1>1, <1>h
  <2>2. ASSUME NEW k \in M
        PROVE  /\ pNext'[k] \in M \cup {Null}
               /\ pNext'[k] # Null => s[pNext'[k]] < s[k] /\ pNext'[k] # begin'
    <3>1. CASE k = h
      <4>1. pNext'[k] = begin /\ begin \in L \cup {Null} /\ h \notin L
        BY <3>1, <1>1, <1>2, <1>6, <1>7 DEF ListOf
      <4>2. ASSUME begin # Null PROVE s[begin] < above
        <5>1. begin \in L /\ s[begin] = r[begin] /\ r[begin] \in Nat /\ above = r[begin] + 1
          BY <4>1, <4>2, <1>9
        <5> HIDE DEF above
        <5> QED BY <5>1
      <4> HIDE DEF above
      <4>3. CASE begin = Null
        BY <3>1, <4>1, <4>3
      <4>4. CASE begin # Null
        <5>1. pNext'[k] \in M /\ s[pNext'[k]] < s[k] /\ pNext'[k] # begin'
          BY <3>1, <4>1, <4>2, <4>4, <1>1, <1>9, <1>h
        <5> QED BY <5>1
      <4> QED BY <4>3, <4>4
    <3>2. CASE k # h
      <4>1. k \in L /\ pNext'[k] = pNext[k]
        BY <3>2, <1>1
      <4>2. /\ pNext[k] \in L \cup {Null}
            /\ pNext[k] # Null => r[pNext[k]] < r[k]
        BY <4>1, <1>6 DEF ListOf
      <4> QED BY <4>1, <4>2, <1>1, <1>7, <1>9, <1>h
    <3> QED BY <3>1, <3>2
  <2>3. ASSUME NEW k \in M, NEW j \in M, pNext'[k] = pNext'[j], pNext'[k] # Null
        PROVE  k = j
    <3>1. ASSUME NEW i \in L, pNext[i] = begin, begin # Null PROVE FALSE
      BY <3>1, <1>6 DEF ListOf
    <3> QED BY <2>3, <3>1, <1>1, <1>2, <1>6 DEF ListOf
  <2>4. \A k \in M : k \in allocated' /\ \A i \in 1 .. Len(scheduled') : scheduled'[i] # k
    <3>1. \A i \in 1 .. Len(scheduled) : scheduled[i] # h
      BY <1>h DEF HeapInv, Discarded
    <3> QED BY <3>1, <1>1, <1>6, <1>h DEF ListOf
  <2>5. /\ current' \in M \cup {Null}
        /\ previous' # "begin" => previous' \in M /\ pNext'[previous'] = current'
    BY <1>1, <1>6 DEF ListOf
  <2>6. \A u \in Threads : at'[u] \in {"head", "link"} => header'[u] \notin M
    <3>1. \A u \in Threads : u # t /\ at[u] \in {"head", "link"} => header[u] # h
      BY <1>1, <1>h DEF HeapInv, Apart, Making
    <3>2. \A u \in Threads : u # t /\ at[u] \in {"head", "link"} => header[u] \notin L
      BY <1>6 DEF ListOf
    <3> SUFFICES ASSUME NEW u \in Threads, at'[u] \in {"head", "link"}
                 PROVE  header[u] \notin M
      BY <1>1
    <3>3. u # t /\ at[u] \in {"head", "link"}
      BY <1>1
    <3> QED BY <3>1, <3>2, <3>3
  <2> HIDE DEF M
  <2> QED BY <2>1, <2>2, <2>3, <2>4, <2>5, <2>6 DEF ListOf
<1> HIDE DEF M
<1> QED BY <1>3, <1>4, <1>5, <1>8, <1>9, <1>10 DEF HeapInv, SomeList

\* The block becomes an object; the list does not depend on that.
LEMMA InitializeStep ==
  ASSUME HeapInv, HeapTypes', NEW t \in Threads, Initialize(t)
  PROVE  HeapInv'
<1>0. HeapTypes /\ at \in [Threads -> Places]
  BY DEF HeapInv, HeapTypes
<1>1. /\ UNCHANGED <<begin, pNext, allocated, header, read, current, previous, scheduled>>
      /\ at[t] = "initialize" /\ at'[t] = "initialized"
      /\ \A u \in Threads : u # t => at'[u] = at[u]
  BY <1>0, Moves DEF Initialize, sweepVars, Places
<1>2. header[t] \in Headers
  BY <1>0, <1>1 DEF HeapInv, Owned, HeapTypes, Making
<1>3. init'[header[t]] = TRUE /\ \A k \in Headers : k # header[t] => init'[k] = init[k]
  BY <1>0, <1>2 DEF Initialize, HeapTypes
<1>4. Owned'
  <2> SUFFICES ASSUME NEW u \in Threads
               PROVE  /\ at'[u] \in Making => header'[u] \in allocated' /\ ~init'[header'[u]]
                      /\ at'[u] = "link" => pNext'[header'[u]] = read'[u]
    BY DEF Owned
  <2>1. CASE u = t
    BY <2>1, <1>1 DEF Making
  <2>2. CASE u # t /\ at[u] \in Making
    <3>1. header[u] \in Headers /\ header[u] # header[t]
      BY <2>2, <1>0, <1>1 DEF HeapInv, Owned, Apart, HeapTypes, Making
    <3> QED BY <2>2, <3>1, <1>1, <1>3 DEF HeapInv, Owned
  <2>3. CASE u # t /\ at[u] \notin Making
    BY <2>3, <1>1 DEF Making
  <2> QED BY <2>1, <2>2, <2>3
<1>5. Apart'
  BY <1>1 DEF HeapInv, Apart, Making
<1>6. Discarded'
  <2>1. \A i \in 1 .. Len(scheduled) : scheduled[i] \in Headers
    BY <1>0 DEF HeapTypes
  <2> QED BY <2>1, <1>1, <1>3 DEF HeapInv, Discarded
<1>7. PICK L \in SUBSET Headers, r \in [Headers -> Nat] : ListOf(L, r)
  BY DEF HeapInv, SomeList
<1>8. ListOf(L, r)'
  <2>1. \A u \in Threads : at'[u] \in {"head", "link"} => header'[u] \notin L
    BY <1>1, <1>7 DEF ListOf
  <2> QED BY <2>1, <1>1, <1>7 DEF ListOf
<1> QED BY <1>4, <1>5, <1>6, <1>8 DEF HeapInv, SomeList

\* The sweep takes the header it is at off the list; from the head, those that
\* were pushed since it began are off the list with it.
LEMMA SweepUnlinkStep ==
  ASSUME HeapConstants, HeapInv, HeapTypes', NEW c \in Threads, SweepUnlink(c)
  PROVE  HeapInv'
<1>0. HeapTypes /\ at \in [Threads -> Places]
  BY DEF HeapInv, HeapTypes
<1>1. /\ UNCHANGED <<init, allocated, at, header, read, previous>>
      /\ current # Null /\ current' = pNext[current] /\ scheduled' = <<current>> \o scheduled
      /\ init[current]
  BY DEF SweepUnlink, threadVars, Garbage
<1>2. PICK L \in SUBSET Headers, r \in [Headers -> Nat] : ListOf(L, r)
  BY DEF HeapInv, SomeList
<1>x. PICK x \in L : x = current
  BY <1>1, <1>2 DEF ListOf
<1>3. /\ \A k \in L : /\ pNext[k] \in L \cup {Null}
                      /\ pNext[k] # Null => r[pNext[k]] < r[k] /\ pNext[k] # begin
      /\ \A h, k \in L : pNext[h] = pNext[k] /\ pNext[h] # Null => h = k
      /\ begin \in L \cup {Null}
  BY <1>2 DEF ListOf
<1>4. /\ scheduled \in Seq(Headers) /\ Len(scheduled) \in Nat
      /\ Len(scheduled') = Len(scheduled) + 1 /\ scheduled'[1] = x
      /\ \A i \in 2 .. Len(scheduled') : i - 1 \in 1 .. Len(scheduled)
                                         /\ scheduled'[i] = scheduled[i - 1]
  <2>1. scheduled \in Seq(Headers) /\ <<x>> \in Seq(Headers)
    BY <1>0 DEF HeapTypes
  <2>2. Len(<<x>>) = 1 /\ <<x>>[1] = x /\ Len(scheduled) \in Nat
    BY <2>1
  <2> QED BY <2>1, <2>2, <1>1, <1>x, ConcatProperties
<1>5. x \in allocated /\ \A i \in 1 .. Len(scheduled) : scheduled[i] # x
  BY <1>2 DEF ListOf
<1>6. Discarded'
  <2>1. ASSUME NEW i \in 1 .. Len(scheduled')
        PROVE  scheduled'[i] \in allocated' /\ init'[scheduled'[i]]
    <3>1. CASE i = 1
      BY <3>1, <1>1, <1>4, <1>5, <1>x
    <3>2. CASE i # 1
      <4>1. i \in 2 .. Len(scheduled')
        BY <3>2, <1>4
      <4> QED BY <4>1, <1>1, <1>4 DEF HeapInv, Discarded
    <3> QED BY <3>1, <3>2
  <2>2. ASSUME NEW i \in 1 .. Len(scheduled'), NEW j \in 1 .. Len(scheduled'),
               scheduled'[i] = scheduled'[j]
        PROVE  i = j
    <3>1. ASSUME NEW k \in 2 .. Len(scheduled') PROVE scheduled'[k] # x
      BY <1>4, <1>5
    <3>2. CASE i = 1 \/ j = 1
      <4>1. \A k \in 1 .. Len(scheduled') : k # 1 => k \in 2 .. Len(scheduled')
        BY <1>4
      <4> QED BY <2>2, <3>1, <3>2, <4>1, <1>4
    <3>3. CASE i # 1 /\ j # 1
      <4>1. i \in 2 .. Len(scheduled') /\ j \in 2 .. Len(scheduled')
        BY <3>3, <1>4
      <4>2. scheduled[i - 1] = scheduled[j - 1]
        BY <2>2, <4>1, <1>4
      <4>3. i - 1 = j - 1
        BY <4>1, <4>2, <1>4 DEF HeapInv, Discarded
      <4> QED BY <4>3
    <3> QED BY <3>2, <3>3
  <2> QED BY <2>1, <2>2 DEF Discarded
<1>7. \A u \in Threads : at[u] \in {"head", "link"} => header[u] \in Headers /\ header[u] \notin L
  BY <1>0, <1>2 DEF HeapInv, Owned, HeapTypes, ListOf, Making
<1>8. \A k \in Headers : k \notin L => pNext'[k] = pNext[k]
  BY <1>0, <1>2 DEF SweepUnlink, HeapTypes, ListOf
<1>9. Owned'
  BY <1>1, <1>7, <1>8 DEF HeapInv, Owned
<1>10. Apart'
  BY <1>1 DEF HeapInv, Apart
<1>11. ASSUME NEW M \in SUBSET L, x \notin M
       PROVE  /\ \A k \in M : /\ k \in allocated'
                              /\ \A i \in 1 .. Len(scheduled') : scheduled'[i] # k
              /\ \A u \in Threads : at'[u] \in {"head", "link"} => header'[u] \notin M
  <2>1. ASSUME NEW k \in M, NEW i \in 1 .. Len(scheduled') PROVE scheduled'[i] # k
    <3>1. CASE i = 1
      BY <3>1, <1>4, <1>11
    <3>2. CASE i # 1
      <4>1. i \in 2 .. Len(scheduled')
        BY <3>2, <1>4
      <4> QED BY <4>1, <1>2, <1>4 DEF ListOf
    <3> QED BY <3>1, <3>2
  <2> QED BY <2>1, <1>1, <1>2, <1>7 DEF ListOf
<1>12. CASE previous = "begin"
  <2>1. begin' = pNext[x] /\ pNext' = pNext
    BY <1>12, <1>x DEF SweepUnlink
  <2> DEFINE M == {k \in L : r[k] < r[x]}
  <2>2. M \in SUBSET L /\ x \notin M
    OBVIOUS
  <2>3. \A k \in L : k \in M <=> r[k] < r[x]
    OBVIOUS
  <2> HIDE DEF M
  <2>4. begin' \in M \cup {Null}
    BY <1>3, <2>1, <2>3
  <2>5. ASSUME NEW k \in M
        PROVE  /\ pNext'[k] \in M \cup {Null}
               /\ pNext'[k] # Null => r[pNext'[k]] < r[k] /\ pNext'[k] # begin'
    <3>1. k \in L /\ r[k] < r[x] /\ k # x
      BY <2>2, <2>3
    <3>2. ASSUME pNext[k] # Null PROVE pNext[k] \in M /\ r[pNext[k]] < r[k]
      <4>1. pNext[k] \in L /\ r[pNext[k]] < r[k]
        BY <3>1, <3>2, <1>3
      <4> QED BY <3>1, <4>1, <2>3
    <3> QED BY <3>1, <3>2, <2>1, <1>3
  <2>6. ListOf(M, r)'
    <3>1. \A h, k \in M : pNext'[h] = pNext'[k] /\ pNext'[h] # Null => h = k
      BY <2>1, <2>2, <1>3
    <3>2. current' \in M \cup {Null}
      BY <2>1, <2>4, <1>1, <1>x
    <3>3. previous' = "begin"
      BY <1>1, <1>12
    <3> QED BY <2>2, <2>4, <2>5, <3>1, <3>2, <3>3, <1>11 DEF ListOf
  <2>7. M \in SUBSET Headers
    BY <2>2
  <2> QED BY <2>6, <2>7, <1>6, <1>9, <1>10 DEF HeapInv, SomeList
<1>13. CASE previous # "begin"
  <2>1. previous \in L /\ pNext[previous] = x
    BY <1>2, <1>13, <1>x DEF ListOf
  <2>p. PICK q \in L : q = previous
    BY <2>1
  <2>2. /\ begin' = begin /\ pNext'[q] = pNext[x]
        /\ \A k \in L : k # q => pNext'[k] = pNext[k]
    BY <2>p, <1>0, <1>13, <1>x DEF SweepUnlink, HeapTypes
  <2>3. q # x /\ x # Null /\ r[x] < r[q] /\ x # begin
    <3>1. x # Null /\ r[x] \in Nat
      BY DEF HeapConstants
    <3> QED BY <2>1, <2>p, <3>1, <1>3
  <2> DEFINE M == L \ {x}
  <2>4. M \in SUBSET L /\ x \notin M /\ M \in SUBSET Headers
    OBVIOUS
  <2>5. begin' \in M \cup {Null}
    BY <2>2, <2>3, <1>3
  <2>6. \A k \in M : k # q => pNext[k] # x
    <3> SUFFICES ASSUME NEW k \in M, k # q, pNext[k] = x PROVE FALSE
      OBVIOUS
    <3> QED BY <2>1, <2>p, <2>3, <1>3
  <2>7. ASSUME NEW k \in M
        PROVE  /\ pNext'[k] \in M \cup {Null}
               /\ pNext'[k] # Null => r[pNext'[k]] < r[k] /\ pNext'[k] # begin'
    <3>1. CASE k = q
      <4>1. ASSUME pNext[x] # Null
            PROVE  pNext[x] \in M /\ r[pNext[x]] < r[q] /\ pNext[x] # begin
        <5>1. pNext[x] \in L /\ r[pNext[x]] < r[x] /\ pNext[x] # begin
          BY <4>1, <1>3
        <5>2. r[pNext[x]] \in Nat /\ r[x] \in Nat /\ r[q] \in Nat
          BY <5>1
        <5> QED BY <5>1, <5>2, <2>3
      <4> QED BY <3>1, <4>1, <2>2
    <3>2. CASE k # q
      BY <3>2, <2>2, <2>6, <1>3
    <3> QED BY <3>1, <3>2
  <2>8. ASSUME NEW h \in M, NEW k \in M, pNext'[h] = pNext'[k], pNext'[h] # Null
        PROVE  h = k
    <3>1. ASSUME NEW j \in M, j # q, pNext[j] = pNext[x], pNext[j] # Null PROVE FALSE
      BY <3>1, <1>3
    <3>2. CASE h = q \/ k = q
      BY <3>1, <3>2, <2>2, <2>8
    <3>3. CASE h # q /\ k # q
      BY <3>3, <2>2, <2>8, <1>3
    <3> QED BY <3>2, <3>3
  <2>9. current' \in M \cup {Null} /\ previous' = q /\ q \in M /\ pNext'[q] = current'
    <3>1. pNext'[q] \in M \cup {Null}
      BY <2>3, <2>7
    <3> QED BY <3>1, <2>2, <2>3, <2>p, <1>1, <1>x
  <2> HIDE DEF M
  <2>10. ListOf(M, r)'
    BY <2>4, <2>5, <2>7, <2>8, <2>9, <1>11 DEF ListOf
  <2> QED BY <2>4, <2>10, <1>6, <1>9, <1>10 DEF HeapInv, SomeList
<1> QED BY <1>12, <1>13

\* A discarded header goes back to the C heap.
LEMMA SweepFreeStep ==
  ASSUME HeapInv, HeapTypes', NEW c \in Threads, SweepFree(c)
  PROVE  HeapInv'
<1>0. HeapTypes /\ at \in [Threads -> Places]
  BY DEF HeapInv, HeapTypes
<1>1. /\ UNCHANGED <<begin, at, header, read, current, previous>> /\ current = Null
      /\ scheduled # <<>> /\ scheduled' = Tail(scheduled)
      /\ allocated' = allocated \ {Head(scheduled)}
      /\ pNext' = [pNext EXCEPT ![Head(scheduled)] = Null]
      /\ init' = [init EXCEPT ![Head(scheduled)] = FALSE]
  BY DEF SweepFree, threadVars
<1>2. /\ scheduled \in Seq(Headers) /\ Len(scheduled) \in Nat \ {0}
      /\ Len(scheduled') = Len(scheduled) - 1 /\ Head(scheduled) = scheduled[1]
      /\ \A i \in 1 .. Len(scheduled') : scheduled'[i] = scheduled[i + 1]
  BY <1>0, <1>1 DEF HeapTypes
<1>x. PICK x \in Headers : x = Head(scheduled) /\ x = scheduled[1]
  BY <1>0, <1>2 DEF HeapTypes
<1>3. x \in allocated /\ init[x]
  BY <1>2, <1>x DEF HeapInv, Discarded
<1>4. \A k \in Headers : k # x => pNext'[k] = pNext[k] /\ init'[k] = init[k]
  BY <1>0, <1>1, <1>x DEF HeapTypes
<1>5. ASSUME NEW i \in 1 .. Len(scheduled')
      PROVE  /\ i + 1 \in 1 .. Len(scheduled) /\ scheduled'[i] = scheduled[i + 1]
             /\ scheduled'[i] \in Headers /\ scheduled'[i] # x
  <2>1. i + 1 \in 1 .. Len(scheduled) /\ 1 \in 1 .. Len(scheduled) /\ i + 1 # 1
    BY <1>2
  <2>2. scheduled[i + 1] # scheduled[1]
    BY <2>1 DEF HeapInv, Discarded
  <2>3. scheduled[i + 1] \in Headers
    BY <2>1, <1>2
  <2> QED BY <2>1, <2>2, <2>3, <1>2, <1>x
<1>6. Discarded'
  <2>1. ASSUME NEW i \in 1 .. Len(scheduled')
        PROVE  scheduled'[i] \in allocated' /\ init'[scheduled'[i]]
    BY <1>1, <1>4, <1>5, <1>x DEF HeapInv, Discarded
  <2>2. ASSUME NEW i \in 1 .. Len(scheduled'), NEW j \in 1 .. Len(scheduled'),
               scheduled'[i] = scheduled'[j]
        PROVE  i = j
    <3>1. i + 1 = j + 1
      BY <2>2, <1>5 DEF HeapInv, Discarded
    <3> QED BY <3>1, <1>2
  <2> QED BY <2>1, <2>2 DEF Discarded
<1>7. \A u \in Threads : at[u] \in Making => header[u] \in Headers /\ header[u] # x
  BY <1>0, <1>3 DEF HeapInv, Owned, HeapTypes
<1>8. Owned'
  <2> SUFFICES ASSUME NEW u \in Threads
               PROVE  /\ at[u] \in Making => header[u] \in allocated' /\ ~init'[header[u]]
                      /\ at[u] = "link" => pNext'[header[u]] = read[u]
    BY <1>1 DEF Owned
  <2>1. CASE at[u] \in Making
    BY <2>1, <1>1, <1>4, <1>7, <1>x DEF HeapInv, Owned
  <2>2. CASE at[u] \notin Making
    BY <2>2 DEF Making
  <2> QED BY <2>1, <2>2
<1>9. Apart'
  BY <1>1 DEF HeapInv, Apart
<1>10. PICK L \in SUBSET Headers, r \in [Headers -> Nat] : ListOf(L, r)
  BY DEF HeapInv, SomeList
<1>11. x \notin L
  <2>1. 1 \in 1 .. Len(scheduled)
    BY <1>2
  <2> QED BY <2>1, <1>10, <1>x DEF ListOf
<1>12. \A k \in L : pNext'[k] = pNext[k] /\ k \in allocated'
  BY <1>1, <1>4, <1>10, <1>11, <1>x DEF ListOf
<1>13. \A k \in L : \A i \in 1 .. Len(scheduled') : scheduled'[i] # k
  BY <1>5, <1>10 DEF ListOf
<1>14. ListOf(L, r)'
  <2>1. \A u \in Threads : at'[u] \in {"head", "link"} => header'[u] \notin L
    BY <1>1, <1>10 DEF ListOf
  <2> QED BY <2>1, <1>1, <1>10, <1>12, <1>13 DEF ListOf
<1> QED BY <1>6, <1>8, <1>9, <1>14 DEF HeapInv, SomeList
-----------------------------------------------------------------------------
LEMMA NextHeap ==
  ASSUME HeapConstants, HeapInv, [Next]_vars
  PROVE  HeapInv'
<1>1. ASSUME NEW t \in Threads, Allocate(t) PROVE HeapInv'
  <2>1. HeapTypes'
    BY <1>1, AllocateTypes DEF HeapInv
  <2> QED
    BY <1>1, <2>1, QuietAllocate, MallocStep, ReadHeadStep, LinkStep, InitializeStep
    DEF Allocate
<1>2. ASSUME NEW c \in Threads, Collect(c) PROVE HeapInv'
  <2>1. HeapTypes'
    BY <1>2, CollectTypes DEF HeapInv
  <2> QED
    BY <1>2, <2>1, QuietCollect, SweepUnlinkStep, SweepFreeStep DEF Collect
<1>3. CASE UNCHANGED vars
  <2>1. UNCHANGED <<begin, pNext, init, index, allocated, at, header, read, current, previous,
                    scheduled>>
    BY <1>3 DEF vars
  <2>2. HeapTypes' /\ Owned' /\ Apart' /\ Discarded'
    BY <2>1 DEF HeapInv, HeapTypes, Owned, Apart, Discarded
  <2>3. PICK L \in SUBSET Headers, r \in [Headers -> Nat] : ListOf(L, r)
    BY DEF HeapInv, SomeList
  <2>4. ListOf(L, r)'
    BY <2>1, <2>3 DEF ListOf
  <2> QED BY <2>2, <2>4 DEF HeapInv, SomeList
<1> QED BY <1>1, <1>2, <1>3 DEF Next

\* However pushes and the sweep meet, for any threads and headers: the list of
\* headers ends, no block that was given back to the C heap or discarded is in
\* it, and no object is discarded that is not INITIALIZED
\* (il2c_allocator.c:103, il2c_gc.c:381).
THEOREM ListStaysSound == ASSUME HeapConstants PROVE Spec => []ListSound
<1>1. Init => HeapInv
  BY InitHeap
<1>2. HeapInv /\ [Next]_vars => HeapInv'
  BY NextHeap
<1>3. HeapInv => ListSound
  BY ListIsSound
<1> QED BY <1>1, <1>2, <1>3, PTL DEF Spec
===============================================================================
