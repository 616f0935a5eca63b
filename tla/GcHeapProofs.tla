----------------------------- MODULE GcHeapProofs -----------------------------
(***************************************************************************)
(* The managed heap, for any objects, fields, statics and nesting of       *)
(* calls: the marks agree between collections, marking finds exactly what  *)
(* is reachable, and nothing reachable is freed if finalizers are careful. *)
(*                                                                         *)
(* HeapInv is what holds whatever finalizers do.  HeapSafe adds what rests *)
(* on their care: during marking the usual invariant of three colours,     *)
(* from the end of marking to the freeing that what is reachable from      *)
(* roots, and from objects that still expect a finalizer, is not among     *)
(* what the sweep discards.                                                *)
(***************************************************************************)
EXTENDS GcHeap, SequenceTheorems, TLAPS

CodePc == {"managed", "new", "retry", "return", "wait"}

\* Marking and sweeping happen in collections; only the sweep fills the free
\* list; a collection leaves one frame below a return and what a finalizer's
\* caller has linked stays linked.
Control ==
  /\ pc \in {"mark", "sweep"} => Collecting
  /\ cont = "none" \/ pc = "mark" => scheduled = {}
  /\ pc = "mark" => cont # "shutdown"
  /\ pc = "stopped" => cont = "shutdown"
  /\ InFinalizer => left > 0 /\ Len(frames) > base
  /\ pc \in {"mark", "sweep"} \/ ~Collecting => base = 0
  /\ pc = "return" => Len(frames) > base + 1
  /\ cont = "return" /\ ~InFinalizer /\ pc # "aborted" => Len(frames) > 1
  /\ cont = "return" /\ InFinalizer => base > 1

\* What the sweep has passed is marked, the object whose finalizer runs too.
Passed ==
  /\ pc = "sweep" => \A i \in 1 .. (Len(headers) - left) : Marked(headers[i])
  /\ InFinalizer => \A i \in 1 .. Position : Marked(headers[i])

\* A sweep that has kept nothing has nothing behind it.
Counted == pc = "sweep" /\ remains = 0 => left = Len(headers)

HeapInv ==
  /\ TypeOK
  /\ Control
  /\ FreedOnce
  /\ SharedMark
  /\ Passed
  /\ Counted

\* Objects that expect their finalizer.
Unfinalized == (Listed \cap Finalizable) \ finalized

\* Nothing reachable, now or by a finalizer yet to come, has been freed.
Intact == Reachable(Roots \cup Unfinalized) \subseteq Allocated

\* Three colours: marked, grey, and the rest.
Black == {o \in Listed : Marked(o)}
ThreeColours ==
  pc = "mark" =>
    /\ Black \subseteq Live
    /\ grey \subseteq Live
    /\ Roots \subseteq Black \cup grey
    /\ \A o \in Black : Refs(o) \subseteq Black \cup grey

\* What will be found again is not discarded.
Spared ==
  cont # "shutdown" =>
    /\ pc = "sweep" => Reachable(Roots \cup Registered) \cap Discarded = {}
    /\ InFinalizer => Reachable(OuterRoots \cup Registered) \cap Discarded = {}

\* The final shutdown calls finalizers in its first round only.
LastRound ==
  cont = "shutdown" =>
    /\ pc \notin {"new", "retry"}
    /\ \A o \in Listed \cap Finalizable : Marked(o) => o \in finalized
    /\ Intact \/ Unfinalized = {}

\* What is said of a state with careful finalizers, besides HeapInv.
SafeInv ==
  /\ cont # "shutdown" \/ InFinalizer => Intact
  /\ ThreeColours
  /\ MarkedIsLive
  /\ Spared
  /\ LastRound
  /\ scheduled \cap Finalizable \subseteq finalized

HeapSafe == HeapInv /\ SafeInv
-----------------------------------------------------------------------------
\* The sequence operators the heap is built from, element by element.
LEMMA Elements ==
  ASSUME NEW S, NEW s \in Seq(S)
  PROVE  /\ ToSet(s) = {s[i] : i \in 1 .. Len(s)}
         /\ ToSet(s) \subseteq S
         /\ IsInjective(s) <=> \A i, j \in 1 .. Len(s) : s[i] = s[j] => i = j
<1>1. DOMAIN s = 1 .. Len(s) /\ Len(s) \in Nat /\ \A i \in 1 .. Len(s) : s[i] \in S
  BY LenProperties, ElementOfSeq
<1> QED BY <1>1 DEF ToSet, IsInjective

\* A header linked in front moves the others up by one.
LEMMA Prepended ==
  ASSUME NEW S, NEW s \in Seq(S), NEW o \in S
  PROVE  /\ <<o>> \o s \in Seq(S)
         /\ Len(<<o>> \o s) = Len(s) + 1
         /\ (<<o>> \o s)[1] = o
         /\ \A i \in 1 .. Len(s) : (<<o>> \o s)[i + 1] = s[i]
         /\ ToSet(<<o>> \o s) = ToSet(s) \cup {o}
         /\ IsInjective(s) /\ o \notin ToSet(s) => IsInjective(<<o>> \o s)
<1> DEFINE r == <<o>> \o s
<1>1. /\ <<o>> \in Seq(S) /\ Len(<<o>>) = 1 /\ <<o>>[1] = o /\ Len(s) \in Nat
  BY LenProperties
<1>2. /\ r \in Seq(S) /\ Len(r) = 1 + Len(s)
      /\ \A i \in 1 .. 1 + Len(s) : r[i] = IF i <= 1 THEN <<o>>[i] ELSE s[i - 1]
  BY <1>1, ConcatProperties
<1>3. r[1] = o /\ \A i \in 1 .. Len(s) : r[i + 1] = s[i]
  BY <1>1, <1>2
<1>4. \A i \in 1 .. Len(r) : i = 1 \/ (i - 1 \in 1 .. Len(s) /\ r[i] = s[i - 1])
  BY <1>1, <1>2
<1>5. ToSet(r) = ToSet(s) \cup {o}
  <2>1. ToSet(r) = {r[i] : i \in 1 .. Len(r)} /\ ToSet(s) = {s[i] : i \in 1 .. Len(s)}
    <3>1. r \in Seq(S)
      BY <1>2
    <3> HIDE DEF r
    <3>2. ToSet(r) = {r[i] : i \in 1 .. Len(r)}
      BY <3>1, Elements
    <3>3. ToSet(s) = {s[i] : i \in 1 .. Len(s)}
      BY Elements
    <3> QED BY <3>2, <3>3
  <2>2. \A i \in 1 .. Len(r) : r[i] \in ToSet(s) \cup {o}
    BY <1>3, <1>4, <2>1
  <2>3. o \in ToSet(r) /\ \A i \in 1 .. Len(s) : s[i] \in ToSet(r)
    <3>1. 1 \in 1 .. Len(r) /\ \A i \in 1 .. Len(s) : i + 1 \in 1 .. Len(r)
      BY <1>1, <1>2
    <3> QED BY <1>3, <2>1, <3>1
  <2> QED BY <2>1, <2>2, <2>3
<1>6. ASSUME IsInjective(s), o \notin ToSet(s) PROVE IsInjective(r)
  <2>1. \A i, j \in 1 .. Len(s) : s[i] = s[j] => i = j
    BY <1>6, Elements
  <2>2. \A i \in 1 .. Len(s) : s[i] # o
    BY <1>6, Elements
  <2>3. ASSUME NEW i \in 1 .. Len(r), NEW j \in 1 .. Len(r), r[i] = r[j]
        PROVE  i = j
    BY <1>1, <1>3, <1>4, <2>1, <2>2, <2>3
  <2> HIDE DEF r
  <2> QED BY <1>2, <2>3, Elements
<1> QED BY <1>1, <1>2, <1>3, <1>5, <1>6

\* An unlinked header leaves the others in order.
LEMMA Removed ==
  ASSUME NEW S, NEW s \in Seq(S), NEW k \in 1 .. Len(s)
  PROVE  /\ RemoveAt(s, k) \in Seq(S)
         /\ Len(RemoveAt(s, k)) = Len(s) - 1
         /\ \A i \in 1 .. (Len(s) - 1) : RemoveAt(s, k)[i] = IF i < k THEN s[i] ELSE s[i + 1]
         /\ ToSet(s) = ToSet(RemoveAt(s, k)) \cup {s[k]}
         /\ IsInjective(s) =>
              /\ s[k] \notin ToSet(RemoveAt(s, k))
              /\ IsInjective(RemoveAt(s, k))
<1> DEFINE r == RemoveAt(s, k)
           a == SubSeq(s, 1, k - 1)
           b == SubSeq(s, k + 1, Len(s))
<1>1. Len(s) \in Nat /\ \A i \in 1 .. Len(s) : s[i] \in S
  BY LenProperties, ElementOfSeq
<1>2. /\ a \in Seq(S) /\ Len(a) = k - 1
      /\ \A i \in 1 .. (k - 1) : a[i] = s[i]
  <2>1. 1 \in Int /\ k - 1 \in Int /\ \A i \in 1 .. (k - 1) : s[i] \in S
    BY <1>1
  <2>2. /\ a \in Seq(S) /\ Len(a) = IF 1 <= k - 1 THEN k - 1 - 1 + 1 ELSE 0
        /\ \A i \in 1 .. (k - 1 - 1 + 1) : a[i] = s[1 + i - 1]
    BY <2>1, SubSeqProperties
  <2> QED BY <1>1, <2>2
<1>3. /\ b \in Seq(S) /\ Len(b) = Len(s) - k
      /\ \A i \in 1 .. (Len(s) - k) : b[i] = s[k + i]
  <2>1. k + 1 \in Int /\ Len(s) \in Int /\ \A i \in (k + 1) .. Len(s) : s[i] \in S
    BY <1>1
  <2>2. /\ b \in Seq(S) /\ Len(b) = IF k + 1 <= Len(s) THEN Len(s) - (k + 1) + 1 ELSE 0
        /\ \A i \in 1 .. (Len(s) - (k + 1) + 1) : b[i] = s[k + 1 + i - 1]
    BY <2>1, SubSeqProperties
  <2> QED BY <1>1, <2>2
<1>4. r = a \o b
  BY DEF RemoveAt
<1> HIDE DEF r, a, b
<1>5. /\ r \in Seq(S) /\ Len(r) = Len(a) + Len(b)
      /\ \A i \in 1 .. (Len(a) + Len(b)) : r[i] = IF i <= Len(a) THEN a[i] ELSE b[i - Len(a)]
  BY <1>2, <1>3, <1>4, ConcatProperties
<1>6. Len(r) = Len(s) - 1
  BY <1>1, <1>2, <1>3, <1>5
<1>7. \A i \in 1 .. (Len(s) - 1) : r[i] = IF i < k THEN s[i] ELSE s[i + 1]
  <2> SUFFICES ASSUME NEW i \in 1 .. (Len(s) - 1)
               PROVE  r[i] = IF i < k THEN s[i] ELSE s[i + 1]
    OBVIOUS
  <2>1. CASE i < k
    <3>1. i \in 1 .. (k - 1) /\ i <= Len(a) /\ i \in 1 .. (Len(a) + Len(b))
      BY <1>1, <1>2, <1>3, <2>1
    <3> QED BY <1>2, <1>5, <2>1, <3>1
  <2>2. CASE ~(i < k)
    <3>1. /\ ~(i <= Len(a)) /\ i \in 1 .. (Len(a) + Len(b))
          /\ i - Len(a) \in 1 .. (Len(s) - k) /\ k + (i - Len(a)) = i + 1
      BY <1>1, <1>2, <1>3, <2>2
    <3>2. r[i] = b[i - Len(a)] /\ b[i - Len(a)] = s[k + (i - Len(a))]
      BY <1>3, <1>5, <3>1
    <3> QED BY <2>2, <3>1, <3>2
  <2> QED BY <2>1, <2>2
<1>8. ToSet(s) = ToSet(r) \cup {s[k]}
  <2>1. ToSet(r) = {r[i] : i \in 1 .. Len(r)} /\ ToSet(s) = {s[i] : i \in 1 .. Len(s)}
    BY <1>5, Elements
  <2>2. \A i \in 1 .. Len(r) : r[i] \in ToSet(s)
    BY <1>1, <1>6, <1>7, <2>1
  <2>3. ASSUME NEW i \in 1 .. Len(s), i # k PROVE s[i] \in ToSet(r)
    <3>1. CASE i < k
      BY <3>1, <1>1, <1>6, <1>7, <2>1
    <3>2. CASE i > k
      <4>1. i - 1 \in 1 .. (Len(s) - 1) /\ ~(i - 1 < k) /\ (i - 1) + 1 = i
        BY <1>1, <3>2
      <4>2. r[i - 1] = s[i]
        BY <1>7, <4>1
      <4> QED BY <1>6, <2>1, <4>1, <4>2
    <3> QED BY <1>1, <2>3, <3>1, <3>2
  <2> QED BY <2>1, <2>2, <2>3
<1>9. ASSUME IsInjective(s) PROVE s[k] \notin ToSet(r) /\ IsInjective(r)
  <2>1. \A i, j \in 1 .. Len(s) : s[i] = s[j] => i = j
    BY <1>9, Elements
  <2>2. \A i \in 1 .. Len(r) : r[i] # s[k]
    BY <1>1, <1>6, <1>7, <2>1
  <2>3. \A i, j \in 1 .. Len(r) : r[i] = r[j] => i = j
    BY <1>1, <1>6, <1>7, <2>1
  <2>4. ToSet(r) = {r[i] : i \in 1 .. Len(r)}
    BY <1>5, Elements
  <2>5. IsInjective(r)
    BY <1>5, <2>3, Elements
  <2> QED BY <2>2, <2>4, <2>5
<1> QED BY <1>5, <1>6, <1>7, <1>8, <1>9 DEF r

\* A linked frame comes last.
LEMMA Appended ==
  ASSUME NEW S, NEW s \in Seq(S), NEW x \in S
  PROVE  /\ Append(s, x) \in Seq(S)
         /\ Len(Append(s, x)) = Len(s) + 1
         /\ \A i \in 1 .. Len(s) : Append(s, x)[i] = s[i]
         /\ Append(s, x)[Len(s) + 1] = x
         /\ ToSet(Append(s, x)) = ToSet(s) \cup {x}
<1> DEFINE r == Append(s, x)
<1>1. /\ Len(s) \in Nat /\ r \in Seq(S) /\ Len(r) = Len(s) + 1
      /\ \A i \in 1 .. Len(s) : r[i] = s[i]
      /\ r[Len(s) + 1] = x
  BY LenProperties
<1>2. ToSet(r) = {r[i] : i \in 1 .. Len(r)} /\ ToSet(s) = {s[i] : i \in 1 .. Len(s)}
  BY <1>1, Elements
<1>3. ASSUME NEW i \in 1 .. Len(r) PROVE r[i] \in ToSet(s) \cup {x}
  <2>1. i \in 1 .. Len(s) \/ i = Len(s) + 1
    BY <1>1
  <2> QED BY <1>1, <1>2, <2>1
<1>4. \A i \in 1 .. Len(s) : i \in 1 .. Len(r) /\ r[i] = s[i]
  BY <1>1
<1>5. Len(s) + 1 \in 1 .. Len(r)
  BY <1>1
<1>6. ToSet(r) = ToSet(s) \cup {x}
  <2>1. \A i \in 1 .. Len(s) : s[i] \in ToSet(r)
    BY <1>2, <1>4
  <2>2. x \in ToSet(r)
    BY <1>1, <1>2, <1>5
  <2> QED BY <1>2, <1>3, <2>1, <2>2
<1> QED BY <1>1, <1>6

\* Unlinking the last frame leaves the others.
LEMMA FrontOf ==
  ASSUME NEW S, NEW s \in Seq(S), Len(s) > 0
  PROVE  /\ Front(s) \in Seq(S)
         /\ Len(Front(s)) = Len(s) - 1
         /\ \A i \in 1 .. (Len(s) - 1) : Front(s)[i] = s[i]
         /\ ToSet(Front(s)) \subseteq ToSet(s)
<1> DEFINE r == Front(s)
<1>1. /\ Len(s) \in Nat /\ Len(s) - 1 \in Int /\ 1 \in Int
      /\ \A i \in 1 .. (Len(s) - 1) : s[i] \in S
  BY LenProperties, ElementOfSeq
<1>2. /\ r \in Seq(S)
      /\ Len(r) = IF 1 <= Len(s) - 1 THEN Len(s) - 1 - 1 + 1 ELSE 0
      /\ \A i \in 1 .. (Len(s) - 1 - 1 + 1) : r[i] = s[1 + i - 1]
  BY <1>1, SubSeqProperties DEF Front
<1>3. Len(r) = Len(s) - 1 /\ \A i \in 1 .. (Len(s) - 1) : r[i] = s[i]
  <2> HIDE DEF r
  <2>1. ASSUME NEW i \in 1 .. (Len(s) - 1) PROVE r[i] = s[i]
    <3>1. i \in 1 .. (Len(s) - 1 - 1 + 1) /\ 1 + i - 1 = i
      BY <1>1
    <3> QED BY <1>2, <3>1
  <2>2. Len(r) = Len(s) - 1
    <3>1. Len(r) = IF 1 <= Len(s) - 1 THEN Len(s) - 1 - 1 + 1 ELSE 0
      BY <1>2
    <3> DEFINE n == Len(s)
    <3>2. n \in Nat /\ n > 0 /\ Len(r) = IF 1 <= n - 1 THEN n - 1 - 1 + 1 ELSE 0
      BY <1>1, <3>1
    <3> HIDE DEF n
    <3>3. Len(r) = n - 1
      BY <3>2
    <3> QED BY <3>3 DEF n
  <2> QED BY <2>1, <2>2
<1>4. ToSet(r) = {r[i] : i \in 1 .. Len(r)} /\ ToSet(s) = {s[i] : i \in 1 .. Len(s)}
  BY <1>2, Elements
<1> QED BY <1>1, <1>2, <1>3, <1>4

\* Assigning one slot leaves the length and the other slots.
LEMMA Replaced ==
  ASSUME NEW S, NEW s \in Seq(S), NEW k, NEW x \in S
  PROVE  /\ [s EXCEPT ![k] = x] \in Seq(S)
         /\ Len([s EXCEPT ![k] = x]) = Len(s)
         /\ \A i \in 1 .. Len(s) : [s EXCEPT ![k] = x][i] = IF i = k THEN x ELSE s[i]
         /\ ToSet([s EXCEPT ![k] = x]) \subseteq ToSet(s) \cup {x}
<1> DEFINE r == [s EXCEPT ![k] = x]
<1>1. /\ r \in Seq(S) /\ Len(r) = Len(s)
      /\ \A i \in 1 .. Len(s) : r[i] = IF i = k THEN x ELSE s[i]
  <2>1. CASE k \in 1 .. Len(s)
    BY <2>1, ExceptSeq
  <2>2. CASE k \notin 1 .. Len(s)
    <3>1. s = [j \in 1 .. Len(s) |-> s[j]] /\ DOMAIN s = 1 .. Len(s)
      BY LenProperties, SeqDef
    <3>2. r = s
      BY <2>2, <3>1
    <3> QED BY <2>2, <3>2
  <2> QED BY <2>1, <2>2
<1>2. ToSet(r) = {r[i] : i \in 1 .. Len(r)} /\ ToSet(s) = {s[i] : i \in 1 .. Len(s)}
  BY <1>1, Elements
<1> QED BY <1>1, <1>2
-----------------------------------------------------------------------------
\* A program starts with one frame and an empty heap.
LEMMA InitHeapInv == Init => HeapInv
<1> SUFFICES ASSUME Init PROVE HeapInv
  OBVIOUS
<1>1. TypeOK
  <2>1. Zeroed \in [Fields -> Ref]
    BY DEF Zeroed, Ref
  <2>2. /\ headers \in Seq(Objects) /\ Len(headers) = 0
        /\ frames \in Seq(Ref) /\ Len(frames) = 1
    BY EmptySeq DEF Init, Ref
  <2> QED BY <2>1, <2>2 DEF Init, TypeOK, Ref, Pc, Conts
<1>2. Control
  BY DEF Init, Control, Collecting, InFinalizer
<1>3. Len(headers) = 0 /\ Listed = {} /\ IsInjective(headers)
  <2>1. headers \in Seq(Objects) /\ Len(headers) = 0
    BY EmptySeq DEF Init
  <2>2. /\ Listed = {headers[i] : i \in 1 .. 0}
        /\ IsInjective(headers) <=> \A i, j \in 1 .. 0 : headers[i] = headers[j] => i = j
    BY <2>1, Elements DEF Listed
  <2> QED BY <2>1, <2>2
<1>4. FreedOnce /\ SharedMark
  BY <1>3 DEF FreedOnce, SharedMark
<1>5. Passed /\ Counted
  BY DEF Init, Passed, Counted, InFinalizer, Collecting
<1> QED BY <1>1, <1>2, <1>4, <1>5 DEF HeapInv

\* Lengths and positions.
LEMMA Places ==
  ASSUME TypeOK
  PROVE  /\ Len(headers) \in Nat /\ left \in Nat /\ left <= Len(headers)
         /\ Len(frames) \in Nat /\ base \in Nat /\ base <= Len(frames)
         /\ left > 0 => Position \in 1 .. Len(headers) /\ Current \in Listed
         /\ Len(frames) > 0 => Top \in ToSet(frames)
         /\ \A i \in 1 .. Len(frames) : frames[i] \in Ref
         /\ Listed \subseteq Objects
<1>1. /\ Len(headers) \in Nat /\ left \in Nat /\ left <= Len(headers)
      /\ Len(frames) \in Nat /\ base \in Nat /\ base <= Len(frames)
      /\ \A i \in 1 .. Len(frames) : frames[i] \in Ref
  BY LenProperties, ElementOfSeq DEF TypeOK
<1>2. /\ Listed = {headers[i] : i \in 1 .. Len(headers)} /\ Listed \subseteq Objects
      /\ ToSet(frames) = {frames[i] : i \in 1 .. Len(frames)}
  BY Elements DEF TypeOK, Listed
<1>3. left > 0 => Position \in 1 .. Len(headers)
  BY <1>1 DEF Position
<1>4. Len(frames) > 0 => Len(frames) \in 1 .. Len(frames)
  BY <1>1
<1> QED BY <1>1, <1>2, <1>3, <1>4 DEF Current, Top

\* What a method can read, and what an object refers to, are references.
LEMMA ReadableRefs ==
  ASSUME TypeOK, Len(frames) > base
  PROVE  /\ Top \in Ref /\ Readable \subseteq Ref
         /\ \A o : Refs(o) = AnyRefs({field[o][f] : f \in Fields})
         /\ \A o \in Objects : Refs(o) \subseteq Objects
<1>1. Top \in Ref
  BY Places DEF Top
<1>2. \A o \in Objects : Refs(o) \subseteq Objects
  BY DEF TypeOK, Refs, AnyRefs, Ref
<1>3. Len(frames) > base + 1 => frames[Len(frames) - 1] \in Ref
  <2>1. Len(frames) > base + 1 => Len(frames) - 1 \in 1 .. Len(frames)
    BY Places
  <2> QED BY <2>1, Places
<1>4. {globals[g] : g \in Globals} \subseteq Ref
  BY DEF TypeOK
<1>5. Readable \subseteq Ref
  <2>1. Top # Null => Refs(Top) \subseteq Ref
    BY <1>1, <1>2 DEF Ref
  <2>2. Null \in Ref
    BY DEF Ref
  <2> QED BY <1>1, <1>3, <1>4, <2>1, <2>2 DEF Readable
<1> QED BY <1>1, <1>2, <1>5 DEF Refs

\* The roots are objects.
LEMMA RootObjects ==
  ASSUME TypeOK
  PROVE  Roots \subseteq Objects /\ OuterRoots \subseteq Objects
<1>1. ToSet(frames) \subseteq Ref /\ {globals[g] : g \in Globals} \subseteq Ref
  BY Elements DEF TypeOK
<1>2. {frames[i] : i \in 1 .. base} \subseteq Ref
  BY Places
<1> QED BY <1>1, <1>2 DEF TypeOK, Roots, OuterRoots, GlobalRefs, FrameRefs, AnyRefs, Ref
-----------------------------------------------------------------------------
\* Every step keeps the types.
LEMMA TypeKept ==
  ASSUME TypeOK, Control, Next
  PROVE  TypeOK'
<1> USE Places DEF programVars, listVars, sweepVars
<1>1. CASE Assign
  <2>1. PICK x \in Readable : frames' = [frames EXCEPT ![Len(frames)] = x]
    BY <1>1 DEF Assign
  <2>2. Len(frames) > base
    BY <1>1 DEF Assign, Control, InFinalizer
  <2>3. frames' \in Seq(Ref) /\ Len(frames') = Len(frames)
    BY <2>1, <2>2, ReadableRefs, Replaced DEF TypeOK
  <2> QED BY <1>1, <2>3 DEF Assign, TypeOK
<1>2. CASE StoreGlobal
  <2>1. Len(frames) > base
    BY <1>2 DEF StoreGlobal, Control, InFinalizer
  <2>2. Top \in Ref /\ Null \in Ref
    BY <2>1, ReadableRefs DEF Ref
  <2> QED BY <1>2, <2>2 DEF StoreGlobal, TypeOK
<1>3. CASE StoreField
  <2>1. Len(frames) > base
    BY <1>3 DEF StoreField, Control, InFinalizer
  <2>2. Readable \subseteq Ref
    BY <2>1, ReadableRefs
  <2>3. PICK f \in Fields, x \in Readable : field' = [field EXCEPT ![Top][f] = x]
    BY <1>3 DEF StoreField
  <2>4. field' \in [Objects -> [Fields -> Ref]]
    BY <2>2, <2>3 DEF TypeOK
  <2> QED BY <1>3, <2>4 DEF StoreField, TypeOK
<1>4. CASE Suppress \/ ReRegister
  BY <1>4, ObjectAssumption DEF Suppress, ReRegister, TypeOK
<1>5. CASE Call
  <2>1. frames' \in Seq(Ref) /\ Len(frames') = Len(frames) + 1
    BY <1>5, Appended DEF Call, TypeOK, Ref
  <2> QED BY <1>5, <2>1 DEF Call, TypeOK
<1>6. CASE (\E to \in {"managed", "new", "return", "wait"} : CollectFor(to))
             \/ WaitAgain \/ NewFails
  <2>1. Roots \subseteq Objects
    BY RootObjects
  <2> QED BY <1>6, <2>1 DEF CollectFor, WaitAgain, NewFails, Collect, MarkRoots, TypeOK, Pc, Conts
<1>7. CASE Shutdown
  <2>1. << >> \in Seq(Ref) /\ Len(<< >>) = 0
    BY EmptySeq
  <2>2. base = 0
    BY <1>7 DEF Shutdown, Control
  <2> QED BY <1>7, <2>1, <2>2 DEF Shutdown, StartSweep, TypeOK, Ref, Pc, Conts
<1>8. CASE WaitDone \/ Abort
  BY <1>8 DEF WaitDone, Abort, TypeOK, Pc
<1>9. ASSUME NEW o \in Objects, New(o) PROVE TypeOK'
  <2>1. headers' \in Seq(Objects) /\ Len(headers') = Len(headers) + 1
    BY <1>9, Prepended DEF New, TypeOK
  <2>2. frames' \in Seq(Ref) /\ Len(frames') = Len(frames)
    <3>1. o \in Ref /\ frames \in Seq(Ref)
      BY <1>9 DEF TypeOK, Ref
    <3>2. frames' = [frames EXCEPT ![Len(frames)] = o]
      BY <1>9 DEF New
    <3> QED BY <3>1, <3>2, Replaced
  <2>3. Zeroed \in [Fields -> Ref]
    BY DEF Zeroed, Ref
  <2>4. left' \in 0 .. Len(headers') /\ base' \in 0 .. Len(frames')
    BY <1>9, <2>1, <2>2 DEF New, TypeOK
  <2> QED BY <1>9, <2>1, <2>2, <2>3, <2>4 DEF New, TypeOK, Ref, Pc
<1>10. CASE Return
  <2>1. Len(frames) > base + 1
    BY <1>10 DEF Return, Control
  <2>2. PICK x \in {Top, Null}, keep \in BOOLEAN :
          /\ anchor' = x
          /\ frames' = IF keep THEN [Front(frames) EXCEPT ![Len(frames) - 1] = x]
                       ELSE Front(frames)
    BY <1>10 DEF Return
  <2>3. x \in Ref
    BY <2>1, ReadableRefs DEF Ref
  <2>4. Front(frames) \in Seq(Ref) /\ Len(Front(frames)) = Len(frames) - 1
    BY <2>1, FrontOf DEF TypeOK
  <2>5. frames' \in Seq(Ref) /\ Len(frames') = Len(frames) - 1
    BY <2>2, <2>3, <2>4, Replaced
  <2>6. base' \in 0 .. Len(frames')
    BY <1>10, <2>1, <2>5 DEF Return
  <2> QED BY <1>10, <2>2, <2>3, <2>5, <2>6 DEF Return, TypeOK, Pc
<1>11. CASE MarkStep
  <2>1. UNION {Refs(o) : o \in {o \in grey : ~Marked(o)}} \subseteq Objects
    BY DEF TypeOK, Refs, AnyRefs, Ref
  <2> QED BY <1>11, <2>1 DEF MarkStep, TypeOK
<1>12. CASE MarkDone
  BY <1>12 DEF MarkDone, StartSweep, TypeOK, Pc
<1>13. CASE SweepKeep
  BY <1>13 DEF SweepKeep, TypeOK
<1>14. CASE SweepUnlink
  <2>1. headers' \in Seq(Objects) /\ Len(headers') = Len(headers) - 1
    BY <1>14, Removed DEF SweepUnlink, TypeOK
  <2>2. left' \in 0 .. Len(headers')
    BY <1>14, <2>1 DEF SweepUnlink
  <2> QED BY <1>14, <2>1, <2>2 DEF SweepUnlink, TypeOK
<1>15. CASE SweepFinalize
  <2>1. Current \in Ref /\ Current \in Objects
    BY <1>15 DEF SweepFinalize, Ref
  <2>2. frames' \in Seq(Ref) /\ Len(frames') = Len(frames) + 1
    BY <1>15, <2>1, Appended DEF SweepFinalize, TypeOK
  <2>3. mark' \in [Objects -> {0, 1}]
    BY <1>15, <2>1 DEF SweepFinalize, TypeOK
  <2> QED BY <1>15, <2>1, <2>2, <2>3 DEF SweepFinalize, TypeOK, Pc
<1>16. CASE FinalizerReturn
  <2>1. left > 0 /\ Len(frames) = base + 1
    BY <1>16 DEF FinalizerReturn, Control
  <2>2. frames' \in Seq(Ref) /\ Len(frames') = base
    BY <1>16, <2>1, FrontOf DEF FinalizerReturn, TypeOK
  <2> QED BY <1>16, <2>1, <2>2 DEF FinalizerReturn, TypeOK, Ref, Pc
<1>17. CASE SweepDone \/ ShutdownAgain \/ ShutdownDone
  <2>1. Zeroed \in [Fields -> Ref]
    BY DEF Zeroed, Ref
  <2>2. /\ field' \in [Objects -> [Fields -> Ref]]
        /\ mark' \in [Objects -> {0, 1}]
        /\ finalized' \in SUBSET Objects
        /\ scheduled' = {}
    BY <1>17, <2>1 DEF SweepDone, ShutdownAgain, ShutdownDone, FreeScheduled, TypeOK
  <2>3. CASE SweepDone
    BY <2>2, <2>3 DEF SweepDone, TypeOK, Pc, Conts, Control, Collecting
  <2>4. CASE ShutdownAgain
    BY <2>2, <2>4 DEF ShutdownAgain, StartSweep, TypeOK, Pc
  <2>5. CASE ShutdownDone
    BY <2>2, <2>5 DEF ShutdownDone, TypeOK, Pc
  <2> QED BY <1>17, <2>3, <2>4, <2>5
<1> QED BY <1>1, <1>2, <1>3, <1>4, <1>5, <1>6, <1>7, <1>8, <1>9, <1>10, <1>11,
           <1>12, <1>13, <1>14, <1>15, <1>16, <1>17 DEF Next, Program, Runtime

\* What each step does to the number of frames.
LEMMA FrameCounts ==
  ASSUME TypeOK, Control
  PROVE  /\ Assign => Len(frames') = Len(frames)
         /\ Call => Len(frames') = Len(frames) + 1
         /\ \A o \in Objects : New(o) => Len(frames') = Len(frames)
         /\ Return => Len(frames') = Len(frames) - 1
         /\ SweepFinalize => Len(frames') = Len(frames) + 1
         /\ FinalizerReturn => Len(frames') = Len(frames) - 1
<1> USE Places DEF TypeOK
<1>1. Assign => Len(frames') = Len(frames)
  <2> SUFFICES ASSUME Assign PROVE Len(frames') = Len(frames)
    OBVIOUS
  <2>1. PICK x \in Readable : frames' = [frames EXCEPT ![Len(frames)] = x]
    BY DEF Assign
  <2>2. x \in Ref
    <3>1. Len(frames) > base
      BY DEF Assign, Control, InFinalizer
    <3> QED BY <3>1, ReadableRefs
  <2> QED BY <2>1, <2>2, Replaced
<1>2. Call => Len(frames') = Len(frames) + 1
  BY Appended DEF Call, Ref
<1>3. ASSUME NEW o \in Objects, New(o) PROVE Len(frames') = Len(frames)
  <2>1. o \in Ref /\ frames \in Seq(Ref)
    BY DEF Ref
  <2>2. frames' = [frames EXCEPT ![Len(frames)] = o]
    BY <1>3 DEF New
  <2> QED BY <2>1, <2>2, Replaced
<1>4. Return => Len(frames') = Len(frames) - 1
  <2> SUFFICES ASSUME Return PROVE Len(frames') = Len(frames) - 1
    OBVIOUS
  <2>1. Len(frames) > base + 1
    BY DEF Return, Control
  <2>2. PICK x \in {Top, Null}, keep \in BOOLEAN :
          frames' = IF keep THEN [Front(frames) EXCEPT ![Len(frames) - 1] = x]
                    ELSE Front(frames)
    BY DEF Return
  <2>3. x \in Ref
    BY <2>1, ReadableRefs DEF Ref
  <2>4. Front(frames) \in Seq(Ref) /\ Len(Front(frames)) = Len(frames) - 1
    BY <2>1, FrontOf
  <2> QED BY <2>2, <2>3, <2>4, Replaced
<1>5. SweepFinalize => Len(frames') = Len(frames) + 1
  <2> SUFFICES ASSUME SweepFinalize PROVE Len(frames') = Len(frames) + 1
    OBVIOUS
  <2>1. Current \in Ref /\ frames' = Append(frames, Current)
    BY DEF SweepFinalize, Ref
  <2> QED BY <2>1, Appended
<1>6. FinalizerReturn => Len(frames') = Len(frames) - 1
  BY FrontOf DEF FinalizerReturn
<1> QED BY <1>1, <1>2, <1>3, <1>4, <1>5, <1>6

\* Every step keeps the phases apart and the frames below a finalizer linked.
LEMMA ControlKept ==
  ASSUME TypeOK, Control, Next
  PROVE  Control'
<1> USE Places, FrameCounts DEF Control, Collecting, InFinalizer,
        programVars, listVars, sweepVars
<1>1. CASE Assign \/ StoreGlobal \/ StoreField \/ Suppress \/ ReRegister
  BY <1>1 DEF Assign, StoreGlobal, StoreField, Suppress, ReRegister
<1>2. CASE Call
  BY <1>2 DEF Call
<1>3. ASSUME NEW to \in {"managed", "new", "return", "wait"}, CollectFor(to)
      PROVE  Control'
  <2>1. CASE cont = "none"
    BY <1>3, <2>1 DEF CollectFor, Collect
  <2>2. CASE cont # "none"
    BY <1>3, <2>2 DEF CollectFor, Collect
  <2> QED BY <2>1, <2>2
<1>4. CASE WaitAgain \/ NewFails
  <2>1. CASE cont = "none"
    BY <1>4, <2>1 DEF WaitAgain, NewFails, Collect
  <2>2. CASE cont # "none"
    BY <1>4, <2>2 DEF WaitAgain, NewFails, Collect
  <2> QED BY <2>1, <2>2
<1>5. CASE Shutdown
  BY <1>5 DEF Shutdown, StartSweep
<1>6. CASE WaitDone \/ Abort
  BY <1>6 DEF WaitDone, Abort
<1>7. ASSUME NEW o \in Objects, New(o) PROVE Control'
  BY <1>7 DEF New
<1>8. CASE Return
  <2>1. /\ pc = "return" /\ pc' = "managed" /\ Len(frames') = Len(frames) - 1
        /\ UNCHANGED <<cont, left, base, scheduled>>
    BY <1>8 DEF Return
  <2>2. Len(frames) > base + 1
    BY <2>1
  <2>3. Len(frames') > base'
    BY <2>1, <2>2
  <2> QED BY <2>1, <2>3
<1>9. CASE MarkStep \/ MarkDone
  BY <1>9 DEF MarkStep, MarkDone, StartSweep
<1>10. CASE SweepKeep \/ SweepUnlink
  BY <1>10 DEF SweepKeep, SweepUnlink
<1>11. CASE SweepFinalize
  BY <1>11 DEF SweepFinalize
<1>12. CASE FinalizerReturn
  BY <1>12 DEF FinalizerReturn
<1>13. CASE SweepDone
  BY <1>13 DEF SweepDone, FreeScheduled, TypeOK, Conts
<1>14. CASE ShutdownAgain \/ ShutdownDone
  BY <1>14 DEF ShutdownAgain, ShutdownDone, FreeScheduled, StartSweep
<1> QED BY <1>1, <1>2, <1>3, <1>4, <1>5, <1>6, <1>7, <1>8, <1>9, <1>10, <1>11,
           <1>12, <1>13, <1>14 DEF Next, Program, Runtime
-----------------------------------------------------------------------------
\* What holds of the list of headers.
ListInv == FreedOnce /\ SharedMark /\ Passed /\ Counted

\* Steps that leave the list and its marks alone and stay out of the sweep.
LEMMA ListUntouched ==
  ASSUME ListInv, UNCHANGED <<headers, mark, index, scheduled, left, cont>>,
         pc \in CodePc, pc' # "sweep", Collecting => pc' # "mark"
  PROVE  ListInv'
<1>1. Listed' = Listed /\ Position' = Position /\ \A o : Marked(o)' <=> Marked(o)
  BY DEF Listed, Position, Marked
<1>2. Collecting' = Collecting /\ (InFinalizer' => InFinalizer)
  BY DEF Collecting, InFinalizer, CodePc
<1> QED BY <1>1, <1>2 DEF ListInv, FreedOnce, SharedMark, Passed, Counted

\* Allocation puts a marked header in front, out of the way of the sweep.
LEMMA ListGrows ==
  ASSUME TypeOK, Control, ListInv, NEW o \in Objects, New(o)
  PROVE  ListInv' /\ Listed' = Listed \cup {o}
<1> USE Places
<1>1. /\ headers' = <<o>> \o headers /\ headers \in Seq(Objects)
      /\ mark' = [mark EXCEPT ![o] = index] /\ mark \in [Objects -> {0, 1}]
      /\ o \notin Listed /\ o \notin scheduled
      /\ UNCHANGED <<index, left, scheduled, cont>>
      /\ pc' = "managed" /\ pc \in {"new", "retry"}
  BY DEF New, TypeOK, Allocated, sweepVars
<1>2. /\ Len(headers') = Len(headers) + 1
      /\ headers'[1] = o /\ \A i \in 1 .. Len(headers) : headers'[i + 1] = headers[i]
      /\ Listed' = Listed \cup {o}
      /\ IsInjective(headers) => IsInjective(headers')
  BY <1>1, Prepended DEF Listed
<1>3. FreedOnce'
  BY <1>1, <1>2 DEF ListInv, FreedOnce
<1>4. Marked(o)' /\ \A p \in Listed : Marked(p) => Marked(p)'
  BY <1>1 DEF Marked
<1>5. SharedMark'
  BY <1>1, <1>2, <1>4 DEF ListInv, SharedMark, Collecting
<1>6. Passed'
  <2> SUFFICES ASSUME InFinalizer', NEW i \in 1 .. Position' PROVE Marked(headers[i])'
    BY <1>1 DEF Passed
  <2>1. InFinalizer /\ left > 0
    BY <1>1 DEF InFinalizer, Collecting, Control
  <2>2. Position' = Position + 1 /\ Position \in 1 .. Len(headers)
    BY <1>1, <1>2, <2>1 DEF Position
  <2>3. CASE i = 1
    BY <1>2, <1>4, <2>3 DEF Marked
  <2>4. CASE i # 1
    <3>1. i - 1 \in 1 .. Position /\ i - 1 \in 1 .. Len(headers) /\ (i - 1) + 1 = i
      BY <2>2, <2>4
    <3>2. Marked(headers[i - 1])
      BY <2>1, <3>1 DEF ListInv, Passed
    <3>3. headers[i - 1] \in Listed /\ headers'[i] = headers[i - 1]
      BY <1>1, <1>2, <3>1, Elements DEF Listed
    <3> QED BY <1>4, <3>2, <3>3 DEF Marked
  <2> QED BY <2>3, <2>4
<1>7. Counted'
  BY <1>1 DEF Counted
<1> QED BY <1>2, <1>3, <1>5, <1>6, <1>7 DEF ListInv

\* What is unlinked goes to the free list; the next header moves up.
LEMMA ListShrinks ==
  ASSUME TypeOK, Control, ListInv, SweepUnlink
  PROVE  ListInv' /\ Listed = Listed' \cup {Current} /\ Current \notin Listed'
<1> USE Places
<1>1. /\ headers' = RemoveAt(headers, Position) /\ headers \in Seq(Objects)
      /\ Position \in 1 .. Len(headers) /\ left > 0
      /\ scheduled' = scheduled \cup {Current} /\ Current = headers[Position]
      /\ left' = left - 1 /\ pc = "sweep"
      /\ UNCHANGED <<mark, index, cont, pc, remains>>
  BY DEF SweepUnlink, TypeOK, Current
<1>2. /\ Len(headers') = Len(headers) - 1
      /\ \A i \in 1 .. (Len(headers) - 1) :
           headers'[i] = IF i < Position THEN headers[i] ELSE headers[i + 1]
      /\ Listed = Listed' \cup {Current}
      /\ IsInjective(headers) => Current \notin Listed' /\ IsInjective(headers')
  BY <1>1, Removed DEF Listed
<1>3. FreedOnce' /\ Current \notin Listed'
  BY <1>1, <1>2 DEF ListInv, FreedOnce
<1>4. Collecting' /\ ~InFinalizer'
  BY <1>1 DEF Control, Collecting, InFinalizer
<1>5. Passed'
  <2> SUFFICES ASSUME NEW i \in 1 .. (Len(headers') - left') PROVE Marked(headers[i])'
    BY <1>4 DEF Passed
  <2>1. /\ i \in 1 .. (Len(headers) - left) /\ i < Position
        /\ i \in 1 .. (Len(headers) - 1)
    BY <1>1, <1>2 DEF Position
  <2>2. headers'[i] = headers[i]
    BY <1>2, <2>1
  <2> QED BY <1>1, <2>1, <2>2 DEF ListInv, Passed, Marked
<1>6. Counted'
  BY <1>1, <1>2 DEF ListInv, Counted
<1> QED BY <1>2, <1>3, <1>4, <1>5, <1>6 DEF ListInv, SharedMark

\* The object whose finalizer is called becomes marked.
LEMMA FinalizerMarks ==
  ASSUME TypeOK, Control, ListInv, SweepFinalize
  PROVE  /\ ListInv'
         /\ Marked(Current)'
         /\ \A o \in Objects \ {Current} : Marked(o)' <=> Marked(o)
<1> USE Places
<1>1. /\ pc = "sweep" /\ pc' = "managed" /\ left > 0 /\ ~Marked(Current)
      /\ mark' = [mark EXCEPT ![Current] = 1 - @]
      /\ mark \in [Objects -> {0, 1}] /\ index \in {0, 1}
      /\ Current \in Objects /\ Position \in 1 .. Len(headers)
      /\ UNCHANGED <<headers, index, left, scheduled, cont>>
  BY DEF SweepFinalize, TypeOK, sweepVars
<1>2. mark'[Current] = index /\ \A o \in Objects \ {Current} : mark'[o] = mark[o]
  <2>1. mark[Current] \in {0, 1} /\ mark[Current] # index
    BY <1>1 DEF Marked
  <2> QED BY <1>1, <2>1
<1>3. Marked(Current)' /\ \A o \in Objects \ {Current} : Marked(o)' <=> Marked(o)
  <2>1. Current' = Current
    BY <1>1 DEF Current, Position
  <2> QED BY <1>1, <1>2, <2>1 DEF Marked
<1>4. FreedOnce' /\ Listed' = Listed
  BY <1>1 DEF ListInv, FreedOnce, Listed
<1>5. Collecting /\ Collecting'
  BY <1>1 DEF Control, Collecting
<1>6. Passed'
  <2> SUFFICES ASSUME NEW i \in 1 .. Position PROVE Marked(headers[i])'
    BY <1>1 DEF Passed, Position
  <2>1. i \in 1 .. (Len(headers) - left) \/ i = Position
    BY DEF Position
  <2>2. headers[i] \in Objects
    BY <1>1, ElementOfSeq DEF TypeOK
  <2>3. i \in 1 .. (Len(headers) - left) => Marked(headers[i])
    BY <1>1 DEF ListInv, Passed
  <2>4. i = Position => mark'[headers[i]] = index
    BY <1>2 DEF Current
  <2>5. Marked(headers[i]) => mark'[headers[i]] = index
    BY <1>2, <2>2 DEF Marked
  <2> QED BY <1>1, <2>1, <2>3, <2>4, <2>5 DEF Marked
<1>7. Counted'
  BY <1>1 DEF Counted
<1> QED BY <1>3, <1>4, <1>5, <1>6, <1>7 DEF ListInv, SharedMark

\* Every step keeps the list in order.
LEMMA ListKept ==
  ASSUME TypeOK, Control, ListInv, Next
  PROVE  ListInv'
<1> USE Places DEF programVars, listVars, sweepVars
<1>1. CASE Assign \/ StoreGlobal \/ StoreField \/ Suppress \/ ReRegister \/ Call
  BY <1>1, ListUntouched
     DEF Assign, StoreGlobal, StoreField, Suppress, ReRegister, Call, CodePc
<1>2. ASSUME NEW to \in {"managed", "new", "return", "wait", "retry"}, Collect(to),
             pc \in CodePc,
             UNCHANGED <<headers, mark, scheduled, left, remains, base>>
      PROVE  ListInv'
  <2>1. CASE Collecting
    BY <1>2, <2>1, ListUntouched DEF Collect
  <2>2. CASE ~Collecting
    BY <1>2, <2>2 DEF Collect, ListInv, FreedOnce, Listed, SharedMark, Passed, Counted,
                      Collecting, InFinalizer
  <2> QED BY <2>1, <2>2
<1>3. CASE (\E to \in {"managed", "new", "return", "wait"} : CollectFor(to))
             \/ WaitAgain \/ NewFails
  BY <1>2, <1>3 DEF CollectFor, WaitAgain, NewFails, CodePc
<1>4. CASE Shutdown
  BY <1>4 DEF Shutdown, StartSweep, ListInv, FreedOnce, Listed, SharedMark, Passed,
              Counted, Collecting, InFinalizer
<1>5. CASE WaitDone \/ Abort \/ Return
  BY <1>5, ListUntouched DEF WaitDone, Abort, Return, CodePc
<1>6. ASSUME NEW o \in Objects, New(o) PROVE ListInv'
  BY <1>6, ListGrows
<1>7. CASE MarkStep
  BY <1>7 DEF MarkStep, ListInv, FreedOnce, Listed, SharedMark, Passed, Counted,
              Control, Collecting, InFinalizer
<1>8. CASE MarkDone
  BY <1>8 DEF MarkDone, StartSweep, ListInv, FreedOnce, Listed, SharedMark, Passed,
              Counted, Control, Collecting, InFinalizer
<1>9. ASSUME UNCHANGED <<headers, mark, index, scheduled, cont>>, Collecting,
             pc' = "sweep", left > 0, left' = left - 1, remains' = remains + 1,
             \A i \in 1 .. Position : Marked(headers[i])
      PROVE  ListInv'
  <2>1. 1 .. (Len(headers') - left') = 1 .. Position
    BY <1>9 DEF Position
  <2>2. \A i \in 1 .. Position : Marked(headers[i])'
    BY <1>9 DEF Marked
  <2>3. Passed'
    BY <1>9, <2>1, <2>2 DEF Passed, InFinalizer
  <2>4. Counted'
    BY <1>9 DEF Counted, TypeOK
  <2> QED BY <1>9, <2>3, <2>4 DEF ListInv, FreedOnce, Listed, SharedMark, Collecting
<1>10. CASE SweepKeep
  <2>1. \A i \in 1 .. Position : i \in 1 .. (Len(headers) - left) \/ i = Position
    BY <1>10 DEF SweepKeep, Position
  <2>2. \A i \in 1 .. Position : Marked(headers[i])
    BY <1>10, <2>1 DEF SweepKeep, ListInv, Passed, Current
  <2> QED BY <1>10, <1>9, <2>2 DEF SweepKeep, Control
<1>11. CASE SweepUnlink
  BY <1>11, ListShrinks
<1>12. CASE SweepFinalize
  BY <1>12, FinalizerMarks
<1>13. CASE FinalizerReturn
  <2>1. Collecting /\ left > 0 /\ \A i \in 1 .. Position : Marked(headers[i])
    BY <1>13 DEF FinalizerReturn, InFinalizer, Control, ListInv, Passed
  <2> QED BY <1>13, <1>9, <2>1 DEF FinalizerReturn
<1>14. ASSUME pc = "sweep", left = 0, FreeScheduled, UNCHANGED headers
       PROVE  /\ FreedOnce' /\ Listed' = Listed
              /\ \A o \in Listed : Marked(o) /\ mark'[o] = mark[o]
  <2>1. \A i \in 1 .. Len(headers) : Marked(headers[i])
    BY <1>14 DEF ListInv, Passed
  <2>2. \A o \in Listed : Marked(o)
    BY <2>1, Elements DEF TypeOK, Listed
  <2> QED BY <1>14, <2>2 DEF FreeScheduled, ListInv, FreedOnce, Listed
<1>15. CASE SweepDone
  <2>1. pc' # "sweep" /\ cont' = "none" /\ index' = index
    BY <1>15 DEF SweepDone, TypeOK, Conts
  <2> QED BY <1>14, <1>15, <2>1 DEF SweepDone, ListInv, SharedMark, Passed, Counted,
                                    Marked, Collecting, InFinalizer
<1>16. CASE ShutdownAgain \/ ShutdownDone
  BY <1>14, <1>16 DEF ShutdownAgain, ShutdownDone, StartSweep, ListInv, SharedMark,
                      Passed, Counted, Collecting, InFinalizer
<1> QED BY <1>1, <1>3, <1>4, <1>5, <1>6, <1>7, <1>8, <1>10, <1>11,
           <1>12, <1>13, <1>15, <1>16 DEF Next, Program, Runtime

\* Every step, and every stutter, keeps what holds whatever finalizers do.
LEMMA NextHeapInv == HeapInv /\ [Next]_vars => HeapInv'
<1> SUFFICES ASSUME HeapInv, [Next]_vars PROVE HeapInv'
  OBVIOUS
<1>1. CASE Next
  <2>1. TypeOK /\ Control /\ ListInv
    BY DEF HeapInv, ListInv
  <2> QED BY <1>1, <2>1, TypeKept, ControlKept, ListKept DEF HeapInv, ListInv
<1>2. CASE UNCHANGED vars
  BY <1>2 DEF vars, HeapInv, TypeOK, Control, FreedOnce, SharedMark, Passed, Counted,
              Listed, Marked, Collecting, InFinalizer, Position
<1> QED BY <1>1, <1>2
-----------------------------------------------------------------------------
\* What holds whatever finalizers do.
THEOREM HeapInvariant == Spec => []HeapInv
<1>1. HeapInv /\ [Next]_vars => HeapInv'
  BY NextHeapInv
<1> QED BY <1>1, InitHeapInv, PTL DEF Spec

\* The state keeps its type: the sweep's position stays inside the list while
\* headers are linked and unlinked, and no frame is popped that a finalizer's
\* caller has linked (il2c_gc.c:337-406).
THEOREM HeapTypeCorrect == Spec => []TypeOK
<1>1. HeapInv => TypeOK
  BY DEF HeapInv
<1> QED BY <1>1, HeapInvariant, PTL

\* Between collections every listed header has the current mark, for any heap
\* and whatever finalizers do (il2c_gc.c:552-556).
THEOREM MarksAgree == Spec => []SharedMark
<1>1. HeapInv => SharedMark
  BY DEF HeapInv
<1> QED BY <1>1, HeapInvariant, PTL

\* No block is on the free list twice, or on it and in use (il2c_gc.c:383-394).
THEOREM BlocksFreedOnce == Spec => []FreedOnce
<1>1. HeapInv => FreedOnce
  BY DEF HeapInv
<1> QED BY <1>1, HeapInvariant, PTL

\* When the final shutdown is over nothing is allocated, for any heap and
\* whatever finalizers do in it (il2c_gc.c:634-663).
THEOREM ShutdownIsComplete == Spec => []ShutdownFreesAll
<1>1. Init => ShutdownFreesAll
  BY DEF Init, ShutdownFreesAll
<1>2. HeapInv /\ ShutdownFreesAll /\ [Next]_vars => ShutdownFreesAll'
  <2> SUFFICES ASSUME HeapInv, ShutdownFreesAll, [Next]_vars, pc' = "stopped"
               PROVE  Allocated' = {}
    BY DEF ShutdownFreesAll
  <2>1. CASE ShutdownDone
    <3>1. Len(headers) = 0 /\ headers' = headers /\ scheduled' = {}
      BY <2>1 DEF ShutdownDone, FreeScheduled, HeapInv, Counted
    <3>2. Listed = {headers[i] : i \in 1 .. Len(headers)}
      <4>1. headers \in Seq(Objects)
        BY DEF HeapInv, TypeOK
      <4> QED BY <4>1, Elements DEF Listed
    <3>3. Listed = {} /\ Listed' = Listed
      BY <3>1, <3>2 DEF Listed
    <3> QED BY <3>1, <3>3 DEF Allocated
  <2>2. CASE UNCHANGED vars
    BY <2>2 DEF vars, ShutdownFreesAll, Allocated, Listed
  <2>3. CASE Next /\ ~ShutdownDone
    <3>1. pc # "stopped" /\ cont # "stopped"
      BY <2>3 DEF HeapInv, TypeOK, Conts, Next, Program, Runtime, Assign, StoreGlobal,
         StoreField, Suppress, ReRegister, Call, CollectFor, Shutdown, WaitAgain,
         WaitDone, New, NewFails, Abort, Return, MarkStep, MarkDone, SweepKeep,
         SweepUnlink, SweepFinalize, SweepDone, ShutdownAgain, FinalizerReturn
    <3>2. CASE Program
      BY <3>1, <3>2 DEF Program, Assign, StoreGlobal, StoreField, Suppress, ReRegister,
         Call, CollectFor, Collect, Shutdown, StartSweep, programVars, listVars, sweepVars
    <3>3. CASE WaitAgain \/ WaitDone \/ (\E o \in Objects : New(o)) \/ NewFails
               \/ Abort \/ Return
      BY <3>1, <3>3 DEF WaitAgain, WaitDone, New, NewFails, Abort, Return, Collect
    <3>4. CASE MarkStep \/ MarkDone \/ SweepKeep \/ SweepUnlink \/ SweepFinalize
               \/ SweepDone \/ ShutdownAgain \/ FinalizerReturn
      BY <3>1, <3>4 DEF MarkStep, MarkDone, StartSweep, SweepKeep, SweepUnlink,
         SweepFinalize, SweepDone, ShutdownAgain, FinalizerReturn
    <3> QED BY <2>3, <3>2, <3>3, <3>4 DEF Next, Runtime
  <2> QED BY <2>1, <2>2, <2>3
<1> QED BY <1>1, <1>2, HeapInvariant, PTL DEF Spec
-----------------------------------------------------------------------------
(***************************************************************************)
(* Reachability, with the fields as a parameter so that it can be compared *)
(* before and after a step.                                                *)
(***************************************************************************)
Targets(h, o) == AnyRefs({h[o][f] : f \in Fields})
Closure(h, R) ==
  {o \in Objects :
     \A S \in SUBSET Objects :
       R \subseteq S /\ (\A p \in S : Targets(h, p) \subseteq S) => o \in S}

\* A closed set that contains the roots contains what they reach.
LEMMA ClosureLeast ==
  ASSUME NEW h, NEW R, NEW S \in SUBSET Objects, R \subseteq S,
         \A p \in S : Targets(h, p) \subseteq S
  PROVE  Closure(h, R) \subseteq S
BY DEF Closure

\* What is reached contains the roots, and with each object its references.
LEMMA ClosureClosed ==
  ASSUME NEW h \in [Objects -> [Fields -> Ref]], NEW R \in SUBSET Objects
  PROVE  /\ R \subseteq Closure(h, R)
         /\ Closure(h, R) \subseteq Objects
         /\ \A p \in Closure(h, R) : Targets(h, p) \subseteq Closure(h, R)
<1>1. \A p \in Objects : Targets(h, p) \subseteq Objects
  BY DEF Targets, AnyRefs, Ref
<1>2. R \subseteq Closure(h, R) /\ Closure(h, R) \subseteq Objects
  BY DEF Closure
<1>3. ASSUME NEW p \in Closure(h, R), NEW q \in Targets(h, p) PROVE q \in Closure(h, R)
  <2>1. q \in Objects
    BY <1>1, <1>2, <1>3
  <2>2. ASSUME NEW S \in SUBSET Objects, R \subseteq S,
               \A r \in S : Targets(h, r) \subseteq S
        PROVE  q \in S
    BY <1>3, <2>2 DEF Closure
  <2> QED BY <2>1, <2>2 DEF Closure
<1> QED BY <1>2, <1>3

\* More roots reach more.
LEMMA ClosureGrows ==
  ASSUME NEW h \in [Objects -> [Fields -> Ref]], NEW R \in SUBSET Objects,
         NEW Q \in SUBSET R
  PROVE  Closure(h, Q) \subseteq Closure(h, R)
BY ClosureClosed, ClosureLeast

\* What a state reaches, before and after a step.
LEMMA ReachableIsClosure ==
  /\ \A R : Reachable(R) = Closure(field, R)
  /\ \A o : Refs(o) = Targets(field, o)
  /\ Intact <=> Closure(field, Roots \cup Unfinalized) \subseteq Allocated
  /\ Intact' <=> Closure(field', Roots' \cup Unfinalized') \subseteq Allocated'
  /\ \A o : Refs(o)' = Targets(field', o)
  /\ Live = Closure(field, Roots)
  /\ Live' = Closure(field', Roots')
  /\ Reachable(Roots \cup Registered)' = Closure(field', Roots' \cup Registered')
  /\ Reachable(OuterRoots \cup Registered)' = Closure(field', OuterRoots' \cup Registered')
BY DEF Reachable, Closure, Refs, Targets, Intact, Live

\* The sets that reachability is asked of are sets of objects.
LEMMA RootsAreObjects ==
  ASSUME TypeOK
  PROVE  /\ Roots \cup Unfinalized \in SUBSET Objects
         /\ Roots \cup Registered \in SUBSET Objects
         /\ OuterRoots \cup Registered \in SUBSET Objects
         /\ Roots \in SUBSET Objects
         /\ field \in [Objects -> [Fields -> Ref]]
         /\ Listed \subseteq Objects /\ Allocated \subseteq Objects
BY RootObjects, Places DEF Unfinalized, Registered, Allocated, TypeOK

\* A step of managed code that leaves the list alone is safe if what it makes
\* reachable was reachable, and if it spares what the sweep discards.
LEMMA CodeStep ==
  ASSUME HeapInv, SafeInv, TypeOK',
         UNCHANGED <<headers, mark, index, scheduled, left, cont>>,
         pc \in CodePc, pc' \in CodePc \cup {"aborted"},
         cont = "shutdown" => pc' \notin {"new", "retry"} /\ finalized \subseteq finalized',
         scheduled \cap Finalizable \subseteq finalized',
         Roots' \cup Unfinalized' \subseteq Reachable(Roots \cup Unfinalized),
         \A p \in Reachable(Roots \cup Unfinalized) :
           Targets(field', p) \subseteq Reachable(Roots \cup Unfinalized),
         InFinalizer' /\ cont # "shutdown" =>
           (Reachable(OuterRoots \cup Registered) \cap Discarded = {})'
  PROVE  SafeInv'
<1> DEFINE R == Closure(field, Roots \cup Unfinalized)
<1>1. Intact
  BY DEF SafeInv, InFinalizer, Collecting, CodePc
<1>2. R \subseteq Objects /\ R \subseteq Allocated
  BY <1>1, RootsAreObjects, ClosureClosed, ReachableIsClosure DEF HeapInv
<1>3. Closure(field', Roots' \cup Unfinalized') \subseteq R
  <2>1. /\ R \in SUBSET Objects
        /\ Roots' \cup Unfinalized' \subseteq R
        /\ \A p \in R : Targets(field', p) \subseteq R
    BY <1>2, ReachableIsClosure
  <2> HIDE DEF R
  <2> QED BY <2>1, ClosureLeast
<1>4. Allocated' = Allocated /\ Listed' = Listed /\ \A o : Marked(o)' <=> Marked(o)
  BY DEF Allocated, Listed, Marked
<1>5. Intact'
  BY <1>2, <1>3, <1>4, ReachableIsClosure
<1>6. ThreeColours' /\ MarkedIsLive' /\ Spared'
  BY DEF ThreeColours, MarkedIsLive, Spared, CodePc
<1>7. LastRound'
  BY <1>4, <1>5 DEF SafeInv, LastRound
<1> QED BY <1>5, <1>6, <1>7 DEF SafeInv

\* What a method can read is reachable, and so is what it can store into.
LEMMA ReadableIsReachable ==
  ASSUME HeapInv, pc \in CodePc, frames # << >>, Len(frames) > base
  PROVE  LET R == Reachable(Roots \cup Unfinalized)
         IN  /\ R \in SUBSET Objects
             /\ Readable \subseteq R \cup {Null}
             /\ Top \in R \cup {Null}
             /\ Roots \subseteq R /\ Unfinalized \subseteq R
             /\ \A p \in R : Targets(field, p) \subseteq R
<1> DEFINE R == Reachable(Roots \cup Unfinalized)
<1>1. R = Closure(field, Roots \cup Unfinalized)
  BY ReachableIsClosure
<1> HIDE DEF R
<1>2. /\ R \in SUBSET Objects /\ Roots \subseteq R /\ Unfinalized \subseteq R
      /\ \A p \in R : Targets(field, p) \subseteq R
  <2>1. TypeOK
    BY DEF HeapInv
  <2>2. Roots \cup Unfinalized \in SUBSET Objects /\ field \in [Objects -> [Fields -> Ref]]
    BY <2>1, RootsAreObjects
  <2> QED BY <1>1, <2>2, ClosureClosed
<1>3. ToSet(frames) \subseteq R \cup {Null}
  BY <1>2 DEF Roots, FrameRefs, AnyRefs
<1>4. Top \in R \cup {Null}
  BY <1>3, Places DEF HeapInv
<1>5. {globals[g] : g \in Globals} \subseteq R \cup {Null}
  BY <1>2 DEF Roots, GlobalRefs, AnyRefs
<1>6. Len(frames) > base + 1 => frames[Len(frames) - 1] \in R \cup {Null}
  <2>1. frames \in Seq(Ref) /\ Len(frames) \in Nat /\ base \in Nat
    BY Places DEF HeapInv, TypeOK
  <2>2. Len(frames) > base + 1 => Len(frames) - 1 \in 1 .. Len(frames)
    BY <2>1
  <2> QED BY <1>3, <2>1, <2>2, Elements
<1>7. Top # Null => Refs(Top) \subseteq R
  BY <1>2, <1>4, ReachableIsClosure
<1>8. Readable \subseteq R \cup {Null}
  BY <1>4, <1>5, <1>6, <1>7 DEF Readable
<1> QED BY <1>2, <1>4, <1>8 DEF R

\* A step that changes no fields and nothing below the finalizer's own frame
\* discards nothing new.
LEMMA StillSpared ==
  ASSUME HeapInv, SafeInv,
         UNCHANGED <<headers, mark, index, scheduled, cont, base, globals, field, finalized>>,
         pc \in CodePc, pc' \in CodePc, cont # "shutdown", InFinalizer',
         \A i \in 1 .. base : frames'[i] = frames[i]
  PROVE  (Reachable(OuterRoots \cup Registered) \cap Discarded = {})'
<1>1. InFinalizer
  BY DEF InFinalizer, Collecting, CodePc
<1>2. Reachable(OuterRoots \cup Registered) \cap Discarded = {}
  BY <1>1 DEF SafeInv, Spared
<1>3. Listed' = Listed /\ \A o : Marked(o)' <=> Marked(o)
  BY DEF Listed, Marked
<1>4. OuterRoots' = OuterRoots
  BY DEF OuterRoots, GlobalRefs, AnyRefs
<1>5. Registered' = Registered /\ Discarded' = Discarded
  BY <1>3 DEF Registered, Discarded
<1>6. Reachable(OuterRoots \cup Registered)' = Reachable(OuterRoots \cup Registered)
  BY <1>4, <1>5 DEF Reachable, Refs
<1> QED BY <1>2, <1>5, <1>6

\* Assignments, stores, calls and registrations are safe steps.
LEMMA StoresSafe ==
  ASSUME Careless = FALSE, HeapInv, SafeInv, TypeOK',
         Assign \/ StoreGlobal \/ StoreField \/ Suppress \/ ReRegister \/ Call
  PROVE  SafeInv'
<1> DEFINE R == Reachable(Roots \cup Unfinalized)
<1> USE DEF listVars, sweepVars, programVars
<1>1. /\ pc = "managed" /\ pc' = "managed" /\ frames # << >>
      /\ UNCHANGED <<headers, mark, index, scheduled, left, cont, base>>
  BY DEF Assign, StoreGlobal, StoreField, Suppress, ReRegister, Call
<1>2. Len(frames) > base /\ pc \in CodePc /\ pc' \in CodePc
  <2>1. frames \in Seq(Ref) /\ (InFinalizer => Len(frames) > base) /\ (~Collecting => base = 0)
    BY DEF HeapInv, TypeOK, Control
  <2>2. Len(frames) > 0
    BY <1>1, <2>1, EmptySeq
  <2> QED BY <1>1, <2>1, <2>2 DEF InFinalizer, CodePc
<1>3. /\ R \in SUBSET Objects
      /\ Readable \subseteq R \cup {Null} /\ Top \in R \cup {Null}
      /\ Roots \subseteq R /\ Unfinalized \subseteq R
      /\ \A p \in R : Targets(field, p) \subseteq R
  BY <1>1, <1>2, ReadableIsReachable
<1>4. /\ Listed' = Listed
      /\ AnyRefs({anchor}) \subseteq R
      /\ {globals[g] : g \in Globals} \subseteq R \cup {Null}
      /\ ToSet(frames) \subseteq R \cup {Null}
  BY <1>1, <1>3 DEF Listed, Roots, GlobalRefs, FrameRefs, AnyRefs
<1>5. frames \in Seq(Ref) /\ \A i \in 1 .. base : i \in 1 .. Len(frames) /\ i # Len(frames)
  BY <1>2, Places DEF HeapInv, TypeOK
<1>6. ASSUME Careful'
      PROVE  InFinalizer' /\ cont # "shutdown" =>
               (Reachable(OuterRoots \cup Registered) \cap Discarded = {})'
  BY <1>1, <1>6 DEF Careful
<1>7. scheduled \cap Finalizable \subseteq finalized
  BY DEF SafeInv
<1>8. cont = "shutdown" => InFinalizer
  BY <1>1 DEF InFinalizer, Collecting
<1>9. CASE Assign
  <2>1. PICK x \in Readable : frames' = [frames EXCEPT ![Len(frames)] = x]
    BY <1>9 DEF Assign
  <2>2. x \in Ref /\ x \in R \cup {Null}
    BY <1>2, <1>3, ReadableRefs DEF HeapInv
  <2>3. /\ ToSet(frames') \subseteq R \cup {Null}
        /\ \A i \in 1 .. base : frames'[i] = frames[i]
    <3> HIDE DEF R
    <3>1. /\ ToSet(frames') \subseteq ToSet(frames) \cup {x}
          /\ \A i \in 1 .. Len(frames) : frames'[i] = IF i = Len(frames) THEN x ELSE frames[i]
      <4> DEFINE n == Len(frames)
      <4>1. frames \in Seq(Ref) /\ x \in Ref /\ frames' = [frames EXCEPT ![n] = x]
        BY <1>5, <2>1, <2>2
      <4> HIDE DEF n
      <4>2. /\ ToSet(frames') \subseteq ToSet(frames) \cup {x}
            /\ \A i \in 1 .. Len(frames) : frames'[i] = IF i = n THEN x ELSE frames[i]
        <5>1. ToSet([frames EXCEPT ![n] = x]) \subseteq ToSet(frames) \cup {x}
          BY <4>1, Replaced
        <5>2. \A i \in 1 .. Len(frames) :
                [frames EXCEPT ![n] = x][i] = IF i = n THEN x ELSE frames[i]
          BY <4>1, Replaced
        <5> QED BY <4>1, <5>1, <5>2
      <4> QED BY <4>2 DEF n
    <3>2. ToSet(frames') \subseteq R \cup {Null}
      BY <1>4, <2>2, <3>1
    <3>3. \A i \in 1 .. base : frames'[i] = frames[i]
      BY <1>5, <3>1
    <3> QED BY <3>2, <3>3
  <2> HIDE DEF R
  <2>4. Roots' \cup Unfinalized' \subseteq R
    BY <1>3, <1>4, <1>9, <2>3 DEF Assign, Roots, GlobalRefs, FrameRefs, AnyRefs, Unfinalized
  <2>5. UNCHANGED <<globals, field, finalized>>
    BY <1>9 DEF Assign
  <2>6. InFinalizer' /\ cont # "shutdown" =>
          (Reachable(OuterRoots \cup Registered) \cap Discarded = {})'
    BY <1>1, <1>2, <2>3, <2>5, StillSpared
  <2> QED BY <1>1, <1>2, <1>3, <1>7, <2>4, <2>5, <2>6, CodeStep DEF R
<1>10. CASE Call
  <2>1. Null \in Ref /\ frames' = Append(frames, Null)
    BY <1>10 DEF Call, Ref
  <2>2. /\ ToSet(frames') \subseteq R \cup {Null}
        /\ \A i \in 1 .. base : frames'[i] = frames[i]
    <3> HIDE DEF R
    <3>1. /\ ToSet(frames') = ToSet(frames) \cup {Null}
          /\ \A i \in 1 .. Len(frames) : frames'[i] = frames[i]
      BY <1>5, <2>1, Appended
    <3> QED BY <1>4, <1>5, <3>1
  <2> HIDE DEF R
  <2>3. Roots' \cup Unfinalized' \subseteq R
    BY <1>3, <1>4, <1>10, <2>2 DEF Call, Roots, GlobalRefs, FrameRefs, AnyRefs, Unfinalized
  <2>4. UNCHANGED <<globals, field, finalized>>
    BY <1>10 DEF Call
  <2>5. InFinalizer' /\ cont # "shutdown" =>
          (Reachable(OuterRoots \cup Registered) \cap Discarded = {})'
    BY <1>1, <1>2, <2>2, <2>4, StillSpared
  <2> QED BY <1>1, <1>2, <1>3, <1>7, <2>3, <2>4, <2>5, CodeStep DEF R
<1>11. CASE StoreGlobal
  <2> HIDE DEF R
  <2>1. {globals'[g] : g \in Globals} \subseteq R \cup {Null}
    <3>1. PICK h \in Globals, x \in {Top, Null} : globals' = [globals EXCEPT ![h] = x]
      BY <1>11 DEF StoreGlobal
    <3>2. globals \in [Globals -> Ref]
      BY DEF HeapInv, TypeOK
    <3>3. x \in R \cup {Null}
      BY <1>3
    <3>4. \A g \in Globals : globals'[g] = globals[g] \/ globals'[g] = x
      BY <3>1, <3>2
    <3> QED BY <1>4, <3>3, <3>4
  <2>2. Roots' \cup Unfinalized' \subseteq R
    BY <1>3, <1>4, <1>11, <2>1
       DEF StoreGlobal, Roots, GlobalRefs, FrameRefs, AnyRefs, Unfinalized
  <2>3. UNCHANGED <<field, finalized>> /\ Careful'
    BY <1>11 DEF StoreGlobal
  <2> QED BY <1>1, <1>2, <1>3, <1>6, <1>7, <2>2, <2>3, CodeStep DEF R
<1>12. CASE StoreField
  <2>1. PICK f \in Fields, x \in Readable : field' = [field EXCEPT ![Top][f] = x]
    BY <1>12 DEF StoreField
  <2>2. x \in R \cup {Null}
    BY <1>3
  <2> HIDE DEF R
  <2>3. ASSUME NEW p \in R PROVE Targets(field', p) \subseteq R
    <3>1. Targets(field', p) \subseteq Targets(field, p) \cup AnyRefs({x})
      BY <1>3, <2>1, <2>3 DEF Targets, AnyRefs, HeapInv, TypeOK
    <3> QED BY <1>3, <2>2, <2>3, <3>1 DEF AnyRefs
  <2>4. Roots' \cup Unfinalized' \subseteq R
    BY <1>3, <1>4, <1>12
       DEF StoreField, Roots, GlobalRefs, FrameRefs, AnyRefs, Unfinalized
  <2>5. UNCHANGED finalized /\ Careful'
    BY <1>12 DEF StoreField
  <2> QED BY <1>1, <1>2, <1>6, <1>7, <2>3, <2>4, <2>5, CodeStep DEF R
<1>13. CASE Suppress
  <2> HIDE DEF R
  <2>1. Roots' \cup Unfinalized' \subseteq R
    BY <1>3, <1>4, <1>13 DEF Suppress, Roots, GlobalRefs, FrameRefs, AnyRefs, Unfinalized
  <2>2. UNCHANGED field /\ finalized \subseteq finalized' /\ Careful'
    BY <1>13 DEF Suppress
  <2> QED BY <1>1, <1>2, <1>3, <1>6, <1>7, <2>1, <2>2, CodeStep DEF R
<1>14. CASE ReRegister
  <2> HIDE DEF R
  <2>1. /\ Top \in R /\ Top \notin scheduled /\ cont # "shutdown"
        /\ finalized' = finalized \ {Top}
    BY <1>3, <1>8, <1>14, ObjectAssumption DEF ReRegister, MayDo
  <2>2. Roots' \cup Unfinalized' \subseteq R
    BY <1>3, <1>4, <1>14, <2>1
       DEF ReRegister, Roots, GlobalRefs, FrameRefs, AnyRefs, Unfinalized
  <2>3. UNCHANGED field /\ Careful' /\ scheduled \cap Finalizable \subseteq finalized'
    BY <1>7, <1>14, <2>1 DEF ReRegister
  <2> QED BY <1>1, <1>2, <1>3, <1>6, <2>1, <2>2, <2>3, CodeStep DEF R
<1> QED BY <1>9, <1>10, <1>11, <1>12, <1>13, <1>14

\* So are returns, the end of waiting, giving up, and a collection turned away.
LEMMA ReturnsSafe ==
  ASSUME Careless = FALSE, HeapInv, SafeInv, TypeOK',
         \/ Return \/ WaitDone \/ Abort
         \/ Collecting /\ (\/ WaitAgain \/ NewFails
                           \/ \E to \in {"managed", "new", "return", "wait"} : CollectFor(to))
  PROVE  SafeInv'
<1> DEFINE R == Reachable(Roots \cup Unfinalized)
<1> USE DEF listVars, sweepVars, programVars
<1>1. /\ pc \in CodePc /\ pc' \in CodePc \cup {"aborted"}
      /\ UNCHANGED <<headers, mark, index, scheduled, left, cont, base, globals, field, finalized>>
  BY DEF Return, WaitDone, Abort, WaitAgain, NewFails, CollectFor, Collect, CodePc
<1>2. cont = "shutdown" => pc' \notin {"new", "retry"}
  <2>1. cont = "shutdown" => pc \notin {"new", "retry"}
    BY DEF SafeInv, LastRound
  <2>2. cont = "shutdown" => ~MayDo("new") \/ ~InFinalizer
    BY DEF MayDo
  <2>3. InFinalizer \/ ~Collecting
    BY <1>1 DEF InFinalizer, CodePc
  <2> QED BY <2>1, <2>2, <2>3
          DEF Return, WaitDone, Abort, WaitAgain, NewFails, CollectFor, Collect, Collecting
<1>3. TypeOK /\ Control /\ scheduled \cap Finalizable \subseteq finalized
  BY DEF SafeInv, HeapInv
<1>4. R = Closure(field, Roots \cup Unfinalized)
  BY ReachableIsClosure
<1> HIDE DEF R
<1>5. /\ R \in SUBSET Objects /\ Roots \subseteq R /\ Unfinalized \subseteq R
      /\ \A p \in R : Targets(field, p) \subseteq R
  <2>1. Roots \cup Unfinalized \in SUBSET Objects /\ field \in [Objects -> [Fields -> Ref]]
    BY <1>3, RootsAreObjects
  <2> QED BY <1>4, <2>1, ClosureClosed
<1>6. Unfinalized' = Unfinalized
  BY <1>1 DEF Unfinalized, Listed
<1>7. /\ AnyRefs({anchor'}) \subseteq R
      /\ ToSet(frames') \subseteq R \cup {Null}
      /\ \A i \in 1 .. base : frames'[i] = frames[i]
  <2>1. /\ AnyRefs({anchor}) \subseteq R
        /\ ToSet(frames) \subseteq R \cup {Null}
    BY <1>5 DEF Roots, FrameRefs, AnyRefs
  <2>2. CASE Return
    <3>1. Len(frames) > base + 1
      BY <1>3, <2>2 DEF Return, Control
    <3>2. Len(frames) \in Nat /\ base \in Nat /\ frames \in Seq(Ref)
      BY <1>3, Places DEF TypeOK
    <3>3. Top \in ToSet(frames) /\ Top \in Ref /\ Null \in Ref
      BY <1>3, <3>1, <3>2, Places, ReadableRefs DEF Ref
    <3>4. PICK x \in {Top, Null}, keep \in BOOLEAN :
            /\ anchor' = x
            /\ frames' = IF keep THEN [Front(frames) EXCEPT ![Len(frames) - 1] = x]
                         ELSE Front(frames)
      BY <2>2 DEF Return
    <3>5. x \in Ref /\ x \in R \cup {Null}
      BY <2>1, <3>3
    <3>6. /\ Front(frames) \in Seq(Ref) /\ Len(Front(frames)) = Len(frames) - 1
          /\ ToSet(Front(frames)) \subseteq ToSet(frames)
          /\ \A i \in 1 .. (Len(frames) - 1) : Front(frames)[i] = frames[i]
      BY <3>1, <3>2, FrontOf
    <3>7. \A i \in 1 .. base : i \in 1 .. (Len(frames) - 1) /\ i # Len(frames) - 1
      BY <3>1, <3>2
    <3> DEFINE n == Len(frames) - 1
               g == Front(frames)
    <3>8. n = Len(g)
      BY <3>6
    <3> HIDE DEF n, g
    <3>9. g \in Seq(Ref) /\ x \in Ref
      BY <3>5, <3>6 DEF g
    <3>10. ToSet([g EXCEPT ![n] = x]) \subseteq ToSet(g) \cup {x}
      BY <3>9, Replaced
    <3>11. \A i \in 1 .. Len(g) : [g EXCEPT ![n] = x][i] = IF i = n THEN x ELSE g[i]
      BY <3>9, Replaced
    <3>12. ToSet(frames') \subseteq ToSet(g) \cup {x}
      BY <3>4, <3>10 DEF g, n
    <3>13. \A i \in 1 .. base : frames'[i] = g[i]
      <4>1. \A i \in 1 .. base : i \in 1 .. Len(g) /\ i # n
        BY <3>7, <3>8 DEF n
      <4>2. frames' = [g EXCEPT ![n] = x] \/ frames' = g
        BY <3>4 DEF g, n
      <4> QED BY <3>11, <4>1, <4>2
    <3>14. \A i \in 1 .. base : frames'[i] = frames[i]
      BY <3>6, <3>7, <3>13 DEF g
    <3>15. AnyRefs({anchor'}) \subseteq R
      BY <3>4, <3>5 DEF AnyRefs
    <3>16. ToSet(frames') \subseteq R \cup {Null}
      BY <2>1, <3>5, <3>6, <3>12 DEF g
    <3> QED BY <3>14, <3>15, <3>16
  <2>3. CASE ~Return
    <3>1. UNCHANGED <<anchor, frames>>
      BY <2>3 DEF WaitDone, Abort, WaitAgain, NewFails, CollectFor
    <3> QED BY <2>1, <3>1
  <2> QED BY <2>2, <2>3
<1>8. Roots' \cup Unfinalized' \subseteq R
  BY <1>1, <1>5, <1>6, <1>7 DEF Roots, GlobalRefs, FrameRefs, AnyRefs
<1>9. InFinalizer' /\ cont # "shutdown" =>
        (Reachable(OuterRoots \cup Registered) \cap Discarded = {})'
  <2> SUFFICES ASSUME InFinalizer', cont # "shutdown"
               PROVE  (Reachable(OuterRoots \cup Registered) \cap Discarded = {})'
    OBVIOUS
  <2>1. pc' \in CodePc
    BY DEF InFinalizer, CodePc
  <2> QED BY <1>1, <1>7, <2>1, StillSpared
<1> QED BY <1>1, <1>2, <1>3, <1>5, <1>8, <1>9, CodeStep DEF R

\* Allocation is safe: the block was not reachable, its fields are cleared.
LEMMA NewSafe ==
  ASSUME Careless = FALSE, HeapInv, SafeInv, NEW o \in Objects, New(o)
  PROVE  SafeInv'
<1> DEFINE R == Closure(field, Roots \cup Unfinalized)
           Q == Closure(field, OuterRoots \cup Registered)
<1> USE DEF sweepVars
<1>1. /\ pc \in {"new", "retry"} /\ pc' = "managed"
      /\ o \notin Listed /\ o \notin scheduled
      /\ mark' = [mark EXCEPT ![o] = index] /\ finalized' = finalized \ {o}
      /\ field' = [field EXCEPT ![o] = Zeroed] /\ anchor' = o
      /\ frames' = [frames EXCEPT ![Len(frames)] = o]
      /\ UNCHANGED <<globals, index, scheduled, left, cont, base>>
  BY DEF New, Allocated
<1>2. TypeOK /\ Control /\ ListInv
  BY DEF HeapInv, ListInv
<1>3. Listed' = Listed \cup {o}
  BY <1>2, ListGrows
<1>4. /\ Roots \cup Unfinalized \in SUBSET Objects
      /\ OuterRoots \cup Registered \in SUBSET Objects
      /\ field \in [Objects -> [Fields -> Ref]]
  BY <1>2, RootsAreObjects
<1>5. Intact
  BY <1>1 DEF SafeInv, InFinalizer, Collecting
<1>6. /\ R \in SUBSET Objects /\ R \subseteq Allocated
      /\ Roots \subseteq R /\ Unfinalized \subseteq R
      /\ \A p \in R : Targets(field, p) \subseteq R
  BY <1>4, <1>5, ClosureClosed, ReachableIsClosure
<1>7. /\ Q \in SUBSET Objects /\ OuterRoots \subseteq Q /\ Registered \subseteq Q
      /\ \A p \in Q : Targets(field, p) \subseteq Q
  BY <1>4, ClosureClosed
<1> HIDE DEF R, Q
<1>8. /\ \A p \in Objects \ {o} : Targets(field', p) = Targets(field, p)
      /\ Targets(field', o) = {}
  BY <1>1, <1>4 DEF Targets, AnyRefs, Zeroed
<1>9. ASSUME NEW S \in SUBSET Objects, \A p \in S : Targets(field, p) \subseteq S
      PROVE  \A p \in S \cup {o} : Targets(field', p) \subseteq S \cup {o}
  BY <1>8, <1>9
<1>10. ToSet(frames') \subseteq ToSet(frames) \cup {o}
  <2>1. frames \in Seq(Ref) /\ o \in Ref
    BY <1>2 DEF TypeOK, Ref
  <2>2. ToSet([frames EXCEPT ![Len(frames)] = o]) \subseteq ToSet(frames) \cup {o}
    BY <2>1, Replaced
  <2> QED BY <1>1, <2>2
<1>11. Roots' \cup Unfinalized' \subseteq R \cup {o}
  BY <1>1, <1>3, <1>6, <1>10 DEF Roots, GlobalRefs, FrameRefs, AnyRefs, Unfinalized
<1>12. Intact'
  <2> DEFINE S == R \cup {o}
  <2>1. S \in SUBSET Objects /\ S \subseteq Allocated'
    BY <1>1, <1>3, <1>6 DEF Allocated
  <2>2. Roots' \cup Unfinalized' \subseteq S /\ \A p \in S : Targets(field', p) \subseteq S
    BY <1>6, <1>9, <1>11
  <2> HIDE DEF S
  <2>3. Closure(field', Roots' \cup Unfinalized') \subseteq S
    BY <2>1, <2>2, ClosureLeast
  <2> QED BY <2>1, <2>3, ReachableIsClosure
<1>13. /\ Marked(o)'
       /\ \A p \in Objects \ {o} : Marked(p)' <=> Marked(p)
  BY <1>1, <1>2 DEF Marked, TypeOK
<1>14. Spared'
  <2> SUFFICES ASSUME cont # "shutdown", InFinalizer'
               PROVE  (Reachable(OuterRoots \cup Registered) \cap Discarded = {})'
    BY <1>1 DEF Spared
  <2>1. InFinalizer
    BY <1>1 DEF InFinalizer, Collecting
  <2>2. Q \cap Discarded = {}
    BY <2>1, ReachableIsClosure DEF SafeInv, Spared, Q
  <2>3. Discarded' \subseteq Discarded /\ o \notin Discarded'
    BY <1>1, <1>2, <1>3, <1>13, Places DEF Discarded
  <2>4. Registered' \subseteq Registered \cup {o}
    BY <1>1, <1>2, <1>3, <1>13, Places DEF Registered
  <2>5. OuterRoots' \subseteq OuterRoots
    <3>1. Len(frames) > base /\ Len(frames) \in Nat /\ base \in Nat /\ frames \in Seq(Ref) /\ o \in Ref
      BY <1>2, <2>1, Places DEF Control, TypeOK, Ref
    <3>2. \A i \in 1 .. Len(frames) :
            [frames EXCEPT ![Len(frames)] = o][i] = IF i = Len(frames) THEN o ELSE frames[i]
      BY <3>1, Replaced
    <3>3. \A i \in 1 .. base : i \in 1 .. Len(frames) /\ i # Len(frames)
      BY <3>1
    <3>4. \A i \in 1 .. base : frames'[i] = frames[i]
      BY <1>1, <3>2, <3>3
    <3> QED BY <1>1, <3>4 DEF OuterRoots, GlobalRefs, AnyRefs
  <2> DEFINE S == Q \cup {o}
  <2>6. /\ S \in SUBSET Objects /\ OuterRoots' \cup Registered' \subseteq S
        /\ \A p \in S : Targets(field', p) \subseteq S
    BY <1>7, <1>9, <2>4, <2>5
  <2>7. S \cap Discarded' = {}
    BY <2>2, <2>3
  <2> HIDE DEF S
  <2>8. Closure(field', OuterRoots' \cup Registered') \subseteq S
    BY <2>6, ClosureLeast
  <2>9. Reachable(OuterRoots \cup Registered)' = Closure(field', OuterRoots' \cup Registered')
    BY DEF Reachable, Closure, Refs, Targets
  <2> QED BY <2>7, <2>8, <2>9
<1>15. cont # "shutdown"
  BY <1>1 DEF SafeInv, LastRound
<1>16. LastRound' /\ ThreeColours' /\ MarkedIsLive'
  BY <1>1, <1>15 DEF LastRound, ThreeColours, MarkedIsLive
<1> QED BY <1>1, <1>12, <1>14, <1>16 DEF SafeInv
-----------------------------------------------------------------------------
\* A step that leaves the fields alone, frees nothing and adds nothing to the
\* roots and the objects to be finalized leaves the heap intact.
LEMMA StillIntact ==
  ASSUME TypeOK, Intact, UNCHANGED field, Allocated \subseteq Allocated',
         Roots' \cup Unfinalized' \subseteq Roots \cup Unfinalized
  PROVE  Intact'
<1>1. Roots \cup Unfinalized \in SUBSET Objects /\ field \in [Objects -> [Fields -> Ref]]
  BY RootsAreObjects
<1>2. Closure(field, Roots' \cup Unfinalized') \subseteq Closure(field, Roots \cup Unfinalized)
  BY <1>1, ClosureGrows
<1> QED BY <1>2, ReachableIsClosure

\* When a collection begins nothing is marked and the roots are grey.
LEMMA CollectBegins ==
  ASSUME HeapInv, SafeInv, ~Collecting, pc \in CodePc,
         NEW to \in {"managed", "new", "return", "wait", "retry"}, Collect(to),
         UNCHANGED <<programVars, listVars, sweepVars, base>>
  PROVE  SafeInv'
<1> USE DEF programVars, listVars, sweepVars
<1>1. /\ index' = 1 - index /\ grey' = Roots /\ pc' = "mark" /\ cont' = to
      /\ cont' # "shutdown" /\ cont = "none"
  BY DEF Collect, MarkRoots, Collecting
<1>2. TypeOK /\ Intact
  BY <1>1 DEF HeapInv, SafeInv
<1>3. Roots' = Roots /\ Unfinalized' = Unfinalized /\ Listed' = Listed /\ Allocated' = Allocated
  BY DEF Roots, GlobalRefs, FrameRefs, AnyRefs, Unfinalized, Listed, Allocated
<1>4. Intact'
  BY <1>2, <1>3, StillIntact
<1>5. Black' = {}
  <2>1. \A o \in Listed : mark[o] = index
    BY DEF HeapInv, SharedMark, Marked
  <2>2. index' # index
    BY <1>1, <1>2 DEF TypeOK
  <2> QED BY <1>3, <2>1, <2>2 DEF Black, Marked
<1>6. Roots \subseteq Live /\ Live' = Live
  BY <1>2, <1>3, RootsAreObjects, ClosureClosed, ReachableIsClosure
<1>7. ThreeColours'
  BY <1>1, <1>3, <1>5, <1>6 DEF ThreeColours
<1>8. MarkedIsLive' /\ Spared' /\ LastRound'
  BY <1>1 DEF MarkedIsLive, Spared, LastRound, InFinalizer
<1>9. scheduled \cap Finalizable \subseteq finalized
  BY DEF SafeInv
<1> QED BY <1>4, <1>7, <1>8, <1>9 DEF SafeInv

\* Marking the grey objects and what they refer to keeps the three colours.
LEMMA MarkStepSafe ==
  ASSUME HeapInv, SafeInv, MarkStep
  PROVE  SafeInv'
<1> DEFINE white == {o \in grey : ~Marked(o)}
<1> USE DEF programVars, sweepVars
<1>1. /\ pc = "mark" /\ pc' = "mark"
      /\ mark' = [o \in Objects |-> IF o \in white THEN index ELSE mark[o]]
      /\ grey' = UNION {Refs(o) : o \in white}
      /\ UNCHANGED <<programVars, headers, finalized, index, sweepVars, cont, base>>
  BY DEF MarkStep
<1>2. TypeOK /\ Intact /\ scheduled = {} /\ cont # "shutdown"
  BY <1>1 DEF HeapInv, Control, SafeInv
<1>3. Roots' = Roots /\ Unfinalized' = Unfinalized /\ Listed' = Listed /\ Allocated' = Allocated
  BY <1>1 DEF Roots, GlobalRefs, FrameRefs, AnyRefs, Unfinalized, Listed, Allocated
<1>4. Intact'
  BY <1>1, <1>2, <1>3, StillIntact
<1>5. Live' = Live
  BY <1>1, <1>3, ReachableIsClosure
<1>6. /\ Live \subseteq Listed
      /\ \A o \in Live : Refs(o) \subseteq Live
  <2>1. Closure(field, Roots) \subseteq Closure(field, Roots \cup Unfinalized)
    BY <1>2, RootsAreObjects, ClosureGrows
  <2>2. Live \subseteq Allocated
    BY <1>2, <2>1, ReachableIsClosure
  <2>3. \A p \in Closure(field, Roots) : Targets(field, p) \subseteq Closure(field, Roots)
    BY <1>2, RootsAreObjects, ClosureClosed
  <2> QED BY <1>2, <2>2, <2>3, ReachableIsClosure DEF Allocated
<1>7. /\ Black \subseteq Live /\ grey \subseteq Live
      /\ Roots \subseteq Black \cup grey
      /\ \A o \in Black : Refs(o) \subseteq Black \cup grey
  BY <1>1 DEF SafeInv, ThreeColours
<1>8. Black' = Black \cup grey
  <2>1. Listed \subseteq Objects
    BY <1>2, Places
  <2>2. \A o \in Listed : Marked(o)' <=> Marked(o) \/ o \in grey
    BY <1>1, <2>1 DEF Marked
  <2> QED BY <1>3, <1>6, <1>7, <2>2 DEF Black
<1>9. \A o : Refs(o)' = Refs(o)
  BY <1>1 DEF Refs
<1>10. Black \cup grey = Black \cup white
  BY <1>6, <1>7 DEF Black
<1>11. grey' \subseteq Live /\ \A o \in white : Refs(o) \subseteq grey'
  BY <1>1, <1>6, <1>7
<1>12. ThreeColours'
  <2> HIDE DEF white
  <2>1. \A o \in Black' : Refs(o)' \subseteq Black' \cup grey'
    BY <1>7, <1>8, <1>9, <1>10, <1>11
  <2> QED BY <1>3, <1>5, <1>7, <1>8, <1>11, <2>1 DEF ThreeColours
<1>13. MarkedIsLive' /\ Spared' /\ LastRound'
  BY <1>1, <1>2 DEF MarkedIsLive, Spared, LastRound, InFinalizer
<1>14. scheduled \cap Finalizable \subseteq finalized
  BY DEF SafeInv
<1> QED BY <1>1, <1>4, <1>12, <1>13, <1>14 DEF SafeInv

\* When nothing is grey the marked objects are those the program reaches, and
\* the sweep discards none of them.
LEMMA MarkDoneSafe ==
  ASSUME HeapInv, SafeInv, MarkDone
  PROVE  SafeInv'
<1> USE DEF programVars, listVars
<1>1. /\ pc = "mark" /\ pc' = "sweep" /\ grey = {}
      /\ UNCHANGED <<programVars, listVars, index, scheduled, cont>>
  BY DEF MarkDone, StartSweep
<1>2. TypeOK /\ Intact /\ scheduled = {} /\ cont # "shutdown"
  BY <1>1 DEF HeapInv, Control, SafeInv
<1>3. /\ Roots' = Roots /\ Unfinalized' = Unfinalized /\ Listed' = Listed
      /\ Allocated' = Allocated /\ Registered' = Registered /\ Discarded' = Discarded
      /\ Black' = Black
  BY <1>1 DEF Roots, GlobalRefs, FrameRefs, AnyRefs, Unfinalized, Listed, Allocated,
              Registered, Discarded, Black, Marked
<1>4. Intact'
  BY <1>1, <1>2, <1>3, StillIntact
<1>5. Live' = Live
  BY <1>1, <1>3, ReachableIsClosure
<1>6. /\ Black \subseteq Live /\ Roots \subseteq Black
      /\ \A o \in Black : Targets(field, o) \subseteq Black
  BY <1>1, ReachableIsClosure DEF SafeInv, ThreeColours
<1>7. Black \in SUBSET Objects
  BY <1>2, Places DEF Black
<1>8. Black = Live
  <2>1. Closure(field, Roots) \subseteq Black
    BY <1>6, <1>7, ClosureLeast
  <2> QED BY <1>6, <2>1, ReachableIsClosure
<1>9. MarkedIsLive'
  BY <1>3, <1>5, <1>8 DEF MarkedIsLive, Black
<1>10. Spared'
  <2>1. Registered \subseteq Black /\ Black \cap Discarded = {}
    BY <1>2 DEF Registered, Discarded, Black
  <2>2. Closure(field, Roots \cup Registered) \subseteq Black
    BY <1>6, <1>7, <2>1, ClosureLeast
  <2>3. Reachable(Roots \cup Registered)' = Closure(field, Roots \cup Registered)
    BY <1>1, <1>3, ReachableIsClosure
  <2> QED BY <1>1, <1>3, <2>1, <2>2, <2>3 DEF Spared, InFinalizer
<1>11. ThreeColours' /\ LastRound'
  BY <1>1, <1>2 DEF ThreeColours, LastRound
<1>12. scheduled \cap Finalizable \subseteq finalized
  BY DEF SafeInv
<1> QED BY <1>1, <1>4, <1>9, <1>10, <1>11, <1>12 DEF SafeInv

\* Steps of the sweep that discard nothing new and find nothing new leave what
\* will be found again spared.
LEMMA SparedKept ==
  ASSUME TypeOK, UNCHANGED field, NEW A \in SUBSET Objects, NEW B \in SUBSET A, NEW D,
         Reachable(A) \cap Discarded = {}, D \subseteq Discarded
  PROVE  Closure(field', B) \cap D = {}
<1>1. field \in [Objects -> [Fields -> Ref]]
  BY DEF TypeOK
<1>2. Closure(field, B) \subseteq Closure(field, A)
  BY <1>1, ClosureGrows
<1> QED BY <1>2, ReachableIsClosure

\* Passing a marked header is safe.
LEMMA SweepKeepSafe ==
  ASSUME HeapInv, SafeInv, SweepKeep
  PROVE  SafeInv'
<1> USE DEF programVars, listVars
<1>1. /\ pc = "sweep" /\ pc' = "sweep" /\ left > 0 /\ left' = left - 1
      /\ UNCHANGED <<programVars, listVars, index, scheduled, cont>>
  BY DEF SweepKeep
<1>2. TypeOK
  BY DEF HeapInv
<1>3. /\ Roots' = Roots /\ Unfinalized' = Unfinalized /\ Listed' = Listed
      /\ Allocated' = Allocated /\ Registered' = Registered /\ Discarded' = Discarded
      /\ \A o : Marked(o)' <=> Marked(o)
  BY <1>1 DEF Roots, GlobalRefs, FrameRefs, AnyRefs, Unfinalized, Listed, Allocated,
              Registered, Discarded, Marked
<1>4. Intact => Intact'
  BY <1>1, <1>2, <1>3, StillIntact
<1>5. MarkedIsLive'
  <2>1. left' # Len(headers')
    BY <1>1, <1>2, Places
  <2> QED BY <2>1 DEF MarkedIsLive
<1>6. Spared'
  <2>1. Reachable(Roots \cup Registered)' = Reachable(Roots \cup Registered)
    BY <1>1, <1>3, ReachableIsClosure
  <2> QED BY <1>1, <1>3, <2>1 DEF SafeInv, Spared, InFinalizer
<1>7. ThreeColours' /\ LastRound'
  BY <1>1, <1>3, <1>4 DEF SafeInv, ThreeColours, LastRound
<1> QED BY <1>1, <1>4, <1>5, <1>6, <1>7 DEF SafeInv, InFinalizer

\* Unlinking an unmarked header that expects no finalizer is safe: it was
\* already among what the sweep discards.
LEMMA SweepUnlinkSafe ==
  ASSUME HeapInv, SafeInv, SweepUnlink
  PROVE  SafeInv'
<1> USE DEF programVars
<1>1. /\ pc = "sweep" /\ pc' = "sweep" /\ left > 0 /\ left' = left - 1
      /\ ~Marked(Current) /\ (Current \in Finalizable => Current \in finalized)
      /\ headers' = RemoveAt(headers, Position)
      /\ scheduled' = scheduled \cup {Current}
      /\ UNCHANGED <<programVars, mark, finalized, index, cont>>
  BY DEF SweepUnlink, NeedsFinalizer
<1>2. TypeOK /\ Control /\ ListInv
  BY DEF HeapInv, ListInv
<1>3. Listed = Listed' \cup {Current} /\ Current \notin Listed'
  BY <1>2, ListShrinks
<1>4. \A o : Marked(o)' <=> Marked(o)
  BY <1>1 DEF Marked
<1>5. /\ Roots' = Roots /\ Unfinalized' \subseteq Unfinalized /\ Allocated' = Allocated
      /\ Registered' \subseteq Registered /\ Discarded' \subseteq Discarded
  BY <1>1, <1>3, <1>4 DEF Roots, GlobalRefs, FrameRefs, AnyRefs, Unfinalized, Allocated,
                          Registered, Discarded
<1>6. Intact => Intact'
  BY <1>1, <1>2, <1>5, StillIntact
<1>7. MarkedIsLive'
  <2>1. Len(headers') = Len(headers) - 1
    BY <1>1, <1>2, Places, Removed DEF TypeOK
  <2>2. left' = Len(headers') => left = Len(headers)
    BY <1>1, <1>2, <2>1, Places
  <2>3. {o \in Listed : Marked(o)}' = {o \in Listed : Marked(o)}
    BY <1>1, <1>3, <1>4
  <2>4. Live' = Live
    BY <1>1, <1>5, ReachableIsClosure
  <2> QED BY <1>1, <2>2, <2>3, <2>4 DEF SafeInv, MarkedIsLive
<1>8. Spared'
  <2> SUFFICES ASSUME cont # "shutdown"
               PROVE  (Reachable(Roots \cup Registered) \cap Discarded = {})'
    BY <1>1 DEF Spared, InFinalizer
  <2>1. Reachable(Roots \cup Registered) \cap Discarded = {}
    BY <1>1 DEF SafeInv, Spared
  <2>2. /\ Roots \cup Registered \in SUBSET Objects
        /\ Roots' \cup Registered' \in SUBSET (Roots \cup Registered)
    BY <1>2, <1>5, RootsAreObjects
  <2> QED BY <1>1, <1>2, <1>5, <2>1, <2>2, SparedKept, ReachableIsClosure
<1>9. ThreeColours' /\ LastRound'
  BY <1>1, <1>3, <1>4, <1>5, <1>6 DEF SafeInv, ThreeColours, LastRound
<1>10. (scheduled \cap Finalizable \subseteq finalized)'
  BY <1>1 DEF SafeInv
<1> QED BY <1>1, <1>6, <1>7, <1>8, <1>9, <1>10 DEF SafeInv, InFinalizer

\* Handing an object to its finalizer is safe: until then it was counted among
\* those whose references must stay whole.
LEMMA SweepFinalizeSafe ==
  ASSUME HeapInv, SafeInv, SweepFinalize
  PROVE  SafeInv'
<1> USE DEF sweepVars
<1>1. /\ pc = "sweep" /\ pc' = "managed" /\ left > 0 /\ ~Marked(Current)
      /\ Current \in Finalizable /\ Current \notin finalized
      /\ finalized' = finalized \cup {Current}
      /\ base' = Len(frames) /\ frames' = Append(frames, Current)
      /\ UNCHANGED <<anchor, globals, field, headers, index, scheduled, left, cont>>
  BY DEF SweepFinalize, NeedsFinalizer
<1>2. TypeOK /\ Control /\ ListInv
  BY DEF HeapInv, ListInv
<1>3. /\ Current \in Listed /\ Current \in Objects /\ Current \notin scheduled
  BY <1>1, <1>2, Places DEF ListInv, FreedOnce
<1>4. /\ mark' = [mark EXCEPT ![Current] = 1 - @] /\ Listed' = Listed
      /\ Allocated' = Allocated
  BY <1>1 DEF SweepFinalize, Listed, Allocated
<1>5. /\ (mark'[Current] = index)
      /\ \A o \in Objects \ {Current} : Marked(o)' <=> Marked(o)
  <2>1. Current' = Current
    BY <1>1 DEF Current, Position
  <2> QED BY <1>1, <1>2, <2>1, FinalizerMarks DEF Marked
<1>6. /\ ToSet(frames') = ToSet(frames) \cup {Current}
      /\ \A i \in 1 .. Len(frames) : frames'[i] = frames[i]
      /\ ToSet(frames) = {frames[i] : i \in 1 .. Len(frames)}
  <2>1. frames \in Seq(Ref) /\ Current \in Ref
    BY <1>2, <1>3 DEF TypeOK, Ref
  <2> QED BY <1>1, <2>1, Appended, Elements
<1>7. Intact
  <2>1. Unfinalized # {}
    BY <1>1, <1>3 DEF Unfinalized
  <2> QED BY <2>1 DEF SafeInv, LastRound
<1>8. Intact'
  <2>1. Current \in Unfinalized /\ Unfinalized' \subseteq Unfinalized
    BY <1>1, <1>3, <1>4 DEF Unfinalized
  <2>2. Roots' \subseteq Roots \cup {Current}
    BY <1>1, <1>6 DEF Roots, GlobalRefs, FrameRefs, AnyRefs
  <2> QED BY <1>1, <1>2, <1>4, <1>7, <2>1, <2>2, StillIntact
<1>9. Spared'
  <2> SUFFICES ASSUME cont # "shutdown"
               PROVE  (Reachable(OuterRoots \cup Registered) \cap Discarded = {})'
    BY <1>1 DEF Spared
  <2>1. Reachable(Roots \cup Registered) \cap Discarded = {}
    BY <1>1 DEF SafeInv, Spared
  <2>2. Discarded' \subseteq Discarded
    BY <1>1, <1>2, <1>3, <1>4, <1>5, Places DEF Discarded, Marked
  <2>3. Registered' \subseteq Registered
    BY <1>1, <1>2, <1>4, <1>5, Places DEF Registered
  <2>4. OuterRoots' \subseteq Roots
    BY <1>1, <1>6 DEF OuterRoots, Roots, GlobalRefs, FrameRefs, AnyRefs
  <2>5. /\ Roots \cup Registered \in SUBSET Objects
        /\ OuterRoots' \cup Registered' \in SUBSET (Roots \cup Registered)
    BY <1>2, <2>3, <2>4, RootsAreObjects
  <2> QED BY <1>1, <1>2, <2>1, <2>2, <2>5, SparedKept, ReachableIsClosure
<1>10. LastRound'
  <2>1. \A o \in Listed : Marked(o)' => Marked(o) \/ o = Current
    BY <1>2, <1>5, Places
  <2> QED BY <1>1, <1>4, <1>8, <2>1 DEF SafeInv, LastRound
<1>11. ThreeColours' /\ MarkedIsLive' /\ (scheduled \cap Finalizable \subseteq finalized)'
  BY <1>1 DEF SafeInv, ThreeColours, MarkedIsLive
<1> QED BY <1>8, <1>9, <1>10, <1>11 DEF SafeInv

\* When a finalizer returns its frame and the anchor are gone; what it was not
\* to leave behind is what the sweep discards.
LEMMA FinalizerReturnSafe ==
  ASSUME HeapInv, SafeInv, FinalizerReturn
  PROVE  SafeInv'
<1> USE DEF listVars
<1>1. /\ pc = "managed" /\ pc' = "sweep" /\ InFinalizer /\ Len(frames) = base + 1
      /\ frames' = Front(frames) /\ anchor' = Null /\ left' = left - 1
      /\ UNCHANGED <<globals, field, listVars, index, scheduled, cont>>
  BY DEF FinalizerReturn
<1>2. TypeOK /\ Control /\ left > 0 /\ Intact
  BY <1>1 DEF HeapInv, SafeInv, Control
<1>3. /\ Unfinalized' = Unfinalized /\ Listed' = Listed
      /\ Allocated' = Allocated /\ Registered' = Registered /\ Discarded' = Discarded
      /\ \A o : Marked(o)' <=> Marked(o)
  BY <1>1 DEF Unfinalized, Listed, Allocated, Registered, Discarded, Marked
<1>4. Roots' \subseteq OuterRoots /\ OuterRoots \subseteq Roots
  <2>1. frames \in Seq(Ref) /\ Len(frames) > 0 /\ base \in Nat
    BY <1>1, <1>2, Places DEF TypeOK
  <2>2. /\ frames' \in Seq(Ref) /\ Len(frames') = base
        /\ \A i \in 1 .. base : frames'[i] = frames[i]
    BY <1>1, <2>1, FrontOf
  <2>3. /\ ToSet(frames') = {frames'[i] : i \in 1 .. base}
        /\ ToSet(frames) = {frames[i] : i \in 1 .. Len(frames)}
    BY <2>1, <2>2, Elements
  <2>4. \A i \in 1 .. base : i \in 1 .. Len(frames)
    BY <1>1, <2>1
  <2> QED BY <1>1, <2>2, <2>3, <2>4 DEF Roots, OuterRoots, GlobalRefs, FrameRefs, AnyRefs
<1>5. Intact'
  BY <1>1, <1>2, <1>3, <1>4, StillIntact
<1>6. MarkedIsLive'
  <2>1. left' # Len(headers')
    BY <1>1, <1>2, Places
  <2> QED BY <2>1 DEF MarkedIsLive
<1>7. Spared'
  <2> SUFFICES ASSUME cont # "shutdown"
               PROVE  (Reachable(Roots \cup Registered) \cap Discarded = {})'
    BY <1>1 DEF Spared, InFinalizer
  <2>1. Reachable(OuterRoots \cup Registered) \cap Discarded = {}
    BY <1>1 DEF SafeInv, Spared
  <2>2. /\ OuterRoots \cup Registered \in SUBSET Objects
        /\ Roots' \cup Registered' \in SUBSET (OuterRoots \cup Registered)
    BY <1>2, <1>3, <1>4, RootsAreObjects
  <2> QED BY <1>1, <1>2, <1>3, <2>1, <2>2, SparedKept, ReachableIsClosure
<1>8. ThreeColours' /\ LastRound' /\ (scheduled \cap Finalizable \subseteq finalized)'
  BY <1>1, <1>3, <1>5 DEF SafeInv, ThreeColours, LastRound
<1> QED BY <1>5, <1>6, <1>7, <1>8 DEF SafeInv
-----------------------------------------------------------------------------
\* When the sweep has passed every header, every header left is marked; giving
\* back what was unlinked touches none of them.
LEMMA SweepOver ==
  ASSUME HeapInv, pc = "sweep", left = 0, FreeScheduled, UNCHANGED headers
  PROVE  /\ Listed' = Listed /\ Listed \cap scheduled = {} /\ scheduled' = {}
         /\ Listed \subseteq Allocated'
         /\ \A o \in Listed : Marked(o) /\ mark'[o] = mark[o] /\ field'[o] = field[o]
         /\ \A o \in Listed : o \in finalized' <=> o \in finalized
         /\ Unfinalized' = Unfinalized /\ Unfinalized \subseteq Registered
<1>1. Listed' = Listed /\ Listed \subseteq Objects /\ Listed \cap scheduled = {}
  BY Places DEF HeapInv, FreedOnce, Listed
<1>2. \A o \in Listed : Marked(o)
  <2>1. \A i \in 1 .. Len(headers) : Marked(headers[i])
    BY Places DEF HeapInv, Passed
  <2> QED BY <2>1, Elements DEF HeapInv, TypeOK, Listed
<1>3. /\ scheduled' = {} /\ finalized' = finalized \ scheduled
      /\ \A o \in Listed : mark'[o] = mark[o] /\ field'[o] = field[o]
  BY <1>1 DEF FreeScheduled
<1> QED BY <1>1, <1>2, <1>3 DEF Unfinalized, Registered, Allocated

\* Giving memory back is safe: nothing reachable was unlinked.
LEMMA SweepDoneSafe ==
  ASSUME HeapInv, SafeInv, SweepDone
  PROVE  SafeInv'
<1> DEFINE R == Closure(field, Roots \cup Unfinalized)
<1>1. /\ pc = "sweep" /\ left = 0 /\ cont # "shutdown" /\ FreeScheduled
      /\ pc' = cont /\ cont' = "none" /\ UNCHANGED <<frames, anchor, globals, headers>>
  BY DEF SweepDone
<1>2. TypeOK /\ Control /\ Intact
  BY <1>1 DEF HeapInv, SafeInv
<1>3. /\ Listed' = Listed /\ Listed \cap scheduled = {} /\ scheduled' = {}
      /\ Listed \subseteq Allocated' /\ Unfinalized' = Unfinalized
      /\ \A o \in Listed : field'[o] = field[o]
      /\ Unfinalized \subseteq Registered
  BY <1>1, SweepOver
<1>4. Roots' = Roots
  BY <1>1 DEF Roots, GlobalRefs, FrameRefs, AnyRefs
<1>5. /\ R \in SUBSET Objects /\ Roots \cup Unfinalized \subseteq R
      /\ \A p \in R : Targets(field, p) \subseteq R
  BY <1>2, RootsAreObjects, ClosureClosed
<1>6. R \subseteq Listed
  <2>1. R \subseteq Allocated
    BY <1>2, ReachableIsClosure
  <2>2. Closure(field, Roots \cup Registered) \cap Discarded = {}
    BY <1>1, ReachableIsClosure DEF SafeInv, Spared
  <2>3. R \subseteq Closure(field, Roots \cup Registered)
    <3>1. Roots \cup Unfinalized \in SUBSET (Roots \cup Registered)
      BY <1>3
    <3> QED BY <1>2, <3>1, RootsAreObjects, ClosureGrows
  <2> HIDE DEF R
  <2> QED BY <2>1, <2>2, <2>3 DEF Allocated, Discarded
<1>7. Intact'
  <2>1. \A p \in R : Targets(field', p) \subseteq R
    <3> HIDE DEF R
    <3> QED BY <1>3, <1>5, <1>6 DEF Targets
  <2>2. Closure(field', Roots' \cup Unfinalized') \subseteq R
    <3> HIDE DEF R
    <3> QED BY <1>3, <1>4, <1>5, <2>1, ClosureLeast
  <2> HIDE DEF R
  <2> QED BY <1>3, <1>6, <2>2, ReachableIsClosure
<1>8. pc' \in CodePc
  BY <1>1, <1>2 DEF TypeOK, Conts, Control, Collecting, CodePc
<1>9. ThreeColours' /\ MarkedIsLive' /\ Spared' /\ LastRound'
  BY <1>1, <1>8
     DEF ThreeColours, MarkedIsLive, Spared, LastRound, InFinalizer, Collecting, CodePc
<1> QED BY <1>3, <1>7, <1>9 DEF SafeInv

\* The final shutdown begins with everything unmarked, so that its first round
\* calls every finalizer that was not called.
LEMMA ShutdownSafe ==
  ASSUME HeapInv, SafeInv, Shutdown
  PROVE  SafeInv'
<1> USE DEF listVars
<1>1. /\ pc = "managed" /\ pc' = "sweep" /\ cont = "none" /\ cont' = "shutdown"
      /\ frames' = << >> /\ anchor' = Null /\ index' = 1 - index
      /\ UNCHANGED <<globals, field, listVars, scheduled>>
  BY DEF Shutdown, StartSweep, Collecting
<1>2. TypeOK /\ Intact
  BY <1>1 DEF HeapInv, SafeInv
<1>3. Unfinalized' = Unfinalized /\ Listed' = Listed /\ Allocated' = Allocated
  BY <1>1 DEF Unfinalized, Listed, Allocated
<1>4. Roots' \subseteq Roots
  <2>1. << >> \in Seq(Ref) /\ Len(<< >>) = 0
    BY EmptySeq
  <2>2. ToSet(<< >>) = {}
    <3>1. ToSet(<< >>) = {<< >>[i] : i \in 1 .. Len(<< >>)}
      BY <2>1, Elements
    <3> QED BY <2>1, <3>1
  <2> QED BY <1>1, <2>2 DEF Roots, GlobalRefs, FrameRefs, AnyRefs
<1>5. Intact'
  BY <1>1, <1>2, <1>3, <1>4, StillIntact
<1>6. \A o \in Listed' : ~Marked(o)'
  <2>1. \A o \in Listed : mark[o] = index
    BY <1>1 DEF HeapInv, SharedMark, Marked, Collecting
  <2>2. index' # index
    BY <1>1, <1>2 DEF TypeOK
  <2> QED BY <1>1, <1>3, <2>1, <2>2 DEF Marked
<1>7. LastRound'
  BY <1>1, <1>5, <1>6 DEF LastRound
<1>8. ThreeColours' /\ MarkedIsLive' /\ Spared'
  BY <1>1 DEF ThreeColours, MarkedIsLive, Spared
<1> QED BY <1>1, <1>5, <1>7, <1>8 DEF SafeInv

\* After a round of the final shutdown no object expects a finalizer.
LEMMA ShutdownRoundsSafe ==
  ASSUME HeapInv, SafeInv, ShutdownAgain \/ ShutdownDone
  PROVE  SafeInv'
<1>1. /\ pc = "sweep" /\ left = 0 /\ cont = "shutdown" /\ cont' = cont
      /\ FreeScheduled /\ UNCHANGED headers /\ pc' \in {"sweep", "stopped"}
      /\ index' \in {index, 1 - index}
  BY DEF ShutdownAgain, ShutdownDone, StartSweep
<1>2. /\ Listed' = Listed /\ scheduled' = {}
      /\ \A o \in Listed : Marked(o) /\ (o \in finalized' <=> o \in finalized)
      /\ Unfinalized' = Unfinalized
  BY <1>1, SweepOver
<1>3. \A o \in Listed \cap Finalizable : o \in finalized
  BY <1>1, <1>2 DEF SafeInv, LastRound
<1>4. Unfinalized' = {} /\ \A o \in Listed' \cap Finalizable : o \in finalized'
  BY <1>2, <1>3 DEF Unfinalized
<1>5. LastRound'
  BY <1>1, <1>4 DEF LastRound
<1>6. ThreeColours' /\ MarkedIsLive' /\ Spared' /\ ~InFinalizer'
  BY <1>1 DEF ThreeColours, MarkedIsLive, Spared, InFinalizer
<1> QED BY <1>1, <1>2, <1>5, <1>6 DEF SafeInv

\* Every step, and every stutter, of a program with careful finalizers is safe.
LEMMA NextSafe ==
  ASSUME Careless = FALSE, HeapInv, SafeInv, [Next]_vars
  PROVE  SafeInv'
<1>1. TypeOK'
  BY NextHeapInv DEF HeapInv
<1>2. CASE Assign \/ StoreGlobal \/ StoreField \/ Suppress \/ ReRegister \/ Call
  BY <1>1, <1>2, StoresSafe
<1>3. CASE (\E to \in {"managed", "new", "return", "wait"} : CollectFor(to))
             \/ WaitAgain \/ NewFails
  <2>1. CASE Collecting
    BY <1>1, <1>3, <2>1, ReturnsSafe
  <2>2. CASE ~Collecting
    BY <1>3, <2>2, CollectBegins DEF CollectFor, WaitAgain, NewFails, CodePc
  <2> QED BY <2>1, <2>2
<1>4. CASE Return \/ WaitDone \/ Abort
  BY <1>1, <1>4, ReturnsSafe
<1>5. ASSUME NEW o \in Objects, New(o) PROVE SafeInv'
  BY <1>5, NewSafe
<1>6. CASE MarkStep \/ MarkDone
  BY <1>6, MarkStepSafe, MarkDoneSafe
<1>7. CASE SweepKeep \/ SweepUnlink \/ SweepFinalize \/ SweepDone
  BY <1>7, SweepKeepSafe, SweepUnlinkSafe, SweepFinalizeSafe, SweepDoneSafe
<1>8. CASE FinalizerReturn
  BY <1>8, FinalizerReturnSafe
<1>9. CASE Shutdown \/ ShutdownAgain \/ ShutdownDone
  BY <1>9, ShutdownSafe, ShutdownRoundsSafe
<1>10. CASE UNCHANGED vars
  <2>1. /\ Listed' = Listed /\ Allocated' = Allocated /\ Roots' = Roots
        /\ OuterRoots' = OuterRoots /\ Unfinalized' = Unfinalized
        /\ Registered' = Registered /\ Discarded' = Discarded /\ Black' = Black
        /\ InFinalizer' = InFinalizer /\ \A o : Marked(o)' <=> Marked(o)
    BY <1>10 DEF vars, Listed, Allocated, Roots, OuterRoots, GlobalRefs, FrameRefs,
       AnyRefs, Unfinalized, Registered, Discarded, Black, InFinalizer, Collecting, Marked
  <2>2. /\ Live' = Live /\ (Intact' <=> Intact)
        /\ Reachable(Roots \cup Registered)' = Reachable(Roots \cup Registered)
        /\ Reachable(OuterRoots \cup Registered)' = Reachable(OuterRoots \cup Registered)
        /\ \A o : Refs(o)' = Refs(o)
    BY <1>10, <2>1, ReachableIsClosure DEF vars
  <2>3. ThreeColours' /\ MarkedIsLive'
    BY <1>10, <2>1, <2>2 DEF vars, SafeInv, ThreeColours, MarkedIsLive
  <2>4. Spared' /\ LastRound'
    BY <1>10, <2>1, <2>2 DEF vars, SafeInv, Spared, LastRound
  <2> QED BY <1>10, <2>1, <2>2, <2>3, <2>4 DEF vars, SafeInv
<1> QED BY <1>2, <1>3, <1>4, <1>5, <1>6, <1>7, <1>8, <1>9, <1>10 DEF Next, Program, Runtime
-----------------------------------------------------------------------------
\* In an empty heap nothing is reachable.
LEMMA InitSafe == Init => SafeInv
<1> SUFFICES ASSUME Init PROVE SafeInv
  OBVIOUS
<1>1. HeapInv
  BY InitHeapInv
<1>2. Roots = {} /\ Listed = {}
  <2>1. headers \in Seq(Objects)
    BY <1>1 DEF HeapInv, TypeOK
  <2>2. Listed = {headers[i] : i \in 1 .. Len(headers)} /\ Len(headers) = 0
    <3>1. Listed = {headers[i] : i \in 1 .. Len(headers)}
      BY <2>1, Elements DEF Listed
    <3>2. Len(headers) = 0
      BY EmptySeq DEF Init
    <3> QED BY <3>1, <3>2
  <2>3. ToSet(frames) = {frames[i] : i \in 1 .. 1} /\ frames[1] = Null
    <3>1. frames = <<Null>> /\ Len(frames) = 1
      BY DEF Init
    <3>2. frames \in Seq(Ref)
      BY <1>1 DEF HeapInv, TypeOK
    <3>3. ToSet(frames) = {frames[i] : i \in 1 .. Len(frames)}
      BY <3>2, Elements
    <3> QED BY <3>1, <3>3
  <2>4. Listed = {}
    BY <2>2
  <2>5. FrameRefs = {}
    BY <2>3 DEF FrameRefs, AnyRefs
  <2> QED BY <2>4, <2>5 DEF Init, Roots, GlobalRefs, AnyRefs
<1>3. Intact
  <2>1. Closure(field, {}) \subseteq {}
    BY ClosureLeast
  <2> QED BY <1>2, <2>1, ReachableIsClosure DEF Unfinalized
<1> QED BY <1>2, <1>3 DEF Init, SafeInv, ThreeColours, MarkedIsLive, Spared, LastRound,
           InFinalizer, Collecting

\* The heap of a program with careful finalizers, step by step.
LEMMA SafeInvariant ==
  ASSUME Careless = FALSE
  PROVE  Spec => []HeapSafe
<1>1. Init => HeapSafe
  BY InitHeapInv, InitSafe DEF HeapSafe
<1>2. HeapSafe /\ [Next]_vars => HeapSafe'
  BY NextHeapInv, NextSafe DEF HeapSafe
<1> QED BY <1>1, <1>2, PTL DEF Spec

\* With careful finalizers nothing managed code can reach is freed, or about to
\* be: the sweep's verdicts are still right when the memory is given back,
\* whatever was allocated, stored and resurrected while it ran
\* (il2c_gc.c:337-433).
THEOREM NothingReachableFreed ==
  ASSUME Careless = FALSE
  PROVE  Spec => []NoDangling
<1>1. HeapSafe => NoDangling
  <2> SUFFICES ASSUME HeapInv, SafeInv PROVE NoDangling
    BY DEF HeapSafe
  <2>1. ~Collecting => scheduled = {}
    BY DEF HeapInv, Control, Collecting
  <2>2. pc \in CodePc \/ ~Collecting => Intact
    BY DEF SafeInv, InFinalizer, Collecting, CodePc
  <2>3. Intact => Live \subseteq Allocated
    <3>1. TypeOK
      BY DEF HeapInv
    <3>2. Closure(field, Roots) \subseteq Closure(field, Roots \cup Unfinalized)
      BY <3>1, RootsAreObjects, ClosureGrows
    <3> QED BY <3>2, ReachableIsClosure
  <2> QED BY <2>1, <2>2, <2>3 DEF NoDangling, Allocated, CodePc
<1> QED BY <1>1, SafeInvariant, PTL

\* When marking is over the marked headers are the objects the program reaches:
\* no stale mark stops the traversal, and none survives the inverted index
\* (il2c_gc.c:552-563).
THEOREM MarkingIsExact ==
  ASSUME Careless = FALSE
  PROVE  Spec => []MarkedIsLive
<1>1. HeapSafe => MarkedIsLive
  BY DEF HeapSafe, SafeInv
<1> QED BY <1>1, SafeInvariant, PTL

\* Memory of an object that overrides Finalize is given back only after its
\* finalizer was called or suppressed (il2c_gc.c:352-375).
THEOREM FinalizersComeFirst ==
  ASSUME Careless = FALSE
  PROVE  Spec => FinalizedBeforeFreed
<1>1. ASSUME HeapSafe, [Next]_vars
      PROVE  [\A o \in Finalizable : o \in Allocated /\ o \notin Allocated' => o \in finalized]_vars
  <2> SUFFICES ASSUME NEW o \in Finalizable, o \in Allocated, o \notin Allocated'
               PROVE  o \in finalized
    OBVIOUS
  <2>1. TypeOK /\ Control /\ ListInv
    BY <1>1 DEF HeapSafe, HeapInv, ListInv
  <2>2. scheduled \cap Finalizable \subseteq finalized
    BY <1>1 DEF HeapSafe, SafeInv
  <2>3. CASE SweepDone \/ ShutdownAgain \/ ShutdownDone
    <3>1. Listed' = Listed
      BY <2>3 DEF SweepDone, ShutdownAgain, ShutdownDone, Listed
    <3> QED BY <2>2, <3>1 DEF Allocated
  <2>4. CASE SweepUnlink
    <3>1. Listed = Listed' \cup {Current} /\ scheduled' = scheduled \cup {Current}
      BY <2>1, <2>4, ListShrinks DEF SweepUnlink
    <3> QED BY <3>1 DEF Allocated
  <2>5. ASSUME NEW p \in Objects, New(p) PROVE FALSE
    <3>1. Listed' = Listed \cup {p} /\ scheduled' = scheduled
      BY <2>1, <2>5, ListGrows DEF New, sweepVars
    <3> QED BY <3>1 DEF Allocated
  <2>6. CASE UNCHANGED <<headers, scheduled>>
    BY <2>6 DEF Allocated, Listed
  <2>7. \/ SweepDone \/ ShutdownAgain \/ ShutdownDone \/ SweepUnlink
        \/ \E p \in Objects : New(p)
        \/ UNCHANGED <<headers, scheduled>>
    <3> USE DEF programVars, listVars, sweepVars
    <3>1. CASE Program
      BY <3>1 DEF Program, Assign, StoreGlobal, StoreField, Suppress, ReRegister, Call,
         CollectFor, Shutdown
    <3>2. CASE Runtime
      BY <3>2 DEF Runtime, WaitAgain, WaitDone, NewFails, Abort, Return, MarkStep,
         MarkDone, SweepKeep, SweepFinalize
    <3>3. CASE FinalizerReturn \/ UNCHANGED vars
      BY <3>3 DEF FinalizerReturn, vars
    <3> QED BY <1>1, <3>1, <3>2, <3>3 DEF Next
  <2> QED BY <2>3, <2>4, <2>5, <2>6, <2>7
<1> QED BY <1>1, SafeInvariant, PTL DEF Spec, FinalizedBeforeFreed
-----------------------------------------------------------------------------
\* A collection that has asked no finalizer keeps what is reachable and nothing
\* else, to its end; the loop that waits for finalizers runs outside collections.
Clean ==
  /\ pc = "sweep" /\ pending = 0 /\ cont # "shutdown" => Black = Live
  /\ pc = "wait" => ~Collecting
  /\ pc = "wait" /\ pending = 0 => Listed = Live

\* The sweep itself, up to its last header, changes neither what is marked nor
\* what is reachable, or it has called a finalizer.
LEMMA SweepClean ==
  ASSUME HeapInv, Clean, SafeInv',
         MarkDone \/ SweepKeep \/ SweepUnlink \/ SweepFinalize \/ FinalizerReturn
  PROVE  Clean'
<1> USE DEF programVars, listVars, sweepVars
<1>1. TypeOK /\ Control /\ ListInv
  BY DEF HeapInv, ListInv
<1>2. pc' \in {"sweep", "managed"} /\ cont' = cont
  BY DEF MarkDone, StartSweep, SweepKeep, SweepUnlink, SweepFinalize, FinalizerReturn
<1>3. CASE MarkDone
  <2>1. pc' = "sweep" /\ left' = Len(headers') /\ MarkedIsLive'
    BY <1>3 DEF MarkDone, StartSweep, SafeInv
  <2> QED BY <2>1 DEF Clean, MarkedIsLive, Black
<1>4. CASE SweepKeep \/ SweepUnlink
  <2>1. /\ pc = "sweep" /\ pending' = pending
        /\ UNCHANGED <<frames, anchor, globals, field, mark, index>>
    BY <1>4 DEF SweepKeep, SweepUnlink
  <2>2. \A o : Marked(o)' <=> Marked(o)
    BY <2>1 DEF Marked
  <2>3. Black' = Black
    <3>1. CASE SweepKeep
      BY <2>2, <3>1 DEF SweepKeep, Black, Listed
    <3>2. CASE SweepUnlink
      <4>1. Listed = Listed' \cup {Current} /\ ~Marked(Current)
        BY <1>1, <3>2, ListShrinks DEF SweepUnlink
      <4> QED BY <2>2, <4>1 DEF Black
    <3> QED BY <1>4, <3>1, <3>2
  <2>4. Live' = Live
    <3>1. Roots' = Roots
      BY <2>1 DEF Roots, GlobalRefs, FrameRefs, AnyRefs
    <3> QED BY <2>1, <3>1, ReachableIsClosure
  <2> QED BY <1>2, <2>1, <2>3, <2>4 DEF Clean
<1>5. CASE SweepFinalize
  BY <1>5 DEF SweepFinalize, Clean
<1>6. CASE FinalizerReturn
  <2>1. pc' = "sweep" /\ pending' = pending + 1 /\ pending \in Nat
    BY <1>1, <1>6 DEF FinalizerReturn, TypeOK
  <2>2. pending' # 0
    BY <2>1
  <2> QED BY <2>1, <2>2 DEF Clean
<1> QED BY <1>3, <1>4, <1>5, <1>6

\* The sweep that has asked no finalizer ends with a list of what is reachable,
\* and giving memory back changes none of it.
LEMMA SweepDoneClean ==
  ASSUME HeapInv, Clean, SweepDone
  PROVE  Clean'
<1>1. /\ pc = "sweep" /\ left = 0 /\ cont # "shutdown" /\ FreeScheduled
      /\ pc' = cont /\ cont' = "none" /\ pending' = pending
      /\ UNCHANGED <<frames, anchor, globals, headers>>
  BY DEF SweepDone
<1>2. TypeOK /\ pc' # "sweep" /\ ~Collecting'
  BY <1>1 DEF HeapInv, TypeOK, Conts, Collecting
<1>3. /\ Listed' = Listed
      /\ \A o \in Listed : Marked(o) /\ field'[o] = field[o]
  BY <1>1, SweepOver
<1>4. ASSUME pending = 0 PROVE Listed' = Live'
  <2>1. Listed = Live
    BY <1>1, <1>3, <1>4 DEF Clean, Black
  <2>2. Roots' = Roots
    BY <1>1 DEF Roots, GlobalRefs, FrameRefs, AnyRefs
  <2> DEFINE L == Closure(field, Roots)
             M == Closure(field', Roots)
  <2>3. L = Listed /\ Live' = M
    BY <2>1, <2>2, ReachableIsClosure
  <2>4. /\ L \in SUBSET Objects /\ Roots \subseteq L
        /\ \A p \in L : Targets(field, p) \subseteq L
    BY <1>2, RootsAreObjects, ClosureClosed
  <2>5. \A p \in L : Targets(field', p) = Targets(field, p)
    BY <1>3, <2>3 DEF Targets
  <2>6. M \subseteq L
    <3> HIDE DEF L
    <3> QED BY <2>4, <2>5, ClosureLeast
  <2>7. L \subseteq M
    <3>1. field' \in [Objects -> [Fields -> Ref]] /\ Roots \in SUBSET Objects
      <4>1. Roots \in SUBSET Objects /\ field \in [Objects -> [Fields -> Ref]]
        BY <1>2, RootsAreObjects
      <4>2. Zeroed \in [Fields -> Ref]
        BY DEF Zeroed, Ref
      <4> QED BY <1>1, <4>1, <4>2 DEF FreeScheduled
    <3>2. /\ Roots \subseteq M /\ M \in SUBSET Objects
          /\ \A p \in M : Targets(field', p) \subseteq M
      BY <3>1, ClosureClosed
    <3>3. \A p \in M : Targets(field, p) \subseteq M
      <4> HIDE DEF L, M
      <4> QED BY <2>5, <2>6, <3>2
    <3>4. ASSUME NEW S, S = M PROVE Closure(field, Roots) \subseteq S
      <4>1. S \in SUBSET Objects /\ Roots \subseteq S /\ \A p \in S : Targets(field, p) \subseteq S
        BY <3>2, <3>3, <3>4
      <4> QED BY <4>1, ClosureLeast
    <3> QED BY <3>4
  <2> QED BY <1>3, <2>3, <2>6, <2>7
<1> QED BY <1>1, <1>2, <1>4 DEF Clean

\* Whatever else the program and the runtime do, they do not come to the loop:
\* its collections return to it, and none begins where one is under way.
LEMMA NextClean ==
  ASSUME HeapSafe, SafeInv', Clean, [Next]_vars
  PROVE  Clean'
<1> USE DEF programVars, listVars, sweepVars
<1>1. HeapInv
  BY DEF HeapSafe
<1>2. CASE MarkDone \/ SweepKeep \/ SweepUnlink \/ SweepFinalize \/ FinalizerReturn
  BY <1>1, <1>2, SweepClean
<1>3. CASE SweepDone
  BY <1>1, <1>3, SweepDoneClean
<1>4. CASE Assign \/ StoreGlobal \/ StoreField \/ Suppress \/ ReRegister \/ Call
  BY <1>4 DEF Assign, StoreGlobal, StoreField, Suppress, ReRegister, Call, Clean
<1>5. ASSUME NEW to \in {"managed", "new", "return", "wait"}, CollectFor(to) PROVE Clean'
  BY <1>5 DEF CollectFor, Collect, Clean
<1>6. CASE WaitAgain
  BY <1>6 DEF WaitAgain, Collect, Clean
<1>7. CASE WaitDone \/ NewFails \/ Abort \/ Return
  BY <1>7 DEF WaitDone, NewFails, Abort, Return, Collect, Clean
<1>8. ASSUME NEW o \in Objects, New(o) PROVE Clean'
  BY <1>8 DEF New, Clean
<1>9. CASE MarkStep
  BY <1>9 DEF MarkStep, Clean
<1>10. CASE Shutdown \/ ShutdownAgain \/ ShutdownDone
  BY <1>10 DEF Shutdown, ShutdownAgain, ShutdownDone, StartSweep, Clean
<1>11. CASE UNCHANGED vars
  <2>1. /\ Listed' = Listed /\ Roots' = Roots /\ Collecting' = Collecting
        /\ \A o : Marked(o)' <=> Marked(o)
        /\ UNCHANGED <<pc, pending, cont, field>>
    BY <1>11 DEF vars, Listed, Roots, GlobalRefs, FrameRefs, AnyRefs, Collecting, Marked
  <2>2. Live' = Live /\ Black' = Black
    BY <2>1, ReachableIsClosure DEF Black
  <2> QED BY <2>1, <2>2 DEF Clean
<1> QED BY <1>2, <1>3, <1>4, <1>5, <1>6, <1>7, <1>8, <1>9, <1>10, <1>11
        DEF Next, Program, Runtime

\* GC.WaitForPendingFinalizers returns from its loop when, with careful
\* finalizers, nothing is left that the program does not reach: the collection
\* that called no finalizer freed the rest (GC.c:36-42).
THEOREM WaitingCollectsEverything ==
  ASSUME Careless = FALSE
  PROVE  Spec => WaitLeavesNoGarbage
<1>1. Init => Clean
  BY DEF Init, Clean
<1>2. HeapSafe /\ HeapSafe' /\ Clean /\ [Next]_vars => Clean'
  BY NextClean DEF HeapSafe
<1>3. Clean => [WaitDone => Listed = Live]_vars
  BY DEF Clean, WaitDone
<1> QED BY <1>1, <1>2, <1>3, SafeInvariant, PTL DEF Spec, WaitLeavesNoGarbage
=============================================================================
