--------------------------- MODULE MCRuntimeProofs ---------------------------
(***************************************************************************)
(* Proofs about what supports the code of a method body (MCRuntime).       *)
(*                                                                         *)
(* Exceptions, for every set of exceptions and filters and any nesting of  *)
(* blocks and calls: the frames of exceptions and the execution frames are *)
(* those of the C blocks and functions that are left on the C stack.  Then *)
(* the refinement: if no exception leaves a handler from a nested block    *)
(* and a leave passes one block, handlers run as CliExceptions says.       *)
(*                                                                         *)
(* The writer, for every body of any length whose handlers are laid out as *)
(* CIL lays them out: each instruction is written in the C blocks of the   *)
(* handlers it is in, and a leave is bound where it leaves the last one.   *)
(*                                                                         *)
(* Strings and boxes, for literals and texts of any number and length and  *)
(* any widths of the types: a string holds the text and the terminator     *)
(* that it should, and a box the value that .NET puts into it.             *)
(*                                                                         *)
(* Numbers, for texts of any length and any widths of the types: TryParse  *)
(* has the number of a numeral exactly if the type has it, and the text of *)
(* a value is a numeral for it.                                            *)
(*                                                                         *)
(* Composite formats, for formats and lists of arguments of any number and *)
(* length: the three passes find the same items, and the string is the one *)
(* that .NET makes, or both refuse the format.                             *)
(***************************************************************************)
EXTENDS RuntimeInvariants, SequenceTheorems, FunctionTheorems, FiniteSetTheorems, WellFoundedInduction, TLAPS

\* A nonempty set of bounded numbers has its largest element.
LEMMA MaxIsIn ==
  ASSUME NEW n \in Nat, NEW S \in SUBSET (0 .. n), S # {}
  PROVE  Max(S) \in S /\ \A y \in S : Max(S) >= y
<1> DEFINE R == OpToRel(<, Nat)
           T == {k \in Nat : n - k \in S}
<1>1. \A a, b \in Nat : <<a, b>> \in R <=> a < b
  BY Zenon DEF OpToRel
<1>2. IsWellFoundedOn(R, Nat)
  BY NatLessThanWellFounded
<1> HIDE DEF R
<1>3. T # {}
  <2>1. PICK s \in S : TRUE OBVIOUS
  <2>2. n - s \in Nat /\ n - (n - s) = s OBVIOUS
  <2> QED BY <2>1, <2>2
<1>4. PICK k \in T : \A j \in T : ~(<<j, k>> \in R)
  <2> T \subseteq Nat OBVIOUS
  <2> HIDE DEF T
  <2> QED BY <1>2, <1>3, WFMin
<1>5. \A j \in T : k <= j
  <2> SUFFICES ASSUME NEW j \in T PROVE k <= j OBVIOUS
  <2>1. ~(j < k) BY <1>1, <1>4
  <2> QED BY <2>1
<1>6. n - k \in S /\ \A y \in S : n - k >= y
  <2>1. ASSUME NEW y \in S PROVE n - k >= y
    <3>1. n - y \in Nat /\ n - (n - y) = y OBVIOUS
    <3>2. n - y \in T BY <3>1
    <3>3. k <= n - y BY <1>5, <3>2
    <3> QED BY <3>3, <3>1
  <2> QED BY <2>1
<1> QED BY <1>6 DEF Max

-----------------------------------------------------------------------------
\* The chain consists of blocks, and the one from the innermost frame has all.
LEMMA ChainFacts ==
  ASSUME TypeOK
  PROVE  /\ \A i : Chain(i) \subseteq 1 .. Top
         /\ FramesAreLive => Chain(Top) = 1 .. Top
<1>0. Top \in Nat
  BY DEF TypeOK, Top
<1>1. \A i : Chain(i) \subseteq 1 .. Top
  BY DEF Chain
<1>2. ASSUME FramesAreLive, NEW k \in 1 .. Top, NEW S \in SUBSET (1 .. Top),
             \A j \in {Top} \cup {stack[j].next : j \in S} : j = 0 \/ j \in S
      PROVE  k \in S
  <2> DEFINE Rest == (1 .. Top) \ S
  <2> SUFFICES ASSUME k \notin S PROVE FALSE OBVIOUS
  <2>1. Max(Rest) \in Rest /\ \A y \in Rest : Max(Rest) >= y
    <3>1. Rest \in SUBSET (0 .. Top) /\ Rest # {} BY <1>0
    <3> HIDE DEF Rest
    <3> QED BY <3>1, <1>0, MaxIsIn
  <2> DEFINE m == Max(Rest)
  <2> HIDE DEF m
  <2>2. m \in 1 .. Top /\ m \notin S /\ \A y \in (1 .. Top) \ S : m >= y
    BY <2>1 DEF m
  <2>3. Top \in S
    BY <1>2, <1>0
  <2>4. m + 1 \in 1 .. Top /\ m + 1 \in S
    BY <2>2, <2>3, <1>0
  <2>5. stack[m + 1].next = m
    BY <2>4, <2>2, <1>2, <1>0 DEF FramesAreLive
  <2>6. m \in {stack[j].next : j \in S}
    BY <2>4, <2>5
  <2>7. m = 0 \/ m \in S
    BY <2>6, <1>2
  <2> QED BY <2>7, <2>2, <1>0
<1>3. FramesAreLive => Chain(Top) = 1 .. Top
  BY <1>1, <1>2 DEF Chain
<1> QED BY <1>1, <1>3

\* A search ends at a block or finds none.
LEMMA SelectedIsBlock ==
  ASSUME TypeOK, NEW e, NEW from
  PROVE  Selected(e, from) \in 0 .. Top
<1>0. Top \in Nat
  BY DEF TypeOK, Top
<1>1. Chain(from) \subseteq 1 .. Top
  BY ChainFacts
<1> DEFINE C == {0} \cup {i \in Chain(from) : Catches(i, e)}
           caught == Max(C)
           F == {i \in Chain(from) : stack[i].kind = "finally" /\ i > caught}
<1>2. C \in SUBSET (0 .. Top) /\ C # {}
  BY <1>0, <1>1
<1>3. caught \in 0 .. Top
  <2> HIDE DEF C
  <2> QED BY <1>2, <1>0, MaxIsIn
<1>4. ({caught} \cup F) \in SUBSET (0 .. Top) /\ ({caught} \cup F) # {}
  <2> F \subseteq 1 .. Top BY <1>1
  <2> HIDE DEF F, caught
  <2> QED BY <1>3, <1>0
<1>5. Max({caught} \cup F) \in 0 .. Top
  <2> HIDE DEF F, caught
  <2> QED BY <1>4, <1>0, MaxIsIn
<1> QED BY <1>5 DEF Selected
-----------------------------------------------------------------------------
\* At first there is no frame of an exception.
LEMMA InitFrames == Init => FrameInv
<1>1. <<>> \in Seq(Block) /\ Len(<<>>) = 0
  OBVIOUS
<1> QED
  BY <1>1 DEF Init, FrameInv, TypeOK, FramesAreLive, Handled, Top

\* il2c_try: the new frame is linked before the one that was the first.
LEMMA TryFrames ==
  ASSUME FrameInv, NEW kind \in Kinds, NEW filter \in SUBSET Exceptions, Try(kind, filter)
  PROVE  FrameInv'
<1> DEFINE b == [kind |-> kind, filter |-> filter, call |-> calls, at |-> "try",
                 continuation |-> 0, next |-> target, frame |-> pFrame, ex |-> Null,
                 entries |-> 0]
<1>1. /\ outcome = "running" /\ target = Top
      /\ stack' = Append(stack, b) /\ target' = Top + 1
      /\ UNCHANGED <<calls, pFrame, outcome>>
  BY DEF Try, Managed, FrameInv, FramesAreLive
<1>2. /\ stack \in Seq(Block) /\ calls \in Nat \ {0} /\ pFrame \in Nat /\ pFrame = calls
      /\ Top \in Nat
  BY DEF FrameInv, TypeOK, FramesAreLive, Top
<1>3. b \in Block
  BY <1>1, <1>2 DEF Block, Kinds, Parts
<1>4. b.call = calls /\ b.at = "try" /\ b.next = Top /\ b.frame = calls
  BY <1>1, <1>2
<1> HIDE DEF b
<1>5. /\ stack' \in Seq(Block) /\ Top' = Top + 1
      /\ \A i \in 1 .. Top : stack'[i] = stack[i]
      /\ stack'[Top + 1] = b
  BY <1>1, <1>2, <1>3 DEF Top
<1>6. TypeOK'
  BY <1>1, <1>2, <1>5 DEF FrameInv, TypeOK
<1>7. FramesAreLive'
  BY <1>1, <1>2, <1>4, <1>5 DEF FrameInv, FramesAreLive
<1>8. Handled'
  <2>1. \A i \in 1 .. Top' : (i \in 1 .. Top /\ stack'[i] = stack[i]) \/ stack'[i] = b
    BY <1>2, <1>5
  <2>2. b.call >= 1 /\ b.at # "catch"
    BY <1>2, <1>4
  <2>3. \A i \in 1 .. Top : stack[i].call >= 1 /\ (stack[i].at = "catch" => stack[i].ex # Null)
    BY DEF FrameInv, Handled
  <2> QED BY <2>1, <2>2, <2>3, Zenon DEF Handled
<1> QED
  BY <1>6, <1>7, <1>8 DEF FrameInv

\* A call and a return leave the exception frames alone.
LEMMA CallFrames ==
  ASSUME FrameInv, Call \/ Return
  PROVE  FrameInv'
<1>1. UNCHANGED <<stack, target, outcome>> /\ Top' = Top
  BY DEF Call, Return, Top
<1>2. calls' \in Nat \ {0} /\ pFrame' \in Nat /\ pFrame' = calls'
  BY DEF Call, Return, FrameInv, TypeOK, FramesAreLive
<1> QED
  BY <1>1, <1>2 DEF FrameInv, TypeOK, FramesAreLive, Handled

\* il2c_do_throw__: the blocks that are cut off take their frames with them.
LEMMA DoThrowFrames ==
  ASSUME FrameInv, NEW e \in Exceptions, NEW i \in 1 .. Top, DoThrow(e, i)
  PROVE  FrameInv'
<1> DEFINE s == SubSeq(stack, 1, i)
           c == stack[i]
           b == [c EXCEPT !.ex = e, !.at = c.kind, !.entries = @ + 1]
<1>1. /\ stack \in Seq(Block) /\ Top \in Nat /\ Top = Len(stack)
      /\ stack[i] \in Block /\ stack[i].call >= 1
      /\ stack[i].next = i - 1 /\ stack[i].frame = stack[i].call
  BY DEF FrameInv, TypeOK, FramesAreLive, Handled, Top
<1>2. b \in Block /\ b.call = c.call /\ b.next = i - 1 /\ b.frame = b.call /\ b.ex # Null
  <2>1. c \in Block /\ c.next = i - 1 /\ c.frame = c.call
    BY <1>1
  <2> HIDE DEF c
  <2>2. b \in Block
    <3> DEFINE b1 == [c EXCEPT !.ex = e]
               b2 == [b1 EXCEPT !.at = b1.kind]
    <3>1. b1 \in Block /\ b1.kind = c.kind
      BY <2>1 DEF Block
    <3>2. b2 \in Block
      <4> HIDE DEF b1
      <4>1. b1.kind \in Parts BY <3>1 DEF Block, Kinds, Parts
      <4> QED BY <4>1, <3>1 DEF Block
    <3>3. [b2 EXCEPT !.entries = @ + 1] \in Block
      <4> HIDE DEF b2
      <4> QED BY <3>2 DEF Block
    <3>4. b = [b2 EXCEPT !.entries = @ + 1]
      BY <2>1, <3>1 DEF Block
    <3> QED BY <3>3, <3>4
  <2>3. b.call = c.call /\ b.next = c.next /\ b.frame = c.frame /\ b.ex = e
    BY <2>1 DEF Block
  <2> QED BY <2>1, <2>2, <2>3, ExceptionAssumption
<1>3. s \in Seq(Block) /\ Len(s) = i /\ \A j \in 1 .. i : s[j] = stack[j]
  BY <1>1
<1>4. /\ stack' = [s EXCEPT ![i].ex = e, ![i].at = stack[i].kind, ![i].entries = @ + 1]
      /\ target' = i /\ pFrame' = stack[i].frame /\ calls' = stack[i].call /\ outcome' = outcome
  BY DEF DoThrow
<1> HIDE DEF s
<1>5. stack' = [s EXCEPT ![i] = b]
  <2>1. s[i] = c /\ i \in DOMAIN s
    BY <1>3
  <2>2. stack' = [s EXCEPT ![i].ex = e, ![i].at = c.kind, ![i].entries = @ + 1]
    BY <1>4
  <2> HIDE DEF c
  <2> QED BY <2>1, <2>2, Zenon
<1> HIDE DEF b
<1>6. /\ stack' \in Seq(Block) /\ Top' = i
      /\ \A j \in 1 .. (i - 1) : stack'[j] = stack[j]
      /\ stack'[i] = b
  BY <1>2, <1>3, <1>5 DEF Top
<1>7. calls' \in Nat \ {0} /\ pFrame' = calls'
  BY <1>1, <1>4 DEF Block
<1>8. TypeOK'
  BY <1>4, <1>6, <1>7 DEF FrameInv, TypeOK
<1>9. FramesAreLive'
  <2>1. ASSUME NEW j \in 1 .. Top'
        PROVE  stack'[j].next = j - 1 /\ stack'[j].frame = stack'[j].call
    <3>1. CASE j = i
      BY <3>1, <1>2, <1>6
    <3>2. CASE j # i
      BY <3>2, <1>1, <1>6 DEF FrameInv, FramesAreLive
    <3> QED BY <3>1, <3>2
  <2> QED BY <2>1, <1>4, <1>6, <1>7 DEF FramesAreLive
<1>10. Handled'
  <2>1. ASSUME NEW j \in 1 .. Top'
        PROVE  stack'[j].call >= 1 /\ (stack'[j].at = "catch" => stack'[j].ex # Null)
    <3>1. CASE j = i
      BY <3>1, <1>1, <1>2, <1>6
    <3>2. CASE j # i
      BY <3>2, <1>1, <1>6 DEF FrameInv, Handled
    <3> QED BY <3>1, <3>2
  <2> QED BY <2>1 DEF Handled
<1> QED
  BY <1>8, <1>9, <1>10 DEF FrameInv

\* il2c_throw_internal__, from whichever frame it starts.
LEMMA ThrowInternalFrames ==
  ASSUME FrameInv, NEW e \in Exceptions, NEW from, NEW linked \in Nat,
         ThrowInternal(e, from, linked)
  PROVE  FrameInv'
<1>1. CASE Selected(e, from) = 0
  <2>1. /\ outcome' = "unhandled" /\ target' = linked /\ UNCHANGED <<stack, calls, pFrame>>
        /\ Top' = Top
    BY <1>1 DEF ThrowInternal, Top
  <2> QED BY <2>1 DEF FrameInv, TypeOK, FramesAreLive, Handled
<1>2. CASE Selected(e, from) # 0
  <2>1. Top \in Nat /\ Selected(e, from) \in 0 .. Top
    BY SelectedIsBlock DEF FrameInv, TypeOK, Top
  <2>2. Selected(e, from) \in 1 .. Top
    BY <2>1, <1>2
  <2>3. DoThrow(e, Selected(e, from))
    BY <1>2 DEF ThrowInternal
  <2> QED BY <2>2, <2>3, DoThrowFrames
<1> QED BY <1>1, <1>2

\* The frame that a rethrow unlinks is the innermost, so its next is a block.
LEMMA RethrowInternalFrames ==
  ASSUME FrameInv, target = Top, Top > 0, RethrowInternal,
         \E i \in 1 .. Top : stack[i].ex # Null
  PROVE  FrameInv'
<1>1. /\ Top \in Nat /\ target \in 1 .. Top
      /\ \A i \in 1 .. Top : stack[i] \in Block
  BY DEF FrameInv, TypeOK, Top
<1>2. CASE stack[target].ex # Null
  <2>1. ThrowInternal(stack[target].ex, stack[target].next, stack[target].next)
    BY <1>2 DEF RethrowInternal
  <2>2. stack[target].ex \in Exceptions /\ stack[target].next \in Nat
    BY <1>1, <1>2 DEF Block
  <2> QED BY <2>1, <2>2, ThrowInternalFrames
<1>3. CASE stack[target].ex = Null
  <2> DEFINE S == {0} \cup {i \in Chain(target) : stack[i].ex # Null}
  <2>1. Chain(target) = 1 .. Top
    BY ChainFacts DEF FrameInv
  <2>2. S \in SUBSET (0 .. Top) /\ S # {}
    BY <2>1, <1>1
  <2>3. PICK i \in 1 .. Top : stack[i].ex # Null
    OBVIOUS
  <2>4. i \in S
    BY <2>1, <2>3
  <2>5. Max(S) \in S /\ Max(S) >= i
    <3> HIDE DEF S
    <3> QED BY <2>2, <2>4, <1>1, MaxIsIn
  <2>6. NearestCaught \in 1 .. Top /\ stack[NearestCaught].ex # Null
    BY <2>5, <2>1, <1>1 DEF NearestCaught
  <2>7. stack[NearestCaught].ex \in Exceptions
    BY <2>6, <1>1 DEF Block
  <2>8. ThrowInternal(stack[NearestCaught].ex, target, target)
    BY <1>3 DEF RethrowInternal
  <2>9. target \in Nat
    BY <1>1
  <2> QED BY <2>7, <2>8, <2>9, ThrowInternalFrames
<1> QED BY <1>2, <1>3
\* A throw jumps to a block that is still on the C stack, or nothing handles it.
LEMMA ThrowFrames ==
  ASSUME FrameInv, NEW e \in Exceptions, Throw(e)
  PROVE  FrameInv'
<1>1. target \in Nat /\ ThrowInternal(e, FirstFrame, target)
  BY DEF Throw, FrameInv, TypeOK
<1> QED BY <1>1, ThrowInternalFrames

\* A rethrow searches on behind the frame of the catch it is in.
LEMMA RethrowFrames ==
  ASSUME FrameInv, Rethrow
  PROVE  FrameInv'
<1>1. PICK i \in 1 .. Top : stack[i].at = "catch"
  BY DEF Rethrow, CatchesHere
<1>2. stack[i].ex # Null
  BY <1>1 DEF FrameInv, Handled
<1>3. target = Top /\ RethrowInternal
  BY DEF Rethrow, Managed, FrameInv, FramesAreLive
<1>4. Top > 0
  BY DEF FrameInv, TypeOK, Top
<1> QED BY <1>2, <1>3, <1>4, RethrowInternalFrames

\* Changes of the innermost block that leave its frame alone.
LEMMA SameFrames ==
  ASSUME FrameInv, NEW b \in Block, Top > 0, stack' = [stack EXCEPT ![Top] = b],
         b.call = stack[Top].call, b.next = stack[Top].next, b.frame = stack[Top].frame,
         b.at # "catch", UNCHANGED <<calls, target, pFrame, outcome>>
  PROVE  FrameInv'
<1>1. stack \in Seq(Block) /\ Top \in Nat
  BY DEF FrameInv, TypeOK, Top
<1>2. /\ stack' \in Seq(Block) /\ Top' = Top
      /\ \A i \in 1 .. Top : stack'[i] = IF i = Top THEN b ELSE stack[i]
  BY <1>1 DEF Top
<1> QED BY <1>1, <1>2 DEF FrameInv, TypeOK, FramesAreLive, Handled

\* A leave takes the frames it passes off the list, or stops at a finally.
LEMMA LeaveFrames ==
  ASSUME FrameInv, NEW n \in 1 .. MaxLeave, Leave(n)
  PROVE  FrameInv'
<1> DEFINE c == stack[Top]
           after == IF c.kind = "finally" THEN "finally" ELSE "leave"
           times == IF c.kind = "finally" THEN c.entries + 1 ELSE c.entries
           b == [c EXCEPT !.continuation = n, !.at = after, !.entries = times]
<1>1. Top \in Nat /\ n \in Nat /\ Top > 0 /\ stack \in Seq(Block) /\ Top = Len(stack)
  BY ExceptionAssumption DEF Leave, FrameInv, TypeOK, Top
<1>2. c \in Block /\ Top \in DOMAIN stack
  BY <1>1
<1>3. after \in {"finally", "leave"} /\ times \in Nat
  BY <1>2 DEF Block
<1>4. UNCHANGED <<calls, target, pFrame, outcome>> /\ stack' = [stack EXCEPT ![Top] = b]
  BY <1>2 DEF Leave, Block
<1>5. b \in Block /\ b.call = c.call /\ b.next = c.next /\ b.frame = c.frame /\ b.at # "catch"
  <2> HIDE DEF c, after, times
  <2>1. b \in Block
    BY <1>1, <1>2, <1>3 DEF Block, Parts
  <2>2. b.call = c.call /\ b.next = c.next /\ b.frame = c.frame /\ b.at = after
    BY <1>2 DEF Block
  <2> QED BY <2>1, <2>2, <1>3
<1> HIDE DEF b
<1> QED BY <1>1, <1>4, <1>5, SameFrames

\* The end of a finally handler goes on with what entered it.
LEMMA EndFinallyFrames ==
  ASSUME FrameInv, EndFinally
  PROVE  FrameInv'
<1>1. /\ Top \in Nat /\ Top > 0 /\ stack \in Seq(Block) /\ Top = Len(stack)
      /\ stack[Top] \in Block /\ target = Top
  BY DEF EndFinally, Managed, FrameInv, TypeOK, FramesAreLive, Top
<1>2. CASE stack[Top].ex # Null
  BY <1>1, <1>2, RethrowInternalFrames DEF EndFinally
<1>3. CASE stack[Top].ex = Null
  <2> DEFINE c == stack[Top]
             b == [c EXCEPT !.at = "leave"]
  <2>1. UNCHANGED <<calls, target, pFrame, outcome>> /\ stack' = [stack EXCEPT ![Top] = b]
    BY <1>1, <1>3 DEF EndFinally
  <2>2. b \in Block /\ b.call = c.call /\ b.next = c.next /\ b.frame = c.frame /\ b.at # "catch"
    <3>1. c \in Block BY <1>1
    <3> HIDE DEF c
    <3> QED BY <3>1 DEF Block, Parts
  <2> HIDE DEF b
  <2> QED BY <1>1, <2>1, <2>2, SameFrames
<1> QED BY <1>2, <1>3

\* il2c_leave_to: the block and its frame go together.
LEMMA LeaveToFrames ==
  ASSUME FrameInv, LeaveTo
  PROVE  FrameInv'
<1> DEFINE parent == SubSeq(stack, 1, Top - 1)
           left == stack[Top].continuation
           c == parent[Top - 1]
           b == [c EXCEPT !.continuation = left - 1]
<1>1. /\ Top \in Nat /\ Top > 0 /\ stack \in Seq(Block) /\ Top = Len(stack)
      /\ \A i \in 1 .. Top : stack[i] \in Block
      /\ stack[Top].next = Top - 1
  BY DEF LeaveTo, FrameInv, TypeOK, FramesAreLive, Top
<1>2. /\ parent \in Seq(Block) /\ Len(parent) = Top - 1
      /\ \A i \in 1 .. (Top - 1) : parent[i] = stack[i]
  BY <1>1
<1>3. /\ target' = Top - 1 /\ UNCHANGED <<calls, pFrame, outcome>>
      /\ stack' = IF left <= 1 THEN parent ELSE [parent EXCEPT ![Top - 1].continuation = left - 1]
  BY <1>1 DEF LeaveTo
<1>4. left \in Nat
  BY <1>1 DEF Block
<1> HIDE DEF parent, left
<1>5. /\ stack' \in Seq(Block) /\ Len(stack') = Top - 1
      /\ \A i \in 1 .. (Top - 1) :
           /\ stack'[i].call = stack[i].call /\ stack'[i].next = stack[i].next
           /\ stack'[i].frame = stack[i].frame /\ stack'[i].at = stack[i].at
           /\ stack'[i].ex = stack[i].ex
  <2>1. CASE left <= 1 \/ Top - 1 = 0
    <3>1. stack' = parent
      BY <2>1, <1>1, <1>2, <1>3
    <3> QED BY <3>1, <1>2
  <2>2. CASE left > 1 /\ Top - 1 > 0
    <3>1. Top - 1 \in DOMAIN parent /\ c \in Block
      BY <2>2, <1>1, <1>2
    <3>2. stack' = [parent EXCEPT ![Top - 1] = b]
      BY <2>2, <1>3, <1>4
    <3>3. /\ b \in Block /\ b.call = c.call /\ b.next = c.next /\ b.frame = c.frame
          /\ b.at = c.at /\ b.ex = c.ex
      <4> HIDE DEF c
      <4>1. left - 1 \in Nat BY <2>2, <1>4
      <4> QED BY <3>1, <4>1 DEF Block
    <3> HIDE DEF b
    <3>4. stack' \in Seq(Block) /\ Len(stack') = Top - 1
      BY <3>1, <3>2, <3>3, <1>2
    <3>5. \A i \in 1 .. (Top - 1) : stack'[i] = IF i = Top - 1 THEN b ELSE parent[i]
      BY <3>1, <3>2, <1>2
    <3> QED BY <3>3, <3>4, <3>5, <1>1, <1>2
  <2> QED BY <2>1, <2>2, <1>1, <1>4
<1>6. Top' = Top - 1
  BY <1>5 DEF Top
<1>7. TypeOK'
  BY <1>1, <1>3, <1>5 DEF FrameInv, TypeOK
<1>8. FramesAreLive'
  BY <1>1, <1>3, <1>5, <1>6 DEF FrameInv, FramesAreLive
<1>9. Handled'
  BY <1>1, <1>5, <1>6 DEF FrameInv, Handled
<1> QED BY <1>7, <1>8, <1>9 DEF FrameInv

-----------------------------------------------------------------------------
\* Every step keeps the frames those of the C blocks that are left.
LEMMA NextFrames == FrameInv /\ [Next]_vars => FrameInv'
<1> SUFFICES ASSUME FrameInv, [Next]_vars PROVE FrameInv'
  OBVIOUS
<1>1. ASSUME NEW filter \in Filters, Try("catch", filter) PROVE FrameInv'
  BY <1>1, TryFrames, ExceptionAssumption DEF Kinds
<1>2. CASE Try("finally", {})
  BY <1>2, TryFrames DEF Kinds
<1>3. CASE Call \/ Return
  BY <1>3, CallFrames
<1>4. ASSUME NEW e \in Exceptions, Throw(e) PROVE FrameInv'
  BY <1>4, ThrowFrames
<1>5. CASE Rethrow
  BY <1>5, RethrowFrames
<1>6. ASSUME NEW n \in 1 .. MaxLeave, Leave(n) PROVE FrameInv'
  BY <1>6, LeaveFrames
<1>7. CASE EndFinally
  BY <1>7, EndFinallyFrames
<1>8. CASE LeaveTo
  BY <1>8, LeaveToFrames
<1>9. CASE UNCHANGED vars
  BY <1>9 DEF vars, FrameInv, TypeOK, FramesAreLive, Handled, Top
<1> QED
  BY <1>1, <1>2, <1>3, <1>4, <1>5, <1>6, <1>7, <1>8, <1>9 DEF Next

\* Whatever a program throws, rethrows and leaves, across any number of calls,
\* the list of exception frames is that of the C blocks that are left, and the
\* execution frames are those of the functions that have not returned: no
\* handler is ever looked for, and nothing ever marked, in a frame that is gone.
THEOREM FramesStayLive == Spec => []FramesAreLive
<1>1. Init => FrameInv
  BY InitFrames
<1>2. FrameInv /\ [Next]_vars => FrameInv'
  BY NextFrames
<1>3. FrameInv => FramesAreLive
  BY DEF FrameInv
<1> QED
  BY <1>1, <1>2, <1>3, PTL DEF Spec
-----------------------------------------------------------------------------
\* The largest element is the one that no element exceeds.
LEMMA MaxIs ==
  ASSUME NEW n \in Nat, NEW S \in SUBSET (0 .. n), NEW x \in S, \A y \in S : y <= x
  PROVE  Max(S) = x
<1>1. Max(S) \in S /\ \A y \in S : Max(S) >= y
  <2>1. S # {} OBVIOUS
  <2> QED BY <2>1, MaxIsIn
<1> DEFINE z == Max(S)
<1> HIDE DEF z
<1>2. z \in S /\ z >= x
  BY <1>1 DEF z
<1>3. z \in 0 .. n /\ x \in 0 .. n /\ z <= x
  BY <1>2
<1>4. z = x
  BY <1>2, <1>3
<1> QED BY <1>4 DEF z

LEMMA SearchEnds ==
  ASSUME NEW n \in Nat, NEW C \in SUBSET (1 .. n), NEW F \in SUBSET (1 .. n),
         C \cap F = {}
  PROVE  /\ EndOf(C, F) \in {0} \cup C \cup F
         /\ \A y \in C \cup F : y <= EndOf(C, F)
         /\ Max({FirstOf(C)} \cup F) = EndOf(C, F)
         /\ Max({FirstOf(C)} \cup {i \in F : i > FirstOf(C)}) = EndOf(C, F)
<1> DEFINE c == Max({0} \cup C)
           r == Max({0} \cup C \cup F)
           G == {i \in F : i > c}
<1>1. c \in {0} \cup C /\ \A y \in {0} \cup C : c >= y
  <2>1. ({0} \cup C) \in SUBSET (0 .. n) /\ ({0} \cup C) # {}
    OBVIOUS
  <2> QED BY <2>1, MaxIsIn
<1>2. r \in {0} \cup C \cup F /\ \A y \in {0} \cup C \cup F : r >= y
  <2>1. ({0} \cup C \cup F) \in SUBSET (0 .. n) /\ ({0} \cup C \cup F) # {}
    OBVIOUS
  <2> QED BY <2>1, MaxIsIn
<1> HIDE DEF c, r
<1>3. c \in 0 .. n /\ r \in 0 .. n /\ c <= r
  BY <1>1, <1>2
<1>4. r \in {c} \cup F /\ r \in {c} \cup G
  <2>1. CASE r \in F
    <3>1. c \notin F
      BY <1>1
    <3> QED BY <2>1, <3>1, <1>3
  <2>2. CASE r \notin F
    <3>1. r \in {0} \cup C
      BY <2>2, <1>2
    <3>2. c >= r
      BY <1>1, <3>1
    <3> QED BY <3>2, <1>3
  <2> QED BY <2>1, <2>2
<1>5. ({c} \cup F) \in SUBSET (0 .. n) /\ \A y \in {c} \cup F : y <= r
  <2>1. \A y \in F : y <= r
    BY <1>2, <1>3
  <2> QED BY <1>3, <2>1
<1>6. Max({c} \cup F) = r
  BY <1>4, <1>5, MaxIs
<1>7. ({c} \cup G) \in SUBSET (0 .. n) /\ \A y \in {c} \cup G : y <= r
  BY <1>5
<1>8. Max({c} \cup G) = r
  BY <1>4, <1>7, MaxIs
<1>9. \A y \in C \cup F : y <= r
  BY <1>2, <1>3
<1> QED BY <1>2, <1>6, <1>8, <1>9 DEF c, r, FirstOf, EndOf

\* The frames from any block on are that block and the outer ones.
LEMMA ChainIs ==
  ASSUME TypeOK, FramesAreLive, NEW m \in 0 .. Top
  PROVE  Chain(m) = 1 .. m
<1>0. Top \in Nat
  BY DEF TypeOK, Top
<1>1. ASSUME NEW k \in 1 .. m, NEW S \in SUBSET (1 .. Top),
             \A j \in {m} \cup {stack[j].next : j \in S} : j = 0 \/ j \in S
      PROVE  k \in S
  <2> DEFINE Rest == (1 .. m) \ S
  <2> SUFFICES ASSUME k \notin S PROVE FALSE OBVIOUS
  <2>1. Max(Rest) \in Rest /\ \A y \in Rest : Max(Rest) >= y
    <3>1. Rest \in SUBSET (0 .. Top) /\ Rest # {} BY <1>0
    <3> HIDE DEF Rest
    <3> QED BY <3>1, <1>0, MaxIsIn
  <2> DEFINE x == Max(Rest)
  <2> HIDE DEF x
  <2>2. x \in 1 .. m /\ x \notin S /\ \A y \in (1 .. m) \ S : x >= y
    BY <2>1 DEF x
  <2>3. m \in S
    BY <1>1, <1>0
  <2>4. x + 1 \in 1 .. m /\ x + 1 \in S
    BY <2>2, <2>3, <1>0
  <2>5. stack[x + 1].next = x
    BY <2>4, <2>2, <1>0 DEF FramesAreLive
  <2>6. x \in {stack[j].next : j \in S}
    BY <2>4, <2>5
  <2> QED BY <1>1, <2>2, <2>6, <1>0
<1>2. (1 .. m) \in SUBSET (1 .. Top)
  BY <1>0
<1>3. \A j \in {m} \cup {stack[j].next : j \in 1 .. m} : j = 0 \/ j \in 1 .. m
  <2>1. \A j \in 1 .. m : stack[j].next = j - 1
    BY <1>0 DEF FramesAreLive
  <2>2. \A j \in 1 .. m : j - 1 = 0 \/ j - 1 \in 1 .. m
    BY <1>0
  <2> QED BY <2>1, <2>2, <1>0
<1>4. Chain(m) \subseteq 1 .. m
  BY <1>2, <1>3 DEF Chain
<1>5. 1 .. m \subseteq Chain(m)
  BY <1>0, <1>1, <1>2 DEF Chain
<1> QED BY <1>4, <1>5
-----------------------------------------------------------------------------
\* A sequence is what its length and its elements are.
LEMMA SeqIs ==
  ASSUME NEW S, NEW s \in Seq(S), NEW n \in Nat, NEW f,
         f = [i \in 1 .. n |-> f[i]], Len(s) = n, \A i \in 1 .. n : f[i] = s[i]
  PROVE  f = s
<1>1. s = [i \in 1 .. n |-> s[i]]
  BY LenProperties
<1>2. [i \in 1 .. n |-> f[i]] = [i \in 1 .. n |-> s[i]]
  OBVIOUS
<1> QED BY <1>1, <1>2

\* The abstract state, block by block.
LEMMA SeenFacts ==
  ASSUME CliInv
  PROVE  /\ Top \in Nat /\ SeenTop \in 0 .. Top
         /\ SeenBlocks = [i \in 1 .. SeenTop |-> Seen(i)]
         /\ SeenBlocks \in Seq(SeenBlock) /\ Len(SeenBlocks) = SeenTop
         /\ \A i \in 1 .. SeenTop : SeenBlocks[i] = Seen(i) /\ Seen(i) \in SeenBlock
<1>1. Top \in Nat /\ SeenTop \in 0 .. Top
  BY DEF CliInv, FrameInv, TypeOK, Top, SeenTop
<1>2. SeenBlocks = [i \in 1 .. SeenTop |-> Seen(i)]
  BY DEF SeenBlocks, SeenTop
<1>3. ASSUME NEW i \in 1 .. Top PROVE Seen(i) \in SeenBlock
  <2> DEFINE b == stack[i]
             remain == IF b.at = "finally" /\ b.ex = Null THEN i - b.continuation ELSE 0
  <2>1. b \in Block
    BY DEF CliInv, FrameInv, TypeOK, Top
  <2>2. remain \in Int
    BY <1>1, <2>1 DEF Block
  <2>3. Seen(i) = [kind |-> b.kind, filter |-> b.filter, call |-> b.call, at |-> b.at,
                   ex |-> b.ex, remain |-> remain]
    BY DEF Seen
  <2> HIDE DEF b, remain
  <2> QED BY <2>1, <2>2, <2>3 DEF Block, SeenBlock
<1>4. \A i \in 1 .. SeenTop : SeenBlocks[i] = Seen(i) /\ Seen(i) \in SeenBlock
  BY <1>1, <1>2, <1>3
<1>5. SeenBlocks \in [1 .. SeenTop -> SeenBlock]
  BY <1>2, <1>4
<1>6. SeenBlocks \in Seq(SeenBlock) /\ Len(SeenBlocks) = SeenTop
  BY <1>1, <1>5
<1> QED BY <1>1, <1>2, <1>4, <1>6

\* The abstract blocks of the next state are s, if they are block by block.
LEMMA SeenBecomes ==
  ASSUME NEW s \in Seq(SeenBlock), Len(s) = SeenTop', \A i \in 1 .. SeenTop' : s[i] = Seen(i)'
  PROVE  SeenBlocks' = s
<1>1. SeenBlocks' = [i \in 1 .. SeenTop' |-> Seen(i)']
  BY DEF SeenBlocks, SeenTop
<1>2. SeenTop' \in Nat
  BY LenProperties
<1>3. \A i \in 1 .. SeenTop' : SeenBlocks'[i] = s[i]
  BY <1>1
<1>4. SeenBlocks' = [i \in 1 .. SeenTop' |-> SeenBlocks'[i]]
  BY <1>1
<1> QED BY <1>2, <1>3, <1>4, SeqIs

\* What the program sees of a block that a step leaves alone.
LEMMA SeenSame ==
  ASSUME NEW i, stack'[i] = stack[i]
  PROVE  Seen(i)' = Seen(i)
BY DEF Seen

\* The two searches agree, where handlers are not left from within.
LEMMA SelectedIsReached ==
  ASSUME CliInv, SeenTop = Top, NEW e, NEW from, NEW m \in 0 .. Top, NEW n \in 0 .. Top,
         Chain(from) = 1 .. m, Contained(e, Top),
         m = IF Top > 0 /\ stack[Top].ex # Null THEN Top - 1 ELSE Top,
         Protecting(n) = Protecting(Top)
  PROVE  /\ Cli!Reached(e, n) = Selected(e, from)
         /\ Selected(e, from) # 0 => Selected(e, from) \in Protecting(n)
<1> DEFINE P == Protecting(Top)
           C == {i \in P : Catches(i, e)}
           F == {i \in P : stack[i].kind = "finally"}
           r == Max({0} \cup C \cup F)
           C2 == {i \in 1 .. m : Catches(i, e)}
           F2 == {i \in 1 .. m : stack[i].kind = "finally"}
<1>0. Top \in Nat
  BY SeenFacts
<1>1. C \in SUBSET (1 .. Top) /\ F \in SUBSET (1 .. Top) /\ C \cap F = {}
  BY DEF Protecting, Catches
<1>2. C2 \in SUBSET (1 .. Top) /\ F2 \in SUBSET (1 .. Top) /\ C2 \cap F2 = {}
  BY <1>0 DEF Catches
<1>3. /\ r \in {0} \cup C \cup F
      /\ \A y \in C \cup F : y <= r
      /\ Max({Max({0} \cup C)} \cup F) = r
      /\ Max({Max({0} \cup C)} \cup {i \in F : i > Max({0} \cup C)}) = r
  <2> HIDE DEF C, F
  <2>1. /\ EndOf(C, F) \in {0} \cup C \cup F
        /\ \A y \in C \cup F : y <= EndOf(C, F)
        /\ Max({FirstOf(C)} \cup F) = EndOf(C, F)
        /\ Max({FirstOf(C)} \cup {i \in F : i > FirstOf(C)}) = EndOf(C, F)
    BY <1>0, <1>1, SearchEnds
  <2> QED BY <2>1 DEF EndOf, FirstOf
<1>4. /\ Max({0} \cup C2 \cup F2) \in {0} \cup C2 \cup F2
      /\ \A y \in C2 \cup F2 : y <= Max({0} \cup C2 \cup F2)
      /\ Max({Max({0} \cup C2)} \cup {i \in F2 : i > Max({0} \cup C2)}) = Max({0} \cup C2 \cup F2)
  <2> HIDE DEF C2, F2
  <2>1. /\ EndOf(C2, F2) \in {0} \cup C2 \cup F2
        /\ \A y \in C2 \cup F2 : y <= EndOf(C2, F2)
        /\ Max({FirstOf(C2)} \cup F2) = EndOf(C2, F2)
        /\ Max({FirstOf(C2)} \cup {i \in F2 : i > FirstOf(C2)}) = EndOf(C2, F2)
    BY <1>0, <1>2, SearchEnds
  <2> QED BY <2>1 DEF EndOf, FirstOf
<1>5. Cli!Reached(e, n) = r
  <2>1. Cli!Protecting(n) = P
    <3>1. \A i \in 1 .. Top : SeenBlocks[i].at = stack[i].at
      BY SeenFacts DEF Seen
    <3>2. Cli!Protecting(n) = Protecting(n)
      BY <1>0, <3>1 DEF Cli!Protecting, Protecting
    <3> QED BY <3>2
  <2>2. P \subseteq 1 .. Top
    BY DEF Protecting
  <2>3. \A i \in P : /\ SeenBlocks[i].kind = stack[i].kind
                     /\ e \in SeenBlocks[i].filter <=> Catches(i, e)
    <3> SUFFICES ASSUME NEW i \in P
                 PROVE  /\ SeenBlocks[i].kind = stack[i].kind
                        /\ e \in SeenBlocks[i].filter <=> Catches(i, e)
      OBVIOUS
    <3>1. SeenBlocks[i].kind = stack[i].kind /\ SeenBlocks[i].filter = stack[i].filter
      BY <2>2, SeenFacts DEF Seen
    <3>2. stack[i].kind \in Kinds /\ (stack[i].kind = "finally" => stack[i].filter = {})
      <4>1. i \in 1 .. Top /\ stack[i] \in Block
        BY <2>2 DEF CliInv, FrameInv, TypeOK, Top
      <4>2. stack[i].kind = "finally" => stack[i].filter = {}
        BY <4>1 DEF CliInv, PartInv
      <4> QED BY <4>1, <4>2 DEF Block
    <3> QED BY <3>1, <3>2 DEF Catches, Kinds
  <2> HIDE DEF P
  <2>4. {i \in P : e \in SeenBlocks[i].filter} = C
    BY <2>3
  <2>5. Cli!Catcher(e, n) = Max({0} \cup C)
    BY <2>1, <2>4 DEF Cli!Catcher, Cli!Max, Max
  <2>6. {i \in P : SeenBlocks[i].kind = "finally" /\ i > Cli!Catcher(e, n)}
          = {i \in F : i > Max({0} \cup C)}
    BY <2>3, <2>5
  <2> HIDE DEF C, F
  <2>7. Cli!Reached(e, n) = Max({Max({0} \cup C)} \cup {i \in F : i > Max({0} \cup C)})
    BY <2>1, <2>5, <2>6 DEF Cli!Reached, Cli!Max, Max
  <2> QED BY <1>3, <2>7
<1>6. \A i \in (r + 1) .. Top : stack[i].at = "try" \/ (i = Top /\ stack[i].ex # Null)
  BY <1>3 DEF Contained
<1>7. Selected(e, from) = Max({0} \cup C2 \cup F2)
  <2>1. {i \in Chain(from) : Catches(i, e)} = C2
        /\ \A x : {i \in Chain(from) : stack[i].kind = "finally" /\ i > x} = {i \in F2 : i > x}
    OBVIOUS
  <2> HIDE DEF C2, F2
  <2> QED BY <1>4, <2>1 DEF Selected
<1>8. r \in {0} \cup C2 \cup F2
  <2>1. ASSUME r \in P PROVE r \in 1 .. m
    <3>1. r \in 1 .. Top /\ stack[r].at = "try"
      BY <2>1 DEF Protecting
    <3>2. stack[r].ex = Null
      BY <3>1 DEF CliInv, PartInv
    <3> QED BY <1>0, <3>1, <3>2
  <2> QED BY <1>3, <2>1
<1>9. \A y \in C2 \cup F2 : y <= r
  <2> SUFFICES ASSUME NEW y \in C2 \cup F2, ~(y <= r) PROVE FALSE
    OBVIOUS
  <2>0. r \in 0 .. Top
    <3> HIDE DEF C, F, r
    <3> QED BY <1>0, <1>1, <1>3
  <2> HIDE DEF r
  <2>1. y \in 1 .. m /\ r \in 0 .. Top
    BY <2>0
  <2>2. y \in (r + 1) .. Top
    BY <1>0, <2>1
  <2>3. stack[y].at = "try"
    BY <1>0, <1>6, <2>1, <2>2
  <2>4. y \in P
    BY <1>0, <2>1, <2>3 DEF Protecting
  <2> QED BY <1>3, <2>4
<1> HIDE DEF r, C, F, C2, F2, P
<1>10. Max({0} \cup C2 \cup F2) = r
  <2>1. ({0} \cup C2 \cup F2) \in SUBSET (0 .. Top)
    BY <1>0, <1>2
  <2>2. \A y \in {0} \cup C2 \cup F2 : y <= r
    BY <1>0, <1>2, <1>8, <1>9
  <2> QED BY <1>0, <1>8, <2>1, <2>2, MaxIs
<1>11. r # 0 => r \in Protecting(n)
  BY <1>3 DEF C, F, P
<1> QED BY <1>5, <1>7, <1>10, <1>11

-----------------------------------------------------------------------------
\* What il2c_do_throw__ leaves on the C stack.
LEMMA DoThrowBlocks ==
  ASSUME FrameInv, NEW e \in Exceptions, NEW i \in 1 .. Top, DoThrow(e, i)
  PROVE  /\ Top' = i
         /\ \A j \in 1 .. (i - 1) : stack'[j] = stack[j]
         /\ stack'[i] \in Block
         /\ stack'[i].kind = stack[i].kind /\ stack'[i].filter = stack[i].filter
         /\ stack'[i].call = stack[i].call /\ stack'[i].continuation = stack[i].continuation
         /\ stack'[i].at = stack[i].kind /\ stack'[i].ex = e
<1> DEFINE s == SubSeq(stack, 1, i)
           c == stack[i]
           b == [c EXCEPT !.ex = e, !.at = c.kind, !.entries = @ + 1]
<1>1. stack \in Seq(Block) /\ Top \in Nat /\ Top = Len(stack) /\ c \in Block
  BY DEF FrameInv, TypeOK, Top
<1>2. /\ b \in Block /\ b.kind = c.kind /\ b.filter = c.filter /\ b.call = c.call
      /\ b.continuation = c.continuation /\ b.at = c.kind /\ b.ex = e
  <2> HIDE DEF c
  <2>1. c.kind \in Parts /\ c.entries + 1 \in Nat
    <3>1. c.kind \in Kinds /\ c.entries \in Nat
      BY <1>1 DEF Block
    <3> QED BY <3>1 DEF Kinds, Parts
  <2>2. b = [c EXCEPT !.ex = e, !.at = c.kind, !.entries = c.entries + 1]
    BY <1>1 DEF Block
  <2>3. b \in Block
    BY <1>1, <2>1, <2>2 DEF Block
  <2>4. /\ b.kind = c.kind /\ b.filter = c.filter /\ b.call = c.call
        /\ b.continuation = c.continuation /\ b.at = c.kind /\ b.ex = e
    BY <1>1, <2>2 DEF Block
  <2> QED BY <2>3, <2>4
<1>3. s \in Seq(Block) /\ Len(s) = i /\ \A j \in 1 .. i : s[j] = stack[j]
  BY <1>1
<1>4. stack' = [s EXCEPT ![i].ex = e, ![i].at = stack[i].kind, ![i].entries = @ + 1]
  BY DEF DoThrow
<1> HIDE DEF s
<1>5. stack' = [s EXCEPT ![i] = b]
  <2>1. s[i] = c /\ i \in DOMAIN s
    BY <1>3
  <2>2. stack' = [s EXCEPT ![i].ex = e, ![i].at = c.kind, ![i].entries = @ + 1]
    BY <1>4
  <2> HIDE DEF c
  <2> QED BY <2>1, <2>2, Zenon
<1> HIDE DEF b
<1>6. Top' = i /\ (\A j \in 1 .. (i - 1) : stack'[j] = stack[j]) /\ stack'[i] = b
  BY <1>1, <1>2, <1>3, <1>5 DEF Top
<1> QED BY <1>2, <1>6

\* What a block is whose handler is entered.
LEMMA EnteredIs ==
  ASSUME NEW k, NEW f, NEW n, NEW a, NEW x, NEW r, NEW e, NEW c,
         c = [kind |-> k, filter |-> f, call |-> n, at |-> a, ex |-> x, remain |-> r]
  PROVE  [c EXCEPT !.at = k, !.ex = e]
          = [kind |-> k, filter |-> f, call |-> n, at |-> k, ex |-> e, remain |-> r]
<1> DEFINE S == [kind : {k}, filter : {f}, call : {n}, at : {a, k}, ex : {x, e}, remain : {r}]
           b == [c EXCEPT !.at = k, !.ex = e]
<1>1. c \in S OBVIOUS
<1>2. b \in S /\ b.at = k /\ b.ex = e
  <2> HIDE DEF S
  <2> QED BY <1>1 DEF S
<1> HIDE DEF b
<1>4. b = [kind |-> b.kind, filter |-> b.filter, call |-> b.call, at |-> b.at, ex |-> b.ex,
           remain |-> b.remain]
  BY <1>2
<1> QED BY <1>2, <1>4 DEF b

\* A jump to a handler is what the program may expect, and keeps the blocks so.
LEMMA RaiseSeen ==
  ASSUME CliInv, SeenTop = Top, NEW e \in Exceptions, NEW from, NEW linked \in Nat,
         NEW n \in 0 .. Top, ThrowInternal(e, from, linked),
         Cli!Reached(e, n) = Selected(e, from),
         Selected(e, from) # 0 => Selected(e, from) \in Protecting(n)
  PROVE  Cli!Raise(e, n) /\ PartInv'
<1>1. CASE Selected(e, from) = 0
  <2>1. outcome' = "unhandled" /\ UNCHANGED <<stack, pFrame>>
    BY <1>1 DEF ThrowInternal
  <2>2. SeenBlocks' = SeenBlocks
    BY <2>1 DEF SeenBlocks, Seen, Top
  <2>3. PartInv'
    BY <2>1 DEF CliInv, PartInv, Top
  <2> QED BY <1>1, <2>1, <2>2, <2>3 DEF Cli!Raise
<1>2. CASE Selected(e, from) # 0
  <2>i. PICK i : i = Selected(e, from)
    OBVIOUS
  <2>0. Top \in Nat /\ e # Null
    BY SeenFacts, ExceptionAssumption
  <2>1. i \in 1 .. Top /\ i \in 1 .. n /\ stack[i].at = "try"
    BY <1>2, <2>i, <2>0 DEF Protecting
  <2>2. DoThrow(e, i)
    BY <1>2, <2>i DEF ThrowInternal
  <2>3. /\ Top' = i
        /\ \A j \in 1 .. (i - 1) : stack'[j] = stack[j]
        /\ stack'[i] \in Block
        /\ stack'[i].kind = stack[i].kind /\ stack'[i].filter = stack[i].filter
        /\ stack'[i].call = stack[i].call /\ stack'[i].continuation = stack[i].continuation
        /\ stack'[i].at = stack[i].kind /\ stack'[i].ex = e
    BY <2>1, <2>2, DoThrowBlocks DEF CliInv
  <2>4. /\ stack[i].frame = stack[i].call /\ stack[i].kind \in Kinds
        /\ pFrame' = stack[i].frame /\ outcome' = outcome
    <3>1. stack[i] \in Block
      BY <2>1 DEF CliInv, FrameInv, TypeOK, Top
    <3> QED BY <2>1, <2>2, <3>1 DEF CliInv, FrameInv, FramesAreLive, DoThrow, Block
  <2>5. SeenTop' = i
    BY <2>3, <2>4 DEF SeenTop, Kinds
  <2> DEFINE p == SubSeq(SeenBlocks, 1, i)
             c == Seen(i)
             b == [c EXCEPT !.at = c.kind, !.ex = e]
             s == [p EXCEPT ![i].at = SeenBlocks[i].kind, ![i].ex = e]
  <2>6. /\ p \in Seq(SeenBlock) /\ Len(p) = i /\ \A j \in 1 .. i : p[j] = Seen(j)
        /\ SeenBlocks[i] = c /\ c \in SeenBlock
    BY <2>1, SeenFacts
  <2>7. b \in SeenBlock
    <3> HIDE DEF c
    <3> QED BY <2>6 DEF SeenBlock, Kinds, Parts
  <2>8. s = [p EXCEPT ![i] = b]
    <3>1. p[i] = c /\ i \in DOMAIN p
      BY <2>6, <2>1
    <3>2. s = [p EXCEPT ![i].at = c.kind, ![i].ex = e]
      BY <2>6
    <3> HIDE DEF c, p, s
    <3> QED BY <3>1, <3>2, Zenon
  <2>9. b = Seen(i)'
    <3>1. b = [kind |-> stack[i].kind, filter |-> stack[i].filter, call |-> stack[i].call,
               at |-> stack[i].kind, ex |-> e, remain |-> 0]
      <4>1. c = [kind |-> stack[i].kind, filter |-> stack[i].filter, call |-> stack[i].call,
                 at |-> stack[i].at, ex |-> stack[i].ex, remain |-> 0]
        BY <2>1 DEF Seen
      <4> HIDE DEF c
      <4>2. c.kind = stack[i].kind
        BY <4>1
      <4>3. b = [c EXCEPT !.at = stack[i].kind, !.ex = e]
        BY <4>2
      <4> HIDE DEF b
      <4> QED BY <4>1, <4>3, EnteredIs
    <3>2. Seen(i)' = [kind |-> stack[i].kind, filter |-> stack[i].filter, call |-> stack[i].call,
                      at |-> stack[i].kind, ex |-> e, remain |-> 0]
      BY <2>0, <2>3 DEF Seen
    <3> QED BY <3>1, <3>2
  <2>10. SeenBlocks' = s
    <3> HIDE DEF p, b, s, c
    <3>1. s \in Seq(SeenBlock) /\ Len(s) = i /\ \A j \in 1 .. i : s[j] = IF j = i THEN b ELSE p[j]
      BY <2>1, <2>6, <2>7, <2>8
    <3>2. ASSUME NEW j \in 1 .. i PROVE s[j] = Seen(j)'
      <4>1. CASE j = i
        BY <4>1, <2>9, <3>1
      <4>2. CASE j # i
        <5>1. j \in 1 .. (i - 1)
          BY <4>2, <2>1
        <5>2. Seen(j)' = Seen(j)
          BY <5>1, <2>3, SeenSame
        <5> QED BY <4>2, <5>2, <2>6, <3>1
      <4> QED BY <4>1, <4>2
    <3> QED BY <2>5, <3>1, <3>2, SeenBecomes
  <2>11. pFrame' = SeenBlocks[i].call
    BY <2>4, <2>6 DEF Seen
  <2>12. Cli!Raise(e, n)
    <3>1. Cli!Reached(e, n) = i /\ i # 0
      BY <1>2, <2>i
    <3> HIDE DEF p, b, c
    <3> QED BY <3>1, <2>10, <2>11, <2>4 DEF Cli!Raise, p
  <2>13. PartInv'
    <3> SUFFICES ASSUME NEW j \in 1 .. i
                 PROVE  /\ stack'[j].at \in {"try", "leave", stack'[j].kind}
                        /\ stack'[j].at = "try" => stack'[j].ex = Null
                        /\ stack'[j].at = "leave" => j = i
                        /\ stack'[j].at = "leave" \/ (stack'[j].at = "finally" /\ stack'[j].ex = Null)
                             => stack'[j].continuation = 1
                        /\ stack'[j].kind = "finally" => stack'[j].filter = {}
      BY <2>3 DEF PartInv
    <3>0. j \in 1 .. Top /\ j <= Top /\ j <= i
      BY <2>0, <2>1
    <3>1. CASE j = i
      BY <3>1, <2>0, <2>1, <2>3, <2>4 DEF CliInv, PartInv, Kinds
    <3>2. CASE j # i
      <4>1. stack'[j] = stack[j] /\ j # Top
        BY <3>2, <2>0, <2>1, <2>3
      <4> QED BY <3>0, <4>1 DEF CliInv, PartInv
    <3> QED BY <3>1, <3>2
  <2> QED BY <2>12, <2>13
<1> QED BY <1>1, <1>2

\* Managed code sees all blocks and is in the first frame's.
LEMMA ManagedIs ==
  ASSUME CliInv, Managed
  PROVE  /\ Top \in Nat /\ SeenTop = Top /\ outcome = "running" /\ target = Top
         /\ Len(SeenBlocks) = Top /\ pFrame = calls
         /\ \A i \in 1 .. Top : /\ SeenBlocks[i] = Seen(i) /\ SeenBlocks[i].at = stack[i].at
                                /\ SeenBlocks[i].call = stack[i].call
                                /\ SeenBlocks[i].ex = stack[i].ex
                                /\ SeenBlocks[i].kind = stack[i].kind
<1>1. /\ Top \in Nat /\ SeenTop = Top /\ outcome = "running" /\ target = Top
      /\ Len(SeenBlocks) = Top /\ pFrame = calls
  BY SeenFacts DEF Managed, SeenTop, CliInv, FrameInv, FramesAreLive
<1>2. \A i \in 1 .. Top : SeenBlocks[i] = Seen(i)
  BY <1>1, SeenFacts
<1> QED BY <1>1, <1>2 DEF Seen

\* il2c_try enters a block of CIL.
LEMMA TrySeen ==
  ASSUME CliInv, NEW kind \in Kinds, NEW filter \in SUBSET Exceptions, Try(kind, filter),
         kind = "catch" \/ filter = {}
  PROVE  Cli!EnterTry(kind, filter) /\ PartInv'
<1> DEFINE b == [kind |-> kind, filter |-> filter, call |-> calls, at |-> "try",
                 continuation |-> 0, next |-> target, frame |-> pFrame, ex |-> Null,
                 entries |-> 0]
           c == Cli!Block(kind, filter, pFrame, "try", Null, 0)
<1>1. /\ Managed /\ Top < MaxBlocks /\ stack' = Append(stack, b)
      /\ UNCHANGED <<calls, pFrame, outcome>>
  BY DEF Try
<1>2. /\ Top \in Nat /\ SeenTop = Top /\ outcome = "running" /\ Len(SeenBlocks) = Top
      /\ pFrame = calls /\ calls \in Nat /\ stack \in Seq(Block) /\ Top = Len(stack)
  BY <1>1, ManagedIs DEF CliInv, FrameInv, TypeOK, Top
<1>t. PICK n : n = Top
  OBVIOUS
<1>3. /\ Top' = n + 1 /\ (\A i \in 1 .. n : stack'[i] = stack[i]) /\ stack'[n + 1] = b
  <2> HIDE DEF b
  <2> QED BY <1>1, <1>2, <1>t DEF Top
<1>4. SeenTop' = n + 1
  BY <1>3 DEF SeenTop
<1>5. c = Seen(n + 1)'
  BY <1>2, <1>3 DEF Seen, Cli!Block
<1>6. c \in SeenBlock
  BY <1>2 DEF SeenBlock, Cli!Block, Parts
<1>7. SeenBlocks \in Seq(SeenBlock) /\ \A i \in 1 .. n : SeenBlocks[i] = Seen(i)
  BY <1>2, <1>t, SeenFacts
<1> HIDE DEF b, c
<1>8. /\ Append(SeenBlocks, c) \in Seq(SeenBlock) /\ Len(Append(SeenBlocks, c)) = SeenTop'
      /\ \A i \in 1 .. n : Append(SeenBlocks, c)[i] = SeenBlocks[i]
      /\ Append(SeenBlocks, c)[n + 1] = c
  BY <1>2, <1>4, <1>6, <1>7, <1>t
<1>9. ASSUME NEW i \in 1 .. n + 1 PROVE Append(SeenBlocks, c)[i] = Seen(i)'
  <2>1. CASE i = n + 1
    BY <2>1, <1>5, <1>8
  <2>2. CASE i # n + 1
    <3>1. i \in 1 .. n
      BY <2>2, <1>2, <1>t
    <3>2. Seen(i)' = Seen(i)
      BY <3>1, <1>3, SeenSame
    <3> QED BY <3>1, <3>2, <1>7, <1>8
  <2> QED BY <2>1, <2>2
<1>10. SeenBlocks' = Append(SeenBlocks, c)
  BY <1>4, <1>8, <1>9, SeenBecomes
<1>11. Cli!EnterTry(kind, filter)
  BY <1>1, <1>2, <1>10 DEF Cli!EnterTry, c
<1>12. PartInv'
  <2> SUFFICES ASSUME NEW j \in 1 .. n + 1
               PROVE  /\ stack'[j].at \in {"try", "leave", stack'[j].kind}
                      /\ stack'[j].at = "try" => stack'[j].ex = Null
                      /\ stack'[j].at = "leave" => j = n + 1
                      /\ stack'[j].at = "leave" \/ (stack'[j].at = "finally" /\ stack'[j].ex = Null)
                           => stack'[j].continuation = 1
                      /\ stack'[j].kind = "finally" => stack'[j].filter = {}
    BY <1>3 DEF PartInv
  <2>1. CASE j = n + 1
    BY <2>1, <1>3 DEF b
  <2>2. CASE j # n + 1
    <3>1. j \in 1 .. Top /\ stack'[j] = stack[j]
      BY <2>2, <1>2, <1>3, <1>t
    <3>2. stack[j].at = "leave" => FALSE
      BY <3>1, <1>1, <1>2 DEF Managed, CliInv, PartInv
    <3> QED BY <3>1, <3>2 DEF CliInv, PartInv
  <2> QED BY <2>1, <2>2
<1> QED BY <1>11, <1>12

\* A call and a return are those of CIL.
LEMMA CallSeen ==
  ASSUME CliInv, Call \/ Return
  PROVE  (Cli!Call \/ Cli!Return) /\ PartInv'
<1>1. stack' = stack /\ outcome' = outcome /\ Managed
  BY DEF Call, Return
<1>2. SeenBlocks' = SeenBlocks /\ PartInv'
  BY <1>1 DEF SeenBlocks, Seen, Top, CliInv, PartInv
<1>3. CASE Call
  BY <1>1, <1>2, <1>3, ManagedIs DEF Call, Cli!Call
<1>4. CASE Return
  <2>1. DOMAIN SeenBlocks = 1 .. Top
    BY <1>1, ManagedIs, SeenFacts
  <2>2. \A i \in DOMAIN SeenBlocks : SeenBlocks[i].call < pFrame
    BY <1>1, <1>4, <2>1, ManagedIs DEF Return
  <2> QED BY <1>1, <1>2, <1>4, <2>2, ManagedIs DEF Return, Cli!Return
<1> QED BY <1>2, <1>3, <1>4

\* Where a throw begins its search.
LEMMA ThrowSeen ==
  ASSUME CliInv, NEW e \in Exceptions, Throw(e), ~ Escaping
  PROVE  Cli!Throw(e) /\ PartInv'
<1>1. Managed /\ Contained(e, Top) /\ ThrowInternal(e, FirstFrame, target)
  BY DEF Throw
<1>2. /\ Top \in Nat /\ SeenTop = Top /\ outcome = "running" /\ target = Top
      /\ Len(SeenBlocks) = Top
  BY <1>1, ManagedIs
<1> DEFINE m == IF Top > 0 /\ stack[Top].ex # Null THEN Top - 1 ELSE Top
<1>3. m \in 0 .. Top /\ FirstFrame = m
  BY <1>2 DEF FirstFrame, CliInv, FrameInv, FramesAreLive
<1>4. Chain(FirstFrame) = 1 .. m
  <2> HIDE DEF m
  <2> QED BY <1>3, ChainIs DEF CliInv, FrameInv
<1>5. /\ Cli!Reached(e, Top) = Selected(e, FirstFrame)
      /\ Selected(e, FirstFrame) # 0 => Selected(e, FirstFrame) \in Protecting(Top)
  <2>1. Top \in 0 .. Top
    BY <1>2
  <2> QED BY <1>1, <1>2, <1>3, <1>4, <2>1, SelectedIsReached
<1>6. Cli!Raise(e, Top) /\ PartInv'
  BY <1>1, <1>2, <1>5, RaiseSeen
<1> QED BY <1>2, <1>6 DEF Cli!Throw

\* il2c_rethrow runs the handlers that CIL runs for the exception again.
LEMMA RethrowSeen ==
  ASSUME CliInv, Rethrow, ~ Escaping
  PROVE  Cli!Rethrow /\ PartInv'
<1>1. Managed /\ RethrowInternal
  BY DEF Rethrow
<1>2. /\ Top \in Nat /\ SeenTop = Top /\ outcome = "running" /\ target = Top
      /\ Len(SeenBlocks) = Top /\ pFrame = calls
      /\ \A j \in 1 .. Top : /\ SeenBlocks[j].at = stack[j].at
                             /\ SeenBlocks[j].call = stack[j].call
                             /\ SeenBlocks[j].ex = stack[j].ex
  BY <1>1, ManagedIs
<1>3. PICK i \in 1 .. Top : CatchesHere(i) /\ Contained(stack[i].ex, Top)
  BY DEF Rethrow
<1>4. /\ stack[i].at = "catch" /\ stack[i].call = calls
      /\ \A j \in (i + 1) .. Top : stack[j].at = "try"
  BY <1>3 DEF CatchesHere
<1>e. PICK e : e = stack[i].ex
  OBVIOUS
<1>5. e \in Exceptions /\ e # Null
  <2>1. stack[i] \in Block /\ stack[i].ex # Null
    BY <1>4 DEF CliInv, FrameInv, TypeOK, Handled, Top
  <2> QED BY <2>1, <1>e DEF Block
<1>6. Top \in 0 .. Top /\ Top > 0
  BY <1>2
<1>7. Cli!Raise(e, Top) /\ PartInv'
  <2>1. CASE stack[Top].ex # Null
    <3>1. i = Top
      <4> SUFFICES ASSUME i # Top PROVE FALSE OBVIOUS
      <4>1. Top \in (i + 1) .. Top /\ Top \in 1 .. Top
        BY <1>2
      <4> QED BY <2>1, <4>1, <1>4 DEF CliInv, PartInv
    <3>2. stack[Top].next = Top - 1 /\ Top - 1 \in 0 .. Top
      BY <1>2, <1>6 DEF CliInv, FrameInv, FramesAreLive
    <3>3. ThrowInternal(e, Top - 1, Top - 1)
      BY <2>1, <3>1, <3>2, <1>1, <1>2, <1>e DEF RethrowInternal
    <3>4. Chain(Top - 1) = 1 .. (Top - 1)
      BY <3>2, ChainIs DEF CliInv, FrameInv
    <3>5. /\ Cli!Reached(e, Top) = Selected(e, Top - 1)
          /\ Selected(e, Top - 1) # 0 => Selected(e, Top - 1) \in Protecting(Top)
      BY <2>1, <3>2, <3>4, <1>2, <1>3, <1>6, <1>e, SelectedIsReached
    <3> QED BY <3>2, <3>3, <3>5, <1>2, <1>5, <1>6, RaiseSeen
  <2>2. CASE stack[Top].ex = Null
    <3>1. Chain(Top) = 1 .. Top
      BY <1>6, ChainIs DEF CliInv, FrameInv
    <3>2. NearestCaught = i
      <4> DEFINE N == {0} \cup {j \in 1 .. Top : stack[j].ex # Null}
      <4>1. i \in N /\ N \in SUBSET (0 .. Top)
        BY <1>2, <1>5, <1>e
      <4>2. \A y \in N : y <= i
        <5> SUFFICES ASSUME NEW y \in N, ~(y <= i) PROVE FALSE
          OBVIOUS
        <5>1. y \in (i + 1) .. Top /\ y \in 1 .. Top /\ stack[y].ex # Null
          BY <1>2
        <5> QED BY <5>1, <1>4 DEF CliInv, PartInv
      <4>3. Max(N) = i
        <5> HIDE DEF N
        <5> QED BY <4>1, <4>2, <1>2, MaxIs
      <4> QED BY <4>3, <3>1, <1>2 DEF NearestCaught
    <3>3. ThrowInternal(e, Top, Top)
      BY <2>2, <3>2, <1>1, <1>2, <1>e DEF RethrowInternal
    <3>4. /\ Cli!Reached(e, Top) = Selected(e, Top)
          /\ Selected(e, Top) # 0 => Selected(e, Top) \in Protecting(Top)
      BY <2>2, <3>1, <1>2, <1>3, <1>6, <1>e, SelectedIsReached
    <3> QED BY <3>3, <3>4, <1>2, <1>5, <1>6, RaiseSeen
  <2> QED BY <2>1, <2>2
<1>8. i \in DOMAIN SeenBlocks /\ Cli!CatchesHere(i) /\ SeenBlocks[i].ex = e
  <2>1. DOMAIN SeenBlocks = 1 .. Top
    BY <1>2, SeenFacts
  <2>2. \A j \in (i + 1) .. Top : j \in 1 .. Top
    BY <1>2
  <2> QED BY <2>1, <2>2, <1>2, <1>4, <1>e DEF Cli!CatchesHere
<1> QED BY <1>2, <1>7, <1>8 DEF Cli!Rethrow

\* An innermost block that is being left is no longer seen.
LEMMA LeavingSeen ==
  ASSUME CliInv, SeenTop = Top, NEW n \in Nat \ {0}, Top = n, Top' = n, stack'[n].at = "leave",
         \A i \in 1 .. (n - 1) : stack'[i] = stack[i]
  PROVE  SeenBlocks' = SubSeq(SeenBlocks, 1, n - 1)
<1>1. SeenTop' = n - 1
  BY DEF SeenTop
<1>2. /\ SeenBlocks \in Seq(SeenBlock) /\ Len(SeenBlocks) = n
      /\ \A i \in 1 .. n : SeenBlocks[i] = Seen(i)
  BY SeenFacts
<1>3. /\ SubSeq(SeenBlocks, 1, n - 1) \in Seq(SeenBlock)
      /\ Len(SubSeq(SeenBlocks, 1, n - 1)) = n - 1
      /\ \A i \in 1 .. (n - 1) : SubSeq(SeenBlocks, 1, n - 1)[i] = Seen(i)
  BY <1>2
<1>4. \A i \in 1 .. (n - 1) : Seen(i)' = Seen(i)
  BY SeenSame
<1> QED BY <1>1, <1>3, <1>4, SeenBecomes

\* A change of the innermost block.
LEMMA InnermostPart ==
  ASSUME CliInv, Managed, NEW n \in Nat \ {0}, Top = n, Top' = n,
         \A i \in 1 .. (n - 1) : stack'[i] = stack[i],
         stack'[n].at \in {"leave", stack'[n].kind},
         stack'[n].at # "try",
         stack'[n].continuation = 1,
         stack'[n].kind = stack[n].kind, stack'[n].filter = stack[n].filter
  PROVE  PartInv'
<1> SUFFICES ASSUME NEW j \in 1 .. n
             PROVE  /\ stack'[j].at \in {"try", "leave", stack'[j].kind}
                    /\ stack'[j].at = "try" => stack'[j].ex = Null
                    /\ stack'[j].at = "leave" => j = n
                    /\ stack'[j].at = "leave" \/ (stack'[j].at = "finally" /\ stack'[j].ex = Null)
                         => stack'[j].continuation = 1
                    /\ stack'[j].kind = "finally" => stack'[j].filter = {}
  BY DEF PartInv
<1>1. CASE j = n
  BY <1>1 DEF CliInv, PartInv
<1>2. CASE j # n
  <2>1. j \in 1 .. Top /\ j # Top /\ stack'[j] = stack[j]
    BY <1>2
  <2> QED BY <2>1 DEF CliInv, PartInv
<1> QED BY <1>1, <1>2

\* The innermost block after a change of its place and its continuation.
LEMMA InnermostIs ==
  ASSUME FrameInv, NEW n \in Nat \ {0}, Top = n, NEW b, stack' = [stack EXCEPT ![n] = b]
  PROVE  /\ Top' = n /\ stack'[n] = b
         /\ \A i \in 1 .. (n - 1) : stack'[i] = stack[i]
BY DEF FrameInv, TypeOK, Top

\* il2c_leave of one block: its finally handler is entered, or it is gone.
LEMMA LeaveSeen ==
  ASSUME CliInv, Leave(1)
  PROVE  (\E k \in 0 .. Len(SeenBlocks) : Cli!Leave(k)) /\ PartInv'
<1> DEFINE old == stack[Top]
           place == IF old.kind = "finally" THEN "finally" ELSE "leave"
           times == IF old.kind = "finally" THEN old.entries + 1 ELSE old.entries
           b == [old EXCEPT !.continuation = 1, !.at = place, !.entries = times]
<1>1. /\ Managed /\ Top >= 1 /\ stack[Top].call = calls /\ stack[Top].at # "finally"
      /\ UNCHANGED <<calls, pFrame, outcome>>
  <2>1. Top \in Nat
    BY SeenFacts
  <2>2. 1 <= Top /\ \A i \in (Top - 1 + 1) .. Top : stack[i].call = calls /\ stack[i].at # "finally"
    BY DEF Leave
  <2>3. Top \in (Top - 1 + 1) .. Top
    BY <2>1
  <2> QED BY <2>1, <2>2, <2>3 DEF Leave
<1>2. /\ Top \in Nat /\ SeenTop = Top /\ outcome = "running"
      /\ Len(SeenBlocks) = Top /\ pFrame = calls
      /\ \A i \in 1 .. Top : /\ SeenBlocks[i] = Seen(i) /\ SeenBlocks[i].at = stack[i].at
                             /\ SeenBlocks[i].call = stack[i].call
                             /\ SeenBlocks[i].kind = stack[i].kind
  BY <1>1, ManagedIs
<1>n. PICK n \in Nat \ {0} : n = Top
  BY <1>1, <1>2
<1>3. old \in Block /\ old.at # "leave" /\ n \in 1 .. Top
  BY <1>1, <1>n DEF Managed, CliInv, FrameInv, TypeOK, Top
<1>4. stack' = [stack EXCEPT ![n] = b]
  BY <1>n, <1>3 DEF Leave, Block
<1>5. /\ b.kind = old.kind /\ b.filter = old.filter /\ b.call = old.call /\ b.ex = old.ex
      /\ b.continuation = 1 /\ b.at = place
  <2> HIDE DEF old, place, times
  <2> QED BY <1>3 DEF Block
<1> HIDE DEF b
<1>6. /\ Top' = n /\ stack'[n] = b
      /\ \A i \in 1 .. (n - 1) : stack'[i] = stack[i]
  BY <1>4, <1>n, InnermostIs DEF CliInv
<1>7. PartInv'
  <2>1. /\ stack'[n].at \in {"leave", stack'[n].kind} /\ stack'[n].at # "try"
        /\ stack'[n].kind = stack[n].kind /\ stack'[n].filter = stack[n].filter
    BY <1>5, <1>6, <1>n
  <2> QED BY <2>1, <1>1, <1>5, <1>6, <1>n, InnermostPart
<1> DEFINE F == {i \in ((n - 1) + 1) .. Len(SeenBlocks) :
                  SeenBlocks[i].kind = "finally" /\ SeenBlocks[i].at = "try"}
<1>8. Len(SeenBlocks) = n /\ ((n - 1) + 1) .. Len(SeenBlocks) = {n}
  BY <1>2, <1>n
<1>9. \A i \in ((n - 1) + 1) .. Len(SeenBlocks) :
        SeenBlocks[i].call = pFrame /\ SeenBlocks[i].at # "finally"
  BY <1>1, <1>2, <1>3, <1>8, <1>n
<1>10. CASE old.kind = "finally"
  <2>1. old.at = "try" /\ old.ex = Null /\ place = "finally"
    BY <1>1, <1>3, <1>10, <1>n DEF CliInv, PartInv
  <2>2. F = {n}
    BY <1>2, <1>3, <1>8, <1>10, <1>n, <2>1
  <2>3. Max({0} \cup F) = n
    <3>1. ({0} \cup F) \in SUBSET (0 .. n) /\ n \in {0} \cup F /\ \A y \in {0} \cup F : y <= n
      BY <2>2
    <3> QED BY <3>1, MaxIs
  <2>m. PICK m \in Int : m = n - 1
    OBVIOUS
  <2> DEFINE p == SubSeq(SeenBlocks, 1, n)
             c == Seen(n)
             d == [c EXCEPT !.at = "finally", !.remain = m]
             s == [p EXCEPT ![n].at = "finally", ![n].remain = m]
  <2>4. /\ p \in Seq(SeenBlock) /\ Len(p) = n /\ (\A j \in 1 .. n : p[j] = Seen(j))
        /\ c \in SeenBlock
    BY <1>2, <1>3, <1>n, SeenFacts
  <2>5. d \in SeenBlock
    <3> HIDE DEF c
    <3>1. "finally" \in Parts
      BY DEF Parts
    <3> QED BY <2>4, <3>1 DEF SeenBlock
  <2>6. s = [p EXCEPT ![n] = d]
    <3>1. p[n] = c /\ n \in DOMAIN p
      BY <2>4
    <3> HIDE DEF c, p
    <3> QED BY <3>1, Zenon
  <2>7. d = Seen(n)'
    <3>1. c = [kind |-> old.kind, filter |-> old.filter, call |-> old.call, at |-> "try",
               ex |-> Null, remain |-> 0]
      BY <2>1, <1>n DEF Seen
    <3>2. Seen(n)' = [kind |-> old.kind, filter |-> old.filter, call |-> old.call,
                      at |-> "finally", ex |-> Null, remain |-> m]
      BY <2>1, <2>m, <1>5, <1>6 DEF Seen
    <3> HIDE DEF c
    <3>3. d = [kind |-> old.kind, filter |-> old.filter, call |-> old.call,
               at |-> "finally", ex |-> Null, remain |-> m]
      <4> DEFINE S == [kind : {old.kind}, filter : {old.filter}, call : {old.call},
                       at : {"try", "finally"}, ex : {Null}, remain : {0, m}]
      <4>1. c \in S
        BY <3>1
      <4>2. d \in S /\ d.at = "finally" /\ d.remain = m
        <5> HIDE DEF S
        <5> QED BY <4>1 DEF S
      <4> HIDE DEF d
      <4>3. d = [kind |-> d.kind, filter |-> d.filter, call |-> d.call, at |-> d.at,
                 ex |-> d.ex, remain |-> d.remain]
        BY <4>2
      <4> QED BY <4>2, <4>3
    <3> QED BY <3>2, <3>3
  <2>8. SeenBlocks' = s
    <3> HIDE DEF p, d, s, c
    <3>1. s \in Seq(SeenBlock) /\ Len(s) = n /\ \A j \in 1 .. n : s[j] = IF j = n THEN d ELSE p[j]
      BY <2>4, <2>5, <2>6
    <3>2. SeenTop' = n
      BY <2>1, <1>5, <1>6 DEF SeenTop
    <3>3. ASSUME NEW j \in 1 .. n PROVE s[j] = Seen(j)'
      <4>1. CASE j = n
        BY <4>1, <2>7, <3>1
      <4>2. CASE j # n
        <5>1. stack'[j] = stack[j]
          BY <4>2, <1>6
        <5>2. Seen(j)' = Seen(j)
          BY <5>1, SeenSame
        <5> QED BY <4>2, <5>2, <2>4, <3>1
      <4> QED BY <4>1, <4>2
    <3> QED BY <3>1, <3>2, <3>3, SeenBecomes
  <2>9. Cli!Exit(n - 1, Len(SeenBlocks))
    <3> HIDE DEF F
    <3>1. Cli!Max({0} \cup F) = n
      BY <2>3 DEF Cli!Max, Max
    <3> QED BY <3>1, <2>8, <2>m, <1>1 DEF Cli!Exit, F
  <2>10. Cli!Leave(n - 1)
    BY <2>9, <1>2, <1>8, <1>9 DEF Cli!Leave
  <2> QED BY <2>10, <1>7, <1>8
<1>11. CASE old.kind # "finally"
  <2>1. F = {}
    BY <1>2, <1>3, <1>8, <1>11, <1>n
  <2>2. Max({0} \cup F) = 0
    <3>1. ({0} \cup F) \in SUBSET (0 .. n) /\ 0 \in {0} \cup F /\ \A y \in {0} \cup F : y <= 0
      BY <2>1
    <3> QED BY <3>1, MaxIs
  <2>3. SeenBlocks' = SubSeq(SeenBlocks, 1, n - 1)
    BY <1>2, <1>5, <1>6, <1>11, <1>n, LeavingSeen
  <2>4. Cli!Exit(n - 1, Len(SeenBlocks))
    <3> HIDE DEF F
    <3>1. Cli!Max({0} \cup F) = 0
      BY <2>2 DEF Cli!Max, Max
    <3> QED BY <3>1, <2>3, <1>1 DEF Cli!Exit, F
  <2>5. Cli!Leave(n - 1)
    BY <2>4, <1>2, <1>8, <1>9 DEF Cli!Leave
  <2> QED BY <2>5, <1>7, <1>8
<1> QED BY <1>10, <1>11

\* il2c_endfinally: with the exception of its block, or out of the block.
LEMMA EndFinallySeen ==
  ASSUME CliInv, EndFinally, ~ Escaping
  PROVE  Cli!EndFinally /\ PartInv'
<1>1. Managed /\ Top > 0 /\ stack[Top].at = "finally" /\ stack[Top].call = calls
  BY DEF EndFinally
<1>2. /\ Top \in Nat /\ SeenTop = Top /\ outcome = "running" /\ target = Top
      /\ Len(SeenBlocks) = Top /\ pFrame = calls
      /\ \A j \in 1 .. Top : /\ SeenBlocks[j] = Seen(j)
                             /\ SeenBlocks[j].at = stack[j].at
                             /\ SeenBlocks[j].call = stack[j].call
                             /\ SeenBlocks[j].ex = stack[j].ex
  BY <1>1, ManagedIs
<1>n. PICK n \in Nat \ {0} : n = Top
  BY <1>1, <1>2
<1>3. stack[n] \in Block /\ stack[n].next = n - 1 /\ stack[n].kind = "finally"
  <2>1. stack[n] \in Block /\ stack[n].next = n - 1
    BY <1>n DEF CliInv, FrameInv, FramesAreLive, TypeOK, Top
  <2>2. stack[n].at \in {"try", "leave", stack[n].kind}
    BY <1>n DEF CliInv, PartInv
  <2> QED BY <2>1, <2>2, <1>1, <1>n
<1>4. /\ SeenBlocks # <<>> /\ n \in 1 .. Top /\ n - 1 \in 0 .. Top /\ Top \in 0 .. Top
      /\ SeenBlocks[n] = Seen(n) /\ SeenBlocks[n].at = "finally"
      /\ SeenBlocks[n].call = pFrame /\ SeenBlocks[n].ex = stack[n].ex
  BY <1>1, <1>2, <1>n
<1>5. CASE stack[n].ex # Null
  <2>e. PICK e \in Exceptions : e = stack[n].ex
    BY <1>3, <1>5 DEF Block
  <2>1. Contained(e, Top) /\ ThrowInternal(e, n - 1, n - 1)
    BY <2>e, <1>2, <1>3, <1>5, <1>n DEF EndFinally, RethrowInternal
  <2>2. Chain(n - 1) = 1 .. (n - 1)
    BY <1>4, ChainIs DEF CliInv, FrameInv
  <2>3. Protecting(n - 1) = Protecting(Top)
    <3>1. \A i : i \in 1 .. (n - 1) <=> i \in 1 .. Top /\ i # n
      BY <1>n
    <3>2. stack[n].at # "try"
      BY <1>1, <1>n
    <3> QED BY <3>1, <3>2 DEF Protecting
  <2>4. /\ Cli!Reached(e, n - 1) = Selected(e, n - 1)
        /\ Selected(e, n - 1) # 0 => Selected(e, n - 1) \in Protecting(n - 1)
    <3>1. n - 1 = IF Top > 0 /\ stack[Top].ex # Null THEN Top - 1 ELSE Top
      BY <1>1, <1>5, <1>n
    <3> QED BY <3>1, <2>1, <2>2, <2>3, <1>2, <1>4, SelectedIsReached
  <2>5. Cli!Raise(e, n - 1) /\ PartInv'
    <3>1. n - 1 \in Nat
      OBVIOUS
    <3> QED BY <3>1, <2>1, <2>4, <1>2, <1>4, RaiseSeen
  <2> QED BY <2>5, <2>e, <1>2, <1>4, <1>5, <1>n DEF Cli!EndFinally
<1>6. CASE stack[n].ex = Null
  <2> DEFINE b == [stack[n] EXCEPT !.at = "leave"]
  <2>1. stack' = [stack EXCEPT ![n] = b] /\ UNCHANGED <<calls, target, pFrame, outcome>>
    BY <1>3, <1>6, <1>n DEF EndFinally
  <2>2. stack[n].continuation = 1
    BY <1>1, <1>6, <1>n DEF CliInv, PartInv
  <2>3. /\ b.at = "leave" /\ b.kind = stack[n].kind /\ b.filter = stack[n].filter
        /\ b.continuation = 1
    BY <1>3, <2>2 DEF Block
  <2> HIDE DEF b
  <2>4. /\ Top' = n /\ stack'[n] = b
        /\ \A i \in 1 .. (n - 1) : stack'[i] = stack[i]
    BY <2>1, <1>n, InnermostIs DEF CliInv
  <2>5. PartInv'
    BY <1>1, <1>n, <2>3, <2>4, InnermostPart
  <2>6. SeenBlocks' = SubSeq(SeenBlocks, 1, n - 1)
    BY <1>2, <1>n, <2>3, <2>4, LeavingSeen
  <2>7. SeenBlocks[n].remain = n - 1
    BY <1>1, <1>4, <1>6, <1>n, <2>2 DEF Seen
  <2> DEFINE F == {i \in ((n - 1) + 1) .. (n - 1) :
                     SeenBlocks[i].kind = "finally" /\ SeenBlocks[i].at = "try"}
  <2>8. Max({0} \cup F) = 0
    <3>1. F = {}
      OBVIOUS
    <3>2. ({0} \cup F) \in SUBSET (0 .. n) /\ 0 \in {0} \cup F /\ \A y \in {0} \cup F : y <= 0
      BY <3>1
    <3> QED BY <3>2, MaxIs
  <2>9. Cli!Exit(n - 1, n - 1)
    <3> HIDE DEF F
    <3>1. Cli!Max({0} \cup F) = 0
      BY <2>8 DEF Cli!Max, Max
    <3> QED BY <3>1, <2>1, <2>6 DEF Cli!Exit, F
  <2> QED BY <2>5, <2>7, <2>9, <1>2, <1>4, <1>6, <1>n DEF Cli!EndFinally
<1> QED BY <1>5, <1>6

\* il2c_leave_to: the block that is unlinked was not seen any more.
LEMMA LeaveToSeen ==
  ASSUME CliInv, LeaveTo
  PROVE  UNCHANGED <<SeenBlocks, pFrame, outcome>> /\ PartInv'
<1>1. /\ Top \in Nat /\ Top > 0 /\ stack[Top].at = "leave" /\ stack \in Seq(Block)
      /\ Top = Len(stack)
  BY SeenFacts DEF LeaveTo, CliInv, FrameInv, TypeOK, Top
<1>n. PICK n \in Nat \ {0} : n = Top
  BY <1>1
<1>2. stack[n].continuation = 1
  BY <1>1, <1>n DEF CliInv, PartInv
<1>3. stack' = SubSeq(stack, 1, n - 1) /\ UNCHANGED <<pFrame, outcome>>
  BY <1>2, <1>n DEF LeaveTo
<1>4. Top' = n - 1 /\ \A i \in 1 .. (n - 1) : stack'[i] = stack[i]
  BY <1>1, <1>3, <1>n DEF Top
<1>5. \A i \in 1 .. (n - 1) : i \in 1 .. Top /\ i # Top
  BY <1>n
<1>6. PartInv'
  <2> SUFFICES ASSUME NEW j \in 1 .. (n - 1)
               PROVE  /\ stack'[j].at \in {"try", "leave", stack'[j].kind}
                      /\ stack'[j].at = "try" => stack'[j].ex = Null
                      /\ stack'[j].at = "leave" => j = n - 1
                      /\ stack'[j].at = "leave" \/ (stack'[j].at = "finally" /\ stack'[j].ex = Null)
                           => stack'[j].continuation = 1
                      /\ stack'[j].kind = "finally" => stack'[j].filter = {}
    BY <1>4 DEF PartInv
  <2>1. stack'[j] = stack[j] /\ j \in 1 .. Top /\ j # Top
    BY <1>4, <1>5
  <2> QED BY <2>1 DEF CliInv, PartInv
<1>7. SeenTop = n - 1 /\ SeenTop' = n - 1
  <2>1. Top' > 0 => stack'[Top'].at # "leave"
    <3> SUFFICES ASSUME n - 1 > 0 PROVE stack'[n - 1].at # "leave"
      BY <1>4
    <3>1. n - 1 \in 1 .. (n - 1)
      OBVIOUS
    <3>2. stack'[n - 1] = stack[n - 1] /\ n - 1 \in 1 .. Top /\ n - 1 # Top
      BY <3>1, <1>4, <1>5
    <3> QED BY <3>2 DEF CliInv, PartInv
  <2> QED BY <2>1, <1>1, <1>4, <1>n DEF SeenTop
<1>8. /\ SeenBlocks \in Seq(SeenBlock) /\ Len(SeenBlocks) = n - 1
      /\ \A i \in 1 .. (n - 1) : SeenBlocks[i] = Seen(i)
  BY <1>7, SeenFacts
<1>9. \A i \in 1 .. (n - 1) : Seen(i)' = Seen(i)
  BY <1>4, SeenSame
<1>b. PICK s : s = SeenBlocks
  OBVIOUS
<1>10. SeenBlocks' = s
  BY <1>7, <1>8, <1>9, <1>b, SeenBecomes
<1> QED BY <1>3, <1>6, <1>10, <1>b

\* Both start without a block.
LEMMA InitSeen == Init => Cli!Init /\ PartInv
<1> SUFFICES ASSUME Init PROVE Cli!Init /\ PartInv
  OBVIOUS
<1>1. Top = 0 /\ pFrame = 1 /\ outcome = "running"
  BY DEF Init, Top
<1>2. PartInv
  BY <1>1 DEF PartInv
<1>3. CliInv
  BY <1>2, InitFrames DEF CliInv
<1>4. SeenBlocks = <<>>
  <2>1. SeenBlocks \in Seq(SeenBlock) /\ Len(SeenBlocks) = 0
    BY <1>1, <1>3, SeenFacts DEF SeenTop
  <2> QED BY <2>1
<1> QED BY <1>1, <1>2, <1>4 DEF Cli!Init

\* Every step is one that CIL describes, or one it does not see.
LEMMA NextSeen ==
  ASSUME CliInv, [Next]_vars, ~ Escaping, MaxLeave = 1
  PROVE  [Cli!Next]_(Cli!vars) /\ CliInv'
<1> SUFFICES [Cli!Next]_(Cli!vars) /\ PartInv'
  BY NextFrames DEF CliInv
<1>1. ASSUME NEW filter \in Filters, Try("catch", filter)
      PROVE  [Cli!Next]_(Cli!vars) /\ PartInv'
  <2>1. Cli!EnterTry("catch", filter) /\ PartInv'
    BY <1>1, TrySeen, ExceptionAssumption DEF Kinds
  <2> QED BY <2>1 DEF Cli!Next
<1>2. CASE Try("finally", {})
  <2>1. Cli!EnterTry("finally", {}) /\ PartInv'
    BY <1>2, TrySeen DEF Kinds
  <2> QED BY <2>1 DEF Cli!Next
<1>3. CASE Call \/ Return
  BY <1>3, CallSeen DEF Cli!Next
<1>4. ASSUME NEW e \in Exceptions, Throw(e)
      PROVE  [Cli!Next]_(Cli!vars) /\ PartInv'
  <2>1. Cli!Throw(e) /\ PartInv'
    BY <1>4, ThrowSeen
  <2> QED BY <2>1 DEF Cli!Next
<1>5. CASE Rethrow
  BY <1>5, RethrowSeen DEF Cli!Next
<1>6. ASSUME NEW n \in 1 .. MaxLeave, Leave(n)
      PROVE  [Cli!Next]_(Cli!vars) /\ PartInv'
  <2>1. n = 1
    OBVIOUS
  <2>2. (\E k \in 0 .. Len(SeenBlocks) : Cli!Leave(k)) /\ PartInv'
    BY <1>6, <2>1, LeaveSeen
  <2> QED BY <2>2 DEF Cli!Next
<1>7. CASE EndFinally
  BY <1>7, EndFinallySeen DEF Cli!Next
<1>8. CASE LeaveTo
  <2>1. UNCHANGED <<SeenBlocks, pFrame, outcome>> /\ PartInv'
    BY <1>8, LeaveToSeen
  <2> QED BY <2>1 DEF Cli!vars
<1>9. CASE UNCHANGED vars
  <2>1. UNCHANGED <<stack, pFrame, outcome>>
    BY <1>9 DEF vars
  <2>2. SeenBlocks' = SeenBlocks /\ PartInv'
    BY <2>1 DEF SeenBlocks, Seen, Top, CliInv, PartInv
  <2> QED BY <2>1, <2>2 DEF Cli!vars
<1> QED
  BY <1>1, <1>2, <1>3, <1>4, <1>5, <1>6, <1>7, <1>8, <1>9 DEF Next

\* Where handlers are left only as CIL allows and a leave leaves one block, every
\* run of the frames is one of the blocks of CIL: whichever exceptions, filters,
\* nesting and calls, the same handlers run in the same order with the same
\* exception (il2c_exception.c:61-187 with the blocks of il2c.h:422-470).
THEOREM HandlersRunAsCilSays ==
  ASSUME Escaping = FALSE, MaxLeave = 1
  PROVE  Spec => ImplementsCli
<1>1. Init => CliInv /\ Cli!Init
  BY InitFrames, InitSeen DEF CliInv
<1>2. CliInv /\ [Next]_vars => [Cli!Next]_(Cli!vars) /\ CliInv'
  BY NextSeen
<1> QED
  BY <1>1, <1>2, PTL DEF Spec, ImplementsCli, Cli!Spec
-----------------------------------------------------------------------------
\* The parts of a handler follow each other.
LEMMA PartsFollow ==
  ASSUME NEW h, Legit(h)
  PROVE  /\ Len(h.clauses) \in Nat \ {0} /\ DOMAIN h.clauses = 1 .. Len(h.clauses)
         /\ h.start \in Nat /\ 1 <= h.start /\ LastEnd(h) \in Nat
         /\ PartStart(h, 0) = h.start /\ PartEnd(h, Len(h.clauses)) = LastEnd(h)
         /\ \A p \in PartsOf(h) : /\ PartStart(h, p) \in Nat /\ PartEnd(h, p) \in Nat
                                /\ PartStart(h, p) < PartEnd(h, p)
         /\ \A p \in PartsOf(h) : p < Len(h.clauses) => PartStart(h, p + 1) = PartEnd(h, p)
         /\ Ends(h) = {PartEnd(h, p) : p \in PartsOf(h)}
<1> DEFINE n == Len(h.clauses)
<1>1. /\ h.start \in Nat /\ h.end \in Nat
      /\ h.clauses \in Seq([kind : {"catch", "finally"}, start : Nat, end : Nat])
  BY DEF Legit, HandlerType
<1>2. n \in Nat /\ DOMAIN h.clauses = 1 .. n
  BY <1>1
<1>3. /\ 1 <= h.start /\ h.start < h.end /\ h.clauses # <<>> /\ h.clauses[1].start = h.end
      /\ \A c \in 1 .. n :
           /\ h.clauses[c].start < h.clauses[c].end
           /\ c + 1 \in 1 .. n => h.clauses[c + 1].start = h.clauses[c].end
  BY <1>2 DEF Legit, WellFormed
<1>4. n # 0
  BY <1>1, <1>3
<1>5. \A c \in 1 .. n : h.clauses[c].start \in Nat /\ h.clauses[c].end \in Nat
  <2> DEFINE T == [kind : {"catch", "finally"}, start : Nat, end : Nat]
  <2>1. \A c \in 1 .. n : h.clauses[c] \in T
    <3>1. h.clauses \in Seq(T) BY <1>1
    <3> HIDE DEF T
    <3> QED BY <3>1, <1>2
  <2> QED BY <2>1
<1> HIDE DEF n
<1>6. ASSUME NEW p \in 0 .. n
      PROVE  /\ PartStart(h, p) \in Nat /\ PartEnd(h, p) \in Nat /\ PartStart(h, p) < PartEnd(h, p)
             /\ p < n => PartStart(h, p + 1) = PartEnd(h, p)
  <2>1. CASE p = 0
    BY <2>1, <1>1, <1>2, <1>3, <1>4, <1>5 DEF PartStart, PartEnd
  <2>2. CASE p # 0
    <3>1. p \in 1 .. n BY <2>2, <1>2
    <3>2. p < n => p + 1 \in 1 .. n /\ p + 1 # 0 BY <3>1, <1>2
    <3> QED BY <2>2, <3>1, <3>2, <1>3, <1>5 DEF PartStart, PartEnd
  <2> QED BY <2>1, <2>2
<1>7. Ends(h) = {PartEnd(h, p) : p \in 0 .. n}
  <2>1. ASSUME NEW e \in Ends(h) PROVE \E p \in 0 .. n : e = PartEnd(h, p)
    <3>1. CASE e = h.end
      <4>1. 0 \in 0 .. n /\ PartEnd(h, 0) = e BY <1>2, <3>1 DEF PartEnd
      <4> QED BY <4>1
    <3>2. ASSUME NEW c \in 1 .. n, e = h.clauses[c].end PROVE \E p \in 0 .. n : e = PartEnd(h, p)
      <4>1. c \in 0 .. n /\ PartEnd(h, c) = e BY <1>2, <3>2 DEF PartEnd
      <4> QED BY <4>1
    <3> QED BY <3>1, <3>2, <1>2 DEF Ends
  <2>2. ASSUME NEW p \in 0 .. n PROVE PartEnd(h, p) \in Ends(h)
    BY <1>2 DEF PartEnd, Ends
  <2> QED BY <2>1, <2>2
<1>8. LastEnd(h) = PartEnd(h, n) /\ PartStart(h, 0) = h.start
  BY <1>4 DEF LastEnd, PartEnd, PartStart, n
<1>9. n \in 0 .. n BY <1>2
<1> QED BY <1>1, <1>2, <1>3, <1>4, <1>6, <1>7, <1>8, <1>9 DEF n, PartsOf

\* A set of numbers that is not empty has a smallest one.
LEMMA SmallestNumber ==
  ASSUME NEW S \in SUBSET Nat, S # {}
  PROVE  \E s \in S : \A t \in S : s <= t
<1> DEFINE R == OpToRel(<, Nat)
<1>1. \A a, b \in Nat : <<a, b>> \in R <=> a < b
  BY Zenon DEF OpToRel
<1>2. IsWellFoundedOn(R, Nat)
  BY NatLessThanWellFounded
<1> HIDE DEF R
<1>3. PICK s \in S : \A t \in S : ~(<<t, s>> \in R)
  BY <1>2, WFMin
<1>4. ASSUME NEW t \in S PROVE s <= t
  <2>1. ~(t < s) BY <1>1, <1>3
  <2> QED BY <2>1
<1> QED BY <1>4

\* No part starts before the end of one that comes first.
LEMMA PartsOrdered ==
  ASSUME NEW h, Legit(h), NEW p \in PartsOf(h), NEW q \in PartsOf(h), p < q
  PROVE  PartEnd(h, p) <= PartStart(h, q)
<1> DEFINE n == Len(h.clauses)
           S == {k \in 0 .. n : p < k /\ PartEnd(h, p) > PartStart(h, k)}
<1>1. /\ n \in Nat
      /\ \A k \in 0 .. n : PartStart(h, k) \in Nat /\ PartEnd(h, k) \in Nat /\ PartStart(h, k) < PartEnd(h, k)
      /\ \A k \in 0 .. n : k < n => PartStart(h, k + 1) = PartEnd(h, k)
  BY PartsFollow DEF PartsOf
<1> HIDE DEF n
<1>2. p \in 0 .. n /\ q \in 0 .. n
  BY DEF PartsOf, n
<1>3. ASSUME S # {} PROVE FALSE
  <2>1. PICK s \in S : \A t \in S : s <= t
    <3> S \subseteq Nat BY <1>1
    <3> HIDE DEF S
    <3> QED BY <1>3, SmallestNumber
  <2>2. s \in 0 .. n /\ p < s /\ s - 1 \in 0 .. n /\ s - 1 < n /\ (s - 1) + 1 = s
    BY <2>1, <1>1, <1>2
  <2>3. PartStart(h, s) = PartEnd(h, s - 1)
    BY <2>2, <1>1
  <2>4. s - 1 # p
    BY <2>1, <2>3, <1>1, <1>2
  <2>5. p < s - 1
    BY <2>2, <2>4, <1>2
  <2>6. s - 1 \in S
    BY <2>1, <2>2, <2>3, <2>5, <1>1, <1>2
  <2> QED BY <2>1, <2>2, <2>6
<1>4. ~ (PartEnd(h, p) > PartStart(h, q))
  BY <1>2, <1>3
<1> QED BY <1>1, <1>2, <1>4

\* A handler is what lies between its start and its last end, and an offset in
\* it is in one of its parts.
LEMMA PartsCover ==
  ASSUME NEW h, Legit(h), NEW o \in Int
  PROVE  /\ Writer!ContainsOffset(h, o) <=> h.start <= o /\ o < LastEnd(h)
         /\ \A p \in PartsOf(h) : PartStart(h, p) <= o /\ o < PartEnd(h, p) =>
              Writer!ContainsOffset(h, o) /\ Writer!PartOf(h, o) = p
<1> DEFINE n == Len(h.clauses)
           In(p) == PartStart(h, p) <= o /\ o < PartEnd(h, p)
<1>1. /\ n \in Nat /\ DOMAIN h.clauses = 1 .. n /\ h.start \in Nat /\ LastEnd(h) \in Nat
      /\ PartStart(h, 0) = h.start /\ PartEnd(h, n) = LastEnd(h)
      /\ \A k \in 0 .. n : PartStart(h, k) \in Nat /\ PartEnd(h, k) \in Nat /\ PartStart(h, k) < PartEnd(h, k)
      /\ \A k \in 0 .. n : k < n => PartStart(h, k + 1) = PartEnd(h, k)
      /\ \A p, q \in 0 .. n : p < q => PartEnd(h, p) <= PartStart(h, q)
  BY PartsFollow, PartsOrdered DEF PartsOf
<1>2. \A p : p # 0 => (In(p) <=> Writer!Within(h.clauses[p], o))
  BY DEF Writer!Within, PartStart, PartEnd
<1>3. In(0) <=> Writer!Within(h, o)
  BY DEF Writer!Within, PartStart, PartEnd
<1>4. Writer!ContainsOffset(h, o) <=> \E p \in 0 .. n : In(p)
  <2> HIDE DEF In, n
  <2>1. \A c \in 1 .. n : c # 0 /\ c \in 0 .. n BY <1>1
  <2>2. 0 \in 0 .. n /\ \A p \in 0 .. n : p # 0 => p \in 1 .. n BY <1>1
  <2> QED BY <2>1, <2>2, <1>1, <1>2, <1>3 DEF Writer!ContainsOffset
<1> HIDE DEF n
<1>5. ASSUME h.start <= o, o < LastEnd(h) PROVE \E p \in 0 .. n : In(p)
  <2> DEFINE S == {k \in 0 .. n : o < PartEnd(h, k)}
  <2>1. n \in S BY <1>1, <1>5
  <2>2. PICK s \in S : \A t \in S : s <= t
    <3> S \subseteq Nat BY <1>1
    <3> HIDE DEF S
    <3> QED BY <2>1, SmallestNumber
  <2>3. CASE s = 0
    BY <2>2, <2>3, <1>1, <1>5
  <2>4. CASE s # 0
    <3>1. s - 1 \in 0 .. n /\ s - 1 < n /\ (s - 1) + 1 = s BY <2>2, <2>4, <1>1
    <3>2. s - 1 \notin S BY <2>2, <3>1
    <3>3. PartEnd(h, s - 1) <= o BY <3>1, <3>2, <1>1
    <3>4. PartStart(h, s) = PartEnd(h, s - 1) BY <3>1, <1>1
    <3> QED BY <2>2, <3>3, <3>4
  <2> QED BY <2>3, <2>4
<1>6. ASSUME NEW p \in 0 .. n, In(p) PROVE h.start <= o /\ o < LastEnd(h)
  <2>1. h.start <= PartStart(h, p)
    <3>1. CASE p = 0 BY <3>1, <1>1
    <3>2. CASE p # 0
      <4>1. 0 \in 0 .. n /\ 0 < p BY <3>2, <1>1
      <4>2. PartEnd(h, 0) <= PartStart(h, p) /\ PartStart(h, 0) < PartEnd(h, 0) BY <4>1, <1>1
      <4> QED BY <4>1, <4>2, <1>1
    <3> QED BY <3>1, <3>2
  <2>2. PartEnd(h, p) <= LastEnd(h)
    <3>1. CASE p = n BY <3>1, <1>1
    <3>2. CASE p # n
      <4>1. n \in 0 .. n /\ p < n BY <3>2, <1>1
      <4>2. PartEnd(h, p) <= PartStart(h, n) /\ PartStart(h, n) < PartEnd(h, n) BY <4>1, <1>1
      <4> QED BY <4>1, <4>2, <1>1
    <3> QED BY <3>1, <3>2
  <2> QED BY <2>1, <2>2, <1>1, <1>6
<1>7. ASSUME NEW p \in 0 .. n, NEW q \in 0 .. n, In(p), In(q) PROVE p = q
  <2>1. ~(p < q) BY <1>1, <1>7
  <2>2. ~(q < p) BY <1>1, <1>7
  <2> QED BY <2>1, <2>2, <1>1
<1>8. ASSUME NEW p \in 0 .. n, In(p) PROVE Writer!PartOf(h, o) = p
  <2>1. CASE p = 0
    BY <2>1, <1>3, <1>8 DEF Writer!PartOf
  <2>2. CASE p # 0
    <3>1. ~Writer!Within(h, o)
      <4>1. 0 \in 0 .. n BY <1>1
      <4> QED BY <4>1, <2>2, <1>3, <1>7, <1>8
    <3>2. p \in 1 .. n /\ Writer!Within(h.clauses[p], o)
      BY <2>2, <1>1, <1>2, <1>8
    <3>3. \A c \in 1 .. n : Writer!Within(h.clauses[c], o) => c = p
      <4>1. \A c \in 1 .. n : c \in 0 .. n /\ c # 0 BY <1>1
      <4> HIDE DEF In
      <4> QED BY <4>1, <1>2, <1>7, <1>8
    <3>4. (CHOOSE c \in DOMAIN h.clauses : Writer!Within(h.clauses[c], o)) = p
      BY <1>1, <3>2, <3>3
    <3> QED BY <3>1, <3>4 DEF Writer!PartOf
  <2> QED BY <2>1, <2>2
<1> HIDE DEF In
<1>9. \A p \in PartsOf(h) : In(p) => Writer!ContainsOffset(h, o) /\ Writer!PartOf(h, o) = p
  BY <1>4, <1>8 DEF PartsOf, n
<1>10. Writer!ContainsOffset(h, o) <=> h.start <= o /\ o < LastEnd(h)
  BY <1>4, <1>5, <1>6
<1> QED BY <1>9, <1>10 DEF In

\* What the handlers of a body are to each other.
LEMMA HandlersNest ==
  ASSUME body \in Bodies
  PROVE  /\ BodyLength \in Nat /\ 1 <= BodyLength
         /\ Len(Handlers) \in Nat /\ DOMAIN Handlers = 1 .. Len(Handlers)
         /\ \A g \in 1 .. Len(Handlers) : Legit(Handlers[g]) /\ LastEnd(Handlers[g]) <= BodyLength + 1
         /\ \A g, h \in 1 .. Len(Handlers) : g < h =>
              /\ Handlers[g].start <= Handlers[h].start
              /\ \A p \in PartsOf(Handlers[g]) :
                   /\ Handlers[h].start # PartEnd(Handlers[g], p)
                   /\ Handlers[h].start < PartEnd(Handlers[g], p) =>
                        LastEnd(Handlers[h]) <= PartEnd(Handlers[g], p)
<1>1. Handlers \in Seq(HandlerType)
  BY BodyAssumption DEF Handlers
<1>2. \A h \in DOMAIN Handlers : WellFormed(Handlers[h])
  BY BodyAssumption DEF Handlers
<1>3. \A g, h \in DOMAIN Handlers : g < h => Behind(Handlers[g], Handlers[h])
  BY BodyAssumption DEF Handlers
<1>4. Len(Handlers) \in Nat /\ DOMAIN Handlers = 1 .. Len(Handlers)
  BY <1>1
<1>5. ASSUME NEW g \in 1 .. Len(Handlers)
      PROVE Legit(Handlers[g]) /\ LastEnd(Handlers[g]) <= BodyLength + 1
  <2>1. Handlers[g] \in HandlerType BY <1>1, <1>4
  <2> QED BY <2>1, <1>2, <1>4 DEF Legit, WellFormed
<1>6. ASSUME NEW g \in 1 .. Len(Handlers), NEW h \in 1 .. Len(Handlers), g < h
      PROVE /\ Handlers[g].start <= Handlers[h].start
            /\ \A p \in PartsOf(Handlers[g]) :
                 /\ Handlers[h].start # PartEnd(Handlers[g], p)
                 /\ Handlers[h].start < PartEnd(Handlers[g], p) =>
                      LastEnd(Handlers[h]) <= PartEnd(Handlers[g], p)
  <2> DEFINE a == Handlers[g]
             b == Handlers[h]
             n == Len(a.clauses)
  <2>1. Legit(a) /\ Legit(b) /\ Behind(a, b)
    BY <1>3, <1>4, <1>5, <1>6
  <2> HIDE DEF a, b
  <2>2. /\ n \in Nat /\ PartsOf(a) = 0 .. n /\ n \in PartsOf(a)
        /\ a.start \in Nat /\ b.start \in Nat /\ LastEnd(a) = PartEnd(a, n)
        /\ \A p \in PartsOf(a) : PartEnd(a, p) \in Nat /\ PartStart(a, p) \in Nat /\ PartStart(a, p) < PartEnd(a, p)
        /\ Ends(a) = {PartEnd(a, p) : p \in PartsOf(a)}
        /\ a.start = PartStart(a, 0)
    <3>1. PartsOf(a) = 0 .. n BY DEF PartsOf
    <3>2. n \in Nat BY <2>1, PartsFollow
    <3>3. n \in PartsOf(a) BY <3>1, <3>2
    <3> QED BY <2>1, <3>1, <3>2, <3>3, PartsFollow
  <2>3. ASSUME NEW p \in PartsOf(a) PROVE PartEnd(a, p) <= LastEnd(a)
    <3>1. CASE p = n BY <3>1, <2>2
    <3>2. CASE p # n
      <4>1. p < n /\ PartStart(a, n) < PartEnd(a, n) BY <3>2, <2>2
      <4>2. PartEnd(a, p) <= PartStart(a, n) BY <4>1, <2>1, <2>2, PartsOrdered
      <4> QED BY <4>1, <4>2, <2>2
    <3> QED BY <3>1, <3>2
  <2>4. a.start <= LastEnd(a)
    <3>1. 0 \in PartsOf(a) BY <2>2
    <3> QED BY <3>1, <2>2, <2>3
  <2>5. \A p \in PartsOf(a) : PartEnd(a, p) \in Ends(a)
    BY <2>2
  <2> HIDE DEF n
  <2>6. a.start <= b.start
    BY <2>1, <2>2, <2>4 DEF Behind
  <2>7. ASSUME NEW p \in PartsOf(a)
        PROVE  b.start # PartEnd(a, p) /\ (b.start < PartEnd(a, p) => LastEnd(b) <= PartEnd(a, p))
    <3>1. PartEnd(a, p) \in Ends(a) /\ PartEnd(a, p) <= LastEnd(a) /\ LastEnd(a) \in Nat /\ PartEnd(a, p) \in Nat
      BY <2>2, <2>3, <2>5
    <3> QED BY <3>1, <2>1, <2>2 DEF Behind
  <2> QED BY <2>6, <2>7 DEF a, b
<1>7. BodyLength \in Nat /\ 1 <= BodyLength
  BY BodyAssumption
<1> QED BY <1>4, <1>5, <1>6, <1>7

-----------------------------------------------------------------------------
\* A state of the stack that stays is in the same part of the same handler.
LEMMA StateStays ==
  ASSUME UNCHANGED body, NEW k, states'[k] = states[k]
  PROVE  /\ Of(k)' = Of(k) /\ (InPart(k)' <=> InPart(k))
         /\ Opening(k)' = Opening(k) /\ Closing(k)' = Closing(k)
BY DEF Of, InPart, Opening, Closing, Handlers

\* The handlers of the stack and their parts.
LEMMA StackFacts ==
  ASSUME WriterTypes
  PROVE  /\ Len(states) \in Nat /\ DOMAIN states = Depths
         /\ \A k \in Depths :
              /\ states[k] \in StateType
              /\ states[k].handler \in 1 .. Len(Handlers) /\ states[k].handler < queue
              /\ Legit(Of(k)) /\ LastEnd(Of(k)) \in Nat /\ LastEnd(Of(k)) <= BodyLength + 1
              /\ Of(k).start \in Nat /\ Len(Of(k).clauses) \in Nat \ {0}
              /\ states[k].clause \in 0 .. Len(Of(k).clauses) + 1
              /\ states[k].clause \in PartsOf(Of(k)) =>
                   /\ Opening(k) \in Nat /\ Closing(k) \in Nat /\ Opening(k) < Closing(k)
                   /\ Of(k).start <= Opening(k) /\ Closing(k) <= LastEnd(Of(k))
              /\ InPart(k) => states[k].clause \in PartsOf(Of(k))
<1>1. states \in Seq(StateType) /\ body \in Bodies /\ queue \in 1 .. Len(Handlers) + 1
  BY DEF WriterTypes, StatesTyped
<1>2. Len(states) \in Nat /\ DOMAIN states = Depths
  BY <1>1 DEF Depths
<1>3. ASSUME NEW k \in Depths
      PROVE  /\ states[k] \in StateType
             /\ states[k].handler \in 1 .. Len(Handlers) /\ states[k].handler < queue
             /\ Legit(Of(k)) /\ LastEnd(Of(k)) \in Nat /\ LastEnd(Of(k)) <= BodyLength + 1
             /\ Of(k).start \in Nat /\ Len(Of(k).clauses) \in Nat \ {0}
             /\ states[k].clause \in 0 .. Len(Of(k).clauses) + 1
             /\ states[k].clause \in PartsOf(Of(k)) =>
                  /\ Opening(k) \in Nat /\ Closing(k) \in Nat /\ Opening(k) < Closing(k)
                  /\ Of(k).start <= Opening(k) /\ Closing(k) <= LastEnd(Of(k))
             /\ InPart(k) => states[k].clause \in PartsOf(Of(k))
  <2> DEFINE h == Of(k)
             c == states[k].clause
             n == Len(h.clauses)
  <2>0. states[k] \in StateType
    <3> HIDE DEF StateType
    <3> QED BY <1>1, <1>2 DEF Depths
  <2>1. c \in Nat /\ states[k].inBlock \in BOOLEAN
    BY <2>0 DEF StateType
  <2>2. states[k].handler \in 1 .. (queue - 1) /\ c \in 0 .. n + 1
        /\ (states[k].inBlock => c \in 1 .. n)
    BY DEF WriterTypes, StatesTyped
  <2>3. Len(Handlers) \in Nat
    BY <1>1, HandlersNest
  <2>4. states[k].handler \in 1 .. Len(Handlers) /\ states[k].handler < queue
    BY <1>1, <2>2, <2>3
  <2>5. Legit(h) /\ LastEnd(h) <= BodyLength + 1
    BY <1>1, <2>4, HandlersNest DEF Of
  <2> HIDE DEF h
  <2>6. /\ n \in Nat \ {0} /\ h.start \in Nat /\ LastEnd(h) \in Nat
        /\ PartStart(h, 0) = h.start /\ PartEnd(h, n) = LastEnd(h)
        /\ PartsOf(h) = 0 .. n
        /\ \A p \in PartsOf(h) : /\ PartStart(h, p) \in Nat /\ PartEnd(h, p) \in Nat
                               /\ PartStart(h, p) < PartEnd(h, p)
    BY <2>5, PartsFollow DEF PartsOf
  <2>7. InPart(k) => c \in PartsOf(h)
    BY <2>2, <2>6 DEF InPart
  <2>8. ASSUME c \in PartsOf(h)
        PROVE  h.start <= PartStart(h, c) /\ PartEnd(h, c) <= LastEnd(h)
    <3>1. 0 \in PartsOf(h) /\ n \in PartsOf(h) BY <2>6
    <3>2. c # 0 => PartEnd(h, 0) <= PartStart(h, c)
      BY <2>5, <2>6, <2>8, <3>1, PartsOrdered
    <3>3. c # n => PartEnd(h, c) <= PartStart(h, n)
      BY <2>5, <2>6, <2>8, <3>1, PartsOrdered
    <3> HIDE DEF n, c
    <3> QED BY <3>1, <3>2, <3>3, <2>6, <2>8
  <2> QED BY <2>0, <2>2, <2>4, <2>5, <2>6, <2>7, <2>8 DEF h, Opening, Closing
<1> QED BY <1>2, <1>3

\* What does not mention the stack stays with the body.
LEMMA BodyStays ==
  ASSUME UNCHANGED body
  PROVE  /\ Handlers' = Handlers
         /\ \A h, o : (Writer!ContainsOffset(h, o))' <=> Writer!ContainsOffset(h, o)
         /\ \A o : (Writer!Around(o))' = Writer!Around(o)
         /\ \A h, o : (Writer!Depth(h, o))' = Writer!Depth(h, o)
         /\ \A h, o : (Writer!PartOf(h, o))' = Writer!PartOf(h, o)
         /\ (Writer!NumberedByDepth)' <=> Writer!NumberedByDepth
BY DEF Handlers, Writer!handlers, Writer!ContainsOffset, Writer!Around, Writer!Depth, Writer!PartOf,
       Writer!NumberedByDepth

\* What is written stays as it is while nothing is written.
LEMMA WrittenStays ==
  ASSUME Written, UNCHANGED <<body, offset, written>>
  PROVE  Written'
<1>1. \A o : CorrectAt(o)' <=> CorrectAt(o)
  BY BodyStays DEF CorrectAt
<1> QED BY <1>1 DEF Written

\* The bindings of finished handlers stay while none is finished.
LEMMA BoundStays ==
  ASSUME Bound, UNCHANGED <<body, queue, bindings>>,
         \A g : OnStack(g)' <=> OnStack(g)
  PROVE  Bound'
<1>1. \A g : BindingOf(g)' = BindingOf(g)
  BY BodyStays DEF BindingOf
<1> QED BY <1>1, BodyStays DEF Bound

\* The top of the stack moves to another part of its handler.
LEMMA TopMoves ==
  ASSUME StackInv, NEW L, L = Len(states), L # 0, NEW s \in StateType,
         UNCHANGED <<body, offset, queue, nestName>>,
         states' = [states EXCEPT ![L] = s],
         s.handler = states[L].handler,
         s.clause \in 0 .. Len(Of(L).clauses) + 1,
         s.inBlock => s.clause \in 1 .. Len(Of(L).clauses),
         IF s.clause = 0 \/ s.inBlock
         THEN PartStart(Of(L), s.clause) <= offset /\ offset <= PartEnd(Of(L), s.clause)
         ELSE offset = IF s.clause <= Len(Of(L).clauses) THEN PartStart(Of(L), s.clause)
                       ELSE LastEnd(Of(L)),
         blocks' \in Seq(BlockType), Len(blocks') = L,
         \A k \in 1 .. L : k # L => blocks'[k] = blocks[k],
         blocks'[L] = [nest |-> L - 1,
                       part |-> IF s.clause = 0 \/ s.inBlock THEN s.clause ELSE -1]
  PROVE  /\ StackInv' /\ \A g : OnStack(g)' <=> OnStack(g)
         /\ Len(states') = L /\ states'[L] = s
         /\ \A k \in 1 .. L : k # L => states'[k] = states[k]
         /\ \A k \in Depths : Of(k)' = Of(k)
<1>1. L \in Nat /\ DOMAIN states = Depths /\ states \in Seq(StateType) /\ Depths = 1 .. L /\ L \in 1 .. L
  BY StackFacts DEF StackInv, WriterTypes, StatesTyped, Depths
<1>2. /\ states' \in Seq(StateType) /\ Len(states') = L /\ states'[L] = s
      /\ \A k \in 1 .. L : k # L => states'[k] = states[k]
  <2> HIDE DEF StateType
  <2> QED BY <1>1
<1>3. Depths' = 1 .. L /\ Handlers' = Handlers
  BY <1>2, BodyStays DEF Depths
<1>4. \A k \in 1 .. L : states'[k].handler = states[k].handler
  BY <1>2
<1>5. \A k \in 1 .. L : Of(k)' = Of(k)
  BY <1>3, <1>4 DEF Of
<1>6. \A k \in 1 .. L : k # L => (InPart(k)' <=> InPart(k)) /\ Opening(k)' = Opening(k) /\ Closing(k)' = Closing(k)
  BY <1>2, <1>5 DEF InPart, Opening, Closing
<1>7. (InPart(L)' <=> (s.clause = 0 \/ s.inBlock)) /\ Opening(L)' = PartStart(Of(L), s.clause) /\ Closing(L)' = PartEnd(Of(L), s.clause)
  BY <1>1, <1>2, <1>5 DEF InPart, Opening, Closing
<1>8. WriterTypes'
  <2>1. \A k \in Depths' :
          /\ states'[k].handler \in 1 .. (queue' - 1)
          /\ states'[k].clause \in 0 .. Len(Of(k)'.clauses) + 1
          /\ states'[k].inBlock => states'[k].clause \in 1 .. Len(Of(k)'.clauses)
    <3> SUFFICES ASSUME NEW k \in 1 .. L
                 PROVE  /\ states'[k].handler \in 1 .. (queue - 1)
                        /\ states'[k].clause \in 0 .. Len(Of(k).clauses) + 1
                        /\ states'[k].inBlock => states'[k].clause \in 1 .. Len(Of(k).clauses)
      BY <1>3, <1>5
    <3>1. CASE k = L BY <3>1, <1>1, <1>2, <1>4 DEF StackInv, WriterTypes, StatesTyped
    <3>2. CASE k # L BY <3>2, <1>1, <1>2, <1>4 DEF StackInv, WriterTypes, StatesTyped
    <3> QED BY <3>1, <3>2
  <2> QED BY <2>1, <1>2, <1>3 DEF StackInv, WriterTypes, StatesTyped, StateType
<1>9. BlocksOfStates'
  <2>1. \A k \in 1 .. L : blocks'[k] = [nest |-> k - 1, part |-> IF InPart(k)' THEN states'[k].clause ELSE -1]
    <3> SUFFICES ASSUME NEW k \in 1 .. L
                 PROVE blocks'[k] = [nest |-> k - 1, part |-> IF InPart(k)' THEN states'[k].clause ELSE -1]
      OBVIOUS
    <3>1. CASE k = L BY <3>1, <1>2, <1>7
    <3>2. CASE k # L
      <4>1. blocks[k] = [nest |-> k - 1, part |-> IF InPart(k) THEN states[k].clause ELSE -1]
        BY <1>1 DEF StackInv, BlocksOfStates
      <4> QED BY <3>2, <4>1, <1>2, <1>6
    <3> QED BY <3>1, <3>2
  <2> QED BY <2>1, <1>1, <1>2, <1>3 DEF StackInv, BlocksOfStates, BlockType
<1>10. Nested'
  <2> SUFFICES ASSUME NEW j \in 1 .. L, NEW k \in 1 .. L, j < k
               PROVE  /\ states'[j].handler < states'[k].handler
                      /\ InPart(j)' /\ LastEnd(Of(k))' <= Closing(j)'
    BY <1>3 DEF Nested
  <2>1. j # L BY <1>1
  <2>2. states[j].handler < states[k].handler /\ InPart(j) /\ LastEnd(Of(k)) <= Closing(j)
    BY <1>1 DEF StackInv, Nested
  <2>3. LastEnd(Of(k))' = LastEnd(Of(k)) BY <1>5 DEF LastEnd
  <2> QED BY <2>1, <2>2, <2>3, <1>4, <1>6
<1>11. Reached'
  <2> SUFFICES ASSUME NEW k \in 1 .. L
               PROVE  IF InPart(k)' THEN Opening(k)' <= offset /\ offset <= Closing(k)'
                      ELSE offset = IF states'[k].clause <= Len(Of(k).clauses) THEN Opening(k)'
                                    ELSE LastEnd(Of(k))
    BY <1>3, <1>5 DEF Reached, LastEnd
  <2>1. CASE k = L BY <2>1, <1>2, <1>7
  <2>2. CASE k # L BY <2>2, <1>1, <1>2, <1>6 DEF StackInv, Reached
  <2> QED BY <2>1, <2>2
<1>12. \A g : OnStack(g)' <=> OnStack(g)
  BY <1>1, <1>3, <1>4 DEF OnStack
<1>13. Started'
  <2>1. \A k \in 1 .. L : Of(k)'.start = Of(k).start BY <1>5
  <2>2. \A g : LastEnd(Handlers[g])' = LastEnd(Handlers[g]) BY <1>3 DEF LastEnd
  <2> QED BY <2>1, <2>2, <1>1, <1>3, <1>4, <1>12 DEF StackInv, Started
<1> QED BY <1>1, <1>2, <1>5, <1>8, <1>9, <1>10, <1>11, <1>12, <1>13 DEF StackInv

\* The top of the stack as the actions see it.
LEMMA TopIs ==
  ASSUME StackInv, NEW L, L = Len(states), states # <<>>
  PROVE  /\ L \in Nat /\ L # 0 /\ L \in Depths /\ Depths = 1 .. L
         /\ Writer!Top = states[L] /\ states[L] \in StateType
         /\ Writer!Handler(Writer!Top) = Of(L)
         /\ Writer!Clause(Writer!Top) = Of(L).clauses[states[L].clause]
         /\ DOMAIN Of(L).clauses = 1 .. Len(Of(L).clauses) /\ Len(Of(L).clauses) \in Nat \ {0}
<1>1. L \in Nat /\ states \in Seq(StateType)
  BY StackFacts DEF StackInv, WriterTypes, StatesTyped
<1>2. L # 0 /\ L \in Depths /\ Depths = 1 .. L
  BY <1>1 DEF Depths
<1>3. Writer!Top = states[L] /\ Writer!Handler(states[L]) = Of(L)
  BY DEF Writer!Top, Writer!Handler, Of, Handlers, Writer!handlers
<1>4. Writer!Clause(states[L]) = Of(L).clauses[states[L].clause]
  BY <1>3 DEF Writer!Clause
<1>5. states[L] \in StateType /\ Legit(Of(L))
  BY <1>2, StackFacts DEF StackInv
<1> QED BY <1>1, <1>2, <1>3, <1>4, <1>5, PartsFollow

\* The state of a handler that moves to a clause is still of the same handler.
LEMMA StateMoves ==
  ASSUME NEW r \in StateType, NEW n \in Nat
  PROVE  /\ [r EXCEPT !.inBlock = FALSE, !.clause = n] \in StateType
         /\ [r EXCEPT !.inBlock = FALSE, !.clause = n].clause = n
         /\ [r EXCEPT !.inBlock = FALSE, !.clause = n].handler = r.handler
         /\ [r EXCEPT !.inBlock = FALSE, !.clause = n].inBlock = FALSE
         /\ [r EXCEPT !.inBlock = TRUE] \in StateType
         /\ [r EXCEPT !.inBlock = TRUE].clause = r.clause
         /\ [r EXCEPT !.inBlock = TRUE].handler = r.handler
         /\ [r EXCEPT !.inBlock = TRUE].inBlock = TRUE
BY DEF StateType

\* The top block is written anew for another part, and no other block.
LEMMA PartSet ==
  ASSUME StackInv, NEW L, L = Len(states), states # <<>>, NEW p \in Int, Writer!SetPart(p)
  PROVE  /\ blocks' \in Seq(BlockType) /\ Len(blocks') = L
         /\ \A k \in 1 .. L : k # L => blocks'[k] = blocks[k]
         /\ blocks'[L] = [nest |-> L - 1, part |-> p]
<1>1. L \in Nat /\ L # 0 /\ Depths = 1 .. L
  BY TopIs
<1>2. blocks \in Seq(BlockType) /\ Len(blocks) = L
  BY DEF StackInv, BlocksOfStates
<1>3. blocks[L] = [nest |-> L - 1, part |-> IF InPart(L) THEN states[L].clause ELSE -1]
  BY <1>1 DEF StackInv, BlocksOfStates
<1>4. DOMAIN blocks = 1 .. L BY <1>2
<1>5. [blocks[L] EXCEPT !.part = p] = [nest |-> L - 1, part |-> p]
  BY <1>3
<1>6. [nest |-> L - 1, part |-> p] \in BlockType
  BY <1>1 DEF BlockType
<1>7. blocks' = [blocks EXCEPT ![L] = [nest |-> L - 1, part |-> p]]
  BY <1>2, <1>5 DEF Writer!SetPart
<1> HIDE DEF BlockType
<1>8. blocks' \in Seq(BlockType) /\ Len(blocks') = L
  BY <1>1, <1>2, <1>6, <1>7
<1> QED BY <1>1, <1>4, <1>7, <1>8

\* At the end of a try its handler moves to the first clause.
LEMMA TryEndKeeps ==
  ASSUME WriterInv, Writer!TryEnd
  PROVE  WriterInv'
<1> DEFINE L == Len(states)
           s == [states[L] EXCEPT !.clause = 1]
           h == Of(L)
<1>1. StackInv /\ states # <<>> /\ phase = "update"
  BY DEF WriterInv, Writer!TryEnd, Writer!Asked
<1>2. /\ L \in Nat /\ L # 0 /\ L \in Depths /\ Depths = 1 .. L
      /\ Writer!Top = states[L] /\ states[L] \in StateType /\ Writer!Handler(Writer!Top) = h
      /\ Len(h.clauses) \in Nat \ {0}
  BY <1>1, TopIs
<1>3. /\ states[L].clause = 0 /\ h.end = offset /\ Writer!SetPart(-1) /\ Writer!SetTop(s)
      /\ UNCHANGED <<body, offset, queue, nestName, written, bindings, phase>>
  BY <1>2 DEF Writer!TryEnd
<1>4. states' = [states EXCEPT ![L] = s]
  BY <1>3 DEF Writer!SetTop
<1>5. s \in StateType /\ s.clause = 1 /\ s.handler = states[L].handler /\ s.inBlock = states[L].inBlock
  BY <1>2 DEF StateType
<1>6. ~ states[L].inBlock
  <2>1. states[L].inBlock => states[L].clause \in 1 .. Len(h.clauses)
    BY <1>1, <1>2 DEF StackInv, WriterTypes, StatesTyped
  <2> QED BY <2>1, <1>2, <1>3
<1>7. offset = PartStart(h, 1)
  <2>1. Legit(h) BY <1>1, <1>2, StackFacts DEF StackInv
  <2> HIDE DEF h
  <2>2. 0 \in PartsOf(h) /\ 0 < Len(h.clauses) /\ 0 + 1 = 1 BY <1>2 DEF PartsOf
  <2>3. PartStart(h, 1) = PartEnd(h, 0) BY <2>1, <2>2, PartsFollow
  <2> QED BY <2>3, <1>3 DEF PartEnd
<1>8. /\ blocks' \in Seq(BlockType) /\ Len(blocks') = L
      /\ \A k \in 1 .. L : k # L => blocks'[k] = blocks[k]
      /\ blocks'[L] = [nest |-> L - 1, part |-> -1]
  BY <1>1, <1>3, PartSet
<1> HIDE DEF s, h
<1>9. StackInv' /\ \A g : OnStack(g)' <=> OnStack(g)
  <2> HIDE DEF L
  <2>1. L = Len(states) BY DEF L
  <2>2. h = Of(L) BY DEF h
  <2>3. 1 \in 0 .. Len(h.clauses) + 1 /\ 1 <= Len(h.clauses) BY <1>2
  <2>4. ~(s.clause = 0 \/ s.inBlock) BY <1>5, <1>6
  <2> QED BY <1>1, <1>2, <1>3, <1>4, <1>5, <1>6, <1>7, <1>8, <2>1, <2>2, <2>3, <2>4, TopMoves
<1>10. Phases'
  BY <1>1, <1>3 DEF WriterInv, Phases
<1> QED BY <1>3, <1>9, <1>10, WrittenStays, BoundStays DEF WriterInv

\* At the end of a clause its handler moves to the next one.
LEMMA CatchEndKeeps ==
  ASSUME WriterInv, Writer!CatchEnd
  PROVE  WriterInv'
<1> DEFINE L == Len(states)
           c == states[L].clause
           s == [states[L] EXCEPT !.inBlock = FALSE, !.clause = c + 1]
           h == Of(L)
           n == Len(h.clauses)
<1>1. StackInv /\ states # <<>> /\ phase = "update"
  BY DEF WriterInv, Writer!CatchEnd, Writer!Asked
<1>2. /\ L \in Nat /\ L # 0 /\ L \in Depths /\ Depths = 1 .. L
      /\ Writer!Top = states[L] /\ states[L] \in StateType /\ Writer!Handler(Writer!Top) = h
      /\ Writer!Clause(Writer!Top) = h.clauses[c]
      /\ n \in Nat \ {0} /\ DOMAIN h.clauses = 1 .. n
  BY <1>1, TopIs
<1>3. /\ c \in 1 .. n /\ h.clauses[c].end = offset /\ Writer!SetPart(-1) /\ Writer!SetTop(s)
      /\ UNCHANGED <<body, offset, queue, nestName, written, bindings, phase>>
  BY <1>2 DEF Writer!CatchEnd, Writer!CatchEnds, Writer!InClauses
<1>4. states' = [states EXCEPT ![L] = s]
  BY <1>3 DEF Writer!SetTop
<1>5. s \in StateType /\ s.clause = c + 1 /\ s.handler = states[L].handler /\ s.inBlock = FALSE
  <2>1. states[L] \in StateType /\ c + 1 \in Nat
    BY <1>2, <1>3
  <2> QED BY <2>1, StateMoves
<1>7. offset = IF c + 1 <= n THEN PartStart(h, c + 1) ELSE LastEnd(h)
  <2>1. Legit(h) BY <1>1, <1>2, StackFacts DEF StackInv
  <2> HIDE DEF h, n, c
  <2>2. c \in PartsOf(h) /\ c \in Nat /\ c # 0 BY <1>3, <1>2 DEF PartsOf, n
  <2>3. c < n => PartStart(h, c + 1) = PartEnd(h, c) BY <2>1, <2>2, PartsFollow DEF n
  <2>4. PartEnd(h, n) = LastEnd(h) BY <2>1, PartsFollow DEF n
  <2>5. PartEnd(h, c) = offset BY <2>2, <1>3 DEF PartEnd
  <2> QED BY <2>2, <2>3, <2>4, <2>5, <1>3, <1>2
<1>8. /\ blocks' \in Seq(BlockType) /\ Len(blocks') = L
      /\ \A k \in 1 .. L : k # L => blocks'[k] = blocks[k]
      /\ blocks'[L] = [nest |-> L - 1, part |-> -1]
  BY <1>1, <1>3, PartSet
<1>9. StackInv' /\ \A g : OnStack(g)' <=> OnStack(g)
  <2>2. h = Of(L) /\ n = Len(Of(L).clauses) OBVIOUS
  <2> HIDE DEF s, h, c, n
  <2>3. c + 1 \in 0 .. n + 1 /\ c + 1 # 0 BY <1>2, <1>3
  <2>4. ~(s.clause = 0 \/ s.inBlock) BY <1>5, <2>3
  <2> HIDE DEF L
  <2>1. L = Len(states) BY DEF L
  <2> QED BY <1>1, <1>2, <1>3, <1>4, <1>5, <1>7, <1>8, <2>1, <2>2, <2>3, <2>4, TopMoves
<1>10. Phases'
  BY <1>1, <1>3 DEF WriterInv, Phases
<1> QED BY <1>3, <1>9, <1>10, WrittenStays, BoundStays DEF WriterInv

\* What is below the top is inside of its parts where the top is.
LEMMA OthersInside ==
  ASSUME StackInv, NEW L, L = Len(states), states # <<>>, offset < LastEnd(Of(L))
  PROVE  \A k \in 1 .. L : k # L => InPart(k) /\ Opening(k) <= offset /\ offset < Closing(k)
<1> SUFFICES ASSUME NEW k \in 1 .. L, k # L
             PROVE  InPart(k) /\ Opening(k) <= offset /\ offset < Closing(k)
  OBVIOUS
<1>1. L \in Nat /\ Depths = 1 .. L /\ L \in Depths /\ k < L
  BY TopIs
<1>2. InPart(k) /\ LastEnd(Of(L)) <= Closing(k)
  BY <1>1 DEF StackInv, Nested
<1>3. Opening(k) <= offset
  BY <1>1, <1>2 DEF StackInv, Reached
<1>4. offset \in Int /\ LastEnd(Of(L)) \in Nat /\ Closing(k) \in Nat
  BY <1>1, <1>2, StackFacts DEF StackInv, WriterTypes
<1> QED BY <1>2, <1>3, <1>4

\* Nothing is left that starts before the next code.
LEMMA NoneStarts ==
  ASSUME StackInv, ~Writer!StartsHere
  PROVE  \A g \in 1 .. Len(Handlers) : queue <= g => offset < Handlers[g].start
<1> SUFFICES ASSUME NEW g \in 1 .. Len(Handlers), queue <= g
             PROVE  offset < Handlers[g].start
  OBVIOUS
<1>1. body \in Bodies /\ queue \in 1 .. Len(Handlers) + 1 /\ offset \in Int
  BY DEF StackInv, WriterTypes
<1>2. Len(Handlers) \in Nat /\ Handlers[g].start \in Nat /\ queue \in 1 .. Len(Handlers)
      /\ Handlers[queue].start \in Nat
  BY <1>1, HandlersNest, PartsFollow
<1>3. offset <= Handlers[queue].start
  BY <1>2 DEF StackInv, Started
<1>4. Handlers[queue].start # offset
  BY <1>1, <1>2 DEF Writer!StartsHere, Handlers, Writer!handlers
<1>5. Handlers[queue].start <= Handlers[g].start
  <2>1. CASE queue = g BY <2>1, <1>2
  <2>2. CASE queue # g
    <3>1. queue < g BY <2>2, <1>1, <1>2
    <3> QED BY <3>1, <1>1, <1>2, HandlersNest
  <2> QED BY <2>1, <2>2
<1> QED BY <1>1, <1>2, <1>3, <1>4, <1>5

\* At the start of a clause its handler is in a block again.
LEMMA CatchStartKeeps ==
  ASSUME WriterInv, Writer!CatchStart
  PROVE  WriterInv'
<1> DEFINE L == Len(states)
           c == states[L].clause
           s == [states[L] EXCEPT !.inBlock = TRUE]
           h == Of(L)
           n == Len(h.clauses)
<1>1. StackInv /\ states # <<>> /\ phase = "update" /\ ~Writer!StartsHere
  BY DEF WriterInv, Writer!CatchStart, Writer!CatchStarts, Writer!Asked
<1>2. /\ L \in Nat /\ L # 0 /\ L \in Depths /\ Depths = 1 .. L
      /\ Writer!Top = states[L] /\ states[L] \in StateType /\ Writer!Handler(Writer!Top) = h
      /\ Writer!Clause(Writer!Top) = h.clauses[c]
      /\ n \in Nat \ {0} /\ DOMAIN h.clauses = 1 .. n
  BY <1>1, TopIs
<1>3. /\ c \in 1 .. n /\ h.clauses[c].start = offset /\ Writer!SetTop(s)
      /\ blocks' = [b \in DOMAIN blocks |->
                      IF blocks[b].nest = nestName THEN [blocks[b] EXCEPT !.part = c] ELSE blocks[b]]
      /\ phase' = "emit"
      /\ UNCHANGED <<body, offset, queue, nestName, written, bindings>>
  BY <1>2 DEF Writer!CatchStart, Writer!CatchStarts, Writer!InClauses
<1>4. states' = [states EXCEPT ![L] = s]
  BY <1>3 DEF Writer!SetTop
<1>5. s \in StateType /\ s.clause = c /\ s.handler = states[L].handler /\ s.inBlock = TRUE
  BY <1>2, StateMoves
<1>6. Legit(h) /\ c \in PartsOf(h)
  BY <1>1, <1>2, <1>3, StackFacts DEF StackInv, PartsOf
<1>7. /\ PartStart(h, c) = offset /\ offset < PartEnd(h, c) /\ PartEnd(h, c) <= LastEnd(h)
      /\ LastEnd(h) \in Nat /\ offset \in Int /\ PartEnd(h, c) \in Nat
  <2>1. Opening(L) = PartStart(h, c) /\ Closing(L) = PartEnd(h, c) BY DEF Opening, Closing
  <2>2. c # 0 BY <1>3
  <2>3. PartStart(h, c) = offset BY <2>2, <1>3 DEF PartStart
  <2>4. offset \in Int BY <1>1 DEF StackInv, WriterTypes
  <2> QED BY <1>1, <1>2, <1>6, <2>1, <2>3, <2>4, StackFacts DEF StackInv
<1>8. /\ blocks' \in Seq(BlockType) /\ Len(blocks') = L
      /\ \A k \in 1 .. L : k # L => blocks'[k] = blocks[k]
      /\ blocks'[L] = [nest |-> L - 1, part |-> c]
  <2>1. /\ blocks \in Seq(BlockType) /\ Len(blocks) = L /\ DOMAIN blocks = 1 .. L /\ nestName = L - 1
        /\ \A k \in 1 .. L : blocks[k] = [nest |-> k - 1, part |-> IF InPart(k) THEN states[k].clause ELSE -1]
    BY <1>1, <1>2 DEF StackInv, BlocksOfStates
  <2>2. \A k \in 1 .. L : blocks[k].nest = k - 1 BY <2>1
  <2>3. \A k \in 1 .. L : k # L => blocks'[k] = blocks[k]
    BY <2>1, <2>2, <1>2, <1>3
  <2>4. blocks'[L] = [blocks[L] EXCEPT !.part = c]
    BY <2>1, <2>2, <1>2, <1>3
  <2>5. [blocks[L] EXCEPT !.part = c] = [nest |-> L - 1, part |-> c]
    BY <2>1, <1>2
  <2>6. [nest |-> L - 1, part |-> c] \in BlockType BY <1>2, <1>3 DEF BlockType
  <2> HIDE DEF L, c, BlockType
  <2>7. DOMAIN blocks' = 1 .. L /\ \A k \in 1 .. L : blocks'[k] \in BlockType
    <3>1. DOMAIN blocks' = 1 .. L BY <2>1, <1>3
    <3>2. \A k \in 1 .. L : blocks[k] \in BlockType BY <2>1
    <3>3. blocks'[L] \in BlockType BY <2>4, <2>5, <2>6
    <3> QED BY <3>1, <3>2, <3>3, <2>3
  <2>8. blocks' \in Seq(BlockType) /\ Len(blocks') = L
    <3>1. blocks' = [b \in 1 .. L |-> blocks'[b]] BY <2>1, <1>3
    <3> QED BY <3>1, <2>7, <1>2
  <2> QED BY <2>3, <2>4, <2>5, <2>8
<1>9. /\ StackInv' /\ (\A g : OnStack(g)' <=> OnStack(g)) /\ Len(states') = L /\ states'[L] = s
      /\ (\A k \in 1 .. L : k # L => states'[k] = states[k]) /\ \A k \in 1 .. L : Of(k)' = Of(k)
  <2>2. h = Of(L) /\ n = Len(Of(L).clauses) OBVIOUS
  <2> HIDE DEF s, h, c, n
  <2>3. c \in 0 .. n + 1 /\ c # 0 BY <1>2, <1>3
  <2>4. s.clause = 0 \/ s.inBlock BY <1>5
  <2>5. offset <= PartEnd(h, c) /\ PartStart(h, c) <= offset BY <1>7
  <2> HIDE DEF L
  <2>1. L = Len(states) BY DEF L
  <2> QED BY <1>1, <1>2, <1>3, <1>4, <1>5, <1>8, <2>1, <2>2, <2>3, <2>4, <2>5, TopMoves
<1>10. Inside(offset)'
  <2>1. \A k \in 1 .. L : k # L => InPart(k) /\ Opening(k) <= offset /\ offset < Closing(k)
    BY <1>1, <1>7, OthersInside
  <2>2. \A k \in 1 .. L : k # L => (InPart(k)' <=> InPart(k)) /\ Opening(k)' = Opening(k) /\ Closing(k)' = Closing(k)
    BY <1>3, <1>9, StateStays
  <2>0. PICK m \in Nat : m = L
    BY <1>2
  <2>3. InPart(m)' /\ Opening(m)' = PartStart(h, c) /\ Closing(m)' = PartEnd(h, c)
    <3>1. states'[m] = s /\ Of(m)' = h BY <2>0, <1>2, <1>9
    <3> HIDE DEF s, h, c
    <3> QED BY <3>1, <1>5 DEF InPart, Opening, Closing
  <2>4. Depths' = 1 .. L BY <1>9 DEF Depths
  <2> HIDE DEF L, h, c
  <2>5. \A k \in 1 .. L : InPart(k)' /\ Opening(k)' <= offset /\ offset < Closing(k)'
    <3> SUFFICES ASSUME NEW k \in 1 .. L
                 PROVE  InPart(k)' /\ Opening(k)' <= offset /\ offset < Closing(k)'
      OBVIOUS
    <3>1. CASE k = L
      <4>1. k = m BY <3>1, <2>0
      <4> QED BY <4>1, <2>3, <1>7
    <3>2. CASE k # L BY <3>2, <2>1, <2>2
    <3> QED BY <3>1, <3>2
  <2> QED BY <2>4, <2>5, <1>3 DEF Inside
<1>11. Phases'
  <2>1. offset <= BodyLength BY <1>1 DEF WriterInv, Phases
  <2>2. \A g \in 1 .. Len(Handlers)' : queue' <= g => offset' < Handlers'[g].start
    BY <1>1, <1>3, NoneStarts, BodyStays
  <2> QED BY <1>3, <1>10, <2>1, <2>2 DEF Phases
<1> QED BY <1>3, <1>9, <1>11, WrittenStays, BoundStays DEF WriterInv

\* When no handler starts or ends at an offset, the stack holds those around it.
LEMMA SettledKeeps ==
  ASSUME WriterInv, Writer!Settled
  PROVE  WriterInv'
<1> DEFINE L == Len(states)
           c == states[L].clause
           h == Of(L)
           n == Len(h.clauses)
<1>1. /\ StackInv /\ phase = "update" /\ ~Writer!StartsHere /\ phase' = "emit"
      /\ UNCHANGED <<body, offset, queue, states, nestName, blocks, written, bindings>>
  BY DEF WriterInv, Writer!Settled
<1>2. ASSUME states # <<>>
      PROVE  InPart(L) /\ Opening(L) <= offset /\ offset < Closing(L)
  <2>1. /\ L \in Nat /\ L # 0 /\ L \in Depths /\ Depths = 1 .. L
        /\ Writer!Top = states[L] /\ states[L] \in StateType /\ Writer!Handler(Writer!Top) = h
        /\ Writer!Clause(Writer!Top) = h.clauses[c]
        /\ n \in Nat \ {0} /\ DOMAIN h.clauses = 1 .. n
    BY <1>1, <1>2, TopIs
  <2>2. \/ c = 0 /\ h.end # offset
        \/ c \in 1 .. n /\ ~states[L].inBlock /\ h.clauses[c].start # offset
        \/ c \in 1 .. n /\ states[L].inBlock /\ h.clauses[c].end # offset
    BY <2>1, <1>2 DEF Writer!Settled, Writer!InClauses, Writer!CatchEnds
  <2>3. IF InPart(L) THEN Opening(L) <= offset /\ offset <= Closing(L)
        ELSE offset = IF c <= n THEN Opening(L) ELSE LastEnd(h)
    BY <1>1, <2>1 DEF StackInv, Reached
  <2>4. InPart(L)
    <3>1. ASSUME c \in 1 .. n, ~states[L].inBlock, h.clauses[c].start # offset PROVE FALSE
      <4>1. ~InPart(L) /\ c <= n BY <3>1, <2>1 DEF InPart
      <4>2. offset = Opening(L) BY <4>1, <2>3
      <4>3. Opening(L) = h.clauses[c].start BY <3>1 DEF Opening, PartStart
      <4> QED BY <4>2, <4>3, <3>1
    <3> QED BY <2>2, <3>1 DEF InPart
  <2>5. Closing(L) # offset
    <3>1. CASE c = 0
      <4>1. Closing(L) = h.end BY <3>1 DEF Closing, PartEnd
      <4> QED BY <4>1, <3>1, <2>1, <2>2
    <3>2. CASE c # 0
      <4>1. Closing(L) = h.clauses[c].end BY <3>2 DEF Closing, PartEnd
      <4>2. states[L].inBlock BY <3>2, <2>4 DEF InPart
      <4> QED BY <4>1, <4>2, <3>2, <2>2
    <3> QED BY <3>1, <3>2
  <2>6. Closing(L) \in Nat /\ offset \in Int
    BY <1>1, <2>1, <2>4, StackFacts DEF StackInv, WriterTypes
  <2> QED BY <2>3, <2>4, <2>5, <2>6
<1>3. Inside(offset)
  <2>1. CASE states = <<>>
    <3>1. Depths = {} BY <2>1 DEF Depths
    <3> QED BY <3>1 DEF Inside
  <2>2. CASE states # <<>>
    <3>1. L \in Depths /\ Depths = 1 .. L /\ InPart(L) /\ Opening(L) <= offset /\ offset < Closing(L)
      BY <1>1, <1>2, <2>2, TopIs
    <3>2. Closing(L) <= LastEnd(Of(L)) /\ Closing(L) \in Nat /\ LastEnd(Of(L)) \in Nat /\ offset \in Int
      BY <3>1, <1>1, StackFacts DEF StackInv, WriterTypes
    <3>3. offset < LastEnd(Of(L))
      <4> HIDE DEF L
      <4> QED BY <3>1, <3>2
    <3>4. \A k \in 1 .. L : k # L => InPart(k) /\ Opening(k) <= offset /\ offset < Closing(k)
      BY <1>1, <2>2, <3>3, OthersInside
    <3> HIDE DEF L
    <3> QED BY <3>1, <3>4 DEF Inside
  <2> QED BY <2>1, <2>2
<1>4. \A k : /\ (InPart(k)' <=> InPart(k)) /\ Opening(k)' = Opening(k) /\ Closing(k)' = Closing(k)
             /\ Of(k)' = Of(k) /\ LastEnd(Of(k))' = LastEnd(Of(k))
  BY <1>1 DEF InPart, Opening, Closing, Of, Handlers, LastEnd
<1>5. Depths' = Depths /\ Handlers' = Handlers /\ \A g : OnStack(g)' <=> OnStack(g)
  BY <1>1 DEF Depths, Handlers, OnStack
<1>6. StackInv'
  <2>1. WriterTypes' BY <1>1, <1>4, <1>5 DEF StackInv, WriterTypes, StatesTyped, StateType
  <2>2. BlocksOfStates' BY <1>1, <1>4, <1>5 DEF StackInv, BlocksOfStates, BlockType
  <2>3. Nested' BY <1>1, <1>4, <1>5 DEF StackInv, Nested
  <2>4. Reached' BY <1>1, <1>4, <1>5 DEF StackInv, Reached
  <2>5. Started'
    <3>1. \A g : LastEnd(Handlers[g])' = LastEnd(Handlers[g]) BY <1>5 DEF LastEnd
    <3> QED BY <3>1, <1>1, <1>4, <1>5 DEF StackInv, Started
  <2> QED BY <2>1, <2>2, <2>3, <2>4, <2>5 DEF StackInv
<1>7. Phases'
  <2>1. offset <= BodyLength BY <1>1 DEF WriterInv, Phases
  <2>2. Inside(offset)' BY <1>1, <1>3, <1>4, <1>5 DEF Inside
  <2>3. \A g \in 1 .. Len(Handlers)' : queue' <= g => offset' < Handlers'[g].start
    BY <1>1, <1>5, NoneStarts
  <2> QED BY <1>1, <2>1, <2>2, <2>3 DEF Phases
<1> QED BY <1>1, <1>5, <1>6, <1>7, WrittenStays, BoundStays DEF WriterInv

\* At the start of a try its handler comes on top of those around it.
LEMMA TryStartKeeps ==
  ASSUME WriterInv, Writer!TryStart
  PROVE  WriterInv'
<1> DEFINE new == [handler |-> queue, clause |-> 0, inBlock |-> FALSE]
<1>1. /\ StackInv /\ phase = "update" /\ Writer!StartsHere
      /\ nestName' = Len(states)
      /\ blocks' = Append(blocks, [nest |-> Len(states), part |-> 0])
      /\ states' = Append(states, new) /\ queue' = queue + 1
      /\ UNCHANGED <<body, offset, written, bindings, phase>>
  BY DEF WriterInv, Writer!TryStart
<1>2. /\ body \in Bodies /\ offset \in 1 .. BodyLength + 1 /\ queue \in 1 .. Len(Handlers) + 1
      /\ states \in Seq(StateType) /\ blocks \in Seq(BlockType) /\ Len(blocks) = Len(states)
  BY <1>1 DEF StackInv, WriterTypes, StatesTyped, BlocksOfStates
<1>3. /\ BodyLength \in Nat /\ Len(Handlers) \in Nat
      /\ \A g \in 1 .. Len(Handlers) : Legit(Handlers[g])
      /\ \A g, h \in 1 .. Len(Handlers) : g < h =>
              /\ Handlers[g].start <= Handlers[h].start
              /\ \A p \in PartsOf(Handlers[g]) :
                   /\ Handlers[h].start # PartEnd(Handlers[g], p)
                   /\ Handlers[h].start < PartEnd(Handlers[g], p) =>
                        LastEnd(Handlers[h]) <= PartEnd(Handlers[g], p)
  BY <1>2, HandlersNest
<1>4. PICK m \in Nat : m = Len(states)
  BY <1>2
<1>5. PICK q \in 1 .. Len(Handlers) : q = queue /\ Handlers[q].start = offset
  BY <1>1, <1>2, <1>3 DEF Writer!StartsHere, Handlers, Writer!handlers
<1>6. Depths = 1 .. m
  BY <1>4 DEF Depths
<1>7. /\ states' \in Seq(StateType) /\ Len(states') = m + 1 /\ states'[m + 1] = new
      /\ \A k \in 1 .. m : states'[k] = states[k]
  <2>1. new \in StateType BY <1>2, <1>3 DEF StateType
  <2> HIDE DEF new, StateType
  <2> QED BY <2>1, <1>1, <1>2, <1>4
<1>8. /\ blocks' \in Seq(BlockType) /\ Len(blocks') = m + 1
      /\ blocks'[m + 1] = [nest |-> m, part |-> 0]
      /\ \A k \in 1 .. m : blocks'[k] = blocks[k]
  <2>1. [nest |-> m, part |-> 0] \in BlockType BY DEF BlockType
  <2> DEFINE b == [nest |-> m, part |-> 0]
  <2>2. blocks' = Append(blocks, b) BY <1>1, <1>4
  <2>3. b \in BlockType BY <2>1
  <2> HIDE DEF BlockType, b
  <2>4. /\ blocks' \in Seq(BlockType) /\ Len(blocks') = m + 1 /\ blocks'[m + 1] = b
        /\ \A k \in 1 .. m : blocks'[k] = blocks[k]
    BY <2>2, <2>3, <1>2, <1>4
  <2> QED BY <2>4 DEF b
<1>9. Depths' = 1 .. (m + 1) /\ Handlers' = Handlers
  BY <1>1, <1>7, BodyStays DEF Depths
<1>10. \A k \in 1 .. m : /\ Of(k)' = Of(k) /\ (InPart(k)' <=> InPart(k))
                         /\ Opening(k)' = Opening(k) /\ Closing(k)' = Closing(k)
  BY <1>1, <1>7, StateStays
<1>11. /\ Of(m + 1)' = Handlers[q] /\ InPart(m + 1)' /\ states'[m + 1].clause = 0
       /\ ~states'[m + 1].inBlock /\ states'[m + 1].handler = q
       /\ Opening(m + 1)' = offset /\ Closing(m + 1)' = PartEnd(Handlers[q], 0)
  <2>1. states'[m + 1].clause = 0 /\ states'[m + 1].handler = q /\ ~states'[m + 1].inBlock BY <1>7, <1>5
  <2>2. Of(m + 1)' = Handlers[q] BY <2>1, <1>9 DEF Of
  <2> QED BY <2>1, <2>2, <1>5 DEF InPart, Opening, Closing, PartStart
<1>12. \A k \in 1 .. (m + 1) : k \in 1 .. m \/ k = m + 1
  OBVIOUS
\* The handler that was the top so far is in one of its parts.
<1>13. \A k \in 1 .. m :
         /\ states[k].handler \in 1 .. Len(Handlers) /\ states[k].handler < q
         /\ Legit(Of(k)) /\ Len(Of(k).clauses) \in Nat \ {0} /\ Of(k) = Handlers[states[k].handler]
         /\ states[k].clause \in 0 .. Len(Of(k).clauses) + 1
         /\ InPart(k) => states[k].clause \in PartsOf(Of(k)) /\ Closing(k) \in Nat
  BY <1>1, <1>5, <1>6, StackFacts DEF StackInv, Of
<1>14. ASSUME NEW k \in 1 .. m PROVE InPart(k)
  <2>1. ASSUME ~InPart(k) PROVE FALSE
    <3> DEFINE h == Of(k)
               c == states[k].clause
               n == Len(h.clauses)
    <3>1. Legit(h) /\ c \in 0 .. n + 1 /\ n \in Nat \ {0} /\ c # 0
      BY <1>13, <2>1 DEF InPart
    <3>2. offset = IF c <= n THEN PartStart(h, c) ELSE LastEnd(h)
      BY <2>1, <1>1, <1>6 DEF StackInv, Reached, Opening
    <3>3. \A p \in PartsOf(h) : offset # PartEnd(h, p)
      BY <1>3, <1>5, <1>13
    <3> HIDE DEF h
    <3>4. CASE c <= n
      <4>3. c - 1 < n /\ (c - 1) + 1 = c BY <3>1, <3>4
      <4>4. c - 1 \in PartsOf(h) BY <3>1, <3>4 DEF PartsOf
      <4>1. c - 1 \in PartsOf(h) /\ c - 1 < n /\ (c - 1) + 1 = c BY <4>3, <4>4
      <4>2. PartStart(h, c) = PartEnd(h, c - 1) BY <4>1, <3>1, PartsFollow
      <4> QED BY <4>1, <4>2, <3>2, <3>3, <3>4
    <3>5. CASE ~(c <= n)
      <4>1. n \in PartsOf(h) BY <3>1 DEF PartsOf
      <4>2. PartEnd(h, n) = LastEnd(h) BY <3>1, PartsFollow
      <4> QED BY <4>1, <4>2, <3>2, <3>3, <3>5
    <3> QED BY <3>4, <3>5
  <2> QED BY <2>1
<1>15. ASSUME NEW k \in 1 .. m PROVE LastEnd(Handlers[q]) <= Closing(k)
  <2>1. offset <= Closing(k) BY <1>1, <1>6, <1>14 DEF StackInv, Reached
  <2>2. states[k].clause \in PartsOf(Of(k)) /\ Closing(k) \in Nat BY <1>13, <1>14
  <2>3. offset # Closing(k) /\ (offset < Closing(k) => LastEnd(Handlers[q]) <= Closing(k))
    BY <2>2, <1>3, <1>5, <1>13 DEF Closing
  <2> QED BY <2>1, <2>2, <2>3, <1>2
<1>16. WriterTypes'
  <2>1. queue' \in 1 .. Len(Handlers') + 1 BY <1>1, <1>2, <1>3, <1>5, <1>9
  <2>2. \A k \in Depths' :
          /\ states'[k].handler \in 1 .. (queue' - 1)
          /\ states'[k].clause \in 0 .. Len(Of(k)'.clauses) + 1
          /\ states'[k].inBlock => states'[k].clause \in 1 .. Len(Of(k)'.clauses)
    <3> SUFFICES ASSUME NEW k \in 1 .. (m + 1)
                 PROVE  /\ states'[k].handler \in 1 .. q
                        /\ states'[k].clause \in 0 .. Len(Of(k)'.clauses) + 1
                        /\ states'[k].inBlock => states'[k].clause \in 1 .. Len(Of(k)'.clauses)
      <4>1. queue' - 1 = q /\ Depths' = 1 .. (m + 1) BY <1>1, <1>5, <1>9
      <4> QED BY <4>1
    <3>1. CASE k = m + 1
      <4>1. Len(Of(m + 1)'.clauses) \in Nat BY <1>11, <1>3, PartsFollow
      <4> QED BY <4>1, <3>1, <1>11
    <3>2. CASE k \in 1 .. m
      <4>1. states[k].inBlock => states[k].clause \in 1 .. Len(Of(k).clauses)
        BY <3>2, <1>1, <1>6 DEF StackInv, WriterTypes, StatesTyped
      <4>2. states[k].handler \in 1 .. q BY <3>2, <1>13
      <4> QED BY <4>1, <4>2, <3>2, <1>7, <1>10, <1>13
    <3> QED BY <3>1, <3>2, <1>12
  <2> QED BY <2>1, <2>2, <1>1, <1>2, <1>7 DEF WriterTypes, StatesTyped, StateType
<1>17. BlocksOfStates'
  <2>1. ASSUME NEW k \in 1 .. (m + 1)
        PROVE  blocks'[k] = [nest |-> k - 1, part |-> IF InPart(k)' THEN states'[k].clause ELSE -1]
    <3>1. CASE k = m + 1 BY <3>1, <1>8, <1>11
    <3>2. CASE k \in 1 .. m
      <4>1. blocks[k] = [nest |-> k - 1, part |-> IF InPart(k) THEN states[k].clause ELSE -1]
        BY <3>2, <1>1, <1>6 DEF StackInv, BlocksOfStates
      <4> QED BY <4>1, <3>2, <1>7, <1>8, <1>10
    <3> QED BY <3>1, <3>2, <1>12
  <2>2. Len(blocks') = Len(states') /\ nestName' = Len(states') - 1
    BY <1>1, <1>4, <1>7, <1>8
  <2>3. blocks' \in Seq([nest : Nat, part : Int]) BY <1>8 DEF BlockType
  <2> QED BY <2>1, <2>2, <2>3, <1>9 DEF BlocksOfStates, BlockType
<1>18. Nested'
  <2> SUFFICES ASSUME NEW j \in 1 .. (m + 1), NEW k \in 1 .. (m + 1), j < k
               PROVE  /\ states'[j].handler < states'[k].handler
                      /\ InPart(j)' /\ LastEnd(Of(k))' <= Closing(j)'
    BY <1>9 DEF Nested
  <2>1. j \in 1 .. m OBVIOUS
  <2>2. CASE k = m + 1
    <3>1. LastEnd(Of(k))' = LastEnd(Handlers[q]) BY <2>2, <1>11 DEF LastEnd
    <3>2. states[j].handler < q BY <2>1, <1>13
    <3> QED BY <2>1, <2>2, <3>1, <3>2, <1>7, <1>10, <1>11, <1>14, <1>15
  <2>3. CASE k \in 1 .. m
    <3>1. LastEnd(Of(k))' = LastEnd(Of(k)) BY <2>3, <1>10 DEF LastEnd
    <3>2. states[j].handler < states[k].handler /\ LastEnd(Of(k)) <= Closing(j)
      BY <2>1, <2>3, <1>1, <1>6 DEF StackInv, Nested
    <3> QED BY <2>1, <2>3, <3>1, <3>2, <1>7, <1>10, <1>14
  <2> QED BY <2>2, <2>3, <1>12
<1>19. Reached'
  <2> SUFFICES ASSUME NEW k \in 1 .. (m + 1)
               PROVE  IF InPart(k)' THEN Opening(k)' <= offset /\ offset <= Closing(k)'
                      ELSE offset = IF states'[k].clause <= Len(Of(k)'.clauses) THEN Opening(k)'
                                    ELSE LastEnd(Of(k)')
    BY <1>1, <1>9 DEF Reached, LastEnd
  <2>1. CASE k = m + 1
    <3>1. PartStart(Handlers[q], 0) < PartEnd(Handlers[q], 0) /\ PartEnd(Handlers[q], 0) \in Nat
      <4>1. Legit(Handlers[q]) BY <1>3
      <4>2. Len(Handlers[q].clauses) \in Nat BY <4>1, PartsFollow
      <4>3. 0 \in PartsOf(Handlers[q]) BY <4>2 DEF PartsOf
      <4> QED BY <4>1, <4>3, PartsFollow
    <3>2. PartStart(Handlers[q], 0) = offset BY <1>5 DEF PartStart
    <3> QED BY <2>1, <3>1, <3>2, <1>2, <1>11
  <2>2. CASE k \in 1 .. m
    <3>1. InPart(k) /\ Opening(k) <= offset /\ offset <= Closing(k)
      BY <2>2, <1>1, <1>6, <1>14 DEF StackInv, Reached
    <3> QED BY <2>2, <3>1, <1>10
  <2> QED BY <2>1, <2>2, <1>12
<1>20. \A g \in 1 .. q : OnStack(g)' <=> g = q \/ OnStack(g)
  <2>1. \A k \in 1 .. (m + 1) : states'[k].handler = IF k = m + 1 THEN q ELSE states[k].handler
    BY <1>7, <1>11, <1>12
  <2>2. m + 1 \in 1 .. (m + 1) /\ \A k \in 1 .. m : k \in 1 .. (m + 1) /\ k # m + 1 OBVIOUS
  <2> QED BY <2>1, <2>2, <1>6, <1>9, <1>12 DEF OnStack
<1>21. Started'
  <2>1. \A g \in 1 .. Len(Handlers) : IF g < q + 1 THEN Handlers[g].start <= offset ELSE offset <= Handlers[g].start
    <3> SUFFICES ASSUME NEW g \in 1 .. Len(Handlers)
                 PROVE  IF g < q + 1 THEN Handlers[g].start <= offset ELSE offset <= Handlers[g].start
      OBVIOUS
    <3>1. IF g < q THEN Handlers[g].start <= offset ELSE offset <= Handlers[g].start
      BY <1>1, <1>5 DEF StackInv, Started
    <3>2. CASE g = q BY <3>2, <1>2, <1>5
    <3>3. CASE g # q BY <3>1, <3>3, <1>3, <1>5
    <3> QED BY <3>2, <3>3
  <2>2. ASSUME NEW g \in 1 .. q, ~(g = q \/ OnStack(g))
        PROVE  /\ LastEnd(Handlers[g]) <= offset
               /\ \A k \in 1 .. (m + 1) : g < states'[k].handler => LastEnd(Handlers[g]) <= Of(k)'.start
    <3>1. g \in 1 .. (queue - 1) BY <2>2, <1>5
    <3>2. /\ LastEnd(Handlers[g]) <= offset
          /\ \A k \in 1 .. m : g < states[k].handler => LastEnd(Handlers[g]) <= Of(k).start
      BY <3>1, <2>2, <1>1, <1>6 DEF StackInv, Started
    <3>3. ASSUME NEW k \in 1 .. (m + 1), g < states'[k].handler
          PROVE LastEnd(Handlers[g]) <= Of(k)'.start
      <4>1. CASE k = m + 1 BY <4>1, <3>2, <1>5, <1>11
      <4>2. CASE k \in 1 .. m BY <4>2, <3>2, <3>3, <1>7, <1>10
      <4> QED BY <4>1, <4>2, <1>12
    <3> QED BY <3>2, <3>3
  <2>3. \A g : LastEnd(Handlers[g])' = LastEnd(Handlers[g]) BY <1>9 DEF LastEnd
  <2>4. (queue' - 1) = q /\ queue' = q + 1 BY <1>1, <1>5
  <2> QED BY <2>1, <2>2, <2>3, <2>4, <1>1, <1>9, <1>20 DEF Started
<1>22. Bound'
  <2>1. \A g : BindingOf(g)' = BindingOf(g)
    BY <1>1, BodyStays DEF BindingOf
  <2>2. \A g \in 1 .. (queue' - 1) : ~OnStack(g)' => g \in 1 .. (queue - 1) /\ ~OnStack(g)
    BY <1>1, <1>5, <1>20
  <2> QED BY <2>1, <2>2, <1>1, <1>9, BodyStays DEF WriterInv, Bound
<1>23. Phases'
  BY <1>1 DEF WriterInv, Phases
<1> QED BY <1>1, <1>16, <1>17, <1>18, <1>19, <1>21, <1>22, <1>23, WrittenStays DEF WriterInv, StackInv

\* The cardinality that the controller's module counts with is that of sets.
LEMMA SameCardinality ==
  ASSUME NEW S
  PROVE  Writer!Cardinality(S) = Cardinality(S)
BY DEF Writer!Cardinality, Cardinality

\* The depth of a handler counts those around it in the sense of FiniteSets too.
LEMMA DepthIs ==
  ASSUME NEW h, NEW o
  PROVE  Writer!Depth(h, o) = Cardinality({g \in Writer!Around(o) : g < h})
BY SameCardinality DEF Writer!Depth

\* The handlers of the innermost states are as many as the states.
LEMMA StackCount ==
  ASSUME StackInv, NEW k \in 0 .. Len(states)
  PROVE  /\ IsFiniteSet({states[j].handler : j \in 1 .. k})
         /\ Cardinality({states[j].handler : j \in 1 .. k}) = k
<1> DEFINE S == {states[j].handler : j \in 1 .. k}
           f == [j \in 1 .. k |-> states[j].handler]
<1>1. Len(states) \in Nat /\ k \in Nat /\ 1 .. k \subseteq Depths
  BY StackFacts DEF StackInv, Depths
<1>2. \A i, j \in 1 .. k : i < j => states[i].handler < states[j].handler
  BY <1>1 DEF StackInv, Nested
<1>3. \A j \in 1 .. k : states[j].handler \in Nat
  BY <1>1, StackFacts DEF StackInv, StateType
<1>4. ASSUME NEW i \in 1 .. k, NEW j \in 1 .. k, states[i].handler = states[j].handler
      PROVE  i = j
  <2>1. ~(i < j) /\ ~(j < i) BY <1>2, <1>3, <1>4
  <2> QED BY <2>1
<1>5. f \in Injection(1 .. k, S) /\ f \in Surjection(1 .. k, S)
  <2>1. f \in [1 .. k -> S] OBVIOUS
  <2>2. \A i, j \in 1 .. k : f[i] = f[j] => i = j BY <1>4
  <2>3. \A y \in S : \E j \in 1 .. k : f[j] = y OBVIOUS
  <2> HIDE DEF f, S
  <2> QED BY <2>1, <2>2, <2>3, Fun_IsInj, Fun_IsSurj
<1>6. IsFiniteSet(1 .. k) /\ Cardinality(1 .. k) = k
  BY <1>1, FS_Interval
<1> HIDE DEF S, f
<1>7. IsFiniteSet(S) /\ Cardinality(S) = k
  BY <1>5, <1>6, FS_Surjection
<1> QED BY <1>7 DEF S

\* Where the stack is inside of its parts, each of its handlers contains the
\* offset, at its place in the stack.
LEMMA InsideContains ==
  ASSUME StackInv, NEW o \in Int, Inside(o), NEW k \in Depths
  PROVE  /\ states[k].handler \in Writer!Around(o)
         /\ Writer!PartOf(Of(k), o) = states[k].clause
<1>1. InPart(k) /\ PartStart(Of(k), states[k].clause) <= o /\ o < PartEnd(Of(k), states[k].clause)
  BY DEF Inside, Opening, Closing
<1>2. states[k].clause \in PartsOf(Of(k)) /\ Legit(Of(k)) /\ states[k].handler \in 1 .. Len(Handlers)
  BY <1>1, StackFacts DEF StackInv
<1>3. Writer!ContainsOffset(Of(k), o) /\ Writer!PartOf(Of(k), o) = states[k].clause
  BY <1>1, <1>2, PartsCover
<1>4. DOMAIN Handlers = 1 .. Len(Handlers)
  BY HandlersNest DEF StackInv, WriterTypes
<1> QED BY <1>2, <1>3, <1>4 DEF Writer!Around, Of, Handlers, Writer!handlers

\* An instruction is written in the blocks of the stack.
LEMMA EmitKeeps ==
  ASSUME WriterInv, Writer!EmitCode
  PROVE  WriterInv'
<1> DEFINE w == [blocks |-> blocks, nest |-> nestName]
<1>1. /\ StackInv /\ Phases /\ Written /\ phase = "emit"
      /\ written' = Append(written, w) /\ offset' = offset + 1
      /\ phase' = IF offset = BodyLength THEN "finish" ELSE "update"
      /\ UNCHANGED <<body, queue, states, nestName, blocks, bindings>>
  BY DEF WriterInv, Writer!EmitCode
<1>2. /\ body \in Bodies /\ offset \in 1 .. BodyLength + 1 /\ queue \in 1 .. Len(Handlers) + 1
      /\ states \in Seq(StateType) /\ blocks \in Seq(BlockType) /\ Len(blocks) = Len(states)
      /\ nestName = Len(states) - 1
  BY <1>1 DEF StackInv, WriterTypes, StatesTyped, BlocksOfStates
<1>3. /\ BodyLength \in Nat /\ Len(Handlers) \in Nat /\ DOMAIN Handlers = 1 .. Len(Handlers)
      /\ \A g \in 1 .. Len(Handlers) :
           Legit(Handlers[g]) /\ Handlers[g].start \in Nat /\ LastEnd(Handlers[g]) \in Nat
  BY <1>2, HandlersNest, PartsFollow
<1>4. /\ offset <= BodyLength /\ Inside(offset)
      /\ \A g \in 1 .. Len(Handlers) : queue <= g => offset < Handlers[g].start
  BY <1>1 DEF Phases
<1>5. PICK m \in Nat : m = Len(states)
  BY <1>2
<1>6. PICK o \in Int : o = offset
  BY <1>2
<1>7. Depths = 1 .. m
  BY <1>5 DEF Depths
<1>8. Writer!Around(o) = {states[k].handler : k \in 1 .. m}
  <2>1. ASSUME NEW g \in Writer!Around(o) PROVE \E k \in 1 .. m : g = states[k].handler
    <3>1. g \in 1 .. Len(Handlers) /\ Writer!ContainsOffset(Handlers[g], o)
      BY <1>3 DEF Writer!Around, Handlers, Writer!handlers
    <3>2. Handlers[g].start <= o /\ o < LastEnd(Handlers[g])
      BY <3>1, <1>3, PartsCover
    <3>3. g \in 1 .. (queue - 1)
      <4>1. queue \in Int /\ g \in Int /\ 1 <= g /\ Handlers[g].start \in Nat BY <3>1, <1>2, <1>3
      <4>2. queue <= g => o < Handlers[g].start BY <3>1, <1>4, <1>6
      <4> QED BY <3>2, <4>1, <4>2
    <3>4. OnStack(g)
      BY <3>1, <3>2, <3>3, <1>1, <1>3, <1>6 DEF StackInv, Started
    <3> QED BY <3>4, <1>7 DEF OnStack
  <2>2. \A k \in 1 .. m : states[k].handler \in Writer!Around(o)
    BY <1>1, <1>4, <1>6, <1>7, InsideContains
  <2> QED BY <2>1, <2>2
<1>9. \A k \in 0 .. m : Cardinality({states[j].handler : j \in 1 .. k}) = k
  BY <1>1, <1>5, StackCount
<1>10. Cardinality(Writer!Around(o)) = m
  BY <1>8, <1>9
<1>11. ASSUME NEW k \in 1 .. m
       PROVE  Writer!Depth(states[k].handler, o) = k - 1
  <2>1. {g \in Writer!Around(o) : g < states[k].handler} = {states[j].handler : j \in 1 .. (k - 1)}
    <3>1. \A i, j \in 1 .. m : i < j => states[i].handler < states[j].handler
      BY <1>1, <1>7 DEF StackInv, Nested
    <3>2. \A i \in 1 .. m : states[i].handler \in Nat
      BY <1>1, <1>7, StackFacts DEF StackInv, StateType
    <3>3. \A j \in 1 .. m : states[j].handler < states[k].handler => j \in 1 .. (k - 1)
      <4> SUFFICES ASSUME NEW j \in 1 .. m, states[j].handler < states[k].handler PROVE j < k
        OBVIOUS
      <4>1. ~(k < j) /\ k # j BY <3>1, <3>2
      <4> QED BY <4>1
    <3>4. \A j \in 1 .. (k - 1) : j \in 1 .. m /\ states[j].handler < states[k].handler
      BY <3>1
    <3> QED BY <3>3, <3>4, <1>8
  <2>2. k - 1 \in 0 .. m OBVIOUS
  <2>3. Cardinality({states[j].handler : j \in 1 .. (k - 1)}) = k - 1 BY <2>2, <1>9
  <2> DEFINE A == {g \in Writer!Around(o) : g < states[k].handler}
             B == {states[j].handler : j \in 1 .. (k - 1)}
  <2>4. A = B BY <2>1
  <2>5. Cardinality(B) = k - 1 BY <2>3
  <2>6. Writer!Depth(states[k].handler, o) = Cardinality(A) BY DepthIs
  <2> HIDE DEF A, B
  <2> QED BY <2>4, <2>5, <2>6
<1>12. /\ written' \in Seq([blocks : Seq(BlockType), nest : Int]) /\ Len(written') = o
       /\ written'[o] = w /\ \A i \in 1 .. (o - 1) : written'[i] = written[i]
  <2>1. w \in [blocks : Seq(BlockType), nest : Int] BY <1>2, <1>5
  <2>2. written \in Seq([blocks : Seq(BlockType), nest : Int]) /\ Len(written) = o - 1
    BY <1>1, <1>6 DEF Written
  <2> DEFINE T == [blocks : Seq(BlockType), nest : Int]
  <2>3. w \in T /\ written \in Seq(T) BY <2>1, <2>2
  <2> HIDE DEF w, T
  <2>4. written' \in Seq(T) /\ Len(written') = o /\ written'[o] = w /\ \A i \in 1 .. (o - 1) : written'[i] = written[i]
    BY <2>2, <2>3, <1>1
  <2> QED BY <2>4 DEF T
<1>13. CorrectAt(o)'
  <2>1. (Writer!Around(o))' = Writer!Around(o) /\ Handlers' = Handlers
        /\ (\A h : (Writer!Depth(h, o))' = Writer!Depth(h, o))
        /\ (\A h : (Writer!PartOf(h, o))' = Writer!PartOf(h, o))
    BY <1>1, BodyStays
  <2>2. written'[o].blocks = blocks /\ written'[o].nest = m - 1
    BY <1>2, <1>5, <1>12
  <2>3. ASSUME NEW h \in Writer!Around(o)
        PROVE  blocks[Writer!Depth(h, o) + 1] = [nest |-> Writer!Depth(h, o), part |-> Writer!PartOf(Handlers[h], o)]
    <3>1. PICK k \in 1 .. m : h = states[k].handler BY <1>8
    <3>2. Writer!Depth(h, o) = k - 1 BY <3>1, <1>11
    <3>3. InPart(k) /\ Writer!PartOf(Handlers[h], o) = states[k].clause
      BY <3>1, <1>1, <1>4, <1>6, <1>7, InsideContains DEF Of, Inside
    <3>4. blocks[k] = [nest |-> k - 1, part |-> IF InPart(k) THEN states[k].clause ELSE -1]
      BY <1>1, <1>7 DEF StackInv, BlocksOfStates
    <3>5. (k - 1) + 1 = k OBVIOUS
    <3> QED BY <3>2, <3>3, <3>4, <3>5
  <2> QED BY <2>1, <2>2, <2>3, <1>2, <1>5, <1>10 DEF CorrectAt
<1>14. Written'
  <2>1. ASSUME NEW i \in 1 .. (o - 1) PROVE CorrectAt(i)'
    <3>1. CorrectAt(i) BY <1>1, <1>6 DEF Written
    <3>2. written'[i] = written[i] BY <1>12
    <3> QED BY <3>1, <3>2, <1>1, BodyStays DEF CorrectAt
  <2>2. offset' - 1 = o /\ \A i \in 1 .. o : i \in 1 .. (o - 1) \/ i = o BY <1>1, <1>6
  <2>3. \A i \in 1 .. (offset' - 1) : CorrectAt(i)'
    BY <2>1, <2>2, <1>13
  <2>4. written' \in Seq([blocks : Seq([nest : Nat, part : Int]), nest : Int])
    BY <1>12 DEF BlockType
  <2>5. Len(written') = offset' - 1 BY <2>2, <1>12
  <2> QED BY <2>3, <2>4, <2>5 DEF Written, BlockType
<1>15. \A k : /\ (InPart(k)' <=> InPart(k)) /\ Opening(k)' = Opening(k) /\ Closing(k)' = Closing(k)
               /\ Of(k)' = Of(k) /\ LastEnd(Of(k))' = LastEnd(Of(k))
  BY <1>1 DEF InPart, Opening, Closing, Of, Handlers, LastEnd
<1>16. Depths' = Depths /\ Handlers' = Handlers /\ \A g : OnStack(g)' <=> OnStack(g)
  BY <1>1 DEF Depths, Handlers, OnStack
<1>17. \A k \in Depths : /\ InPart(k) /\ Opening(k) <= offset /\ offset < Closing(k)
                          /\ Opening(k) \in Nat /\ Closing(k) \in Nat
  BY <1>1, <1>4, StackFacts DEF Inside, StackInv
<1>18. StackInv'
  <2>1. WriterTypes'
    <3>1. offset' \in 1 .. BodyLength + 1 BY <1>1, <1>2, <1>3, <1>4
    <3> QED BY <3>1, <1>1, <1>15, <1>16 DEF StackInv, WriterTypes, StatesTyped, StateType
  <2>2. BlocksOfStates' BY <1>1, <1>15, <1>16 DEF StackInv, BlocksOfStates, BlockType
  <2>3. Nested' BY <1>1, <1>15, <1>16 DEF StackInv, Nested
  <2>4. Reached'
    <3> SUFFICES ASSUME NEW k \in Depths PROVE InPart(k) /\ Opening(k) <= o + 1 /\ o + 1 <= Closing(k)
      BY <1>1, <1>6, <1>15, <1>16 DEF Reached
    <3> QED BY <1>6, <1>17
  <2>5. Started'
    <3>1. \A g : LastEnd(Handlers[g])' = LastEnd(Handlers[g]) BY <1>16 DEF LastEnd
    <3>2. ASSUME NEW g \in 1 .. Len(Handlers)
          PROVE IF g < queue THEN Handlers[g].start <= o + 1 ELSE o + 1 <= Handlers[g].start
      <4>1. IF g < queue THEN Handlers[g].start <= o ELSE o < Handlers[g].start
        <5>1. IF g < queue THEN Handlers[g].start <= offset ELSE offset <= Handlers[g].start
          BY <1>1 DEF StackInv, Started
        <5>2. queue <= g => offset < Handlers[g].start BY <1>4
        <5>3. queue \in Int /\ g \in Int BY <1>2
        <5> QED BY <5>1, <5>2, <5>3, <1>6
      <4>2. Handlers[g].start \in Nat BY <1>3
      <4> QED BY <4>1, <4>2, <1>6
    <3>3. ASSUME NEW g \in 1 .. (queue - 1), ~OnStack(g)
          PROVE  /\ LastEnd(Handlers[g]) <= o + 1
                 /\ \A k \in Depths : g < states[k].handler => LastEnd(Handlers[g]) <= Of(k).start
      <4>1. /\ LastEnd(Handlers[g]) <= o
            /\ \A k \in Depths : g < states[k].handler => LastEnd(Handlers[g]) <= Of(k).start
        BY <3>3, <1>1, <1>6 DEF StackInv, Started
      <4>2. LastEnd(Handlers[g]) \in Nat BY <1>2, <1>3
      <4> QED BY <4>1, <4>2
    <3> QED BY <3>1, <3>2, <3>3, <1>1, <1>6, <1>15, <1>16 DEF Started
  <2> QED BY <2>1, <2>2, <2>3, <2>4, <2>5 DEF StackInv
<1>19. Phases'
  <2>1. CASE offset = BodyLength
    <3>1. Inside(BodyLength)' BY <2>1, <1>4, <1>15, <1>16 DEF Inside
    <3> QED BY <2>1, <3>1, <1>1 DEF Phases
  <2>2. CASE offset # BodyLength
    <3>1. offset' <= BodyLength BY <2>2, <1>1, <1>2, <1>3, <1>4
    <3> QED BY <2>2, <3>1, <1>1 DEF Phases
  <2> QED BY <2>1, <2>2
<1> QED BY <1>1, <1>14, <1>16, <1>18, <1>19, BoundStays DEF WriterInv

\* A handler that lies behind is taken from the stack.
LEMMA TopLeaves ==
  ASSUME StackInv, states # <<>>, NEW L, L = Len(states), LastEnd(Of(L)) <= offset,
         UNCHANGED <<body, offset, queue>>,
         states' = SubSeq(states, 1, L - 1), blocks' = SubSeq(blocks, 1, L - 1), nestName' = L - 2
  PROVE  /\ StackInv' /\ Len(states') = L - 1
         /\ \A k \in 1 .. (L - 1) : states'[k] = states[k]
         /\ \A g : OnStack(g)' <=> OnStack(g) /\ g # states[L].handler
<1>1. /\ L \in Nat /\ L # 0 /\ L \in Depths /\ Depths = 1 .. L
      /\ states \in Seq(StateType) /\ blocks \in Seq(BlockType) /\ Len(blocks) = L
  BY TopIs DEF StackInv, WriterTypes, StatesTyped, BlocksOfStates
<1>2. /\ states' \in Seq(StateType) /\ Len(states') = L - 1
      /\ \A k \in 1 .. (L - 1) : states'[k] = states[k]
  <2> HIDE DEF StateType
  <2> QED BY <1>1
<1>3. /\ blocks' \in Seq(BlockType) /\ Len(blocks') = L - 1
      /\ \A k \in 1 .. (L - 1) : blocks'[k] = blocks[k]
  <2> HIDE DEF BlockType
  <2> QED BY <1>1
<1>4. Depths' = 1 .. (L - 1) /\ Handlers' = Handlers
  BY <1>2, BodyStays DEF Depths
<1>5. \A k \in 1 .. (L - 1) : /\ k \in Depths /\ Of(k)' = Of(k) /\ (InPart(k)' <=> InPart(k))
                              /\ Opening(k)' = Opening(k) /\ Closing(k)' = Closing(k)
  <2> SUFFICES ASSUME NEW k \in 1 .. (L - 1)
               PROVE  /\ k \in Depths /\ Of(k)' = Of(k) /\ (InPart(k)' <=> InPart(k))
                      /\ Opening(k)' = Opening(k) /\ Closing(k)' = Closing(k)
    OBVIOUS
  <2>1. states'[k] = states[k] BY <1>2
  <2>2. k \in Depths BY <1>1
  <2>3. UNCHANGED body OBVIOUS
  <2>4. /\ Of(k)' = Of(k) /\ (InPart(k)' <=> InPart(k))
        /\ Opening(k)' = Opening(k) /\ Closing(k)' = Closing(k)
    BY <2>1, <2>3, StateStays
  <2> QED BY <2>2, <2>4
<1>6. \A k \in 1 .. (L - 1) : LastEnd(Of(k))' = LastEnd(Of(k))
  BY <1>5 DEF LastEnd
<1>7. \A k \in 1 .. (L - 1) : states[k].handler < states[L].handler
  BY <1>1 DEF StackInv, Nested
<1>8. states[L].handler \in Nat /\ \A k \in 1 .. (L - 1) : states[k].handler \in Nat
  <2>1. \A k \in 1 .. L : states[k] \in StateType BY <1>1, StackFacts DEF StackInv
  <2>2. \A k \in 1 .. L : states[k].handler \in Nat BY <2>1 DEF StateType
  <2>3. L \in 1 .. L /\ \A k \in 1 .. (L - 1) : k \in 1 .. L BY <1>1
  <2> QED BY <2>2, <2>3
<1>9. \A g : OnStack(g)' <=> OnStack(g) /\ g # states[L].handler
  <2>1. \A k \in 1 .. L : k \in 1 .. (L - 1) \/ k = L BY <1>1
  <2>2. \A k \in 1 .. (L - 1) : states[k].handler # states[L].handler BY <1>7, <1>8
  <2> QED BY <2>1, <2>2, <1>1, <1>2, <1>4, <1>5 DEF OnStack
<1>10. WriterTypes'
  <2>1. \A k \in Depths' :
          /\ states'[k].handler \in 1 .. (queue' - 1)
          /\ states'[k].clause \in 0 .. Len(Of(k)'.clauses) + 1
          /\ states'[k].inBlock => states'[k].clause \in 1 .. Len(Of(k)'.clauses)
    BY <1>2, <1>4, <1>5 DEF StackInv, WriterTypes, StatesTyped
  <2> QED BY <2>1, <1>2, <1>4 DEF StackInv, WriterTypes, StatesTyped, StateType
<1>11. BlocksOfStates'
  <2>1. \A k \in 1 .. (L - 1) :
          blocks'[k] = [nest |-> k - 1, part |-> IF InPart(k)' THEN states'[k].clause ELSE -1]
    BY <1>2, <1>3, <1>5 DEF StackInv, BlocksOfStates
  <2>2. nestName' = Len(states') - 1 BY <1>1, <1>2
  <2>3. blocks' \in Seq([nest : Nat, part : Int]) BY <1>3 DEF BlockType
  <2> QED BY <2>1, <2>2, <2>3, <1>2, <1>3, <1>4 DEF BlocksOfStates, BlockType
<1>12. Nested'
  BY <1>2, <1>4, <1>5, <1>6 DEF StackInv, Nested
<1>13. Reached'
  BY <1>2, <1>4, <1>5, <1>6 DEF StackInv, Reached
<1>14. Started'
  <2>1. \A g : LastEnd(Handlers[g])' = LastEnd(Handlers[g]) BY <1>4 DEF LastEnd
  <2>2. ASSUME NEW g \in 1 .. (queue - 1), ~(OnStack(g) /\ g # states[L].handler)
        PROVE  /\ LastEnd(Handlers[g]) <= offset
               /\ \A k \in 1 .. (L - 1) : g < states[k].handler => LastEnd(Handlers[g]) <= Of(k).start
    <3>1. CASE OnStack(g)
      <4>1. g = states[L].handler BY <3>1, <2>2
      <4>2. LastEnd(Handlers[g]) <= offset BY <4>1 DEF Of
      <4>3. \A k \in 1 .. (L - 1) : ~(g < states[k].handler) BY <4>1, <1>7, <1>8
      <4> QED BY <4>2, <4>3
    <3>2. CASE ~OnStack(g)
      BY <3>2, <1>5 DEF StackInv, Started
    <3> QED BY <3>1, <3>2
  <2> QED BY <2>1, <2>2, <1>2, <1>4, <1>5, <1>9 DEF StackInv, Started
<1> QED BY <1>2, <1>9, <1>10, <1>11, <1>12, <1>13, <1>14 DEF StackInv

\* Where the depth of a handler is its number, all handlers before it contain
\* its start, and with it every offset of it.
LEMMA ChainOfHandlers ==
  ASSUME WriterTypes, Writer!NumberedByDepth, NEW g \in 1 .. Len(Handlers), NEW f \in 1 .. (g - 1)
  PROVE  /\ Handlers[f].start <= Handlers[g].start /\ Handlers[g].start < LastEnd(Handlers[f])
         /\ LastEnd(Handlers[g]) <= LastEnd(Handlers[f])
<1>1. body \in Bodies BY DEF WriterTypes
<1>2. /\ Len(Handlers) \in Nat /\ DOMAIN Handlers = 1 .. Len(Handlers)
      /\ \A i \in 1 .. Len(Handlers) : Legit(Handlers[i])
  BY <1>1, HandlersNest
<1>3. f \in 1 .. Len(Handlers) /\ f < g BY <1>2
<1>4. Handlers = Writer!handlers BY DEF Handlers, Writer!handlers
<1>5. PICK o \in Int : o = Handlers[g].start BY <1>2, PartsFollow
<1> DEFINE A == {i \in Writer!Around(o) : i < g}
<1>6. Cardinality(A) = g - 1
  <2>1. Writer!Depth(g, o) = g - 1 BY <1>2, <1>4, <1>5 DEF Writer!NumberedByDepth
  <2>2. Writer!Depth(g, o) = Cardinality(A) BY DepthIs
  <2> QED BY <2>1, <2>2
<1>7. A \subseteq 1 .. (g - 1)
  BY <1>2, <1>4 DEF Writer!Around
<1>8. IsFiniteSet(1 .. (g - 1)) /\ Cardinality(1 .. (g - 1)) = g - 1
  BY FS_Interval
<1> HIDE DEF A
<1>9. A = 1 .. (g - 1)
  BY <1>6, <1>7, <1>8, FS_Subset
<1>10. Writer!ContainsOffset(Handlers[f], o)
  BY <1>9, <1>4 DEF A, Writer!Around
<1>11. /\ Handlers[f].start <= o /\ o < LastEnd(Handlers[f])
  BY <1>2, <1>3, <1>10, PartsCover
<1>12. Len(Handlers[f].clauses) \in PartsOf(Handlers[f]) /\ PartEnd(Handlers[f], Len(Handlers[f].clauses)) = LastEnd(Handlers[f])
  BY <1>2, <1>3, PartsFollow DEF PartsOf
<1>13. o < LastEnd(Handlers[f]) => LastEnd(Handlers[g]) <= LastEnd(Handlers[f])
  BY <1>1, <1>3, <1>5, <1>12, HandlersNest
<1> QED BY <1>5, <1>11, <1>13

\* A sequence after an append.
LEMMA AppendIs ==
  ASSUME NEW T, NEW s \in Seq(T), NEW e \in T
  PROVE  /\ Append(s, e) \in Seq(T) /\ Len(Append(s, e)) = Len(s) + 1 /\ Len(s) \in Nat
         /\ Append(s, e)[Len(s) + 1] = e
         /\ \A i \in 1 .. Len(s) : Append(s, e)[i] = s[i]
OBVIOUS

\* What the end of the top binds: its leave goes on to the parent, or is a goto
\* where the parent contains the target.
LEMMA TopBinds ==
  ASSUME WriterInv, states # <<>>, NEW L, L = Len(states),
         UNCHANGED <<body, queue>>,
         bindings' = bindings \o Writer!Binding(L - 2),
         \A g : OnStack(g)' <=> OnStack(g) /\ g # states[L].handler
  PROVE  Bound' /\ bindings' \in Seq([handler : Nat, goto : BOOLEAN])
<1> DEFINE T == [handler : Nat, goto : BOOLEAN]
           G == states[L].handler
           go == L - 2 < 0 \/ Writer!ContainsOffset(Handlers[(L - 2) + 1], body.leave.target)
           b == [handler |-> G, goto |-> go]
<1>1. StackInv /\ WriterTypes /\ Bound /\ bindings \in Seq(T)
  BY DEF WriterInv, StackInv
<1>2. /\ L \in Nat /\ L # 0 /\ L \in Depths /\ Depths = 1 .. L
      /\ Writer!Top = states[L] /\ Writer!Handler(Writer!Top) = Of(L)
  BY <1>1, TopIs
<1>3. body \in Bodies /\ Len(Handlers) \in Nat /\ G \in 1 .. Len(Handlers) /\ G < queue
  BY <1>1, <1>2, StackFacts, HandlersNest DEF WriterTypes
<1>4. body.leave.from \in Int /\ body.leave.target \in Int
  BY <1>3, BodyAssumption
<1>5. Writer!Binding(L - 2) = IF Writer!ContainsOffset(Of(L), body.leave.from) THEN <<b>> ELSE <<>>
  BY <1>2 DEF Writer!Binding, Handlers, Writer!handlers
<1>6. b \in T
  <2>1. go \in BOOLEAN OBVIOUS
  <2>2. G \in Nat BY <1>3
  <2> HIDE DEF go, G
  <2> QED BY <2>1, <2>2
<1>7. /\ bindings' \in Seq(T)
      /\ \A e : Contains(bindings, e) => Contains(bindings', e)
      /\ Writer!ContainsOffset(Of(L), body.leave.from) => Contains(bindings', b)
  <2> HIDE DEF T, b
  <2>1. CASE Writer!ContainsOffset(Of(L), body.leave.from)
    <3>1. bindings' = bindings \o <<b>> BY <2>1, <1>5
    <3>2. bindings' = Append(bindings, b) BY <3>1, <1>1, <1>6
    <3>3. /\ bindings' \in Seq(T) /\ Len(bindings') = Len(bindings) + 1 /\ Len(bindings) \in Nat
          /\ bindings'[Len(bindings) + 1] = b
          /\ \A i \in 1 .. Len(bindings) : bindings'[i] = bindings[i]
      <4>1. bindings \in Seq(T) /\ b \in T BY <1>1, <1>6
      <4>2. /\ Append(bindings, b) \in Seq(T)
            /\ Len(Append(bindings, b)) = Len(bindings) + 1 /\ Len(bindings) \in Nat
            /\ Append(bindings, b)[Len(bindings) + 1] = b
            /\ \A i \in 1 .. Len(bindings) : Append(bindings, b)[i] = bindings[i]
        BY <4>1, AppendIs
      <4> QED BY <3>2, <4>2, Zenon
    <3> QED BY <3>3 DEF Contains
  <2>2. CASE ~Writer!ContainsOffset(Of(L), body.leave.from)
    <3>1. bindings' = bindings BY <2>2, <1>1, <1>5
    <3> QED BY <3>1, <2>2, <1>1
  <2> QED BY <2>1, <2>2
<1>8. \A g : BindingOf(g)' = BindingOf(g)
  BY BodyStays DEF BindingOf
<1>9. ASSUME Writer!NumberedByDepth
      PROVE  b = BindingOf(G)
\* Every handler before the top is on the stack, so the top is as deep as its
\* number and its parent has the number before.
  <2>1. \A f \in 1 .. (G - 1) :
          /\ Handlers[f].start <= Handlers[G].start /\ Handlers[G].start < LastEnd(Handlers[f])
          /\ LastEnd(Handlers[G]) <= LastEnd(Handlers[f])
    BY <1>1, <1>3, <1>9, ChainOfHandlers
  <2>2. ASSUME NEW f \in 1 .. (G - 1) PROVE OnStack(f)
    <3>1. f \in 1 .. (queue - 1) /\ f < G /\ f \in 1 .. Len(Handlers)
      <4>1. queue \in Int BY <1>1 DEF WriterTypes
      <4> HIDE DEF G
      <4> QED BY <4>1, <1>3
    <3>2. Handlers[G].start \in Nat /\ LastEnd(Handlers[f]) \in Nat
      BY <3>1, <1>3, HandlersNest, PartsFollow
    <3>3. ~OnStack(f) => LastEnd(Handlers[f]) <= Of(L).start
      BY <3>1, <1>1, <1>2 DEF StackInv, Started
    <3>4. Of(L) = Handlers[G] BY DEF Of
    <3> QED BY <2>1, <3>2, <3>3, <3>4
  <2>3. \A k \in 1 .. (L - 1) : states[k].handler \in 1 .. (G - 1)
    <3> SUFFICES ASSUME NEW k \in 1 .. (L - 1) PROVE states[k].handler \in 1 .. (G - 1)
      OBVIOUS
    <3>0. k \in Depths /\ k < L BY <1>2
    <3>1. states[k].handler < states[L].handler BY <3>0, <1>1, <1>2 DEF StackInv, Nested
    <3>2. states[k].handler \in 1 .. Len(Handlers) BY <3>0, <1>1, StackFacts
    <3> QED BY <3>1, <3>2, <1>3
  <2>4. 1 .. (G - 1) = {states[k].handler : k \in 1 .. (L - 1)}
    <3>1. ASSUME NEW f \in 1 .. (G - 1) PROVE \E k \in 1 .. (L - 1) : f = states[k].handler
      <4>1. PICK k \in 1 .. L : states[k].handler = f BY <2>2, <1>2 DEF OnStack
      <4>2. f # G BY <1>3
      <4>3. k # L BY <4>1, <4>2
      <4> QED BY <4>1, <4>3
    <3> QED BY <3>1, <2>3
  <2>5. L - 1 = G - 1
    <3>1. L - 1 \in 0 .. Len(states) BY <1>2
    <3>2. Cardinality({states[k].handler : k \in 1 .. (L - 1)}) = L - 1 BY <3>1, <1>1, StackCount
    <3>3. Cardinality(1 .. (G - 1)) = G - 1
      <4> HIDE DEF G
      <4>1. G \in Int /\ G - 1 \in Int /\ 1 \in Int /\ G >= 1 BY <1>3
      <4>2. Cardinality(1 .. (G - 1)) = IF 1 > G - 1 THEN 0 ELSE (G - 1) - 1 + 1 BY <4>1, FS_Interval
      <4> QED BY <4>1, <4>2
    <3> QED BY <3>2, <3>3, <2>4
  <2>6. go <=> \A f \in 1 .. (G - 1) : Writer!ContainsOffset(Handlers[f], body.leave.target)
    <3>0. G = L /\ \A f \in 1 .. (L - 1) : f \in 1 .. Len(Handlers) BY <2>5, <1>2, <1>3
    <3>1. CASE L = 1
      <4>1. \A f \in 1 .. (G - 1) : FALSE BY <3>1, <3>0
      <4>2. L - 2 < 0 BY <3>1
      <4> QED BY <4>1, <4>2
    <3>2. CASE L # 1
      <4>1. ~(L - 2 < 0) /\ (L - 2) + 1 = L - 1 /\ L - 1 \in 1 .. (G - 1) /\ L - 1 \in 1 .. Len(Handlers)
        BY <3>0, <3>2, <1>2, <1>3
      <4>2. go <=> Writer!ContainsOffset(Handlers[L - 1], body.leave.target) BY <4>1
      <4>3. ASSUME Writer!ContainsOffset(Handlers[L - 1], body.leave.target), NEW f \in 1 .. (G - 1)
            PROVE  Writer!ContainsOffset(Handlers[f], body.leave.target)
        <5>1. CASE f = L - 1 BY <5>1, <4>3
        <5>2. CASE f # L - 1
          <6>1. f \in 1 .. ((L - 1) - 1) /\ f \in 1 .. Len(Handlers) BY <5>2, <3>0, <1>2
          <6>2. Handlers[f].start <= Handlers[L - 1].start /\ LastEnd(Handlers[L - 1]) <= LastEnd(Handlers[f])
            BY <6>1, <4>1, <1>1, <1>9, ChainOfHandlers
          <6>3. Legit(Handlers[f]) /\ Legit(Handlers[L - 1])
            BY <6>1, <4>1, <1>3, HandlersNest
          <6>4. Handlers[L - 1].start <= body.leave.target /\ body.leave.target < LastEnd(Handlers[L - 1])
            BY <6>3, <4>3, <1>4, PartsCover
          <6>5. /\ Handlers[f].start \in Nat /\ LastEnd(Handlers[f]) \in Nat
                /\ Handlers[L - 1].start \in Nat /\ LastEnd(Handlers[L - 1]) \in Nat
            BY <6>3, PartsFollow
          <6>6. Handlers[f].start <= body.leave.target /\ body.leave.target < LastEnd(Handlers[f])
            BY <6>2, <6>4, <6>5, <1>4
          <6> QED BY <6>3, <6>6, <1>4, PartsCover
        <5> QED BY <5>1, <5>2
      <4> QED BY <4>1, <4>2, <4>3
    <3> QED BY <3>1, <3>2
  <2> DEFINE all == \A f \in 1 .. (G - 1) : Writer!ContainsOffset(Handlers[f], body.leave.target)
  <2>7. go \in BOOLEAN /\ all \in BOOLEAN /\ (go <=> all) BY <2>6
  <2>8. BindingOf(G) = [handler |-> G, goto |-> all] BY DEF BindingOf
  <2> HIDE DEF go, all, G
  <2>9. go = all BY <2>7
  <2> QED BY <2>8, <2>9
<1>10. ASSUME Writer!NumberedByDepth, NEW g \in 1 .. (queue - 1), ~OnStack(g)',
              Writer!ContainsOffset(Handlers[g], body.leave.from)
       PROVE  Contains(bindings', BindingOf(g))
  <2>1. CASE OnStack(g)
    <3>1. g = G BY <2>1, <1>10
    <3>2. Of(L) = Handlers[g] BY <3>1 DEF Of
    <3> QED BY <3>1, <3>2, <1>7, <1>9, <1>10
  <2>2. CASE ~OnStack(g)
    <3>1. Contains(bindings, BindingOf(g)) BY <2>2, <1>1, <1>10 DEF Bound
    <3> QED BY <3>1, <1>7
  <2> QED BY <2>1, <2>2
<1>11. Bound'
  <2>1. ASSUME Writer!NumberedByDepth, NEW g \in 1 .. (queue - 1), ~OnStack(g)',
               Writer!ContainsOffset(Handlers[g], body.leave.from)
        PROVE  Contains(bindings', BindingOf(g)')
    BY <2>1, <1>8, <1>10
  <2> QED BY <2>1, BodyStays DEF Bound
<1> QED BY <1>7, <1>11

\* A handler leaves the stack at the end of its last clause.
LEMMA EndTryKeeps ==
  ASSUME WriterInv, Writer!EndTry
  PROVE  WriterInv'
<1>1. /\ StackInv /\ phase = "update" /\ states # <<>>
      /\ UNCHANGED <<body, offset, queue, written, phase>>
  BY DEF WriterInv, Writer!EndTry, Writer!Asked
<1>2. PICK L \in Nat : L = Len(states)
  BY <1>1, StackFacts DEF StackInv
<1>3. /\ L # 0 /\ L \in Depths /\ Depths = 1 .. L /\ Writer!Top = states[L]
      /\ Writer!Handler(Writer!Top) = Of(L)
  BY <1>1, <1>2, TopIs
<1>4. states[L].clause > Len(Of(L).clauses) /\ Writer!Finished
  BY <1>3 DEF Writer!EndTry
<1>5. Len(blocks) = L
  BY <1>1, <1>2 DEF StackInv, BlocksOfStates
<1>6. /\ bindings' = bindings \o Writer!Binding(L - 2)
      /\ blocks' = SubSeq(blocks, 1, L - 1) /\ states' = SubSeq(states, 1, L - 1)
      /\ nestName' = L - 2
  BY <1>2, <1>4, <1>5 DEF Writer!Finished
<1>7. LastEnd(Of(L)) <= offset
  <2>1. /\ states[L].clause \in 0 .. Len(Of(L).clauses) + 1 /\ Len(Of(L).clauses) \in Nat \ {0}
        /\ LastEnd(Of(L)) \in Nat
        /\ (InPart(L) => states[L].clause \in PartsOf(Of(L)))
    BY <1>1, <1>3, StackFacts DEF StackInv
  <2>2. ~InPart(L) /\ ~(states[L].clause <= Len(Of(L).clauses))
    BY <2>1, <1>4 DEF PartsOf
  <2>3. offset = LastEnd(Of(L))
    BY <2>2, <1>1, <1>3 DEF StackInv, Reached
  <2> QED BY <2>1, <2>3
<1>8. /\ StackInv'
      /\ \A g : OnStack(g)' <=> OnStack(g) /\ g # states[L].handler
  BY <1>1, <1>2, <1>6, <1>7, TopLeaves
<1>9. Bound' /\ bindings' \in Seq([handler : Nat, goto : BOOLEAN])
  BY <1>1, <1>2, <1>6, <1>8, TopBinds
<1>10. Phases'
  BY <1>1 DEF WriterInv, Phases
<1> QED BY <1>1, <1>8, <1>9, <1>10, WrittenStays DEF WriterInv

\* Behind the code every handler was started.
LEMMA AllStarted ==
  ASSUME WriterInv, phase = "finish"
  PROVE  queue = Len(Handlers) + 1 /\ offset = BodyLength + 1
<1>1. /\ body \in Bodies /\ queue \in 1 .. Len(Handlers) + 1 /\ offset = BodyLength + 1
  BY DEF WriterInv, StackInv, WriterTypes, Phases
<1>2. Len(Handlers) \in Nat /\ BodyLength \in Nat
  BY <1>1, HandlersNest
<1>3. ASSUME queue # Len(Handlers) + 1 PROVE FALSE
  <2>1. queue \in 1 .. Len(Handlers) BY <1>1, <1>2, <1>3
  <2>2. offset <= Handlers[queue].start BY <2>1 DEF WriterInv, StackInv, Started
  <2>3. Legit(Handlers[queue]) /\ LastEnd(Handlers[queue]) <= BodyLength + 1
    BY <2>1, <1>1, HandlersNest
  <2>4. PICK h : h = Handlers[queue] OBVIOUS
  <2>5. 0 \in PartsOf(h) /\ Len(h.clauses) \in PartsOf(h) /\ Len(h.clauses) # 0 /\ 0 < Len(h.clauses)
    BY <2>3, <2>4, PartsFollow DEF PartsOf
  <2>6. /\ h.start \in Nat /\ h.start < PartEnd(h, 0) /\ PartEnd(h, 0) \in Nat /\ LastEnd(h) \in Nat
        /\ LastEnd(h) = PartEnd(h, Len(h.clauses))
        /\ PartStart(h, Len(h.clauses)) < PartEnd(h, Len(h.clauses))
        /\ PartStart(h, Len(h.clauses)) \in Nat
    BY <2>3, <2>4, <2>5, PartsFollow
  <2>7. PartEnd(h, 0) <= PartStart(h, Len(h.clauses))
    BY <2>3, <2>4, <2>5, PartsOrdered
  <2> QED BY <2>2, <2>3, <2>4, <2>6, <2>7, <1>1, <1>2
<1> QED BY <1>1, <1>3

\* Behind the last instruction the handler that ends with the body is finished.
LEMMA TryFinishKeeps ==
  ASSUME WriterInv, Writer!TryFinish
  PROVE  WriterInv'
<1>1. /\ StackInv /\ phase = "finish" /\ phase' = "done" /\ Writer!MayFinish
      /\ Len(states) = 1 /\ Writer!Finished
      /\ UNCHANGED <<body, offset, queue, written>>
  BY DEF WriterInv, Writer!TryFinish, Writer!MayFinish
<1>2. states # <<>>
  BY <1>1
<1>3. PICK L \in Nat : L = 1 /\ L = Len(states)
  BY <1>1
<1>4. L \in Depths
  BY <1>3 DEF Depths
<1>5. Len(blocks) = L
  BY <1>1, <1>3 DEF StackInv, BlocksOfStates
<1>6. /\ bindings' = bindings \o Writer!Binding(L - 2)
      /\ blocks' = SubSeq(blocks, 1, L - 1) /\ states' = SubSeq(states, 1, L - 1)
      /\ nestName' = L - 2
  BY <1>1, <1>3, <1>5 DEF Writer!Finished
<1>7. queue = Len(Handlers) + 1 /\ offset = BodyLength + 1
  BY <1>1, AllStarted
<1>8. LastEnd(Of(L)) <= offset
  BY <1>1, <1>4, <1>7, StackFacts DEF StackInv
<1>9. /\ StackInv' /\ Len(states') = 0
      /\ \A g : OnStack(g)' <=> OnStack(g) /\ g # states[L].handler
  <2>1. Len(states') = L - 1 /\ StackInv' /\ \A g : OnStack(g)' <=> OnStack(g) /\ g # states[L].handler
    BY <1>1, <1>2, <1>3, <1>6, <1>8, TopLeaves
  <2> QED BY <2>1, <1>3
<1>10. Bound' /\ bindings' \in Seq([handler : Nat, goto : BOOLEAN])
  BY <1>1, <1>2, <1>3, <1>6, <1>9, TopBinds
<1>11. Phases'
  <2>1. states' \in Seq(StateType) BY <1>9 DEF StackInv, WriterTypes, StatesTyped, StateType
  <2>2. states' = <<>>
    <3> HIDE DEF StateType
    <3> QED BY <2>1, <1>9
  <2>3. queue' = Len(Handlers') + 1 /\ offset' = BodyLength + 1 BY <1>1, <1>7, BodyStays
  <2> QED BY <2>2, <2>3, <1>1 DEF Phases
<1> QED BY <1>1, <1>9, <1>10, <1>11, WrittenStays DEF WriterInv

\* A body that more than one handler ends with is refused.
LEMMA CheckFinishedKeeps ==
  ASSUME WriterInv, Writer!CheckFinished
  PROVE  WriterInv'
<1>1. /\ StackInv /\ phase = "finish" /\ ~Writer!MayFinish
      /\ phase' = IF Writer!IsFinished THEN "done" ELSE "refused"
      /\ UNCHANGED <<body, offset, queue, states, nestName, blocks, written, bindings>>
  BY DEF WriterInv, Writer!CheckFinished
<1>2. queue = Len(Handlers) + 1 /\ offset = BodyLength + 1 /\ Inside(BodyLength)
  BY <1>1, AllStarted DEF WriterInv, Phases
<1>3. \A k : /\ (InPart(k)' <=> InPart(k)) /\ Opening(k)' = Opening(k) /\ Closing(k)' = Closing(k)
             /\ Of(k)' = Of(k) /\ LastEnd(Of(k))' = LastEnd(Of(k))
  BY <1>1 DEF InPart, Opening, Closing, Of, Handlers, LastEnd
<1>4. Depths' = Depths /\ Handlers' = Handlers /\ \A g : OnStack(g)' <=> OnStack(g)
  BY <1>1 DEF Depths, Handlers, OnStack
<1>5. StackInv'
  <2>1. WriterTypes' BY <1>1, <1>3, <1>4 DEF StackInv, WriterTypes, StatesTyped, StateType
  <2>2. BlocksOfStates' BY <1>1, <1>3, <1>4 DEF StackInv, BlocksOfStates, BlockType
  <2>3. Nested' BY <1>1, <1>3, <1>4 DEF StackInv, Nested
  <2>4. Reached' BY <1>1, <1>3, <1>4 DEF StackInv, Reached
  <2>5. Started'
    <3>1. \A g : LastEnd(Handlers[g])' = LastEnd(Handlers[g]) BY <1>4 DEF LastEnd
    <3> QED BY <3>1, <1>1, <1>3, <1>4 DEF StackInv, Started
  <2> QED BY <2>1, <2>2, <2>3, <2>4, <2>5 DEF StackInv
<1>6. Len(states) \in Nat /\ Len(Handlers) \in Nat /\ states \in Seq(StateType)
  BY <1>1, StackFacts, HandlersNest DEF StackInv, WriterTypes, StatesTyped
\* The only handler that is left would be in its last clause.
<1>7. Len(states) # 1
  <2>1. ASSUME Len(states) = 1 PROVE FALSE
    <3> DEFINE n == Len(Of(1).clauses)
               c == states[1].clause
    <3>1. states # <<>> /\ 1 = Len(states) /\ 1 \in Depths BY <2>1 DEF Depths
    <3>2. Writer!Top = states[1] /\ Writer!Handler(Writer!Top) = Of(1) BY <3>1, <1>1, TopIs
    <3>3. InPart(1) /\ BodyLength < PartEnd(Of(1), c) BY <3>1, <1>2 DEF Inside, Closing
    <3>4. /\ c \in PartsOf(Of(1)) /\ Legit(Of(1)) /\ LastEnd(Of(1)) <= BodyLength + 1
          /\ n \in Nat \ {0} /\ LastEnd(Of(1)) \in Nat
      BY <3>1, <3>3, <1>1, StackFacts DEF StackInv
    <3> HIDE DEF c
    <3>5. c = n
      <4>1. ASSUME c # n PROVE FALSE
        <5>1. c < n /\ n \in PartsOf(Of(1)) BY <3>4, <4>1 DEF PartsOf
        <5>2. PartEnd(Of(1), c) <= PartStart(Of(1), n) BY <3>4, <5>1, PartsOrdered
        <5>3. PartStart(Of(1), n) < LastEnd(Of(1)) /\ PartStart(Of(1), n) \in Nat /\ PartEnd(Of(1), c) \in Nat
          BY <3>4, <5>1, PartsFollow
        <5>4. BodyLength \in Nat BY BodyAssumption
        <5> QED BY <3>3, <3>4, <5>2, <5>3, <5>4
      <4> QED BY <4>1
    <3>6. states[1].inBlock BY <3>3, <3>4, <3>5 DEF InPart, c
    <3>7. queue > Len(Handlers) /\ Handlers = Writer!handlers
      BY <1>2, <1>6 DEF Handlers, Writer!handlers
    <3>8. states[1].clause >= Len(Of(1).clauses) BY <3>4, <3>5 DEF c
    <3> QED BY <3>2, <3>6, <3>7, <3>8, <2>1, <1>1 DEF Writer!MayFinish
  <2> QED BY <2>1
<1>8. Phases'
  <2>1. Handlers = Writer!handlers BY DEF Handlers, Writer!handlers
  <2>2. CASE Writer!IsFinished
    <3>1. states = <<>> BY <2>2 DEF Writer!IsFinished
    <3> QED BY <2>2, <3>1, <1>1, <1>2, <1>4 DEF Phases
  <2>3. CASE ~Writer!IsFinished
    <3>1. states # <<>> BY <2>1, <2>3, <1>2, <1>6 DEF Writer!IsFinished
    <3>2. Len(states) # 0
      <4> HIDE DEF StateType
      <4> QED BY <3>1, <1>6
    <3>3. Len(states) > 1
      <4> DEFINE l == Len(states)
      <4>1. l \in Nat /\ l # 0 /\ l # 1 BY <3>2, <1>6, <1>7
      <4> HIDE DEF l
      <4>2. l > 1 BY <4>1
      <4> QED BY <4>2 DEF l
    <3>4. Inside(BodyLength)' BY <1>2, <1>3, <1>4 DEF Inside
    <3> QED BY <2>3, <3>3, <3>4, <1>1, <1>2 DEF Phases
  <2> QED BY <2>2, <2>3
<1> QED BY <1>1, <1>4, <1>5, <1>8, WrittenStays, BoundStays DEF WriterInv

\* The writer starts in front of the first instruction with no handler.
LEMMA WriterInit ==
  ASSUME Writer!Init
  PROVE  WriterInv
<1>1. /\ body \in Bodies /\ offset = 1 /\ queue = 1 /\ states = <<>> /\ nestName = -1
      /\ blocks = <<>> /\ written = <<>> /\ bindings = <<>> /\ phase = "update"
  BY DEF Writer!Init
<1>2. /\ BodyLength \in Nat /\ 1 <= BodyLength /\ Len(Handlers) \in Nat
      /\ \A g \in 1 .. Len(Handlers) : Handlers[g].start \in Nat /\ 1 <= Handlers[g].start
  BY <1>1, HandlersNest, PartsFollow
<1>3. Depths = {} /\ 1 .. (queue - 1) = {} /\ 1 .. (offset - 1) = {}
  BY <1>1 DEF Depths
<1>4. StackInv
  BY <1>1, <1>2, <1>3 DEF StackInv, WriterTypes, StatesTyped, BlocksOfStates, Nested, Reached, Started
<1>5. Phases
  BY <1>1, <1>2 DEF Phases
<1>6. Written
  <2>1. written \in Seq([blocks : Seq(BlockType), nest : Int]) BY <1>1
  <2> QED BY <2>1, <1>1, <1>3 DEF Written
<1>7. Bound
  BY <1>1, <1>3 DEF Bound
<1>8. bindings \in Seq([handler : Nat, goto : BOOLEAN])
  BY <1>1
<1> QED BY <1>4, <1>5, <1>6, <1>7, <1>8 DEF WriterInv

\* Every step of the writer keeps its invariant.
LEMMA WriterStep ==
  ASSUME WriterInv, Writer!Next
  PROVE  WriterInv'
BY TryStartKeeps, TryEndKeeps, CatchStartKeeps, CatchEndKeeps, EndTryKeeps, SettledKeeps, EmitKeeps,
   TryFinishKeeps, CheckFinishedKeeps DEF Writer!Next

\* The invariant says that code is in its blocks and leaves are bound.
LEMMA WriterCorrect ==
  ASSUME WriterInv
  PROVE  Writer!CodeInItsBlocks /\ Writer!LeaveBound
<1>1. /\ StackInv /\ Phases /\ Written /\ Bound /\ body \in Bodies
      /\ Handlers = Writer!handlers
  BY DEF WriterInv, StackInv, WriterTypes, Handlers, Writer!handlers
<1>2. /\ BodyLength \in Nat /\ Len(Handlers) \in Nat /\ DOMAIN Handlers = 1 .. Len(Handlers)
      /\ offset \in 1 .. BodyLength + 1
      /\ \A g \in 1 .. Len(Handlers) : Legit(Handlers[g])
  BY <1>1, HandlersNest DEF StackInv, WriterTypes
<1>3. \A S : Writer!Cardinality(S) = Cardinality(S)
  BY SameCardinality
<1>4. ASSUME NEW o \in DOMAIN written
      PROVE  /\ Len(written[o].blocks) = Writer!Cardinality(Writer!Around(o))
             /\ \A h \in Writer!Around(o) :
                  written[o].blocks[Writer!Depth(h, o) + 1] =
                    [nest |-> Writer!Depth(h, o), part |-> Writer!PartOf(Writer!handlers[h], o)]
             /\ written[o].nest = Writer!Cardinality(Writer!Around(o)) - 1
  <2>1. o \in 1 .. (offset - 1)
    <3> DEFINE T == [blocks : Seq(BlockType), nest : Int]
    <3>1. written \in Seq(T) /\ Len(written) = offset - 1 BY <1>1 DEF Written
    <3> HIDE DEF T
    <3> QED BY <3>1
  <2>2. CorrectAt(o) BY <2>1, <1>1 DEF Written
  <2> QED BY <2>2, <1>1, <1>3 DEF CorrectAt
<1>5. phase = "done" => blocks = <<>> /\ Len(written) = BodyLength
  <2>1. ASSUME phase = "done" PROVE blocks = <<>> /\ Len(written) = BodyLength
    <3>1. offset = BodyLength + 1 /\ states = <<>> BY <2>1, <1>1 DEF Phases
    <3>2. Len(written) = BodyLength BY <3>1, <1>1, <1>2 DEF Written
    <3>3. blocks \in Seq(BlockType) /\ Len(blocks) = 0 BY <3>1, <1>1 DEF StackInv, BlocksOfStates
    <3>4. blocks = <<>>
      <4> HIDE DEF BlockType
      <4> QED BY <3>3
    <3> QED BY <3>2, <3>4
  <2> QED BY <2>1
<1>6. phase = "refused" => Writer!Cardinality(Writer!Around(BodyLength)) > 1
  <2>1. ASSUME phase = "refused" PROVE Cardinality(Writer!Around(BodyLength)) > 1
    <3>1. Inside(BodyLength) /\ Len(states) > 1 BY <2>1, <1>1 DEF Phases
    <3>2. PICK m \in Nat : m = Len(states) BY <1>1, StackFacts DEF StackInv
    <3> DEFINE S == {states[j].handler : j \in 1 .. m}
    <3>3. m \in 0 .. Len(states) BY <3>2
    <3>4. Cardinality(S) = m BY <3>3, <1>1, StackCount
    <3>5. S \subseteq Writer!Around(BodyLength)
      BY <3>1, <3>2, <1>1, <1>2, InsideContains DEF Depths
    <3>6. IsFiniteSet(1 .. Len(Handlers)) BY <1>2, FS_Interval
    <3>7. Writer!Around(BodyLength) \subseteq 1 .. Len(Handlers) BY <1>1, <1>2 DEF Writer!Around
    <3>8. IsFiniteSet(Writer!Around(BodyLength)) /\ Cardinality(Writer!Around(BodyLength)) \in Nat
      BY <3>6, <3>7, FS_Subset, FS_CardinalityType
    <3> HIDE DEF S
    <3>9. Cardinality(S) <= Cardinality(Writer!Around(BodyLength)) BY <3>5, <3>8, FS_Subset
    <3> QED BY <3>1, <3>2, <3>4, <3>8, <3>9
  <2> QED BY <2>1, <1>3
<1>7. Writer!LeaveBound
  <2> SUFFICES ASSUME phase = "done", Writer!NumberedByDepth,
                      NEW h \in Writer!Around(body.leave.from) \ Writer!Around(body.leave.target)
               PROVE  [handler |-> h,
                       goto |-> \A g \in Writer!Around(body.leave.from) :
                                  g < h => g \in Writer!Around(body.leave.target)]
                         \in Writer!Range(bindings)
    BY DEF Writer!LeaveBound
  <2> DEFINE F == body.leave.from
             R == body.leave.target
             mine == \A g \in Writer!Around(F) : g < h => g \in Writer!Around(R)
             all == \A f \in 1 .. (h - 1) : Writer!ContainsOffset(Handlers[f], R)
  <2>1. F \in Int /\ R \in Int
    BY <1>1, BodyAssumption
  <2>2. \A g, o : g \in Writer!Around(o) <=> g \in 1 .. Len(Handlers) /\ Writer!ContainsOffset(Handlers[g], o)
    BY <1>1, <1>2 DEF Writer!Around
  <2>3. h \in 1 .. Len(Handlers) /\ Writer!ContainsOffset(Handlers[h], F)
    BY <2>2
  <2>4. queue = Len(Handlers) + 1 /\ Depths = {}
    <3>1. queue = Len(Handlers) + 1 /\ states = <<>> BY <1>1 DEF Phases
    <3> QED BY <3>1 DEF Depths
  <2>5. Contains(bindings, BindingOf(h))
    <3>1. h \in 1 .. (queue - 1) /\ ~OnStack(h) BY <2>3, <2>4, <1>2 DEF OnStack
    <3> QED BY <3>1, <2>3, <1>1 DEF Bound
  <2>6. ASSUME NEW f \in 1 .. (h - 1) PROVE f \in Writer!Around(F) /\ f < h
    <3>1. f \in 1 .. Len(Handlers) BY <2>3, <1>2
    <3>2. Handlers[f].start <= Handlers[h].start /\ LastEnd(Handlers[h]) <= LastEnd(Handlers[f])
      BY <2>3, <1>1, ChainOfHandlers DEF StackInv
    <3>3. Legit(Handlers[f]) /\ Legit(Handlers[h]) BY <3>1, <2>3, <1>2
    <3>4. Handlers[h].start <= F /\ F < LastEnd(Handlers[h]) BY <3>3, <2>1, <2>3, PartsCover
    <3>5. /\ Handlers[f].start \in Nat /\ LastEnd(Handlers[f]) \in Nat
          /\ Handlers[h].start \in Nat /\ LastEnd(Handlers[h]) \in Nat
      BY <3>3, PartsFollow
    <3> HIDE DEF F
    <3>6. Handlers[f].start <= F /\ F < LastEnd(Handlers[f]) BY <3>2, <3>4, <3>5, <2>1
    <3> QED BY <3>1, <3>3, <3>6, <2>1, <2>2, <2>3, PartsCover
  <2>7. mine <=> all
    <3>1. \A g \in Writer!Around(F) : g \in 1 .. Len(Handlers) BY <2>2
    <3>2. ASSUME mine, NEW f \in 1 .. (h - 1) PROVE Writer!ContainsOffset(Handlers[f], R)
      BY <3>2, <2>2, <2>6
    <3>3. ASSUME all, NEW g \in Writer!Around(F), g < h PROVE g \in Writer!Around(R)
      <4>1. g \in 1 .. Len(Handlers) BY <3>1
      <4>2. g \in 1 .. (h - 1) BY <4>1, <3>3, <2>3
      <4> QED BY <4>1, <4>2, <3>3, <2>2
    <3> QED BY <3>2, <3>3
  <2>8. mine \in BOOLEAN /\ all \in BOOLEAN OBVIOUS
  <2>9. BindingOf(h) = [handler |-> h, goto |-> all] BY DEF BindingOf
  <2>10. \A s, e : Contains(s, e) => e \in Writer!Range(s) BY DEF Contains, Writer!Range
  <2> HIDE DEF mine, all
  <2>11. mine = all BY <2>7, <2>8
  <2>12. Contains(bindings, [handler |-> h, goto |-> mine]) BY <2>5, <2>9, <2>11
  <2> QED BY <2>10, <2>12 DEF mine
<1> QED BY <1>4, <1>5, <1>6, <1>7 DEF Writer!CodeInItsBlocks

\* Other parts of a behaviour leave the writer as it is.
LEMMA WriterRests ==
  ASSUME WriterInv, UNCHANGED writerVars
  PROVE  WriterInv'
<1>1. /\ StackInv /\ Phases /\ Written /\ Bound
      /\ UNCHANGED <<body, offset, queue, states, nestName, blocks, written, bindings, phase>>
  BY DEF WriterInv, writerVars
<1>2. \A k : /\ (InPart(k)' <=> InPart(k)) /\ Opening(k)' = Opening(k) /\ Closing(k)' = Closing(k)
             /\ Of(k)' = Of(k) /\ LastEnd(Of(k))' = LastEnd(Of(k))
  BY <1>1 DEF InPart, Opening, Closing, Of, Handlers, LastEnd
<1>3. Depths' = Depths /\ Handlers' = Handlers /\ \A g : OnStack(g)' <=> OnStack(g)
  BY <1>1 DEF Depths, Handlers, OnStack
<1>4. StackInv'
  <2>1. WriterTypes' BY <1>1, <1>2, <1>3 DEF StackInv, WriterTypes, StatesTyped, StateType
  <2>2. BlocksOfStates' BY <1>1, <1>2, <1>3 DEF StackInv, BlocksOfStates, BlockType
  <2>3. Nested' BY <1>1, <1>2, <1>3 DEF StackInv, Nested
  <2>4. Reached' BY <1>1, <1>2, <1>3 DEF StackInv, Reached
  <2>5. Started'
    <3>1. \A g : LastEnd(Handlers[g])' = LastEnd(Handlers[g]) BY <1>3 DEF LastEnd
    <3> QED BY <3>1, <1>1, <1>2, <1>3 DEF StackInv, Started
  <2> QED BY <2>1, <2>2, <2>3, <2>4, <2>5 DEF StackInv
<1>5. \A o : Inside(o)' <=> Inside(o)
  BY <1>2, <1>3 DEF Inside
<1>6. Phases'
  BY <1>1, <1>3, <1>5 DEF Phases
<1>7. Written' /\ Bound'
  BY <1>1, <1>3, WrittenStays, BoundStays
<1> QED BY <1>1, <1>4, <1>6, <1>7 DEF WriterInv

\* A behaviour stays in its part.
LEMMA PartStays == [RuntimeNext]_allVars => part' = part
BY DEF RuntimeNext, allVars

\* For every body whose handlers are laid out as CIL lays them out, of any length
\* and nesting, each instruction is written in the C blocks of exactly the
\* handlers it is in, outermost first, and a leave becomes a goto only behind the
\* last block it leaves (BodyWriter's handling of ExceptionHandlerController).
THEOREM CodeStaysInItsBlocks == RuntimeSpec => []CodeInItsBlocks
<1> DEFINE Inv == part = "writer" => WriterInv
<1>1. RuntimeInit => Inv
  BY WriterInit DEF RuntimeInit
<1>2. Inv /\ [RuntimeNext]_allVars => Inv'
  <2> SUFFICES ASSUME Inv, [RuntimeNext]_allVars, part' = "writer" PROVE WriterInv'
    OBVIOUS
  <2>1. part = "writer" /\ WriterInv
    BY PartStays
  <2>2. Writer!Next \/ UNCHANGED writerVars
    BY <2>1 DEF RuntimeNext, allVars
  <2> QED BY <2>1, <2>2, WriterStep, WriterRests
<1>3. Inv => CodeInItsBlocks
  BY WriterCorrect DEF CodeInItsBlocks
<1> QED BY <1>1, <1>2, <1>3, PTL DEF RuntimeSpec
-----------------------------------------------------------------------------
\* The length of a string is that of its text.
LEMMA LengthIs ==
  ASSUME NEW cells, NEW chars, Stores(cells, chars)
  PROVE  Strings!wcslen(cells) = Len(chars) /\ Len(chars) \in Nat
<1> DEFINE n == Len(chars)
           ends == {i \in DOMAIN cells : cells[i] = 0}
<1>1. n \in Nat /\ DOMAIN cells = 1 .. n + 1 /\ cells[n + 1] = 0 /\ \A i \in 1 .. n : cells[i] # 0
  BY DEF Stores
<1> HIDE DEF n
<1>2. ends = {n + 1}
  BY <1>1
<1>3. (CHOOSE i \in ends : \A j \in ends : i <= j) = n + 1
  BY <1>1, <1>2
<1>4. Strings!wcslen(cells) = (n + 1) - 1
  BY <1>3 DEF Strings!wcslen, Strings!Nul
<1> QED BY <1>1, <1>4 DEF n

\* What is copied, cell by cell: m characters of from, behind its first i, behind
\* the first p cells.
LEMMA CopyIs ==
  ASSUME NEW c, NEW size, NEW cells, NEW p, NEW t, NEW from, NEW i, NEW m,
         Copied(c, size, cells, p, t, from, i, m)
  PROVE  /\ c \in [1 .. size -> Int]
         /\ Same(c, p, from, i, m) /\ Same(c, 0, cells, 0, p)
<1>1. /\ size \in Nat /\ cells \in [1 .. size -> Int] /\ p \in Nat /\ t \in Nat
      /\ from \in [1 .. t -> Int] /\ i \in Nat /\ m \in Nat /\ i + m <= t /\ p + m <= size
      /\ c = Strings!Copy(cells, p + 1, from, i + 1, m)
  BY DEF Copied
<1>2. c = [k \in 1 .. size |-> IF k \in (p + 1) .. (p + 1 + m - 1) THEN from[(i + 1) + (k - (p + 1))] ELSE cells[k]]
  BY <1>1 DEF Strings!Copy
<1>3. \A k \in (p + 1) .. (p + 1 + m - 1) : (i + 1) + (k - (p + 1)) \in 1 .. t
  BY <1>1
<1>4. \A k \in 1 .. m : /\ p + k \in (p + 1) .. (p + 1 + m - 1) /\ p + k \in 1 .. size
                        /\ (i + 1) + ((p + k) - (p + 1)) = i + k
  BY <1>1
<1>5. \A k \in 1 .. p : 0 + k = k /\ k \notin (p + 1) .. (p + 1 + m - 1) /\ k \in 1 .. size
  BY <1>1
<1>6. \A k \in 1 .. size :
        (IF k \in (p + 1) .. (p + 1 + m - 1) THEN from[(i + 1) + (k - (p + 1))] ELSE cells[k]) \in Int
  BY <1>1, <1>3
<1>7. c \in [1 .. size -> Int]
  BY <1>2, <1>6
<1>8. Same(c, p, from, i, m)
  BY <1>1, <1>2, <1>4 DEF Same
<1>9. Same(c, 0, cells, 0, p)
  BY <1>1, <1>2, <1>5 DEF Same
<1> QED BY <1>7, <1>8, <1>9

\* A new buffer has no characters yet.
LEMMA AllocateIs ==
  ASSUME NEW n \in Nat
  PROVE  Strings!Allocate(n) \in [1 .. n -> Int]
BY DEF Strings!Allocate, Strings!Unset

\* A function on the numbers of the cells is a buffer.
LEMMA BufferIs ==
  ASSUME NEW chars \in Seq(Nat \ {0}), NEW n, n = Len(chars), NEW cells \in [1 .. n + 1 -> Int],
         cells[n + 1] = 0, Holds(cells, chars, n)
  PROVE  Stores(cells, chars)
<1>1. n \in Nat /\ n + 1 \in Nat
  OBVIOUS
<1>2. cells \in Seq(Int) /\ Len(cells) = n + 1
  BY <1>1
<1> QED BY <1>2 DEF Stores, Holds

\* A string is added to the others.
LEMMA MadeKeeps ==
  ASSUME StoreInv, NEW cells, NEW chars, Stores(cells, chars), Strings!Made(cells, chars)
  PROVE  StoreInv'
<1> DEFINE s == [cells |-> cells, text |-> chars]
           T == [cells : Seq(Int), text : Seq(Nat \ {0})]
<1>1. store' = Append(store, s)
  BY DEF Strings!Made
<1>2. s \in T /\ store \in Seq(T) /\ Len(store) \in Nat
  BY DEF StoreInv, Stores
<1>3. s.cells = cells /\ s.text = chars
  OBVIOUS
<1> HIDE DEF s, T
<1>4. store' \in Seq(T) /\ Len(store') = Len(store) + 1
  BY <1>1, <1>2
<1>5. ASSUME NEW i \in 1 .. Len(store') PROVE Stores(store'[i].cells, store'[i].text)
  <2>1. CASE i = Len(store) + 1
    <3>1. store'[i] = s BY <1>1, <1>2, <2>1
    <3> QED BY <3>1, <1>3
  <2>2. CASE i # Len(store) + 1
    <3>1. i \in 1 .. Len(store) BY <1>2, <1>4, <2>2
    <3>2. store'[i] = store[i] BY <3>1, <1>1, <1>2
    <3> QED BY <3>1, <3>2 DEF StoreInv
  <2> QED BY <2>1, <2>2
<1>6. char' = char BY DEF Strings!Made
<1> QED BY <1>4, <1>5, <1>6 DEF StoreInv, T, Stores

\* A string of the store.
LEMMA StringIs ==
  ASSUME StoreInv, NEW a \in Strings!Range(store)
  PROVE  /\ Stores(a.cells, a.text) /\ Len(a.text) \in Nat /\ Strings!wcslen(a.cells) = Len(a.text)
         /\ a.cells \in [1 .. Len(a.text) + 1 -> Int] /\ a.text \in Seq(Nat \ {0})
<1>1. PICK i \in 1 .. Len(store) : a = store[i]
  <2> DEFINE T == [cells : Seq(Int), text : Seq(Nat \ {0})]
  <2>1. store \in Seq(T) BY Zenon DEF StoreInv
  <2> HIDE DEF T
  <2>2. DOMAIN store = 1 .. Len(store) BY <2>1
  <2> QED BY <2>2, Zenon DEF Strings!Range
<1>2. Stores(a.cells, a.text)
  BY <1>1 DEF StoreInv
<1>3. a.cells \in [1 .. Len(a.text) + 1 -> Int]
  <2>1. a.cells \in Seq(Int) /\ Len(a.cells) = Len(a.text) + 1 BY <1>2 DEF Stores
  <2> QED BY <2>1
<1> QED BY <1>2, <1>3, LengthIs DEF Stores

\* A literal.
LEMMA NewStringKeeps ==
  ASSUME StoreInv, NEW chars \in Literals, Strings!NewString(chars)
  PROVE  StoreInv'
<1> DEFINE n == Len(chars)
           e == Strings!Allocate(n + 1)
           c == Strings!Copy(e, 1, chars, 1, n)
           cells == [c EXCEPT ![n + 1] = 0]
<1>1. chars \in Seq(Nat \ {0}) /\ n \in Nat
  <2>1. Literals \subseteq Seq(Nat \ {0}) BY TextAssumption, Zenon
  <2> QED BY <2>1
<1>2. \A i \in 1 .. n : chars[i] \in Nat \ {0}
  BY <1>1
<1>3. chars \in [1 .. n -> Int]
  BY <1>1
<1>4. Strings!Made(cells, chars)
  BY DEF Strings!NewString, Strings!Nul
<1> HIDE DEF n
<1>5. n + 1 \in Nat /\ e \in [1 .. n + 1 -> Int]
  BY <1>1, AllocateIs
<1> HIDE DEF e
<1>6. c = Strings!Copy(e, 1, chars, 1, n)
  OBVIOUS
<1> HIDE DEF c
<1>7. c \in [1 .. n + 1 -> Int] /\ Same(c, 0, chars, 0, n)
  <2>1. Copied(c, n + 1, e, 0, n, chars, 0, n) BY <1>1, <1>3, <1>5, <1>6 DEF Copied
  <2> QED BY <2>1, CopyIs
<1>8. cells \in [1 .. n + 1 -> Int] /\ cells[n + 1] = 0 /\ \A k \in 1 .. n : cells[k] = c[k]
  BY <1>1, <1>7
<1> HIDE DEF cells
<1>9. \A k \in 1 .. n : cells[k] = chars[k]
  BY <1>7, <1>8 DEF Same
<1>10. Holds(cells, chars, n)
  BY <1>2, <1>9 DEF Holds
<1>11. Stores(cells, chars)
  BY <1>1, <1>8, <1>10, BufferIs DEF n
<1> QED BY <1>4, <1>11, MadeKeeps

\* There is such an f: it is made from its end.
LEMMA DescentExists ==
  ASSUME NEW l \in Nat, NEW n \in Nat, l < n, NEW base, NEW step,
         NEW next \in [1 .. l -> 1 .. n], \A i \in 1 .. l : i < next[i]
  PROVE  \E f : Descends(f, n, l, base, next, step)
<1> DEFINE Until(f, d) ==
             f = [i \in (l + 1 - d) .. n |-> IF i > l THEN base ELSE step[<<i, f[next[i]]>>]]
           Bad == {d \in Nat : d <= l /\ ~ \E f : Until(f, d)}
<1>1. ASSUME Bad # {} PROVE FALSE
  <2>1. Bad \in SUBSET Nat OBVIOUS
  <2> HIDE DEF Bad
  <2>2. PICK d \in Bad : \A k \in Bad : d <= k BY <1>1, <2>1, SmallestNumber
  <2>3. d \in Nat /\ d <= l /\ ~ \E f : Until(f, d) BY <2>2 DEF Bad
  <2>4. d # 0
    <3> DEFINE f == [i \in (l + 1) .. n |-> base]
    <3>1. f = [i \in (l + 1) .. n |-> IF i > l THEN base ELSE step[<<i, f[next[i]]>>]]
      <4>1. \A i \in (l + 1) .. n : i > l OBVIOUS
      <4> HIDE DEF f
      <4>2. [i \in (l + 1) .. n |-> IF i > l THEN base ELSE step[<<i, f[next[i]]>>]]
              = [i \in (l + 1) .. n |-> base]
        BY <4>1
      <4> QED BY <4>2 DEF f
    <3> HIDE DEF f
    <3>2. l + 1 - 0 = l + 1 OBVIOUS
    <3>3. Until(f, 0) BY <3>1, <3>2
    <3> QED BY <3>3, <2>3
  <2>5. d - 1 \in Nat /\ d - 1 <= l /\ ~(d <= d - 1) BY <2>3, <2>4
  <2>6. d - 1 \notin Bad BY <2>2, <2>5
  <2>7. PICK f : Until(f, d - 1) BY <2>5, <2>6 DEF Bad
  <2> DEFINE m == l + 1 - d
             Value(i) == IF i > l THEN base ELSE step[<<i, f[next[i]]>>]
             g == [i \in m .. n |-> IF i = m THEN step[<<i, f[next[i]]>>] ELSE f[i]]
  <2>8. m \in 1 .. l /\ l + 1 - (d - 1) = m + 1 BY <2>3, <2>4
  <2>9. \A i \in (m + 1) .. n : f[i] = Value(i)
    <3>1. f = [i \in (m + 1) .. n |-> Value(i)] BY <2>7, <2>8
    <3> HIDE DEF Value
    <3> QED BY <3>1
  <2>10. ASSUME NEW k \in m .. n
         PROVE  g[k] = IF k > l THEN base ELSE step[<<k, g[next[k]]>>]
    <3>1. k <= l => k \in 1 .. l /\ next[k] \in m .. n /\ next[k] # m
      BY <2>8
    <3>2. k <= l => g[next[k]] = f[next[k]] BY <3>1
    <3>3. CASE k = m BY <3>2, <3>3, <2>8
    <3>4. CASE k # m
      <4>1. k \in (m + 1) .. n BY <3>4, <2>8
      <4>2. g[k] = f[k] BY <3>4
      <4>3. k > l \/ k <= l BY <2>8
      <4> QED BY <4>1, <4>2, <4>3, <2>9, <3>2
    <3> QED BY <3>3, <3>4
  <2>11. g = [k \in m .. n |-> g[k]] OBVIOUS
  <2> HIDE DEF g
  <2>12. Until(g, d) BY <2>10, <2>11
  <2> QED BY <2>12, <2>3
<1>2. l \notin Bad BY <1>1
<1>3. \E f : Until(f, l) BY <1>2
<1>4. l + 1 - l = 1 OBVIOUS
<1> QED BY <1>3, <1>4 DEF Descends

\* It is what it was made to be, and its values are of the type that base has and
\* step gives.
LEMMA DescentTyped ==
  ASSUME NEW l \in Nat, NEW n \in Nat, l < n, NEW V, NEW base \in V,
         NEW step \in [(1 .. l) \X V -> V],
         NEW next \in [1 .. l -> 1 .. n], \A i \in 1 .. l : i < next[i],
         NEW f, Descends(f, n, l, base, next, step)
  PROVE  Descended(f, n, l, V, base, next, step)
<1> DEFINE Bad == {d \in Nat : d < n /\ f[n - d] \notin V}
<1>1. \A i \in 1 .. n : f[i] = IF i > l THEN base ELSE step[<<i, f[next[i]]>>]
  <2> DEFINE Value(i) == IF i > l THEN base ELSE step[<<i, f[next[i]]>>]
  <2>1. f = [i \in 1 .. n |-> Value(i)] BY DEF Descends
  <2> HIDE DEF Value
  <2>2. \A i \in 1 .. n : f[i] = Value(i) BY <2>1
  <2> QED BY <2>2 DEF Value
<1>2. ASSUME Bad # {} PROVE FALSE
  <2>1. Bad \in SUBSET Nat OBVIOUS
  <2> HIDE DEF Bad
  <2>2. PICK d \in Bad : \A k \in Bad : d <= k BY <1>2, <2>1, SmallestNumber
  <2> DEFINE i == n - d
  <2>3. d \in Nat /\ d < n /\ f[i] \notin V BY <2>2 DEF Bad
  <2>4. i \in 1 .. l
    <3>1. i \in 1 .. n BY <2>3
    <3> HIDE DEF i
    <3>2. ~(i > l) BY <3>1, <2>3, <1>1
    <3> QED BY <3>1, <3>2
  <2>5. next[i] \in 1 .. n /\ i < next[i] BY <2>4
  <2> DEFINE k == n - next[i]
  <2>6. k \in Nat /\ k < n /\ k < d /\ n - k = next[i] BY <2>3, <2>5
  <2>7. f[next[i]] \in V
    <3>1. k \notin Bad BY <2>2, <2>3, <2>6
    <3> HIDE DEF k
    <3> QED BY <3>1, <2>6 DEF Bad
  <2>8. f[i] = step[<<i, f[next[i]]>>] BY <2>4, <1>1
  <2> HIDE DEF i
  <2>9. step[<<i, f[next[i]]>>] \in V BY <2>4, <2>7
  <2> QED BY <2>3, <2>8, <2>9
<1>3. ASSUME NEW i \in 1 .. n PROVE f[i] \in V
  <2>1. n - i \in Nat /\ n - i < n /\ n - (n - i) = i OBVIOUS
  <2> QED BY <2>1, <1>2
<1>4. f = [i \in 1 .. n |-> f[i]] BY DEF Descends
<1> QED BY <1>1, <1>3, <1>4 DEF Descended

\* The bits of a character in two bytes.
LEMMA TwoParts ==
  ASSUME NEW c \in Nat, 128 <= c, c < 2048
  PROVE  /\ c \div 64 \in Nat /\ 2 <= c \div 64 /\ c \div 64 <= 31
         /\ c % 64 \in Nat /\ c % 64 < 64 /\ (c \div 64) * 64 + (c % 64) = c
OBVIOUS

\* The bits of a character in three bytes.
LEMMA ThreeParts ==
  ASSUME NEW c \in Nat, 2048 <= c, c < Plane
  PROVE  /\ c \div 4096 \in Nibble /\ (c \div 64) % 64 \in Sextet /\ c % 64 \in Sextet
         /\ c \div 4096 = 0 => (c \div 64) % 64 # 0
<1> DEFINE q == c \div 64
           x == c \div 4096
           y == q % 64
           z == c % 64
<1>1. x \in Nat /\ x <= 15 BY DEF Plane
<1>2. z \in Nat /\ z <= 63 OBVIOUS
<1>3. q \in Nat OBVIOUS
<1>4. x = 0 => 32 <= q /\ q < 64 OBVIOUS
<1> HIDE DEF q, x, z
<1>5. y \in Nat /\ y <= 63 BY <1>3
<1>6. 32 <= q /\ q < 64 => q % 64 = q BY <1>3
<1>7. x = 0 => y # 0 BY <1>3, <1>4, <1>6
<1> HIDE DEF y
<1>8. x \in Nibble BY <1>1 DEF Nibble
<1>9. y \in Sextet BY <1>5 DEF Sextet
<1>10. z \in Sextet BY <1>2 DEF Sextet
<1> QED BY <1>7, <1>8, <1>9, <1>10 DEF q, x, y, z

\* A character is taken as a whole, and decoded to itself if it has at most two
\* bytes, else to something.
LEMMA CharacterIs ==
  ASSUME char = "unsigned", NEW bytes, NEW i, NEW c, EncodedFrom(bytes, i, c)
  PROVE  /\ Len(Encoded(c)) \in 1 .. 3
         /\ i \in 1 .. Len(bytes)
         /\ Strings!Lead(bytes[i]) = Len(Encoded(c)) /\ Strings!Taken(bytes[i]) = Len(Encoded(c))
         /\ Strings!Character(bytes, i) \in Nat \ {0}
         /\ c < 2048 => Strings!Character(bytes, i) = c
<1>1. /\ bytes \in Seq(Nat) /\ i \in Nat \ {0} /\ c \in Nat \ {0} /\ c < Plane /\ Len(bytes) \in Nat
  <2>1. bytes \in Seq(Nat) /\ i \in Nat \ {0} /\ c \in Nat \ {0} /\ c < Plane BY Zenon DEF EncodedFrom
  <2>2. Len(bytes) \in Nat BY <2>1
  <2> QED BY <2>1, <2>2
<1> DEFINE At(k) == IF k > Len(bytes) THEN 0 ELSE bytes[k]
           Length(b) == IF b <= 127 THEN 1 ELSE IF b <= 223 THEN 2 ELSE IF b <= 239 THEN 3
                        ELSE IF b <= 247 THEN 4 ELSE IF b <= 251 THEN 5 ELSE IF b <= 253 THEN 6 ELSE 1
<1>2. \A b : Strings!AsChar(b) = b
  BY DEF Strings!AsChar
<1>3. \A b : Strings!Lead(b) = Length(b)
  BY <1>2 DEF Strings!Lead
<1>4. Strings!Character(bytes, i) =
        IF Length(bytes[i]) = 1 THEN Strings!AsWchar(bytes[i])
        ELSE IF Length(bytes[i]) = 2 THEN ((At(i) % 32) * 64) + (At(i + 1) % 64)
        ELSE IF Length(bytes[i]) = 3
             THEN Strings!BitOr((At(i) % 16) * 256, (At(i + 1) % 64) * 64) + (At(i + 2) % 64)
        ELSE 63
  BY <1>2, <1>3 DEF Strings!Character
<1>5. Strings!Taken(bytes[i]) = IF Length(bytes[i]) <= 3 THEN Length(bytes[i]) ELSE 3
  BY <1>3 DEF Strings!Taken
<1> DEFINE e == Encoded(c)
<1>0. i + Len(e) <= Len(bytes) + 1
  BY DEF EncodedFrom
<1>6. \A k \in DOMAIN e : bytes[i + k - 1] = e[k]
  BY DEF EncodedFrom
<1>7. CASE c < 128
  <2>1. e = <<c>> BY <1>7 DEF Encoded
  <2>2. Len(e) = 1 /\ 1 \in DOMAIN e /\ e[1] = c BY <2>1
  <2> HIDE DEF e
  <2>3. i + 1 - 1 = i /\ i \in 1 .. Len(bytes) BY <1>0, <1>1, <2>2
  <2>4. bytes[i] = c BY <1>6, <2>2, <2>3
  <2>5. Length(bytes[i]) = 1 /\ Strings!AsWchar(bytes[i]) = c BY <2>4, <1>1, <1>7 DEF Strings!AsWchar
  <2> HIDE DEF Length, At
  <2> QED BY <1>1, <1>3, <1>4, <1>5, <2>2, <2>3, <2>4, <2>5 DEF e
<1>8. CASE ~(c < 128) /\ c < 2048
  <2>1. e = <<192 + (c \div 64), 128 + (c % 64)>> BY <1>8 DEF Encoded
  <2>2. Len(e) = 2 /\ 1 \in DOMAIN e /\ 2 \in DOMAIN e /\ e[1] = 192 + (c \div 64) /\ e[2] = 128 + (c % 64)
    BY <2>1
  <2> HIDE DEF e
  <2>3. i + 1 - 1 = i /\ i + 2 - 1 = i + 1 /\ i \in 1 .. Len(bytes) /\ i + 1 \in 1 .. Len(bytes)
    BY <1>0, <1>1, <2>2
  <2>4. bytes[i] = 192 + (c \div 64) /\ bytes[i + 1] = 128 + (c % 64) BY <1>6, <2>2, <2>3
  <2>5. At(i) = 192 + (c \div 64) /\ At(i + 1) = 128 + (c % 64) BY <2>3, <2>4, <1>1
  <2> DEFINE x == c \div 64
             z == c % 64
  <2>6. /\ x \in Nat /\ 2 <= x /\ x <= 31 /\ z \in Nat /\ z < 64 /\ x * 64 + z = c
    <3>1. 128 <= c BY <1>1, <1>8
    <3> QED BY <3>1, <1>1, <1>8, TwoParts
  <2> HIDE DEF At
  <2>7. Length(bytes[i]) = 2
    <3> HIDE DEF x
    <3> QED BY <2>4, <2>6 DEF x
  <2>8. At(i) % 32 = x /\ At(i + 1) % 64 = z
    <3>1. At(i) = 192 + x /\ At(i + 1) = 128 + z BY <2>5
    <3> HIDE DEF x, z
    <3>2. (192 + x) % 32 = x BY <2>6
    <3>3. (128 + z) % 64 = z BY <2>6
    <3> QED BY <3>1, <3>2, <3>3
  <2> HIDE DEF Length, x, z
  <2>9. Strings!Character(bytes, i) = c BY <1>4, <2>6, <2>7, <2>8
  <2> QED BY <1>1, <1>3, <1>5, <2>2, <2>3, <2>7, <2>9 DEF e
<1>9. CASE ~(c < 2048)
  <2> DEFINE x == c \div 4096
             y == (c \div 64) % 64
             z == c % 64
  <2>1. e = <<224 + x, 128 + y, 128 + z>> BY <1>1, <1>9 DEF Encoded
  <2>2. x \in Nibble /\ y \in Sextet /\ z \in Sextet /\ ~(x = 0 /\ y = 0)
    <3>1. 2048 <= c /\ c < Plane BY <1>1, <1>9
    <3> QED BY <1>1, <3>1, ThreeParts
  <2> HIDE DEF x, y, z
  <2>3. /\ Len(e) = 3 /\ 1 \in DOMAIN e /\ 2 \in DOMAIN e /\ 3 \in DOMAIN e
        /\ e[1] = 224 + x /\ e[2] = 128 + y /\ e[3] = 128 + z
    BY <2>1
  <2> HIDE DEF e
  <2>4. /\ i + 1 - 1 = i /\ i + 2 - 1 = i + 1 /\ i + 3 - 1 = i + 2
        /\ i \in 1 .. Len(bytes) /\ i + 1 \in 1 .. Len(bytes) /\ i + 2 \in 1 .. Len(bytes)
    BY <1>0, <1>1, <2>3
  <2>5. bytes[i] = 224 + x /\ bytes[i + 1] = 128 + y /\ bytes[i + 2] = 128 + z BY <1>6, <2>3, <2>4
  <2>6. At(i) = 224 + x /\ At(i + 1) = 128 + y /\ At(i + 2) = 128 + z BY <2>4, <2>5, <1>1
  <2>12. x \in Nat /\ x <= 15 /\ y \in Nat /\ y <= 63 /\ z \in Nat /\ z <= 63
    BY <2>2 DEF Nibble, Sextet
  <2>7. Length(bytes[i]) = 3 BY <2>12, <2>5
  <2> HIDE DEF At
  <2>8. At(i) % 16 = x /\ At(i + 1) % 64 = y /\ At(i + 2) % 64 = z
    <3>1. (224 + x) % 16 = x BY <2>12
    <3>2. (128 + y) % 64 = y /\ (128 + z) % 64 = z BY <2>12
    <3> QED BY <2>6, <3>1, <3>2
  <2> HIDE DEF Length, At
  <2>9. Strings!Character(bytes, i) = Strings!BitOr(x * 256, y * 64) + z BY <1>4, <2>7, <2>8
  <2>10. Strings!BitOr(x * 256, y * 64) \in Nat /\ (Strings!BitOr(x * 256, y * 64) = 0 => x = 0 /\ y = 0)
    BY <2>2, OrAssumption
  <2>11. Strings!Character(bytes, i) \in Nat \ {0}
    <3> DEFINE n == Strings!BitOr(x * 256, y * 64)
    <3>1. n \in Nat /\ n # 0 BY <2>10, <2>2
    <3> HIDE DEF n
    <3>2. n + z \in Nat \ {0} BY <3>1, <2>12
    <3> QED BY <3>2, <2>9 DEF n
  <2> QED BY <1>1, <1>3, <1>5, <1>9, <2>3, <2>4, <2>7, <2>11 DEF e
<1> QED BY <1>1, <1>7, <1>8, <1>9

\* Each character is encoded from its place on, which is inside of the bytes.
LEMMA PlaceIs ==
  ASSUME NEW u, NEW place, Utf8(u, place), NEW i \in 1 .. Len(u.text)
  PROVE  /\ EncodedFrom(u.bytes, place[i], u.text[i])
         /\ place[i] \in Nat \ {0} /\ place[i + 1] = place[i] + Len(Encoded(u.text[i]))
<1> DEFINE t == u.text
           b == u.bytes
           n == Len(t)
           l == Len(b)
           e == Encoded(t[i])
<1>1. t \in Seq(Nat \ {0}) /\ b \in Seq(Nat) /\ EncodedAt(u, place)
  BY Zenon DEF Utf8
<1>2. place \in [1 .. n + 1 -> 1 .. l + 1]
  BY Zenon DEF Utf8
<1>3. i \in 1 .. n OBVIOUS
<1>4. \A k \in DOMAIN t : /\ t[k] < Plane /\ place[k + 1] = place[k] + Len(Encoded(t[k]))
                          /\ \A j \in DOMAIN Encoded(t[k]) : b[place[k] + j - 1] = Encoded(t[k])[j]
  BY <1>1 DEF EncodedAt
<1> HIDE DEF t, b
<1>5. n \in Nat /\ l \in Nat /\ DOMAIN t = 1 .. n
  BY <1>1
<1>6. t[i] \in Nat \ {0} /\ t[i] < Plane
  <2>1. i \in DOMAIN t BY <1>3, <1>5
  <2>2. t[i] < Plane BY <2>1, <1>4, Zenon
  <2>3. t[i] \in Nat \ {0}
    <3> DEFINE T == Nat \ {0}
    <3>1. t \in Seq(T) BY <1>1
    <3> HIDE DEF T
    <3>2. t[i] \in T BY <3>1, <1>3
    <3> QED BY <3>2 DEF T
  <2> QED BY <2>2, <2>3
<1>7. place[i + 1] = place[i] + Len(e) /\ \A k \in DOMAIN e : b[place[i] + k - 1] = e[k]
  <2>1. i \in DOMAIN t BY <1>3, <1>5
  <2> QED BY <2>1, <1>4, Zenon
<1> HIDE DEF e, n, l
<1>8. i \in 1 .. n + 1 /\ i + 1 \in 1 .. n + 1 BY <1>3, <1>5
<1>9. place[i] \in 1 .. l + 1 /\ place[i + 1] \in 1 .. l + 1 BY <1>2, <1>8
<1>10. place[i] + Len(e) <= l + 1
  <2>1. place[i] + Len(e) \in 1 .. l + 1 BY <1>7, <1>9
  <2> QED BY <2>1, <1>5
<1>11. place[i] \in Nat \ {0} BY <1>5, <1>9
<1>12. EncodedFrom(b, place[i], t[i])
  BY <1>1, <1>6, <1>7, <1>10, <1>11, Zenon DEF EncodedFrom, e, l
<1> QED BY <1>7, <1>11, <1>12 DEF b, t, e

\* Where char is unsigned, UTF-8 is decoded to its text.
LEMMA UnsignedPlaced ==
  ASSUME char = "unsigned", NEW u, NEW place, Utf8(u, place)
  PROVE  Placed(u.bytes, u.text, place)
<1> DEFINE b == u.bytes
           t == u.text
<1>1. /\ t \in Seq(Nat \ {0}) /\ b \in Seq(Nat) /\ EncodedAt(u, place)
      /\ place \in [1 .. Len(t) + 1 -> 1 .. Len(b) + 1]
  BY Zenon DEF Utf8
<1>2. place[1] = 1 /\ place[Len(t) + 1] = Len(b) + 1
  BY <1>1 DEF EncodedAt
<1>3. ASSUME NEW i \in 1 .. Len(t)
      PROVE  /\ place[i] \in 1 .. Len(b) /\ place[i + 1] = place[i] + Strings!Lead(b[place[i]])
             /\ Strings!Taken(b[place[i]]) = Strings!Lead(b[place[i]])
             /\ Strings!Character(b, place[i]) \in Nat \ {0}
             /\ t[i] < 2048 => Strings!Character(b, place[i]) = t[i]
  <2>1. EncodedFrom(b, place[i], t[i]) /\ place[i + 1] = place[i] + Len(Encoded(t[i]))
    BY PlaceIs
  <2> HIDE DEF b, t
  <2> QED BY <2>1, CharacterIs
<1> HIDE DEF b, t
<1>4. Len(t) \in Nat /\ Len(b) \in Nat BY <1>1
<1>5. Placed(b, t, place)
  BY <1>1, <1>2, <1>3, <1>4, Zenon DEF Placed
<1> QED BY <1>5 DEF b, t

\* Where it is signed, each byte is.
LEMMA SignedPlaced ==
  ASSUME char = "signed", NEW b \in Seq(Nat), \A i \in DOMAIN b : b[i] \in 1 .. 255
  PROVE  LET t == [i \in DOMAIN b |-> Strings!AsWchar(Strings!AsChar(b[i]))]
         IN Placed(b, t, [i \in 1 .. Len(b) + 1 |-> i])
<1> DEFINE l == Len(b)
           t == [i \in DOMAIN b |-> Strings!AsWchar(Strings!AsChar(b[i]))]
           place == [i \in 1 .. l + 1 |-> i]
           C == Nat \ {0}
<1>1. l \in Nat /\ DOMAIN b = 1 .. l /\ \A i \in 1 .. l : b[i] \in 1 .. 255
  <2>1. l \in Nat /\ DOMAIN b = 1 .. l OBVIOUS
  <2> QED BY <2>1
<1>2. ASSUME NEW n \in 1 .. 255
      PROVE  /\ Strings!Lead(n) = 1 /\ Strings!AsWchar(Strings!AsChar(n)) \in Nat \ {0}
  <2>1. Strings!AsChar(n) = IF n >= 128 THEN n - 256 ELSE n BY DEF Strings!AsChar
  <2> QED BY <2>1 DEF Strings!Lead, Strings!AsWchar
<1>3. \A i \in 1 .. l : t[i] = Strings!AsWchar(Strings!AsChar(b[i])) /\ t[i] \in Nat \ {0}
  BY <1>1, <1>2
<1>4. t \in Seq(Nat \ {0}) /\ Len(t) = l
  <2>1. t \in [1 .. l -> C] BY <1>1, <1>2
  <2> HIDE DEF t, C
  <2>2. t \in Seq(C) /\ Len(t) = l BY <2>1, <1>1
  <2> QED BY <2>2 DEF C
<1>5. ASSUME NEW i \in 1 .. l
      PROVE  Strings!Lead(b[i]) = 1 /\ Strings!Taken(b[i]) = 1 /\ Strings!Character(b, i) = t[i]
  <2>1. Strings!Lead(b[i]) = 1 BY <1>1, <1>2
  <2> QED BY <2>1, <1>3 DEF Strings!Taken, Strings!Character
<1> HIDE DEF t
<1>6. /\ place \in [1 .. Len(t) + 1 -> 1 .. l + 1] /\ place[1] = 1 /\ place[Len(t) + 1] = l + 1
      /\ \A i \in 1 .. Len(t) : place[i] = i /\ place[i + 1] = i + 1
  BY <1>1, <1>4
<1> HIDE DEF place
<1>7. Placed(b, t, place)
  BY <1>1, <1>3, <1>4, <1>5, <1>6 DEF Placed
<1> QED BY <1>7 DEF t, place

\* Every number below n+1 has a property if all do that are followed by one that
\* has it, n+1 being such a one.
LEMMA BackwardsAll ==
  ASSUME NEW n \in Nat, NEW S, n + 1 \in S, \A i \in 1 .. n : i + 1 \in S => i \in S
  PROVE  1 \in S
<1> DEFINE Bad == {d \in Nat : d <= n /\ n + 1 - d \notin S}
<1>1. ASSUME Bad # {} PROVE FALSE
  <2>1. Bad \in SUBSET Nat OBVIOUS
  <2> HIDE DEF Bad
  <2>2. PICK d \in Bad : \A k \in Bad : d <= k BY <1>1, <2>1, SmallestNumber
  <2>3. d \in Nat /\ d <= n /\ n + 1 - d \notin S BY <2>2 DEF Bad
  <2>4. d # 0
    <3>1. n + 1 - 0 = n + 1 OBVIOUS
    <3> QED BY <3>1, <2>3
  <2>5. d - 1 \in Nat /\ d - 1 <= n /\ ~(d <= d - 1) BY <2>3, <2>4
  <2>6. d - 1 \notin Bad BY <2>2, <2>5
  <2>7. n + 1 - (d - 1) \in S BY <2>5, <2>6 DEF Bad
  <2> DEFINE i == n + 1 - d
  <2>8. i \in 1 .. n /\ n + 1 - (d - 1) = i + 1 BY <2>3, <2>4
  <2> QED BY <2>3, <2>7, <2>8
<1>2. n \notin Bad BY <1>1
<1>3. n + 1 - n \in S BY <1>2
<1>4. n + 1 - n = 1 OBVIOUS
<1> QED BY <1>3, <1>4

\* A byte stands for as many bytes as a sequence that begins with it has.
LEMMA LeadIs ==
  ASSUME NEW b
  PROVE  Strings!Lead(b) \in 1 .. 6 /\ Strings!Taken(b) \in 1 .. 3
<1>1. Strings!Lead(b) \in {1, 2, 3, 4, 5, 6}
  BY DEF Strings!Lead
<1> QED BY <1>1 DEF Strings!Taken

\* The number of characters that are counted, and the terminator.
LEMMA Utf8LengthIs ==
  ASSUME NEW b, NEW t, NEW place, Placed(b, t, place)
  PROVE  Strings!Utf8Length(b) = Len(t) + 1
<1> DEFINE l == Len(b)
           n == Len(t)
           Lead(i) == Strings!Lead(b[i])
           F == CHOOSE f : f = [i \in 1 .. l + 6 |-> IF i > l THEN 1 ELSE 1 + f[i + Lead(i)]]
           next == [i \in 1 .. l |-> i + Lead(i)]
           step == [p \in (1 .. l) \X Nat |-> 1 + p[2]]
<1>1. Strings!Utf8Length(b) = F[1]
  BY DEF Strings!Utf8Length
<1>2. l \in Nat /\ n \in Nat /\ place \in [1 .. n + 1 -> 1 .. l + 1]
  BY Zenon DEF Placed
<1>3. \A i \in 1 .. n : place[i] \in 1 .. l /\ place[i + 1] = place[i] + Lead(place[i])
  BY Zenon DEF Placed
<1>4. place[1] = 1 /\ place[n + 1] = l + 1
  BY Zenon DEF Placed
<1>5. \A i : Lead(i) \in 1 .. 6
  BY LeadIs
<1> HIDE DEF l, n, Lead
<1>6. \E f : f = [i \in 1 .. l + 6 |-> IF i > l THEN 1 ELSE 1 + f[i + Lead(i)]]
  <2>1. next \in [1 .. l -> 1 .. l + 6] /\ \A i \in 1 .. l : i < next[i]
    <3>1. ASSUME NEW i \in 1 .. l PROVE i + Lead(i) \in 1 .. l + 6 /\ i < i + Lead(i)
      <4>1. Lead(i) \in 1 .. 6 BY <1>5
      <4> QED BY <4>1, <1>2
    <3> QED BY <3>1
  <2>2. step \in [(1 .. l) \X Nat -> Nat]
    OBVIOUS
  <2>3. \A i \in 1 .. l : next[i] = i + Lead(i)
    OBVIOUS
  <2>4. \A i \in 1 .. l, v \in Nat : step[<<i, v>>] = 1 + v
    OBVIOUS
  <2> HIDE DEF next, step
  <2>5. l + 6 \in Nat /\ l < l + 6 BY <1>2
  <2>6. PICK f : Descends(f, l + 6, l, 1, next, step)
    BY <1>2, <2>1, <2>5, DescentExists
  <2>7. /\ f = [i \in 1 .. l + 6 |-> f[i]]
        /\ \A i \in 1 .. l + 6 : f[i] \in Nat /\ f[i] = IF i > l THEN 1 ELSE step[<<i, f[next[i]]>>]
    <3>1. Descended(f, l + 6, l, Nat, 1, next, step)
      BY <1>2, <2>1, <2>2, <2>5, <2>6, DescentTyped
    <3> QED BY <3>1 DEF Descended
  <2> DEFINE Value(i) == IF i > l THEN 1 ELSE 1 + f[i + Lead(i)]
  <2>8. ASSUME NEW i \in 1 .. l + 6 PROVE f[i] = Value(i)
    <3>1. ~(i > l) => i \in 1 .. l /\ next[i] \in 1 .. l + 6 BY <1>2, <2>1
    <3> QED BY <3>1, <2>3, <2>4, <2>7
  <2> HIDE DEF Value
  <2> QED BY <2>7, <2>8 DEF Value
<1>7. F = [i \in 1 .. l + 6 |-> IF i > l THEN 1 ELSE 1 + F[i + Lead(i)]]
  BY <1>6
<1> HIDE DEF F
<1>8. \A i \in 1 .. l + 6 : F[i] = IF i > l THEN 1 ELSE 1 + F[i + Lead(i)]
  <2> DEFINE Value(i) == IF i > l THEN 1 ELSE 1 + F[i + Lead(i)]
  <2>1. F = [i \in 1 .. l + 6 |-> Value(i)] BY <1>7
  <2> HIDE DEF Value
  <2>2. \A i \in 1 .. l + 6 : F[i] = Value(i) BY <2>1
  <2> QED BY <2>2 DEF Value
<1> DEFINE S == {i \in 1 .. n + 1 : F[place[i]] = (n + 1 - i) + 1}
<1>9. n + 1 \in S
  <2>1. l + 1 \in 1 .. l + 6 /\ l + 1 > l /\ n + 1 \in 1 .. n + 1 /\ (n + 1 - (n + 1)) + 1 = 1 BY <1>2
  <2>2. F[l + 1] = 1 BY <2>1, <1>8
  <2> QED BY <2>1, <2>2, <1>4
<1>10. ASSUME NEW i \in 1 .. n, i + 1 \in S PROVE i \in S
  <2>1. place[i] \in 1 .. l /\ place[i + 1] = place[i] + Lead(place[i]) BY <1>3
  <2>2. place[i] \in 1 .. l + 6 /\ ~(place[i] > l) BY <1>2, <2>1
  <2>3. F[place[i]] = 1 + F[place[i + 1]] BY <2>1, <2>2, <1>8
  <2>4. F[place[i + 1]] = (n + 1 - (i + 1)) + 1 BY <1>10
  <2>5. 1 + ((n + 1 - (i + 1)) + 1) = (n + 1 - i) + 1 /\ i \in 1 .. n + 1 BY <1>2
  <2> QED BY <2>3, <2>4, <2>5
<1> HIDE DEF S
<1>11. 1 \in S BY <1>2, <1>9, <1>10, BackwardsAll
<1>12. F[1] = (n + 1 - 1) + 1 BY <1>4, <1>11 DEF S
<1> QED BY <1>1, <1>2, <1>12 DEF n

\* A character in front of an ending makes a longer one.
LEMMA EndingGrows ==
  ASSUME NEW n \in Nat, NEW d \in [1 .. n -> Nat], NEW i \in 1 .. n, NEW w, Ending(w, d, i + 1, n)
  PROVE  Ending(<<d[i]>> \o w, d, i, n)
<1> DEFINE m == n - i
           x == <<d[i]>>
           y == x \o w
<1>1. m \in Nat /\ n + 1 - (i + 1) = m /\ n + 1 - i = m + 1
  OBVIOUS
<1>2. w \in Seq(Nat) /\ Len(w) = m + 1 /\ w[m + 1] = 0 /\ \A k \in 1 .. m : w[k] = d[(i + 1) + k - 1]
  BY <1>1 DEF Ending
<1> HIDE DEF m
<1>3. x \in Seq(Nat) /\ Len(x) = 1 /\ x[1] = d[i]
  OBVIOUS
<1> HIDE DEF x
<1>4. /\ y \in Seq(Nat) /\ Len(y) = m + 2 /\ y[1] = x[1]
      /\ \A k \in 1 .. m + 1 : y[1 + k] = w[k]
  <2>1. y \in Seq(Nat) BY <1>2, <1>3, ConcatProperties
  <2>2. Len(y) = Len(x) + Len(w) /\ \A k \in 1 .. Len(x) + Len(w) : y[k] = IF k <= Len(x) THEN x[k] ELSE w[k - Len(x)]
    BY <1>2, <1>3, ConcatProperties
  <2>3. Len(y) = m + 2 /\ 1 \in 1 .. Len(x) + Len(w) BY <2>2, <1>1, <1>2, <1>3
  <2>4. y[1] = x[1] BY <2>2, <2>3, <1>3
  <2>5. ASSUME NEW k \in 1 .. m + 1 PROVE y[1 + k] = w[k]
    <3>1. 1 + k \in 1 .. Len(x) + Len(w) /\ ~(1 + k <= Len(x)) /\ (1 + k) - Len(x) = k
      BY <1>1, <1>2, <1>3
    <3> HIDE DEF y
    <3> QED BY <3>1, <2>2
  <2> QED BY <2>1, <2>3, <2>4, <2>5
<1> HIDE DEF y
<1>5. y[(m + 1) + 1] = 0
  <2>1. m + 1 \in 1 .. m + 1 /\ 1 + (m + 1) = (m + 1) + 1 BY <1>1
  <2> QED BY <2>1, <1>2, <1>4
<1>6. ASSUME NEW k \in 1 .. m + 1 PROVE y[k] = d[i + k - 1]
  <2>1. CASE k = 1
    <3>1. i + 1 - 1 = i OBVIOUS
    <3> QED BY <2>1, <3>1, <1>3, <1>4
  <2>2. CASE k # 1
    <3>1. k - 1 \in 1 .. m /\ k - 1 \in 1 .. m + 1 /\ 1 + (k - 1) = k /\ (i + 1) + (k - 1) - 1 = i + k - 1
      BY <1>1, <2>2
    <3>2. y[1 + (k - 1)] = w[k - 1] BY <3>1, <1>4
    <3>3. w[k - 1] = d[(i + 1) + (k - 1) - 1] BY <3>1, <1>2
    <3> QED BY <3>1, <3>2, <3>3
  <2> QED BY <2>1, <2>2
<1>7. Len(y) = (m + 1) + 1 BY <1>1, <1>4
<1>8. Ending(y, d, i, n)
  BY <1>1, <1>4, <1>5, <1>6, <1>7 DEF Ending
<1> QED BY <1>8 DEF y, x

\* The characters of a text in UTF-8 are decoded one by one.
LEMMA DecodedIs ==
  ASSUME NEW b, NEW t, NEW place, Placed(b, t, place)
  PROVE  Reads(Strings!Decoded(b), t)
<1> DEFINE l == Len(b)
           n == Len(t)
           Char(i) == Strings!Character(b, i)
           Taken(i) == Strings!Taken(b[i])
           F == CHOOSE f : f = [i \in 1 .. l + 3 |-> IF i > l THEN <<0>> ELSE <<Char(i)>> \o f[i + Taken(i)]]
           next == [i \in 1 .. l |-> i + Taken(i)]
           V == Seq({Char(i) : i \in 1 .. l} \cup {0})
           step == [p \in (1 .. l) \X V |-> <<Char(p[1])>> \o p[2]]
<1>1. Strings!Decoded(b) = F[1]
  BY DEF Strings!Decoded, Strings!Nul
<1>2. l \in Nat /\ n \in Nat /\ place \in [1 .. n + 1 -> 1 .. l + 1]
  BY Zenon DEF Placed
<1>3. \A i \in 1 .. n :
        /\ place[i] \in 1 .. l /\ place[i + 1] = place[i] + Taken(place[i])
        /\ Char(place[i]) \in Nat \ {0} /\ (t[i] < 2048 => Char(place[i]) = t[i])
  <2>1. \A i \in 1 .. n :
          /\ place[i] \in 1 .. l /\ place[i + 1] = place[i] + Strings!Lead(b[place[i]])
          /\ Taken(place[i]) = Strings!Lead(b[place[i]])
          /\ Char(place[i]) \in Nat \ {0}
          /\ t[i] < 2048 => Char(place[i]) = t[i]
    BY Zenon DEF Placed
  <2> HIDE DEF l, n, Char, Taken
  <2> QED BY <2>1
<1>4. place[1] = 1 /\ place[n + 1] = l + 1
  BY Zenon DEF Placed
<1>5. \A i : Taken(i) \in 1 .. 3
  BY LeadIs
<1> HIDE DEF l, n, Char, Taken
<1>6. \E f : f = [i \in 1 .. l + 3 |-> IF i > l THEN <<0>> ELSE <<Char(i)>> \o f[i + Taken(i)]]
  <2>1. next \in [1 .. l -> 1 .. l + 3] /\ \A i \in 1 .. l : i < next[i]
    <3>1. ASSUME NEW i \in 1 .. l PROVE i + Taken(i) \in 1 .. l + 3 /\ i < i + Taken(i)
      <4>1. Taken(i) \in 1 .. 3 BY <1>5
      <4> QED BY <4>1, <1>2
    <3> QED BY <3>1
  <2>2. step \in [(1 .. l) \X V -> V]
    <3> DEFINE C == {Char(i) : i \in 1 .. l} \cup {0}
    <3>1. \A i \in 1 .. l : Char(i) \in C OBVIOUS
    <3> HIDE DEF C
    <3>2. \A i \in 1 .. l : <<Char(i)>> \in Seq(C) BY <3>1
    <3>3. \A i \in 1 .. l, v \in Seq(C) : <<Char(i)>> \o v \in Seq(C) BY <3>2, ConcatProperties
    <3> QED BY <3>3 DEF C
  <2>3. \A i \in 1 .. l : next[i] = i + Taken(i)
    OBVIOUS
  <2>4. \A i \in 1 .. l, v \in V : step[<<i, v>>] = <<Char(i)>> \o v
    OBVIOUS
  <2>5. <<0>> \in V
    OBVIOUS
  <2> HIDE DEF next, step, V
  <2>6. l + 3 \in Nat /\ l < l + 3 BY <1>2
  <2>7. PICK f : Descends(f, l + 3, l, <<0>>, next, step)
    BY <1>2, <2>1, <2>6, DescentExists
  <2>8. /\ f = [i \in 1 .. l + 3 |-> f[i]]
        /\ \A i \in 1 .. l + 3 : f[i] \in V /\ f[i] = IF i > l THEN <<0>> ELSE step[<<i, f[next[i]]>>]
    <3>1. Descended(f, l + 3, l, V, <<0>>, next, step)
      BY <1>2, <2>1, <2>2, <2>5, <2>6, <2>7, DescentTyped
    <3> QED BY <3>1 DEF Descended
  <2> DEFINE Value(i) == IF i > l THEN <<0>> ELSE <<Char(i)>> \o f[i + Taken(i)]
  <2>9. ASSUME NEW i \in 1 .. l + 3 PROVE f[i] = Value(i)
    <3>1. ~(i > l) => i \in 1 .. l /\ next[i] \in 1 .. l + 3 BY <1>2, <2>1
    <3> QED BY <3>1, <2>3, <2>4, <2>8
  <2> HIDE DEF Value
  <2> QED BY <2>8, <2>9 DEF Value
<1>7. F = [i \in 1 .. l + 3 |-> IF i > l THEN <<0>> ELSE <<Char(i)>> \o F[i + Taken(i)]]
  BY <1>6
<1> HIDE DEF F
<1>8. \A i \in 1 .. l + 3 : F[i] = IF i > l THEN <<0>> ELSE <<Char(i)>> \o F[i + Taken(i)]
  <2> DEFINE Value(i) == IF i > l THEN <<0>> ELSE <<Char(i)>> \o F[i + Taken(i)]
  <2>1. F = [i \in 1 .. l + 3 |-> Value(i)] BY <1>7
  <2> HIDE DEF Value
  <2>2. \A i \in 1 .. l + 3 : F[i] = Value(i) BY <2>1
  <2> QED BY <2>2 DEF Value
<1> DEFINE d == [i \in 1 .. n |-> Char(place[i])]
           S == {i \in 1 .. n + 1 : Ending(F[place[i]], d, i, n)}
<1>9. d \in [1 .. n -> Nat] /\ \A i \in 1 .. n : d[i] = Char(place[i]) /\ d[i] # 0 /\ (t[i] < 2048 => d[i] = t[i])
  BY <1>3
<1> HIDE DEF d
<1>10. n + 1 \in S
  <2>1. l + 1 \in 1 .. l + 3 /\ l + 1 > l /\ n + 1 \in 1 .. n + 1 /\ n + 1 - (n + 1) = 0 BY <1>2
  <2>2. F[place[n + 1]] = <<0>> BY <2>1, <1>4, <1>8
  <2> DEFINE w == <<0>>
  <2>3. w \in Seq(Nat) /\ Len(w) = 0 + 1 /\ w[0 + 1] = 0 /\ \A k \in 1 .. 0 : w[k] = d[n + 1 + k - 1]
    OBVIOUS
  <2> HIDE DEF w
  <2>4. Ending(w, d, n + 1, n) BY <2>1, <2>3 DEF Ending
  <2> QED BY <2>1, <2>2, <2>4 DEF w
<1>11. ASSUME NEW i \in 1 .. n, i + 1 \in S PROVE i \in S
  <2>1. place[i] \in 1 .. l /\ place[i + 1] = place[i] + Taken(place[i]) BY <1>3
  <2>2. place[i] \in 1 .. l + 3 /\ ~(place[i] > l) BY <1>2, <2>1
  <2>3. F[place[i]] = <<Char(place[i])>> \o F[place[i + 1]] BY <2>1, <2>2, <1>8
  <2>4. Ending(F[place[i + 1]], d, i + 1, n) BY <1>11
  <2>5. Ending(<<d[i]>> \o F[place[i + 1]], d, i, n) BY <1>2, <1>9, <2>4, EndingGrows
  <2>6. Ending(F[place[i]], d, i, n) BY <2>3, <2>5, <1>9
  <2>7. i \in 1 .. n + 1 BY <1>2
  <2> QED BY <2>6, <2>7
<1> HIDE DEF S
<1>12. 1 \in S BY <1>2, <1>10, <1>11, BackwardsAll
<1>13. Ending(F[1], d, 1, n) BY <1>4, <1>12 DEF S
<1> DEFINE w == F[1]
<1>14. w \in Seq(Nat) /\ Len(w) = n + 1 /\ w[n + 1] = 0 /\ \A k \in 1 .. n : w[k] = d[k]
  <2>1. n + 1 - 1 = n /\ \A k \in 1 .. n : 1 + k - 1 = k BY <1>2
  <2> HIDE DEF w
  <2>2. Ending(w, d, 1, n) BY <1>13 DEF w
  <2>3. /\ w \in Seq(Nat) /\ Len(w) = (n + 1 - 1) + 1 /\ w[(n + 1 - 1) + 1] = 0
        /\ \A k \in 1 .. (n + 1 - 1) : w[k] = d[1 + k - 1]
    BY <2>2 DEF Ending
  <2> QED BY <2>1, <2>3
<1>15. \A i \in 1 .. n : w[i] # 0 /\ (t[i] < 2048 => w[i] = t[i])
  BY <1>9, <1>14
<1> HIDE DEF n
<1>16. w \in Seq(Nat) /\ Len(w) = Len(t) + 1 /\ w[Len(t) + 1] = 0
  BY <1>14, Zenon DEF n
<1>17. \A i \in 1 .. Len(t) : w[i] # 0 /\ (t[i] < 2048 => w[i] = t[i])
  BY <1>15, Zenon DEF n
<1>18. Reads(w, t)
  BY <1>16, <1>17, Zenon DEF Reads
<1> QED BY <1>1, <1>18, Zenon DEF w

\* A text in UTF-8.
LEMMA FromUtf8Keeps ==
  ASSUME StoreInv, NEW u \in Utf8Texts, Strings!FromUtf8(u)
  PROVE  StoreInv'
<1> DEFINE chars == Strings!Given(u)
           n == Len(chars)
           w == Strings!Decoded(u.bytes)
           e == Strings!Allocate(n + 1)
           c == Strings!Copy(e, 1, w, 1, n + 1)
<1>1. /\ chars \in Seq(Nat \ {0}) /\ n \in Nat /\ w \in Seq(Nat) /\ Len(w) = n + 1 /\ w[n + 1] = 0
      /\ Strings!Utf8Length(u.bytes) = n + 1
      /\ \A i \in 1 .. n : w[i] # 0 /\ (chars[i] < 2048 => w[i] = chars[i])
  <2>1. /\ u.text \in Seq(Nat \ {0}) /\ u.bytes \in Seq(Nat)
        /\ \A i \in DOMAIN u.bytes : u.bytes[i] \in 1 .. 255
        /\ \E place \in [1 .. Len(u.text) + 1 -> 1 .. Len(u.bytes) + 1] : EncodedAt(u, place)
    BY TextAssumption, Zenon
  <2>2. PICK place : Placed(u.bytes, chars, place)
    <3>1. CASE char = "signed"
      BY <2>1, <3>1, SignedPlaced, Zenon DEF Strings!Given
    <3>2. CASE char = "unsigned"
      <4>1. char # "signed" BY <3>2
      <4>2. \E place : Utf8(u, place) BY <2>1, Zenon DEF Utf8
      <4> QED BY <3>2, <4>1, <4>2, UnsignedPlaced, Zenon DEF Strings!Given
    <3> QED BY <3>1, <3>2 DEF StoreInv
  <2>3. chars \in Seq(Nat \ {0}) /\ n \in Nat BY <2>2, Zenon DEF Placed
  <2>4. Strings!Utf8Length(u.bytes) = n + 1 BY <2>2, Utf8LengthIs
  <2>5. Reads(w, chars) BY <2>2, DecodedIs, Zenon
  <2> QED BY <2>3, <2>4, <2>5, Zenon DEF Reads
<1>2. Strings!Made(c, chars)
  BY <1>1 DEF Strings!FromUtf8
<1> HIDE DEF n, w, chars
<1>3. n + 1 \in Nat /\ e \in [1 .. n + 1 -> Int] /\ w \in [1 .. n + 1 -> Int]
  <2>1. n + 1 \in Nat BY <1>1
  <2>2. e \in [1 .. n + 1 -> Int] BY <2>1, AllocateIs
  <2> HIDE DEF e
  <2>3. w \in [1 .. n + 1 -> Int] BY <1>1
  <2> QED BY <2>1, <2>2, <2>3
<1> HIDE DEF e
<1>4. c = Strings!Copy(e, 1, w, 1, n + 1)
  OBVIOUS
<1> HIDE DEF c
<1>5. c \in [1 .. n + 1 -> Int] /\ Same(c, 0, w, 0, n + 1)
  <2>1. Copied(c, n + 1, e, 0, n + 1, w, 0, n + 1) BY <1>1, <1>3, <1>4 DEF Copied
  <2> QED BY <2>1, CopyIs
<1>6. \A k \in 1 .. n + 1 : c[k] = w[k]
  BY <1>5 DEF Same
<1>7. c[n + 1] = 0 /\ Holds(c, chars, n)
  <2>1. n + 1 \in 1 .. n + 1 /\ \A i \in 1 .. n : i \in 1 .. n + 1 BY <1>1
  <2> QED BY <2>1, <1>1, <1>6 DEF Holds
<1>8. chars \in Seq(Nat \ {0}) /\ n = Len(chars)
  BY <1>1 DEF n
<1>9. Stores(c, chars)
  BY <1>5, <1>7, <1>8, BufferIs
<1> QED BY <1>2, <1>9, MadeKeeps DEF chars

\* Two buffers, the first without its terminator.
LEMMA JoinedStore ==
  ASSUME NEW f, NEW fs, Stores(f, fs), NEW g, NEW gs, Stores(g, gs), NEW m, m = Len(fs),
         NEW n, n = Len(gs), NEW h \in [1 .. m + n + 1 -> Int],
         Same(h, 0, f, 0, m), Same(h, m, g, 0, n + 1)
  PROVE  Stores(h, fs \o gs)
<1>1. /\ fs \in Seq(Nat \ {0}) /\ gs \in Seq(Nat \ {0}) /\ m \in Nat /\ n \in Nat
      /\ \A i \in 1 .. m : f[i] # 0 /\ (fs[i] < 2048 => f[i] = fs[i])
      /\ \A i \in 1 .. n : g[i] # 0 /\ (gs[i] < 2048 => g[i] = gs[i])
      /\ g[n + 1] = 0
  BY DEF Stores
<1>2. /\ fs \o gs \in Seq(Nat \ {0}) /\ Len(fs \o gs) = m + n
      /\ \A i \in 1 .. m : (fs \o gs)[i] = fs[i]
      /\ \A i \in 1 .. n : (fs \o gs)[m + i] = gs[i]
  BY <1>1
<1>3. (\A k \in 1 .. m : h[k] = f[k]) /\ (\A k \in 1 .. n + 1 : h[m + k] = g[k])
  BY DEF Same
<1> DEFINE x == fs \o gs
<1> HIDE DEF x
<1>4. h \in [1 .. (m + n) + 1 -> Int] /\ h[(m + n) + 1] = 0
  <2>1. n + 1 \in 1 .. n + 1 /\ m + (n + 1) = (m + n) + 1 /\ m + n + 1 = (m + n) + 1 BY <1>1
  <2> QED BY <2>1, <1>1, <1>3
<1>5. ASSUME NEW i \in 1 .. m + n PROVE h[i] # 0 /\ (x[i] < 2048 => h[i] = x[i])
  <2>1. CASE i <= m
    <3>1. i \in 1 .. m BY <1>1, <2>1
    <3>2. h[i] = f[i] /\ x[i] = fs[i] BY <3>1, <1>2, <1>3 DEF x
    <3> QED BY <3>1, <3>2, <1>1
  <2>2. CASE ~(i <= m)
    <3>1. i - m \in 1 .. n /\ m + (i - m) = i /\ i - m \in 1 .. n + 1 BY <1>1, <2>2
    <3>2. h[m + (i - m)] = g[i - m] BY <3>1, <1>3
    <3>3. x[m + (i - m)] = gs[i - m] BY <3>1, <1>2 DEF x
    <3>4. g[i - m] # 0 /\ (gs[i - m] < 2048 => g[i - m] = gs[i - m]) BY <3>1, <1>1
    <3> QED BY <3>1, <3>2, <3>3, <3>4
  <2> QED BY <2>1, <2>2
<1>6. x \in Seq(Nat \ {0}) /\ m + n = Len(x) /\ Holds(h, x, m + n)
  BY <1>2, <1>5 DEF x, Holds
<1>7. Stores(h, x)
  BY <1>4, <1>6, BufferIs
<1> QED BY <1>7 DEF x

\* The concatenation of two strings.
LEMMA Concat2Keeps ==
  ASSUME StoreInv, NEW a \in Strings!Range(store), NEW b \in Strings!Range(store), Strings!Concat2(a, b)
  PROVE  StoreInv'
<1> DEFINE m == Len(a.text)
           n == Len(b.text)
           size == m + n + 1
           e == Strings!Allocate(size)
           c == Strings!Copy(e, 1, a.cells, 1, m)
           d == Strings!Copy(c, m + 1, b.cells, 1, n + 1)
<1>1. /\ Stores(a.cells, a.text) /\ m \in Nat /\ Strings!wcslen(a.cells) = m /\ a.cells \in [1 .. m + 1 -> Int]
      /\ Stores(b.cells, b.text) /\ n \in Nat /\ Strings!wcslen(b.cells) = n /\ b.cells \in [1 .. n + 1 -> Int]
  BY StringIs
<1>2. Strings!Made(d, a.text \o b.text)
  BY <1>1 DEF Strings!Concat2
<1> HIDE DEF m, n
<1>3. /\ size \in Nat /\ 0 + m <= size /\ m + (n + 1) <= size /\ m + 1 \in Nat /\ n + 1 \in Nat
      /\ 0 + m <= m + 1 /\ 0 + (n + 1) <= n + 1 /\ 1 = 0 + 1
  BY <1>1
<1> HIDE DEF size
<1>4. e \in [1 .. size -> Int]
  BY <1>3, AllocateIs
<1> HIDE DEF e
<1>5. c = Strings!Copy(e, 1, a.cells, 1, m) /\ d = Strings!Copy(c, m + 1, b.cells, 1, n + 1)
  OBVIOUS
<1> HIDE DEF c, d
<1>6. c \in [1 .. size -> Int] /\ Same(c, 0, a.cells, 0, m)
  <2>1. Copied(c, size, e, 0, m + 1, a.cells, 0, m) BY <1>1, <1>3, <1>4, <1>5 DEF Copied
  <2> QED BY <2>1, CopyIs
<1>7. d \in [1 .. size -> Int] /\ Same(d, m, b.cells, 0, n + 1) /\ Same(d, 0, c, 0, m)
  <2>1. Copied(d, size, c, m, n + 1, b.cells, 0, n + 1) BY <1>1, <1>3, <1>5, <1>6 DEF Copied
  <2> QED BY <2>1, CopyIs
<1>8. Same(d, 0, a.cells, 0, m)
  BY <1>6, <1>7 DEF Same
<1>9. d \in [1 .. m + n + 1 -> Int] /\ m = Len(a.text) /\ n = Len(b.text)
  BY <1>7 DEF m, n, size
<1>10. Stores(d, a.text \o b.text)
  BY <1>1, <1>7, <1>8, <1>9, JoinedStore
<1> QED BY <1>2, <1>10, MadeKeeps

\* The concatenation of three strings.
LEMMA Concat3Keeps ==
  ASSUME StoreInv, NEW a \in Strings!Range(store), NEW b \in Strings!Range(store),
         NEW s \in Strings!Range(store), Strings!Concat3(a, b, s)
  PROVE  StoreInv'
<1> DEFINE l == Len(a.text)
           m == Len(b.text)
           n == Len(s.text)
           size == l + m + n + 1
           e == Strings!Allocate(size)
           c == Strings!Copy(e, 1, a.cells, 1, l)
           d == Strings!Copy(c, l + 1, b.cells, 1, m)
           f == Strings!Copy(d, l + m + 1, s.cells, 1, n + 1)
<1>1. /\ Stores(a.cells, a.text) /\ l \in Nat /\ Strings!wcslen(a.cells) = l /\ a.cells \in [1 .. l + 1 -> Int]
      /\ Stores(b.cells, b.text) /\ m \in Nat /\ Strings!wcslen(b.cells) = m /\ b.cells \in [1 .. m + 1 -> Int]
      /\ Stores(s.cells, s.text) /\ n \in Nat /\ Strings!wcslen(s.cells) = n /\ s.cells \in [1 .. n + 1 -> Int]
  BY StringIs
<1>2. Strings!Made(f, a.text \o b.text \o s.text)
  BY <1>1 DEF Strings!Concat3
<1> HIDE DEF l, m, n
<1> DEFINE lm == l + m
<1>3. /\ size \in Nat /\ 0 + l <= size /\ l + m <= size /\ lm + (n + 1) <= size /\ lm \in Nat
      /\ l + 1 \in Nat /\ m + 1 \in Nat /\ n + 1 \in Nat
      /\ 0 + l <= l + 1 /\ 0 + m <= m + 1 /\ 0 + (n + 1) <= n + 1 /\ 1 = 0 + 1
  BY <1>1
<1> HIDE DEF size
<1>4. e \in [1 .. size -> Int]
  BY <1>3, AllocateIs
<1> HIDE DEF e
<1>5. /\ c = Strings!Copy(e, 1, a.cells, 1, l) /\ d = Strings!Copy(c, l + 1, b.cells, 1, m)
      /\ f = Strings!Copy(d, lm + 1, s.cells, 1, n + 1)
  OBVIOUS
<1> HIDE DEF c, d, f, lm
<1>6. c \in [1 .. size -> Int] /\ Same(c, 0, a.cells, 0, l)
  <2>1. Copied(c, size, e, 0, l + 1, a.cells, 0, l) BY <1>1, <1>3, <1>4, <1>5 DEF Copied
  <2> QED BY <2>1, CopyIs
<1>7. d \in [1 .. size -> Int] /\ Same(d, l, b.cells, 0, m) /\ Same(d, 0, c, 0, l)
  <2>1. Copied(d, size, c, l, m + 1, b.cells, 0, m) BY <1>1, <1>3, <1>5, <1>6 DEF Copied
  <2> QED BY <2>1, CopyIs
<1>8. f \in [1 .. size -> Int] /\ Same(f, lm, s.cells, 0, n + 1) /\ Same(f, 0, d, 0, lm)
  <2>1. Copied(f, size, d, lm, n + 1, s.cells, 0, n + 1) BY <1>1, <1>3, <1>5, <1>7 DEF Copied
  <2> QED BY <2>1, CopyIs
<1>9. /\ \A k \in 1 .. l : f[k] = a.cells[k]
      /\ \A k \in 1 .. m : f[l + k] = b.cells[k]
      /\ \A k \in 1 .. n + 1 : f[l + (m + k)] = s.cells[k]
  <2>1. (\A k \in 1 .. l : k \in 1 .. lm) /\ (\A k \in 1 .. m : l + k \in 1 .. lm) BY <1>1 DEF lm
  <2>2. \A k \in 1 .. lm : f[k] = d[k] BY <1>8 DEF Same
  <2>3. (\A k \in 1 .. l : d[k] = a.cells[k]) /\ (\A k \in 1 .. m : d[l + k] = b.cells[k])
    BY <1>6, <1>7 DEF Same
  <2>4. \A k \in 1 .. n + 1 : f[lm + k] = s.cells[k] BY <1>8 DEF Same
  <2>5. \A k \in 1 .. n + 1 : lm + k = l + (m + k) BY <1>1 DEF lm
  <2> QED BY <2>1, <2>2, <2>3, <2>4, <2>5
\* The last two joined, then all of them.
<1> DEFINE g == [k \in 1 .. m + n + 1 |-> f[l + k]]
<1>10. g \in [1 .. m + n + 1 -> Int] /\ \A k \in 1 .. m + n + 1 : g[k] = f[l + k]
  <2>1. \A k \in 1 .. m + n + 1 : l + k \in 1 .. size BY <1>1 DEF size
  <2> QED BY <2>1, <1>8
<1> HIDE DEF g
<1>11. Same(g, 0, b.cells, 0, m) /\ Same(g, m, s.cells, 0, n + 1)
  <2>1. \A k \in 1 .. m : k \in 1 .. m + n + 1 BY <1>1
  <2>2. \A k \in 1 .. n + 1 : m + k \in 1 .. m + n + 1 BY <1>1
  <2> QED BY <2>1, <2>2, <1>9, <1>10 DEF Same
<1> DEFINE x == b.text
           y == s.text
           r == x \o y
           z == a.text
<1>12. /\ Stores(b.cells, x) /\ Stores(s.cells, y) /\ m = Len(x) /\ n = Len(y)
       /\ Stores(a.cells, z) /\ l = Len(z)
  BY <1>1 DEF l, m, n
<1>13. x \in Seq(Nat \ {0}) /\ y \in Seq(Nat \ {0}) /\ z \in Seq(Nat \ {0})
  BY <1>12 DEF Stores
<1>14. Strings!Made(f, (z \o x) \o y)
  BY <1>2
<1> HIDE DEF x, y, z
<1>15. Stores(g, r)
  BY <1>10, <1>11, <1>12, JoinedStore
<1>16. Len(r) = m + n
  BY <1>12, <1>13
<1>17. (z \o x) \o y = z \o r
  <2> DEFINE T == Nat \ {0}
  <2>1. x \in Seq(T) /\ y \in Seq(T) /\ z \in Seq(T) BY <1>13
  <2> HIDE DEF T
  <2> QED BY <2>1, ConcatAssociative
<1> HIDE DEF r
<1>18. PICK o : o = Len(r) /\ o = m + n
  BY <1>16
<1>19. f \in [1 .. l + o + 1 -> Int] /\ Same(f, 0, a.cells, 0, l) /\ Same(f, l, g, 0, o + 1)
  <2>1. size = l + o + 1 /\ o + 1 = m + n + 1 BY <1>1, <1>18 DEF size
  <2>2. Same(f, l, g, 0, o + 1) BY <2>1, <1>10 DEF Same
  <2> QED BY <2>1, <2>2, <1>8, <1>9 DEF Same
<1>20. Stores(f, z \o r)
  BY <1>12, <1>15, <1>18, <1>19, JoinedStore
<1> QED BY <1>14, <1>17, <1>20, MadeKeeps

\* A part of a text, from behind its first i characters on.
LEMMA PartOfText ==
  ASSUME NEW f, NEW fs, Stores(f, fs), NEW i \in Nat, NEW n \in Nat, i + n <= Len(fs),
         NEW h \in [1 .. n + 1 -> Int], h[n + 1] = 0, Same(h, 0, f, i, n)
  PROVE  Stores(h, SubSeq(fs, i + 1, i + n))
<1> DEFINE x == SubSeq(fs, i + 1, i + n)
<1>1. /\ fs \in Seq(Nat \ {0}) /\ Len(fs) \in Nat
      /\ \A k \in 1 .. Len(fs) : f[k] # 0 /\ (fs[k] < 2048 => f[k] = fs[k])
  BY DEF Stores
<1>2. x \in Seq(Nat \ {0}) /\ Len(x) = n /\ \A k \in 1 .. n : x[k] = fs[i + k]
  <2>1. \A k \in (i + 1) .. (i + n) : fs[k] \in Nat \ {0}
    <3>1. \A k \in (i + 1) .. (i + n) : k \in 1 .. Len(fs) BY <1>1
    <3> QED BY <3>1, <1>1
  <2>2. x = [k \in 1 .. n |-> fs[i + k]]
    BY <1>1
  <2>3. \A k \in 1 .. n : fs[i + k] \in Nat \ {0}
    BY <2>1
  <2>4. x \in [1 .. n -> Nat \ {0}]
    BY <2>2, <2>3
  <2> HIDE DEF x
  <2>5. x \in Seq(Nat \ {0}) /\ Len(x) = n BY <2>4
  <2> QED BY <2>2, <2>5
<1> HIDE DEF x
<1>3. Holds(h, x, n)
  <2>1. ASSUME NEW k \in 1 .. n PROVE h[k] # 0 /\ (x[k] < 2048 => h[k] = x[k])
    <3>1. i + k \in 1 .. Len(fs) BY <1>1
    <3>2. f[i + k] # 0 /\ (fs[i + k] < 2048 => f[i + k] = fs[i + k]) BY <3>1, <1>1
    <3>3. h[0 + k] = f[i + k] /\ 0 + k = k BY DEF Same
    <3>4. x[k] = fs[i + k] BY <1>2
    <3> QED BY <3>2, <3>3, <3>4
  <2> QED BY <2>1 DEF Holds
<1>4. n = Len(x)
  BY <1>2
<1>5. Stores(h, x)
  BY <1>2, <1>3, <1>4, BufferIs
<1> QED BY <1>5 DEF x

\* The end of a string, with its terminator.
LEMMA SubstringFromKeeps ==
  ASSUME StoreInv, NEW a \in Strings!Range(store), NEW i \in 0 .. MaxLength, Strings!SubstringFrom(a, i)
  PROVE  StoreInv'
<1> DEFINE n == Len(a.text)
           m == n - i
           e == Strings!Allocate(m + 1)
           c == Strings!Copy(e, 1, a.cells, i + 1, m + 1)
<1>1. /\ Stores(a.cells, a.text) /\ n \in Nat /\ Strings!wcslen(a.cells) = n /\ a.cells \in [1 .. n + 1 -> Int]
  BY StringIs
<1>2. i \in 1 .. (n - 1) /\ Strings!Made(c, SubSeq(a.text, i + 1, n))
  BY <1>1 DEF Strings!SubstringFrom
<1> HIDE DEF n
<1>3. /\ m \in Nat /\ m + 1 \in Nat /\ n + 1 \in Nat /\ i \in Nat /\ i + m = n
      /\ i + (m + 1) <= n + 1 /\ 0 + (m + 1) <= m + 1 /\ 1 = 0 + 1
  BY <1>1, <1>2
<1> HIDE DEF m
<1>4. e \in [1 .. m + 1 -> Int]
  BY <1>3, AllocateIs
<1> HIDE DEF e
<1>5. c = Strings!Copy(e, 1, a.cells, i + 1, m + 1)
  OBVIOUS
<1> HIDE DEF c
<1>6. c \in [1 .. m + 1 -> Int] /\ Same(c, 0, a.cells, i, m + 1)
  <2>1. Copied(c, m + 1, e, 0, n + 1, a.cells, i, m + 1) BY <1>1, <1>3, <1>4, <1>5 DEF Copied
  <2> QED BY <2>1, CopyIs
<1>7. c[m + 1] = 0 /\ Same(c, 0, a.cells, i, m)
  <2>1. m + 1 \in 1 .. m + 1 /\ i + (m + 1) = n + 1 /\ \A k \in 1 .. m : k \in 1 .. m + 1 BY <1>3, <1>1
  <2>2. \A k \in 1 .. m + 1 : c[k] = a.cells[i + k] BY <1>6 DEF Same
  <2>3. a.cells[n + 1] = 0 BY <1>1 DEF Stores, n
  <2> QED BY <2>1, <2>2, <2>3 DEF Same
<1>8. Stores(c, SubSeq(a.text, i + 1, i + m))
  <2>1. i + m <= Len(a.text) BY <1>3, <1>1 DEF n
  <2> QED BY <2>1, <1>1, <1>3, <1>6, <1>7, PartOfText
<1> QED BY <1>2, <1>3, <1>8, MadeKeeps

\* A part of a string, and a terminator.
LEMMA SubstringKeeps ==
  ASSUME StoreInv, NEW a \in Strings!Range(store), NEW i \in 0 .. MaxLength, NEW m \in 0 .. MaxLength,
         Strings!Substring(a, i, m)
  PROVE  StoreInv'
<1> DEFINE n == Len(a.text)
           e == Strings!Allocate(m + 1)
           c == Strings!Copy(e, 1, a.cells, i + 1, m)
           d == [c EXCEPT ![m + 1] = 0]
<1>1. /\ Stores(a.cells, a.text) /\ n \in Nat /\ Strings!wcslen(a.cells) = n /\ a.cells \in [1 .. n + 1 -> Int]
  BY StringIs
<1>2. i + m <= n /\ Strings!Made(d, SubSeq(a.text, i + 1, i + m))
  BY <1>1 DEF Strings!Substring, Strings!Nul
<1> HIDE DEF n
<1>3. /\ m \in Nat /\ m + 1 \in Nat /\ i \in Nat /\ n + 1 \in Nat /\ i + m <= n + 1 /\ 0 + m <= m + 1 /\ 1 = 0 + 1
  <2>1. MaxLength \in Nat BY TextAssumption, Zenon
  <2> QED BY <2>1, <1>1, <1>2
<1>4. e \in [1 .. m + 1 -> Int]
  BY <1>3, AllocateIs
<1> HIDE DEF e
<1>5. c = Strings!Copy(e, 1, a.cells, i + 1, m)
  OBVIOUS
<1> HIDE DEF c
<1>6. c \in [1 .. m + 1 -> Int] /\ Same(c, 0, a.cells, i, m)
  <2>1. Copied(c, m + 1, e, 0, n + 1, a.cells, i, m) BY <1>1, <1>3, <1>4, <1>5 DEF Copied
  <2> QED BY <2>1, CopyIs
<1>7. d \in [1 .. m + 1 -> Int] /\ d[m + 1] = 0 /\ \A k \in 1 .. m : d[k] = c[k]
  BY <1>3, <1>6
<1> HIDE DEF d
<1>8. Same(d, 0, a.cells, i, m)
  <2>1. ASSUME NEW k \in 1 .. m PROVE d[0 + k] = a.cells[i + k]
    <3>1. 0 + k = k BY <1>3
    <3>2. c[0 + k] = a.cells[i + k] BY <1>6 DEF Same
    <3>3. d[k] = c[k] BY <1>7
    <3> QED BY <3>1, <3>2, <3>3
  <2> QED BY <2>1 DEF Same
<1>9. Stores(d, SubSeq(a.text, i + 1, i + m))
  <2>1. i + m <= Len(a.text) BY <1>2 DEF n
  <2> QED BY <2>1, <1>1, <1>3, <1>7, <1>8, PartOfText
<1> QED BY <1>2, <1>9, MadeKeeps

\* Every step adds a string that holds its text, or none.
LEMMA StoreStep ==
  ASSUME StoreInv, Strings!Next
  PROVE  StoreInv'
<1>1. ASSUME NEW a \in Strings!Range(store), NEW i \in 0 .. MaxLength, Strings!GetChars(a, i - 1)
      PROVE  StoreInv'
  BY <1>1 DEF Strings!GetChars, StoreInv
<1> QED BY <1>1, NewStringKeeps, FromUtf8Keeps, Concat2Keeps, Concat3Keeps, SubstringFromKeeps,
           SubstringKeeps DEF Strings!Next

\* Buffers that hold their texts are equal as their texts are.
LEMMA StoreCorrect ==
  ASSUME StoreInv
  PROVE  Strings!StringsAgree
<1>1. ASSUME NEW s \in Strings!Range(store)
      PROVE  /\ Len(s.cells) = Len(s.text) + 1 /\ Strings!wcslen(s.cells) = Len(s.text)
             /\ Strings!Exact(s.text) => \A i \in 1 .. Len(s.text) : s.cells[i] = s.text[i]
             /\ s.text \in Seq(Nat \ {0}) /\ s.cells \in Seq(Int) /\ Len(s.text) \in Nat
  BY StringIs DEF Stores, Strings!Exact
<1>2. ASSUME NEW s \in Strings!Range(store), Strings!Exact(s.text)
      PROVE  /\ SubSeq(s.cells, 1, Len(s.text)) = s.text
             /\ Strings!IsWhiteSpace(s) <=> Strings!Range(s.text) \subseteq {9, 32}
  <2> DEFINE n == Len(s.text)
             c == s.cells
             t == s.text
  <2>1. /\ n \in Nat /\ Len(c) = n + 1 /\ c \in Seq(Int) /\ t \in Seq(Nat \ {0})
        /\ DOMAIN t = 1 .. n /\ \A i \in 1 .. n : c[i] = t[i]
        /\ Strings!wcslen(c) = n
    BY <1>1, <1>2
  <2>2. t = [i \in 1 .. n |-> t[i]]
    BY <2>1
  <2> HIDE DEF n, c, t
  <2>3. SubSeq(c, 1, n) = [i \in 1 .. n |-> c[i]]
    <3>1. SubSeq(c, 1, n) = [i \in 1 .. ((n - 1) + 1) |-> c[(1 + i) - 1]] BY <2>1
    <3>2. \A i \in 1 .. n : (1 + i) - 1 = i BY <2>1
    <3>3. (n - 1) + 1 = n BY <2>1
    <3> QED BY <3>1, <3>2, <3>3
  <2>4. [i \in 1 .. n |-> c[i]] = [i \in 1 .. n |-> t[i]]
    BY <2>1
  <2>5. Strings!IsWhiteSpace(s) <=> \A i \in 1 .. n : c[i] \in {9, 32}
    BY <2>1 DEF Strings!IsWhiteSpace, c
  <2>6. Strings!Range(t) \subseteq {9, 32} <=> \A i \in 1 .. n : t[i] \in {9, 32}
    <3>1. Strings!Range(t) = {t[i] : i \in 1 .. n} BY <2>1 DEF Strings!Range
    <3> QED BY <3>1
  <2>7. Strings!IsWhiteSpace(s) <=> Strings!Range(t) \subseteq {9, 32}
    BY <2>1, <2>5, <2>6
  <2> QED BY <2>2, <2>3, <2>4, <2>7 DEF n, c, t
<1>3. ASSUME NEW s \in Strings!Range(store), NEW t \in Strings!Range(store),
             Strings!Exact(s.text), Strings!Exact(t.text)
      PROVE  Strings!SameText(s, t) <=> s.text = t.text
  <2>1. Strings!SameText(s, t) <=>
          Len(s.text) = Len(t.text) /\ \A i \in 1 .. Len(s.text) : s.cells[i] = t.cells[i]
    BY <1>1 DEF Strings!SameText
  <2>2. /\ \A i \in 1 .. Len(s.text) : s.cells[i] = s.text[i]
        /\ \A i \in 1 .. Len(t.text) : t.cells[i] = t.text[i]
    BY <1>1, <1>3
  <2>3. Strings!SameText(s, t) => s.text = t.text
    <3>1. s.text \in Seq(Nat \ {0}) /\ t.text \in Seq(Nat \ {0}) BY <1>1
    <3>2. ASSUME Strings!SameText(s, t)
          PROVE  Len(s.text) = Len(t.text) /\ \A i \in 1 .. Len(s.text) : s.text[i] = t.text[i]
      BY <2>1, <2>2, <3>2
    <3> QED BY <3>1, <3>2, SeqEqual
  <2>4. s.text = t.text => Strings!SameText(s, t)
    BY <2>1, <2>2
  <2> QED BY <2>3, <2>4
<1> QED BY <1>1, <1>2, <1>3 DEF Strings!StringsAgree

\* Other parts of a behaviour leave the strings as they are.
LEMMA StoreRests ==
  ASSUME StoreInv, UNCHANGED stringVars
  PROVE  StoreInv'
<1>1. store' = store /\ char' = char
  BY DEF stringVars
<1> QED BY <1>1 DEF StoreInv, Stores

\* At first there are no strings.
LEMMA StoreInit == Strings!Init \/ StringsIdle => StoreInv
<1> SUFFICES ASSUME Strings!Init \/ StringsIdle PROVE StoreInv
  OBVIOUS
<1>1. store = <<>> /\ char \in {"signed", "unsigned"}
  BY DEF Strings!Init, StringsIdle
<1> QED BY <1>1 DEF StoreInv

\* However strings are made from literals, native texts and each other, in any
\* number and of any length, each holds its text and its terminator, and equal
\* strings have equal texts (the string functions of String.c).
THEOREM StringsHoldTheirTexts == RuntimeSpec => []StringsAgree
<1>1. RuntimeInit => StoreInv
  BY StoreInit DEF RuntimeInit
<1>2. ASSUME StoreInv, [RuntimeNext]_allVars PROVE StoreInv'
  <2>1. Strings!Next \/ UNCHANGED stringVars
    BY <1>2 DEF RuntimeNext, allVars
  <2> QED BY <2>1, <1>2, StoreStep, StoreRests
<1>3. StoreInv => StringsAgree
  BY StoreCorrect DEF StringsAgree
<1> QED BY <1>1, <1>2, <1>3, PTL DEF RuntimeSpec
-----------------------------------------------------------------------------
\* The powers of two that bound the integers of a type.
LEMMA PowersAre ==
  ASSUME NEW n \in Sizes
  PROVE  /\ Bits[n] \in Nat \ {0} /\ 2 ^ (Bits[n] - 1) \in Nat \ {0} /\ 2 ^ Bits[n] \in Nat \ {0}
         /\ 2 ^ Bits[n] = 2 * 2 ^ (Bits[n] - 1)
         /\ \A k \in Sizes : k < n =>
              /\ Bits[k] < Bits[n] /\ 2 ^ Bits[k] <= 2 ^ Bits[n]
              /\ 2 ^ (Bits[k] - 1) <= 2 ^ (Bits[n] - 1)
<1>1. \A k \in Sizes :
        /\ Bits[k] \in Nat \ {0}
        /\ 2 ^ (Bits[k] - 1) \in Nat \ {0} /\ 2 ^ Bits[k] = 2 * 2 ^ (Bits[k] - 1)
        /\ k < n => Bits[k] < Bits[n] /\ 2 ^ Bits[k] <= 2 ^ (Bits[n] - 1)
  BY BitsAssumption DEF Sizes
<1>2. ASSUME NEW k \in Sizes
      PROVE  /\ 2 ^ Bits[k] \in Nat \ {0}
             /\ k < n => 2 ^ Bits[k] <= 2 ^ Bits[n] /\ 2 ^ (Bits[k] - 1) <= 2 ^ (Bits[n] - 1)
  <2> DEFINE a == 2 ^ (Bits[k] - 1)
             b == 2 ^ (Bits[n] - 1)
             c == 2 ^ Bits[k]
             d == 2 ^ Bits[n]
  <2>1. a \in Nat \ {0} /\ b \in Nat \ {0} /\ c = 2 * a /\ d = 2 * b /\ (k < n => c <= b)
    BY <1>1
  <2> HIDE DEF a, b, c, d
  <2>2. c \in Nat \ {0} /\ (k < n => c <= d /\ a <= b) BY <2>1
  <2> QED BY <2>2 DEF a, b, c, d
<1> QED BY <1>1, <1>2

\* The number of values of n bytes is positive, and two bytes have no more than four.
LEMMA BitsAre ==
  ASSUME wchar \in WcharSizes, NEW t
  PROVE  /\ Boxing!Size(t) \in {1, 2, 4, 8} /\ Boxing!BodySize(t) \in {1, 2, 4, 8}
         /\ 2 ^ Bits[Boxing!Size(t)] \in Nat \ {0} /\ 2 ^ Bits[Boxing!BodySize(t)] \in Nat \ {0}
<1>1. Boxing!Size(t) \in {1, 2, 4, 8}
  BY DEF Boxing!Size
<1>2. Boxing!BodySize(t) \in {1, 2, 4, 8}
  BY <1>1, BitsAssumption DEF Boxing!BodySize
<1>3. \A n \in Sizes : 2 ^ Bits[n] \in Nat \ {0} BY PowersAre
<1> QED BY <1>1, <1>2, <1>3 DEF Sizes

\* The value of a type does not change when it is cut to the width of the type
\* before, and it is the only one of its cut.
LEMMA WrapAgain ==
  ASSUME NEW n \in Int, NEW t, NEW b, 2 ^ b \in Nat \ {0}
  PROVE  /\ n % 2 ^ b \in 0 .. 2 ^ b - 1
         /\ Boxing!Wrap(n, t, b) \in Int
         /\ Boxing!Wrap(n % 2 ^ b, t, b) = Boxing!Wrap(n, t, b)
         /\ t \in Boxing!Small => Boxing!Wrap(n, t, b) = n % 2 ^ b
<1> DEFINE m == 2 ^ b
           low == n % m
<1>1. m \in Nat \ {0} OBVIOUS
<1>2. low \in 0 .. m - 1 /\ low % m = low
  <2> HIDE DEF m
  <2> QED BY <1>1
<1>3. \A k, c : Boxing!Wrap(k, c, b) = IF c \notin Boxing!Unsigned /\ k % m >= 2 ^ (b - 1)
                                       THEN (k % m) - m ELSE k % m
  BY DEF Boxing!Wrap
<1>4. Boxing!Small \subseteq Boxing!Unsigned
  BY DEF Boxing!Unsigned, Boxing!Small
<1> HIDE DEF m, low
<1>5. n % m = low /\ low - m \in Int
  BY <1>1, <1>2 DEF low
<1>6. Boxing!Wrap(n, t, b) \in Int
  BY <1>3, <1>5, <1>2
<1>7. Boxing!Wrap(low, t, b) = Boxing!Wrap(n, t, b)
  BY <1>3, <1>5, <1>2
<1>8. t \in Boxing!Small => Boxing!Wrap(n, t, b) = low
  BY <1>3, <1>4, <1>5
<1> QED BY <1>2, <1>6, <1>7, <1>8 DEF m, low

\* A value of a small type is one of two bytes.
LEMMA SmallIs ==
  ASSUME NEW n \in Int, NEW t \in Boxing!Small
  PROVE  Boxing!Wrap(n, t, Bits[Boxing!Size(t)]) \in 0 .. 2 ^ Bits[2] - 1
<1> DEFINE b == Bits[Boxing!Size(t)]
<1>1. Boxing!Size(t) \in {1, 2} BY DEF Boxing!Size, Boxing!Small
<1>2. 2 ^ b \in Nat \ {0} /\ 2 ^ Bits[2] \in Nat \ {0} /\ 2 ^ b <= 2 ^ Bits[2]
  BY <1>1, PowersAre DEF Sizes
<1>3. Boxing!Wrap(n, t, b) \in 0 .. 2 ^ b - 1 BY <1>2, WrapAgain
<1> DEFINE p == 2 ^ b
           q == 2 ^ Bits[2]
<1> HIDE DEF p, q
<1> QED BY <1>2, <1>3 DEF p, q

\* Code that is verifiable boxes a value of the same size, or one that the C code
\* converts; and the box has the size of its type or is a character's.
LEMMA VerifiableIs ==
  ASSUME wchar \in {2, 4}, NEW o \in Boxing!Types, NEW t \in Boxing!Types,
         Boxing!Verifiable(o, t), ~Boxing!Misjudged(o, t)
  PROVE  /\ Boxing!Size(o) # Boxing!Size(t) =>
              Boxing!Converts(Boxing!BodySize(o), Boxing!BodySize(t))
         /\ Boxing!Size(o) = Boxing!Size(t) => Boxing!BodySize(o) <= Boxing!BodySize(t)
         /\ \/ Boxing!BodySize(o) = Boxing!Size(o)
            \/ o = "Char" /\ t \in Boxing!Small /\ wchar = 4
<1>1. \A c : Boxing!Size(c) \in {1, 2, 4, 8}
  BY DEF Boxing!Size
<1>2. Boxing!Size("Char") = 2
  BY DEF Boxing!Size
<1>3. \A c : Boxing!BodySize(c) = IF c = "Char" THEN wchar ELSE Boxing!Size(c)
  BY DEF Boxing!BodySize
<1>4. /\ (Boxing!Size(o) = 8) <=> (Boxing!Size(t) = 8)
      /\ wchar = 4 /\ t = "Char" => Boxing!Size(o) # 4
      /\ wchar = 4 /\ o = "Char" => t \in Boxing!Small
  BY DEF Boxing!Verifiable, Boxing!Misjudged, Boxing!Refused
<1>5. \A x, y \in {1, 2, 4} : x # y => Boxing!Converts(x, y)
  BY DEF Boxing!Converts
<1>6. t \in Boxing!Small /\ t # "Char" => Boxing!Size(t) = 1
  BY DEF Boxing!Size, Boxing!Small
<1>7. CASE Boxing!Size(o) # Boxing!Size(t)
  <2>1. Boxing!BodySize(o) \in {1, 2, 4} /\ Boxing!BodySize(t) \in {1, 2, 4}
        /\ Boxing!BodySize(o) # Boxing!BodySize(t)
    BY <1>1, <1>2, <1>3, <1>4, <1>6, <1>7
  <2> QED BY <1>2, <1>3, <1>4, <1>5, <1>7, <2>1
<1>8. CASE Boxing!Size(o) = Boxing!Size(t)
  BY <1>1, <1>2, <1>3, <1>4, <1>6, <1>8
<1> QED BY <1>7, <1>8

\* At first the value is on the stack.
LEMMA BoxInit == Boxing!Init => BoxInv
<1> SUFFICES ASSUME Boxing!Init PROVE BoxInv
  OBVIOUS
<1>1. /\ wchar \in WcharSizes /\ box = Boxing!NoBox /\ did = "pushed"
  BY DEF Boxing!Init
<1>2. PICK t \in Boxing!Types : \E n \in Boxing!Values(t) :
        pushed = [type |-> t, value |-> n] /\ expected = {n}
  BY DEF Boxing!Init
<1>3. PICK n \in Boxing!Values(t) : pushed = [type |-> t, value |-> n] /\ expected = {n}
  BY <1>2
<1> DEFINE b == Bits[Boxing!Size(t)]
<1>4. 2 ^ b \in Nat \ {0}
  BY <1>1, BitsAre
<1>5. PICK k \in 0 .. 2 ^ b - 1 : n = Boxing!Wrap(k, t, b)
  BY DEF Boxing!Values
<1>6. n \in Int /\ (t \in Boxing!Small => n \in 0 .. 2 ^ Bits[2] - 1)
  BY <1>4, <1>5, WrapAgain, SmallIs
<1>8. pushed.type = t /\ pushed.value = n /\ expected = {n}
  BY <1>3
<1> QED BY <1>1, <1>6, <1>8 DEF BoxInv, Boxing!BoxesAgree

\* A box of a value.
LEMMA BoxKeeps ==
  ASSUME BoxInv, NEW o \in Boxing!Types, Boxing!Box(o)
  PROVE  BoxInv'
<1> DEFINE t == pushed.type
           n == pushed.value
           wide == Boxing!BodySize(o)
           b == Bits[wide]
           Good == Boxing!Verifiable(o, t) /\ ~Boxing!Misjudged(o, t)
           Full == wide = Boxing!Size(o) \/ (o = "Char" /\ t \in Boxing!Small /\ wchar = 4)
           Cut(v) == Boxing!Wrap(v, o, Bits[Boxing!Size(o)])
<1>1. /\ did \in {"pushed", "unboxed"} /\ wchar \in WcharSizes /\ wchar \in {2, 4} /\ t \in Boxing!Types /\ n \in Int
      /\ box = Boxing!NoBox /\ expected \subseteq {n}
      /\ t \in Boxing!Small => expected \subseteq 0 .. 2 ^ Bits[2] - 1
      /\ asked' = o /\ UNCHANGED <<wchar, pushed>>
      /\ expected' = IF Good THEN {Cut(v) : v \in expected} ELSE {}
  BY BitsAssumption DEF BoxInv, Boxing!Box
<1>2. IF Boxing!Size(o) # Boxing!Size(t)
      THEN IF Boxing!Converts(wide, Boxing!BodySize(t)) THEN Boxing!Boxed(o, n) ELSE Boxing!Threw("refused")
      ELSE Boxing!Copied(o, t, n)
  BY DEF Boxing!Box, Boxing!Source
<1>3. 2 ^ b \in Nat \ {0} /\ 2 ^ Bits[Boxing!BodySize(t)] \in Nat \ {0} /\ 2 ^ Bits[Boxing!Size(o)] \in Nat \ {0}
  BY <1>1, BitsAre
<1>4. ASSUME Boxing!Threw("refused"), Boxing!Verifiable(o, t) => Boxing!Refused(o, t) PROVE BoxInv'
  <2>1. did' = "refused" /\ UNCHANGED box BY <1>4 DEF Boxing!Threw
  <2>2. asked' = o /\ pushed'.type = t /\ pushed'.value = n /\ wchar' = wchar BY <1>1
  <2>4. Boxing!BoxesAgree'
    BY <2>1, <2>2, <1>1, <1>4
       DEF Boxing!BoxesAgree, Boxing!Verifiable, Boxing!Refused, Boxing!Size
  <2> QED BY <2>1, <2>2, <2>4, <1>1 DEF BoxInv
\* A box with the bits k, which are those of the value where .NET has one.
<1>5. ASSUME NEW k \in Int, Boxing!Boxed(o, k),
             Good => k = n /\ Full
      PROVE  BoxInv'
  <2>1. box' = [type |-> o, raw |-> k % 2 ^ b] /\ did' = "boxed"
    BY <1>5 DEF Boxing!Boxed
  <2>2. k % 2 ^ b \in Int /\ Boxing!Wrap(k % 2 ^ b, o, b) = Boxing!Wrap(k, o, b)
    BY <1>3, WrapAgain
  <2>3. box'.type = o /\ box'.raw = k % 2 ^ b
    BY <2>1
  <2>4. ASSUME Good, NEW v \in expected
        PROVE  /\ Cut(v) = Boxing!Wrap(k, o, b)
               /\ o \in Boxing!Small => Cut(v) \in 0 .. 2 ^ Bits[2] - 1
    <3>1. k = n /\ v = n BY <1>1, <1>5, <2>4
    <3>2. o \in Boxing!Small => Cut(v) \in 0 .. 2 ^ Bits[2] - 1 BY <3>1, <1>1, SmallIs
    <3>4. CASE wide = Boxing!Size(o) BY <3>1, <3>2, <3>4
    <3>5. CASE o = "Char" /\ t \in Boxing!Small /\ wchar = 4
      <4>1. wide = 4 /\ Boxing!Size(o) = 2 /\ o \in Boxing!Small
        BY <3>5 DEF Boxing!BodySize, Boxing!Size, Boxing!Small
      <4>2. Boxing!Wrap(n, o, b) = n % 2 ^ Bits[4] /\ Cut(v) = n % 2 ^ Bits[2]
        BY <4>1, <3>1, <1>1, <1>3, WrapAgain
      <4> DEFINE p == 2 ^ Bits[2]
                 q == 2 ^ Bits[4]
      <4>3. n \in 0 .. p - 1 /\ p \in Nat \ {0} /\ q \in Nat \ {0} /\ p <= q
        <5>1. 2 \in Sizes /\ 4 \in Sizes BY DEF Sizes
        <5>2. 2 ^ Bits[2] \in Nat \ {0} /\ 2 ^ Bits[4] \in Nat \ {0} /\ 2 ^ Bits[2] <= 2 ^ Bits[4]
          BY <5>1, PowersAre
        <5> QED BY <3>1, <3>5, <1>1, <5>2
      <4> HIDE DEF p, q
      <4>4. n % p = n /\ n % q = n BY <4>3
      <4> QED BY <4>1, <4>2, <4>4, <3>1, <3>2 DEF p, q
    <3> QED BY <3>4, <3>5, <1>5, <2>4
  <2> DEFINE W == Boxing!Wrap(box.raw, box.type, Bits[Boxing!BodySize(box.type)])
  <2>5. W' = Boxing!Wrap(k, o, b)
    <3>1. W' = Boxing!Wrap(box'.raw, box'.type, Bits[Boxing!BodySize(box'.type)])
      BY <1>1 DEF Boxing!Wrap, Boxing!BodySize, Boxing!Size
    <3> QED BY <3>1, <2>2, <2>3
  <2> HIDE DEF W, Cut, Good
  <2>6. expected' \subseteq {W'} /\ (o \in Boxing!Small => expected' \subseteq 0 .. 2 ^ Bits[2] - 1)
    BY <1>1, <2>4, <2>5
  <2>7. Boxing!BoxesAgree' BY <2>1, <2>6 DEF Boxing!BoxesAgree, W
  <2> QED BY <2>1, <2>2, <2>3, <2>6, <2>7, <1>1 DEF BoxInv, W
<1>6. CASE Boxing!Size(o) # Boxing!Size(t)
  <2>1. Good => Boxing!Converts(wide, Boxing!BodySize(t)) /\ Full
    BY <1>1, <1>6, VerifiableIs
  <2>2. Boxing!Misjudged(o, t) => Boxing!Refused(o, t) \/ Boxing!Converts(wide, Boxing!BodySize(t))
    <3>1. \A e : Boxing!Size(e) \in {1, 2, 4, 8} /\ Boxing!Size("Char") = 2 BY DEF Boxing!Size
    <3> QED BY <3>1, <1>6 DEF Boxing!Misjudged, Boxing!Refused, Boxing!BodySize, Boxing!Converts
  <2> HIDE DEF Full
  <2> QED BY <2>1, <2>2, <1>1, <1>2, <1>4, <1>5, <1>6
<1>7. CASE Boxing!Size(o) = Boxing!Size(t)
  <2>1. Good => wide <= Boxing!BodySize(t) /\ Full
    BY <1>1, <1>7, VerifiableIs
  <2>2. Boxing!Copied(o, t, n) BY <1>2, <1>7
  <2>3. CASE wide <= Boxing!BodySize(t)
    <3>1. Boxing!Boxed(o, n) BY <2>2, <2>3 DEF Boxing!Copied
    <3> QED BY <3>1, <2>1, <1>1, <1>5
  <2>4. CASE ~ (wide <= Boxing!BodySize(t))
    <3> DEFINE c == Bits[Boxing!BodySize(t)]
    <3>1. PICK above \in 0 .. 2 ^ (b - c) - 1 : Boxing!Boxed(o, (n % 2 ^ c) + above * 2 ^ c)
      BY <2>2, <2>4 DEF Boxing!Copied
    <3>2. n % 2 ^ c \in Int /\ 2 ^ c \in Nat BY <1>1, <1>3, WrapAgain
    <3> DEFINE x == 2 ^ c
               y == n % x
    <3>3. above \in Int
      <4>1. o = "Char" /\ wchar = 4 /\ Boxing!BodySize(t) = 2 /\ wide = 4
        <5>1. \A e : Boxing!Size(e) \in {1, 2, 4, 8} /\ Boxing!Size("Char") = 2 BY DEF Boxing!Size
        <5> QED BY <5>1, <1>1, <1>7, <2>4 DEF Boxing!BodySize
      <4>2. 2 ^ (b - c) = 2 ^ (Bits[4] - Bits[2]) BY <4>1
      <4> DEFINE z == 2 ^ (b - c)
      <4>3. z \in Nat BY <4>2, BitsAssumption
      <4> HIDE DEF z
      <4>4. above \in 0 .. z - 1 BY <3>1 DEF z
      <4> QED BY <4>3, <4>4
    <3> HIDE DEF x, y
    <3>4. y \in Int /\ x \in Nat BY <3>2 DEF x, y
    <3>5. y + above * x \in Int BY <3>3, <3>4
    <3>6. Boxing!Boxed(o, y + above * x) BY <3>1 DEF x, y
    <3> QED BY <3>5, <3>6, <2>1, <2>4, <1>5
  <2> QED BY <2>3, <2>4
<1> QED BY <1>6, <1>7

\* unbox.any of a box.
LEMMA UnboxKeeps ==
  ASSUME BoxInv, NEW o \in Boxing!Types, Boxing!Unbox(o)
  PROVE  BoxInv'
<1>1. /\ did \in {"pushed", "boxed"} /\ asked' = o /\ UNCHANGED <<wchar, expected>>
      /\ wchar \in WcharSizes /\ pushed.type \in Boxing!Types /\ pushed.value \in Int
      /\ did = "pushed" => box = Boxing!NoBox
      /\ did = "boxed" =>
           /\ box.type \in Boxing!Types /\ box.raw \in Int
           /\ expected \subseteq {Boxing!Wrap(box.raw, box.type, Bits[Boxing!BodySize(box.type)])}
           /\ box.type \in Boxing!Small => expected \subseteq 0 .. 2 ^ Bits[2] - 1
  BY DEF BoxInv, Boxing!Unbox
<1>2. CASE box = Boxing!NoBox
  <2>1. did' = "NullReference" /\ UNCHANGED <<box, pushed>>
    BY <1>2 DEF Boxing!Unbox, Boxing!Threw
  <2>2. box' = Boxing!NoBox' BY <1>2, <2>1 DEF Boxing!NoBox
  <2>3. Boxing!BoxesAgree' BY <2>1, <2>2 DEF Boxing!BoxesAgree
  <2> QED BY <1>1, <2>1, <2>3 DEF BoxInv
<1>3. CASE box # Boxing!NoBox /\ box.type # o
  <2>1. did' = "InvalidCast" /\ UNCHANGED <<box, pushed>>
    BY <1>3 DEF Boxing!Unbox, Boxing!Threw
  <2>2. Boxing!BoxesAgree' BY <1>1, <1>3, <2>1 DEF Boxing!BoxesAgree
  <2> QED BY <1>1, <2>1, <2>2 DEF BoxInv
<1>4. CASE box # Boxing!NoBox /\ box.type = o
  <2> DEFINE w == Boxing!Wrap(box.raw, o, Bits[Boxing!BodySize(o)])
  <2>1. pushed' = [type |-> o, value |-> w] /\ box' = Boxing!NoBox /\ did' = "unboxed"
    BY <1>4 DEF Boxing!Unbox
  <2>2. did = "boxed" BY <1>1, <1>4
  <2>3. w \in Int BY <1>1, <2>2, BitsAre, WrapAgain
  <2> HIDE DEF w
  <2>4. pushed'.type = o /\ pushed'.value = w BY <2>1
  <2>5. expected \subseteq {w} BY <1>1, <1>4, <2>2 DEF w
  <2>6. box' = Boxing!NoBox' BY <2>1 DEF Boxing!NoBox
  <2>7. Boxing!BoxesAgree' BY <1>1, <2>1, <2>4, <2>5 DEF Boxing!BoxesAgree
  <2> QED BY <1>1, <1>4, <2>1, <2>2, <2>3, <2>4, <2>5, <2>6, <2>7 DEF BoxInv
<1> QED BY <1>2, <1>3, <1>4

\* Other parts of a behaviour leave the box and the stack as they are.
LEMMA BoxRests ==
  ASSUME BoxInv, UNCHANGED boxVars
  PROVE  BoxInv'
<1>1. UNCHANGED <<wchar, pushed, box, asked, did, expected>>
  BY DEF boxVars
<1>2. Boxing!NoBox' = Boxing!NoBox /\ \A t : Boxing!BodySize(t)' = Boxing!BodySize(t)
  BY <1>1 DEF Boxing!NoBox, Boxing!BodySize, Boxing!Size
<1>3. Boxing!BoxesAgree'
  BY <1>1, <1>2 DEF BoxInv, Boxing!BoxesAgree, Boxing!Verifiable, Boxing!Refused, Boxing!Wrap
<1> QED BY <1>1, <1>2, <1>3 DEF BoxInv, Boxing!Wrap

\* Through any chain of boxes and unboxings, of types of any widths, a box holds
\* the value that .NET puts into it and gives it back to the type that made it
\* and to no other (IL2C_BOX, il2c_box__ and il2c_unbox__ of il2c.c).
THEOREM BoxesStayAgreed == RuntimeSpec => []BoxesAgree
<1> DEFINE Inv == part = "boxes" => BoxInv
<1>1. RuntimeInit => Inv
  BY BoxInit DEF RuntimeInit
<1>2. Inv /\ [RuntimeNext]_allVars => Inv'
  <2> SUFFICES ASSUME Inv, [RuntimeNext]_allVars, part' = "boxes" PROVE BoxInv'
    OBVIOUS
  <2>1. part = "boxes" /\ BoxInv
    BY PartStays
  <2>2. Boxing!Next \/ UNCHANGED boxVars
    BY <2>1 DEF RuntimeNext, allVars
  <2> QED BY <2>1, <2>2, BoxKeeps, UnboxKeeps, BoxRests DEF Boxing!Next
<1>3. Inv => BoxesAgree
  BY DEF BoxInv, BoxesAgree
<1> QED BY <1>1, <1>2, <1>3, PTL DEF RuntimeSpec
-----------------------------------------------------------------------------
\* What holds of 0, and of every number up to n of which it holds before, holds of
\* all of them.
LEMMA UpwardsAll ==
  ASSUME NEW n \in Nat, NEW S, 0 \in S,
         \A i \in 1 .. n : (\A j \in 0 .. i - 1 : j \in S) => i \in S
  PROVE  \A i \in 0 .. n : i \in S
<1> DEFINE Bad == {i \in Nat : i <= n /\ i \notin S}
<1>1. ASSUME Bad # {} PROVE FALSE
  <2>1. Bad \in SUBSET Nat OBVIOUS
  <2> HIDE DEF Bad
  <2>2. PICK d \in Bad : \A k \in Bad : d <= k BY <1>1, <2>1, SmallestNumber
  <2>3. d \in Nat /\ d <= n /\ d \notin S BY <2>2 DEF Bad
  <2>4. d \in 1 .. n BY <2>3
  <2>5. ASSUME NEW j \in 0 .. d - 1 PROVE j \in S
    <3>1. j \in Nat /\ j <= n /\ ~(d <= j) BY <2>3
    <3>2. j \notin Bad BY <3>1, <2>2
    <3> QED BY <3>1, <3>2 DEF Bad
  <2> QED BY <2>3, <2>4, <2>5
<1>2. ASSUME NEW i \in 0 .. n PROVE i \in S
  <2>1. i \notin Bad /\ i \in Nat /\ i <= n BY <1>1
  <2> QED BY <2>1
<1> QED BY <1>2

\* There is such an f: it is made from its start.
LEMMA AscentExists ==
  ASSUME NEW n \in Nat, NEW V, NEW base \in V, NEW step \in [(1 .. n) \X V -> V],
         NEW prev \in [1 .. n -> 0 .. n], \A i \in 1 .. n : prev[i] < i
  PROVE  \E f : Ascends(f, n, V, base, step, prev)
<1> DEFINE Until(f, d) ==
             f \in [0 .. d -> V] /\ f[0] = base /\ \A i \in 1 .. d : f[i] = step[<<i, f[prev[i]]>>]
           S == {d \in 0 .. n : \E f : Until(f, d)}
<1>1. 0 \in S
  <2> DEFINE f == [i \in 0 .. 0 |-> base]
  <2>1. f \in [0 .. 0 -> V] /\ f[0] = base OBVIOUS
  <2> HIDE DEF f
  <2>2. \A i \in 1 .. 0 : FALSE OBVIOUS
  <2>3. Until(f, 0) BY <2>1, <2>2
  <2> QED BY <2>3
<1>2. ASSUME NEW d \in 1 .. n, \A j \in 0 .. d - 1 : j \in S PROVE d \in S
  <2>0. d - 1 \in 0 .. d - 1 OBVIOUS
  <2>1. d - 1 \in S BY <1>2, <2>0
  <2>2. PICK f : Until(f, d - 1) BY <2>1
  <2> DEFINE g == [i \in 0 .. d |-> IF i = d THEN step[<<d, f[prev[d]]>>] ELSE f[i]]
  <2>3. prev[d] \in 0 .. d - 1 OBVIOUS
  <2>4. step[<<d, f[prev[d]]>>] \in V BY <2>2, <2>3
  <2>5. g \in [0 .. d -> V]
    <3>1. ASSUME NEW i \in 0 .. d PROVE (IF i = d THEN step[<<d, f[prev[d]]>>] ELSE f[i]) \in V
      <4>1. i # d => i \in 0 .. d - 1 OBVIOUS
      <4> QED BY <4>1, <2>2, <2>4
    <3> QED BY <3>1
  <2>6. g[d] = step[<<d, f[prev[d]]>>] /\ \A i \in 0 .. d - 1 : g[i] = f[i] OBVIOUS
  <2> HIDE DEF g
  <2>7. g[0] = base
    <3>1. 0 \in 0 .. d - 1 OBVIOUS
    <3> QED BY <3>1, <2>2, <2>6
  <2>8. ASSUME NEW i \in 1 .. d PROVE g[i] = step[<<i, g[prev[i]]>>]
    <3>1. prev[i] \in 0 .. d - 1 OBVIOUS
    <3>2. g[prev[i]] = f[prev[i]] BY <3>1, <2>6
    <3>3. CASE i = d BY <3>2, <3>3, <2>6
    <3>4. CASE i # d
      <4>1. i \in 1 .. d - 1 /\ i \in 0 .. d - 1 BY <3>4
      <4>2. g[i] = f[i] BY <4>1, <2>6
      <4>3. f[i] = step[<<i, f[prev[i]]>>] BY <4>1, <2>2
      <4> QED BY <4>2, <4>3, <3>2
    <3> QED BY <3>3, <3>4
  <2>9. Until(g, d) BY <2>5, <2>7, <2>8
  <2>10. d \in 0 .. n OBVIOUS
  <2> QED BY <2>9, <2>10
<1> HIDE DEF S
<1>3. \A i \in 0 .. n : i \in S BY <1>1, <1>2, UpwardsAll
<1>4. n \in 0 .. n OBVIOUS
<1>5. PICK f : Until(f, n) BY <1>3, <1>4 DEF S
<1> QED BY <1>5 DEF Ascends

\* There are such sums, and the last one is the number that the digits stand for.
LEMMA TotalIs ==
  ASSUME NEW ds \in Seq(Nat), NEW n, n = Len(ds)
  PROVE  \E f : Sums(f, ds, n)
<1> DEFINE F == CHOOSE f : f = [i \in 0 .. n |-> IF i = 0 THEN 0 ELSE f[i - 1] * 10 + ds[i]]
           step == [p \in (1 .. n) \X Nat |-> p[2] * 10 + ds[p[1]]]
           prev == [i \in 1 .. n |-> i - 1]
<1>1. Numbers!Total(ds) = F[n]
  BY DEF Numbers!Total
<1>2. n \in Nat /\ \A i \in 1 .. n : ds[i] \in Nat
  OBVIOUS
<1>3. \E f : f = [i \in 0 .. n |-> IF i = 0 THEN 0 ELSE f[i - 1] * 10 + ds[i]]
  <2>1. step \in [(1 .. n) \X Nat -> Nat] BY <1>2
  <2>2. prev \in [1 .. n -> 0 .. n] /\ \A i \in 1 .. n : prev[i] = i - 1 BY <1>2
  <2>3. \A i \in 1 .. n, v \in Nat : step[<<i, v>>] = v * 10 + ds[i] OBVIOUS
  <2> HIDE DEF step, prev
  <2>4. \A i \in 1 .. n : prev[i] < i BY <2>2, <1>2
  <2>5. PICK f \in [0 .. n -> Nat] : f[0] = 0 /\ \A i \in 1 .. n : f[i] = step[<<i, f[prev[i]]>>]
    <3>1. 0 \in Nat OBVIOUS
    <3>2. PICK f : Ascends(f, n, Nat, 0, step, prev)
      BY <1>2, <2>1, <2>2, <2>4, <3>1, AscentExists
    <3> QED BY <3>2 DEF Ascends
  <2>6. ASSUME NEW i \in 0 .. n PROVE f[i] = IF i = 0 THEN 0 ELSE f[i - 1] * 10 + ds[i]
    <3>1. CASE i = 0 BY <2>5, <3>1
    <3>2. CASE i # 0
      <4>1. i \in 1 .. n /\ i - 1 \in 0 .. n BY <3>2, <1>2
      <4>2. f[i - 1] \in Nat /\ f[i] = step[<<i, f[i - 1]>>] BY <4>1, <2>2, <2>5
      <4> QED BY <4>1, <4>2, <2>3, <3>2
    <3> QED BY <3>1, <3>2
  <2>7. f = [i \in 0 .. n |-> f[i]] BY <2>5
  <2>8. [i \in 0 .. n |-> f[i]] = [i \in 0 .. n |-> IF i = 0 THEN 0 ELSE f[i - 1] * 10 + ds[i]]
    BY <2>6
  <2> QED BY <2>7, <2>8
<1>4. F = [i \in 0 .. n |-> IF i = 0 THEN 0 ELSE F[i - 1] * 10 + ds[i]]
  BY <1>3
<1> HIDE DEF F
<1>5. \A i \in 0 .. n : F[i] = IF i = 0 THEN 0 ELSE F[i - 1] * 10 + ds[i]
  <2> DEFINE Value(i) == IF i = 0 THEN 0 ELSE F[i - 1] * 10 + ds[i]
  <2>1. F = [i \in 0 .. n |-> Value(i)] BY <1>4
  <2> HIDE DEF Value
  <2>2. \A i \in 0 .. n : F[i] = Value(i) BY <2>1
  <2> QED BY <2>2 DEF Value
<1>6. F[0] = 0 /\ \A i \in 1 .. n : F[i] = F[i - 1] * 10 + ds[i]
  BY <1>5, <1>2
<1> DEFINE S == {i \in 0 .. n : F[i] \in Nat}
<1>7. 0 \in S BY <1>2, <1>6
<1>8. ASSUME NEW i \in 1 .. n, \A j \in 0 .. i - 1 : j \in S PROVE i \in S
  <2>1. i - 1 \in S BY <1>8
  <2>2. F[i - 1] \in Nat /\ ds[i] \in Nat /\ i \in 0 .. n BY <2>1, <1>2
  <2> QED BY <2>2, <1>6
<1> HIDE DEF S
<1>9. \A i \in 0 .. n : i \in S BY <1>2, <1>7, <1>8, UpwardsAll
<1>10. \A i \in 0 .. n : F[i] \in Nat BY <1>9 DEF S
<1> QED BY <1>1, <1>6, <1>10 DEF Sums

\* One more digit.
LEMMA TotalOfAppend ==
  ASSUME NEW ds \in Seq(Nat), NEW d \in Nat
  PROVE  Numbers!Total(Append(ds, d)) = Numbers!Total(ds) * 10 + d
<1> DEFINE n == Len(ds)
           e == Append(ds, d)
<1>1. n \in Nat /\ e \in Seq(Nat) /\ Len(e) = n + 1 /\ e[n + 1] = d /\ \A i \in 1 .. n : e[i] = ds[i]
  OBVIOUS
<1>2. n = Len(ds) OBVIOUS
<1> HIDE DEF n, e
<1>3. PICK f : /\ f[0] = 0 /\ \A i \in 1 .. n : f[i] = f[i - 1] * 10 + ds[i]
               /\ Numbers!Total(ds) = f[n]
  BY <1>2, TotalIs DEF Sums
<1>4. PICK g : /\ g[0] = 0 /\ \A i \in 1 .. n + 1 : g[i] = g[i - 1] * 10 + e[i]
               /\ Numbers!Total(e) = g[n + 1]
  <2>1. PICK h : Sums(h, e, n + 1) BY <1>1, TotalIs
  <2> QED BY <2>1 DEF Sums
<1> DEFINE S == {i \in 0 .. n : g[i] = f[i]}
<1>5. 0 \in S BY <1>1, <1>3, <1>4
<1>6. ASSUME NEW i \in 1 .. n, \A j \in 0 .. i - 1 : j \in S PROVE i \in S
  <2>1. i - 1 \in 0 .. i - 1 /\ i \in 0 .. n /\ i \in 1 .. n + 1 BY <1>1
  <2>2. g[i - 1] = f[i - 1] BY <2>1, <1>6
  <2>3. g[i] = f[i] BY <2>1, <2>2, <1>1, <1>3, <1>4
  <2> QED BY <2>1, <2>3
<1> HIDE DEF S
<1>7. \A i \in 0 .. n : i \in S BY <1>1, <1>5, <1>6, UpwardsAll
<1>8. g[n] = f[n] BY <1>1, <1>7 DEF S
<1>9. n + 1 \in 1 .. n + 1 /\ (n + 1) - 1 = n BY <1>1
<1>10. g[n + 1] = g[n] * 10 + e[n + 1] BY <1>4, <1>9
<1> QED BY <1>1, <1>3, <1>4, <1>8, <1>10 DEF e

\* One digit, or none.
LEMMA TotalOfOne ==
  ASSUME NEW d \in Nat
  PROVE  Numbers!Total(<<d>>) = d
<1>1. PICK f : /\ f[0] = 0 /\ \A i \in 1 .. 1 : f[i] = f[i - 1] * 10 + <<d>>[i]
               /\ Numbers!Total(<<d>>) = f[1]
  <2>1. <<d>> \in Seq(Nat) /\ Len(<<d>>) = 1 OBVIOUS
  <2>2. PICK h : Sums(h, <<d>>, 1) BY <2>1, TotalIs
  <2> QED BY <2>2 DEF Sums
<1>2. f[1] = f[0] * 10 + d
  <2>1. 1 \in 1 .. 1 /\ 1 - 1 = 0 OBVIOUS
  <2>2. <<d>>[1] = d OBVIOUS
  <2> QED BY <1>1, <2>1, <2>2
<1> QED BY <1>1, <1>2

\* The first position from a on that is not in T, or the one behind the end.
LEMMA FirstIs ==
  ASSUME NEW n \in Nat, NEW a \in 1 .. n + 1, NEW T
  PROVE  \E i \in a .. n + 1 : (\A j \in a .. (i - 1) : j \in T) /\ (i <= n => i \notin T)
<1> DEFINE S == {i \in a .. n + 1 : i <= n => i \notin T}
<1>1. S \in SUBSET Nat /\ n + 1 \in S OBVIOUS
<1>2. \A i : i \in S <=> i \in a .. n + 1 /\ (i <= n => i \notin T) OBVIOUS
<1> HIDE DEF S
<1>3. PICK i \in S : \A k \in S : i <= k BY <1>1, SmallestNumber
<1>4. i \in a .. n + 1 /\ (i <= n => i \notin T) BY <1>2, <1>3
<1>5. ASSUME NEW j \in a .. (i - 1) PROVE j \in T
  <2>1. j \in a .. n + 1 /\ j <= n /\ ~(i <= j) BY <1>4
  <2>2. j \notin S BY <2>1, <1>3
  <2> QED BY <2>1, <2>2, <1>2
<1> QED BY <1>4, <1>5

\* What the conversions find in a text: the blanks, the sign and the digits.
LEMMA BlanksEnd ==
  ASSUME NEW s \in Seq(Nat), NEW i, i = Numbers!AfterBlanks(s)
  PROVE  /\ i \in 1 .. Len(s) + 1 /\ \A j \in 1 .. (i - 1) : s[j] = 32
         /\ i <= Len(s) => s[i] # 32
<1> DEFINE n == Len(s)
           T == {j \in 1 .. n : s[j] = 32}
<1>1. n \in Nat /\ 1 \in 1 .. n + 1 OBVIOUS
<1>2. \E k \in 1 .. n + 1 : (\A j \in 1 .. (k - 1) : j \in T) /\ (k <= n => k \notin T)
  <2> HIDE DEF n, T
  <2> QED BY <1>1, FirstIs
<1>3. \E k \in 1 .. n + 1 : (\A j \in 1 .. (k - 1) : s[j] = 32) /\ (k <= n => s[k] # 32)
  BY <1>1, <1>2
<1>4. i = CHOOSE k \in 1 .. n + 1 : (\A j \in 1 .. (k - 1) : s[j] = 32) /\ (k <= n => s[k] # 32)
  BY DEF Numbers!AfterBlanks, Numbers!Space
<1> HIDE DEF n
<1>5. i \in 1 .. n + 1 /\ (\A j \in 1 .. (i - 1) : s[j] = 32) /\ (i <= n => s[i] # 32)
  BY <1>3, <1>4
<1> QED BY <1>5 DEF n

\* The sign.
LEMMA SignEnds ==
  ASSUME NEW s \in Seq(Nat)
  PROVE  /\ Numbers!AfterSign(s) \in 1 .. Len(s) + 1 /\ Len(s) \in Nat
         /\ Numbers!IsNegative(s) \in BOOLEAN
<1>1. Len(s) \in Nat OBVIOUS
<1>2. Numbers!AfterBlanks(s) \in 1 .. Len(s) + 1 BY BlanksEnd
<1> DEFINE i == Numbers!AfterBlanks(s)
<1>3. Numbers!AfterSign(s) = IF i <= Len(s) /\ s[i] \in {45, 43} THEN i + 1 ELSE i
  BY DEF Numbers!AfterSign, Numbers!Minus, Numbers!Plus
<1>4. Numbers!IsNegative(s) \in BOOLEAN BY DEF Numbers!IsNegative
<1> HIDE DEF i
<1> QED BY <1>1, <1>2, <1>3, <1>4 DEF i

\* The digits.
LEMMA DigitsAre ==
  ASSUME NEW s \in Seq(Nat), NEW a, a = Numbers!AfterSign(s), NEW e, e = Numbers!DigitsEnd(s)
  PROVE  /\ a \in 1 .. Len(s) + 1 /\ e \in a .. Len(s) + 1
         /\ \A j \in a .. (e - 1) : s[j] \in 48 .. 57
         /\ e <= Len(s) => s[e] \notin 48 .. 57
         /\ Numbers!DigitsOf(s) \in Seq(0 .. 9) /\ Len(Numbers!DigitsOf(s)) = e - a
         /\ \A k \in 1 .. (e - a) : Numbers!DigitsOf(s)[k] = s[a + k - 1] - 48
<1> DEFINE n == Len(s)
           T == {j \in 1 .. n : s[j] \in 48 .. 57}
<1>1. n \in Nat /\ a \in 1 .. n + 1 BY SignEnds
<1>2. \A j \in 1 .. n : s[j] \in Nat OBVIOUS
<1>3. \E k \in a .. n + 1 : (\A j \in a .. (k - 1) : j \in T) /\ (k <= n => k \notin T)
  <2> HIDE DEF n, T
  <2> QED BY <1>1, FirstIs
<1>4. \E k \in a .. n + 1 : (\A j \in a .. (k - 1) : s[j] \in 48 .. 57) /\ (k <= n => s[k] \notin 48 .. 57)
  BY <1>1, <1>3
<1>5. e = CHOOSE k \in a .. n + 1 :
            (\A j \in a .. (k - 1) : s[j] \in 48 .. (48 + 9)) /\ (k <= n => ~(s[k] \in 48 .. (48 + 9)))
  BY DEF Numbers!DigitsEnd, Numbers!IsDigit, Numbers!Zero
<1> HIDE DEF n
<1>6. e \in a .. n + 1 /\ (\A j \in a .. (e - 1) : s[j] \in 48 .. 57) /\ (e <= n => s[e] \notin 48 .. 57)
  <2>1. \A j : s[j] \in 48 .. (48 + 9) <=> s[j] \in 48 .. 57 OBVIOUS
  <2>2. \E k \in a .. n + 1 :
          (\A j \in a .. (k - 1) : s[j] \in 48 .. (48 + 9)) /\ (k <= n => ~(s[k] \in 48 .. (48 + 9)))
    BY <1>4, <2>1, Zenon
  <2>3. e \in a .. n + 1 /\ (\A j \in a .. (e - 1) : s[j] \in 48 .. (48 + 9))
        /\ (e <= n => ~(s[e] \in 48 .. (48 + 9)))
    BY <1>5, <2>2, Zenon
  <2> QED BY <2>1, <2>3, Zenon
<1>7. Numbers!DigitsOf(s) = [k \in 1 .. e - a |-> s[a + k - 1] - 48]
  BY DEF Numbers!DigitsOf, Numbers!Zero
<1>8. e - a \in Nat BY <1>1, <1>6
<1>9. ASSUME NEW k \in 1 .. e - a PROVE s[a + k - 1] - 48 \in 0 .. 9
  <2>1. a + k - 1 \in a .. (e - 1) BY <1>1, <1>6
  <2> QED BY <2>1, <1>6
<1>10. [k \in 1 .. e - a |-> s[a + k - 1] - 48] \in Seq(0 .. 9)
  <2> DEFINE m == e - a
             f == [k \in 1 .. m |-> s[a + k - 1] - 48]
  <2>1. f \in [1 .. m -> 0 .. 9] BY <1>9
  <2>2. m \in Nat BY <1>8
  <2> HIDE DEF m, f
  <2>3. f \in Seq(0 .. 9) BY <2>1, <2>2
  <2> QED BY <2>3 DEF f, m
<1>11. Len([k \in 1 .. e - a |-> s[a + k - 1] - 48]) = e - a
  BY <1>8
<1> QED BY <1>1, <1>6, <1>7, <1>10, <1>11 DEF n

\* A text of digits is a numeral without a sign.
LEMMA PlainNumeral ==
  ASSUME NEW t \in Seq(48 .. 57), t # <<>>
  PROVE  /\ t \in Seq(Nat) /\ ~Numbers!IsNegative(t) /\ Numbers!IsNumeral(t)
         /\ Numbers!DigitsOf(t) = Digits(t)
<1>1. t \in Seq(Nat) /\ Len(t) \in Nat \ {0} /\ \A i \in 1 .. Len(t) : t[i] \in 48 .. 57
  OBVIOUS
<1>2. Numbers!AfterBlanks(t) = 1
  <2> DEFINE i == Numbers!AfterBlanks(t)
  <2>1. i \in 1 .. Len(t) + 1 /\ \A j \in 1 .. (i - 1) : t[j] = 32 BY <1>1, BlanksEnd
  <2> HIDE DEF i
  <2>2. ASSUME i # 1 PROVE FALSE
    <3>1. 1 \in 1 .. (i - 1) /\ 1 \in 1 .. Len(t) BY <2>1, <2>2, <1>1
    <3>2. t[1] = 32 /\ t[1] \in 48 .. 57 BY <3>1, <2>1, <1>1
    <3> QED BY <3>2
  <2> QED BY <2>2 DEF i
<1>3. t[1] \in 48 .. 57 /\ 1 <= Len(t)
  <2>1. 1 \in 1 .. Len(t) BY <1>1
  <2> QED BY <2>1, <1>1
<1>4. ~Numbers!IsNegative(t)
  BY <1>2, <1>3 DEF Numbers!IsNegative, Numbers!Minus
<1>5. Numbers!AfterSign(t) = 1
  BY <1>2, <1>3 DEF Numbers!AfterSign, Numbers!Minus, Numbers!Plus
<1>6. Numbers!DigitsEnd(t) = Len(t) + 1
  <2> DEFINE e == Numbers!DigitsEnd(t)
  <2>1. e \in 1 .. Len(t) + 1 /\ (e <= Len(t) => t[e] \notin 48 .. 57) BY <1>1, <1>5, DigitsAre
  <2> HIDE DEF e
  <2>2. ASSUME e <= Len(t) PROVE FALSE
    <3>1. e \in 1 .. Len(t) BY <2>1, <2>2
    <3> QED BY <3>1, <2>1, <2>2, <1>1
  <2> QED BY <2>1, <2>2, <1>1 DEF e
<1>7. Numbers!DigitsOf(t) = Digits(t)
  <2>1. Numbers!DigitsOf(t) = [k \in 1 .. (Len(t) + 1) - 1 |-> t[1 + k - 1] - 48]
    BY <1>5, <1>6 DEF Numbers!DigitsOf, Numbers!Zero
  <2>2. (Len(t) + 1) - 1 = Len(t) /\ \A k \in 1 .. Len(t) : 1 + k - 1 = k BY <1>1
  <2> QED BY <2>1, <2>2 DEF Digits
<1>8. Numbers!DigitsOf(t) # <<>>
  <2>1. Digits(t) \in [1 .. Len(t) -> Int] /\ 1 \in 1 .. Len(t) BY <1>1 DEF Digits
  <2>2. DOMAIN Digits(t) = 1 .. Len(t) BY <2>1
  <2>3. DOMAIN <<>> = {} OBVIOUS
  <2> QED BY <2>1, <2>2, <2>3, <1>7
<1> QED BY <1>1, <1>4, <1>6, <1>7, <1>8 DEF Numbers!IsNumeral

LEMMA DigitsAreNumbers ==
  ASSUME NEW t \in Seq(48 .. 57)
  PROVE  t \in Seq(Nat)
OBVIOUS

\* With a minus sign in front it is a negative one.
LEMMA NegativeNumeral ==
  ASSUME NEW t \in Seq(48 .. 57), t # <<>>, NEW s, s = <<Numbers!Minus>> \o t
  PROVE  /\ s \in Seq(Nat) /\ Numbers!IsNegative(s) /\ Numbers!IsNumeral(s)
         /\ Numbers!DigitsOf(s) = Digits(t)
<1>0. s = <<45>> \o t BY DEF Numbers!Minus
<1>1. /\ Len(t) \in Nat \ {0} /\ \A i \in 1 .. Len(t) : t[i] \in 48 .. 57
      /\ s \in Seq(Nat) /\ Len(s) = Len(t) + 1 /\ s[1] = 45
      /\ \A i \in 1 .. Len(t) : s[i + 1] = t[i]
  <2>1. <<45>> \in Seq(Nat) /\ Len(<<45>>) = 1 /\ <<45>>[1] = 45 OBVIOUS
  <2>2. Len(t) \in Nat \ {0} /\ \A i \in 1 .. Len(t) : t[i] \in 48 .. 57 OBVIOUS
  <2>3. t \in Seq(Nat) BY DigitsAreNumbers
  <2> QED BY <1>0, <2>1, <2>2, <2>3, ConcatProperties
<1>2. Numbers!AfterBlanks(s) = 1
  <2> DEFINE i == Numbers!AfterBlanks(s)
  <2>1. i \in 1 .. Len(s) + 1 /\ \A j \in 1 .. (i - 1) : s[j] = 32
    <3>1. s \in Seq(Nat) BY <1>1
    <3> QED BY <3>1, BlanksEnd, Zenon
  <2> HIDE DEF i
  <2>2. ASSUME i # 1 PROVE FALSE
    <3>1. 1 \in 1 .. (i - 1) BY <2>1, <2>2, <1>1
    <3> QED BY <3>1, <2>1, <1>1
  <2> QED BY <2>2 DEF i
<1>3. 1 <= Len(s) BY <1>1
<1>4. Numbers!IsNegative(s)
  BY <1>1, <1>2, <1>3 DEF Numbers!IsNegative, Numbers!Minus
<1>5. Numbers!AfterSign(s) = 2
  BY <1>1, <1>2, <1>3 DEF Numbers!AfterSign, Numbers!Minus, Numbers!Plus
<1>6. Numbers!DigitsEnd(s) = Len(s) + 1
  <2> DEFINE e == Numbers!DigitsEnd(s)
  <2>1. e \in 2 .. Len(s) + 1 /\ (e <= Len(s) => s[e] \notin 48 .. 57) BY <1>1, <1>5, DigitsAre
  <2> HIDE DEF e
  <2>2. ASSUME e <= Len(s) PROVE FALSE
    <3>1. e - 1 \in 1 .. Len(t) /\ (e - 1) + 1 = e BY <2>1, <2>2, <1>1
    <3>2. s[e] = t[e - 1] BY <3>1, <1>1
    <3> QED BY <3>1, <3>2, <2>1, <2>2, <1>1
  <2> QED BY <2>1, <2>2, <1>1 DEF e
<1>7. Numbers!DigitsOf(s) = Digits(t)
  <2>1. Numbers!DigitsOf(s) = [k \in 1 .. (Len(t) + 2) - 2 |-> s[2 + k - 1] - 48]
    <3>1. Len(s) + 1 = Len(t) + 2 BY <1>1
    <3> QED BY <1>5, <1>6, <3>1 DEF Numbers!DigitsOf, Numbers!Zero
  <2>2. (Len(t) + 2) - 2 = Len(t) /\ \A k \in 1 .. Len(t) : 2 + k - 1 = k + 1 BY <1>1
  <2>3. \A k \in 1 .. Len(t) : s[2 + k - 1] = t[k] BY <2>2, <1>1
  <2> QED BY <2>1, <2>2, <2>3 DEF Digits
<1>8. Numbers!DigitsOf(s) # <<>>
  <2>1. Digits(t) \in [1 .. Len(t) -> Int] /\ 1 \in 1 .. Len(t) BY <1>1 DEF Digits
  <2>2. DOMAIN Digits(t) = 1 .. Len(t) BY <2>1
  <2>3. DOMAIN <<>> = {} OBVIOUS
  <2> QED BY <2>1, <2>2, <2>3, <1>7
<1> QED BY <1>1, <1>4, <1>6, <1>7, <1>8 DEF Numbers!IsNumeral

\* The last digit of a number and the others.
LEMMA TenParts ==
  ASSUME NEW k \in Nat
  PROVE  /\ k \div 10 \in Nat /\ k % 10 \in 0 .. 9 /\ (k \div 10) * 10 + (k % 10) = k
         /\ k # 0 => k \div 10 < k
         /\ k < 10 => k % 10 = k
OBVIOUS

\* The digits of a text that is one digit longer, and of a text of one.
LEMMA DigitsOfAppend ==
  ASSUME NEW t \in Seq(48 .. 57), NEW d \in 0 .. 9
  PROVE  /\ Append(t, 48 + d) \in Seq(48 .. 57) /\ Append(t, 48 + d) # <<>>
         /\ Digits(t) \in Seq(Nat) /\ Digits(Append(t, 48 + d)) = Append(Digits(t), d)
<1> DEFINE n == Len(t)
           c == 48 + d
           u == Append(t, c)
<1>1. n \in Nat /\ c \in 48 .. 57 /\ \A i \in 1 .. n : t[i] \in 48 .. 57 OBVIOUS
<1>2. u \in Seq(48 .. 57) /\ Len(u) = n + 1 /\ u[n + 1] = c /\ \A i \in 1 .. n : u[i] = t[i]
  BY <1>1
<1>3. c - 48 = d OBVIOUS
<1> HIDE DEF n, c, u
<1>4. Digits(t) = [i \in 1 .. n |-> t[i] - 48] BY DEF Digits, n
<1>5. Digits(u) = [i \in 1 .. n + 1 |-> u[i] - 48] BY <1>2 DEF Digits
<1>6. \A i \in 1 .. n : t[i] - 48 \in Nat BY <1>1
<1> DEFINE ds == Digits(t)
<1>7. ds \in [1 .. n -> Nat] /\ \A i \in 1 .. n : ds[i] = t[i] - 48 BY <1>4, <1>6
<1> HIDE DEF ds
<1>8. ds \in Seq(Nat) /\ Len(ds) = n BY <1>7, <1>1
<1>9. Append(ds, d) = [i \in 1 .. n + 1 |-> u[i] - 48]
  <2>1. /\ Append(ds, d) \in Seq(Nat) /\ Len(Append(ds, d)) = n + 1 /\ Append(ds, d)[n + 1] = d
        /\ \A i \in 1 .. n : Append(ds, d)[i] = ds[i]
    BY <1>8
  <2> DEFINE a == Append(ds, d)
  <2>2. a \in Seq(Nat) /\ Len(a) = n + 1 /\ a[n + 1] = d /\ \A i \in 1 .. n : a[i] = ds[i] BY <2>1
  <2> HIDE DEF a
  <2>3. a = [i \in 1 .. n + 1 |-> a[i]] BY <2>2
  <2>4. ASSUME NEW i \in 1 .. n + 1 PROVE a[i] = u[i] - 48
    <3>1. CASE i = n + 1 BY <3>1, <2>2, <1>2, <1>3
    <3>2. CASE i # n + 1
      <4>1. i \in 1 .. n BY <3>2, <1>1
      <4> QED BY <4>1, <2>2, <1>2, <1>7
    <3> QED BY <3>1, <3>2
  <2>5. [i \in 1 .. n + 1 |-> a[i]] = [i \in 1 .. n + 1 |-> u[i] - 48] BY <2>4
  <2> QED BY <2>3, <2>5 DEF a
<1>10. u # <<>>
  <2>1. Len(u) # 0 BY <1>1, <1>2
  <2> QED BY <2>1
<1> QED BY <1>2, <1>5, <1>8, <1>9, <1>10 DEF u, c, ds

\* The decimal digits of a number stand for it.
LEMMA DecimalIs ==
  ASSUME NEW n \in Nat
  PROVE  /\ Numbers!Decimal(n) \in Seq(48 .. 57) /\ Numbers!Decimal(n) # <<>>
         /\ Numbers!Total(Digits(Numbers!Decimal(n))) = n
<1> DEFINE V == Seq(48 .. 57)
           F == CHOOSE f : f = [k \in 0 .. n |-> IF k < 10 THEN <<48 + k>> ELSE Append(f[k \div 10], 48 + (k % 10))]
           step == [p \in (1 .. n) \X V |->
                      IF p[1] < 10 THEN <<48 + p[1]>> ELSE Append(p[2], 48 + (p[1] % 10))]
           prev == [k \in 1 .. n |-> k \div 10]
<1>1. Numbers!Decimal(n) = F[n]
  BY DEF Numbers!Decimal, Numbers!Zero
<1>2. \A k \in 0 .. n :
        /\ k < 10 => <<48 + k>> \in V
        /\ \A v \in V : Append(v, 48 + (k % 10)) \in V
  <2> TAKE k \in 0 .. n
  <2>1. k \in Nat /\ k % 10 \in 0 .. 9 BY TenParts
  <2>2. k < 10 => 48 + k \in 48 .. 57 BY <2>1
  <2>3. k < 10 => <<48 + k>> \in Seq(48 .. 57) BY <2>2
  <2>4. 48 + (k % 10) \in 48 .. 57 BY <2>1
  <2>5. \A v \in Seq(48 .. 57) : Append(v, 48 + (k % 10)) \in Seq(48 .. 57) BY <2>4
  <2> QED BY <2>3, <2>5
<1>3. \E f : f = [k \in 0 .. n |-> IF k < 10 THEN <<48 + k>> ELSE Append(f[k \div 10], 48 + (k % 10))]
  <2>1. \A k \in 1 .. n, v \in V :
          /\ step[<<k, v>>] = IF k < 10 THEN <<48 + k>> ELSE Append(v, 48 + (k % 10))
          /\ step[<<k, v>>] \in V
    <3> HIDE DEF V
    <3>1. \A k \in 1 .. n : k \in 0 .. n OBVIOUS
    <3> QED BY <1>2, <3>1
  <2>2. step \in [(1 .. n) \X V -> V]
    <3> HIDE DEF V
    <3>1. \A p \in (1 .. n) \X V : step[p] \in V
      <4> TAKE p \in (1 .. n) \X V
      <4>1. p = <<p[1], p[2]>> /\ p[1] \in 1 .. n /\ p[2] \in V OBVIOUS
      <4> HIDE DEF step
      <4> QED BY <4>1, <2>1
    <3>2. step = [p \in (1 .. n) \X V |-> step[p]] OBVIOUS
    <3> HIDE DEF step
    <3> QED BY <3>1, <3>2
  <2>3. prev \in [1 .. n -> 0 .. n] /\ \A k \in 1 .. n : prev[k] = k \div 10 /\ prev[k] < k
    <3>1. \A k \in 1 .. n : k \div 10 \in 0 .. n /\ k \div 10 < k
      <4> TAKE k \in 1 .. n
      <4>1. k \in Nat /\ k # 0 OBVIOUS
      <4>2. k \div 10 \in Nat /\ k \div 10 < k BY <4>1, TenParts
      <4> HIDE DEF prev
      <4> QED BY <4>2
    <3> QED BY <3>1
  <2>4. <<48>> \in V
    <3>1. 48 \in 48 .. 57 OBVIOUS
    <3> QED BY <3>1
  <2> HIDE DEF step, prev, V
  <2>5. PICK f : Ascends(f, n, V, <<48>>, step, prev)
    BY <2>2, <2>3, <2>4, AscentExists
  <2>6. f \in [0 .. n -> V] /\ f[0] = <<48>> /\ \A k \in 1 .. n : f[k] = step[<<k, f[prev[k]]>>]
    BY <2>5 DEF Ascends
  <2>7. ASSUME NEW k \in 0 .. n
        PROVE  f[k] = IF k < 10 THEN <<48 + k>> ELSE Append(f[k \div 10], 48 + (k % 10))
    <3>1. CASE k = 0
      <4>1. <<48 + k>> = <<48>> /\ k < 10 BY <3>1
      <4> QED BY <3>1, <4>1, <2>6
    <3>2. CASE k # 0
      <4>1. k \in 1 .. n BY <3>2
      <4>2. prev[k] \in 0 .. n /\ prev[k] = k \div 10 BY <4>1, <2>3
      <4>3. f[prev[k]] \in V BY <4>2, <2>6
      <4> QED BY <4>1, <4>2, <4>3, <2>1, <2>6
    <3> QED BY <3>1, <3>2
  <2> DEFINE Value(k) == IF k < 10 THEN <<48 + k>> ELSE Append(f[k \div 10], 48 + (k % 10))
  <2>8. \A k \in 0 .. n : f[k] = Value(k) BY <2>7
  <2>9. f = [k \in 0 .. n |-> f[k]] BY <2>6
  <2> HIDE DEF Value
  <2>10. [k \in 0 .. n |-> f[k]] = [k \in 0 .. n |-> Value(k)] BY <2>8
  <2>11. f = [k \in 0 .. n |-> Value(k)] BY <2>9, <2>10
  <2> QED BY <2>11 DEF Value
<1>4. F = [k \in 0 .. n |-> IF k < 10 THEN <<48 + k>> ELSE Append(F[k \div 10], 48 + (k % 10))]
  BY <1>3
<1> HIDE DEF F
<1>5. \A k \in 0 .. n : F[k] = IF k < 10 THEN <<48 + k>> ELSE Append(F[k \div 10], 48 + (k % 10))
  <2> DEFINE Value(k) == IF k < 10 THEN <<48 + k>> ELSE Append(F[k \div 10], 48 + (k % 10))
  <2>1. F = [k \in 0 .. n |-> Value(k)] BY <1>4
  <2> HIDE DEF Value
  <2>2. \A k \in 0 .. n : F[k] = Value(k) BY <2>1
  <2> QED BY <2>2 DEF Value
<1> DEFINE Right(k) == F[k] \in Seq(48 .. 57) /\ F[k] # <<>> /\ Numbers!Total(Digits(F[k])) = k
           S == {k \in 0 .. n : Right(k)}
<1>6. ASSUME NEW k \in 0 .. n, k < 10 PROVE Right(k)
  <2>1. 48 + k \in 48 .. 57 /\ (48 + k) - 48 = k BY <1>6
  <2>2. F[k] = <<48 + k>> BY <1>5, <1>6
  <2>3. <<48 + k>> \in Seq(48 .. 57) /\ <<48 + k>> # <<>> /\ Len(<<48 + k>>) = 1 /\ <<48 + k>>[1] = 48 + k
    BY <2>1
  <2>4. Digits(<<48 + k>>) = <<k>>
    <3>1. Digits(<<48 + k>>) = [i \in 1 .. 1 |-> <<48 + k>>[i] - 48] BY <2>3 DEF Digits
    <3>2. \A i \in 1 .. 1 : <<48 + k>>[i] - 48 = k BY <2>1
    <3>3. [i \in 1 .. 1 |-> <<48 + k>>[i] - 48] = [i \in 1 .. 1 |-> k] BY <3>2
    <3>4. [i \in 1 .. 1 |-> k] = <<k>> OBVIOUS
    <3> QED BY <3>1, <3>3, <3>4
  <2>5. Numbers!Total(<<k>>) = k BY TotalOfOne
  <2> QED BY <2>2, <2>3, <2>4, <2>5
<1>7. 0 \in S
  <2>1. 0 \in 0 .. n /\ 0 < 10 OBVIOUS
  <2> QED BY <2>1, <1>6
<1>8. ASSUME NEW k \in 1 .. n, \A j \in 0 .. k - 1 : j \in S PROVE k \in S
  <2>1. k \in 0 .. n /\ k \in Nat /\ k # 0 OBVIOUS
  <2>2. CASE k < 10 BY <2>1, <2>2, <1>6
  <2>3. CASE ~(k < 10)
    <3> DEFINE j == k \div 10
               d == k % 10
    <3>1. j \in 0 .. k - 1 /\ d \in 0 .. 9 /\ j * 10 + d = k
      <4>1. j \in Nat /\ j < k /\ d \in 0 .. 9 /\ j * 10 + d = k BY <2>1, TenParts
      <4> HIDE DEF j, d
      <4> QED BY <4>1, <2>1
    <3>2. F[k] = Append(F[j], 48 + d) BY <1>5, <2>1, <2>3
    <3> HIDE DEF j, d
    <3>3. Right(j) BY <3>1, <1>8
    <3> DEFINE t == F[j]
    <3>4. t \in Seq(48 .. 57) /\ Numbers!Total(Digits(t)) = j BY <3>3
    <3> HIDE DEF t
    <3>5. /\ Append(t, 48 + d) \in Seq(48 .. 57) /\ Append(t, 48 + d) # <<>>
          /\ Digits(t) \in Seq(Nat) /\ Digits(Append(t, 48 + d)) = Append(Digits(t), d)
      BY <3>1, <3>4, DigitsOfAppend
    <3>6. Numbers!Total(Append(Digits(t), d)) = j * 10 + d
      <4>1. d \in Nat BY <3>1
      <4> QED BY <3>4, <3>5, <4>1, TotalOfAppend
    <3>7. Right(k) BY <3>1, <3>2, <3>5, <3>6 DEF t
    <3> QED BY <3>7, <2>1
  <2> QED BY <2>2, <2>3
<1> HIDE DEF S
<1>9. \A k \in 0 .. n : k \in S BY <1>7, <1>8, UpwardsAll
<1>10. Right(n) BY <1>9 DEF S
<1> QED BY <1>1, <1>10

\* Remainders of numbers that are less than twice the divisor apart from 0.
LEMMA SmallRemainder ==
  ASSUME NEW m \in Nat \ {0}, NEW n \in Int
  PROVE  /\ 0 <= n /\ n < m => n % m = n
         /\ -m <= n /\ n < 0 => n % m = n + m
<1> DEFINE q == n \div m
           r == n % m
<1>1. q \in Int /\ r \in 0 .. m - 1 /\ n = r + q * m
  OBVIOUS
<1> HIDE DEF q, r
<1>2. q >= 1 => q * m >= m BY <1>1
<1>3. q <= -2 => q * m <= -2 * m BY <1>1
<1>4. CASE q >= 1 BY <1>1, <1>2, <1>4
<1>5. CASE q <= -2 BY <1>1, <1>3, <1>5
<1>6. CASE q = 0 BY <1>1, <1>6 DEF r
<1>7. CASE q = -1 BY <1>1, <1>7 DEF r
<1> QED BY <1>1, <1>4, <1>5, <1>6, <1>7

\* Values of a width are not changed by cutting them to it.
LEMMA WrapIs ==
  ASSUME NEW n \in Sizes, NEW v \in Int
  PROVE  /\ v \in 0 .. 2 ^ Bits[n] - 1 => Numbers!Wrap(v, Bits[n], FALSE) = v
         /\ v \in -(2 ^ (Bits[n] - 1)) .. 2 ^ (Bits[n] - 1) - 1 => Numbers!Wrap(v, Bits[n], TRUE) = v
         /\ v = 2 ^ (Bits[n] - 1) => Numbers!Wrap(v, Bits[n], TRUE) = -v
         /\ Numbers!Wrap(v, Bits[n], TRUE) \in Int
<1> DEFINE b == Bits[n]
           m == 2 ^ b
           h == 2 ^ (b - 1)
           r == v % m
           w == Numbers!Wrap(v, b, TRUE)
<1>1. m \in Nat \ {0} /\ h \in Nat \ {0} /\ m = 2 * h BY PowersAre
<1>2. /\ Numbers!Wrap(v, b, FALSE) = r
      /\ w = IF r >= h THEN r - m ELSE r
  BY DEF Numbers!Wrap
<1> HIDE DEF b, m, h, w
<1>3. r \in Int BY <1>1
<1>4. /\ 0 <= v /\ v < m => r = v
      /\ -m <= v /\ v < 0 => r = v + m
  BY <1>1, SmallRemainder
<1> HIDE DEF r
<1>5. v \in 0 .. m - 1 => r = v BY <1>1, <1>4
<1>6. v \in -h .. h - 1 => w = v
  <2>1. CASE v \in 0 .. h - 1 BY <2>1, <1>1, <1>2, <1>4
  <2>2. CASE v \in -h .. -1
    <3>1. r = v + m BY <2>2, <1>1, <1>4
    <3> QED BY <3>1, <2>2, <1>1, <1>2
  <2>3. v \in -h .. h - 1 => v \in 0 .. h - 1 \/ v \in -h .. -1 BY <1>1
  <2> QED BY <2>1, <2>2, <2>3
<1>7. v = h => w = -v BY <1>1, <1>2, <1>4
<1>8. w \in Int BY <1>1, <1>2, <1>3
<1> QED BY <1>2, <1>5, <1>6, <1>7, <1>8 DEF b, m, h, w

\* The types, and the width of the conversion each uses.
LEMMA NumberTypes ==
  ASSUME NEW t \in Numbers!Types
  PROVE  /\ \E n \in Sizes : t.bits = Bits[n]
         /\ t.read \in {Bits[4], Bits[8]} /\ t.signed \in BOOLEAN /\ t.ranged \in BOOLEAN
         /\ t.ranged => t.bits \in {Bits[1], Bits[2]} /\ t.read = Bits[4]
         /\ ~t.ranged => t.read = t.bits
<1>1. CASE t = Numbers!SByte
  <2>1. t = [bits |-> Bits[1], signed |-> TRUE, read |-> Bits[4], ranged |-> TRUE]
    BY <1>1 DEF Numbers!SByte, Numbers!Type
  <2> QED BY <2>1 DEF Sizes
<1>2. CASE t = Numbers!Byte
  <2>1. t = [bits |-> Bits[1], signed |-> FALSE, read |-> Bits[4], ranged |-> TRUE]
    BY <1>2 DEF Numbers!Byte, Numbers!Type
  <2> QED BY <2>1 DEF Sizes
<1>3. CASE t = Numbers!Int16
  <2>1. t = [bits |-> Bits[2], signed |-> TRUE, read |-> Bits[4], ranged |-> TRUE]
    BY <1>3 DEF Numbers!Int16, Numbers!Type
  <2> QED BY <2>1 DEF Sizes
<1>4. CASE t = Numbers!UInt16
  <2>1. t = [bits |-> Bits[2], signed |-> FALSE, read |-> Bits[4], ranged |-> TRUE]
    BY <1>4 DEF Numbers!UInt16, Numbers!Type
  <2> QED BY <2>1 DEF Sizes
<1>5. CASE t = Numbers!Int32
  <2>1. t = [bits |-> Bits[4], signed |-> TRUE, read |-> Bits[4], ranged |-> FALSE]
    BY <1>5 DEF Numbers!Int32, Numbers!Type
  <2> QED BY <2>1 DEF Sizes
<1>6. CASE t = Numbers!UInt32
  <2>1. t = [bits |-> Bits[4], signed |-> FALSE, read |-> Bits[4], ranged |-> FALSE]
    BY <1>6 DEF Numbers!UInt32, Numbers!Type
  <2> QED BY <2>1 DEF Sizes
<1>7. CASE t = Numbers!Int64
  <2>1. t = [bits |-> Bits[8], signed |-> TRUE, read |-> Bits[8], ranged |-> FALSE]
    BY <1>7 DEF Numbers!Int64, Numbers!Type
  <2> QED BY <2>1 DEF Sizes
<1>8. CASE t = Numbers!UInt64
  <2>1. t = [bits |-> Bits[8], signed |-> FALSE, read |-> Bits[8], ranged |-> FALSE]
    BY <1>8 DEF Numbers!UInt64, Numbers!Type
  <2> QED BY <2>1 DEF Sizes
<1> QED BY <1>1, <1>2, <1>3, <1>4, <1>5, <1>6, <1>7, <1>8 DEF Numbers!Types

\* The text of a value stands for it.
LEMMA TextOfValueIs ==
  ASSUME NEW t \in Numbers!Types, NEW v \in Numbers!Values(t), NEW s, s = Numbers!TextOfValue(t, v)
  PROVE  s \in Seq(Nat) /\ Numbers!IsNumeral(s) /\ Numbers!Number(s) = v
<1>1. PICK n \in Sizes : t.bits = Bits[n] BY NumberTypes
<1> DEFINE h == 2 ^ (Bits[n] - 1)
           k == IF Bits[n] <= Bits[4] THEN 4 ELSE 8
           b == Bits[k]
<1>2. h \in Nat \ {0} /\ 2 ^ Bits[n] = 2 * h BY PowersAre
<1>3. v \in Int /\ -h <= v
  <2>1. v \in (IF t.signed THEN -h ELSE 0) .. (IF t.signed THEN h - 1 ELSE 2 * h - 1)
    BY <1>1, <1>2 DEF Numbers!Values, Numbers!Lowest, Numbers!Highest
  <2> HIDE DEF h
  <2> QED BY <1>2, <2>1
<1>4. k \in Sizes /\ h <= 2 ^ (b - 1) /\ 2 ^ (b - 1) \in Nat \ {0} /\ 2 ^ b = 2 * 2 ^ (b - 1)
  <2>1. 1 \in Sizes /\ 2 \in Sizes /\ 4 \in Sizes /\ 8 \in Sizes BY DEF Sizes
  <2>2. Bits[4] < Bits[8] /\ Bits[4] \in Nat /\ Bits[8] \in Nat BY <2>1, PowersAre
  <2>3. CASE n = 8
    <3>1. k = 8 BY <2>2, <2>3
    <3> QED BY <3>1, <2>1, <2>3, PowersAre
  <2>4. CASE n = 4
    <3>1. k = 4 BY <2>2, <2>4
    <3> QED BY <3>1, <2>1, <2>4, PowersAre
  <2>5. CASE n \in {1, 2}
    <3>1. n < 4 /\ Bits[n] < Bits[4] /\ Bits[n] \in Nat /\ h <= 2 ^ (Bits[4] - 1) BY <2>1, <2>5, PowersAre
    <3>2. k = 4 BY <2>2, <3>1
    <3> QED BY <3>1, <3>2, <2>1, PowersAre
  <2> QED BY <2>3, <2>4, <2>5 DEF Sizes
<1>5. CASE v < 0
  <2> DEFINE g == 2 ^ (b - 1)
             w == -v
             d == Numbers!Decimal(w)
  <2>1. s = Numbers!Negative(v, b) BY <1>1, <1>5 DEF Numbers!TextOfValue
  <2>2. Numbers!Negative(v, b) = IF v = -g THEN <<45>> \o Numbers!Decimal(g)
                                  ELSE <<45>> \o Numbers!Decimal(Numbers!Wrap(w, b, FALSE))
    BY DEF Numbers!Negative, Numbers!Lowest, Numbers!Minus
  <2>3. 2 ^ b = 2 * g /\ g \in Nat \ {0} /\ h <= g BY <1>4
  <2> HIDE DEF g
  <2>4. w \in Nat /\ w \in Int /\ w <= g /\ (v = -g => g = w) /\ w \in 0 .. 2 * g - 1
    <3> HIDE DEF h
    <3> QED BY <1>2, <1>3, <1>5, <2>3
  <2>5. Numbers!Wrap(w, b, FALSE) = w
    <3>1. w \in 0 .. 2 ^ b - 1 BY <2>3, <2>4
    <3> HIDE DEF k
    <3> QED BY <1>4, <2>4, <3>1, WrapIs
  <2>6. s = <<45>> \o d BY <2>1, <2>2, <2>4, <2>5
  <2> HIDE DEF w
  <2>7. d \in Seq(48 .. 57) /\ d # <<>> /\ Numbers!Total(Digits(d)) = w BY <2>4, DecimalIs
  <2> HIDE DEF d
  <2>8. s \in Seq(Nat) /\ Numbers!IsNegative(s) /\ Numbers!IsNumeral(s) /\ Numbers!DigitsOf(s) = Digits(d)
    BY <2>6, <2>7, NegativeNumeral DEF Numbers!Minus
  <2>9. Numbers!Number(s) = -w BY <2>7, <2>8 DEF Numbers!Number
  <2>10. -w = v BY <1>3 DEF w
  <2> QED BY <2>8, <2>9, <2>10
<1>6. CASE ~(v < 0)
  <2> DEFINE d == Numbers!Decimal(v)
  <2>1. s = d BY <1>6 DEF Numbers!TextOfValue
  <2>2. v \in Nat BY <1>3, <1>6
  <2>3. d \in Seq(48 .. 57) /\ d # <<>> /\ Numbers!Total(Digits(d)) = v BY <2>2, DecimalIs
  <2> HIDE DEF d
  <2>4. s \in Seq(Nat) /\ ~Numbers!IsNegative(s) /\ Numbers!IsNumeral(s) /\ Numbers!DigitsOf(s) = Digits(d)
    BY <2>1, <2>3, PlainNumeral
  <2> QED BY <2>3, <2>4 DEF Numbers!Number
<1> QED BY <1>5, <1>6

\* The digits of a text, and the sums of their beginnings.
LEMMA DigitSums ==
  ASSUME NEW s \in Seq(Nat), NEW ds, ds = Numbers!DigitsOf(s), NEW n, n = Len(ds)
  PROVE  /\ n \in Nat /\ ds \in Seq(Nat) /\ \A i \in 1 .. n : ds[i] \in 0 .. 9
         /\ \E f : Sums(f, ds, n)
<1>1. ds \in Seq(0 .. 9) BY DigitsAre
<1>2. n \in Nat /\ ds \in Seq(Nat) /\ \A i \in 1 .. n : ds[i] \in 0 .. 9 BY <1>1
<1> QED BY <1>2, TotalIs

\* The sums do not become smaller.
LEMMA SumsGrow ==
  ASSUME NEW n \in Nat, NEW ds, \A i \in 1 .. n : ds[i] \in 0 .. 9, NEW f, Sums(f, ds, n), NEW i \in 1 .. n
  PROVE  /\ i - 1 \in 0 .. n /\ i \in 0 .. n
         /\ f[i - 1] \in Nat /\ f[i] \in Nat /\ ds[i] \in 0 .. 9 /\ f[i] = f[i - 1] * 10 + ds[i]
         /\ f[i - 1] <= f[i] /\ (f[i - 1] >= 1 => f[i - 1] < f[i])
<1>1. i - 1 \in 0 .. n /\ i \in 0 .. n OBVIOUS
<1>2. f[i - 1] \in Nat /\ f[i] \in Nat /\ ds[i] \in 0 .. 9 /\ f[i] = f[i - 1] * 10 + ds[i]
  BY <1>1 DEF Sums
<1> QED BY <1>1, <1>2

\* The code finds out before it adds a digit whether the limit would be passed.
LEMMA CutoffIs ==
  ASSUME NEW lim \in Nat, NEW neg \in BOOLEAN, NEW limit, limit = IF neg THEN -lim ELSE lim,
         NEW cutoff, cutoff = Numbers!Quotient(limit, 10),
         NEW cutlim, cutlim = (IF neg THEN -Numbers!Remainder(limit, 10) ELSE Numbers!Remainder(limit, 10)),
         NEW a \in Nat, NEW acc, acc = IF neg THEN -a ELSE a, NEW d \in 0 .. 9
  PROVE  (\/ IF neg THEN acc < cutoff ELSE acc > cutoff
          \/ acc = cutoff /\ d > cutlim) <=> a * 10 + d > lim
<1> DEFINE q == lim \div 10
           r == lim % 10
<1>1. q \in Nat /\ r \in 0 .. 9 /\ q * 10 + r = lim BY TenParts
<1>2. CASE ~neg
  <2>1. limit = lim /\ acc = a BY <1>2
  <2>2. cutoff = q
    <3>1. cutoff = IF lim >= 0 THEN q ELSE -((-lim) \div 10) BY <2>1 DEF Numbers!Quotient
    <3>2. lim >= 0 OBVIOUS
    <3> QED BY <3>1, <3>2
  <2>3. cutlim = lim - 10 * q BY <1>2, <2>1, <2>2 DEF Numbers!Remainder
  <2> HIDE DEF q, r
  <2> QED BY <1>1, <1>2, <2>1, <2>2, <2>3
<1>3. CASE neg
  <2>1. limit = -lim /\ acc = -a /\ -limit = lim BY <1>3
  <2>2. cutoff = -q
    <3>1. cutoff = IF limit >= 0 THEN limit \div 10 ELSE -((-limit) \div 10) BY DEF Numbers!Quotient
    <3>2. CASE lim = 0
      <4>1. limit = 0 BY <2>1, <3>2
      <4>2. cutoff = 0 \div 10 BY <3>1, <4>1
      <4>3. q = 0 \div 10 BY <3>2
      <4>4. 0 \div 10 = 0 OBVIOUS
      <4> QED BY <4>2, <4>3, <4>4
    <3>3. CASE lim # 0
      <4>1. ~(limit >= 0) BY <2>1, <3>3
      <4>2. cutoff = -((-limit) \div 10) BY <3>1, <4>1
      <4> QED BY <4>2, <2>1
    <3> QED BY <3>2, <3>3
  <2>3. cutlim = -(limit - 10 * cutoff) BY <1>3 DEF Numbers!Remainder
  <2> HIDE DEF q, r
  <2>4. cutlim = r BY <1>1, <2>1, <2>2, <2>3
  <2>5. (-a < -q \/ (-a = -q /\ d > r)) <=> a * 10 + d > lim BY <1>1
  <2>6. (IF neg THEN acc < cutoff ELSE acc > cutoff) <=> -a < -q BY <1>3, <2>1, <2>2, Zenon
  <2> QED BY <2>1, <2>2, <2>4, <2>5, <2>6, Zenon
<1> QED BY <1>2, <1>3

\* The number goes on, or stays at the limit.
LEMMA AddDigitIs ==
  ASSUME NEW neg \in BOOLEAN, NEW lim \in Nat, NEW a \in Nat, NEW d \in 0 .. 9
  PROVE  AddDigit(neg, Signing(neg, lim), Capped(neg, lim, a), d) = Capped(neg, lim, a * 10 + d)
<1> DEFINE limit == Signing(neg, lim)
           acc == Signing(neg, a)
           cutoff == Numbers!Quotient(limit, 10)
           cutlim == IF neg THEN -Numbers!Remainder(limit, 10) ELSE Numbers!Remainder(limit, 10)
           b == a * 10 + d
           over == \/ IF neg THEN acc < cutoff ELSE acc > cutoff
                   \/ acc = cutoff /\ d > cutlim
<1>1. b \in Nat /\ a <= b OBVIOUS
<1>2. (IF neg THEN acc * 10 - d ELSE acc * 10 + d) = Signing(neg, b)
  <2>1. CASE neg
    <3>1. (-a) * 10 - d = -b OBVIOUS
    <3>2. acc = -a /\ Signing(neg, b) = -b BY <2>1 DEF Signing
    <3> QED BY <2>1, <3>1, <3>2, Zenon
  <2>2. CASE ~neg
    <3>1. acc = a /\ Signing(neg, b) = b BY <2>2 DEF Signing
    <3> QED BY <2>2, <3>1, Zenon
  <2> QED BY <2>1, <2>2
<1>3. over <=> b > lim
  <2>1. neg \in BOOLEAN /\ limit = (IF neg THEN -lim ELSE lim) /\ acc = (IF neg THEN -a ELSE a)
    BY DEF Signing
  <2>2. cutoff = Numbers!Quotient(limit, 10)
        /\ cutlim = (IF neg THEN -Numbers!Remainder(limit, 10) ELSE Numbers!Remainder(limit, 10))
    OBVIOUS
  <2> HIDE DEF limit, acc, cutoff, cutlim
  <2> QED BY <2>1, <2>2, CutoffIs
<1>4. AddDigit(neg, limit, Capped(neg, lim, a), d) =
        IF Capped(neg, lim, a).range THEN Capped(neg, lim, a)
        ELSE IF \/ IF neg THEN Capped(neg, lim, a).acc < cutoff ELSE Capped(neg, lim, a).acc > cutoff
                \/ Capped(neg, lim, a).acc = cutoff /\ d > cutlim
        THEN [acc |-> limit, range |-> TRUE]
        ELSE [acc |-> IF neg THEN Capped(neg, lim, a).acc * 10 - d ELSE Capped(neg, lim, a).acc * 10 + d,
              range |-> FALSE]
  BY DEF AddDigit
<1>5. CASE a > lim
  <2>1. b > lim BY <1>1, <1>5
  <2>2. Capped(neg, lim, a) = [acc |-> limit, range |-> TRUE]
        /\ Capped(neg, lim, b) = [acc |-> limit, range |-> TRUE]
    BY <1>5, <2>1 DEF Capped
  <2> HIDE DEF limit, cutoff, cutlim
  <2>3. Capped(neg, lim, a).range = TRUE BY <2>2
  <2> QED BY <1>4, <2>2, <2>3 DEF limit
<1>6. CASE ~(a > lim)
  <2>1. Capped(neg, lim, a) = [acc |-> acc, range |-> FALSE] BY <1>6 DEF Capped
  <2>2. Capped(neg, lim, b) = IF b > lim THEN [acc |-> limit, range |-> TRUE]
                               ELSE [acc |-> Signing(neg, b), range |-> FALSE]
    BY DEF Capped
  <2> HIDE DEF limit, acc, cutoff, cutlim, b
  <2>3. Capped(neg, lim, a).range = FALSE /\ Capped(neg, lim, a).acc = acc BY <2>1
  <2>4. AddDigit(neg, limit, Capped(neg, lim, a), d) =
          IF over THEN [acc |-> limit, range |-> TRUE]
          ELSE [acc |-> IF neg THEN acc * 10 - d ELSE acc * 10 + d, range |-> FALSE]
    BY <1>4, <2>3
  <2> HIDE DEF over
  <2>5. CASE b > lim
    <3>1. over BY <1>3, <2>5
    <3>2. AddDigit(neg, limit, Capped(neg, lim, a), d) = [acc |-> limit, range |-> TRUE]
      BY <2>4, <3>1
    <3> QED BY <2>2, <2>5, <3>2 DEF limit, b
  <2>6. CASE ~(b > lim)
    <3>1. ~over BY <1>3, <2>6
    <3>2. AddDigit(neg, limit, Capped(neg, lim, a), d) = [acc |-> Signing(neg, b), range |-> FALSE]
      BY <1>2, <2>4, <3>1
    <3> QED BY <2>2, <2>6, <3>2 DEF limit, b
  <2> QED BY <2>5, <2>6
<1> QED BY <1>5, <1>6

\* il2c_wtoi32 and wcstoll: the number, or the limit that it passes.
LEMMA SignedIs ==
  ASSUME NEW s \in Seq(Nat), NEW n \in Sizes, NEW M, M = Numbers!Total(Numbers!DigitsOf(s)),
         NEW neg, neg = Numbers!IsNegative(s), NEW h, h = 2 ^ (Bits[n] - 1),
         NEW lim, lim = (IF neg THEN h ELSE h - 1)
  PROVE  /\ M \in Nat /\ lim \in Nat /\ neg \in BOOLEAN
         /\ Numbers!Signed(s, Bits[n]) =
              [value |-> Capped(neg, lim, M).acc, errno |-> Capped(neg, lim, M).range,
               any |-> Numbers!DigitsOf(s) # <<>>]
<1> DEFINE ds == Numbers!DigitsOf(s)
           l == Len(ds)
           limit == IF neg THEN Numbers!Lowest(Bits[n], TRUE) ELSE Numbers!Highest(Bits[n], TRUE)
           zero == [acc |-> 0, range |-> FALSE]
           F == CHOOSE f : f = [i \in 0 .. l |-> IF i = 0 THEN zero ELSE AddDigit(neg, limit, f[i - 1], ds[i])]
<1>1. Numbers!Signed(s, Bits[n]) = [value |-> F[l].acc, errno |-> F[l].range, any |-> ds # <<>>]
  BY DEF Numbers!Signed, AddDigit
<1>2. /\ l \in Nat /\ ds \in Seq(Nat) /\ \A i \in 1 .. l : ds[i] \in 0 .. 9
      /\ \E f : Sums(f, ds, l)
  BY DigitSums
<1>3. h \in Nat \ {0} /\ neg \in BOOLEAN BY PowersAre, SignEnds
<1>4. lim \in Nat /\ limit = Signing(neg, lim)
  <2>1. Numbers!Lowest(Bits[n], TRUE) = -h /\ Numbers!Highest(Bits[n], TRUE) = h - 1
    BY DEF Numbers!Lowest, Numbers!Highest
  <2>2. CASE neg
    <3>1. lim = h /\ limit = -h BY <2>1, <2>2, Zenon
    <3> QED BY <3>1, <1>3, <2>2 DEF Signing
  <2>3. CASE ~neg
    <3>1. lim = h - 1 /\ limit = h - 1 BY <2>1, <2>3, Zenon
    <3>2. h - 1 \in Nat BY <1>3
    <3> QED BY <3>1, <3>2, <2>3, Zenon DEF Signing
  <2> QED BY <2>2, <2>3
<1>5. PICK f : Sums(f, ds, l) BY <1>2
<1>6. M = f[l] /\ M \in Nat
  <2>1. l \in 0 .. l BY <1>2
  <2> QED BY <2>1, <1>5 DEF Sums
<1> HIDE DEF ds, l, limit
<1>7. Capped(neg, lim, f[0]) = zero
  <2>1. f[0] = 0 BY <1>5 DEF Sums
  <2>2. ~(0 > lim) BY <1>4
  <2>3. \A x \in Int : x = 0 => -x = 0
    <3>1. \A x \in Int : -x = 0 - x OBVIOUS
    <3>2. \A x \in Int : x = 0 => 0 - x = 0 OBVIOUS
    <3> QED BY <3>1, <3>2, Zenon
  <2>4. 0 \in Int OBVIOUS
  <2>5. Signing(neg, 0) = 0 BY <2>3, <2>4, Zenon DEF Signing
  <2> QED BY <2>1, <2>2, <2>5 DEF Capped
<1>8. ASSUME NEW i \in 1 .. l
      PROVE  /\ i - 1 \in 0 .. l
             /\ AddDigit(neg, limit, Capped(neg, lim, f[i - 1]), ds[i]) = Capped(neg, lim, f[i])
  <2>1. /\ i - 1 \in 0 .. l /\ f[i - 1] \in Nat /\ ds[i] \in 0 .. 9 /\ f[i] = f[i - 1] * 10 + ds[i]
    BY <1>2, <1>5, SumsGrow
  <2>2. AddDigit(neg, limit, Capped(neg, lim, f[i - 1]), ds[i]) =
          Capped(neg, lim, f[i - 1] * 10 + ds[i])
    <3>1. \A a \in Nat, d \in 0 .. 9 :
            AddDigit(neg, Signing(neg, lim), Capped(neg, lim, a), d) = Capped(neg, lim, a * 10 + d)
      BY <1>3, <1>4, AddDigitIs
    <3> QED BY <1>4, <2>1, <3>1, Zenon
  <2> QED BY <2>1, <2>2
<1>9. \E g : g = [i \in 0 .. l |-> IF i = 0 THEN zero ELSE AddDigit(neg, limit, g[i - 1], ds[i])]
  <2> DEFINE g == [i \in 0 .. l |-> Capped(neg, lim, f[i])]
             Value(i) == IF i = 0 THEN zero ELSE AddDigit(neg, limit, g[i - 1], ds[i])
  <2>1. ASSUME NEW i \in 0 .. l PROVE Capped(neg, lim, f[i]) = Value(i)
    <3>1. CASE i = 0 BY <1>7, <3>1
    <3>2. CASE i # 0
      <4>1. i \in 1 .. l BY <3>2, <1>2
      <4>2. g[i - 1] = Capped(neg, lim, f[i - 1]) BY <4>1, <1>8
      <4> QED BY <3>2, <4>1, <4>2, <1>8
    <3> QED BY <3>1, <3>2
  <2> HIDE DEF Value
  <2>2. [i \in 0 .. l |-> Capped(neg, lim, f[i])] = [i \in 0 .. l |-> Value(i)] BY <2>1
  <2>3. g = [i \in 0 .. l |-> Value(i)] BY <2>2
  <2> QED BY <2>3 DEF Value
<1>10. F = [i \in 0 .. l |-> IF i = 0 THEN zero ELSE AddDigit(neg, limit, F[i - 1], ds[i])]
  BY <1>9
<1> HIDE DEF F
<1>11. \A i \in 0 .. l : F[i] = IF i = 0 THEN zero ELSE AddDigit(neg, limit, F[i - 1], ds[i])
  <2> DEFINE Value(i) == IF i = 0 THEN zero ELSE AddDigit(neg, limit, F[i - 1], ds[i])
  <2>1. F = [i \in 0 .. l |-> Value(i)] BY <1>10
  <2> HIDE DEF Value
  <2>2. \A i \in 0 .. l : F[i] = Value(i) BY <2>1
  <2> QED BY <2>2 DEF Value
<1> HIDE DEF zero
<1> DEFINE S == {i \in 0 .. l : F[i] = Capped(neg, lim, f[i])}
<1>12. 0 \in S
  <2>1. 0 \in 0 .. l BY <1>2
  <2> QED BY <2>1, <1>7, <1>11
<1>13. ASSUME NEW i \in 1 .. l, \A j \in 0 .. i - 1 : j \in S PROVE i \in S
  <2>1. i - 1 \in 0 .. i - 1 /\ i \in 0 .. l /\ i # 0 BY <1>2
  <2>2. F[i - 1] = Capped(neg, lim, f[i - 1]) BY <2>1, <1>13
  <2>3. F[i] = AddDigit(neg, limit, F[i - 1], ds[i]) BY <2>1, <1>11
  <2>4. F[i] = Capped(neg, lim, f[i]) BY <2>2, <2>3, <1>8
  <2> QED BY <2>1, <2>4
<1> HIDE DEF S
<1>14. \A i \in 0 .. l : i \in S BY <1>2, <1>12, <1>13, UpwardsAll
<1>15. F[l] = Capped(neg, lim, M)
  <2>1. l \in 0 .. l BY <1>2
  <2> QED BY <2>1, <1>6, <1>14 DEF S
<1> QED BY <1>1, <1>3, <1>4, <1>6, <1>15 DEF ds

\* wcstoul and wcstoull without a minus sign: the number, if it is in reach.
LEMMA UnsignedIs ==
  ASSUME NEW s \in Seq(Nat), NEW n \in Sizes, NEW M, M = Numbers!Total(Numbers!DigitsOf(s)),
         ~Numbers!IsNegative(s)
  PROVE  /\ M \in Nat
         /\ Numbers!Unsigned(s, Bits[n]).errno <=> M > 2 ^ Bits[n] - 1
         /\ ~(M > 2 ^ Bits[n] - 1) => Numbers!Unsigned(s, Bits[n]).value = M
         /\ Numbers!Unsigned(s, Bits[n]).any <=> Numbers!DigitsOf(s) # <<>>
<1> DEFINE ds == Numbers!DigitsOf(s)
           l == Len(ds)
           top == 2 ^ Bits[n] - 1
           v == IF M > top THEN top ELSE M
<1>1. l \in Nat /\ \E f : Sums(f, ds, l) BY DigitSums
<1>2. M \in Nat
  <2>1. PICK f : Sums(f, ds, l) BY <1>1
  <2>2. l \in 0 .. l BY <1>1
  <2> HIDE DEF l
  <2>3. Numbers!Total(ds) = f[l] /\ f[l] \in Nat BY <2>1, <2>2 DEF Sums
  <2> QED BY <2>3
<1>3. Numbers!Unsigned(s, Bits[n]) = [value |-> v, errno |-> M > top, any |-> ds # <<>>]
  BY DEF Numbers!Unsigned, Numbers!Highest
<1> HIDE DEF top
<1>4. /\ Numbers!Unsigned(s, Bits[n]).errno <=> M > top
      /\ ~(M > top) => Numbers!Unsigned(s, Bits[n]).value = M
      /\ Numbers!Unsigned(s, Bits[n]).any <=> ds # <<>>
  <2> DEFINE over == M > top
             some == ds # <<>>
  <2>1. Numbers!Unsigned(s, Bits[n]) = [value |-> v, errno |-> over, any |-> some] BY <1>3
  <2> HIDE DEF over, some, v
  <2>2. /\ Numbers!Unsigned(s, Bits[n]).errno = over /\ Numbers!Unsigned(s, Bits[n]).any = some
        /\ Numbers!Unsigned(s, Bits[n]).value = v
    BY <2>1
  <2>3. ~(M > top) => v = M BY DEF v
  <2> QED BY <2>2, <2>3, Zenon DEF over, some
<1> QED BY <1>2, <1>4 DEF top

\* A numeral stands for its magnitude with its sign.
LEMMA NumberIs ==
  ASSUME NEW s, NEW neg, neg = Numbers!IsNegative(s), NEW M, M = Numbers!Total(Numbers!DigitsOf(s))
  PROVE  Numbers!Number(s) = Signing(neg, M)
BY DEF Numbers!Number, Signing

\* The widths of a type and of its conversion, which has room for its values.
LEMMA WidthsAre ==
  ASSUME NEW t \in Numbers!Types
  PROVE  \E n \in Sizes, m \in Sizes :
           /\ t.bits = Bits[n] /\ t.read = Bits[m] /\ (~t.ranged => n = m)
           /\ 2 ^ (Bits[n] - 1) <= 2 ^ (Bits[m] - 1) /\ 2 ^ Bits[n] <= 2 ^ Bits[m]
<1>1. 1 \in Sizes /\ 2 \in Sizes /\ 4 \in Sizes /\ 8 \in Sizes BY DEF Sizes
<1>2. CASE t.ranged
  <2>1. PICK n \in {1, 2} : t.bits = Bits[n] /\ t.read = Bits[4] BY <1>2, NumberTypes
  <2>2. n \in Sizes /\ n < 4 BY <2>1, <1>1
  <2>3. 2 ^ (Bits[n] - 1) <= 2 ^ (Bits[4] - 1) /\ 2 ^ Bits[n] <= 2 ^ Bits[4]
    BY <1>1, <2>2, PowersAre
  <2> QED BY <1>1, <1>2, <2>1, <2>2, <2>3
<1>3. CASE ~t.ranged
  <2>1. PICK n \in Sizes : t.bits = Bits[n] /\ t.read = Bits[n] BY <1>3, NumberTypes
  <2>2. 2 ^ (Bits[n] - 1) \in Nat /\ 2 ^ Bits[n] \in Nat BY <2>1, PowersAre
  <2>3. 2 ^ (Bits[n] - 1) <= 2 ^ (Bits[n] - 1) /\ 2 ^ Bits[n] <= 2 ^ Bits[n] BY <2>2
  <2> QED BY <1>3, <2>1, <2>3
<1> QED BY <1>2, <1>3

\* The values of a type.
LEMMA ValuesAre ==
  ASSUME NEW t, NEW n \in Sizes, t.bits = Bits[n]
  PROVE  /\ t.signed => Numbers!Values(t) = -(2 ^ (Bits[n] - 1)) .. 2 ^ (Bits[n] - 1) - 1
         /\ ~t.signed => Numbers!Values(t) = 0 .. 2 ^ Bits[n] - 1
BY DEF Numbers!Values, Numbers!Lowest, Numbers!Highest

\* TryParse of a signed type.
LEMMA SignedParse ==
  ASSUME NEW t \in Numbers!Types, NEW s \in Seq(Nat), Numbers!IsNumeral(s), t.signed
  PROVE  /\ Numbers!TryParse(t, s).ok <=> Numbers!Number(s) \in Numbers!Values(t)
         /\ Numbers!TryParse(t, s).ok => Numbers!TryParse(t, s).result = Numbers!Number(s)
<1> DEFINE M == Numbers!Total(Numbers!DigitsOf(s))
           neg == Numbers!IsNegative(s)
           N == Numbers!Number(s)
<1>1. PICK n \in Sizes, m \in Sizes :
        /\ t.bits = Bits[n] /\ t.read = Bits[m] /\ (~t.ranged => n = m)
        /\ 2 ^ (Bits[n] - 1) <= 2 ^ (Bits[m] - 1)
  BY WidthsAre
<1> DEFINE h == 2 ^ (Bits[n] - 1)
           top == 2 ^ (Bits[m] - 1)
           lim == IF neg THEN top ELSE top - 1
           read == Numbers!Signed(s, Bits[m])
<1>2. h \in Nat \ {0} /\ top \in Nat \ {0} /\ h <= top /\ (~t.ranged => h = top)
  BY <1>1, PowersAre
<1>3. /\ M \in Nat /\ lim \in Nat /\ neg \in BOOLEAN
      /\ read = [value |-> Capped(neg, lim, M).acc, errno |-> Capped(neg, lim, M).range,
                 any |-> Numbers!DigitsOf(s) # <<>>]
  BY SignedIs
<1>4. N = Signing(neg, M) BY NumberIs
<1>5. Numbers!DigitsOf(s) # <<>> BY DEF Numbers!IsNumeral
<1>6. Numbers!Values(t) = -h .. h - 1 BY <1>1, ValuesAre
<1>7. Numbers!TryParse(t, s) =
        [ok |-> /\ read.any /\ ~read.errno /\ (t.ranged => read.value \in Numbers!Values(t)),
         result |-> Numbers!Wrap(read.value, Bits[n], TRUE)]
  BY <1>1 DEF Numbers!TryParse
<1>8. \A v \in -h .. h - 1 : Numbers!Wrap(v, Bits[n], TRUE) = v
  <2> TAKE v \in -h .. h - 1
  <2>1. v \in Int BY <1>2
  <2> QED BY <2>1, WrapIs
<1>9. lim = IF neg THEN top ELSE top - 1 OBVIOUS
<1> HIDE DEF M, neg, N, h, top, lim, read
<1>10. M > lim => N \notin -h .. h - 1
  <2>1. CASE neg
    <3>1. N = -M /\ lim = top BY <1>4, <1>9, <2>1 DEF Signing
    <3> QED BY <3>1, <1>2, <1>3
  <2>2. CASE ~neg
    <3>1. N = M /\ lim = top - 1 BY <1>4, <1>9, <2>2 DEF Signing
    <3> QED BY <3>1, <1>2, <1>3
  <2> QED BY <2>1, <2>2
<1>11. ~(M > lim) => N \in -top .. top - 1
  <2>1. CASE neg
    <3>1. N = -M /\ lim = top BY <1>4, <1>9, <2>1 DEF Signing
    <3> QED BY <3>1, <1>2, <1>3
  <2>2. CASE ~neg
    <3>1. N = M /\ lim = top - 1 BY <1>4, <1>9, <2>2 DEF Signing
    <3> QED BY <3>1, <1>2, <1>3
  <2> QED BY <2>1, <2>2
<1>12. CASE M > lim
  <2>1. Capped(neg, lim, M).range = TRUE BY <1>12 DEF Capped
  <2>2. read.errno = TRUE BY <2>1, <1>3
  <2>3. ~Numbers!TryParse(t, s).ok BY <1>7, <2>2
  <2> QED BY <2>3, <1>6, <1>10, <1>12 DEF N
<1>13. CASE ~(M > lim)
  <2>1. Capped(neg, lim, M).range = FALSE /\ Capped(neg, lim, M).acc = N
    BY <1>4, <1>13 DEF Capped
  <2>2. read.errno = FALSE /\ read.value = N /\ (read.any <=> Numbers!DigitsOf(s) # <<>>)
    BY <2>1, <1>3
  <2>3. Numbers!TryParse(t, s).ok <=> (t.ranged => N \in Numbers!Values(t))
    BY <1>5, <1>7, <2>2
  <2>4. Numbers!TryParse(t, s).result = Numbers!Wrap(N, Bits[n], TRUE)
    BY <1>7, <2>2
  <2>5. ~t.ranged => N \in Numbers!Values(t) BY <1>2, <1>6, <1>11, <1>13
  <2>6. N \in Numbers!Values(t) => Numbers!TryParse(t, s).result = N BY <2>4, <1>6, <1>8
  <2> QED BY <2>3, <2>5, <2>6 DEF N
<1> QED BY <1>12, <1>13

\* TryParse of an unsigned type that is given no minus sign.
LEMMA UnsignedParse ==
  ASSUME NEW t \in Numbers!Types, NEW s \in Seq(Nat), Numbers!IsNumeral(s), ~t.signed,
         ~Numbers!IsNegative(s)
  PROVE  /\ Numbers!TryParse(t, s).ok <=> Numbers!Number(s) \in Numbers!Values(t)
         /\ Numbers!TryParse(t, s).ok => Numbers!TryParse(t, s).result = Numbers!Number(s)
<1> DEFINE M == Numbers!Total(Numbers!DigitsOf(s))
<1>1. PICK n \in Sizes, m \in Sizes :
        /\ t.bits = Bits[n] /\ t.read = Bits[m] /\ (~t.ranged => n = m)
        /\ 2 ^ Bits[n] <= 2 ^ Bits[m]
  BY WidthsAre
<1> DEFINE h == 2 ^ Bits[n]
           top == 2 ^ Bits[m]
           read == Numbers!Unsigned(s, Bits[m])
<1>2. h \in Nat \ {0} /\ top \in Nat \ {0} /\ h <= top /\ (~t.ranged => h = top)
  BY <1>1, PowersAre
<1>3. /\ M \in Nat /\ (read.errno <=> M > top - 1) /\ (~(M > top - 1) => read.value = M)
      /\ read.any <=> Numbers!DigitsOf(s) # <<>>
  BY UnsignedIs
<1>4. Numbers!Number(s) = M BY DEF Numbers!Number
<1>5. Numbers!DigitsOf(s) # <<>> BY DEF Numbers!IsNumeral
<1>6. Numbers!Values(t) = 0 .. h - 1 BY <1>1, ValuesAre
<1>7. Numbers!TryParse(t, s) =
        [ok |-> /\ read.any /\ ~read.errno /\ (t.ranged => read.value \in Numbers!Values(t)),
         result |-> Numbers!Wrap(read.value, Bits[n], t.signed)]
  BY <1>1 DEF Numbers!TryParse
<1>8. \A v \in 0 .. h - 1 : Numbers!Wrap(v, Bits[n], t.signed) = v
  <2> TAKE v \in 0 .. h - 1
  <2>1. v \in Int BY <1>2
  <2>2. Numbers!Wrap(v, Bits[n], FALSE) = v BY <2>1, WrapIs
  <2>3. Numbers!Wrap(v, Bits[n], t.signed) = Numbers!Wrap(v, Bits[n], FALSE) BY DEF Numbers!Wrap
  <2> QED BY <2>2, <2>3
<1> HIDE DEF M, h, top, read
<1>9. /\ Numbers!TryParse(t, s).ok <=>
           read.any /\ ~read.errno /\ (t.ranged => read.value \in Numbers!Values(t))
      /\ Numbers!TryParse(t, s).result = Numbers!Wrap(read.value, Bits[n], t.signed)
  BY <1>7
<1>10. CASE M > top - 1
  <2>1. M \notin 0 .. h - 1 BY <1>2, <1>3, <1>10
  <2>2. ~Numbers!TryParse(t, s).ok BY <1>3, <1>9, <1>10
  <2> QED BY <2>1, <2>2, <1>4, <1>6
<1>11. CASE ~(M > top - 1)
  <2>1. read.value = M /\ ~read.errno /\ read.any BY <1>3, <1>5, <1>11
  <2>2. Numbers!TryParse(t, s).ok <=> (t.ranged => M \in Numbers!Values(t)) BY <1>9, <2>1
  <2>3. ~t.ranged => M \in Numbers!Values(t) BY <1>2, <1>3, <1>6, <1>11
  <2>4. M \in Numbers!Values(t) => Numbers!TryParse(t, s).result = M BY <1>6, <1>8, <1>9, <2>1
  <2> QED BY <2>2, <2>3, <2>4, <1>4
<1> QED BY <1>10, <1>11

\* il2c_twtoi wraps around, which at the lowest value of an Int32 gives it back.
LEMMA TwtoiIs ==
  ASSUME NEW s \in Seq(Nat), Numbers!IsNumeral(s), Numbers!Number(s) \in Numbers!Values(Numbers!Int32)
  PROVE  Numbers!Twtoi(s).ok /\ Numbers!Twtoi(s).value = Numbers!Number(s)
<1> DEFINE ds == Numbers!DigitsOf(s)
           l == Len(ds)
           M == Numbers!Total(ds)
           neg == Numbers!IsNegative(s)
           h == 2 ^ (Bits[4] - 1)
           Cut(v) == Numbers!Wrap(v, Bits[4], TRUE)
           F == CHOOSE f : f = [i \in 0 .. l |-> IF i = 0 THEN 0 ELSE Cut(f[i - 1] * 10 + ds[i])]
<1>1. Numbers!Twtoi(s) = [ok |-> ds # <<>>, value |-> IF neg THEN Cut(-F[l]) ELSE F[l]]
  BY DEF Numbers!Twtoi
<1>2. 4 \in Sizes /\ h \in Nat \ {0}
  <2>1. 4 \in Sizes BY DEF Sizes
  <2> QED BY <2>1, PowersAre
<1>3. /\ l \in Nat /\ ds \in Seq(Nat) /\ \A i \in 1 .. l : ds[i] \in 0 .. 9
      /\ \E f : Sums(f, ds, l)
  BY DigitSums
<1>4. PICK f : Sums(f, ds, l) BY <1>3
<1>5. M = f[l] /\ M \in Nat
  <2>1. l \in 0 .. l BY <1>3
  <2> QED BY <2>1, <1>4 DEF Sums
<1>6. Numbers!Number(s) = (IF neg THEN -M ELSE M) BY DEF Numbers!Number
<1>7. ds # <<>> /\ neg \in BOOLEAN BY SignEnds DEF Numbers!IsNumeral
<1>8. Numbers!Number(s) \in -h .. h - 1
  <2>1. Numbers!Int32.bits = Bits[4] /\ Numbers!Int32.signed = TRUE
    BY DEF Numbers!Int32, Numbers!Type
  <2> QED BY <1>2, <2>1, ValuesAre
<1>9. /\ \A v \in Int : Cut(v) \in Int /\ (v \in -h .. h - 1 => Cut(v) = v)
      /\ Cut(h) = -h
  <2>1. ASSUME NEW v \in Int PROVE Cut(v) \in Int /\ (v \in -h .. h - 1 => Cut(v) = v)
    BY <1>2, WrapIs
  <2>2. Cut(h) = -h
    <3>1. h \in Int BY <1>2
    <3> QED BY <1>2, <3>1, WrapIs
  <2> QED BY <2>1, <2>2
<1> HIDE DEF ds, l, M, neg, h, Cut
<1>10. \E g : g = [i \in 0 .. l |-> IF i = 0 THEN 0 ELSE Cut(g[i - 1] * 10 + ds[i])]
  <2> DEFINE step == [p \in (1 .. l) \X Int |-> Cut(p[2] * 10 + ds[p[1]])]
             prev == [i \in 1 .. l |-> i - 1]
  <2>1. \A i \in 1 .. l, v \in Int : Cut(v * 10 + ds[i]) \in Int
    <3> TAKE i \in 1 .. l, v \in Int
    <3>1. ds[i] \in 0 .. 9 BY <1>3
    <3>2. v * 10 + ds[i] \in Int BY <3>1
    <3> QED BY <3>2, <1>9
  <2>2. step \in [(1 .. l) \X Int -> Int] BY <2>1
  <2>3. prev \in [1 .. l -> 0 .. l] /\ \A i \in 1 .. l : prev[i] = i - 1 /\ prev[i] < i BY <1>3
  <2>4. \A i \in 1 .. l, v \in Int : step[<<i, v>>] = Cut(v * 10 + ds[i]) OBVIOUS
  <2>5. 0 \in Int OBVIOUS
  <2> HIDE DEF step, prev
  <2>6. PICK g : Ascends(g, l, Int, 0, step, prev) BY <1>3, <2>2, <2>3, <2>5, AscentExists
  <2>7. g \in [0 .. l -> Int] /\ g[0] = 0 /\ \A i \in 1 .. l : g[i] = step[<<i, g[prev[i]]>>]
    BY <2>6 DEF Ascends
  <2> DEFINE Value(i) == IF i = 0 THEN 0 ELSE Cut(g[i - 1] * 10 + ds[i])
  <2>8. ASSUME NEW i \in 0 .. l PROVE g[i] = Value(i)
    <3>1. CASE i = 0 BY <2>7, <3>1
    <3>2. CASE i # 0
      <4>1. i \in 1 .. l /\ i - 1 \in 0 .. l BY <3>2, <1>3
      <4>2. g[i - 1] \in Int /\ g[i] = step[<<i, g[i - 1]>>] BY <4>1, <2>3, <2>7
      <4> QED BY <4>1, <4>2, <2>4, <3>2
    <3> QED BY <3>1, <3>2
  <2> HIDE DEF Value
  <2>9. g = [i \in 0 .. l |-> g[i]] BY <2>7
  <2>10. [i \in 0 .. l |-> g[i]] = [i \in 0 .. l |-> Value(i)] BY <2>8
  <2>11. g = [i \in 0 .. l |-> Value(i)] BY <2>9, <2>10
  <2> QED BY <2>11 DEF Value
<1>11. F = [i \in 0 .. l |-> IF i = 0 THEN 0 ELSE Cut(F[i - 1] * 10 + ds[i])]
  BY <1>10
<1> HIDE DEF F
<1>12. \A i \in 0 .. l : F[i] = IF i = 0 THEN 0 ELSE Cut(F[i - 1] * 10 + ds[i])
  <2> DEFINE Value(i) == IF i = 0 THEN 0 ELSE Cut(F[i - 1] * 10 + ds[i])
  <2>1. F = [i \in 0 .. l |-> Value(i)] BY <1>11
  <2> HIDE DEF Value
  <2>2. \A i \in 0 .. l : F[i] = Value(i) BY <2>1
  <2> QED BY <2>2 DEF Value
\* A magnitude that an Int32 has, or that of its lowest value, which wraps.
<1> DEFINE Right(i) == f[i] <= h => F[i] = IF f[i] = h THEN -h ELSE f[i]
           S == {i \in 0 .. l : Right(i)}
<1>13. 0 \in S
  <2>1. 0 \in 0 .. l /\ f[0] = 0 /\ 0 # h BY <1>2, <1>3, <1>4 DEF Sums
  <2>2. F[0] = 0 BY <2>1, <1>12
  <2> QED BY <2>1, <2>2
<1>14. ASSUME NEW i \in 1 .. l, \A j \in 0 .. i - 1 : j \in S PROVE i \in S
  <2>1. /\ i - 1 \in 0 .. l /\ i \in 0 .. l
        /\ f[i - 1] \in Nat /\ f[i] \in Nat /\ f[i] = f[i - 1] * 10 + ds[i]
        /\ f[i - 1] <= f[i] /\ (f[i - 1] >= 1 => f[i - 1] < f[i])
    BY <1>3, <1>4, SumsGrow
  <2>2. i - 1 \in 0 .. i - 1 /\ i # 0 OBVIOUS
  <2>3. Right(i - 1) BY <2>2, <1>14
  <2>4. F[i] = Cut(F[i - 1] * 10 + ds[i]) BY <2>1, <2>2, <1>12
  <2>5. ASSUME f[i] <= h PROVE F[i] = IF f[i] = h THEN -h ELSE f[i]
    <3>1. f[i - 1] <= h /\ f[i - 1] # h BY <1>2, <2>1, <2>5
    <3>2. F[i - 1] = f[i - 1] BY <2>3, <3>1
    <3>3. F[i] = Cut(f[i]) BY <2>1, <2>4, <3>2
    <3>4. CASE f[i] = h BY <1>9, <3>3, <3>4
    <3>5. CASE f[i] # h
      <4>1. f[i] \in Int /\ f[i] \in -h .. h - 1 BY <1>2, <2>1, <2>5, <3>5
      <4> QED BY <1>9, <3>3, <3>5, <4>1
    <3> QED BY <3>4, <3>5
  <2> QED BY <2>1, <2>5
<1> HIDE DEF S
<1>15. \A i \in 0 .. l : i \in S BY <1>3, <1>13, <1>14, UpwardsAll
<1>16. M <= h => F[l] = IF M = h THEN -h ELSE M
  <2>1. l \in 0 .. l BY <1>3
  <2> QED BY <2>1, <1>5, <1>15 DEF S
<1>17. Numbers!Twtoi(s).ok /\ Numbers!Twtoi(s).value = IF neg THEN Cut(-F[l]) ELSE F[l]
  <2> DEFINE some == ds # <<>>
             read == IF neg THEN Cut(-F[l]) ELSE F[l]
  <2>1. Numbers!Twtoi(s) = [ok |-> some, value |-> read] BY <1>1
  <2> HIDE DEF some, read
  <2>2. Numbers!Twtoi(s).ok = some /\ Numbers!Twtoi(s).value = read BY <2>1
  <2> QED BY <1>7, <2>2, Zenon DEF some, read
<1>18. CASE neg
  <2>1. Numbers!Number(s) = -M /\ M <= h /\ -M \in -h .. h - 1 /\ -M \in Int
    BY <1>2, <1>5, <1>6, <1>8, <1>18
  <2>2. Cut(-M) = -M BY <1>9, <2>1
  <2>3. Cut(-F[l]) = -M
    <3>1. CASE M = h
      <4>1. F[l] = -h /\ -(-h) = h BY <1>2, <1>16, <2>1, <3>1
      <4> QED BY <1>9, <3>1, <4>1
    <3>2. CASE M # h BY <1>16, <2>1, <2>2, <3>2
    <3> QED BY <3>1, <3>2
  <2> QED BY <1>17, <1>18, <2>1, <2>3
<1>19. CASE ~neg
  <2>1. Numbers!Number(s) = M /\ M <= h /\ M # h BY <1>2, <1>5, <1>6, <1>8, <1>19
  <2> QED BY <1>16, <1>17, <1>19, <2>1
<1> QED BY <1>7, <1>18, <1>19

\* Numerals are read right.
LEMMA NumbersCorrect == NumbersInv => Numbers!ParseAgrees
<1> SUFFICES ASSUME NumbersInv PROVE Numbers!ParseAgrees
  OBVIOUS
<1>1. /\ type \in Numbers!Types /\ text \in Seq(Nat)
      /\ value # Unknown => Numbers!IsNumeral(text) /\ Numbers!Number(text) = value
      /\ parsed # Numbers!NotParsed => parsed = Numbers!TryParse(type, text)
  BY DEF NumbersInv, NumberRight
<1>2. ASSUME parsed # Numbers!NotParsed, Numbers!IsNumeral(text),
             type.signed \/ ~Numbers!IsNegative(text)
      PROVE  /\ parsed.ok <=> Numbers!Number(text) \in Numbers!Values(type)
             /\ parsed.ok => parsed.result = Numbers!Number(text)
             /\ Numbers!Number(text) \in Numbers!Values(Numbers!Int32) =>
                  Numbers!Twtoi(text).ok /\ Numbers!Twtoi(text).value = Numbers!Number(text)
  <2>1. parsed = Numbers!TryParse(type, text) BY <1>1, <1>2
  <2>2. /\ Numbers!TryParse(type, text).ok <=> Numbers!Number(text) \in Numbers!Values(type)
        /\ Numbers!TryParse(type, text).ok =>
             Numbers!TryParse(type, text).result = Numbers!Number(text)
    <3>1. CASE type.signed BY <1>1, <1>2, <3>1, SignedParse
    <3>2. CASE ~type.signed BY <1>1, <1>2, <3>2, UnsignedParse
    <3> QED BY <3>1, <3>2
  <2>3. Numbers!Number(text) \in Numbers!Values(Numbers!Int32) =>
          Numbers!Twtoi(text).ok /\ Numbers!Twtoi(text).value = Numbers!Number(text)
    BY <1>1, <1>2, TwtoiIs
  <2> QED BY <2>1, <2>2, <2>3
<1> QED BY <1>1, <1>2 DEF Numbers!ParseAgrees

\* The texts at first.
LEMMA NumbersInit == Numbers!Init => NumbersInv
<1> SUFFICES ASSUME Numbers!Init PROVE NumbersInv
  OBVIOUS
<1>1. type \in Numbers!Types /\ parsed = Numbers!NotParsed
  BY DEF Numbers!Init
<1>2. CASE value \in Numbers!Values(type) /\ text = Numbers!TextOfValue(type, value)
  <2>1. text \in Seq(Nat) /\ Numbers!IsNumeral(text) /\ Numbers!Number(text) = value
    BY <1>1, <1>2, TextOfValueIs
  <2> QED BY <1>1, <2>1 DEF NumbersInv, NumberRight
<1>3. CASE value = Unknown /\ text \in NumberTexts
  <2>1. text \in Seq(Nat) BY <1>3, BitsAssumption
  <2> QED BY <1>1, <1>3, <2>1 DEF NumbersInv, NumberRight
<1> QED BY <1>2, <1>3 DEF Numbers!Init

\* Every text of a number, of any length and for types of any widths, is parsed to
\* its number exactly if the type has it, saturating in reach of the limit; the
\* text of every value is a numeral for it; il2c_twtoi agrees (SByte.c and its
\* siblings, il2c_wtoi32, il2c_wtou32 and INTTOW of strings.c).
THEOREM NumbersAreReadAndWritten == RuntimeSpec => []ParseAgrees
<1> DEFINE Inv == part = "numbers" => NumbersInv
<1>1. RuntimeInit => Inv
  BY NumbersInit DEF RuntimeInit
<1>2. Inv /\ [RuntimeNext]_allVars => Inv'
  <2> SUFFICES ASSUME Inv, [RuntimeNext]_allVars, part' = "numbers" PROVE NumbersInv'
    OBVIOUS
  <2>1. part = "numbers" /\ NumberRight(type, value, text, parsed)
    BY PartStays DEF NumbersInv
  <2>2. /\ UNCHANGED <<type, value, text>>
        /\ parsed' = parsed \/ parsed' = Numbers!TryParse(type, text)
    BY <2>1 DEF RuntimeNext, allVars, numberVars, Numbers!Next, Numbers!Parse
  <2>3. NumberRight(type, value, text, parsed') BY <2>1, <2>2 DEF NumberRight
  <2>4. NumberRight(type', value', text', parsed') BY <2>2, <2>3
  <2> QED BY <2>4 DEF NumbersInv
<1>3. Inv => ParseAgrees
  BY NumbersCorrect DEF ParseAgrees
<1> QED BY <1>1, <1>2, <1>3, PTL DEF RuntimeSpec
-----------------------------------------------------------------------------
\* A text is told from the marks for what is no text.
LEMMA MarksApart ==
  /\ Format!Bad \notin Texts /\ Format!Other \notin Texts
  /\ Format!Bad # Format!Other
<1>1. ASSUME NEW m, m \notin Characters PROVE <<m>> \notin Texts
  <2>1. SUFFICES ASSUME <<m>> \in Texts PROVE FALSE OBVIOUS
  <2>2. Len(<<m>>) = 1 /\ <<m>>[1] = m OBVIOUS
  <2> DEFINE t == <<m>>
  <2> HIDE DEF t
  <2>3. \A n \in 1 .. Len(t) : t[n] \in Characters BY <2>1, ElementOfSeq DEF Texts, t
  <2>4. t[1] \in Characters BY <2>2, <2>3 DEF t
  <2> QED BY <2>2, <2>4, <1>1 DEF t
<1>2. "bad" \notin Characters /\ "other" \notin Characters BY FormatAssumption
<1>3. <<"bad">> \notin Texts BY <1>1, <1>2
<1>4. <<"other">> \notin Texts BY <1>1, <1>2
<1>5. <<"bad">> # <<"other">> OBVIOUS
<1> QED BY <1>3, <1>4, <1>5 DEF Format!Bad, Format!Other

\* The parts of a text are texts.
LEMMA PartIs ==
  ASSUME NEW s \in Texts, NEW a \in Int, NEW b \in Int, 1 <= a, b <= Len(s)
  PROVE  /\ SubSeq(s, a, b) \in Texts
         /\ Len(SubSeq(s, a, b)) = IF a <= b THEN b - a + 1 ELSE 0
         /\ \A i \in 1 .. b - a + 1 : SubSeq(s, a, b)[i] = s[a + i - 1]
<1>1. \A i \in a .. b : s[i] \in Characters BY DEF Texts
<1> QED BY <1>1, SubSeqProperties DEF Texts

\* A part up to a character, and the character.
LEMMA PartGrows ==
  ASSUME NEW s \in Texts, NEW a \in Nat \ {0}, NEW b \in 1 .. Len(s), a <= b
  PROVE  /\ SubSeq(s, a, b) = SubSeq(s, a, b - 1) \o <<s[b]>>
         /\ SubSeq(s, a, b) = Append(SubSeq(s, a, b - 1), s[b])
<1>1. a \in 1 .. Len(s) /\ b \in a .. Len(s) BY DEF Texts
<1>2. SubSeq(s, a, b) = SubSeq(s, a, b - 1) \o <<s[b]>> BY <1>1, SubSeqRecursiveSecond DEF Texts
<1>3. SubSeq(s, a, b - 1) \in Seq(Characters) BY <1>1, PartIs DEF Texts
<1>4. s[b] \in Characters BY DEF Texts
<1>5. Append(SubSeq(s, a, b - 1), s[b]) = SubSeq(s, a, b - 1) \o <<s[b]>>
  BY <1>3, <1>4, AppendIsConcat
<1> QED BY <1>2, <1>5

LEMMA PartOfPart ==
  ASSUME NEW s \in Texts, NEW a \in Nat \ {0}, NEW b \in 0 .. Len(s), a <= b + 1,
         NEW m \in Nat \ {0}, NEW n \in Int, n <= b - a + 1
  PROVE  SubSeq(SubSeq(s, a, b), m, n) = SubSeq(s, a + m - 1, a + n - 1)
<1>1. CASE n < m
  <2>1. a + n - 1 < a + m - 1 /\ a + n - 1 \in Int /\ a + m - 1 \in Int BY <1>1
  <2> QED BY <1>1, <2>1, SubSeqEmpty
<1>2. CASE m <= n
  <2>1. /\ a \in 1 .. Len(s) /\ b \in 1 .. Len(s)
        /\ m \in 1 .. b - a + 1 /\ n \in 1 .. b - a + 1
    BY <1>2 DEF Texts
  <2> QED BY <2>1, SubSeqOfSubSeq DEF Texts
<1> QED BY <1>1, <1>2

\* A text before a text before the rest.
LEMMA ThenTwice ==
  ASSUME NEW t \in Texts, NEW u \in Texts, NEW r \in Outcomes
  PROVE  /\ Format!Then(u, r) \in Outcomes
         /\ Format!Then(t, Format!Then(u, r)) = Format!Then(t \o u, r)
<1>1. CASE r \in {Format!Bad, Format!Other}
  BY <1>1 DEF Format!Then, Outcomes
<1>2. CASE r \notin {Format!Bad, Format!Other}
  <2>1. r \in Texts BY <1>2 DEF Outcomes
  <2>2. u \o r \in Texts /\ t \o (u \o r) = (t \o u) \o r
    <3>1. t \in Seq(Characters) /\ u \in Seq(Characters) /\ r \in Seq(Characters) BY <2>1 DEF Texts
    <3>2. u \o r \in Seq(Characters) BY <3>1, ConcatProperties
    <3>3. (t \o u) \o r = t \o (u \o r) BY <3>1, ConcatAssociative
    <3> QED BY <3>2, <3>3 DEF Texts
  <2>3. u \o r \notin {Format!Bad, Format!Other} BY <2>2, MarksApart
  <2> QED BY <1>2, <2>2, <2>3 DEF Format!Then, Outcomes
<1> QED BY <1>1, <1>2

\* The texts of arguments.
LEMMA TextOfIs ==
  ASSUME NEW a, NEW f \in Texts
  PROVE  Format!TextOf(a, f) \in Texts
<1>1. "n" \in Characters /\ "o" \in Characters BY FormatAssumption
<1>2. <<>> \in Texts /\ <<"n">> \in Texts /\ <<"o", "o">> \in Texts BY <1>1 DEF Texts
<1>3. <<"n">> \o f \in Texts BY <1>2, ConcatProperties DEF Texts
<1> QED BY <1>2, <1>3 DEF Format!TextOf
-----------------------------------------------------------------------------
\* The characters that the steps of a pass look for are different ones.
LEMMA CharactersApart ==
  /\ Format!Opening # Format!Closing /\ Format!Opening # Format!Space
  /\ Format!Opening # ":" /\ Format!Opening # Format!Nul
  /\ Format!Closing # Format!Space /\ Format!Closing # ":"
  /\ Format!Closing # Format!Nul
  /\ Format!Space # ":" /\ Format!Space # Format!Nul /\ Format!Nul # ":"
BY Zenon DEF Format!Opening, Format!Closing, Format!Space, Format!Nul

\* Digits stand for the numbers from 0 to 9.
LEMMA DigitIs ==
  ASSUME NEW c, Format!IsDigit(c)
  PROVE  Format!Digit(c) \in 0 .. 9 /\ c \notin {Format!Opening, Format!Closing, Format!Space, Format!Nul, ":"}
<1>1. PICK k \in 1 .. 10 : Format!Digits[k] = c
  <2>1. DOMAIN Format!Digits = 1 .. 10 BY DEF Format!Digits
  <2> QED BY <2>1 DEF Format!IsDigit, Format!Range
<1>2. k - 1 \in 0 .. 9 /\ Format!Digits[(k - 1) + 1] = c BY <1>1
<1>3. Format!Digit(c) \in 0 .. 9 BY <1>2 DEF Format!Digit
<1>4. c \notin {Format!Opening, Format!Closing, Format!Space, Format!Nul, ":"}
  <2>1. k \in {1, 2, 3, 4, 5, 6, 7, 8, 9, 10} BY <1>1
  <2>2. c \in {"0", "1", "2", "3", "4", "5", "6", "7", "8", "9"} BY <2>1, <1>1 DEF Format!Digits
  <2> QED BY <2>2, Zenon
        DEF Format!Opening, Format!Closing, Format!Space, Format!Nul
<1> QED BY <1>3, <1>4

\* The numbers of digits.
LEMMA NumberGrows ==
  ASSUME NEW s \in Texts, NEW a \in Nat \ {0}, NEW b \in 1 .. Len(s), a <= b, AllDigits(s, a, b)
  PROVE  /\ Format!Number(SubSeq(s, a, b)) \in Nat
         /\ Format!Number(SubSeq(s, a, b))
              = IF a = b THEN Format!Digit(s[b])
                ELSE Format!Number(SubSeq(s, a, b - 1)) * 10 + Format!Digit(s[b])
<1> DEFINE PlacesOf(ds) == [k \in 1 .. Len(ds) |-> Format!Digit(ds[k])]
<1>1. ASSUME NEW ds \in Texts, AllDigits(ds, 1, Len(ds))
      PROVE  PlacesOf(ds) \in Seq(Nat) /\ Len(PlacesOf(ds)) = Len(ds)
             /\ Format!Number(ds) = Numbers!Total(PlacesOf(ds))
  <2>1. Len(ds) \in Nat BY DEF Texts
  <2>2. ASSUME NEW k \in 1 .. Len(ds) PROVE Format!Digit(ds[k]) \in Nat
    <3>1. Format!IsDigit(ds[k]) BY <1>1 DEF AllDigits
    <3>2. Format!Digit(ds[k]) \in 0 .. 9 BY <3>1, DigitIs
    <3> QED BY <3>2
  <2>3. PlacesOf(ds) \in Seq(Nat) /\ Len(PlacesOf(ds)) = Len(ds)
    BY <2>1, <2>2
  <2>4. \A k \in 1 .. Len(ds) : PlacesOf(ds)[k] = Format!Digit(ds[k]) OBVIOUS
  <2> DEFINE es == PlacesOf(ds)
  <2>5. ASSUME NEW f
        PROVE  [i \in 0 .. Len(ds) |-> IF i = 0 THEN 0 ELSE f[i - 1] * 10 + Format!Digit(ds[i])]
                 = [i \in 0 .. Len(es) |-> IF i = 0 THEN 0 ELSE f[i - 1] * 10 + es[i]]
    <3>1. Len(es) = Len(ds) BY <2>3
    <3>2. \A i \in 0 .. Len(ds) : i # 0 => es[i] = Format!Digit(ds[i]) BY <2>1, <2>4
    <3> HIDE DEF es
    <3> QED BY <3>1, <3>2
  <2>6. Len(es) = Len(ds) BY <2>3
  <2> HIDE DEF es
  <2>7. Format!Number(ds) = Numbers!Total(es)
    BY <2>5, <2>6, ZenonT(60) DEF Format!Number, Numbers!Total
  <2> QED BY <2>3, <2>7 DEF es
<1> DEFINE p == SubSeq(s, a, b)
           q == SubSeq(s, a, b - 1)
<1>2. /\ p \in Texts /\ q \in Texts /\ Len(p) = b - a + 1 /\ Len(q) = b - a
      /\ \A k \in 1 .. b - a + 1 : p[k] = s[a + k - 1]
      /\ \A k \in 1 .. b - a : q[k] = s[a + k - 1]
  <2>1. b - 1 <= Len(s) /\ b <= Len(s) /\ 1 <= a /\ (b - 1) - a + 1 = b - a BY DEF Texts
  <2> QED BY <2>1, PartIs
<1> HIDE DEF p, q
<1>3. AllDigits(p, 1, Len(p)) /\ AllDigits(q, 1, Len(q))
  <2>1. \A k \in 1 .. b - a + 1 : a + k - 1 \in a .. b OBVIOUS
  <2>2. \A k \in 1 .. b - a : k \in 1 .. b - a + 1 OBVIOUS
  <2> QED BY <1>2, <2>1, <2>2 DEF AllDigits
<1> DEFINE d == Format!Digit(s[b])
<1>4. d \in 0 .. 9
  <2>1. b \in a .. b OBVIOUS
  <2> QED BY <2>1, DigitIs DEF AllDigits
<1>5. /\ PlacesOf(p) \in Seq(Nat) /\ PlacesOf(q) \in Seq(Nat) /\ Len(PlacesOf(p)) = b - a + 1 /\ Len(PlacesOf(q)) = b - a
      /\ Format!Number(p) = Numbers!Total(PlacesOf(p)) /\ Format!Number(q) = Numbers!Total(PlacesOf(q))
  BY <1>1, <1>2, <1>3
<1>6. /\ \A k \in 1 .. b - a + 1 : PlacesOf(p)[k] = Format!Digit(s[a + k - 1])
      /\ \A k \in 1 .. b - a : PlacesOf(q)[k] = Format!Digit(s[a + k - 1])
  BY <1>2
<1> HIDE DEF d, PlacesOf
<1>7. PlacesOf(p) = Append(PlacesOf(q), d)
  <2> DEFINE v == PlacesOf(q)  m == b - a
  <2>3. v \in Seq(Nat) /\ d \in Nat /\ Len(v) = m /\ m \in Nat /\ b - a + 1 = m + 1 BY <1>4, <1>5
  <2> HIDE DEF v, m
  <2>4. /\ Append(v, d) \in Seq(Nat) /\ Len(Append(v, d)) = m + 1 /\ Append(v, d)[m + 1] = d
        /\ \A k \in 1 .. m : Append(v, d)[k] = v[k]
    BY <2>3, AppendProperties
  <2> USE DEF v, m
  <2>1. Append(PlacesOf(q), d) \in Seq(Nat) /\ Len(Append(PlacesOf(q), d)) = b - a + 1
    BY <2>3, <2>4
  <2>2. ASSUME NEW k \in 1 .. b - a + 1 PROVE PlacesOf(p)[k] = Append(PlacesOf(q), d)[k]
    <3>1. CASE k = b - a + 1
      <4>1. a + k - 1 = b BY <3>1
      <4>2. Append(PlacesOf(q), d)[k] = d BY <3>1, <2>4
      <4> QED BY <4>1, <4>2, <1>6 DEF d
    <3>2. CASE k # b - a + 1
      <4>1. k \in 1 .. b - a BY <3>2
      <4>2. Append(PlacesOf(q), d)[k] = PlacesOf(q)[k] BY <4>1, <2>4
      <4> QED BY <4>1, <4>2, <1>6
    <3> QED BY <3>1, <3>2
  <2> QED BY <2>1, <2>2, <1>5, SeqEqual
<1>8. Numbers!Total(PlacesOf(q)) \in Nat
  <2>1. PICK f : Sums(f, PlacesOf(q), b - a) BY <1>5, TotalIs
  <2>2. b - a \in 0 .. b - a OBVIOUS
  <2> QED BY <2>1, <2>2 DEF Sums
<1>9. Format!Number(p) = Format!Number(q) * 10 + d /\ Format!Number(p) \in Nat
  <2>1. Numbers!Total(Append(PlacesOf(q), d)) = Numbers!Total(PlacesOf(q)) * 10 + d
    BY <1>4, <1>5, TotalOfAppend
  <2> QED BY <2>1, <1>4, <1>5, <1>7, <1>8
<1>10. CASE a = b
  <2>1. PlacesOf(q) = <<>> BY <1>5, <1>10
  <2>2. Append(<<>>, d) = <<d>> OBVIOUS
  <2>3. Numbers!Total(<<d>>) = d BY <1>4, TotalOfOne
  <2>4. Format!Number(p) = d BY <2>1, <2>2, <2>3, <1>5, <1>7
  <2> QED BY <2>4, <1>9, <1>10 DEF p, q, d
<1>11. CASE a # b
  BY <1>9, <1>11 DEF p, q, d
<1> QED BY <1>10, <1>11
-----------------------------------------------------------------------------
LEMMA ItemTextIs ==
  ASSUME NEW b \in Texts, NEW given, NEW c, CutAt(b, c)
  PROVE  Format!ItemText(b, given) = ItemOf(b, given, c)
<1> DEFINE colons == {j \in DOMAIN b : b[j] = ":"}
           cut == IF colons = {} THEN Len(b) + 1 ELSE CHOOSE j \in colons : \A k \in colons : j <= k
           digits == SubSeq(b, 1, cut - 1)
<1>1. Len(b) \in Nat /\ DOMAIN b = 1 .. Len(b) BY DEF Texts
<1>2. cut = c
  <2>1. CASE c = Len(b) + 1
    <3>1. colons = {} BY <2>1, <1>1 DEF CutAt
    <3> QED BY <2>1, <3>1
  <2>2. CASE c # Len(b) + 1
    <3>1. c \in colons BY <2>2, <1>1 DEF CutAt
    <3>2. \A k \in colons : k \in Nat /\ c <= k BY <1>1 DEF CutAt
    <3>3. \A j \in colons : (\A k \in colons : j <= k) => j = c
      <4>1. TAKE j \in colons
      <4>2. (\A k \in colons : j <= k) => j <= c BY <3>1
      <4>3. c <= j /\ j \in Nat /\ c \in Nat BY <3>1, <3>2
      <4> QED BY <4>2, <4>3
    <3> HIDE DEF colons
    <3> QED BY <3>1, <3>2, <3>3
  <2> QED BY <2>1, <2>2
<1>3. digits = SubSeq(b, 1, c - 1)
  <2> HIDE DEF cut
  <2> QED BY <1>2
<1>4. /\ Len(digits) = c - 1 /\ digits \in Texts /\ DOMAIN digits = 1 .. c - 1
      /\ \A i \in 1 .. c - 1 : digits[i] = b[i]
  <2>1. c - 1 \in Int /\ c - 1 <= Len(b) /\ 1 \in Int /\ (c - 1) - 1 + 1 = c - 1 /\ c - 1 >= 0
    BY <1>1 DEF CutAt
  <2>2. \A i \in 1 .. c - 1 : 1 + i - 1 = i BY <2>1
  <2>3. /\ digits \in Texts
        /\ Len(digits) = IF 1 <= c - 1 THEN c - 1 ELSE 0
        /\ \A i \in 1 .. c - 1 : digits[i] = b[i]
    <3>1. \A i \in 1 .. (c - 1) - 1 + 1 : SubSeq(b, 1, c - 1)[i] = b[1 + i - 1]
      BY <2>1, PartIs
    <3>2. \A i \in 1 .. c - 1 : digits[i] = b[i] BY <1>3, <2>1, <2>2, <3>1
    <3>3. digits \in Texts /\ Len(digits) = IF 1 <= c - 1 THEN (c - 1) - 1 + 1 ELSE 0
      <4>1. /\ SubSeq(b, 1, c - 1) \in Texts
            /\ Len(SubSeq(b, 1, c - 1)) = IF 1 <= c - 1 THEN (c - 1) - 1 + 1 ELSE 0
        BY <2>1, PartIs
      <4> HIDE DEF digits
      <4> QED BY <4>1, <1>3
    <3> QED BY <3>2, <3>3, <2>1
  <2> HIDE DEF digits
  <2>4. Len(digits) = c - 1 BY <2>1, <2>3
  <2>5. DOMAIN digits = 1 .. Len(digits) BY <2>3 DEF Texts
  <2> QED BY <2>3, <2>4, <2>5
<1>5. digits = <<>> <=> c = 1
  <2> HIDE DEF digits
  <2>1. digits = <<>> <=> Len(digits) = 0 BY <1>4, EmptySeq DEF Texts
  <2> QED BY <2>1, <1>4 DEF CutAt
<1>6. (\E j \in DOMAIN digits : ~Format!IsDigit(digits[j])) <=> ~AllDigits(b, 1, c - 1)
  <2> HIDE DEF digits
  <2> QED BY <1>4 DEF AllDigits
<1>7. Format!ItemText(b, given) =
        IF Format!Opening \in Format!Range(b) \/ Format!LeftOut(digits) THEN Format!Other
        ELSE IF digits = <<>> \/ (\E j \in DOMAIN digits : ~Format!IsDigit(digits[j])) THEN Format!Bad
        ELSE IF Format!Number(digits) >= Len(given) THEN Format!Bad
        ELSE Format!TextOf(given[Format!Number(digits) + 1], SubSeq(b, cut + 1, Len(b)))
  BY Zenon DEF Format!ItemText
<1> HIDE DEF digits, cut, colons
<1> QED BY <1>2, <1>3, <1>5, <1>6, <1>7 DEF ItemOf

\* Every item has a cut.
LEMMA CutExists ==
  ASSUME NEW b \in Texts
  PROVE  \E c : CutAt(b, c)
<1> DEFINE colons == {j \in 1 .. Len(b) : b[j] = ":"}
<1>1. Len(b) \in Nat BY DEF Texts
<1>2. CASE colons = {}
  <2>1. CutAt(b, Len(b) + 1) BY <1>1, <1>2 DEF CutAt
  <2> QED BY <2>1
<1>3. CASE colons # {}
  <2>1. colons \in SUBSET Nat BY <1>1
  <2> HIDE DEF colons
  <2>2. PICK c \in colons : \A k \in colons : c <= k BY <1>3, <2>1, SmallestNumber
  <2>3. CutAt(b, c)
    <3>1. c \in 1 .. Len(b) /\ b[c] = ":" BY <2>2 DEF colons
    <3>2. ASSUME NEW k \in 1 .. c - 1 PROVE b[k] # ":"
      <4>1. k \in 1 .. Len(b) /\ ~(c <= k) BY <3>1, <1>1
      <4> QED BY <4>1, <2>2 DEF colons
    <3> QED BY <3>1, <3>2, <1>1 DEF CutAt
  <2> QED BY <2>3
<1> QED BY <1>2, <1>3

LEMMA ItemTyped ==
  ASSUME NEW b \in Texts, NEW given
  PROVE  Format!ItemText(b, given) \in Outcomes
<1>1. PICK c : CutAt(b, c) BY CutExists
<1>2. SubSeq(b, c + 1, Len(b)) \in Texts
  <2>1. c + 1 \in Int /\ Len(b) \in Int /\ 1 <= c + 1 /\ Len(b) <= Len(b) BY <1>1 DEF CutAt, Texts
  <2> QED BY <2>1, PartIs
<1>3. \A g : Format!TextOf(g, SubSeq(b, c + 1, Len(b))) \in Texts BY <1>2, TextOfIs
<1>4. Format!ItemText(b, given) = ItemOf(b, given, c) BY <1>1, ItemTextIs
<1> QED BY <1>3, <1>4 DEF ItemOf, Outcomes
-----------------------------------------------------------------------------
\* What holds of every number up to n if it holds of those behind it, holds of all.
LEMMA DownwardsAll ==
  ASSUME NEW n \in Nat, NEW S, \A i \in 1 .. n : (\A j \in i + 1 .. n : j \in S) => i \in S
  PROVE  \A i \in 1 .. n : i \in S
<1> DEFINE Bad == {d \in Nat : d < n /\ n - d \notin S}
<1>1. ASSUME Bad # {} PROVE FALSE
  <2>1. Bad \in SUBSET Nat OBVIOUS
  <2> HIDE DEF Bad
  <2>2. PICK d \in Bad : \A k \in Bad : d <= k BY <1>1, <2>1, SmallestNumber
  <2>3. d \in Nat /\ d < n /\ n - d \notin S BY <2>2 DEF Bad
  <2>4. ASSUME NEW j \in (n - d) + 1 .. n PROVE j \in S
    <3>1. n - j \in Nat /\ n - j < n /\ ~(d <= n - j) /\ n - (n - j) = j BY <2>3
    <3>2. n - j \notin Bad BY <2>2, <3>1
    <3> QED BY <3>1, <3>2 DEF Bad
  <2>5. n - d \in 1 .. n BY <2>3
  <2> QED BY <2>3, <2>4, <2>5
<1>2. ASSUME NEW i \in 1 .. n PROVE i \in S
  <2>1. n - i \in Nat /\ n - i < n /\ n - (n - i) = i OBVIOUS
  <2>2. n - i \notin Bad BY <1>1
  <2> QED BY <2>1, <2>2
<1> QED BY <1>2

\* There is such an f: it is made from the end of the format.
LEMMA CompositeIs ==
  ASSUME NEW s \in Texts, NEW given
  PROVE  \E f : Composes(f, s, given)
<1> DEFINE n == Len(s)
           Closed(i) == {j \in i .. n : s[j] = Format!Closing}
           First(i) == CHOOSE j \in Closed(i) : \A k \in Closed(i) : j <= k
           Text(i) == Format!ItemText(SubSeq(s, i + 1, First(i) - 1), given)
           Step(i, u, v, w) ==
             IF s[i] = Format!Closing THEN Format!Other
             ELSE IF s[i] # Format!Opening THEN Format!Then(<<s[i]>>, u)
             ELSE IF i < n /\ s[i + 1] = Format!Opening THEN Format!Then(<<Format!Opening>>, v)
             ELSE IF Closed(i) = {}
                  THEN IF {Format!Opening, Format!Space} \cap Format!Range(SubSeq(s, i + 1, n)) # {}
                       THEN Format!Other ELSE Format!Bad
             ELSE IF Text(i) \in {Format!Bad, Format!Other} THEN Text(i)
                  ELSE Format!Then(Text(i), w)
           At(i) == IF s[i] # Format!Opening THEN i + 1
                    ELSE IF i < n /\ s[i + 1] = Format!Opening THEN i + 2
                    ELSE IF Closed(i) = {} THEN i + 1 ELSE First(i) + 1
           next == [i \in 1 .. n |-> At(i)]
           step == [p \in (1 .. n) \X Outcomes |-> Step(p[1], p[2], p[2], p[2])]
           F == CHOOSE f : f = [i \in 1 .. n + 2 |->
                  IF i > n THEN <<>> ELSE Step(i, f[i + 1], f[i + 2], f[First(i) + 1])]
<1>1. Format!Composite(s, given) = F[1]
  BY Zenon DEF Format!Composite
<1>2. n \in Nat /\ \A i \in 1 .. n : s[i] \in Characters
  BY DEF Texts
<1>3. ASSUME NEW i \in 1 .. n, Closed(i) # {}
      PROVE  /\ First(i) \in i .. n /\ s[First(i)] = Format!Closing
             /\ \A k \in Closed(i) : First(i) <= k
  <2>1. Closed(i) \in SUBSET Nat
    <3>1. \A j \in Closed(i) : j \in Nat BY <1>2
    <3> HIDE DEF Closed
    <3> QED BY <3>1
  <2>2. \E j \in Closed(i) : \A k \in Closed(i) : j <= k
    <3> HIDE DEF Closed
    <3> QED BY <1>3, <2>1, SmallestNumber
  <2>3. First(i) \in Closed(i) /\ \A k \in Closed(i) : First(i) <= k
    <3> HIDE DEF Closed
    <3> QED BY <2>2
  <2> QED BY <2>3
<1>4. ASSUME NEW i \in 1 .. n, NEW v \in Outcomes PROVE Step(i, v, v, v) \in Outcomes
  <2>1. <<s[i]>> \in Texts BY <1>2 DEF Texts
  <2>2. Format!Then(<<s[i]>>, v) \in Outcomes
    <3>1. <<>> \in Texts BY DEF Texts
    <3> QED BY <2>1, <3>1, ThenTwice
  <2>3. Closed(i) # {} => Text(i) \in Outcomes
    <3>1. SUFFICES ASSUME Closed(i) # {} PROVE Text(i) \in Outcomes OBVIOUS
    <3>2. First(i) \in i .. n BY <1>3, <3>1
    <3> HIDE DEF First
    <3>3. i + 1 \in Int /\ First(i) - 1 \in Int /\ 1 <= i + 1 /\ First(i) - 1 <= n BY <3>2, <1>2
    <3>4. SubSeq(s, i + 1, First(i) - 1) \in Texts BY <3>3, PartIs
    <3> QED BY <3>4, ItemTyped
  <2>4. Closed(i) # {} /\ Text(i) \notin {Format!Bad, Format!Other}
          => Format!Then(Text(i), v) \in Outcomes
    <3>1. SUFFICES ASSUME Closed(i) # {}, Text(i) \notin {Format!Bad, Format!Other}
                   PROVE  Format!Then(Text(i), v) \in Outcomes
      OBVIOUS
    <3>2. Text(i) \in Texts BY <3>1, <2>3 DEF Outcomes
    <3>3. <<>> \in Texts BY DEF Texts
    <3> QED BY <3>2, <3>3, ThenTwice
  <2>5. Format!Bad \in Outcomes /\ Format!Other \in Outcomes BY DEF Outcomes
  <2>6. s[i] = Format!Opening => Format!Then(<<Format!Opening>>, v) \in Outcomes BY <2>2
  <2> HIDE DEF Text, Closed
  <2> QED BY <2>2, <2>3, <2>4, <2>5, <2>6
<1>5. next \in [1 .. n -> 1 .. n + 2] /\ \A i \in 1 .. n : i < next[i]
  <2>1. ASSUME NEW i \in 1 .. n PROVE At(i) \in 1 .. n + 2 /\ i < At(i)
    <3>1. Closed(i) # {} => First(i) \in i .. n BY <1>3
    <3>3. CASE s[i] # Format!Opening \/ (i < n /\ s[i + 1] = Format!Opening) \/ Closed(i) = {}
      <4>1. At(i) = i + 1 \/ At(i) = i + 2
        <5> HIDE DEF First, Closed
        <5> QED BY <3>3
      <4> HIDE DEF At
      <4> QED BY <4>1, <1>2
    <3>4. CASE ~(s[i] # Format!Opening \/ (i < n /\ s[i + 1] = Format!Opening) \/ Closed(i) = {})
      <4>1. At(i) = First(i) + 1 /\ First(i) \in i .. n
        <5> HIDE DEF First, Closed
        <5> QED BY <3>1, <3>4
      <4> HIDE DEF At, First
      <4> QED BY <4>1, <1>2
    <3> QED BY <3>3, <3>4
  <2> HIDE DEF At
  <2> QED BY <2>1
<1>6. step \in [(1 .. n) \X Outcomes -> Outcomes]
  <2> HIDE DEF Step
  <2>1. \A p \in (1 .. n) \X Outcomes : p[1] \in 1 .. n /\ p[2] \in Outcomes OBVIOUS
  <2>2. \A p \in (1 .. n) \X Outcomes : Step(p[1], p[2], p[2], p[2]) \in Outcomes BY <2>1, <1>4
  <2> QED BY <2>2
<1>7. \A i \in 1 .. n, v \in Outcomes : step[<<i, v>>] = Step(i, v, v, v)
  <2> HIDE DEF Step
  <2> QED OBVIOUS
<1>8. \A i \in 1 .. n : next[i] = At(i)
  <2> HIDE DEF At
  <2> QED OBVIOUS
<1>9. <<>> \in Outcomes BY DEF Outcomes, Texts
<1> HIDE DEF step, next
<1>10. PICK f : Descends(f, n + 2, n, <<>>, next, step)
  <2>1. n < n + 2 /\ n + 2 \in Nat BY <1>2
  <2> QED BY <1>2, <1>5, <2>1, DescentExists
<1>11. \A i \in 1 .. n + 2 : f[i] \in Outcomes
  <2>1. n < n + 2 /\ n + 2 \in Nat BY <1>2
  <2>2. Descended(f, n + 2, n, Outcomes, <<>>, next, step)
    BY <1>2, <1>5, <1>6, <1>9, <1>10, <2>1, DescentTyped
  <2> QED BY <2>2 DEF Descended
<1>12. ASSUME NEW i \in 1 .. n + 2
       PROVE  (IF i > n THEN <<>> ELSE step[<<i, f[next[i]]>>])
                = IF i > n THEN <<>> ELSE Step(i, f[i + 1], f[i + 2], f[First(i) + 1])
  <2>1. CASE i > n BY <2>1
  <2>2. CASE ~(i > n)
    <3>1. i \in 1 .. n BY <2>2, <1>2
    <3>2. next[i] \in 1 .. n + 2 /\ next[i] = At(i) BY <3>1, <1>5, <1>8
    <3> DEFINE v == f[next[i]]
    <3>3. v \in Outcomes BY <3>2, <1>11
    <3>4. step[<<i, v>>] = Step(i, v, v, v) BY <3>1, <3>3, <1>7
    <3>5. Step(i, v, v, v) = Step(i, f[i + 1], f[i + 2], f[First(i) + 1])
      <4> HIDE DEF Text, Closed, First
      <4> QED BY <3>2
    <3> HIDE DEF Step
    <3> QED BY <2>2, <3>4, <3>5
  <2> QED BY <2>1, <2>2
<1>13. f = [i \in 1 .. n + 2 |->
                IF i > n THEN <<>> ELSE Step(i, f[i + 1], f[i + 2], f[First(i) + 1])]
  <2>1. f = [i \in 1 .. n + 2 |-> IF i > n THEN <<>> ELSE step[<<i, f[next[i]]>>]]
    BY <1>10 DEF Descends
  <2> HIDE DEF Step, First
  <2> QED BY <2>1, <1>12
<1>14. F = [i \in 1 .. n + 2 |->
                IF i > n THEN <<>> ELSE Step(i, F[i + 1], F[i + 2], F[First(i) + 1])]
  <2> HIDE DEF Step, First
  <2> QED BY <1>13
<1>15. F[n + 1] = <<>> /\ F[n + 2] = <<>>
  <2>1. n + 1 \in 1 .. n + 2 /\ n + 1 > n /\ n + 2 \in 1 .. n + 2 /\ n + 2 > n BY <1>2
  <2> HIDE DEF Step, First, F
  <2> QED BY <1>14, <2>1
<1>16. \A i \in 1 .. n : F[i] = Step(i, F[i + 1], F[i + 2], F[First(i) + 1])
  <2>1. \A i \in 1 .. n : i \in 1 .. n + 2 /\ ~(i > n) BY <1>2
  <2> DEFINE G(i) == IF i > n THEN <<>> ELSE Step(i, F[i + 1], F[i + 2], F[First(i) + 1])
  <2>2. \A i \in 1 .. n : G(i) = Step(i, F[i + 1], F[i + 2], F[First(i) + 1])
    <3> HIDE DEF Step, First, F
    <3> QED BY <2>1
  <2> HIDE DEF F
  <2>3. F = [i \in 1 .. n + 2 |-> G(i)] BY <1>14
  <2> HIDE DEF G
  <2>4. \A i \in 1 .. n : F[i] = G(i) BY <2>1, <2>3
  <2> QED BY <2>2, <2>4
<1> HIDE DEF F
\* The values behind are outcomes as well.
<1>17. ASSUME NEW i \in 1 .. n, \A k \in i + 1 .. n + 2 : F[k] \in Outcomes
       PROVE  F[i] \in Outcomes
  <2>1. i + 1 \in i + 1 .. n + 2 /\ i + 2 \in i + 1 .. n + 2 BY <1>2
  <2>2. Closed(i) # {} => First(i) + 1 \in i + 1 .. n + 2
    <3>1. Closed(i) # {} => First(i) \in i .. n BY <1>3
    <3> HIDE DEF First, Closed
    <3> QED BY <3>1, <1>2
  <2>3. F[i] = Step(i, F[i + 1], F[i + 2], F[First(i) + 1]) BY <1>16
  <2>4. \E v \in Outcomes :
          Step(i, F[i + 1], F[i + 2], F[First(i) + 1]) = Step(i, v, v, v)
    <3>1. CASE s[i] # Format!Opening
      <4> HIDE DEF First, Text, Closed
      <4> QED BY <3>1, <2>1, <1>17
    <3>2. CASE s[i] = Format!Opening /\ i < n /\ s[i + 1] = Format!Opening
      <4> HIDE DEF First, Text, Closed
      <4> QED BY <3>2, <2>1, <1>17
    <3>3. CASE s[i] = Format!Opening /\ ~(i < n /\ s[i + 1] = Format!Opening)
      <4>1. \A u, v, w : Closed(i) = {} => Step(i, u, v, w) = Step(i, <<>>, <<>>, <<>>)
        <5> HIDE DEF First, Text, Closed
        <5> QED BY <3>3
      <4>2. \A u, v, w : Closed(i) # {} => Step(i, u, v, w) = Step(i, w, w, w)
        <5> HIDE DEF First, Text, Closed
        <5> QED BY <3>3
      <4> HIDE DEF Step, First, Closed
      <4> QED BY <4>1, <4>2, <2>2, <1>9, <1>17
    <3> QED BY <3>1, <3>2, <3>3
  <2> HIDE DEF Step
  <2> QED BY <2>3, <2>4, <1>4
<1>18. \A i \in 1 .. n + 2 : F[i] \in Outcomes
  <2> DEFINE S == {i \in 1 .. n + 2 : F[i] \in Outcomes}
  <2>1. n + 1 \in S /\ n + 2 \in S BY <1>2, <1>9, <1>15
  <2>2. ASSUME NEW i \in 1 .. n + 2, \A j \in i + 1 .. n + 2 : j \in S PROVE i \in S
    <3>1. CASE i > n
      <4>1. i = n + 1 \/ i = n + 2 BY <3>1, <1>2
      <4> QED BY <4>1, <2>1
    <3>2. CASE ~(i > n)
      <4>1. i \in 1 .. n BY <3>2, <1>2
      <4> QED BY <4>1, <2>2, <1>17
    <3> QED BY <3>1, <3>2
  <2> HIDE DEF S
  <2> DEFINE m == n + 2
  <2>3. m \in Nat BY <1>2
  <2>4. \A i \in 1 .. m : (\A j \in i + 1 .. m : j \in S) => i \in S BY <2>2
  <2> HIDE DEF m
  <2>5. \A i \in 1 .. m : i \in S BY <2>3, <2>4, DownwardsAll
  <2> QED BY <2>5 DEF S, m
<1>19. ASSUME NEW i \in 1 .. n
       PROVE  /\ s[i] = Format!Closing => F[i] = Format!Other
              /\ s[i] \notin {Format!Opening, Format!Closing}
                   => F[i] = Format!Then(<<s[i]>>, F[i + 1])
              /\ s[i] = Format!Opening /\ Doubled(s, i)
                   => F[i] = Format!Then(<<Format!Opening>>, F[i + 2])
  <2>1. F[i] = Step(i, F[i + 1], F[i + 2], F[First(i) + 1]) BY <1>16
  <2> HIDE DEF Closed, Text, First
  <2> QED BY <2>1, CharactersApart DEF Doubled
<1>20. ASSUME NEW i \in 1 .. n, s[i] = Format!Opening, ~Doubled(s, i)
       PROVE  /\ Closings(s, i) = {} => F[i] = Unclosed(s, i)
              /\ \A j : FirstClosing(s, i, j) =>
                   F[i] = ItemThen(Format!ItemText(SubSeq(s, i + 1, j - 1), given), F[j + 1])
  <2>1. F[i] = Step(i, F[i + 1], F[i + 2], F[First(i) + 1]) BY <1>16
  <2>2. Closed(i) = Closings(s, i) BY DEF Closings
  <2>3. Closed(i) = {} => F[i] = Unclosed(s, i)
    <3> HIDE DEF Closed, Text, First
    <3> QED BY <2>1, <1>20, CharactersApart DEF Doubled, Unclosed
  <2>4. Closed(i) # {} => F[i] = ItemThen(Text(i), F[First(i) + 1])
    <3> HIDE DEF Closed, Text, First
    <3> QED BY <2>1, <1>20, CharactersApart DEF Doubled, ItemThen
  <2>5. ASSUME NEW j, FirstClosing(s, i, j)
        PROVE  F[i] = ItemThen(Format!ItemText(SubSeq(s, i + 1, j - 1), given), F[j + 1])
    <3>1. Closed(i) # {} /\ j \in Closed(i) /\ \A k \in Closed(i) : j <= k
      BY <2>2, <2>5 DEF FirstClosing
    <3>2. First(i) \in Closed(i) /\ First(i) \in i .. n /\ \A k \in Closed(i) : First(i) <= k
      BY <1>3, <3>1
    <3>3. j \in i .. n BY <3>1
    <3>4. First(i) = j
      <4> HIDE DEF First, Closed
      <4>1. j <= First(i) /\ First(i) <= j BY <3>1, <3>2
      <4> QED BY <4>1, <3>2, <3>3, <1>2
    <3> HIDE DEF First, Closed
    <3> QED BY <2>4, <3>1, <3>4
  <2> QED BY <2>2, <2>3, <2>5
<1>21. Composes(F, s, given)
  <2> HIDE DEF Closed, First, Text, Step
  <2> QED BY <1>1, <1>15, <1>18, <1>19, <1>20 DEF Composes
<1> QED BY <1>21
-----------------------------------------------------------------------------
\* A greater number has more digits.
LEMMA NumbersGrow ==
  ASSUME NEW s \in Texts, NEW a \in Nat \ {0}, NEW q \in Nat, NEW b \in 1 .. Len(s), a <= q, q <= b,
         AllDigits(s, a, b)
  PROVE  /\ Format!Number(SubSeq(s, a, q)) \in Nat /\ Format!Number(SubSeq(s, a, b)) \in Nat
         /\ Format!Number(SubSeq(s, a, q)) <= Format!Number(SubSeq(s, a, b))
<1> DEFINE N(k) == Format!Number(SubSeq(s, a, k))
           S == {d \in 0 .. b - q : N(q) <= N(q + d)}
<1>1. Len(s) \in Nat /\ q \in 1 .. Len(s) BY DEF Texts
<1>2. ASSUME NEW k \in q .. b PROVE N(k) \in Nat
  <2>1. k \in 1 .. Len(s) /\ a <= k BY <1>1
  <2>2. AllDigits(s, a, k)
    <3>1. \A i \in a .. k : i \in a .. b OBVIOUS
    <3> QED BY <3>1 DEF AllDigits
  <2> QED BY <2>1, <2>2, NumberGrows
<1>3. 0 \in S
  <2>1. N(q) \in Nat /\ q + 0 = q BY <1>2
  <2> HIDE DEF N
  <2> QED BY <2>1
<1>4. ASSUME NEW d \in 1 .. b - q, d - 1 \in S PROVE d \in S
  <2>1. q + d \in 1 .. Len(s) /\ q + d \in q .. b /\ q + (d - 1) \in q .. b /\ (q + d) - 1 = q + (d - 1)
        /\ a <= q + d /\ a # q + d /\ d \in 0 .. b - q
    BY <1>1
  <2>2. AllDigits(s, a, q + d)
    <3>1. \A i \in a .. q + d : i \in a .. b BY <2>1
    <3> QED BY <3>1 DEF AllDigits
  <2>3. N(q + d) = N((q + d) - 1) * 10 + Format!Digit(s[q + d])
    BY <2>1, <2>2, NumberGrows
  <2>4. Format!Digit(s[q + d]) \in 0 .. 9
    <3>1. q + d \in a .. q + d BY <2>1
    <3> QED BY <3>1, <2>2, DigitIs DEF AllDigits
  <2>5. N(q + d) \in Nat /\ N(q + (d - 1)) \in Nat /\ N(q) \in Nat BY <2>1, <1>2
  <2>6. N(q) <= N(q + (d - 1)) BY <1>4
  <2> DEFINE x == N(q)  y == N(q + (d - 1))  z == N(q + d)  e == Format!Digit(s[q + d])
  <2>7. x \in Nat /\ y \in Nat /\ z \in Nat /\ e \in 0 .. 9 /\ z = y * 10 + e /\ x <= y
    BY <2>1, <2>3, <2>4, <2>5, <2>6
  <2> HIDE DEF x, y, z, e, N
  <2>8. x <= z BY <2>7
  <2> QED BY <2>1, <2>8 DEF x, z
<1> HIDE DEF S
<1>5. \A d \in 0 .. b - q : d \in S
  <2>1. b - q \in Nat BY <1>1
  <2>2. \A d \in 1 .. b - q : (\A j \in 0 .. d - 1 : j \in S) => d \in S
    <3>1. \A d \in 1 .. b - q : d - 1 \in 0 .. d - 1 OBVIOUS
    <3> QED BY <3>1, <1>4
  <2> QED BY <2>1, <2>2, <1>3, UpwardsAll
<1>6. N(q) <= N(q + (b - q))
  <2>1. b - q \in 0 .. b - q BY <1>1
  <2> HIDE DEF N
  <2> QED BY <2>1, <1>5 DEF S
<1>7. q + (b - q) = b /\ b \in q .. b /\ q \in q .. b BY <1>1
<1>8. N(q) \in Nat /\ N(b) \in Nat BY <1>2, <1>7
<1> QED BY <1>6, <1>7, <1>8

LEMMA BodyIs ==
  ASSUME NEW s \in Texts, NEW p \in 1 .. Len(s), s[p] = Format!Opening,
         NEW j, FirstClosing(s, p, j), NEW b, b = SubSeq(s, p + 1, j - 1)
  PROVE  Body(s, p, j, b)
<1>1. Len(s) \in Nat BY DEF Texts
<1>2. j \in p .. Len(s) /\ s[j] = Format!Closing
  BY DEF FirstClosing, Closings
<1>3. j # p BY <1>2, CharactersApart
<1>4. j \in p + 1 .. Len(s) BY <1>1, <1>2, <1>3
<1>5. ASSUME NEW k \in p + 1 .. j - 1 PROVE s[k] # Format!Closing
  <2>1. k \in p .. Len(s) /\ ~(j <= k) BY <1>1, <1>4
  <2> QED BY <2>1 DEF FirstClosing, Closings
<1>6. p + 1 \in Int /\ j - 1 \in Int /\ 1 <= p + 1 /\ j - 1 <= Len(s) BY <1>1, <1>4
<1>7. b \in Texts /\ Len(b) = j - p - 1
  <2>1. b \in Texts /\ Len(b) = IF p + 1 <= j - 1 THEN (j - 1) - (p + 1) + 1 ELSE 0
    BY <1>6, PartIs
  <2> QED BY <2>1, <1>4
<1>8. ASSUME NEW k \in 1 .. Len(b) PROVE b[k] = s[p + k]
  <2>1. k \in 1 .. (j - 1) - (p + 1) + 1 /\ (p + 1) + k - 1 = p + k BY <1>4, <1>7
  <2>2. \A i \in 1 .. (j - 1) - (p + 1) + 1 : b[i] = s[(p + 1) + i - 1] BY <1>6, PartIs
  <2> QED BY <2>1, <2>2
<1>9. ASSUME NEW m \in Nat, NEW n \in Nat, 1 <= m, n <= Len(b)
      PROVE  SubSeq(b, m, n) = SubSeq(s, p + m, p + n)
  <2>1. /\ p + 1 \in Nat \ {0} /\ j - 1 \in 0 .. Len(s) /\ p + 1 <= (j - 1) + 1
        /\ m \in Nat \ {0} /\ n \in Int /\ n <= (j - 1) - (p + 1) + 1
        /\ (p + 1) + m - 1 = p + m /\ (p + 1) + n - 1 = p + n
    BY <1>1, <1>4, <1>7, <1>9
  <2> QED BY <2>1, PartOfPart
<1> QED BY <1>2, <1>4, <1>5, <1>7, <1>8, <1>9 DEF Body

\* An opening brace that is not closed, or whose item is not one.
LEMMA BraceIs ==
  ASSUME NEW s \in Texts, NEW given, NEW f, Composes(f, s, given),
         NEW p \in 1 .. Len(s), s[p] = Format!Opening, ~Doubled(s, p)
  PROVE  \/ f[p] = Unclosed(s, p) /\ \A k \in p .. Len(s) : s[k] # Format!Closing
         \/ \E j, b, c : /\ FirstClosing(s, p, j) /\ b = SubSeq(s, p + 1, j - 1)
                         /\ CutAt(b, c) /\ f[p] = ItemThen(ItemOf(b, given, c), f[j + 1])
<1>1. CASE Closings(s, p) = {}
  <2>1. f[p] = Unclosed(s, p) BY <1>1 DEF Composes
  <2>2. \A k \in p .. Len(s) : s[k] # Format!Closing BY <1>1 DEF Closings
  <2> QED BY <2>1, <2>2
<1>2. CASE Closings(s, p) # {}
  <2>1. Closings(s, p) \in SUBSET Nat
    <3>1. \A k \in Closings(s, p) : k \in Nat BY DEF Closings
    <3> QED BY <3>1
  <2>2. PICK j : FirstClosing(s, p, j)
    <3>1. \E j \in Closings(s, p) : \A k \in Closings(s, p) : j <= k
      BY <1>2, <2>1, SmallestNumber
    <3> QED BY <3>1 DEF FirstClosing
  <2> DEFINE b == SubSeq(s, p + 1, j - 1)
  <2>3. b \in Texts
    <3>1. Body(s, p, j, b) BY <2>2, BodyIs
    <3> QED BY <3>1 DEF Body
  <2>4. PICK c : CutAt(b, c) BY <2>3, CutExists
  <2>5. Format!ItemText(b, given) = ItemOf(b, given, c) BY <2>3, <2>4, ItemTextIs
  <2>6. f[p] = ItemThen(Format!ItemText(b, given), f[j + 1]) BY <2>2 DEF Composes
  <2> QED BY <2>2, <2>4, <2>5, <2>6
<1> QED BY <1>1, <1>2
-----------------------------------------------------------------------------
\* An item that starts with a blank is left out.
LEMMA BlankIs ==
  ASSUME NEW s \in Texts, NEW given, NEW f, Composes(f, s, given),
         NEW p \in 1 .. Len(s), s[p] = Format!Opening, p < Len(s), s[p + 1] = Format!Space
  PROVE  f[p] = Format!Other
<1>1. Len(s) \in Nat /\ p + 1 \in 1 .. Len(s) BY DEF Texts
<1>2. ~Doubled(s, p) BY CharactersApart DEF Doubled
<1>3. CASE f[p] = Unclosed(s, p)
  <2> DEFINE r == SubSeq(s, p + 1, Len(s))
  <2>1. r \in Texts /\ 1 \in 1 .. Len(r) /\ r[1] = s[p + 1]
    <3>1. p + 1 \in Int /\ Len(s) \in Int /\ 1 <= p + 1 /\ Len(s) <= Len(s) /\ p + 1 <= Len(s)
      BY <1>1
    <3>2. /\ r \in Texts /\ Len(r) = IF p + 1 <= Len(s) THEN Len(s) - (p + 1) + 1 ELSE 0
          /\ \A i \in 1 .. Len(s) - (p + 1) + 1 : r[i] = s[(p + 1) + i - 1]
      BY <3>1, PartIs
    <3> HIDE DEF r
    <3>3. 1 \in 1 .. Len(s) - (p + 1) + 1 /\ (p + 1) + 1 - 1 = p + 1 BY <1>1
    <3> QED BY <3>1, <3>2, <3>3
  <2>2. 1 \in DOMAIN r
    <3> HIDE DEF r
    <3> QED BY <2>1 DEF Texts
  <2>3. Format!Space \in Format!Range(r)
    <3> HIDE DEF r
    <3> QED BY <2>1, <2>2 DEF Format!Range
  <2> QED BY <1>3, <2>3 DEF Unclosed
<1>4. CASE f[p] # Unclosed(s, p)
  <2>1. PICK j, b, c : /\ FirstClosing(s, p, j) /\ b = SubSeq(s, p + 1, j - 1)
                       /\ CutAt(b, c) /\ f[p] = ItemThen(ItemOf(b, given, c), f[j + 1])
    BY <1>2, <1>4, BraceIs
  <2>2. /\ j \in p + 1 .. Len(s) /\ s[j] = Format!Closing /\ b \in Texts /\ Len(b) = j - p - 1
        /\ \A k \in 1 .. Len(b) : b[k] = s[p + k]
    <3>1. Body(s, p, j, b) BY <2>1, BodyIs
    <3> QED BY <3>1 DEF Body
  <2>3. j # p + 1 BY <2>2, CharactersApart
  <2>4. 1 \in 1 .. Len(b) /\ b[1] = Format!Space BY <1>1, <2>2, <2>3
  <2>5. c # 1 /\ c \in 1 .. Len(b) + 1 /\ Len(b) \in Nat
    <3>1. c \in 1 .. Len(b) + 1 /\ (c <= Len(b) => b[c] = ":") BY <2>1 DEF CutAt
    <3>2. Len(b) \in Nat /\ 1 <= Len(b) BY <2>2, <2>4, <1>1
    <3>3. c # 1 BY <2>4, <3>1, <3>2, CharactersApart
    <3> QED BY <3>1, <3>2, <3>3
  <2> DEFINE r == SubSeq(b, 1, c - 1)
  <2>6. r \in Texts /\ 1 \in 1 .. Len(r) /\ r[1] = b[1]
    <3>1. c - 1 \in Int /\ 1 \in Int /\ 1 <= c - 1 /\ c - 1 <= Len(b) BY <2>5
    <3>2. /\ r \in Texts /\ Len(r) = IF 1 <= c - 1 THEN (c - 1) - 1 + 1 ELSE 0
          /\ \A i \in 1 .. (c - 1) - 1 + 1 : r[i] = b[1 + i - 1]
      BY <2>2, <3>1, PartIs
    <3> HIDE DEF r
    <3>3. 1 \in 1 .. (c - 1) - 1 + 1 /\ 1 + 1 - 1 = 1 BY <2>5
    <3> QED BY <3>1, <3>2, <3>3
  <2>7. 1 \in DOMAIN r
    <3> HIDE DEF r
    <3> QED BY <2>6 DEF Texts
  <2>8. Format!Space \in Format!Range(r)
    <3> HIDE DEF r
    <3> QED BY <2>4, <2>6, <2>7 DEF Format!Range
  <2>9. ItemOf(b, given, c) = Format!Other BY <2>8 DEF ItemOf, Format!LeftOut
  <2> QED BY <2>1, <2>9 DEF ItemThen
<1> QED BY <1>3, <1>4

LEMMA NoItem ==
  ASSUME NEW b, NEW given, NEW c, NEW r, c = 1 \/ ~AllDigits(b, 1, c - 1)
  PROVE  ItemThen(ItemOf(b, given, c), r) \in NoText
BY DEF ItemOf, ItemThen, NoText

\* An item whose number is not there or has something else in it.
LEMMA ItemFails ==
  ASSUME NEW s \in Texts, NEW given, NEW f, Composes(f, s, given),
         NEW p \in 1 .. Len(s), s[p] = Format!Opening, NEW q \in p + 1 .. Len(s),
         AllDigits(s, p + 1, q - 1), ~Format!IsDigit(s[q]),
         q = p + 1 => s[q] # Format!Opening, q > p + 1 => s[q] \notin {":", Format!Closing}
  PROVE  f[p] \in NoText
<1>1. Len(s) \in Nat BY DEF Texts
<1>2. ~Doubled(s, p)
  <2>1. q > p + 1 => p + 1 \in p + 1 .. q - 1 BY <1>1
  <2>2. q > p + 1 => s[p + 1] # Format!Opening BY <2>1, DigitIs DEF AllDigits
  <2>3. q > p + 1 \/ q = p + 1 BY <1>1
  <2> QED BY <2>2, <2>3 DEF Doubled
<1>3. CASE f[p] = Unclosed(s, p) BY <1>3 DEF Unclosed, NoText
<1>4. CASE f[p] # Unclosed(s, p)
  <2>1. PICK j, b, c : /\ FirstClosing(s, p, j) /\ b = SubSeq(s, p + 1, j - 1)
                       /\ CutAt(b, c) /\ f[p] = ItemThen(ItemOf(b, given, c), f[j + 1])
    BY <1>2, <1>4, BraceIs
  <2>2. /\ j \in p + 1 .. Len(s) /\ s[j] = Format!Closing /\ Len(b) = j - p - 1
        /\ \A k \in p + 1 .. j - 1 : s[k] # Format!Closing
        /\ \A k \in 1 .. Len(b) : b[k] = s[p + k]
    <3>1. Body(s, p, j, b) BY <2>1, BodyIs
    <3> QED BY <3>1 DEF Body
  <2>3. j \notin p + 1 .. q - 1 BY <2>2, DigitIs DEF AllDigits
  <2>4. j >= q BY <1>1, <2>2, <2>3
  <2>5. c \in 1 .. Len(b) + 1 /\ (c <= Len(b) => b[c] = ":") /\ \A k \in 1 .. c - 1 : b[k] # ":"
    BY <2>1 DEF CutAt
  <2>6. c >= q - p
    <3>1. SUFFICES ASSUME c < q - p PROVE FALSE BY <2>5, <1>1, <2>2
    <3>2. c \in 1 .. Len(b) /\ p + c \in p + 1 .. q - 1 BY <3>1, <2>2, <2>4, <2>5, <1>1
    <3>3. b[c] = s[p + c] /\ Format!IsDigit(s[p + c]) BY <3>2, <2>2 DEF AllDigits
    <3> QED BY <3>2, <3>3, <2>5, DigitIs
  <2>7. c = 1 \/ ~AllDigits(b, 1, c - 1)
    <3>1. CASE q = p + 1 /\ c # 1
      <4>1. 1 \in 1 .. c - 1 /\ 1 \in 1 .. Len(b) BY <3>1, <2>5, <2>2, <1>1
      <4>2. b[1] = s[q] BY <4>1, <3>1, <2>2
      <4> QED BY <4>1, <4>2 DEF AllDigits
    <3>2. CASE q # p + 1
      <4>1. q > p + 1 BY <3>2, <1>1
      <4>2. j # q BY <2>2, <4>1
      <4>3. q - p \in 1 .. Len(b) /\ p + (q - p) = q BY <2>2, <2>4, <4>2, <1>1
      <4>4. b[q - p] = s[q] BY <4>3, <2>2
      <4>5. c # q - p
        <5>1. SUFFICES ASSUME c = q - p PROVE FALSE OBVIOUS
        <5>2. b[c] = ":" BY <5>1, <4>3, <2>5
        <5> QED BY <5>1, <5>2, <4>4, <4>1
      <4>6. q - p \in 1 .. c - 1 BY <4>3, <4>5, <2>5, <2>6
      <4> QED BY <4>4, <4>6 DEF AllDigits
    <3> QED BY <3>1, <3>2
  <2> QED BY <2>1, <2>7, NoItem
<1> QED BY <1>3, <1>4

\* An item whose number is greater than the last argument's.
LEMMA ItemTooGreat ==
  ASSUME NEW s \in Texts, NEW given, Len(given) \in Nat, NEW f, Composes(f, s, given),
         NEW p \in 1 .. Len(s), s[p] = Format!Opening, NEW q \in p + 1 .. Len(s),
         AllDigits(s, p + 1, q), Format!Number(SubSeq(s, p + 1, q)) >= Len(given)
  PROVE  f[p] \in NoText
<1>1. Len(s) \in Nat BY DEF Texts
<1>2. ~Doubled(s, p)
  <2>1. p + 1 \in p + 1 .. q BY <1>1
  <2> QED BY <2>1, DigitIs DEF AllDigits, Doubled
<1>3. CASE f[p] = Unclosed(s, p) BY <1>3 DEF Unclosed, NoText
<1>4. CASE f[p] # Unclosed(s, p)
  <2>1. PICK j, b, c : /\ FirstClosing(s, p, j) /\ b = SubSeq(s, p + 1, j - 1)
                       /\ CutAt(b, c) /\ f[p] = ItemThen(ItemOf(b, given, c), f[j + 1])
    BY <1>2, <1>4, BraceIs
  <2>2. /\ j \in p + 1 .. Len(s) /\ s[j] = Format!Closing /\ Len(b) = j - p - 1 /\ b \in Texts
        /\ \A k \in 1 .. Len(b) : b[k] = s[p + k]
    <3>1. Body(s, p, j, b) BY <2>1, BodyIs
    <3> QED BY <3>1 DEF Body
  <2>3. j \notin p + 1 .. q BY <2>2, DigitIs DEF AllDigits
  <2>4. j > q BY <1>1, <2>2, <2>3
  <2>5. c \in 1 .. Len(b) + 1 /\ (c <= Len(b) => b[c] = ":")
    BY <2>1 DEF CutAt
  <2>6. c > q - p
    <3>1. SUFFICES ASSUME c <= q - p PROVE FALSE BY <2>5, <1>1, <2>2
    <3>2. c \in 1 .. Len(b) /\ p + c \in p + 1 .. q BY <3>1, <2>2, <2>4, <2>5, <1>1
    <3>3. b[c] = s[p + c] /\ Format!IsDigit(s[p + c]) BY <3>2, <2>2 DEF AllDigits
    <3> QED BY <3>2, <3>3, <2>5, DigitIs
  <2>7. CASE AllDigits(b, 1, c - 1)
    <3> DEFINE e == p + (c - 1)
    <3>1. /\ e \in 1 .. Len(s) /\ q \in Nat /\ p + 1 <= q /\ q <= e /\ p + 1 \in Nat \ {0}
          /\ c - 1 \in Nat /\ c - 1 <= Len(b) /\ 1 \in Nat
      BY <1>1, <2>2, <2>5, <2>6
    <3>2. AllDigits(s, p + 1, e)
      <4>1. ASSUME NEW k \in p + 1 .. e PROVE Format!IsDigit(s[k])
        <5>1. k - p \in 1 .. c - 1 /\ k - p \in 1 .. Len(b) /\ p + (k - p) = k BY <3>1
        <5>2. b[k - p] = s[k] BY <5>1, <2>2
        <5> QED BY <5>1, <5>2, <2>7 DEF AllDigits
      <4> QED BY <4>1 DEF AllDigits
    <3>3. SubSeq(b, 1, c - 1) = SubSeq(s, p + 1, e)
      <4>1. Body(s, p, j, b) BY <2>1, BodyIs
      <4>2. 1 <= 1 OBVIOUS
      <4>3. c - 1 \in Nat /\ c - 1 <= Len(b) /\ 1 \in Nat BY <3>1
      <4>4. SubSeq(b, 1, c - 1) = SubSeq(s, p + 1, p + (c - 1))
        <5>1. ASSUME NEW m \in Nat, NEW n \in Nat, 1 <= m, n <= Len(b)
              PROVE  SubSeq(b, m, n) = SubSeq(s, p + m, p + n)
          BY <4>1, <5>1, Zenon DEF Body
        <5> QED BY <4>2, <4>3, <5>1, Zenon
      <4> QED BY <4>4
    <3> HIDE DEF e
    <3>4. /\ Format!Number(SubSeq(s, p + 1, q)) \in Nat
          /\ Format!Number(SubSeq(s, p + 1, e)) \in Nat
          /\ Format!Number(SubSeq(s, p + 1, q)) <= Format!Number(SubSeq(s, p + 1, e))
      BY <3>1, <3>2, NumbersGrow
    <3> DEFINE x == Format!Number(SubSeq(s, p + 1, q))
               y == Format!Number(SubSeq(s, p + 1, e))
    <3>5. y >= Len(given)
      <4>1. x \in Nat /\ y \in Nat /\ x <= y /\ x >= Len(given) BY <3>4
      <4> HIDE DEF x, y
      <4> QED BY <4>1
    <3>6. ItemOf(b, given, c) \in NoText BY <3>3, <3>5 DEF ItemOf, NoText
    <3> QED BY <3>6, <2>1 DEF ItemThen, NoText
  <2>8. CASE ~AllDigits(b, 1, c - 1) BY <2>1, <2>8, NoItem
  <2> QED BY <2>7, <2>8
<1> QED BY <1>3, <1>4

\* An item with the number of an argument, and perhaps with a format.
LEMMA ItemIs ==
  ASSUME NEW s \in Texts, NEW given, NEW f, Composes(f, s, given),
         NEW p, NEW q, NEW k, ItemEnds(s, p, q, k),
         ~(Format!Number(SubSeq(s, p + 1, q - 1)) >= Len(given))
  PROVE  \/ f[p] = Format!Other
         \/ f[p] = ItemThen(Format!TextOf(given[Format!Number(SubSeq(s, p + 1, q - 1)) + 1],
                                             SubSeq(s, q + 1, k - 1)), f[k + 1])
<1> DEFINE m == Format!Number(SubSeq(s, p + 1, q - 1))
<1>0. /\ p \in 1 .. Len(s) /\ s[p] = Format!Opening
      /\ q \in Nat /\ p + 2 <= q /\ AllDigits(s, p + 1, q - 1)
      /\ k \in q .. Len(s) /\ s[k] = Format!Closing /\ (k = q \/ s[q] = ":")
      /\ \A i \in q .. k - 1 : s[i] # Format!Closing
  BY DEF ItemEnds
<1>1. Len(s) \in Nat BY DEF Texts
<1>2. ~Doubled(s, p)
  <2>1. p + 1 \in p + 1 .. q - 1 BY <1>0, <1>1
  <2> QED BY <1>0, <2>1, DigitIs DEF AllDigits, Doubled
<1>3. FirstClosing(s, p, k)
  <2>1. k \in p .. Len(s) BY <1>0, <1>1
  <2>2. ASSUME NEW i \in p .. Len(s), s[i] = Format!Closing, ~(k <= i) PROVE FALSE
    <3>1. i = p \/ i \in p + 1 .. q - 1 \/ i \in q .. k - 1 BY <1>0, <1>1, <2>2
    <3>2. i # p BY <1>0, <2>2, CharactersApart
    <3>3. i \notin p + 1 .. q - 1 BY <1>0, <2>2, DigitIs DEF AllDigits
    <3> QED BY <1>0, <3>1, <3>2, <3>3, <2>2
  <2> QED BY <1>0, <2>1, <2>2 DEF FirstClosing, Closings
<1> DEFINE b == SubSeq(s, p + 1, k - 1)
           c == q - p
<1>4. /\ Len(b) = k - p - 1 /\ b \in Texts
      /\ \A i \in 1 .. Len(b) : b[i] = s[p + i]
      /\ Body(s, p, k, b)
  <2>1. Body(s, p, k, b) BY <1>0, <1>3, BodyIs
  <2> QED BY <1>0, <2>1 DEF Body
<1>5. f[p] = ItemThen(Format!ItemText(b, given), f[k + 1]) BY <1>0, <1>2, <1>3 DEF Composes
<1> HIDE DEF b
<1>6. AllDigits(b, 1, c - 1)
  <2>1. ASSUME NEW i \in 1 .. c - 1 PROVE Format!IsDigit(b[i])
    <3>1. i \in 1 .. Len(b) /\ p + i \in p + 1 .. q - 1 BY <1>0, <1>1, <1>4
    <3> QED BY <1>0, <3>1, <1>4 DEF AllDigits
  <2> QED BY <1>0, <2>1 DEF AllDigits
<1>7. CutAt(b, c)
  <2>1. c \in 1 .. Len(b) + 1 BY <1>0, <1>1, <1>4
  <2>2. c <= Len(b) => b[c] = ":"
    <3>1. SUFFICES ASSUME c <= Len(b) PROVE b[c] = ":" OBVIOUS
    <3>2. c \in 1 .. Len(b) /\ p + c = q /\ k # q BY <1>0, <3>1, <2>1, <1>1, <1>4
    <3> QED BY <1>0, <3>2, <1>4
  <2>3. \A i \in 1 .. c - 1 : b[i] # ":" BY <1>0, <1>6, DigitIs DEF AllDigits
  <2> QED BY <1>0, <2>1, <2>2, <2>3 DEF CutAt
<1>8. Format!ItemText(b, given) = ItemOf(b, given, c) BY <1>0, <1>4, <1>7, ItemTextIs
<1>9. /\ SubSeq(b, 1, c - 1) = SubSeq(s, p + 1, q - 1)
      /\ SubSeq(b, c + 1, Len(b)) = SubSeq(s, q + 1, k - 1)
  <2>1. /\ c - 1 \in Nat /\ c - 1 <= Len(b) /\ 1 \in Nat /\ p + (c - 1) = q - 1
        /\ 1 <= 1 /\ Len(b) <= Len(b) /\ c + 1 \in Nat /\ 1 <= c + 1 /\ Len(b) \in Nat /\ p + (c + 1) = q + 1 /\ p + Len(b) = k - 1
    BY <1>0, <1>1, <1>4
  <2> HIDE DEF c
  <2>4. ASSUME NEW m1 \in Nat, NEW n \in Nat, 1 <= m1, n <= Len(b)
        PROVE  SubSeq(b, m1, n) = SubSeq(s, p + m1, p + n)
    BY <1>4, <2>4, Zenon DEF Body
  <2>2. SubSeq(b, 1, c - 1) = SubSeq(s, p + 1, p + (c - 1)) BY <2>1, <2>4, Zenon
  <2>3. SubSeq(b, c + 1, Len(b)) = SubSeq(s, p + (c + 1), p + Len(b)) BY <2>1, <2>4, Zenon
  <2> QED BY <1>0, <2>1, <2>2, <2>3
<1>10. c # 1 BY <1>0, <1>1
<1>11. ItemOf(b, given, c) = Format!Other
       \/ ItemOf(b, given, c) = Format!TextOf(given[m + 1], SubSeq(s, q + 1, k - 1))
  <2> HIDE DEF c
  <2> QED BY <1>0, <1>6, <1>9, <1>10 DEF ItemOf
<1>12. ItemThen(Format!Other, f[k + 1]) = Format!Other BY DEF ItemThen
<1> QED BY <1>0, <1>5, <1>8, <1>11, <1>12
-----------------------------------------------------------------------------
LEMMA ConfigTyped ==
  ASSUME NEW w \in {"fetch", "index0", "index", "format", "refused"}, NEW b \in Nat \ {0},
         NEW e \in Nat \ {0}, NEW a \in Nat, NEW ts \in Seq(Texts), NEW o \in Texts
  PROVE  Config(w, b, e, a, ts, o) \in Configs
BY DEF Config, Configs

LEMMA AfterTyped ==
  ASSUME NEW s \in Texts, NEW given, NEW i \in 1 .. Len(s), NEW c \in Configs
  PROVE  After(c, s, given, i) \in Configs
<1>1. Len(s) \in Nat /\ i \in Nat /\ i + 1 \in Nat \ {0} BY DEF Texts
<1>2. /\ c.where \in {"fetch", "index0", "index", "format", "refused"} /\ c.from \in Nat \ {0}
      /\ c.formatFrom \in Nat \ {0} /\ c.argument \in Nat /\ c.texts \in Seq(Texts) /\ c.out \in Texts
  BY DEF Configs
<1>3. ASSUME NEW b \in Int, b <= i PROVE c.out \o SubSeq(s, c.from, b) \in Texts
  <2>1. SubSeq(s, c.from, b) \in Texts
    <3>1. c.from \in Int /\ 1 <= c.from /\ b <= Len(s) BY <1>1, <1>2, <1>3
    <3> QED BY <3>1, PartIs
  <2> QED BY <1>2, <2>1, ConcatProperties DEF Texts
<1>4. Format!IsDigit(s[i]) => NewIndex(c, s, i) \in Nat
  <2> DEFINE a == c.argument  g == Format!Digit(s[i])
  <2>1. a \in Nat /\ (Format!IsDigit(s[i]) => g \in 0 .. 9) BY <1>2, DigitIs
  <2> HIDE DEF a, g
  <2>2. Format!IsDigit(s[i]) => a * 10 + g \in Nat BY <2>1
  <2> QED BY <2>2 DEF NewIndex, a, g
<1>5. /\ ItemOfArgument(c, s, given, i) \in Texts
      /\ Append(c.texts, ItemOfArgument(c, s, given, i)) \in Seq(Texts)
      /\ c.out \o ItemOfArgument(c, s, given, i) \in Texts
  <2>1. SubSeq(s, c.formatFrom, i - 1) \in Texts
    <3>1. c.formatFrom \in Int /\ i - 1 \in Int /\ 1 <= c.formatFrom /\ i - 1 <= Len(s)
      BY <1>1, <1>2
    <3> QED BY <3>1, PartIs
  <2>2. <<>> \in Texts BY DEF Texts
  <2>3. ItemOfArgument(c, s, given, i) \in Texts BY <2>1, <2>2, TextOfIs DEF ItemOfArgument
  <2>4. Append(c.texts, ItemOfArgument(c, s, given, i)) \in Seq(Texts)
    BY <1>2, <2>3, AppendProperties
  <2>5. c.out \o ItemOfArgument(c, s, given, i) \in Texts
    BY <1>2, <2>3, ConcatProperties DEF Texts
  <2> QED BY <2>3, <2>4, <2>5
<1>6. Refused(c) \in Configs BY <1>2, ConfigTyped DEF Refused
<1>7. Config("index0", c.from, c.formatFrom, 0, c.texts, c.out) \in Configs
  BY <1>2, ConfigTyped
<1>8. Format!IsDigit(s[i]) =>
        Config("index", c.from, c.formatFrom, NewIndex(c, s, i), c.texts,
               IF c.where = "index0" THEN c.out \o SubSeq(s, c.from, i - 2) ELSE c.out) \in Configs
  <2>1. i - 2 \in Int /\ i - 2 <= i BY <1>1
  <2>2. (IF c.where = "index0" THEN c.out \o SubSeq(s, c.from, i - 2) ELSE c.out) \in Texts
    BY <1>2, <1>3, <2>1
  <2> QED BY <1>2, <1>4, <2>2, ConfigTyped
<1>9. Config("fetch", i + 1, c.formatFrom, c.argument, c.texts, c.out \o SubSeq(s, c.from, i - 1)) \in Configs
  <2>1. i - 1 \in Int /\ i - 1 <= i BY <1>1
  <2>2. c.out \o SubSeq(s, c.from, i - 1) \in Texts BY <1>3, <2>1
  <2> QED BY <1>1, <1>2, <2>2, ConfigTyped
<1>10. Config("format", c.from, i + 1, c.argument, c.texts, c.out) \in Configs
  BY <1>1, <1>2, ConfigTyped
<1>11. Config("fetch", i + 1, c.formatFrom, c.argument,
              Append(c.texts, ItemOfArgument(c, s, given, i)),
              c.out \o ItemOfArgument(c, s, given, i)) \in Configs
  BY <1>1, <1>2, <1>5, ConfigTyped
<1> QED BY <1>6, <1>7, <1>8, <1>9, <1>10, <1>11 DEF After

\* A pass goes through its format.
LEMMA TraceExists ==
  ASSUME NEW s \in Texts, NEW given
  PROVE  \E t : Trace(t, s, given)
<1> DEFINE n == Len(s)
           step == [p \in (1 .. n) \X Configs |-> After(p[2], s, given, p[1])]
           prev == [i \in 1 .. n |-> i - 1]
<1>1. n \in Nat BY DEF Texts
<1>2. prev \in [1 .. n -> 0 .. n] /\ \A i \in 1 .. n : prev[i] = i - 1 BY <1>1
<1>3. step \in [(1 .. n) \X Configs -> Configs]
      /\ \A i \in 1 .. n, v \in Configs : step[<<i, v>>] = After(v, s, given, i)
  <2>1. \A p \in (1 .. n) \X Configs : p[1] \in 1 .. n /\ p[2] \in Configs OBVIOUS
  <2>2. \A p \in (1 .. n) \X Configs : After(p[2], s, given, p[1]) \in Configs BY <2>1, AfterTyped
  <2> QED BY <2>2
<1>4. AtFirst \in Configs
  <2>1. <<>> \in Texts /\ <<>> \in Seq(Texts) BY DEF Texts
  <2>2. 0 \in Nat /\ 1 \in Nat \ {0} OBVIOUS
  <2> QED BY <2>1, <2>2 DEF AtFirst, Config, Configs
<1> HIDE DEF step, prev
<1>5. \A i \in 1 .. n : prev[i] < i BY <1>1, <1>2
<1>6. PICK t : Ascends(t, n, Configs, AtFirst, step, prev)
  BY <1>1, <1>2, <1>3, <1>4, <1>5, AscentExists
<1>7. t \in [0 .. n -> Configs] /\ t[0] = AtFirst BY <1>6 DEF Ascends
<1>8. ASSUME NEW i \in 1 .. n PROVE t[i] = After(t[i - 1], s, given, i)
  <2>1. i - 1 \in 0 .. n BY <1>1
  <2>2. t[i - 1] \in Configs BY <1>7, <2>1
  <2>3. t[i] = step[<<i, t[i - 1]>>] BY <1>2, <1>6 DEF Ascends
  <2> QED BY <1>3, <2>2, <2>3
<1>9. Trace(t, s, given) BY <1>7, <1>8 DEF Trace
<1> QED BY <1>9
LEMMA AfterBounded ==
  ASSUME NEW s \in Texts, NEW given, NEW i \in 1 .. Len(s), NEW c \in Configs, Bounded(c, i - 1)
  PROVE  Bounded(After(c, s, given, i), i)
<1>1. Len(s) \in Nat /\ i \in Nat \ {0} BY DEF Texts
<1>2. c.from \in Nat \ {0} /\ c.texts \in Seq(Texts) /\ Len(c.texts) \in Nat /\ c.argument \in Nat
  BY DEF Configs
<1>3. /\ c.from \in 1 .. (i - 1) + 1
      /\ c.where = "index0" => c.from <= i - 1 /\ c.argument = 0
      /\ c.where \in {"index", "format"} => c.from <= (i - 1) - 1
      /\ 3 * Len(c.texts) <= c.from - 1
  BY DEF Bounded
<1> DEFINE a == After(c, s, given, i)
<1>4. CASE a = c /\ c.where \notin {"index"}
  <2> HIDE DEF a
  <2> QED BY <1>1, <1>2, <1>3, <1>4 DEF Bounded, a
<1>5. CASE a = Refused(c)
  <2>1. a.where = "refused" /\ a.from = c.from /\ a.texts = c.texts
    <3> HIDE DEF a
    <3> QED BY <1>5 DEF Refused, Config
  <2> HIDE DEF a
  <2> QED BY <1>1, <1>2, <1>3, <2>1 DEF Bounded, a
<1>6. CASE c.where = "fetch" /\ s[i] = Format!Opening
  <2>1. a.where = "index0" /\ a.from = c.from /\ a.texts = c.texts /\ a.argument = 0
    BY <1>6 DEF After, Config
  <2> HIDE DEF a
  <2> QED BY <1>1, <1>2, <1>3, <2>1 DEF Bounded, a
<1>7. CASE /\ c.where \in {"index0", "index"} /\ Format!IsDigit(s[i])
           /\ ~(NewIndex(c, s, i) > UInt16Max)
  <2>1. a.where = "index" /\ a.from = c.from /\ a.texts = c.texts
    BY <1>7 DEF After, Config
  <2> HIDE DEF a
  <2> QED BY <1>1, <1>2, <1>3, <1>7, <2>1 DEF Bounded, a
<1>8. CASE c.where = "index0" /\ ~Format!IsDigit(s[i]) /\ s[i] = Format!Opening
  <2>1. a.where = "fetch" /\ a.from = i + 1 /\ a.texts = c.texts
    BY <1>8 DEF After, Config
  <2> HIDE DEF a
  <2> QED BY <1>1, <1>2, <1>3, <2>1 DEF Bounded, a
<1>9. CASE c.where = "index" /\ ~Format!IsDigit(s[i]) /\ s[i] = ":"
  <2>1. a.where = "format" /\ a.from = c.from /\ a.texts = c.texts
    BY <1>9 DEF After, Config
  <2> HIDE DEF a
  <2> QED BY <1>1, <1>2, <1>3, <1>9, <2>1 DEF Bounded, a
<1>10. CASE /\ c.where \in {"index", "format"} /\ s[i] = Format!Closing
            /\ ~(c.argument >= Len(given))
  <2>1. a.where = "fetch" /\ a.from = i + 1 /\ a.texts = Append(c.texts, ItemOfArgument(c, s, given, i))
    BY <1>10, CharactersApart, DigitIs DEF After, Config
  <2>2. Len(a.texts) = Len(c.texts) + 1
    <3> HIDE DEF a
    <3> QED BY <1>2, <2>1
  <2> HIDE DEF a
  <2> QED BY <1>1, <1>2, <1>3, <1>10, <2>1, <2>2 DEF Bounded, a
<1>11. \/ a = c /\ c.where \notin {"index"}
       \/ a = Refused(c)
       \/ c.where = "fetch" /\ s[i] = Format!Opening
       \/ /\ c.where \in {"index0", "index"} /\ Format!IsDigit(s[i])
          /\ ~(NewIndex(c, s, i) > UInt16Max)
       \/ c.where = "index0" /\ ~Format!IsDigit(s[i]) /\ s[i] = Format!Opening
       \/ c.where = "index" /\ ~Format!IsDigit(s[i]) /\ s[i] = ":"
       \/ /\ c.where \in {"index", "format"} /\ s[i] = Format!Closing
          /\ ~(c.argument >= Len(given))
  <2> DEFINE w == c.where  x == s[i]  big == NewIndex(c, s, i) > UInt16Max  last == c.argument >= Len(given)
             digit == Format!IsDigit(x)
  <2>1. a = IF w = "fetch" THEN IF x = Format!Opening THEN a ELSE c
            ELSE IF w \in {"index0", "index"} /\ digit THEN IF big THEN Refused(c) ELSE a
            ELSE IF w = "index0" /\ x = Format!Opening THEN a
            ELSE IF w = "index0" /\ x = Format!Space THEN c
            ELSE IF w = "index" /\ x = ":" THEN a
            ELSE IF w \in {"index", "format"} /\ x = Format!Closing
            THEN IF last THEN Refused(c) ELSE a
            ELSE IF w = "format" THEN c ELSE Refused(c)
    BY DEF After
  <2> HIDE DEF a, w, x, big, last, digit
  <2>2. \/ a = c /\ w \notin {"index"}
        \/ a = Refused(c)
        \/ w = "fetch" /\ x = Format!Opening
        \/ w \in {"index0", "index"} /\ digit /\ ~big
        \/ w = "index0" /\ ~digit /\ x = Format!Opening
        \/ w = "index" /\ ~digit /\ x = ":"
        \/ w \in {"index", "format"} /\ x = Format!Closing /\ ~last
    BY <2>1
  <2> QED BY <2>2 DEF w, x, big, last, digit
<1> QED BY <1>4, <1>5, <1>6, <1>7, <1>8, <1>9, <1>10, <1>11

LEMMA TraceBounded ==
  ASSUME NEW s \in Texts, NEW given, NEW t, Trace(t, s, given)
  PROVE  \A i \in 0 .. Len(s) : t[i] \in Configs /\ Bounded(t[i], i)
<1> DEFINE S == {i \in 0 .. Len(s) : Bounded(t[i], i)}
<1>1. Len(s) \in Nat BY DEF Texts
<1>2. \A i \in 0 .. Len(s) : t[i] \in Configs BY DEF Trace
<1>3. 0 \in S
  <2>1. Bounded(AtFirst, 0) BY DEF Bounded, AtFirst, Config
  <2> QED BY <2>1, <1>1 DEF Trace
<1>4. ASSUME NEW i \in 1 .. Len(s), \A j \in 0 .. i - 1 : j \in S PROVE i \in S
  <2>1. i - 1 \in 0 .. i - 1 /\ i - 1 \in 0 .. Len(s) /\ i \in 0 .. Len(s) BY <1>1
  <2>2. t[i - 1] \in Configs /\ Bounded(t[i - 1], i - 1) BY <1>2, <1>4, <2>1
  <2>3. Bounded(After(t[i - 1], s, given, i), i) BY <2>2, AfterBounded
  <2> QED BY <2>1, <2>3 DEF Trace
<1> HIDE DEF S
<1>5. \A i \in 0 .. Len(s) : i \in S BY <1>1, <1>3, <1>4, UpwardsAll
<1> QED BY <1>2, <1>5 DEF S

LEMMA TextsStay ==
  ASSUME NEW s \in Texts, NEW given, NEW t, Trace(t, s, given)
  PROVE  \A i \in 0 .. Len(s) : Extends(t[i].texts, t[Len(s)].texts)
<1> DEFINE n == Len(s)
           E(i) == Extends(t[i].texts, t[n].texts)
           S == {i \in 1 .. n + 1 : E(i - 1)}
<1>1. n \in Nat BY DEF Texts
<1>2. \A i \in 0 .. n : t[i].texts \in Seq(Texts) /\ Len(t[i].texts) \in Nat
  BY DEF Trace, Configs
<1>3. ASSUME NEW i \in 1 .. n PROVE Extends(t[i - 1].texts, t[i].texts)
  <2>1. i - 1 \in 0 .. n /\ i \in 0 .. n BY <1>1
  <2> DEFINE c == t[i - 1]
  <2>2. t[i] = After(c, s, given, i) BY DEF Trace
  <2>3. t[i].texts = c.texts \/ t[i].texts = Append(c.texts, ItemOfArgument(c, s, given, i))
    <3> HIDE DEF c
    <3> QED BY <2>2 DEF After, Config, Refused
  <2>4. c.texts \in Seq(Texts) /\ Len(c.texts) \in Nat BY <1>2, <2>1
  <2>5. ASSUME NEW w PROVE Extends(c.texts, c.texts) /\ Extends(c.texts, Append(c.texts, w))
    <3> DEFINE u == c.texts
    <3>1. Len(u) \in Nat /\ u \in Seq(Texts) BY <2>4
    <3> HIDE DEF u
    <3>2. Extends(u, u) /\ Extends(u, Append(u, w)) BY <3>1 DEF Extends
    <3> QED BY <3>2 DEF u
  <2> QED BY <2>3, <2>5
<1>4. \A u, v, w \in Seq(Texts) : Extends(u, v) /\ Extends(v, w) => Extends(u, w)
  BY DEF Extends
<1>5. ASSUME NEW i \in 1 .. n + 1, \A j \in i + 1 .. n + 1 : j \in S PROVE i \in S
  <2>1. CASE i = n + 1
    <3>1. i - 1 = n /\ n \in 0 .. n BY <2>1, <1>1
    <3>2. E(n) BY <3>1, <1>2 DEF Extends
    <3> QED BY <3>1, <3>2
  <2>2. CASE i # n + 1
    <3>1. i \in 1 .. n /\ i + 1 \in i + 1 .. n + 1 /\ (i + 1) - 1 = i /\ i - 1 \in 0 .. n /\ i \in 0 .. n
          /\ n \in 0 .. n
      BY <2>2, <1>1
    <3>2. i + 1 \in S BY <3>1, <1>5
    <3> HIDE DEF E
    <3>3. E(i) BY <3>1, <3>2
    <3>4. E(i - 1) BY <3>1, <3>3, <1>2, <1>3, <1>4 DEF E
    <3> QED BY <3>4
  <2> QED BY <2>1, <2>2
<1> DEFINE m == n + 1
<1>6. m \in Nat BY <1>1
<1>7. \A i \in 1 .. m : (\A j \in i + 1 .. m : j \in S) => i \in S BY <1>5
<1> HIDE DEF S, m
<1>8. \A i \in 1 .. m : i \in S BY <1>6, <1>7, DownwardsAll
<1>9. ASSUME NEW i \in 0 .. n PROVE E(i)
  <2>1. i + 1 \in 1 .. m /\ (i + 1) - 1 = i BY <1>1 DEF m
  <2>2. i + 1 \in S BY <2>1, <1>8
  <2> HIDE DEF E
  <2>3. E((i + 1) - 1) BY <2>2 DEF S
  <2> QED BY <2>1, <2>3
<1> QED BY <1>9
-----------------------------------------------------------------------------
LEMMA ThenNone ==
  ASSUME NEW t, NEW r \in NoText
  PROVE  Format!Then(t, r) = r
BY DEF Format!Then, NoText

LEMMA TextGrows ==
  ASSUME NEW o \in Texts, NEW s \in Texts, NEW a \in Nat \ {0}, NEW i \in 1 .. Len(s), a <= i
  PROVE  /\ o \o SubSeq(s, a, i - 1) \in Texts /\ <<s[i]>> \in Texts
         /\ (o \o SubSeq(s, a, i - 1)) \o <<s[i]>> = o \o SubSeq(s, a, i)
<1>1. SubSeq(s, a, i) = SubSeq(s, a, i - 1) \o <<s[i]>> BY PartGrows
<1>2. SubSeq(s, a, i - 1) \in Texts
  <2>1. a \in Int /\ i - 1 \in Int /\ 1 <= a /\ i - 1 <= Len(s) BY DEF Texts
  <2> QED BY <2>1, PartIs
<1>3. <<s[i]>> \in Texts
  <2>1. s[i] \in Characters BY DEF Texts
  <2> QED BY <2>1 DEF Texts
<1>4. (o \o SubSeq(s, a, i - 1)) \o <<s[i]>> = o \o (SubSeq(s, a, i - 1) \o <<s[i]>>)
  <2> DEFINE u == SubSeq(s, a, i - 1)  v == <<s[i]>>
  <2>1. o \in Seq(Characters) /\ u \in Seq(Characters) /\ v \in Seq(Characters)
    BY <1>2, <1>3 DEF Texts
  <2> HIDE DEF u, v
  <2>2. (o \o u) \o v = o \o (u \o v) BY <2>1, ConcatAssociative
  <2> QED BY <2>2 DEF u, v
<1> QED BY <1>1, <1>2, <1>3, <1>4, ConcatProperties DEF Texts

\* No literal text behind what was written.
LEMMA NothingLeft ==
  ASSUME NEW o \in Texts, NEW s, NEW i \in Nat
  PROVE  o \o SubSeq(s, i + 1, i) = o
<1>1. SubSeq(s, i + 1, i) = <<>>
  <2>1. i + 1 \in Int /\ i \in Int /\ i < i + 1 OBVIOUS
  <2> QED BY <2>1, SubSeqEmpty
<1> QED BY <1>1, ConcatEmptySeq DEF Texts

\* Behind literal text.
LEMMA FetchMatches ==
  ASSUME NEW s \in Texts, NEW given, NEW f, NEW i \in 1 .. Len(s), NEW c, Midway(c, i, f, s, given),
         c.where = "fetch"
  PROVE  Matches(After(c, s, given, i), i, f, s)
<1>1. Len(s) \in Nat /\ i \in Nat \ {0} /\ (i - 1) + 1 = i BY DEF Texts
<1>2. c.out \in Texts /\ c.from \in Nat \ {0} /\ c.from <= i
  BY <1>1 DEF Midway, Configs, Bounded
<1>3. f[1] = Format!Then(c.out \o SubSeq(s, c.from, i - 1), f[i])
  BY <1>1 DEF Midway, Matches
<1> DEFINE a == After(c, s, given, i)
<1>4. CASE s[i] = Format!Opening
  <2>1. a.where = "index0" /\ a.from = c.from /\ a.out = c.out BY <1>4 DEF After, Config
  <2> HIDE DEF a
  <2> QED BY <1>1, <1>3, <1>4, <2>1 DEF Matches, a
<1>5. CASE s[i] = Format!Closing
  <2>1. f[i] = Format!Other BY <1>5 DEF Midway, Composes
  <2>2. f[1] = Format!Other BY <1>3, <2>1, ThenNone DEF NoText
  <2> QED BY <2>2 DEF Midway
<1>6. CASE s[i] \notin {Format!Opening, Format!Closing}
  <2>1. a = c BY <1>6 DEF After
  <2>2. f[i] = Format!Then(<<s[i]>>, f[i + 1]) /\ f[i + 1] \in Outcomes
    <3>1. i + 1 \in 1 .. Len(s) + 2 BY <1>1
    <3> QED BY <1>6, <3>1 DEF Midway, Composes
  <2> DEFINE o == c.out \o SubSeq(s, c.from, i - 1)  b == c.from  v == c.out
  <2>3. /\ o \in Texts /\ <<s[i]>> \in Texts
        /\ o \o <<s[i]>> = c.out \o SubSeq(s, c.from, i)
    <3>1. b \in Nat \ {0} /\ b <= i /\ v \in Texts BY <1>2
    <3> HIDE DEF b, v
    <3>2. /\ v \o SubSeq(s, b, i - 1) \in Texts /\ <<s[i]>> \in Texts
          /\ (v \o SubSeq(s, b, i - 1)) \o <<s[i]>> = v \o SubSeq(s, b, i)
      BY <3>1, TextGrows
    <3> QED BY <3>2 DEF b, v
  <2> HIDE DEF o
  <2>5. f[1] = Format!Then(o, Format!Then(<<s[i]>>, f[i + 1])) BY <1>3, <2>2 DEF o
  <2>4. f[1] = Format!Then(c.out \o SubSeq(s, c.from, i), f[i + 1])
    <3> DEFINE x == <<s[i]>>  g == f[i + 1]
    <3>1. o \in Texts /\ x \in Texts /\ g \in Outcomes BY <2>2, <2>3
    <3> HIDE DEF x, g
    <3>2. Format!Then(o, Format!Then(x, g)) = Format!Then(o \o x, g) BY <3>1, ThenTwice
    <3> QED BY <2>3, <2>5, <3>2 DEF x, g
  <2> HIDE DEF a
  <2> QED BY <2>1, <2>4 DEF Matches, a
<1> QED BY <1>4, <1>5, <1>6

\* Behind the character that follows an opening brace.
LEMMA Index0Matches ==
  ASSUME NEW s \in Texts, NEW given, NEW f, NEW i \in 1 .. Len(s), NEW c, Midway(c, i, f, s, given),
         c.where = "index0"
  PROVE  Matches(After(c, s, given, i), i, f, s)
<1> DEFINE p == i - 1
           a == After(c, s, given, i)
           o == c.out \o SubSeq(s, c.from, p - 1)
<1>1. Len(s) \in Nat /\ i \in Nat \ {0} BY DEF Texts
<1>2. c.out \in Texts /\ c.from \in Nat \ {0} /\ c.from <= p /\ c.argument = 0
  BY <1>1 DEF Midway, Configs, Bounded
<1>3. p >= 1 /\ s[p] = Format!Opening /\ f[1] = Format!Then(o, f[p])
  BY DEF Midway, Matches
<1>4. p \in 1 .. Len(s) /\ p < Len(s) /\ p + 1 = i /\ i \in p + 1 .. Len(s) BY <1>1, <1>3
<1>5. Composes(f, s, given) /\ f[1] # Format!Other BY DEF Midway
<1>6. Len(given) \in Nat /\ Len(given) <= UInt16Max /\ UInt16Max \in Nat BY FormatAssumption DEF Midway
<1>7. f[p] \in NoText => f[1] \in NoText BY <1>3, ThenNone
<1>9. p - 1 = i - 2 /\ p = i - 1 BY <1>1
<1> HIDE DEF p
<1>8. o \in Texts /\ o \o <<s[p]>> = c.out \o SubSeq(s, c.from, p)
  <2> DEFINE b == c.from  v == c.out
  <2>1. b \in Nat \ {0} /\ b <= p /\ p \in 1 .. Len(s) /\ v \in Texts BY <1>2, <1>4
  <2> HIDE DEF b, v
  <2>2. /\ v \o SubSeq(s, b, p - 1) \in Texts
        /\ (v \o SubSeq(s, b, p - 1)) \o <<s[p]>> = v \o SubSeq(s, b, p)
    BY <2>1, TextGrows
  <2> QED BY <2>2 DEF b, v
<1>10. CASE Format!IsDigit(s[i])
  <2>1. NewIndex(c, s, i) = Format!Digit(s[i]) /\ Format!Digit(s[i]) \in 0 .. 9
    BY <1>2, <1>10, DigitIs DEF NewIndex
  <2>2. AllDigits(s, p + 1, i) BY <1>1, <1>4, <1>10 DEF AllDigits
  <2>3. Format!Number(SubSeq(s, p + 1, i)) = NewIndex(c, s, i)
    <3>1. AllDigits(s, i, i) /\ i \in Nat \ {0} /\ i \in 1 .. Len(s) /\ i <= i BY <1>1, <1>4, <2>2
    <3>2. Format!Number(SubSeq(s, i, i)) = Format!Digit(s[i]) BY <3>1, NumberGrows
    <3> QED BY <1>4, <2>1, <3>2
  <2>4. CASE NewIndex(c, s, i) > UInt16Max
    <3>1. a.where = "refused" BY <1>10, <2>4 DEF After, Refused, Config
    <3>2. Format!Number(SubSeq(s, p + 1, i)) >= Len(given) BY <1>6, <2>1, <2>3, <2>4
    <3>3. f[p] \in NoText BY <1>3, <1>4, <1>5, <1>6, <2>2, <3>2, ItemTooGreat
    <3> HIDE DEF a
    <3> QED BY <1>7, <3>1, <3>3 DEF Matches, a
  <2>5. CASE ~(NewIndex(c, s, i) > UInt16Max)
    <3>1. /\ a.where = "index" /\ a.argument = NewIndex(c, s, i) /\ a.out = c.out \o SubSeq(s, c.from, i - 2)
      BY <1>10, <2>5 DEF After, Config
    <3>2. a.out = o BY <3>1, <1>9
    <3>3. i + 1 \in Nat /\ p + 2 <= i + 1 /\ (i + 1) - 1 = i BY <1>1, <1>4
    <3> HIDE DEF a, o
    <3>4. ItemStarts(a, p, i + 1, f, s)
      BY <1>3, <1>4, <2>2, <2>3, <3>1, <3>2, <3>3 DEF ItemStarts
    <3> QED BY <3>1, <3>4 DEF Matches, a
  <2> QED BY <2>4, <2>5
<1>11. CASE ~Format!IsDigit(s[i]) /\ s[i] = Format!Opening
  <2>1. a.where = "fetch" /\ a.from = i + 1 /\ a.out = c.out \o SubSeq(s, c.from, i - 1)
    BY <1>11 DEF After, Config
  <2>2. Doubled(s, p) BY <1>4, <1>11 DEF Doubled
  <2>3. f[p] = Format!Then(<<Format!Opening>>, f[i + 1]) /\ f[i + 1] \in Outcomes
    <3>1. i + 1 \in 1 .. Len(s) + 2 /\ p + 2 = i + 1 BY <1>1, <1>4
    <3>2. f[p] = Format!Then(<<Format!Opening>>, f[p + 2]) BY <1>3, <1>4, <2>2, <1>5 DEF Composes
    <3> QED BY <3>1, <3>2, <1>5 DEF Composes
  <2>4. <<Format!Opening>> = <<s[p]>> /\ <<s[p]>> \in Texts BY <1>2, <1>3, <1>4, TextGrows
  <2>5. f[1] = Format!Then(o \o <<s[p]>>, f[i + 1])
    <3> HIDE DEF o
    <3> QED BY <1>3, <1>8, <2>3, <2>4, ThenTwice
  <2>6. a.out = o \o <<s[p]>> BY <1>8, <1>9, <2>1
  <2>7. a.out \in Texts
    <3> HIDE DEF a, o
    <3> QED BY <1>8, <2>4, <2>6, ConcatProperties DEF Texts
  <2> HIDE DEF a, o
  <2>8. a.out \o SubSeq(s, a.from, i) = a.out
    <3>1. i \in Nat BY <1>1
    <3>2. a.out \o SubSeq(s, i + 1, i) = a.out BY <2>7, <3>1, NothingLeft
    <3> QED BY <2>1, <3>2
  <2> QED BY <2>1, <2>5, <2>6, <2>8 DEF Matches, a
<1>12. CASE s[i] = Format!Space
  <2>1. f[p] = Format!Other BY <1>3, <1>4, <1>5, <1>12, BlankIs
  <2>2. f[1] = Format!Other BY <1>3, <2>1, ThenNone DEF NoText
  <2> QED BY <2>2, <1>5
<1>13. CASE /\ ~Format!IsDigit(s[i]) /\ s[i] # Format!Opening /\ s[i] # Format!Space
  <2>1. a.where = "refused" BY <1>13 DEF After, Refused, Config
  <2>2. f[p] \in NoText
    <3>1. AllDigits(s, p + 1, i - 1) BY <1>4, <1>1 DEF AllDigits
    <3>2. (i = p + 1 => s[i] # Format!Opening) /\ (i > p + 1 => s[i] \notin {":", Format!Closing})
      BY <1>1, <1>4, <1>13
    <3> QED BY <1>3, <1>4, <1>5, <1>13, <3>1, <3>2, ItemFails
  <2> HIDE DEF a
  <2> QED BY <1>7, <2>1, <2>2 DEF Matches, a
<1> QED BY <1>10, <1>11, <1>12, <1>13

\* Behind the last of the digits of an item, or in its format, at its end.
LEMMA EndMatches ==
  ASSUME NEW s \in Texts, NEW given, NEW f, NEW i \in 1 .. Len(s), NEW c, Midway(c, i, f, s, given),
         NEW p, NEW q, ItemStarts(c, p, q, f, s), q <= i, s[i] = Format!Closing,
         \A k \in q .. i - 1 : s[k] # Format!Closing,
         \/ c.where = "index" /\ q = i
         \/ c.where = "format" /\ s[q] = ":" /\ c.formatFrom = q + 1
  PROVE  Matches(After(c, s, given, i), i, f, s)
<1> DEFINE a == After(c, s, given, i)
           m == c.argument
           t == ItemOfArgument(c, s, given, i)
<1>1. Len(s) \in Nat /\ i \in Nat \ {0} BY DEF Texts
<1>2. /\ p \in 1 .. Len(s) /\ s[p] = Format!Opening /\ q \in Nat /\ p + 2 <= q
      /\ f[1] = Format!Then(c.out, f[p])
      /\ AllDigits(s, p + 1, q - 1) /\ m = Format!Number(SubSeq(s, p + 1, q - 1))
  BY DEF ItemStarts
<1>3. /\ Composes(f, s, given) /\ f[1] # Format!Other /\ c.out \in Texts /\ m \in Nat
      /\ Len(given) \in Nat
  BY DEF Midway, Configs
<1>4. f[p] \in NoText => f[1] \in NoText /\ f[1] = f[p] BY <1>2, ThenNone
<1>5. ~Format!IsDigit(s[i]) BY DigitIs
<1>6. c.where \in {"index", "format"} /\ i \in q .. Len(s) BY <1>1, <1>2
<1>7. CASE m >= Len(given)
  <2>1. a = Refused(c) BY <1>5, <1>6, <1>7, CharactersApart DEF After
  <2>2. a.where = "refused"
    <3> HIDE DEF a
    <3> QED BY <2>1 DEF Refused, Config
  <2>3. f[p] \in NoText
    <3> DEFINE e == q - 1
    <3>1. e \in p + 1 .. Len(s) BY <1>1, <1>2, <1>6
    <3> HIDE DEF e
    <3>2. AllDigits(s, p + 1, e) /\ Format!Number(SubSeq(s, p + 1, e)) >= Len(given)
      BY <1>2, <1>7 DEF e
    <3> HIDE DEF m
    <3> QED BY <1>2, <1>3, <3>1, <3>2, ItemTooGreat
  <2> HIDE DEF a
  <2> QED BY <1>4, <2>2, <2>3 DEF Matches, a
<1>8. CASE ~(m >= Len(given))
  <2>1. a = Config("fetch", i + 1, c.formatFrom, c.argument, Append(c.texts, t), c.out \o t)
    BY <1>5, <1>6, <1>8, CharactersApart DEF After
  <2>2. a.where = "fetch" /\ a.from = i + 1 /\ a.out = c.out \o t
    <3> HIDE DEF a, t
    <3> QED BY <2>1 DEF Config
  <2>3. t = Format!TextOf(given[m + 1], SubSeq(s, q + 1, i - 1))
    <3>1. CASE c.where = "index" /\ q = i
      <4>1. SubSeq(s, q + 1, i - 1) = <<>>
        <5>1. q + 1 \in Int /\ i - 1 \in Int /\ i - 1 < q + 1 BY <1>1, <3>1
        <5> QED BY <5>1, SubSeqEmpty
      <4> QED BY <3>1, <4>1 DEF ItemOfArgument
    <3>2. CASE c.where = "format" /\ c.formatFrom = q + 1 BY <3>2 DEF ItemOfArgument
    <3> QED BY <3>1, <3>2
  <2> HIDE DEF a, t, m
  <2>4. t \in Texts
    <3>1. q + 1 \in Int /\ i - 1 \in Int /\ 1 <= q + 1 /\ i - 1 <= Len(s) BY <1>1, <1>2
    <3>2. SubSeq(s, q + 1, i - 1) \in Texts BY <3>1, PartIs
    <3> QED BY <2>3, <3>2, TextOfIs
  <2>5. f[p] = Format!Other \/ f[p] = ItemThen(t, f[i + 1])
    <3>1. i = q \/ s[q] = ":" OBVIOUS
    <3> DEFINE u == SubSeq(s, q + 1, i - 1)  w == f[i + 1]
    <3>2. \/ f[p] = Format!Other
          \/ f[p] = ItemThen(Format!TextOf(given[m + 1], u), w)
      <4>1. ItemEnds(s, p, q, i) BY <1>2, <1>6, <3>1 DEF ItemEnds
      <4>2. Composes(f, s, given) BY <1>3
      <4>3. m = Format!Number(SubSeq(s, p + 1, q - 1)) BY <1>2
      <4>4. ~(Format!Number(SubSeq(s, p + 1, q - 1)) >= Len(given)) BY <4>3, <1>8
      <4>5. \/ f[p] = Format!Other
            \/ f[p] = ItemThen(Format!TextOf(given[Format!Number(SubSeq(s, p + 1, q - 1)) + 1], u), w)
        BY <4>1, <4>2, <4>4, ItemIs, SMT
      <4> HIDE DEF u, w
      <4> QED BY <4>3, <4>5
    <3> HIDE DEF u, w
    <3> QED BY <2>3, <3>2 DEF u, w
  <2>6. f[p] # Format!Other BY <1>3, <1>4 DEF NoText
  <2>7. t \notin {Format!Bad, Format!Other} BY <2>4, MarksApart
  <2>8. f[p] = Format!Then(t, f[i + 1]) BY <2>5, <2>6, <2>7 DEF ItemThen
  <2>9. f[i + 1] \in Outcomes
    <3>1. i + 1 \in 1 .. Len(s) + 2 BY <1>1
    <3> QED BY <3>1, <1>3 DEF Composes
  <2>10. f[1] = Format!Then(c.out \o t, f[i + 1]) BY <1>2, <1>3, <2>4, <2>8, <2>9, ThenTwice
  <2>11. a.out \o SubSeq(s, a.from, i) = a.out
    <3>1. i \in Nat BY <1>1
    <3>2. c.out \o t \in Texts BY <1>3, <2>4, ConcatProperties DEF Texts
    <3>3. a.out \in Texts BY <2>2, <3>2
    <3>4. a.out \o SubSeq(s, i + 1, i) = a.out BY <3>1, <3>3, NothingLeft
    <3> QED BY <2>2, <3>4
  <2> QED BY <2>2, <2>10, <2>11 DEF Matches, a
<1> QED BY <1>7, <1>8

LEMMA IndexMatches ==
  ASSUME NEW s \in Texts, NEW given, NEW f, NEW i \in 1 .. Len(s), NEW c, Midway(c, i, f, s, given),
         c.where = "index"
  PROVE  Matches(After(c, s, given, i), i, f, s)
<1> DEFINE a == After(c, s, given, i)
<1>1. Len(s) \in Nat /\ i \in Nat \ {0} /\ (i - 1) + 1 = i BY DEF Texts
<1>2. PICK p : ItemStarts(c, p, i, f, s) BY <1>1 DEF Midway, Matches
<1>3. /\ p \in 1 .. Len(s) /\ s[p] = Format!Opening /\ p + 2 <= i
      /\ f[1] = Format!Then(c.out, f[p])
      /\ AllDigits(s, p + 1, i - 1) /\ c.argument = Format!Number(SubSeq(s, p + 1, i - 1))
  BY <1>2 DEF ItemStarts
<1>4. /\ Composes(f, s, given) /\ c.argument \in Nat /\ Len(given) \in Nat /\ Len(given) <= UInt16Max
      /\ UInt16Max \in Nat
  BY FormatAssumption DEF Midway, Configs
<1>5. i \in p + 1 .. Len(s) /\ i > p + 1 BY <1>1, <1>3
<1>6. f[p] \in NoText => f[1] \in NoText BY <1>3, ThenNone
<1>7. CASE Format!IsDigit(s[i])
  <2>1. AllDigits(s, p + 1, i)
    <3>1. \A k \in p + 1 .. i : k \in p + 1 .. i - 1 \/ k = i BY <1>1, <1>5
    <3> QED BY <3>1, <1>3, <1>7 DEF AllDigits
  <2>2. Format!Number(SubSeq(s, p + 1, i)) = NewIndex(c, s, i)
        /\ Format!Number(SubSeq(s, p + 1, i)) \in Nat
    <3> DEFINE b == p + 1
    <3>1. b \in Nat \ {0} /\ b <= i /\ b # i BY <1>1, <1>3, <1>5
    <3> HIDE DEF b
    <3>2. AllDigits(s, b, i) /\ c.argument = Format!Number(SubSeq(s, b, i - 1)) BY <1>3, <2>1 DEF b
    <3>3. /\ Format!Number(SubSeq(s, b, i)) \in Nat
          /\ Format!Number(SubSeq(s, b, i))
               = Format!Number(SubSeq(s, b, i - 1)) * 10 + Format!Digit(s[i])
      BY <3>1, <3>2, NumberGrows
    <3>4. Format!Number(SubSeq(s, b, i)) = NewIndex(c, s, i) BY <3>2, <3>3 DEF NewIndex
    <3> QED BY <3>3, <3>4 DEF b
  <2>3. CASE NewIndex(c, s, i) > UInt16Max
    <3>1. a.where = "refused" BY <1>7, <2>3 DEF After, Refused, Config
    <3>2. Format!Number(SubSeq(s, p + 1, i)) >= Len(given)
      <4> DEFINE x == Format!Number(SubSeq(s, p + 1, i))
      <4>1. x \in Nat /\ x > UInt16Max BY <2>2, <2>3
      <4> HIDE DEF x
      <4>2. x >= Len(given) BY <4>1, <1>4
      <4> QED BY <4>2 DEF x
    <3>3. f[p] \in NoText BY <1>3, <1>4, <1>5, <2>1, <3>2, ItemTooGreat
    <3> HIDE DEF a
    <3> QED BY <1>6, <3>1, <3>3 DEF Matches, a
  <2>4. CASE ~(NewIndex(c, s, i) > UInt16Max)
    <3>1. a.where = "index" /\ a.argument = NewIndex(c, s, i) /\ a.out = c.out
      BY <1>7, <2>4 DEF After, Config
    <3>2. i + 1 \in Nat /\ p + 2 <= i + 1 /\ (i + 1) - 1 = i BY <1>1, <1>3
    <3> HIDE DEF a
    <3>3. ItemStarts(a, p, i + 1, f, s) BY <1>3, <2>1, <2>2, <3>1, <3>2 DEF ItemStarts
    <3> QED BY <3>1, <3>3 DEF Matches, a
  <2> QED BY <2>3, <2>4
<1>8. CASE s[i] = ":"
  <2>1. ~Format!IsDigit(s[i]) BY <1>8, DigitIs
  <2>2. a = Config("format", c.from, i + 1, c.argument, c.texts, c.out)
    BY <1>8, <2>1 DEF After
  <2>3. a.where = "format" /\ a.formatFrom = i + 1 /\ a.argument = c.argument /\ a.out = c.out
    <3> HIDE DEF a
    <3> QED BY <2>2 DEF Config
  <2> HIDE DEF a
  <2>4. \A k \in i .. i : s[k] # Format!Closing
    <3>1. \A k \in i .. i : k = i BY <1>1
    <3> QED BY <3>1, <1>8, CharactersApart
  <2>5. FormatStarts(a, p, i, i, f, s)
    <3>1. ItemStarts(a, p, i, f, s) BY <1>2, <2>3 DEF ItemStarts
    <3>2. i <= i BY <1>1
    <3> QED BY <3>1, <3>2, <1>8, <2>3, <2>4 DEF FormatStarts
  <2> QED BY <2>3, <2>5 DEF Matches, a
<1>9. CASE s[i] = Format!Closing
  <2>1. i <= i /\ \A k \in i .. i - 1 : s[k] # Format!Closing BY <1>1
  <2> QED BY <1>2, <1>9, <2>1, EndMatches
<1>10. CASE ~Format!IsDigit(s[i]) /\ s[i] \notin {":", Format!Closing}
  <2>1. a = Refused(c) BY <1>10 DEF After
  <2>2. a.where = "refused"
    <3> HIDE DEF a
    <3> QED BY <2>1 DEF Refused, Config
  <2>3. f[p] \in NoText
    <3>1. (i = p + 1 => s[i] # Format!Opening) /\ (i > p + 1 => s[i] \notin {":", Format!Closing})
      BY <1>1, <1>5, <1>10
    <3> QED BY <1>3, <1>4, <1>5, <1>10, <3>1, ItemFails
  <2> HIDE DEF a
  <2> QED BY <1>6, <2>2, <2>3 DEF Matches, a
<1> QED BY <1>7, <1>8, <1>9, <1>10

LEMMA FormatMatches ==
  ASSUME NEW s \in Texts, NEW given, NEW f, NEW i \in 1 .. Len(s), NEW c, Midway(c, i, f, s, given),
         c.where = "format"
  PROVE  Matches(After(c, s, given, i), i, f, s)
<1> DEFINE a == After(c, s, given, i)
<1>1. Len(s) \in Nat /\ i \in Nat \ {0} BY DEF Texts
<1>2. PICK p, q : FormatStarts(c, p, q, i - 1, f, s) BY DEF Midway, Matches
<1>3. /\ ItemStarts(c, p, q, f, s) /\ q \in Nat
      /\ q <= i - 1 /\ s[q] = ":" /\ c.formatFrom = q + 1
      /\ \A k \in q .. i - 1 : s[k] # Format!Closing
  BY <1>2 DEF FormatStarts, ItemStarts
<1>4. CASE s[i] = Format!Closing
  <2>1. q <= i BY <1>1, <1>3
  <2> QED BY <1>3, <1>4, <2>1, EndMatches
<1>5. CASE s[i] # Format!Closing
  <2>1. a = c BY <1>5 DEF After
  <2>2. FormatStarts(c, p, q, i, f, s)
    <3>1. q <= i /\ \A k \in q .. i : k = i \/ k \in q .. i - 1 BY <1>1, <1>3
    <3> QED BY <1>3, <1>5, <3>1 DEF FormatStarts
  <2> HIDE DEF a
  <2> QED BY <2>1, <2>2 DEF Matches, a
<1> QED BY <1>4, <1>5

\* The text that a pass has written so far, and what .NET makes of the rest, give
\* what .NET makes of the whole format.
LEMMA TraceMatches ==
  ASSUME NEW s \in Texts, NEW given, Len(given) \in Nat, Len(given) <= UInt16Max,
         NEW f, Composes(f, s, given), f[1] # Format!Other, NEW t, Trace(t, s, given)
  PROVE  \A i \in 0 .. Len(s) : Matches(t[i], i, f, s)
<1> DEFINE S == {i \in 0 .. Len(s) : Matches(t[i], i, f, s)}
<1>1. Len(s) \in Nat BY DEF Texts
<1>2. 0 \in S
  <2>1. AtFirst.where = "fetch" /\ AtFirst.out = <<>> /\ AtFirst.from = 1 BY DEF AtFirst, Config
  <2>2. <<>> \o SubSeq(s, 0 + 1, 0) = <<>>
    <3>1. <<>> \in Texts /\ 0 \in Nat BY DEF Texts
    <3> QED BY <3>1, NothingLeft
  <2>3. Format!Then(<<>>, f[1]) = f[1]
    <3>1. 1 \in 1 .. Len(s) + 2 BY <1>1
    <3>2. f[1] \in Outcomes BY <3>1 DEF Composes
    <3>3. f[1] \in Texts => <<>> \o f[1] = f[1] BY ConcatEmptySeq DEF Texts
    <3> QED BY <3>2, <3>3 DEF Format!Then, Outcomes
  <2>4. Matches(AtFirst, 0, f, s)
    <3>1. 0 + 1 = 1 OBVIOUS
    <3> QED BY <2>1, <2>2, <2>3, <3>1 DEF Matches
  <2>5. t[0] = AtFirst /\ 0 \in 0 .. Len(s) BY <1>1 DEF Trace
  <2> QED BY <2>4, <2>5
<1>3. ASSUME NEW i \in 1 .. Len(s), \A j \in 0 .. i - 1 : j \in S PROVE i \in S
  <2> DEFINE c == t[i - 1]
  <2>1. i - 1 \in 0 .. i - 1 /\ i - 1 \in 0 .. Len(s) /\ i \in 0 .. Len(s) BY <1>1
  <2>2. Midway(c, i, f, s, given)
    <3>1. c \in Configs /\ Bounded(c, i - 1) BY <2>1, TraceBounded
    <3>2. Matches(c, i - 1, f, s) BY <1>3, <2>1
    <3> QED BY <3>1, <3>2 DEF Midway
  <2>3. c.where \in {"fetch", "index0", "index", "format", "refused"} BY <2>2 DEF Midway, Configs
  <2>4. t[i] = After(c, s, given, i) BY DEF Trace
  <2>5. c.where = "refused" => Matches(After(c, s, given, i), i, f, s)
    <3>1. SUFFICES ASSUME c.where = "refused" PROVE Matches(After(c, s, given, i), i, f, s) OBVIOUS
    <3>2. f[1] \in NoText BY <2>2, <3>1 DEF Midway, Matches
    <3>3. After(c, s, given, i).where = "refused"
      <4> HIDE DEF c
      <4> QED BY <3>1 DEF After, Refused, Config
    <3> QED BY <3>2, <3>3 DEF Matches
  <2> HIDE DEF c
  <2>6. Matches(After(c, s, given, i), i, f, s)
    BY <2>2, <2>3, <2>5, FetchMatches, Index0Matches, IndexMatches, FormatMatches
  <2> QED BY <2>1, <2>4, <2>6
<1> HIDE DEF S
<1>4. \A i \in 0 .. Len(s) : i \in S BY <1>1, <1>2, <1>3, UpwardsAll
<1> QED BY <1>4 DEF S

-----------------------------------------------------------------------------
\* What a pass knows before a character: as much of its trace t.
LEMMA TraceAt ==
  ASSUME NEW s \in Formats, NEW given \in Arguments, NEW t, Trace(t, s, given), NEW i \in 1 .. Len(s)
  PROVE  /\ t[i - 1] \in Configs /\ t[i] \in Configs /\ t[i] = After(t[i - 1], s, given, i)
         /\ Bounded(t[i - 1], i - 1) /\ Bounded(t[i], i)
         /\ Extends(t[i].texts, t[Len(s)].texts) /\ Len(t[i].texts) < UInt16Max + 1
<1>1. s \in Texts /\ Len(s) < 3 * (UInt16Max + 1) /\ UInt16Max \in Nat
  BY FormatAssumption DEF Texts
<1>2. Len(s) \in Nat /\ i - 1 \in 0 .. Len(s) /\ i \in 0 .. Len(s) BY <1>1 DEF Texts
<1>3. t[i - 1] \in Configs /\ t[i] \in Configs /\ Bounded(t[i - 1], i - 1) /\ Bounded(t[i], i)
  BY <1>1, <1>2, TraceBounded
<1>4. t[i] = After(t[i - 1], s, given, i) BY DEF Trace
<1>5. Extends(t[i].texts, t[Len(s)].texts) BY <1>1, <1>2, TextsStay
<1>6. Len(t[i].texts) < UInt16Max + 1
  <2> DEFINE k == Len(t[i].texts)  b == t[i].from
  <2>1. k \in Nat /\ b \in 1 .. i + 1 /\ 3 * k <= b - 1 BY <1>3 DEF Configs, Bounded
  <2> HIDE DEF k, b
  <2>2. k < UInt16Max + 1 BY <1>1, <1>2, <2>1
  <2> QED BY <2>2 DEF k
<1> QED BY <1>3, <1>4, <1>5, <1>6

\* Nothing goes on behind what is refused.
LEMMA RefusedStays ==
  ASSUME NEW s \in Texts, NEW given, NEW t, Trace(t, s, given),
         NEW i \in 0 .. Len(s), t[i].where = "refused"
  PROVE  t[Len(s)].where = "refused"
<1> DEFINE S == {k \in 0 .. Len(s) : k >= i => t[k].where = "refused"}
<1>1. Len(s) \in Nat /\ i \in Nat BY DEF Texts
<1>2. 0 \in S
  <2>1. 0 >= i => 0 = i BY <1>1
  <2> QED BY <1>1, <2>1
<1>3. ASSUME NEW k \in 1 .. Len(s), \A j \in 0 .. k - 1 : j \in S PROVE k \in S
  <2>1. k - 1 \in 0 .. k - 1 /\ k \in 0 .. Len(s) /\ (k >= i => k = i \/ k - 1 >= i) BY <1>1
  <2>2. k - 1 >= i => t[k - 1].where = "refused" BY <1>3, <2>1
  <2>3. t[k] = After(t[k - 1], s, given, k) BY DEF Trace
  <2>4. t[k - 1].where = "refused" => t[k].where = "refused"
    <3> DEFINE c == t[k - 1]  d == t[k]
    <3>1. d = After(c, s, given, k) BY <2>3
    <3> HIDE DEF c, d
    <3>2. c.where = "refused" => d.where = "refused" BY <3>1 DEF After, Refused, Config
    <3> QED BY <3>2 DEF c, d
  <2> QED BY <2>1, <2>2, <2>4
<1> HIDE DEF S
<1>4. \A k \in 0 .. Len(s) : k \in S BY <1>1, <1>2, <1>3, UpwardsAll
<1>5. Len(s) \in 0 .. Len(s) /\ Len(s) >= i BY <1>1
<1> QED BY <1>4, <1>5 DEF S

\* An item that does not end.
LEMMA NoEnd ==
  ASSUME NEW s \in Texts, NEW given, NEW f, Composes(f, s, given), NEW p \in 1 .. Len(s),
         s[p] = Format!Opening, ~Doubled(s, p), \A k \in p + 1 .. Len(s) : s[k] # Format!Closing
  PROVE  f[p] \in NoText
<1>1. Len(s) \in Nat BY DEF Texts
<1>2. \A k \in p .. Len(s) : k = p \/ k \in p + 1 .. Len(s) BY <1>1
<1>3. \A k \in p .. Len(s) : s[k] # Format!Closing BY <1>2, CharactersApart
<1>4. Closings(s, p) = {} BY <1>3 DEF Closings
<1>5. f[p] = Unclosed(s, p) BY <1>4 DEF Composes
<1> QED BY <1>5 DEF Unclosed, NoText

\* .NET refuses a format that ends in an item, too.
LEMMA EndsInItem ==
  ASSUME NEW s \in Texts, NEW given, NEW f, Composes(f, s, given), NEW c,
         c.where \in {"index0", "index", "format"}, Matches(c, Len(s), f, s)
  PROVE  f[1] \in NoText
<1> DEFINE n == Len(s)
<1>1. n \in Nat BY DEF Texts
<1>2. CASE c.where = "index0"
  <2>1. n \in 1 .. Len(s) /\ s[n] = Format!Opening
        /\ f[1] = Format!Then(c.out \o SubSeq(s, c.from, n - 1), f[n])
    BY <1>1, <1>2 DEF Matches
  <2>2. ~Doubled(s, n) BY <1>1 DEF Doubled
  <2>3. \A k \in n + 1 .. Len(s) : s[k] # Format!Closing BY <1>1
  <2>4. f[n] \in NoText BY <2>1, <2>2, <2>3, NoEnd
  <2> QED BY <2>1, <2>4, ThenNone
<1>3. ASSUME NEW p, NEW q, ItemStarts(c, p, q, f, s), \A k \in q .. n : s[k] # Format!Closing, q <= n + 1
      PROVE  f[1] \in NoText
  <2>1. /\ p \in 1 .. Len(s) /\ s[p] = Format!Opening /\ q \in Nat /\ p + 2 <= q
        /\ f[1] = Format!Then(c.out, f[p]) /\ AllDigits(s, p + 1, q - 1)
    BY <1>3 DEF ItemStarts
  <2>2. p + 1 \in p + 1 .. q - 1 /\ \A k \in p + 1 .. Len(s) : k \in p + 1 .. q - 1 \/ k \in q .. n
    BY <1>1, <2>1
  <2>3. ~Doubled(s, p) BY <2>1, <2>2, DigitIs DEF Doubled, AllDigits
  <2>4. \A k \in p + 1 .. Len(s) : s[k] # Format!Closing
    BY <1>3, <2>1, <2>2, DigitIs DEF AllDigits
  <2>5. f[p] \in NoText BY <2>1, <2>3, <2>4, NoEnd
  <2> QED BY <2>1, <2>5, ThenNone
<1>4. CASE c.where = "index"
  <2>1. PICK p : ItemStarts(c, p, n + 1, f, s) BY <1>4 DEF Matches
  <2>2. n + 1 <= n + 1 /\ \A k \in n + 1 .. n : s[k] # Format!Closing BY <1>1
  <2> QED BY <2>1, <2>2, <1>3
<1>5. CASE c.where = "format"
  <2>1. PICK p, q : FormatStarts(c, p, q, n, f, s) BY <1>5 DEF Matches
  <2>2. ItemStarts(c, p, q, f, s) /\ q <= n /\ \A k \in q .. n : s[k] # Format!Closing
    BY <2>1 DEF FormatStarts
  <2>3. q \in Nat BY <2>2 DEF ItemStarts
  <2>4. q <= n + 1 BY <1>1, <2>2, <2>3
  <2> QED BY <2>2, <2>4, <1>3
<1> QED BY <1>2, <1>4, <1>5

LEMMA WholeIs ==
  ASSUME NEW s \in Formats, NEW given \in Arguments, NEW t, Trace(t, s, given)
  PROVE  /\ t[Len(s)].where = "fetch" /\ Format!Composite(s, given) # Format!Other
              => Whole(t, s) = Format!Composite(s, given)
         /\ t[Len(s)].where # "fetch" => Format!Composite(s, given) \in NoText
<1> DEFINE n == Len(s)
           c == t[n]
           r == Format!Composite(s, given)
<1>1. s \in Texts /\ Len(given) \in Nat /\ Len(given) <= UInt16Max
  BY FormatAssumption DEF Texts
<1>2. n \in Nat /\ n \in 0 .. Len(s) BY <1>1 DEF Texts
<1>3. PICK f : Composes(f, s, given) BY <1>1, CompositeIs
<1>4. f[1] = r /\ f[n + 1] = <<>> BY <1>3 DEF Composes
<1>5. CASE r = Format!Other BY <1>5 DEF NoText
<1>6. CASE r # Format!Other
  <2>1. \A i \in 0 .. Len(s) : Matches(t[i], i, f, s) BY <1>1, <1>3, <1>4, <1>6, TraceMatches
  <2>2. Matches(c, n, f, s) BY <1>2, <2>1
  <2>3. c \in Configs BY <1>2 DEF Trace
  <2>4. c.where \in {"fetch", "index0", "index", "format", "refused"} BY <2>3 DEF Configs
  <2>5. c.where = "fetch" => Whole(t, s) = r
    <3>1. SUFFICES ASSUME c.where = "fetch" PROVE Whole(t, s) = r OBVIOUS
    <3>2. r = Format!Then(Whole(t, s), <<>>) BY <1>4, <2>2, <3>1 DEF Matches, Whole
    <3>3. Whole(t, s) \in Texts
      <4> DEFINE b == c.from
      <4>1. c.out \in Texts /\ b \in Nat \ {0} BY <2>3 DEF Configs
      <4> HIDE DEF b
      <4>2. b \in Int /\ 1 <= b /\ n \in Int /\ n <= Len(s) BY <1>2, <4>1
      <4>3. SubSeq(s, b, n) \in Texts BY <1>1, <4>2, PartIs
      <4> QED BY <4>1, <4>3, ConcatProperties DEF Texts, Whole, b
    <3>4. <<>> \notin {Format!Bad, Format!Other} BY DEF Format!Bad, Format!Other
    <3>5. Whole(t, s) \o <<>> = Whole(t, s) BY <3>3, ConcatEmptySeq DEF Texts
    <3> QED BY <3>2, <3>4, <3>5 DEF Format!Then
  <2>6. c.where = "refused" => r \in NoText BY <1>4, <2>2 DEF Matches
  <2>7. c.where \in {"index0", "index", "format"} => r \in NoText
    BY <1>1, <1>3, <1>4, <2>2, EndsInItem
  <2> QED BY <2>4, <2>5, <2>6, <2>7
<1> QED BY <1>5, <1>6
-----------------------------------------------------------------------------
LEMMA CarriedOn ==
  ASSUME NEW c, NEW d, NEW e, NEW w, Carried(c, e, w), d.texts = c.texts, d.out = c.out,
         UNCHANGED <<pass, itemCount, itemIndex, length, formatted, written3>>
  PROVE  Carried(d, e, w)'
BY DEF Carried

LEMMA ThirdCarries ==
  ASSUME NEW d, NEW e, NEW w, pass' = 3, e.where = "fetch", itemCount' = Len(e.texts),
         itemIndex' = Len(d.texts), formatted' = e.texts, length' = Len(w), written3' = d.out
  PROVE  Carried(d, e, w)'
BY DEF Carried

LEMMA TextCarried ==
  ASSUME NEW c \in Configs, NEW d, NEW e, NEW w, Carried(c, e, w), NEW u \in Texts,
         d.texts = c.texts, d.out = c.out \o u, pass \in 1 .. 3,
         Format!TokenWriter(u), Format!NoArgument, pass' = pass
  PROVE  Carried(d, e, w)'
<1>1. Len(c.out \o u) = Len(c.out) + Len(u)
  <2>1. c.out \in Texts BY DEF Configs
  <2> QED BY <2>1, ConcatProperties DEF Texts
<1>2. UNCHANGED <<itemCount, itemIndex, formatted>> BY DEF Format!NoArgument
<1>3. /\ length' = IF pass = 2 THEN length + Len(u) ELSE length
      /\ written3' = IF pass = 3 THEN written3 \o u ELSE written3
  BY DEF Format!TokenWriter
<1>4. pass = 1 \/ pass = 2 \/ pass = 3 OBVIOUS
<1>5. CASE pass = 1 BY <1>2, <1>3, <1>5 DEF Carried
<1>6. CASE pass = 2
  <2>1. /\ e.where = "fetch" /\ itemCount = Len(e.texts) /\ itemIndex = Len(c.texts)
        /\ formatted = c.texts /\ length = Len(c.out) /\ written3 = <<>>
    BY <1>6 DEF Carried
  <2>2. length' = Len(d.out) /\ written3' = <<>> BY <1>1, <1>3, <1>6, <2>1
  <2> QED BY <1>2, <1>6, <2>1, <2>2 DEF Carried
<1>7. CASE pass = 3
  <2>1. /\ e.where = "fetch" /\ itemCount = Len(e.texts) /\ itemIndex = Len(c.texts)
        /\ formatted = e.texts /\ length = Len(w) /\ written3 = c.out
    BY <1>7 DEF Carried
  <2>2. length' = Len(w) /\ written3' = d.out BY <1>3, <1>7, <2>1
  <2>3. /\ pass' = 3 /\ itemCount' = Len(e.texts) /\ itemIndex' = Len(d.texts)
        /\ formatted' = e.texts
    BY <1>2, <1>7, <2>1
  <2> QED BY <2>1, <2>2, <2>3, ThirdCarries
<1> QED BY <1>4, <1>5, <1>6, <1>7

\* The numbers of items do not wrap, and the third pass finds the text that the
\* second one made.
LEMMA ItemCarried ==
  ASSUME NEW c \in Configs, NEW d \in Configs, NEW e, NEW w, Carried(c, e, w), NEW fmt, NEW x \in Texts,
         x = Format!TextOf(args[argumentIndex + 1], fmt),
         d.texts = Append(c.texts, x), d.out = c.out \o x, pass \in 1 .. 3,
         Extends(d.texts, e.texts), Len(d.texts) < UInt16Max + 1,
         Format!ArgumentWriter(fmt), pass' = pass
  PROVE  Carried(d, e, w)'
<1> DEFINE u == c.texts  v == d.texts  o == c.out
<1>1. u \in Seq(Texts) /\ Len(u) \in Nat /\ o \in Texts /\ UInt16Max \in Nat
  BY FormatAssumption DEF Configs
<1>2. v = Append(u, x) /\ d.out = o \o x OBVIOUS
<1>3. v[Len(u) + 1] = x /\ Len(v) = Len(u) + 1 /\ Len(u) + 1 \in 1 .. Len(v)
  <2> HIDE DEF u, v
  <2> QED BY <1>1, <1>2, AppendProperties
<1>4. Len(o \o x) = Len(o) + Len(x) BY <1>1, ConcatProperties DEF Texts
<1>5. Format!Count(Len(u)) = Len(v)
  <2> DEFINE k == Len(u)  m == UInt16Max + 1
             j == k + 1
  <2>1. j \in Int /\ 0 <= j /\ m \in Nat \ {0} /\ j < m /\ Len(v) = j BY <1>1, <1>3
  <2> HIDE DEF j, m, v
  <2>2. j % m = j BY <2>1, SmallRemainder
  <2> QED BY <2>1, <2>2 DEF Format!Count, j, m
<1>6. e.texts[Len(u) + 1] = x BY <1>3 DEF Extends
<1> HIDE DEF u, v, o
<1>7. CASE pass = 1
  <2>1. itemCount' = Format!Count(itemCount) /\ UNCHANGED <<formatted, length, itemIndex, written3>>
    BY <1>7 DEF Format!ArgumentWriter
  <2>2. itemCount = Len(u) /\ itemIndex = 0 /\ length = 0 /\ formatted = <<>> /\ written3 = <<>>
    BY <1>7 DEF Carried, u
  <2> QED BY <1>5, <1>7, <2>1, <2>2 DEF Carried, v
<1>8. CASE pass = 2
  <2>1. /\ formatted' = Append(formatted, x) /\ length' = length + Len(x)
        /\ itemIndex' = Format!Count(itemIndex) /\ UNCHANGED <<itemCount, written3>>
    BY <1>8 DEF Format!ArgumentWriter
  <2>2. /\ e.where = "fetch" /\ itemCount = Len(e.texts) /\ itemIndex = Len(u)
        /\ formatted = u /\ length = Len(o) /\ written3 = <<>>
    BY <1>8 DEF Carried, u, o
  <2>3. formatted' = v /\ length' = Len(o \o x) /\ itemIndex' = Len(v) BY <1>2, <1>4, <1>5, <2>1, <2>2
  <2> QED BY <1>2, <1>8, <2>1, <2>2, <2>3 DEF Carried, v
<1>9. CASE pass = 3
  <2>1. /\ written3' = written3 \o formatted[itemIndex + 1]
        /\ itemIndex' = Format!Count(itemIndex) /\ UNCHANGED <<itemCount, formatted, length>>
    BY <1>9 DEF Format!ArgumentWriter
  <2>2. /\ e.where = "fetch" /\ itemCount = Len(e.texts) /\ itemIndex = Len(u)
        /\ formatted = e.texts /\ length = Len(w) /\ written3 = o
    BY <1>9 DEF Carried, u, o
  <2>3. written3' = o \o x /\ itemIndex' = Len(v) BY <1>5, <1>6, <2>1, <2>2
  <2>4. written3' = d.out BY <1>2, <2>3
  <2>5. /\ pass' = 3 /\ itemCount' = Len(e.texts) /\ itemIndex' = Len(d.texts)
        /\ formatted' = e.texts /\ length' = Len(w)
    BY <1>9, <2>1, <2>2, <2>3 DEF v
  <2> QED BY <2>2, <2>4, <2>5, ThirdCarries
<1> QED BY <1>7, <1>8, <1>9

-----------------------------------------------------------------------------
LEMMA ReadsAt ==
  ASSUME NEW t, InPass(t), index <= Len(format)
  PROVE  /\ index \in 1 .. Len(format) /\ format[index] \in Characters
         /\ Format!ch = format[index] /\ format \in Texts /\ Len(format) \in Nat
<1>1. format \in Texts BY FormatAssumption DEF InPass, Texts
<1>2. Len(format) \in Nat BY <1>1 DEF Texts
<1>3. index \in 1 .. Len(format) BY <1>2 DEF InPass, Passing
<1>4. format[index] \in Characters BY <1>1, <1>3 DEF Texts
<1> QED BY <1>1, <1>2, <1>3, <1>4 DEF Format!ch

LEMMA NulBehind ==
  ASSUME NEW t, InPass(t)
  PROVE  Format!ch = Format!Nul <=> index = Len(format) + 1
<1>1. format \in Texts BY FormatAssumption DEF InPass, Texts
<1>2. Len(format) \in Nat /\ index \in 1 .. Len(format) + 1 BY <1>1 DEF Texts, InPass, Passing
<1>3. CASE index <= Len(format)
  <2>1. format[index] \in Characters /\ Format!ch = format[index] BY <1>3, ReadsAt
  <2>2. Format!ch # Format!Nul BY <2>1, FormatAssumption
  <2> QED BY <1>2, <1>3, <2>2
<1>4. CASE ~(index <= Len(format))
  <2>1. Format!ch = Format!Nul BY <1>4 DEF Format!ch
  <2> QED BY <1>2, <1>4, <2>1
<1> QED BY <1>3, <1>4

LEMMA PassGoesOn ==
  ASSUME NEW t, NEW i, NEW s, NEW given, Before(t, i, s, given),
         Format!Read(state), pass' = pass, StandsAt(t[i])', Carried(t[i], t[Len(s)], Whole(t, s))'
  PROVE  Trace(t, format', args') /\ Passing(t)'
<1>1. /\ format = s /\ args = given /\ index = i /\ i \in 1 .. Len(s) /\ Trace(t, s, given)
      /\ pass \in 1 .. 3 /\ s \in Texts
  BY FormatAssumption DEF Before, InPass, Passing, Texts
<1>2. format' = s /\ args' = given /\ index' = i + 1 BY <1>1 DEF Format!Read
<1>3. Len(s) \in Nat /\ index' \in 1 .. Len(s) + 1 /\ index' - 1 = i BY <1>1, <1>2 DEF Texts
<1> QED BY <1>1, <1>2, <1>3 DEF Passing

\* What a pass knows before a character, and where its trace goes.
LEMMA Standing ==
  ASSUME NEW t, NEW i, NEW s, NEW given, Before(t, i, s, given)
  PROVE  /\ s \in Texts /\ s \in Formats /\ given \in Arguments /\ Trace(t, s, given)
         /\ Len(s) \in Nat /\ i \in Nat \ {0} /\ i \in 1 .. Len(s)
         /\ Format!ch = s[i] /\ Format!ch # Format!Nul /\ pass \in 1 .. 3
         /\ t[i - 1] \in Configs /\ t[i] \in Configs /\ t[i] = After(t[i - 1], s, given, i)
         /\ Bounded(t[i - 1], i - 1)
         /\ Extends(t[i].texts, t[Len(s)].texts) /\ Len(t[i].texts) < UInt16Max + 1
         /\ StandsAt(t[i - 1]) /\ Carried(t[i - 1], t[Len(s)], Whole(t, s))
<1>1. /\ format = s /\ args = given /\ index = i /\ i \in 1 .. Len(s) /\ InPass(t)
  BY DEF Before
<1>2. s \in Formats /\ given \in Arguments /\ Trace(t, s, given) /\ Passing(t) BY <1>1 DEF InPass
<1>3. s \in Texts BY <1>2, FormatAssumption DEF Texts
<1>4. Len(s) \in Nat /\ i \in Nat \ {0} /\ i <= Len(s) /\ i # Len(s) + 1 BY <1>1, <1>3 DEF Texts
<1>5. Format!ch = s[i] BY <1>1, <1>4, ReadsAt
<1>6. Format!ch # Format!Nul BY <1>1, <1>4, NulBehind
<1>7. StandsAt(t[i - 1]) /\ Carried(t[i - 1], t[Len(s)], Whole(t, s)) /\ pass \in 1 .. 3
  BY <1>1, <1>2 DEF Passing
<1> QED BY <1>1, <1>2, <1>3, <1>4, <1>5, <1>6, <1>7, TraceAt

\* A step that neither writes nor ends an item.
LEMMA PassReads ==
  ASSUME NEW t, NEW i, NEW s, NEW given, Before(t, i, s, given),
         Format!Read(state), pass' = pass, Format!Nothing, StandsAt(t[i])',
         t[i].texts = t[i - 1].texts, t[i].out = t[i - 1].out
  PROVE  Trace(t, format', args') /\ Passing(t)'
<1>1. Carried(t[i - 1], t[Len(s)], Whole(t, s)) BY Standing
<1>2. UNCHANGED <<itemCount, itemIndex, length, formatted, written3>>
  BY DEF Format!Nothing, Format!NoArgument
<1>3. Carried(t[i], t[Len(s)], Whole(t, s))' BY <1>1, <1>2, CarriedOn
<1> QED BY <1>3, PassGoesOn

LEMMA PassWrites ==
  ASSUME NEW t, NEW i, NEW s, NEW given, Before(t, i, s, given), NEW k \in 1 .. 2,
         Format!Read(state), pass' = pass, Format!NoArgument, StandsAt(t[i])',
         Format!TokenWriter(Format!Text(start, index - k)),
         t[i].texts = t[i - 1].texts, t[i].out = t[i - 1].out \o SubSeq(s, t[i - 1].from, i - k)
  PROVE  Trace(t, format', args') /\ Passing(t)'
<1> DEFINE c == t[i - 1]
           u == SubSeq(s, c.from, i - k)
<1>1. /\ Carried(c, t[Len(s)], Whole(t, s)) /\ c \in Configs /\ StandsAt(c)
      /\ s \in Texts /\ Len(s) \in Nat /\ i \in Nat \ {0} /\ i <= Len(s) /\ pass \in 1 .. 3
  BY Standing
<1>2. u \in Texts
  <2> DEFINE b == c.from
  <2>1. b \in Nat \ {0} BY <1>1 DEF Configs
  <2> HIDE DEF b
  <2>2. b \in Int /\ 1 <= b /\ i - k \in Int /\ i - k <= Len(s) BY <1>1, <2>1
  <2> QED BY <1>1, <2>2, PartIs DEF b
<1>3. Format!Text(start, index - k) = u BY <1>1 DEF Format!Text, Before, StandsAt
<1>4. Format!TokenWriter(u) BY <1>3
<1> HIDE DEF c, u
<1>5. t[i].out = c.out \o u /\ t[i].texts = c.texts BY DEF c, u
<1>6. Carried(t[i], t[Len(s)], Whole(t, s))' BY <1>1, <1>2, <1>4, <1>5, TextCarried
<1> QED BY <1>6, PassGoesOn

-----------------------------------------------------------------------------
\* Each step of a pass is one of its trace.
LEMMA FetchMoves ==
  ASSUME NEW t, NEW i, NEW s, NEW given, Before(t, i, s, given), Format!Fetch
  PROVE  Trace(t, format', args') /\ Passing(t)'
<1> DEFINE c == t[i - 1]  d == t[i]
<1>1. d = After(c, s, given, i) /\ Format!ch = s[i] /\ StandsAt(c) BY Standing
<1>2. state = "fetch" /\ Format!Read(state) /\ Format!Nothing /\ UNCHANGED <<pass, start, formatStart>>
  BY DEF Format!Fetch, Format!Read
<1> HIDE DEF c, d
<1>3. c.where = "fetch" /\ c.from = start BY <1>1, <1>2 DEF StandsAt
<1>4. CASE s[i] = Format!Opening
  <2>1. /\ d.where = "index0" /\ d.from = c.from /\ d.argument = 0
        /\ d.texts = c.texts /\ d.out = c.out
    BY <1>1, <1>3, <1>4 DEF After, Config
  <2>2. state' = "index0" /\ argumentIndex' = 0 BY <1>1, <1>4 DEF Format!Fetch
  <2>3. StandsAt(d)' BY <1>2, <1>3, <2>1, <2>2 DEF StandsAt
  <2> QED BY <1>2, <2>1, <2>3, PassReads DEF c, d
<1>5. CASE s[i] # Format!Opening
  <2>1. d = c BY <1>1, <1>3, <1>5 DEF After
  <2>2. state' = "fetch" BY <1>1, <1>2, <1>5 DEF Format!Fetch
  <2>3. StandsAt(d)' BY <1>2, <1>3, <2>1, <2>2 DEF StandsAt
  <2>4. d.texts = c.texts /\ d.out = c.out BY <2>1
  <2> QED BY <1>2, <2>3, <2>4, PassReads DEF c, d
<1> QED BY <1>4, <1>5

\* The index with a further digit, if it is not refused.
LEMMA DigitAdds ==
  ASSUME NEW t, NEW i, NEW s, NEW given, Before(t, i, s, given),
         state \in {"index0", "index"}, Format!IsDigit(s[i])
  PROVE  /\ NewIndex(t[i - 1], s, i) = argumentIndex * 10 + Format!Digit(s[i])
         /\ NewIndex(t[i - 1], s, i) \in Nat
<1> DEFINE a == t[i - 1].argument  g == Format!Digit(s[i])
<1>1. t[i - 1] \in Configs /\ StandsAt(t[i - 1]) BY Standing
<1>2. a \in Nat /\ argumentIndex = a BY <1>1 DEF Configs, StandsAt
<1>3. g \in 0 .. 9 BY DigitIs
<1> HIDE DEF a, g
<1>4. a * 10 + g \in Nat BY <1>2, <1>3
<1> QED BY <1>2, <1>4 DEF NewIndex, a, g

LEMMA DigitMoves ==
  ASSUME NEW t, NEW i, NEW s, NEW given, Before(t, i, s, given),
         Format!FirstDigit \/ Format!NextDigit
  PROVE  Trace(t, format', args') /\ Passing(t)'
<1> DEFINE c == t[i - 1]  d == t[i]  x == NewIndex(c, s, i)
<1>1. d = After(c, s, given, i) /\ Format!ch = s[i] /\ StandsAt(c) BY Standing
<1>2. /\ state \in {"index0", "index"} /\ Format!Read(state) /\ Format!IsDigit(s[i])
      /\ argumentIndex' = argumentIndex * 10 + Format!Digit(s[i])
      /\ argumentIndex * 10 + Format!Digit(s[i]) <= UInt16Max
      /\ state' = "index" /\ UNCHANGED <<pass, start, formatStart>>
  BY <1>1 DEF Format!FirstDigit, Format!NextDigit, Format!AddDigit, Format!Read
<1>3. x = argumentIndex * 10 + Format!Digit(s[i]) /\ x \in Nat BY <1>2, DigitAdds
<1>4. argumentIndex' = x /\ x <= UInt16Max BY <1>2, <1>3
<1> HIDE DEF x
<1>5. ~(x > UInt16Max) BY <1>3, <1>4, FormatAssumption
<1> HIDE DEF c, d
<1>6. c.where = state /\ c.from = start BY <1>1 DEF StandsAt
<1>7. d = Config("index", c.from, c.formatFrom, x, c.texts,
                 IF c.where = "index0" THEN c.out \o SubSeq(s, c.from, i - 2) ELSE c.out)
  BY <1>1, <1>2, <1>5, <1>6 DEF After, x
<1>8. /\ d.where = "index" /\ d.from = c.from /\ d.argument = x /\ d.texts = c.texts
      /\ d.out = IF c.where = "index0" THEN c.out \o SubSeq(s, c.from, i - 2) ELSE c.out
  BY <1>7 DEF Config
<1>9. StandsAt(d)' BY <1>2, <1>4, <1>6, <1>8 DEF StandsAt
<1>10. CASE Format!FirstDigit
  <2>1. state = "index0" /\ Format!NoArgument /\ Format!TokenWriter(Format!Text(start, index - 2))
    BY <1>10 DEF Format!FirstDigit, Format!Read
  <2>2. d.out = c.out \o SubSeq(s, c.from, i - 2) BY <1>6, <1>8, <2>1
  <2>3. 2 \in 1 .. 2 OBVIOUS
  <2> QED BY <1>2, <1>8, <1>9, <2>1, <2>2, <2>3, PassWrites DEF c, d
<1>11. CASE Format!NextDigit
  <2>1. state = "index" /\ Format!Nothing BY <1>11 DEF Format!NextDigit, Format!Read
  <2>2. d.out = c.out BY <1>6, <1>8, <2>1
  <2> QED BY <1>2, <1>8, <1>9, <2>1, <2>2, PassReads DEF c, d
<1> QED BY <1>10, <1>11

LEMMA EscapedMoves ==
  ASSUME NEW t, NEW i, NEW s, NEW given, Before(t, i, s, given), Format!Escaped
  PROVE  Trace(t, format', args') /\ Passing(t)'
<1> DEFINE c == t[i - 1]  d == t[i]
<1>1. d = After(c, s, given, i) /\ Format!ch = s[i] /\ StandsAt(c) BY Standing
<1>2. /\ state = "index0" /\ Format!Read(state) /\ s[i] = Format!Opening
      /\ Format!TokenWriter(Format!Text(start, index - 1)) /\ Format!NoArgument
      /\ start' = index + 1 /\ state' = "fetch" /\ pass' = pass
  BY <1>1 DEF Format!Escaped, Format!Read
<1>3. ~Format!IsDigit(s[i]) BY <1>2, DigitIs
<1> HIDE DEF c, d
<1>4. c.where = "index0" BY <1>1, <1>2 DEF StandsAt
<1>5. /\ d.where = "fetch" /\ d.from = i + 1 /\ d.texts = c.texts
      /\ d.out = c.out \o SubSeq(s, c.from, i - 1)
  BY <1>1, <1>2, <1>3, <1>4 DEF After, Config
<1>6. start' = i + 1 BY <1>2 DEF Before
<1>7. StandsAt(d)' BY <1>2, <1>5, <1>6 DEF StandsAt
<1>8. 1 \in 1 .. 2 OBVIOUS
<1> QED BY <1>2, <1>5, <1>7, <1>8, PassWrites DEF c, d

\* The steps that read on where they are.
LEMMA SkippedMoves ==
  ASSUME NEW t, NEW i, NEW s, NEW given, Before(t, i, s, given),
         Format!Blank \/ Format!FormatGoesOn
  PROVE  Trace(t, format', args') /\ Passing(t)'
<1> DEFINE c == t[i - 1]  d == t[i]
<1>1. d = After(c, s, given, i) /\ Format!ch = s[i] /\ StandsAt(c) BY Standing
<1>2. /\ \/ state = "index0" /\ s[i] = Format!Space
         \/ state = "format" /\ s[i] # Format!Closing
      /\ Format!Read(state) /\ Format!Nothing
      /\ UNCHANGED <<pass, state, start, formatStart, argumentIndex>>
  BY <1>1 DEF Format!Blank, Format!FormatGoesOn, Format!Read
<1>3. s[i] = Format!Space => ~Format!IsDigit(s[i]) /\ s[i] # Format!Opening
  BY DigitIs, CharactersApart
<1> HIDE DEF c, d
<1>4. c.where = state BY <1>1 DEF StandsAt
<1>5. d = c BY <1>1, <1>2, <1>3, <1>4 DEF After
<1>6. StandsAt(d)' BY <1>1, <1>2, <1>5 DEF StandsAt
<1>7. d.texts = c.texts /\ d.out = c.out BY <1>5
<1> QED BY <1>2, <1>6, <1>7, PassReads DEF c, d

LEMMA FormatStartsMoves ==
  ASSUME NEW t, NEW i, NEW s, NEW given, Before(t, i, s, given), Format!FormatStarts
  PROVE  Trace(t, format', args') /\ Passing(t)'
<1> DEFINE c == t[i - 1]  d == t[i]
<1>1. d = After(c, s, given, i) /\ Format!ch = s[i] /\ StandsAt(c) BY Standing
<1>2. /\ state = "index" /\ s[i] = ":" /\ Format!Read(state) /\ Format!Nothing
      /\ formatStart' = index + 1 /\ state' = "format" /\ UNCHANGED <<pass, start, argumentIndex>>
  BY <1>1 DEF Format!FormatStarts, Format!Read
<1>3. ~Format!IsDigit(s[i]) BY <1>2, DigitIs
<1> HIDE DEF c, d
<1>4. c.where = "index" /\ c.from = start /\ c.argument = argumentIndex
  BY <1>1, <1>2 DEF StandsAt
<1>5. d = Config("format", c.from, i + 1, c.argument, c.texts, c.out)
  BY <1>1, <1>2, <1>3, <1>4 DEF After
<1>6. /\ d.where = "format" /\ d.from = c.from /\ d.formatFrom = i + 1 /\ d.argument = c.argument
      /\ d.texts = c.texts /\ d.out = c.out
  BY <1>5 DEF Config
<1>7. formatStart' = i + 1 BY <1>2 DEF Before
<1>8. StandsAt(d)' BY <1>2, <1>4, <1>6, <1>7 DEF StandsAt
<1> QED BY <1>2, <1>6, <1>8, PassReads DEF c, d

LEMMA ItemMoves ==
  ASSUME NEW t, NEW i, NEW s, NEW given, Before(t, i, s, given), Format!Item
  PROVE  Trace(t, format', args') /\ Passing(t)'
<1> DEFINE c == t[i - 1]  d == t[i]  e == t[Len(s)]
           fmt == IF state = "format" THEN Format!Text(formatStart, index - 1) ELSE <<>>
           x == ItemOfArgument(c, s, given, i)
<1>1. /\ d = After(c, s, given, i) /\ Format!ch = s[i] /\ StandsAt(c)
      /\ c \in Configs /\ d \in Configs /\ s \in Texts /\ Len(s) \in Nat /\ i \in Nat \ {0} /\ i <= Len(s)
      /\ given \in Arguments /\ pass \in 1 .. 3
      /\ Carried(c, e, Whole(t, s)) /\ Extends(d.texts, e.texts) /\ Len(d.texts) < UInt16Max + 1
  BY Standing
<1>2. /\ state \in {"index", "format"} /\ s[i] = Format!Closing /\ Format!Read(state)
      /\ Format!ArgumentWriter(fmt) /\ start' = index + 1 /\ state' = "fetch" /\ pass' = pass
  BY <1>1 DEF Format!Item, Format!Read
<1>3. ~Format!IsDigit(s[i]) BY <1>2, DigitIs
<1>4. format = s /\ args = given /\ index = i BY DEF Before
<1>5. c.where = state /\ c.argument = argumentIndex /\ (state = "format" => c.formatFrom = formatStart)
  BY <1>1, <1>2 DEF StandsAt
<1>6. ~(c.argument >= Len(given))
  <2> DEFINE a == c.argument  l == Len(given)
  <2>1. a \in Nat /\ l \in Nat BY <1>1, FormatAssumption DEF Configs
  <2>2. a < l BY <1>2, <1>4, <1>5 DEF Format!ArgumentWriter
  <2> HIDE DEF a, l
  <2>3. ~(a >= l) BY <2>1, <2>2
  <2> QED BY <2>3 DEF a, l
<1>7. x = Format!TextOf(args[argumentIndex + 1], fmt)
  BY <1>4, <1>5 DEF ItemOfArgument, Format!Text
<1>8. x \in Texts
  <2> DEFINE b == c.formatFrom
  <2>1. b \in Nat \ {0} BY <1>1 DEF Configs
  <2> HIDE DEF b
  <2>2. b \in Int /\ 1 <= b /\ i - 1 \in Int /\ i - 1 <= Len(s) BY <1>1, <2>1
  <2>3. SubSeq(s, b, i - 1) \in Texts /\ <<>> \in Texts BY <1>1, <2>2, PartIs DEF Texts
  <2>4. (IF c.where = "format" THEN SubSeq(s, c.formatFrom, i - 1) ELSE <<>>) \in Texts
    BY <2>3 DEF b
  <2> QED BY <2>4, TextOfIs DEF ItemOfArgument
<1> HIDE DEF c, d, e, x, fmt
<1>9. d = Config("fetch", i + 1, c.formatFrom, c.argument, Append(c.texts, x), c.out \o x)
  BY <1>1, <1>2, <1>3, <1>5, <1>6, CharactersApart DEF After, x
<1>10. d.where = "fetch" /\ d.from = i + 1 /\ d.texts = Append(c.texts, x) /\ d.out = c.out \o x
  BY <1>9 DEF Config
<1>11. StandsAt(d)' BY <1>2, <1>4, <1>10 DEF StandsAt
<1>12. Carried(d, e, Whole(t, s))'
  <2> DEFINE w == Whole(t, s)
  <2>1. Carried(c, e, w) BY <1>1
  <2> HIDE DEF w
  <2>2. Carried(d, e, w)' BY <1>1, <1>2, <1>7, <1>8, <1>10, <2>1, ItemCarried
  <2> QED BY <2>2 DEF w
<1> QED BY <1>2, <1>11, <1>12, PassGoesOn DEF d, e

\* The end of a pass: the next one begins, or the string is done.
LEMMA EndMoves ==
  ASSUME NEW t, NEW s, NEW given, format = s, args = given, InPass(t), Format!EndPass
  PROVE  FormatInv'
<1> DEFINE n == Len(s)  e == t[n]  w == Whole(t, s)  u == SubSeq(s, e.from, n)
<1>1. s \in Formats /\ given \in Arguments /\ s \in Texts /\ n \in Nat /\ n \in 0 .. Len(s)
  BY FormatAssumption DEF InPass, Texts
<1>2. index = n + 1 /\ (n + 1) - 1 = n /\ state = "fetch" BY <1>1, NulBehind DEF Format!EndPass
<1>3. Trace(t, s, given) /\ StandsAt(e) /\ Carried(e, e, w) /\ pass \in 1 .. 3
  BY <1>2 DEF InPass, Passing
<1>4. e.where = "fetch" /\ e.from = start BY <1>2, <1>3 DEF StandsAt
<1>5. e \in Configs BY <1>1, <1>3 DEF Trace
<1>6. u \in Texts
  <2> DEFINE b == e.from
  <2>1. b \in Nat \ {0} BY <1>5 DEF Configs
  <2> HIDE DEF b
  <2>2. b \in Int /\ 1 <= b /\ n \in Int /\ n <= Len(s) BY <1>1, <2>1
  <2> QED BY <1>1, <2>2, PartIs DEF b
<1>7. Format!Text(start, index - 1) = u BY <1>2, <1>4 DEF Format!Text
<1>8. w = e.out \o u BY DEF Whole
<1>9. /\ length' = IF pass = 2 THEN length + Len(u) ELSE length
      /\ written3' = IF pass = 3 THEN written3 \o u ELSE written3
      /\ format' = s /\ args' = given /\ UNCHANGED <<state, itemCount, formatted>>
  BY <1>7 DEF Format!EndPass, Format!TokenWriter
<1>10. CASE pass = 3
  <2>1. result' = "done" /\ itemIndex' = itemIndex BY <1>10 DEF Format!EndPass
  <2>2. itemCount = Len(e.texts) /\ itemIndex = Len(e.texts) /\ length = Len(w) /\ written3 = e.out
    BY <1>3, <1>10 DEF Carried
  <2>3. written3' = w /\ length' = Len(w) /\ itemIndex' = itemCount'
    BY <1>8, <1>9, <1>10, <2>1, <2>2
  <2>4. Format!Composite(s, given) # Format!Other => w = Format!Composite(s, given)
    BY <1>1, <1>3, <1>4, WholeIs
  <2> HIDE DEF w
  <2>5. Format!FormatAgrees' BY <1>9, <2>1, <2>3, <2>4 DEF Format!FormatAgrees
  <2> QED BY <1>1, <1>9, <2>1, <2>5 DEF FormatInv
<1>11. CASE pass # 3
  <2>1. pass' = pass + 1 /\ index' = 1 /\ start' = 1 /\ itemIndex' = 0 /\ result' = "running"
    BY <1>11 DEF Format!EndPass
  <2>2. t[0] = AtFirst BY <1>3 DEF Trace
  <2>3. AtFirst.where = "fetch" /\ AtFirst.from = 1 /\ AtFirst.texts = <<>> /\ AtFirst.out = <<>>
    BY DEF AtFirst, Config
  <2>4. StandsAt(AtFirst)' BY <1>2, <1>9, <2>1, <2>3 DEF StandsAt
  <2>5. Len(<<>>) = 0 OBVIOUS
  <2>6. Carried(AtFirst, e, w)'
    <3>1. CASE pass = 1
      <4>1. itemCount = Len(e.texts) /\ formatted = <<>> /\ length = 0 /\ written3 = <<>>
        BY <1>3, <3>1 DEF Carried
      <4>2. /\ pass' = 2 /\ itemCount' = Len(e.texts) /\ formatted' = <<>> /\ length' = 0
            /\ written3' = <<>>
        BY <1>9, <2>1, <3>1, <4>1
      <4> HIDE DEF e, w
      <4> QED BY <1>4, <2>1, <2>3, <2>5, <4>2 DEF Carried
    <3>2. CASE pass = 2
      <4>1. /\ itemCount = Len(e.texts) /\ formatted = e.texts /\ length = Len(e.out)
            /\ written3 = <<>>
        BY <1>3, <3>2 DEF Carried
      <4>2. Len(w) = Len(e.out) + Len(u)
        <5>1. e.out \in Texts BY <1>5 DEF Configs
        <5> QED BY <1>6, <1>8, <5>1, ConcatProperties DEF Texts
      <4>3. length' = Len(w)
        <5> HIDE DEF e, w, u
        <5> QED BY <1>9, <3>2, <4>1, <4>2
      <4>4. /\ pass' = 3 /\ itemCount' = Len(e.texts) /\ formatted' = e.texts /\ written3' = <<>>
        BY <1>9, <2>1, <3>2, <4>1
      <4>5. itemIndex' = Len(AtFirst.texts) /\ written3' = AtFirst.out BY <2>1, <2>3, <2>5, <4>4
      <4> HIDE DEF e, w
      <4> QED BY <1>4, <4>3, <4>4, <4>5, ThirdCarries
    <3> QED BY <1>3, <1>11, <3>1, <3>2
  <2>7. Passing(t)'
    <3>1. pass' \in 1 .. 3 BY <1>3, <1>11, <2>1
    <3>2. index' \in 1 .. Len(s) + 1 /\ index' - 1 = 0 BY <1>1, <2>1
    <3> HIDE DEF e, w
    <3> QED BY <1>9, <2>2, <2>4, <2>6, <3>1, <3>2 DEF Passing, e, n, w
  <2>8. Format!FormatAgrees' BY <2>1 DEF Format!FormatAgrees
  <2> QED BY <1>1, <1>3, <1>9, <2>7, <2>8 DEF FormatInv
<1> QED BY <1>10, <1>11

\* What is refused is refused in the first pass, and by .NET.
LEMMA RejectMoves ==
  ASSUME NEW t, NEW s, NEW given, format = s, args = given, InPass(t), Format!Reject
  PROVE  FormatInv'
<1> DEFINE n == Len(s)  e == t[n]  r == Format!Composite(s, given)
<1>1. s \in Formats /\ given \in Arguments /\ s \in Texts /\ n \in Nat /\ n \in 0 .. Len(s)
      /\ index \in 1 .. n + 1
  BY FormatAssumption DEF InPass, Passing, Texts
<1>2. /\ Format!Invalid /\ format' = s /\ args' = given /\ pass' = pass /\ result' = "FormatException"
  BY DEF Format!Reject, Format!Read, Format!Refuse
<1>3. Trace(t, s, given) /\ StandsAt(t[index - 1]) /\ Carried(t[index - 1], e, Whole(t, s)) /\ pass \in 1 .. 3
  BY DEF InPass, Passing
<1>4. e.where # "fetch"
  <2>1. CASE index = n + 1
    <3>1. (n + 1) - 1 = n BY <1>1
    <3>2. e.where = state BY <1>3, <2>1, <3>1 DEF StandsAt
    <3> QED BY <1>2, <3>2 DEF Format!Invalid
  <2>2. CASE index # n + 1
    <3>1. PICK i : i = index OBVIOUS
    <3>2. i \in 1 .. n BY <1>1, <2>2, <3>1
    <3>3. Before(t, i, s, given) BY <3>1, <3>2 DEF Before
    <3> DEFINE c == t[i - 1]  d == t[i]
    <3>4. /\ d = After(c, s, given, i) /\ Format!ch = s[i] /\ s[i] # Format!Nul /\ StandsAt(c)
          /\ c \in Configs
      BY <3>3, Standing
    <3>5. state \in {"index0", "index"} /\ Format!IsDigit(s[i])
          /\ argumentIndex * 10 + Format!Digit(s[i]) > UInt16Max => NewIndex(c, s, i) > UInt16Max
      BY <3>3, DigitAdds
    <3>6. c.where = state /\ (state # "fetch" => c.argument = argumentIndex) BY <3>4 DEF StandsAt
    <3> HIDE DEF c, d
    <3>7. \/ state = "index0" /\ ~Format!IsDigit(s[i]) /\ s[i] \notin {Format!Opening, Format!Space}
          \/ state = "index" /\ ~Format!IsDigit(s[i]) /\ s[i] \notin {":", Format!Closing}
          \/ state \in {"index0", "index"} /\ Format!IsDigit(s[i]) /\ NewIndex(c, s, i) > UInt16Max
          \/ state \in {"index", "format"} /\ s[i] = Format!Closing /\ c.argument >= Len(given)
      BY <1>2, <3>4, <3>5, <3>6 DEF Format!Invalid
    <3>8. s[i] = Format!Closing => ~Format!IsDigit(s[i]) /\ s[i] # ":"
      BY DigitIs, CharactersApart
    <3>9. d = Refused(c) BY <3>4, <3>6, <3>7, <3>8 DEF After
    <3>10. d.where = "refused" BY <3>9 DEF Refused, Config
    <3>11. i \in 0 .. n BY <3>2
    <3>12. e.where = "refused" BY <1>1, <1>3, <3>10, <3>11, RefusedStays DEF d
    <3> QED BY <3>12
  <2> QED BY <2>1, <2>2
<1>5. pass = 1 BY <1>3, <1>4 DEF Carried
<1>6. r \in {Format!Bad, Format!Other} BY <1>1, <1>3, <1>4, WholeIs DEF NoText
<1> HIDE DEF e
<1>7. Format!FormatAgrees' BY <1>2, <1>5, <1>6 DEF Format!FormatAgrees
<1> QED BY <1>1, <1>2, <1>7 DEF FormatInv

LEMMA FormatInit ==
  ASSUME Format!Init
  PROVE  FormatInv
<1>1. /\ format \in Formats /\ args \in Arguments /\ pass = 1 /\ state = "fetch" /\ index = 1 /\ start = 1
      /\ itemCount = 0 /\ itemIndex = 0 /\ length = 0 /\ formatted = <<>> /\ written3 = <<>>
      /\ result = "running"
  BY DEF Format!Init
<1>2. format \in Texts /\ Len(format) \in Nat BY <1>1, FormatAssumption DEF Texts
<1>3. PICK t : Trace(t, format, args) BY <1>2, TraceExists
<1>4. t[0] = AtFirst /\ index - 1 = 0 BY <1>1, <1>3 DEF Trace
<1>5. AtFirst.where = "fetch" /\ AtFirst.from = 1 /\ AtFirst.texts = <<>> BY DEF AtFirst, Config
<1>6. Len(<<>>) = 0 OBVIOUS
<1>7. StandsAt(AtFirst) BY <1>1, <1>5 DEF StandsAt
<1> DEFINE e == t[Len(format)]  w == Whole(t, format)
<1>8. Carried(AtFirst, e, w)
  <2> HIDE DEF e, w
  <2> QED BY <1>1, <1>5, <1>6 DEF Carried
<1>9. Passing(t)
  <2>1. pass \in 1 .. 3 /\ index \in 1 .. Len(format) + 1 BY <1>1, <1>2
  <2> QED BY <1>4, <1>7, <1>8, <2>1 DEF Passing
<1>10. Format!FormatAgrees BY <1>1 DEF Format!FormatAgrees
<1> QED BY <1>1, <1>3, <1>9, <1>10 DEF FormatInv

LEMMA FormatNext ==
  ASSUME FormatInv, Format!Next
  PROVE  FormatInv'
<1>1. result = "running"
  BY DEF Format!Next, Format!Fetch, Format!EndPass, Format!FirstDigit, Format!Escaped,
         Format!Blank, Format!NextDigit, Format!FormatStarts, Format!FormatGoesOn,
         Format!Item, Format!Reject, Format!Read
<1>2. PICK t : InPass(t) BY <1>1 DEF FormatInv, InPass
<1>3. PICK s, given : format = s /\ args = given OBVIOUS
<1> DEFINE Moves ==
      \/ Format!Fetch \/ Format!FirstDigit \/ Format!NextDigit \/ Format!Escaped
      \/ Format!Blank \/ Format!FormatGoesOn \/ Format!FormatStarts \/ Format!Item
<1>4. Format!EndPass => FormatInv' BY <1>2, <1>3, EndMoves
<1>5. Format!Reject => FormatInv' BY <1>2, <1>3, RejectMoves
<1>6. ASSUME Moves PROVE FormatInv'
  <2>1. /\ Format!Read(state) /\ result' = result
    BY <1>6 DEF Format!Fetch, Format!FirstDigit, Format!Escaped, Format!Blank,
                Format!NextDigit, Format!FormatStarts, Format!FormatGoesOn, Format!Item,
                Format!Read
  <2>2. Format!ch # Format!Nul
    <3>1. ~Format!IsDigit(Format!Nul) BY DigitIs
    <3> QED BY <1>6, <3>1, CharactersApart
          DEF Format!Fetch, Format!FirstDigit, Format!Escaped, Format!Blank,
              Format!NextDigit, Format!FormatStarts, Format!FormatGoesOn, Format!Item
  <2>3. PICK i : i = index OBVIOUS
  <2>4. Before(t, i, s, given)
    <3>1. format \in Texts BY <1>2, FormatAssumption DEF InPass, Texts
    <3>2. Len(format) \in Nat /\ index \in 1 .. Len(format) + 1 BY <1>2, <3>1 DEF InPass, Passing, Texts
    <3>3. index # Len(format) + 1 BY <1>2, <2>2, NulBehind
    <3>4. index \in 1 .. Len(format) BY <3>2, <3>3
    <3> QED BY <1>2, <1>3, <2>3, <3>4 DEF Before
  <2>5. Trace(t, format', args') /\ Passing(t)'
    BY <1>6, <2>4, FetchMoves, DigitMoves, EscapedMoves, SkippedMoves, FormatStartsMoves, ItemMoves
  <2>6. format' = format /\ args' = args /\ result' = "running" BY <1>1, <2>1 DEF Format!Read
  <2>7. format' \in Formats /\ args' \in Arguments BY <1>2, <2>6 DEF InPass
  <2>8. Format!FormatAgrees' BY <2>6 DEF Format!FormatAgrees
  <2> QED BY <2>5, <2>7, <2>8 DEF FormatInv
<1> HIDE DEF Moves
<1>7. Moves \/ Format!EndPass \/ Format!Reject BY DEF Format!Next, Moves
<1> QED BY <1>4, <1>5, <1>6, <1>7

\* String.Format, for formats and arguments of any number and length (the items
\* counted in 16 bits): it returns what .NET does or throws where .NET throws; the
\* passes find the same items, and the string is as long as the second one said
\* (il2c_format_string__ and the asserts of String.c:1001).
THEOREM FormatsAgree == RuntimeSpec => []FormatAgrees
<1> DEFINE Inv == part = "format" => FormatInv
<1>1. RuntimeInit => Inv
  BY FormatInit DEF RuntimeInit
<1>2. Inv /\ [RuntimeNext]_allVars => Inv'
  <2> SUFFICES ASSUME Inv, [RuntimeNext]_allVars, part' = "format" PROVE FormatInv'
    OBVIOUS
  <2>1. part = "format" /\ FormatInv BY PartStays
  <2>2. Format!Next \/ UNCHANGED formatVars
    BY <2>1 DEF RuntimeNext, allVars
  <2>3. UNCHANGED formatVars => FormatInv'
    BY <2>1 DEF FormatInv, formatVars, Passing, StandsAt, Carried, Format!FormatAgrees
  <2> QED BY <2>1, <2>2, <2>3, FormatNext
<1>3. Inv => FormatAgrees
  BY DEF FormatInv, FormatAgrees
<1> QED BY <1>1, <1>2, <1>3, PTL DEF RuntimeSpec
=============================================================================
