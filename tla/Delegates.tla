------------------------------ MODULE Delegates ------------------------------
(***************************************************************************)
(* Delegates: Delegate.c, the Invoke that FunctionWriter writes, the       *)
(* handlers of a C# event, which threads change with the compare-exchange  *)
(* loop that the C# compiler writes, and those of AppDomain.c, which they  *)
(* change without one.                                                     *)
(***************************************************************************)
EXTENDS Integers, SequencesExt

CONSTANTS
  Threads,
  Handlers,        \* targets and methods
  DomainWriters,   \* threads that change the handlers of the AppDomain
  MaxDelegates     \* how many delegates are made

VARIABLES
  tables,          \* the method tables of the delegates: a delegate is its index
  field,           \* the delegates of the event and of the AppDomain
  kept,            \* what .NET would have in them
  pc, value,       \* of a thread: where it is, and its own delegate
  change,          \* the change it makes: [of, kind, read, made]
  call             \* the invocation it makes: [delegate, index, called, promised]

vars == <<tables, field, kept, pc, value, change, call>>

Fields == {"event", "domain"}
NULL == 0
Table(d) == IF d = NULL THEN <<>> ELSE tables[d]
NoChange == [of |-> "event", kind |-> "add", read |-> NULL, made |-> NULL]
NoCall == [delegate |-> NULL, index |-> 0, called |-> <<>>, promised |-> <<>>]

Init ==
  /\ tables = <<>>
  /\ field = [f \in Fields |-> NULL] /\ kept = [f \in Fields |-> <<>>]
  /\ pc = [t \in Threads |-> "body"] /\ value = [t \in Threads |-> NULL]
  /\ change = [t \in Threads |-> NoChange] /\ call = [t \in Threads |-> NoCall]
-----------------------------------------------------------------------------
\* Delegates never change: an operation makes a new one or returns an old one.
Make(table) == [tables |-> Append(tables, table), delegate |-> Len(tables) + 1]
Reuse(d) == [tables |-> tables, delegate |-> d]

Combine(a, b) ==
  IF a = NULL THEN Reuse(b)
  ELSE IF b = NULL THEN Reuse(a)
  ELSE Make(Table(a) \o Table(b))

Without(source, val) ==
  LET s == Table(source)
      v == Table(val)
      found == {i \in 0 .. Len(s) - Len(v) : SubSeq(s, i + 1, i + Len(v)) = v}
      last == CHOOSE i \in found : \A j \in found : j <= i
  IN IF source = NULL \/ val = NULL \/ found = {} THEN Reuse(source)
     ELSE IF Len(s) <= Len(v) THEN Reuse(NULL)
     ELSE Make(SubSeq(s, 1, last) \o SubSeq(s, last + Len(v) + 1, Len(s)))

Allocated(r) == Len(r.tables) <= MaxDelegates /\ tables' = r.tables

\* il2c_new_delegate, and a delegate that is combined with it.
New(t, h) ==
  LET r == Make(<<h>>)
  IN /\ pc[t] = "body" /\ Allocated(r)
     /\ value' = [value EXCEPT ![t] = r.delegate]
     /\ UNCHANGED <<field, kept, pc, change, call>>
Extend(t, d) ==
  LET r == Combine(value[t], d)
  IN /\ pc[t] = "body" /\ value[t] # NULL /\ d # value[t] /\ Len(tables[d]) = 1
     /\ Allocated(r) /\ value' = [value EXCEPT ![t] = r.delegate]
     /\ UNCHANGED <<field, kept, pc, change, call>>
-----------------------------------------------------------------------------
\* add and remove: the handlers are read, and the new ones made from them.
Begin(t, f, kind) ==
  /\ pc[t] = "body" /\ value[t] # NULL /\ (f = "domain" => t \in DomainWriters)
  /\ change' = [change EXCEPT ![t] = [of |-> f, kind |-> kind, read |-> field[f], made |-> NULL]]
  /\ pc' = [pc EXCEPT ![t] = "read"]
  /\ UNCHANGED <<tables, field, kept, value, call>>
Prepare(t) ==
  LET r == IF change[t].kind = "add" THEN Combine(change[t].read, value[t])
           ELSE Without(change[t].read, value[t])
  IN /\ pc[t] = "read" /\ Allocated(r)
     /\ change' = [change EXCEPT ![t].made = r.delegate]
     /\ pc' = [pc EXCEPT ![t] = "made"]
     /\ UNCHANGED <<field, kept, value, call>>

\* The lists of .NET: a removal takes the last occurrence out.
Taken(list, v) ==
  LET around == {n \in 0 .. Len(list) :
                   \E p \in 0 .. Len(list) : list = SubSeq(list, 1, p) \o v \o SubSeq(list, Len(list) - n + 1, Len(list))
                                             /\ p + Len(v) + n = Len(list)}
      n == CHOOSE n \in around : \A m \in around : n <= m
  IN IF around = {} THEN list
     ELSE SubSeq(list, 1, Len(list) - n - Len(v)) \o SubSeq(list, Len(list) - n + 1, Len(list))
Stored(t) ==
  LET c == change[t]
  IN /\ field' = [field EXCEPT ![c.of] = c.made]
     /\ kept' = [kept EXCEPT ![c.of] = IF c.kind = "add" THEN @ \o Table(value[t]) ELSE Taken(@, Table(value[t]))]
     /\ pc' = [pc EXCEPT ![t] = "body"] /\ change' = [change EXCEPT ![t] = NoChange]
     /\ UNCHANGED <<tables, value, call>>

\* Interlocked.CompareExchange, with what it returns compared to what was read:
\* the loop goes round with it.
\* Mutant: the field is stored without the comparison.
AlwaysSame(t) == TRUE
Same(t) == field["event"] = change[t].read
CompareExchange(t) ==
  /\ pc[t] = "made" /\ change[t].of = "event" /\ Same(t)
  /\ Stored(t)
Retry(t) ==
  /\ pc[t] = "made" /\ change[t].of = "event" /\ ~Same(t)
  /\ change' = [change EXCEPT ![t].read = field["event"]] /\ pc' = [pc EXCEPT ![t] = "read"]
  /\ UNCHANGED <<tables, field, kept, value, call>>
\* AppDomain: the field is stored.
Store(t) == pc[t] = "made" /\ change[t].of = "domain" /\ Stored(t)
-----------------------------------------------------------------------------
\* An event is raised when it has handlers; an exception that nothing caught
\* invokes the handlers of the AppDomain.
Raise(t, f) ==
  /\ pc[t] = "body" /\ field[f] # NULL
  /\ call' = [call EXCEPT ![t] = [delegate |-> field[f], index |-> 0, called |-> <<>>, promised |-> kept[f]]]
  /\ pc' = [pc EXCEPT ![t] = "invoke"]
  /\ UNCHANGED <<tables, field, kept, value, change>>
\* The loop of Invoke: do .. while (index < count)
Invoke(t) ==
  LET c == call[t]
      table == Table(c.delegate)
  IN /\ pc[t] = "invoke"
     /\ call' = [call EXCEPT ![t].called = Append(@, table[c.index + 1]), ![t].index = @ + 1]
     /\ pc' = [pc EXCEPT ![t] = IF c.index + 1 < Len(table) THEN "invoke" ELSE "returned"]
     /\ UNCHANGED <<tables, field, kept, value, change>>
Return(t) ==
  /\ pc[t] = "returned"
  /\ pc' = [pc EXCEPT ![t] = "body"] /\ call' = [call EXCEPT ![t] = NoCall]
  /\ UNCHANGED <<tables, field, kept, value, change>>

Next ==
  \E t \in Threads :
    \/ \E h \in Handlers : New(t, h)
    \/ \E d \in DOMAIN tables : Extend(t, d)
    \/ \E f \in Fields : Raise(t, f) \/ \E k \in {"add", "remove"} : Begin(t, f, k)
    \/ Prepare(t) \/ CompareExchange(t) \/ Retry(t) \/ Store(t) \/ Invoke(t) \/ Return(t)
Spec == Init /\ [][Next]_vars

\* Threads that add and remove handlers at once lose none, and an invocation
\* calls in order the handlers that there were when it began, whatever is added
\* or removed meanwhile (Delegate.c:47, Delegate.c:123, FunctionWriter.cs:740,
\* Interlocked.c:6).
DelegatesAgree ==
  /\ \A f \in Fields : Table(field[f]) = kept[f]
  /\ \A t \in Threads : /\ pc[t] = "invoke" => IsPrefix(call[t].called, call[t].promised)
                        /\ pc[t] = "returned" => call[t].called = call[t].promised
=============================================================================
