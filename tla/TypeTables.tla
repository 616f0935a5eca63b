------------------------------ MODULE TypeTables ------------------------------
(***************************************************************************)
(* Virtual calls, interface calls and casts: the tables that the writers   *)
(* make of a class (TypeInformation, TypeHelperWriter, TypeWriter), the    *)
(* calls and casts that the converters write, and il2c_isinst__.  A        *)
(* reference points to the vptr0 of an object or to one of its interface   *)
(* vptrs; each vtable starts with the distance between the two.            *)
(***************************************************************************)
EXTENDS Integers, SequencesExt

CONSTANTS
  Hierarchies,  \* [classes, interfaces]: a class [interfaces, methods] after its
                \* base; an interface is a negative number
  NoMethod

VARIABLES
  hierarchy, object,    \* the classes, and the class of the object
  static, at,           \* of the reference: its static type, and the vptr it points to
  op,                   \* the last operation
  operand, callee       \* the method it named, and the method it called

vars == <<hierarchy, object, static, at, op, operand, callee>>

Classes == DOMAIN hierarchy.classes
Interfaces == DOMAIN hierarchy.interfaces
Root == 1
Vptr0 == 0
Implements(c) == hierarchy.classes[c].interfaces
InterfacesOf(c) == UNION {Implements(k) : k \in 1 .. c}

\* A method is its class and index; an interface method is its interface and index.
Method(m) == hierarchy.classes[m[1]].methods[m[2]]
Methods(c) == [i \in DOMAIN hierarchy.classes[c].methods |-> <<c, i>>]
InterfaceMethod(m) == hierarchy.interfaces[m[1]][m[2]]
InterfaceMethods == UNION {{<<t, i>> : i \in DOMAIN hierarchy.interfaces[t]} : t \in Interfaces}

\* Base methods first, and derived methods first.
FromBase(c) == FlattenSeq([k \in 1 .. c |-> Methods(k)])
FromDerived(c) == FlattenSeq([k \in 1 .. c |-> Methods(c + 1 - k)])

NewSlot(m) == Method(m).slot = "newslot"
ReuseSlot(m) == Method(m).slot = "reuse"
IsVirtual(m) == Method(m).slot # "none" /\ ~(Method(m).final /\ NewSlot(m))
\* VirtualMethodSignatureComparer: the names and the numbers of parameters.
SameSignature(a, b) == a.name = b.name /\ a.arity = b.arity
\* The mangled name, with the types of the parameters.
FunctionName(a) == <<a.name, a.arity, a.types>>

\* The first method of each signature.
Distinct(s) ==
  FoldLeft(LAMBDA d, m : IF \E i \in DOMAIN d : SameSignature(Method(d[i]), Method(m))
                         THEN d ELSE Append(d, m), <<>>, s)
-----------------------------------------------------------------------------
\* OrderByMostOverrides: a newslot method and the methods that override it.
\* An override is of the last new slot of its name.
\* Mutant: of the first (FindIndex).
SlotsByFirst(c) ==
  LET Add(slots, m) ==
        LET same == {i \in DOMAIN slots : FunctionName(Method(slots[i][1])) = FunctionName(Method(m))}
        IN IF NewSlot(m) THEN Append(slots, <<m>>)
           ELSE [slots EXCEPT ![CHOOSE i \in same : \A j \in same : i <= j] = Append(@, m)]
  IN FoldLeft(Add, <<>>, SelectSeq(FromBase(c), IsVirtual))
Slots(c) ==
  LET Add(slots, m) ==
        LET same == {i \in DOMAIN slots : FunctionName(Method(slots[i][1])) = FunctionName(Method(m))}
        IN IF NewSlot(m) THEN Append(slots, <<m>>)
           ELSE [slots EXCEPT ![CHOOSE i \in same : \A j \in same : j <= i] = Append(@, m)]
  IN FoldLeft(Add, <<>>, SelectSeq(FromBase(c), IsVirtual))

\* A class without virtual methods of its own shares the table of its base,
\* which has the same entries.
Visible(m) == Method(m).visible
Layout(c) == SelectSeq([i \in DOMAIN Slots(c) |-> Slots(c)[i][1]], Visible)
Vtable(c) == SelectSeq([i \in DOMAIN Slots(c) |-> Slots(c)[i][Len(Slots(c)[i])]], Visible)

\* The field names of the layout: short for the last of its name.
ShortName(m) == <<"short", FunctionName(Method(m))>>
FullName(m) == <<"full", m>>
FieldNames(c) ==
  [i \in DOMAIN Layout(c) |->
     IF \E j \in DOMAIN Layout(c) :
          j > i /\ FunctionName(Method(Layout(c)[j])) = FunctionName(Method(Layout(c)[i]))
     THEN FullName(Layout(c)[i]) ELSE ShortName(Layout(c)[i])]

\* DeclaredAllInheritedMethods
Declared(c) ==
  Distinct(SelectSeq(FromDerived(c),
    LAMBDA m : \/ Method(m).slot # "none"
               \/ \E t \in Implements(m[1]) : \E i \in DOMAIN hierarchy.interfaces[t] :
                    SameSignature(hierarchy.interfaces[t][i], Method(m))))

\* CalculateImplementationMethods: an explicit implementation, or the last
\* override of the method that the implementing class sees.
Implementation(c, im) ==
  LET explicit == SelectSeq(Declared(c), LAMBDA m : im \in Method(m).overrides)
      same(m) == SameSignature(Method(m), InterfaceMethod(im))
      implementer == CHOOSE k \in 1 .. c : im[1] \in Implements(k) /\ \A j \in (k + 1) .. c : im[1] \notin Implements(j)
      base == SelectSeq(Distinct(SelectSeq(FromDerived(implementer), Visible)), same)[1]
      later == SelectSeq(FromBase(c), LAMBDA m : m[1] >= base[1] /\ same(m))
      overrides(m) == (IsVirtual(m) /\ ReuseSlot(m)) \/ m = base
      taken == {i \in DOMAIN later : \A j \in 1 .. i : overrides(later[j])}
  IN IF explicit # <<>> THEN explicit[1]
     ELSE later[CHOOSE i \in taken : \A j \in taken : j <= i]
-----------------------------------------------------------------------------
IsClass(t) == t \in Classes
IsAssignableFrom(lhs, rhs) ==
  \/ lhs = rhs
  \/ IsClass(lhs) /\ IsClass(rhs) /\ lhs <= rhs
  \/ lhs = Root
  \/ ~IsClass(lhs) /\ IsClass(rhs) /\ lhs \in InterfacesOf(rhs)

\* An object as il2c_get_uninitialized_object makes it.
Init ==
  /\ hierarchy \in Hierarchies
  /\ object \in Classes \ {Root} /\ static = object
  /\ at = Vptr0 /\ op = "new" /\ operand = NoMethod /\ callee = NoMethod

\* The vptr that a reference of a static type is read through.
Expected(t) == IF IsClass(t) THEN Vptr0 ELSE t
Usable == at = Expected(static) /\ op # "null"
Result(t, v, o) ==
  static' = t /\ at' = v /\ op' = o /\ operand' = NoMethod /\ callee' = NoMethod

\* GetRightExpression: an assignment, an argument or a result.
Assign(t) ==
  /\ Usable /\ t # static /\ IsAssignableFrom(t, static)
  /\ Result(t, IF ~IsClass(t) THEN t ELSE IF ~IsClass(static) THEN Vptr0 ELSE at, "assign")
  /\ UNCHANGED <<hierarchy, object>>

\* il2c_isinst__: the class of the object and its bases.
CastsTo(t) == IF IsClass(t) THEN t <= object ELSE t \in InterfacesOf(object)
\* castclass and isinst, statically where the type allows it; both return the
\* reference as it is when the type is a class.
Cast(t) ==
  /\ Usable /\ t # static
  /\ IF IsAssignableFrom(t, static) \/ CastsTo(t)
     THEN Result(t, IF IsClass(t) THEN at ELSE t, "cast")
     ELSE Result(t, at, "null")
  /\ UNCHANGED <<hierarchy, object>>

Called(m, called, o) ==
  operand' = m /\ callee' = called /\ op' = o /\ UNCHANGED <<hierarchy, object, static, at>>

\* The name of the field for m in the layout of c; a call through a field that
\* the layout of the reference does not have is C code that does not compile.
Field(c, m) ==
  LET named == SelectSeq(Slots(c), LAMBDA s : FunctionName(Method(s[1])) = FunctionName(Method(m)))
      slot == CHOOSE i \in DOMAIN named : Contains(named[i], m)
  IN IF slot = Len(named) THEN ShortName(named[slot][1]) ELSE FullName(named[slot][1])
Through(field, m, o) ==
  IF IsVirtual(m) /\ ~Method(m).final
  THEN \E i \in DOMAIN FieldNames(static) :
         FieldNames(static)[i] = field /\ Called(m, Vtable(object)[i], o)
  ELSE Called(m, m, "direct")
Member(m) == Usable /\ IsClass(static) /\ m[1] <= static /\ Visible(m)

\* callvirt of a method of a class: the field that the static type has for it.
CallVirtual(m) == Member(m) /\ Through(Field(static, m), m, "virtual")
\* ldvirtftn: the field that the declaring type has for it.
LoadVirtual(m) == Member(m) /\ Through(Field(m[1], m), m, "loaded")

\* callvirt of an interface method through a reference of the interface.
CallInterface(im) ==
  /\ Usable /\ static = im[1]
  /\ Called(im, Implementation(object, im), "interface")

\* callvirt of an interface method through a reference of a class becomes a
\* direct call of the method that the static type has for it.
CallDevirtualized(im) ==
  /\ Usable /\ IsClass(static) /\ im[1] \in InterfacesOf(static)
  /\ LET same(m) == SameSignature(Method(m), InterfaceMethod(im))
     IN /\ SelectSeq(Declared(static), same) # <<>>
        /\ Called(im, SelectSeq(Declared(static), same)[1], "devirtualized")

Next ==
  \/ \E t \in Classes \cup Interfaces : Assign(t) \/ Cast(t)
  \/ \E m \in Range(FromBase(object)) : CallVirtual(m) \/ LoadVirtual(m)
  \/ \E im \in InterfaceMethods : CallInterface(im) \/ CallDevirtualized(im)
Spec == Init /\ [][Next]_vars
-----------------------------------------------------------------------------
\* What ECMA-335 (I.12.2, II.12.2) promises.
AllMethods(c) == Range(Methods(c))
\* The last override of m: a new slot of the same name in between ends the search.
Overridden(m, c) ==
  LET alike == {n \in UNION {AllMethods(k) : k \in m[1] + 1 .. c} :
                  FunctionName(Method(n)) = FunctionName(Method(m)) /\ Method(n).slot # "none"}
      reached == {n \in alike : ReuseSlot(n) /\ \A x \in alike : NewSlot(x) => x[1] > n[1]}
  IN IF reached = {} THEN m ELSE CHOOSE n \in reached : \A x \in reached : x[1] <= n[1]
\* The class closest to the last one that declares the interface implements the
\* method, explicitly or with a virtual method of the name.
Explicit(k, im) == {m \in AllMethods(k) : im \in Method(m).overrides}
Implicit(k, im) ==
  {m \in AllMethods(k) : Visible(m) /\ FunctionName(Method(m)) = FunctionName(InterfaceMethod(im))}
Implementer(c, im) ==
  LET declares == {k \in 1 .. c : im[1] \in Implements(k)}
      below == {k \in 1 .. c : /\ \E d \in declares : k <= d
                               /\ Explicit(k, im) \cup Implicit(k, im) # {}}
  IN CHOOSE k \in below : \A j \in below : j <= k
Implemented(c, im) ==
  LET k == Implementer(c, im)
  IN IF Explicit(k, im) # {} THEN CHOOSE m \in Explicit(k, im) : TRUE
     ELSE Overridden(CHOOSE m \in Implicit(k, im) : TRUE, c)
\* A new slot of the name of m.
Hides(c, m) ==
  \E n \in AllMethods(c) : NewSlot(n) /\ FunctionName(Method(n)) = FunctionName(Method(m))
\* An explicit implementation which a derived class replaces implicitly.
Reimplemented(c, im) ==
  Explicit(Implementer(c, im), im) = {} /\ \E k \in 1 .. c : Explicit(k, im) # {}

\* Calls reach the methods that .NET calls, through any chain of assignments and
\* casts: the tables of the writers have the entries where the code of the
\* converters looks for them (TypeInformation.cs:459, CallConverters.cs:243).
DispatchAgrees ==
  /\ op = "virtual" => callee = Overridden(operand, object)
  /\ op = "loaded" /\ ~(\E c \in operand[1] + 1 .. static : Hides(c, operand))
       => callee = Overridden(operand, object)
  /\ op = "interface" /\ ~Reimplemented(object, operand) => callee = Implemented(object, operand)
  /\ op = "devirtualized" /\ object = static /\ operand[1] \in Implements(object)
       /\ Explicit(Implementer(object, operand), operand) = {} => callee = Implemented(object, operand)
  /\ (op = "null") <=> ~(IF IsClass(static) THEN static <= object ELSE static \in InterfacesOf(object))
  /\ op # "null" => at = Expected(static) \/ (op = "cast" /\ IsClass(static))
=============================================================================
