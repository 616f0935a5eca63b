------------------------------- MODULE MCGcHeap -------------------------------
(* Model-checking instance of GcHeap: objects are model values, those of one  *)
(* class are interchangeable.                                                 *)
EXTENDS GcHeap

Symmetric == {p \in Permutations(Objects) :
                \A o \in Objects : o \in Finalizable <=> p[o] \in Finalizable}
=============================================================================
