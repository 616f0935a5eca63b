------------------------------ MODULE MCTranslator ------------------------------
(***************************************************************************)
(* Model-checking instances of the translation of a method body: its       *)
(* control flow and the slots of its evaluation stack (DecodeContext), or  *)
(* its numeric code (NumericCode).  A behaviour is of one of the two.      *)
(***************************************************************************)
EXTENDS DecodeContext

CONSTANTS
  Part, NumericOpcodes, NumericDepth, Loaded, Stored, WellSigned, MaxSteps,
  Bits1, Bits2, Bits4, Bits8, PointerSize
VARIABLES part, stack, memory, branch, refused, steps

Numeric == INSTANCE NumericCode
  WITH Opcodes <- NumericOpcodes, MaxDepth <- NumericDepth
\* Integers of more bytes have more bits, and what that says of powers of two.
ASSUME NumericAssumption ==
  /\ Loaded \subseteq Numeric!Types /\ Stored \subseteq Numeric!Types
  /\ NumericDepth \in Nat /\ MaxSteps \in Nat /\ WellSigned \in BOOLEAN /\ PointerSize \in {4, 8}
  /\ Bits1 \in Nat /\ Bits2 \in Nat /\ Bits4 \in Nat /\ Bits8 \in Nat
  /\ 0 < Bits1 /\ Bits1 < Bits2 /\ Bits2 < Bits4 /\ Bits4 < Bits8
  /\ \A w \in {Bits1, Bits2, Bits4, Bits8} :
       /\ 2^(w - 1) \in Nat \ {0} /\ 2^w = 2 * 2^(w - 1)
       /\ \A v \in {Bits1, Bits2, Bits4, Bits8} :
            w < v => 2^(v - w) \in Nat /\ 2^v = 2^(v - w) * 2^w /\ 2^w <= 2^(v - 1)

NoHandlers == {<<>>}
\* A body without handlers, with a catch and with a finally handler at 3 that
\* protects 1 and 2.
HandlerChoice ==
  {<<>>,
   <<[tried |-> {1, 2}, kind |-> "catch", start |-> 3, type |-> "A"]>>,
   <<[tried |-> {1, 2}, kind |-> "finally", start |-> 3, type |-> "A"]>>}

numericVars == <<stack, memory, branch, refused, steps>>
allVars == <<vars, part, numericVars>>
TranslatorInit == Init /\ Numeric!Init /\ part \in Part
TranslatorNext ==
  \/ part = "flow" /\ Next /\ UNCHANGED <<part, numericVars>>
  \/ part = "numeric" /\ Numeric!Next /\ UNCHANGED <<part, vars>>
\* Nothing interrupts the decoder's loop.
TranslatorSpec ==
  /\ TranslatorInit /\ [][TranslatorNext]_allVars
  /\ WF_vars(part = "flow" /\ Decode)

\* The state has its type, and every C variable holds a value of its type
\* (DecodeContext, NumericCode).
TypesOK == TypeOK /\ Numeric!TypeOK
\* Every C variable of the stack holds what CIL has there (NumericCode).
StackAgrees == Numeric!StackAgrees
\* So does every location that was stored to (NumericCode).
MemoryAgrees == Numeric!MemoryAgrees
\* The C code branches where CIL does (NumericCode).
BranchesAgree == Numeric!BranchesAgree
\* The decoding of a body ends, loops or not.
DecodeEnds == part = "flow" ~> phase \in {"refused", "done", "run"}
=============================================================================
