----------------------------- MODULE PipeProofs -----------------------------
(***************************************************************************)
(* Proofs about a configuration pipe (Pipe), for every set of type names  *)
(* and every initial Config.                                               *)
(***************************************************************************)
EXTENDS Pipe, TLAPS

(* What the three switches of pipe.go agree on: setConfigType lists every *)
(* type of validPipes, stores a Config type, and stores for each type the *)
(* Config that the case of CreateBlockReader and CreateBlockWriter for     *)
(* that type asserts.                                                      *)
LEMMA SwitchCovers == ValidPipes \subseteq DOMAIN SetConfigCases
BY DEF ValidPipes, SetConfigCases

LEMMA SwitchStores ==
  ASSUME NEW t \in DOMAIN SetConfigCases PROVE SetConfigCases[t] \in ConfigTypes
BY DEF SetConfigCases, ConfigTypes

LEMMA ReaderAgrees ==
  ASSUME NEW t \in DOMAIN ReaderCases
  PROVE  t \in DOMAIN SetConfigCases /\ SetConfigCases[t] = ReaderCases[t]
BY DEF ReaderCases, SetConfigCases

LEMMA WriterAgrees ==
  ASSUME NEW t \in DOMAIN WriterCases
  PROVE  t \in DOMAIN SetConfigCases /\ SetConfigCases[t] = WriterCases[t]
BY DEF WriterCases, SetConfigCases

(* The inductive invariant: besides the property, validate accepted only *)
(* a type of validPipes, and after setConfigType returned nil p.Config     *)
(* holds the Config its switch stores for the pipe's type.                 *)
IInv ==
  /\ TypeOK
  /\ validated => ptype \in ValidPipes
  /\ typed => ptype \in DOMAIN SetConfigCases /\ config = SetConfigCases[ptype]
  /\ PanicOnlyOnMisuse

LEMMA IInvInit == Init => IInv
<1> SUFFICES ASSUME Init PROVE IInv
  OBVIOUS
<1>1. ~validated /\ ~typed /\ validated \in BOOLEAN /\ typed \in BOOLEAN
  BY DEF Init
<1>. QED
  BY <1>1 DEF Init, IInv, TypeOK, PanicOnlyOnMisuse

LEMMA IInvStep == IInv /\ [Next]_vars => IInv'
<1> SUFFICES ASSUME IInv, [Next]_vars PROVE IInv'
  OBVIOUS
<1>1. CASE Validate
  BY <1>1 DEF Validate, IInv, TypeOK, PanicOnlyOnMisuse
<1>2. CASE SetConfigType
  <2>. USE DEF IInv, TypeOK, PanicOnlyOnMisuse
  <2>1. CASE typed' = FALSE /\ UNCHANGED <<config, panic>>
    BY <1>2, <2>1 DEF SetConfigType
  <2>2. CASE ptype \in DOMAIN SetConfigCases /\ typed' = FALSE /\ UNCHANGED <<config, panic>>
    BY <1>2, <2>2 DEF SetConfigType
  <2>3. CASE ptype \in DOMAIN SetConfigCases /\ typed' = TRUE
             /\ config' = SetConfigCases[ptype] /\ UNCHANGED panic
    BY <1>2, <2>3, SwitchStores DEF SetConfigType
  <2>4. CASE ptype \notin DOMAIN SetConfigCases /\ panic' = "switch" /\ UNCHANGED <<config, typed>>
    <3>1. ~validated
      BY <2>4, SwitchCovers
    <3>. QED
      BY <1>2, <2>4, <3>1 DEF SetConfigType
  <2>. QED
    BY <1>2, <2>1, <2>2, <2>3, <2>4 DEF SetConfigType
<1>3. CASE CreateBlockReader
  <2>. USE DEF IInv, TypeOK, PanicOnlyOnMisuse
  <2>1. CASE ptype \notin DOMAIN ReaderCases /\ UNCHANGED <<reader, panic>>
    BY <1>3, <2>1 DEF CreateBlockReader
  <2>2. CASE /\ ptype \in DOMAIN ReaderCases /\ config = ReaderCases[ptype]
             /\ (reader' = ptype \/ UNCHANGED reader) /\ UNCHANGED panic
    BY <1>3, <2>2 DEF CreateBlockReader
  <2>3. CASE /\ ptype \in DOMAIN ReaderCases /\ config /= ReaderCases[ptype]
             /\ panic' = "assert" /\ UNCHANGED reader
    <3>1. ~typed
      BY <2>3, ReaderAgrees
    <3>. QED
      BY <1>3, <2>3, <3>1 DEF CreateBlockReader
  <2>. QED
    BY <1>3, <2>1, <2>2, <2>3 DEF CreateBlockReader, Build
<1>4. CASE CreateBlockWriter
  <2>. USE DEF IInv, TypeOK, PanicOnlyOnMisuse
  <2>1. CASE ptype \notin DOMAIN WriterCases /\ UNCHANGED <<writer, panic>>
    BY <1>4, <2>1 DEF CreateBlockWriter
  <2>2. CASE /\ ptype \in DOMAIN WriterCases /\ config = WriterCases[ptype]
             /\ (writer' = ptype \/ UNCHANGED writer) /\ UNCHANGED panic
    BY <1>4, <2>2 DEF CreateBlockWriter
  <2>3. CASE /\ ptype \in DOMAIN WriterCases /\ config /= WriterCases[ptype]
             /\ panic' = "assert" /\ UNCHANGED writer
    <3>1. ~typed
      BY <2>3, WriterAgrees
    <3>. QED
      BY <1>4, <2>3, <3>1 DEF CreateBlockWriter
  <2>. QED
    BY <1>4, <2>1, <2>2, <2>3 DEF CreateBlockWriter, Build
<1>5. CASE UNCHANGED vars
  BY <1>5 DEF vars, IInv, TypeOK, PanicOnlyOnMisuse
<1>. QED
  BY <1>1, <1>2, <1>3, <1>4, <1>5 DEF Next

(* The pipe's state stays within its types for every configuration: in  *)
(* particular p.Config is only ever the parser's map or a Config type.    *)
THEOREM PipeTypeCorrect == Spec => []TypeOK
<1>1. IInv => TypeOK
  BY DEF IInv
<1>. QED
  BY IInvInit, IInvStep, <1>1, PTL DEF Spec

(* No panic of a well-used pipe: for every set of type names and every   *)
(* initial Config, a pipe that passed validate never panics in            *)
(* setConfigType, and one whose setConfigType returned nil never panics   *)
(* in CreateBlockReader or CreateBlockWriter - because the three switches *)
(* of pipe.go agree (SwitchCovers, ReaderAgrees, WriterAgrees).           *)
THEOREM NoPanicWhenValidated == Spec => []PanicOnlyOnMisuse
<1>1. IInv => PanicOnlyOnMisuse
  BY DEF IInv
<1>. QED
  BY IInvInit, IInvStep, <1>1, PTL DEF Spec
=============================================================================
