-------------------------- MODULE ServerBootProofs --------------------------
(***************************************************************************)
(* Proofs about rootFunc of zstordb (ServerBoot), for every set of        *)
(* profile modes.                                                          *)
(***************************************************************************)
EXTENDS ServerBoot, TLAPS

(* What the three ways out of rootFunc leave behind: the deferred calls  *)
(* have run and the process is no longer running.                         *)
LEMMA ReturnEffect ==
  ASSUME TypeOK, NEW e \in {"error", "ok"}, ReturnWith(e) \/ PanicMain
  PROVE  /\ pc' \in {"returned", "panicked"} /\ exit' \in {"error", "ok", "panic"}
         /\ server' \in {"none", "closed"} /\ profiling' \in {"off", "stopped"}
BY DEF ReturnWith, PanicMain, TypeOK

LEMMA TypeInit == Init => TypeOK
<1> SUFFICES ASSUME Init PROVE TypeOK
  OBVIOUS
<1>1. errChan \in Seq({"err"}) /\ Len(errChan) <= 1
  BY DEF Init
<1>2. sigChan \in 0..1
  BY DEF Init
<1>3. notified \in BOOLEAN
  BY Zenon DEF Init
<1>. QED
  BY <1>1, <1>2, <1>3 DEF Init, TypeOK

LEMMA TypeStep == TypeOK /\ [Next]_vars => TypeOK'
<1> SUFFICES ASSUME TypeOK, [Next]_vars PROVE TypeOK'
  OBVIOUS
<1>. USE DEF TypeOK, Running
<1>1. CASE OpenDB
  BY <1>1, ReturnEffect DEF OpenDB
<1>2. CASE NewServer
  BY <1>2, ReturnEffect DEF NewServer
<1>3. CASE StartProfiler
  BY <1>3 DEF StartProfiler
<1>4. CASE ProfilerPanic
  BY <1>4 DEF ProfilerPanic
<1>5. CASE ProfileSetup
  <2>1. CASE cfg.profileMode = "" /\ pc' = "listen" /\ UNCHANGED <<exit, profiling, server>>
    BY <1>5, <2>1 DEF ProfileSetup
  <2>2. ASSUME NEW st \in StatResults,
               \/ st = "error" /\ ReturnWith("error")
               \/ st = "notexist" /\ (ReturnWith("error") \/ PanicMain)
               \/ st = "file" /\ ReturnWith("error")
               \/ st = "dir" /\ pc' = "listen" /\ profiling' = "started" /\ UNCHANGED <<exit, server>>
        PROVE  TypeOK'
    <3>1. CASE ReturnWith("error") \/ PanicMain
      BY <1>5, <3>1, ReturnEffect DEF ProfileSetup
    <3>2. CASE pc' = "listen" /\ profiling' = "started" /\ UNCHANGED <<exit, server>>
      BY <1>5, <3>2 DEF ProfileSetup
    <3>. QED
      BY <2>2, <3>1, <3>2
  <2>. QED
    BY <1>5, <2>1, <2>2 DEF ProfileSetup
<1>6. CASE Listen
  BY <1>6, ReturnEffect DEF Listen
<1>7. CASE ServeReturns
  BY <1>7 DEF ServeReturns
<1>8. CASE ServeSend
  BY <1>8 DEF ServeSend
<1>9. CASE SigInt
  BY <1>9 DEF SigInt
<1>10. CASE Select
  BY <1>10, ReturnEffect DEF Select
<1>11. CASE UNCHANGED vars
  BY <1>11 DEF vars
<1>. QED
  BY <1>1, <1>2, <1>3, <1>4, <1>5, <1>6, <1>7, <1>8, <1>9, <1>10, <1>11 DEF Next

(* Every reachable state of rootFunc's model is well typed; in particular *)
(* errChan and sigChan never hold more than their one buffered value.     *)
THEOREM BootTypeCorrect == Spec => []TypeOK
BY TypeInit, TypeStep, PTL DEF Spec

=============================================================================
