--------------------------- MODULE ListKeysProofs ---------------------------
(***************************************************************************)
(* Proofs about the key-listing stream (ListKeys), for every set of keys  *)
(* and every bound on the stream length.                                  *)
(***************************************************************************)
EXTENDS ListKeys, SequenceTheorems, TLAPS

(* A server stream is a finite sequence of keys or empty keys. *)
LEMMA StreamsAreSeqs ==
  ASSUME NEW s \in Streams
  PROVE  /\ s \in Seq(Keys \cup {NoKey})
         /\ \A i \in 1..Len(s) : s[i] \in Keys \cup {NoKey}
<1>1. PICK n \in 0..MaxKeys : s \in [1..n -> Keys \cup {NoKey}]
  BY DEF Streams
<1>2. n \in Nat
  BY <1>1, MaxKeysAssumption
<1>3. s \in Seq(Keys \cup {NoKey})
  BY <1>1, <1>2
<1>4. Len(s) = n
  BY <1>1, <1>2
<1>. QED
  BY <1>1, <1>3, <1>4

(* The result built for a received key is a well-formed result. *)
LEMMA ResultOfType ==
  ASSUME NEW k \in Keys \cup {NoKey}
  PROVE  ResultOf(k) \in Results
BY DEF ResultOf, Results, Errors, ErrNone

-----------------------------------------------------------------------------
LEMMA TypeInit == Init => TypeOK
<1> SUFFICES ASSUME Init PROVE TypeOK
  OBVIOUS
<1>1. srv \in Seq(Keys \cup {NoKey})
  BY StreamsAreSeqs DEF Init
<1>2. pos \in 0..Len(srv) /\ ch \in Seq(Results) /\ Len(ch) <= ChanCap
       /\ recvd \in Seq(Results)
  BY <1>1 DEF Init, ChanCap
<1>3. res \in Results
  BY DEF Init, Results, Errors, ErrNone
<1>. QED
  BY <1>2, <1>3 DEF Init, TypeOK

LEMMA TypeStep == TypeOK /\ [Next]_vars => TypeOK'
<1> SUFFICES ASSUME TypeOK, [Next]_vars PROVE TypeOK'
  OBVIOUS
<1>0. /\ srv \in Seq(Keys \cup {NoKey})
      /\ \A i \in 1..Len(srv) : srv[i] \in Keys \cup {NoKey}
  BY StreamsAreSeqs DEF TypeOK
<1>1. CASE Open
  BY <1>1 DEF Open, TypeOK
<1>2. CASE LoopCheck
  BY <1>2 DEF LoopCheck, TypeOK
<1>3. CASE RecvKey
  <2>1. srv[pos + 1] \in Keys \cup {NoKey}
    BY <1>0, <1>3 DEF RecvKey, TypeOK
  <2>. QED
    BY <1>3, <2>1, ResultOfType DEF RecvKey, TypeOK
<1>4. CASE RecvEOF
  BY <1>4 DEF RecvEOF, TypeOK
<1>5. CASE RecvError
  BY <1>5 DEF RecvError, TypeOK, Results, Errors, ToContextErr, ToErr, ErrNone
<1>6. CASE SendResult
  BY <1>6 DEF SendResult, TypeOK, ChanCap
<1>7. CASE SendError
  BY <1>7 DEF SendError, TypeOK, ChanCap
<1>8. CASE Close
  BY <1>8 DEF Close, TypeOK
<1>9. CASE Receive
  BY <1>9 DEF Receive, TypeOK, ChanCap
<1>10. CASE Cancel
  BY <1>10 DEF Cancel, TypeOK, Sent
<1>11. CASE Finished \/ UNCHANGED vars
  BY <1>11 DEF Finished, vars, TypeOK
<1>. QED
  BY <1>1, <1>2, <1>3, <1>4, <1>5, <1>6, <1>7, <1>8, <1>9, <1>10, <1>11, Zenon
     DEF Next, Producer, ServerRecv

(* Type correctness: every reachable state has the types of TypeOK; in    *)
(* particular the channel never holds more than its one buffered result.  *)
THEOREM TypeCorrect == Spec => []TypeOK
BY TypeInit, TypeStep, PTL DEF Spec
-----------------------------------------------------------------------------
(* The inductive invariant behind the cancellation bound.  It adds to    *)
(* the two properties the facts that make them inductive: a call that    *)
(* has not opened has nothing running, a cancel has made the context      *)
(* done, and once the one extra result has been sent after a cancel the   *)
(* producer is at the top of its loop (where the done context stops it)   *)
(* or has returned.                                                        *)
IInv ==
  /\ TypeOK
  /\ call = "idle" => (~closed /\ ~cancelled)
  /\ closed => pc = "done"
  /\ cancelled => ctxDone
  /\ AtMostOneSentAfterCancel
  /\ (cancelled /\ Sent = cancelAt + 1) => pc \in {"loop", "done"}

LEMMA IInvInit == Init => IInv
<1> SUFFICES ASSUME Init PROVE IInv
  OBVIOUS
<1>1. TypeOK
  BY TypeInit
<1>. QED
  BY <1>1 DEF Init, IInv, AtMostOneSentAfterCancel

(* Receiving moves a result from the channel to the caller: Sent is kept. *)
LEMMA ReceiveKeepsSent ==
  ASSUME TypeOK, Receive PROVE Sent' = Sent
BY DEF TypeOK, Receive, Sent

LEMMA IInvStep == IInv /\ [Next]_vars => IInv'
<1> SUFFICES ASSUME IInv, [Next]_vars PROVE IInv'
  OBVIOUS
<1>0. TypeOK'
  BY TypeStep DEF IInv
<1>. USE DEF IInv, AtMostOneSentAfterCancel
<1>1. CASE Open
  BY <1>0, <1>1 DEF Open, Sent
<1>2. CASE LoopCheck
  BY <1>0, <1>2 DEF LoopCheck, Sent
<1>3. CASE RecvKey
  BY <1>0, <1>3 DEF RecvKey, Sent
<1>4. CASE RecvEOF
  BY <1>0, <1>4 DEF RecvEOF, Sent
<1>5. CASE RecvError
  BY <1>0, <1>5 DEF RecvError, Sent
<1>6. CASE SendResult
  <2>1. Sent \in Nat /\ cancelAt \in Nat
    BY DEF TypeOK, Sent
  <2>2. CASE Len(ch) < ChanCap /\ ch' = Append(ch, res)
    <3>1. Sent' = Sent + 1
      BY <1>6, <2>2 DEF SendResult, Sent, TypeOK
    <3>2. pc' \in {"loop", "done"}
      BY <1>6 DEF SendResult
    <3>3. cancelled => Sent <= cancelAt
      BY <1>6, <2>1 DEF SendResult
    <3>4. /\ cancelled' = cancelled /\ cancelAt' = cancelAt /\ closed' = closed
          /\ call' = call /\ (ctxDone => ctxDone') /\ pc = "send"
      BY <1>6 DEF SendResult
    <3>. QED
      BY <1>0, <2>1, <3>1, <3>2, <3>3, <3>4
  <2>3. CASE ~(Len(ch) < ChanCap /\ ch' = Append(ch, res))
    BY <1>0, <1>6, <2>3 DEF SendResult, Sent
  <2>. QED
    BY <2>2, <2>3
<1>7. CASE SendError
  <2>1. Sent \in Nat /\ cancelAt \in Nat
    BY DEF TypeOK, Sent
  <2>2. Sent' \in {Sent, Sent + 1}
    <3>1. recvd' = recvd /\ ch \in Seq(Results) /\ res \in Results
      BY <1>7 DEF SendError, TypeOK
    <3>2. CASE ch' = Append(ch, res)
      BY <3>1, <3>2 DEF Sent
    <3>3. CASE ch' = ch
      BY <3>1, <3>3 DEF Sent
    <3>. QED
      BY <1>7, <3>2, <3>3 DEF SendError
  <2>. QED
    BY <1>0, <1>7, <2>1, <2>2 DEF SendError
<1>8. CASE Close
  BY <1>0, <1>8 DEF Close, Sent
<1>9. CASE Receive
  BY <1>0, <1>9, ReceiveKeepsSent DEF Receive
<1>10. CASE Cancel
  BY <1>0, <1>10 DEF Cancel, Sent, TypeOK
<1>11. CASE Finished \/ UNCHANGED vars
  BY <1>0, <1>11 DEF Finished, vars, Sent
<1>. QED
  BY <1>1, <1>2, <1>3, <1>4, <1>5, <1>6, <1>7, <1>8, <1>9, <1>10, <1>11, Zenon
     DEF Next, Producer, ServerRecv

(* Cancellation bound: for every key set and stream length, after the    *)
(* caller cancels ListObjectKeyIterator's context the producer goroutine  *)
(* puts at most one more result into the channel.                         *)
THEOREM CancelBound == Spec => []AtMostOneSentAfterCancel
<1>1. IInv => AtMostOneSentAfterCancel
  BY DEF IInv
<1>. QED
  BY IInvInit, IInvStep, <1>1, PTL DEF Spec
-----------------------------------------------------------------------------
(* What the producer has put into the channel, read or not. *)
All == recvd \o ch

(* The first n results put into the channel are the results of the first *)
(* n responses of the server's stream, and none of them is an error.     *)
GoodPrefix(n) == \A i \in 1..n : srv[i] /= NoKey /\ All[i] = ResultOf(srv[i])

(* DeliveredInOrder, of a sequence s of results put into the channel. *)
DeliveredAs(s) ==
  \A i \in 1..Len(s) :
    \/ i <= Len(srv) /\ s[i] = ResultOf(srv[i]) /\ (s[i].err /= ErrNone => i = Len(s))
    \/ i = Len(s) /\ s[i].key = NoKey /\ s[i].err \notin {ErrNone, "missing_key"}

LEMMA DeliveredAll == DeliveredInOrder <=> DeliveredAs(All)
BY DEF DeliveredInOrder, DeliveredAs, All

LEMMA AllType ==
  ASSUME TypeOK PROVE All \in Seq(Results) /\ Len(All) = Len(recvd) + Len(ch)
BY ConcatProperties DEF TypeOK, All

(* A length that is positive and at most the buffer's capacity is 1. *)
LEMMA OneSlot == \A n \in Nat \ {0} : n <= 1 => n = 1
BY SMT

(* The caller's Receive moves the head of the one-slot buffer to the     *)
(* results it has read: what the producer has put in is unchanged.       *)
LEMMA ReceiveKeepsAll ==
  ASSUME TypeOK, Receive PROVE All' = All
<1>1. ch \in Seq(Results) /\ recvd \in Seq(Results) /\ Len(ch) <= 1 /\ ch /= << >>
  BY DEF TypeOK, Receive, ChanCap
<1>9. Len(ch) \in Nat \ {0}
  <2>1. \A sq \in Seq(Results) : sq /= << >> => Len(sq) \in Nat \ {0}
    BY EmptySeq
  <2>. QED
    BY <1>1, <2>1
<1>10. Len(ch) <= 1
  BY <1>1
<1>2. Len(ch) = 1
  BY <1>9, <1>10, OneSlot, Zenon
<1>3. Head(ch) \in Results /\ Tail(ch) \in Seq(Results) /\ Len(Tail(ch)) = 0
  BY <1>1, <1>2, HeadTailProperties
<1>4. Tail(ch) = << >>
  BY <1>3, EmptySeq
<1>5. ch = << Head(ch) >>
  BY <1>1, <1>2
<1>6. recvd' = recvd \o << Head(ch) >>
  BY <1>1, <1>3, AppendIsConcat DEF Receive
<1>7. recvd' \in Seq(Results) /\ ch' = << >>
  BY <1>1, <1>3, <1>4, AppendProperties DEF Receive
<1>8. recvd' \o ch' = recvd'
  BY <1>7, ConcatEmptySeq
<1>. QED
  BY <1>5, <1>6, <1>8 DEF All

(* A send appends the producer's result to what it has put in. *)
LEMMA SendAppends ==
  ASSUME TypeOK, NEW r \in Results, ch' = Append(ch, r), recvd' = recvd
  PROVE  All' = Append(All, r)
<1>1. ch \in Seq(Results) /\ recvd \in Seq(Results)
  BY DEF TypeOK
<1>2. ch' = ch \o << r >> /\ Append(All, r) = All \o << r >>
  BY <1>1, AllType, AppendIsConcat
<1>. QED
  BY <1>1, <1>2, ConcatAssociative DEF All

(* A prefix of the stream's non-error results is delivered in order. *)
LEMMA PrefixDelivered ==
  ASSUME TypeOK, NEW n \in Nat, n <= Len(srv), Len(All) = n, GoodPrefix(n)
  PROVE  DeliveredAs(All)
<1>1. \A k \in Keys : ResultOf(k).err = ErrNone
  BY KeysAssumption DEF ResultOf
<1>2. \A i \in 1..n : srv[i] \in Keys
  BY StreamsAreSeqs DEF GoodPrefix, TypeOK
<1>. QED
  BY <1>1, <1>2 DEF DeliveredAs, GoodPrefix

(* The inductive invariant behind the delivery order: where the producer *)
(* is in its loop fixes how many results it has put into the channel     *)
(* (one per received key, one fewer while a result waits to be sent),    *)
(* that they are the stream's results so far, and what it holds.         *)
OrderCore ==
  /\ pc \in {"idle", "loop", "recv"} => Len(All) = pos /\ GoodPrefix(pos)
  /\ pc = "send" =>
       /\ pos \in 1..Len(srv) /\ Len(All) = pos - 1 /\ GoodPrefix(pos - 1)
       /\ res = ResultOf(srv[pos])
  /\ pc = "senderr" =>
       /\ Len(All) = pos /\ GoodPrefix(pos)
       /\ res.key = NoKey /\ res.err \notin {ErrNone, "missing_key"}
  /\ pc = "done" => DeliveredAs(All)

(* The producer goroutine is started only by the call that opened. *)
Started == call = "idle" => pc = "idle"

OrderInv == TypeOK /\ Started /\ OrderCore

LEMMA StartedStep == Started /\ [Next]_vars => Started'
BY DEF Started, Next, Producer, ServerRecv, Open, LoopCheck, RecvKey, RecvEOF, RecvError, SendResult,
       SendError, Close, Receive, Cancel, Finished, vars

(* A step that keeps the stream, the producer's state and what it has  *)
(* put into the channel keeps OrderCore.                                 *)
LEMMA CoreFrame ==
  ASSUME OrderCore, All' = All, UNCHANGED <<srv, pos, res, pc>>
  PROVE  OrderCore'
BY DEF OrderCore, GoodPrefix, DeliveredAs

(* OrderCore after a step that leaves the producer in its loop, or done. *)
LEMMA CoreLoop ==
  ASSUME pc' \in {"loop", "recv"}, Len(All') = pos', GoodPrefix(pos)'
  PROVE  OrderCore'
BY DEF OrderCore

LEMMA CoreDone ==
  ASSUME pc' = "done", DeliveredAs(All)'
  PROVE  OrderCore'
BY DEF OrderCore

LEMMA DeliveredFrame ==
  ASSUME All' = All, srv' = srv
  PROVE  DeliveredAs(All)' = DeliveredAs(All)
BY DEF DeliveredAs

LEMMA OrderInit == Init => OrderInv
<1> SUFFICES ASSUME Init PROVE OrderInv
  OBVIOUS
<1>1. TypeOK
  BY TypeInit
<1>2. All = << >>
  BY DEF Init, All
<1>. QED
  BY <1>1, <1>2 DEF Init, OrderInv, Started, OrderCore, GoodPrefix

(* The producer's result for a received key, and for an error. *)
LEMMA ResultOfErr ==
  ASSUME NEW k \in Keys \cup {NoKey}
  PROVE  /\ ResultOf(k).err = ErrNone <=> k /= NoKey
         /\ ResultOf(k).err /= ErrNone => ResultOf(k).key = NoKey
BY KeysAssumption DEF ResultOf, ErrNone

LEMMA OrderStep == OrderInv /\ [Next]_vars => OrderInv'
<1> SUFFICES ASSUME TypeOK, Started, OrderCore, [Next]_vars PROVE OrderCore'
  BY TypeStep, StartedStep DEF OrderInv
<1>0. /\ All \in Seq(Results) /\ Len(All) \in Nat
      /\ srv \in Seq(Keys \cup {NoKey}) /\ Len(srv) \in Nat
      /\ \A i \in 1..Len(srv) : srv[i] \in Keys \cup {NoKey}
      /\ pos \in 0..Len(srv)
  BY AllType, StreamsAreSeqs DEF TypeOK
<1>1. CASE Open
  <2>1. pc = "idle" /\ pc' \in {"loop", "idle"} /\ UNCHANGED <<srv, pos, recvd, ch>>
    BY <1>1 DEF Open, Started
  <2>2. All' = All /\ Len(All) = pos /\ GoodPrefix(pos)
    BY <2>1 DEF All, OrderCore
  <2>3. GoodPrefix(pos)'
    BY <2>1, <2>2 DEF GoodPrefix
  <2>. QED
    BY <2>1, <2>2, <2>3 DEF OrderCore
<1>2. CASE LoopCheck
  <2>1. pc = "loop" /\ UNCHANGED <<srv, pos, recvd, ch>> /\ All' = All
    BY <1>2 DEF LoopCheck, All
  <2>2. Len(All) = pos /\ GoodPrefix(pos)
    BY <2>1 DEF OrderCore
  <2>3. GoodPrefix(pos)'
    BY <2>1, <2>2 DEF GoodPrefix
  <2>4. DeliveredAs(All)'
    BY <1>0, <2>1, <2>2, PrefixDelivered, DeliveredFrame
  <2>. QED
    BY <1>2, <2>1, <2>2, <2>3, <2>4, CoreLoop, CoreDone DEF LoopCheck
<1>3. CASE RecvKey
  <2>1. /\ pc = "recv" /\ pc' = "send" /\ pos < Len(srv) /\ pos' = pos + 1
        /\ res' = ResultOf(srv[pos + 1]) /\ UNCHANGED <<srv, recvd, ch>> /\ All' = All
    BY <1>3 DEF RecvKey, All
  <2>2. Len(All) = pos /\ GoodPrefix(pos)
    BY <2>1 DEF OrderCore
  <2>3. GoodPrefix(pos - 1)'
    BY <1>0, <2>1, <2>2 DEF GoodPrefix
  <2>. QED
    BY <1>0, <2>1, <2>2, <2>3 DEF OrderCore
<1>4. CASE RecvEOF
  <2>1. pc = "recv" /\ pc' = "done" /\ UNCHANGED <<srv, pos, recvd, ch>> /\ All' = All
    BY <1>4 DEF RecvEOF, All
  <2>2. DeliveredAs(All)
    BY <1>0, <2>1, PrefixDelivered DEF OrderCore
  <2>. QED
    BY <2>1, <2>2, DeliveredFrame, CoreDone
<1>5. CASE RecvError
  <2>1. pc = "recv" /\ pc' = "senderr" /\ UNCHANGED <<srv, pos, recvd, ch>> /\ All' = All
    BY <1>5 DEF RecvError, All
  <2>2. res'.key = NoKey /\ res'.err \notin {ErrNone, "missing_key"}
    BY <1>5 DEF RecvError, ToContextErr, ToErr, ErrNone
  <2>3. Len(All) = pos /\ GoodPrefix(pos)
    BY <2>1 DEF OrderCore
  <2>4. GoodPrefix(pos)'
    BY <2>1, <2>3 DEF GoodPrefix
  <2>. QED
    BY <2>1, <2>2, <2>3, <2>4 DEF OrderCore
<1>6. CASE SendResult
  <2>0. /\ pc = "send" /\ pos \in 1..Len(srv) /\ Len(All) = pos - 1 /\ GoodPrefix(pos - 1)
        /\ res = ResultOf(srv[pos]) /\ UNCHANGED <<srv, pos, res, recvd>>
    BY <1>6 DEF SendResult, OrderCore
  <2>9. srv[pos] \in Keys \cup {NoKey} /\ pos - 1 \in Nat /\ pos - 1 <= Len(srv)
    BY <1>0, <2>0
  <2>1. CASE Len(ch) < ChanCap /\ ch' = Append(ch, res)
          /\ pc' = IF res.err /= ErrNone THEN "done" ELSE "loop"
    <3>1. All' = Append(All, res) /\ res \in Results
      BY <1>0, <2>0, <2>1, <2>9, ResultOfType, SendAppends
    <3>2. /\ Len(All') = pos
          /\ \A i \in 1..pos - 1 : All'[i] = All[i]
          /\ All'[pos] = res
      BY <1>0, <2>0, <3>1, AppendProperties
    <3>3. \A i \in 1..pos - 1 : srv[i] /= NoKey /\ All'[i] = ResultOf(srv[i])
      BY <2>0, <3>2 DEF GoodPrefix
    <3>4. CASE res.err = ErrNone
      <4>1. srv[pos] /= NoKey
        BY <2>0, <2>9, <3>4, ResultOfErr
      <4>2. GoodPrefix(pos)'
        BY <2>0, <3>2, <3>3, <4>1 DEF GoodPrefix
      <4>3. pc' = "loop"
        BY <2>1, <3>4
      <4>. QED
        BY <2>0, <3>2, <4>2, <4>3, CoreLoop
    <3>5. CASE res.err /= ErrNone
      <4>1. DeliveredAs(All)'
        <5>1. \A k \in Keys : ResultOf(k).err = ErrNone
          BY KeysAssumption DEF ResultOf
        <5>2. \A i \in 1..pos - 1 : srv[i] \in Keys
          BY <1>0, <2>0, <3>3
        <5>. QED
          BY <2>0, <3>2, <3>3, <5>1, <5>2 DEF DeliveredAs
      <4>2. pc' = "done"
        BY <2>1, <3>5
      <4>. QED
        BY <4>1, <4>2, CoreDone
    <3>. QED
      BY <3>4, <3>5
  <2>2. CASE ctxDone /\ pc' = "done" /\ UNCHANGED ch
    <3>1. DeliveredAs(All)
      BY <1>0, <2>0, <2>9, PrefixDelivered
    <3>2. All' = All
      BY <2>0, <2>2 DEF All
    <3>. QED
      BY <2>0, <2>2, <3>1, <3>2, DeliveredFrame, CoreDone
  <2>. QED
    BY <1>6, <2>1, <2>2 DEF SendResult
<1>7. CASE SendError
  <2>0. /\ pc = "senderr" /\ Len(All) = pos /\ GoodPrefix(pos) /\ pc' = "done"
        /\ res.key = NoKey /\ res.err \notin {ErrNone, "missing_key"}
        /\ UNCHANGED <<srv, pos, res, recvd>>
    BY <1>7 DEF SendError, OrderCore
  <2>1. CASE Len(ch) < ChanCap /\ ch' = Append(ch, res)
    <3>1. All' = Append(All, res)
      BY <2>0, <2>1, SendAppends DEF TypeOK
    <3>2. /\ Len(All') = pos + 1
          /\ \A i \in 1..pos : All'[i] = All[i]
          /\ All'[pos + 1] = res
      BY <1>0, <2>0, <3>1, AppendProperties DEF TypeOK
    <3>3. \A i \in 1..pos : srv[i] \in Keys /\ All'[i] = ResultOf(srv[i])
      BY <1>0, <2>0, <3>2 DEF GoodPrefix
    <3>4. \A k \in Keys : ResultOf(k).err = ErrNone
      BY KeysAssumption DEF ResultOf
    <3>5. DeliveredAs(All)'
      BY <1>0, <2>0, <3>2, <3>3, <3>4 DEF DeliveredAs
    <3>. QED
      BY <2>0, <3>5, CoreDone
  <2>2. CASE ctxDone /\ UNCHANGED ch
    <3>1. DeliveredAs(All) /\ All' = All
      BY <1>0, <2>0, <2>2, PrefixDelivered DEF All
    <3>. QED
      BY <2>0, <3>1, DeliveredFrame, CoreDone
  <2>. QED
    BY <1>7, <2>1, <2>2 DEF SendError
<1>8. CASE Close
  BY <1>8, CoreFrame DEF Close, All
<1>9. CASE Receive
  BY <1>9, ReceiveKeepsAll, CoreFrame DEF Receive
<1>10. CASE Cancel
  BY <1>10, CoreFrame DEF Cancel, All
<1>11. CASE Finished \/ UNCHANGED vars
  BY <1>11, CoreFrame DEF Finished, vars, All
<1>. QED
  BY <1>1, <1>2, <1>3, <1>4, <1>5, <1>6, <1>7, <1>8, <1>9, <1>10, <1>11, Zenon
     DEF Next, Producer, ServerRecv

(* Delivery order: for every key set and stream length, what the caller *)
(* reads from ListObjectKeyIterator's channel is the server's stream of *)
(* keys in order, without loss or duplication, and an error result (an  *)
(* empty key, a transport error, a Canceled status) is the last one.    *)
THEOREM StreamOrder == Spec => []DeliveredInOrder
<1>1. OrderInv => DeliveredInOrder
  <2> SUFFICES ASSUME TypeOK, OrderCore PROVE DeliveredAs(All)
    BY DeliveredAll DEF OrderInv
  <2>1. pos \in 0..Len(srv) /\ Len(srv) \in Nat
    BY StreamsAreSeqs DEF TypeOK
  <2>2. CASE pc \in {"idle", "loop", "recv"}
    BY <2>1, <2>2, PrefixDelivered DEF OrderCore
  <2>3. CASE pc = "send"
    <3>1. pos - 1 \in Nat /\ pos - 1 <= Len(srv) /\ Len(All) = pos - 1 /\ GoodPrefix(pos - 1)
      BY <2>1, <2>3 DEF OrderCore
    <3>. QED
      BY <3>1, PrefixDelivered
  <2>4. CASE pc = "senderr"
    BY <2>1, <2>4, PrefixDelivered DEF OrderCore
  <2>5. CASE pc = "done"
    BY <2>5 DEF OrderCore
  <2>. QED
    BY <2>2, <2>3, <2>4, <2>5 DEF TypeOK
<1>. QED
  BY OrderInit, OrderStep, <1>1, PTL DEF Spec
=============================================================================
