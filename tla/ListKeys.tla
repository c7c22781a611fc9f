------------------------------ MODULE ListKeys ------------------------------
(***************************************************************************)
(* The key-listing stream of the zstordb GRPC data client:                *)
(* Client.ListObjectKeyIterator (client/datastor/grpc/client.go).         *)
(*                                                                         *)
(* Three actors share the state:                                          *)
(*  - the producer goroutine started with group.Go, which Recv()s keys    *)
(*    from the server stream and forwards them into the output channel;   *)
(*  - the closer goroutine, which waits on the errgroup and then closes   *)
(*    the channel;                                                        *)
(*  - the caller, which reads the channel and may cancel its context.     *)
(* The server stream is fixed in the initial state: a finite sequence of  *)
(* keys (NoKey is an empty key) ending in EOF or in a transport error.    *)
(***************************************************************************)
EXTENDS Naturals, Sequences

CONSTANTS
  Keys,     \* the non-empty keys a server may list
  NoKey,    \* the empty key: resp.GetKey() of length 0, also the Key of an error result
  MaxKeys   \* bound on the number of responses in the server stream

ASSUME KeysAssumption == NoKey \notin Keys
ASSUME MaxKeysAssumption == MaxKeys \in Nat

(* make(chan datastor.ObjectKeyResult, 1) *)
ChanCap == 1

(* The errors a result or a returned error can carry.  "canceled_status"  *)
(* is the GRPC status error with code Canceled that Recv returns once the *)
(* stream's context is done; "ctx_canceled" is ctx.Err().                 *)
ErrNone == "none"
Errors == {ErrNone, "missing_key", "transport", "canceled_status", "ctx_canceled"}

Results == [key : Keys \cup {NoKey}, err : Errors]

(* The server's possible key streams. *)
Streams == UNION {[1..n -> Keys \cup {NoKey}] : n \in 0..MaxKeys}

VARIABLES
  call,       \* the synchronous part of ListObjectKeyIterator: "idle", "failed", "open"
  srv,        \* the responses the server stream holds
  srvEnd,     \* how the stream ends after srv: "eof" or "transport"
  pos,        \* the number of responses the producer has received
  ctxDone,    \* the errgroup context is done
  cancelled,  \* the caller has cancelled its context
  cancelAt,   \* the number of results put into ch when the caller cancelled
  pc,         \* the producer's place: "idle","loop","recv","send","senderr","done"
  res,        \* the result the producer is about to send
  ch,         \* the output channel's buffer
  closed,     \* the output channel is closed
  recvd       \* the results the caller has read from ch, in order

vars == <<call, srv, srvEnd, pos, ctxDone, cancelled, cancelAt, pc, res, ch,
          closed, recvd>>

(* The number of results the producer has put into the channel. *)
Sent == Len(recvd) + Len(ch)

-----------------------------------------------------------------------------
(* toErr: rpctypes.Error keeps an error it does not know, and the mapping *)
(* of the known ZStor errors keeps these kinds: the identity here.        *)
ToErr(e) == e

(* toContextErr: returns toErr(err) whenever it is non-nil, and only then *)
(* looks at the GRPC code to replace a Canceled status by ctx.Err().      *)
ToContextErr(e, done) ==
  IF ToErr(e) /= ErrNone THEN ToErr(e)
  ELSE IF e = "canceled_status" /\ done THEN "ctx_canceled" ELSE e

(* The result the producer builds for a received key. *)
ResultOf(k) == [key |-> k, err |-> IF k = NoKey THEN "missing_key" ELSE ErrNone]

-----------------------------------------------------------------------------
Init ==
  /\ call = "idle"
  /\ srv \in Streams
  /\ srvEnd \in {"eof", "transport"}
  /\ pos = 0
  /\ ctxDone = FALSE
  /\ cancelled = FALSE
  /\ cancelAt = 0
  /\ pc = "idle"
  /\ res = [key |-> NoKey, err |-> ErrNone]
  /\ ch = <<>>
  /\ closed = FALSE
  /\ recvd = <<>>

(* The synchronous part: build the GRPC context (the JWT getter may fail) *)
(* and open the stream (which may fail); on success start the producer.   *)
Open ==
  /\ call = "idle"
  /\ \/ call' = "failed" /\ UNCHANGED pc
     \/ call' = "open" /\ pc' = "loop"
  /\ UNCHANGED <<srv, srvEnd, pos, ctxDone, cancelled, cancelAt, res, ch, closed, recvd>>

(* Mutant: the top-of-loop select on ctx.Done() is missing. *)
LoopCheckNoCtxCheck ==
  /\ pc = "loop"
  /\ pc' = "recv"
  /\ UNCHANGED <<call, srv, srvEnd, pos, ctxDone, cancelled, cancelAt, res, ch, closed, recvd>>

(* Top of the loop: a done context ends the producer without an error. *)
LoopCheck ==
  /\ pc = "loop"
  /\ pc' = IF ctxDone THEN "done" ELSE "recv"
  /\ UNCHANGED <<call, srv, srvEnd, pos, ctxDone, cancelled, cancelAt, res, ch, closed, recvd>>

(* stream.Recv() returns the next response: a key, or, at the end, EOF   *)
(* or a transport error.  Once the context is done it may instead return  *)
(* a Canceled status; which one it returns is up to the GRPC transport.   *)
RecvKey ==
  /\ pc = "recv"
  /\ pos < Len(srv)
  /\ pos' = pos + 1
  /\ res' = ResultOf(srv[pos + 1])
  /\ pc' = "send"
  /\ UNCHANGED <<call, srv, srvEnd, ctxDone, cancelled, cancelAt, ch, closed, recvd>>

(* Mutant: io.EOF continues the loop instead of returning. *)
RecvEOFContinue ==
  /\ pc = "recv"
  /\ pos = Len(srv)
  /\ srvEnd = "eof"
  /\ pc' = "loop"
  /\ UNCHANGED <<call, srv, srvEnd, pos, ctxDone, cancelled, cancelAt, res, ch, closed, recvd>>

RecvEOF ==
  /\ pc = "recv"
  /\ pos = Len(srv)
  /\ srvEnd = "eof"
  /\ pc' = "done"
  /\ UNCHANGED <<call, srv, srvEnd, pos, ctxDone, cancelled, cancelAt, res, ch, closed, recvd>>

RecvError ==
  /\ pc = "recv"
  /\ \/ pos = Len(srv) /\ srvEnd = "transport"
        /\ res' = [key |-> NoKey, err |-> ToContextErr("transport", ctxDone)]
     \/ ctxDone
        /\ res' = [key |-> NoKey, err |-> ToContextErr("canceled_status", ctxDone)]
  /\ pc' = "senderr"
  /\ UNCHANGED <<call, srv, srvEnd, pos, ctxDone, cancelled, cancelAt, ch, closed, recvd>>

(* Mutant: the producer does not return after sending an error result. *)
SendResultNoReturnOnError ==
  /\ pc = "send"
  /\ \/ Len(ch) < ChanCap /\ ch' = Append(ch, res) /\ pc' = "loop"
     \/ ctxDone /\ pc' = "done" /\ UNCHANGED ch
  /\ UNCHANGED <<call, srv, srvEnd, pos, ctxDone, cancelled, cancelAt, res, closed, recvd>>

(* Mutant: a plain send, without the ctx.Done() case. *)
SendResultNoCtxCase ==
  /\ pc = "send"
  /\ Len(ch) < ChanCap
  /\ ch' = Append(ch, res)
  /\ pc' = IF res.err /= ErrNone THEN "done" ELSE "loop"
  /\ ctxDone' = (ctxDone \/ res.err /= ErrNone)
  /\ UNCHANGED <<call, srv, srvEnd, pos, cancelled, cancelAt, res, closed, recvd>>

(* Mutant: the send ignores that the channel's buffer is full. *)
SendResultIgnoreCapacity ==
  /\ pc = "send"
  /\ \/ ch' = Append(ch, res) /\ pc' = IF res.err /= ErrNone THEN "done" ELSE "loop"
     \/ ctxDone /\ pc' = "done" /\ UNCHANGED ch
  /\ ctxDone' = (ctxDone \/ res.err /= ErrNone)
  /\ UNCHANGED <<call, srv, srvEnd, pos, cancelled, cancelAt, res, closed, recvd>>

(* select { case ch <- result: ... case <-ctx.Done(): return result.Error } *)
(* Go picks either ready case; a returned error cancels the group context. *)
SendResult ==
  /\ pc = "send"
  /\ \/ /\ Len(ch) < ChanCap
        /\ ch' = Append(ch, res)
        /\ pc' = IF res.err /= ErrNone THEN "done" ELSE "loop"
     \/ /\ ctxDone
        /\ pc' = "done"
        /\ UNCHANGED ch
  /\ ctxDone' = (ctxDone \/ res.err /= ErrNone)
  /\ UNCHANGED <<call, srv, srvEnd, pos, cancelled, cancelAt, res, closed, recvd>>

(* The error path: select { case ch <- {Error: err}: case <-ctx.Done(): }  *)
(* then return err, which cancels the group context.                      *)
SendError ==
  /\ pc = "senderr"
  /\ \/ Len(ch) < ChanCap /\ ch' = Append(ch, res)
     \/ ctxDone /\ UNCHANGED ch
  /\ pc' = "done"
  /\ ctxDone' = TRUE
  /\ UNCHANGED <<call, srv, srvEnd, pos, cancelled, cancelAt, res, closed, recvd>>

(* stream.Recv returning, with a response or an error. *)
ServerRecv == RecvKey \/ RecvEOF \/ RecvError

Producer == LoopCheck \/ ServerRecv \/ SendResult \/ SendError

(* The closer goroutine: group.Wait() returns once the producer returned *)
(* (and cancels the group context); the deferred close(ch) runs.          *)
Close ==
  /\ pc = "done"
  /\ call = "open"
  /\ ~closed
  /\ closed' = TRUE
  /\ ctxDone' = TRUE
  /\ UNCHANGED <<call, srv, srvEnd, pos, cancelled, cancelAt, pc, res, ch, recvd>>

(* The caller reads one result from the channel. *)
Receive ==
  /\ ch /= <<>>
  /\ recvd' = Append(recvd, Head(ch))
  /\ ch' = Tail(ch)
  /\ UNCHANGED <<call, srv, srvEnd, pos, ctxDone, cancelled, cancelAt, pc, res, closed>>

(* The caller cancels the context it passed in. *)
Cancel ==
  /\ call = "open"
  /\ ~cancelled
  /\ cancelled' = TRUE
  /\ cancelAt' = Sent
  /\ ctxDone' = TRUE
  /\ UNCHANGED <<call, srv, srvEnd, pos, pc, res, ch, closed, recvd>>

(* The iteration is over: the call failed, or the channel is closed and   *)
(* drained so that the caller's range loop has ended.                     *)
Finished ==
  /\ \/ call = "failed"
     \/ closed /\ ch = <<>>
  /\ UNCHANGED vars

Next == Open \/ Producer \/ Close \/ Receive \/ Cancel \/ Finished

(* The call runs to its end and the Go runtime schedules the producer's  *)
(* own steps and the closer.  stream.Recv returns by itself only once the *)
(* context is done (GRPC then aborts the stream); before, it waits on the *)
(* shard, which need not answer.  The caller need not read or cancel.     *)
Spec ==
  /\ Init /\ [][Next]_vars
  /\ WF_vars(Open) /\ WF_vars(LoopCheck \/ SendResult \/ SendError)
  /\ WF_vars(ctxDone /\ ServerRecv) /\ WF_vars(Close)

-----------------------------------------------------------------------------
TypeOK ==
  /\ call \in {"idle", "failed", "open"}
  /\ srv \in Streams
  /\ srvEnd \in {"eof", "transport"}
  /\ pos \in 0..Len(srv)
  /\ ctxDone \in BOOLEAN
  /\ cancelled \in BOOLEAN
  /\ cancelAt \in Nat
  /\ pc \in {"idle", "loop", "recv", "send", "senderr", "done"}
  /\ res \in Results
  /\ ch \in Seq(Results)
  /\ Len(ch) <= ChanCap
  /\ closed \in BOOLEAN
  /\ recvd \in Seq(Results)

(* What the caller reads is the server's stream in order, without loss or *)
(* duplication, and an error result can only be the last one it reads:   *)
(* the producer returns after sending a missing-key or transport error.  *)
DeliveredInOrder ==
  LET all == recvd \o ch
  IN \A i \in 1..Len(all) :
       \/ i <= Len(srv) /\ all[i] = ResultOf(srv[i]) /\ (all[i].err /= ErrNone => i = Len(all))
       \/ i = Len(all) /\ all[i].key = NoKey /\ all[i].err \notin {ErrNone, "missing_key"}

(* After the caller cancels, the producer puts at most one more result in *)
(* the channel: the one its select was racing against ctx.Done().         *)
AtMostOneSentAfterCancel == cancelled => Sent <= cancelAt + 1

(* Cancelling the context always ends the stream: the producer stops and *)
(* the channel is closed, even if the caller stops reading.               *)
CancelLeadsToClose == cancelled ~> closed

(* A caller that keeps reading, from a shard that keeps answering        *)
(* stream.Recv, sees the channel closed: the stream of a call that       *)
(* opened always ends.  Recv has no deadline of its own (the caller's    *)
(* context is its only bound), so the shard's answers are a hypothesis.  *)
ReadingCallerSeesClose ==
  WF_vars(Receive) /\ WF_vars(ServerRecv) => ((call = "open") ~> (closed /\ ch = <<>>))

(* The design (spec 4.6, 5 and S5): a cancelled stream drains to Closed *)
(* once the message in flight is delivered, without further delivery.   *)
(* Once the caller has cancelled and the producer holds no result (it is *)
(* at the top of its loop, in stream.Recv, or returned), the number of   *)
(* results put into the channel never grows again.                       *)
DrainsWithoutDelivery ==
  \A n \in 0..(MaxKeys + 1) :
    [](cancelled /\ pc \in {"loop", "recv", "done"} /\ Sent = n => [](Sent = n))

(* toContextErr's intent: the error of a stream whose caller cancelled is *)
(* ctx.Err(), not the raw GRPC Canceled status.                           *)
CancelErrorIsContextErr ==
  \A i \in 1..Len(recvd) : recvd[i].err /= "canceled_status"
=============================================================================
