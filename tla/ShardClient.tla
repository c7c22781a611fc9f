----------------------------- MODULE ShardClient -----------------------------
(***************************************************************************)
(* The GRPC data client of one shard (client/datastor/grpc/client.go):     *)
(* NewClient, the object, status, namespace and reference-list calls made *)
(* by concurrent callers sharing the client, and Close.  A call runs the  *)
(* context constructor (a per-call JWT fetch when a token getter is set), *)
(* sends the RPC, and converts the response: toErr with its mapping,       *)
(* convertStatus, the switch of ExistObject, the empty-data check of      *)
(* GetObject, the label check of GetNamespace, the empty-list check of    *)
(* GetReferenceList.  The shard applies a request atomically (its handler *)
(* code is not in the repository: modelled from spec 6); its response or  *)
(* the request itself may be lost.                                        *)
(***************************************************************************)
EXTENDS Naturals, FiniteSets

CONSTANTS Callers, Keys, Data, Empty, Refs, Labels, Namespace, CallOps

(* The empty payload is not a payload; the client's namespace is a label; *)
(* the callers use calls of the datastor.Client interface.                *)
ASSUME ClientAssumption ==
  /\ Empty \notin Data
  /\ Namespace \in Labels
  /\ Keys /= {}
  /\ CallOps \subseteq {"set", "delete", "setrefs", "appendrefs", "delallrefs",
                  "get", "status", "exist", "namespace", "getrefs", "delrefs", "count"}

VARIABLES
  conn,      \* the client's connection: "none", "ready", "failed", "closed"
  jwt,       \* a JWT token getter was given to NewClient
  label,     \* Client.label
  srvLabel,  \* the label of the namespace on the shard
  store,     \* the shard's objects
  refs,      \* the shard's reference lists
  rpc,       \* the call each caller has sent, or NoCall
  resp,      \* the response (or RPC error) that call got, or NoResp
  result     \* what the caller's last call returned

vars == <<conn, jwt, label, srvLabel, store, refs, rpc, resp, result>>

(* The contract's constant definitions: calls, results, object effects. *)
K == INSTANCE ShardContract WITH pending <- rpc
Ok(inv, v) == K!Ok(inv, v)
Err(inv, e) == K!Err(inv, e)

(* An RPC response: a status code (an rpctypes error, a transport error, *)
(* or "ok") and the response message's payload.                          *)
RawOk(v) == [code |-> "ok", val |-> <<v>>]
RawErr(e) == [code |-> e, val |-> <<>>]
NoResp == RawErr("none")

(* The errors the transport produces: a broken connection, and the       *)
(* ErrClientConnClosing of a call on (or cut by) a closed connection.      *)
TransportErrs == IF conn = "closed" THEN {"transport", "closing"} ELSE {"transport"}

-----------------------------------------------------------------------------
(* Server side (spec 6): what a shard answers for a call. *)
PbStatus(o) ==
  CASE o.st = "ok" -> "pb_ok" [] o.st = "absent" -> "pb_missing" [] o.st = "corrupted" -> "pb_corrupted"

ServerAnswer(inv, o, rs, slbl) ==
  CASE inv.op \in K!UnitOps -> RawOk("unit")
    [] inv.op = "get" ->
         IF o.st = "absent" THEN RawErr("rpc_key_not_found")
         ELSE IF o.st = "corrupted" THEN RawErr("rpc_data_corrupted")
         ELSE RawOk(o.data)
    [] inv.op \in {"status", "exist"} -> RawOk(PbStatus(o))
    [] inv.op = "namespace" -> RawOk(slbl)
    [] inv.op = "getrefs" -> RawOk(rs)
    [] inv.op = "delrefs" -> RawOk(Cardinality(rs \ inv.refs))
    [] inv.op = "count" -> RawOk(Cardinality(rs))

-----------------------------------------------------------------------------
(* Client side: the conversion of a response into the call's result. *)
ExpectedErrorMapping ==
  [e \in {"rpc_key_not_found", "rpc_data_corrupted", "rpc_reflist_corrupted", "rpc_permission_denied"} |->
     CASE e = "rpc_key_not_found" -> "key_not_found"
       [] e = "rpc_data_corrupted" -> "corrupted"
       [] e = "rpc_reflist_corrupted" -> "reflist_corrupted"
       [] e = "rpc_permission_denied" -> "permission_denied"]

ToErr(e) == IF e \in DOMAIN ExpectedErrorMapping THEN ExpectedErrorMapping[e] ELSE e

ProtoObjectStatusMapping ==
  [s \in {"pb_ok", "pb_missing", "pb_corrupted"} |->
     CASE s = "pb_ok" -> "ok" [] s = "pb_missing" -> "missing" [] s = "pb_corrupted" -> "corrupted"]

ConvertStatus(inv, s) ==
  IF s \in DOMAIN ProtoObjectStatusMapping THEN Ok(inv, ProtoObjectStatusMapping[s])
  ELSE Err(inv, "invalid_status")

(* SetObject and the other calls without a payload in their answer. *)
SetObjectResult(inv, r) == IF r.code /= "ok" THEN Err(inv, ToErr(r.code)) ELSE Ok(inv, "unit")

(* Mutant: the empty-data check dropped. *)
GetObjectResultNoEmptyCheck(inv, r) ==
  IF r.code /= "ok" THEN Err(inv, ToErr(r.code)) ELSE Ok(inv, r.val[1])

GetObjectResult(inv, r) ==
  IF r.code /= "ok" THEN Err(inv, ToErr(r.code))
  ELSE IF r.val[1] = Empty THEN Err(inv, "missing_data")
  ELSE Ok(inv, r.val[1])

GetObjectStatusResult(inv, r) == IF r.code /= "ok" THEN Err(inv, ToErr(r.code)) ELSE ConvertStatus(inv, r.val[1])

(* Mutant: the Corrupted case missing from the switch (default: false). *)
ExistObjectResultNoCorrupted(inv, r) ==
  LET s == GetObjectStatusResult(inv, r)
  IN IF s.err /= "none" THEN Err(inv, s.err) ELSE Ok(inv, s.val[2] = "ok")

ExistObjectResult(inv, r) ==
  LET s == GetObjectStatusResult(inv, r)
  IN IF s.err /= "none" THEN Err(inv, s.err)
     ELSE IF s.val[2] = "ok" THEN Ok(inv, TRUE)
     ELSE IF s.val[2] = "corrupted" THEN Err(inv, "corrupted")
     ELSE Ok(inv, FALSE)

GetNamespaceResult(inv, r, lbl) ==
  IF r.code /= "ok" THEN Err(inv, ToErr(r.code))
  ELSE IF r.val[1] /= lbl THEN Err(inv, "invalid_label")
  ELSE Ok(inv, r.val[1])

GetReferenceListResult(inv, r) ==
  IF r.code /= "ok" THEN Err(inv, ToErr(r.code))
  ELSE IF r.val[1] = {} THEN Err(inv, "missing_reflist")
  ELSE Ok(inv, r.val[1])

(* GetReferenceCount and DeleteFromReferenceList: the count. *)
GetReferenceCountResult(inv, r) == IF r.code /= "ok" THEN Err(inv, ToErr(r.code)) ELSE Ok(inv, r.val[1])

Convert(inv, r, lbl) ==
  CASE inv.op \in K!UnitOps -> SetObjectResult(inv, r)
    [] inv.op = "get" -> GetObjectResult(inv, r)
    [] inv.op = "status" -> GetObjectStatusResult(inv, r)
    [] inv.op = "exist" -> ExistObjectResult(inv, r)
    [] inv.op = "namespace" -> GetNamespaceResult(inv, r, lbl)
    [] inv.op = "getrefs" -> GetReferenceListResult(inv, r)
    [] inv.op \in {"delrefs", "count"} -> GetReferenceCountResult(inv, r)

-----------------------------------------------------------------------------
Init ==
  /\ conn = "none"
  /\ jwt = FALSE
  /\ label = Namespace
  /\ srvLabel \in Labels
  /\ store = [k \in Keys |-> K!Absent]
  /\ refs = [k \in Keys |-> {}]
  /\ rpc = [c \in Callers |-> K!NoCall]
  /\ resp = [c \in Callers |-> NoResp]
  /\ result = [c \in Callers |-> K!NoResult]

(* NewClient: an empty address or namespace, a Dial error or a GetLabel  *)
(* error fails; without a token getter the label is the namespace, with  *)
(* one it is what GetLabel returns.                                      *)
NewClient ==
  /\ conn = "none"
  /\ \/ conn' = "failed" /\ UNCHANGED <<jwt, label>>
     \/ conn' = "ready" /\ jwt' = FALSE /\ label' = Namespace
     \/ conn' = "ready" /\ jwt' = TRUE /\ label' \in Labels
  /\ UNCHANGED <<srvLabel, store, refs, rpc, resp, result>>

(* A caller starts a call: contextConstructor (GetJWTToken may fail and  *)
(* the call returns that error), then the RPC, which fails at once on a  *)
(* closed connection.                                                     *)
Invoke(c, inv) ==
  /\ conn \in {"ready", "closed"}
  /\ rpc[c] = K!NoCall
  /\ \/ jwt /\ result' = [result EXCEPT ![c] = Err(inv, "token")] /\ UNCHANGED rpc
     \/ conn = "closed" /\ result' = [result EXCEPT ![c] = Err(inv, "closing")] /\ UNCHANGED rpc
     \/ conn = "ready" /\ rpc' = [rpc EXCEPT ![c] = inv] /\ UNCHANGED result
  /\ UNCHANGED <<conn, jwt, label, srvLabel, store, refs, resp>>

(* The shard handles a request: it denies permission, or applies it and  *)
(* answers; the answer may be lost on the way back.                      *)
ServerHandle(c) ==
  LET inv == rpc[c]
      k == inv.key
  IN /\ inv /= K!NoCall
     /\ resp[c] = NoResp
     /\ \/ /\ resp' = [resp EXCEPT ![c] = RawErr("rpc_permission_denied")]
           /\ UNCHANGED <<store, refs>>
        \/ /\ K!Apply(inv)
           /\ \E r \in {ServerAnswer(inv, store[k], refs[k], srvLabel)}
                       \cup {RawErr(e) : e \in TransportErrs} :
                resp' = [resp EXCEPT ![c] = r]
     /\ UNCHANGED <<conn, jwt, label, srvLabel, rpc, result>>

(* The request is lost before the shard sees it. *)
LoseRequest(c) ==
  /\ rpc[c] /= K!NoCall
  /\ resp[c] = NoResp
  /\ \E e \in TransportErrs : resp' = [resp EXCEPT ![c] = RawErr(e)]
  /\ UNCHANGED <<conn, jwt, label, srvLabel, store, refs, rpc, result>>

(* Mutant: the response is not consumed when the method returns. *)
ReturnKeepsResp(c) ==
  /\ rpc[c] /= K!NoCall
  /\ resp[c] /= NoResp
  /\ result' = [result EXCEPT ![c] = Convert(rpc[c], resp[c], label)]
  /\ rpc' = [rpc EXCEPT ![c] = K!NoCall]
  /\ UNCHANGED <<conn, jwt, label, srvLabel, store, refs, resp>>

(* The RPC returns to the caller's method, which converts its response. *)
Return(c) ==
  /\ rpc[c] /= K!NoCall
  /\ resp[c] /= NoResp
  /\ result' = [result EXCEPT ![c] = Convert(rpc[c], resp[c], label)]
  /\ rpc' = [rpc EXCEPT ![c] = K!NoCall]
  /\ resp' = [resp EXCEPT ![c] = NoResp]
  /\ UNCHANGED <<conn, jwt, label, srvLabel, store, refs>>

Close ==
  /\ conn = "ready"
  /\ conn' = "closed"
  /\ UNCHANGED <<jwt, label, srvLabel, store, refs, rpc, resp, result>>

Corrupt(k) ==
  /\ store[k].st = "ok"
  /\ store' = [store EXCEPT ![k].st = "corrupted"]
  /\ UNCHANGED <<conn, jwt, label, srvLabel, refs, rpc, resp, result>>

Next ==
  \/ NewClient \/ Close
  \/ \E c \in Callers, inv \in K!Invocations : Invoke(c, inv)
  \/ \E c \in Callers : ServerHandle(c) \/ LoseRequest(c) \/ Return(c)
  \/ \E k \in Keys : Corrupt(k)

(* The calling goroutine runs on once its RPC returned, and conn.Close   *)
(* fails the RPCs still in flight; the shard and the network get no      *)
(* fairness: while the connection is open nothing bounds how long an RPC *)
(* takes.                                                                 *)
Spec == Init /\ [][Next]_vars
          /\ \A c \in Callers : WF_vars(Return(c)) /\ WF_vars(conn = "closed" /\ LoseRequest(c))

-----------------------------------------------------------------------------
(* Refinement mapping: a call is pending in the contract until the shard *)
(* (or the network) has answered it; from then on the contract's result *)
(* is what the client's conversion code makes of the answer.  Return is  *)
(* a stutter of the contract.                                             *)
AbsPending == [c \in Callers |-> IF resp[c] = NoResp THEN rpc[c] ELSE K!NoCall]
AbsResult ==
  [c \in Callers |-> IF rpc[c] /= K!NoCall /\ resp[c] /= NoResp
                     THEN Convert(rpc[c], resp[c], label) ELSE result[c]]

A == INSTANCE ShardContract WITH pending <- AbsPending, result <- AbsResult

ErrNames == {"none", "token", "closing", "transport", "key_not_found", "corrupted",
             "reflist_corrupted", "permission_denied", "missing_data",
             "invalid_status", "invalid_label", "missing_reflist"}

RespCodes == {"none", "ok", "rpc_key_not_found", "rpc_data_corrupted", "rpc_permission_denied",
              "transport", "closing"}

(* Type invariant; and a response exists only for a call in flight (the  *)
(* method that returned has consumed it).                                 *)
TypeOK ==
  /\ conn \in {"none", "ready", "failed", "closed"}
  /\ jwt \in BOOLEAN /\ label \in Labels /\ srvLabel \in Labels
  /\ store \in [Keys -> K!Objects] /\ refs \in [Keys -> SUBSET Refs]
  /\ rpc \in [Callers -> K!Invocations \cup {K!NoCall}]
  /\ DOMAIN resp = Callers /\ DOMAIN result = Callers
  /\ \A c \in Callers : resp[c].code \in RespCodes /\ (resp[c].code /= "ok" => resp[c].val = <<>>)
  /\ \A c \in Callers : result[c].err \in ErrNames /\ (result[c].err /= "none" => result[c].val = <<>>)
  /\ \A c \in Callers : rpc[c] = K!NoCall => resp[c] = NoResp

(* The client keeps the data-client contract of spec 4.1: every call     *)
(* takes effect atomically and returns the contract's answer for the     *)
(* state the shard was in (GetObject never returns empty data, ExistObject *)
(* reports corruption as an error, GetNamespace never accepts another    *)
(* label, a failed token fetch changes nothing), or one of the failures  *)
(* the contract allows.                                                   *)
ContractSpec == A!Spec

(* Spec 5: every shard call has timeout semantics, so a call the client  *)
(* has sent eventually returns, whatever the shard does.                  *)
CallsReturn == \A c \in Callers : rpc[c] /= K!NoCall ~> rpc[c] = K!NoCall
=============================================================================
