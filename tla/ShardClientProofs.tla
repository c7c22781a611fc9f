------------------------- MODULE ShardClientProofs -------------------------
(***************************************************************************)
(* Proofs about the data client (ShardClient): its conversion code turns  *)
(* every shard answer into the contract's answer, and the client         *)
(* implements the contract ShardContract, for every set of callers, keys, *)
(* payloads, references and labels.                                       *)
(***************************************************************************)
EXTENDS ShardClient, TLAPS

(* What a call of the enumerated set carries. *)
LEMMA InvocationFields ==
  ASSUME NEW inv \in K!AllInvocations
  PROVE  /\ inv.op \in K!Ops
         /\ inv.key \in Keys
         /\ inv.data \in Data \cup {Empty}
         /\ inv.refs \in SUBSET Refs
         /\ inv /= K!NoCall
<1>1. K!NoCall.op = "none"
  BY DEF K!NoCall, K!Call
<1>2. \A R \in K!RefArgs : R \in SUBSET Refs
  BY DEF K!RefArgs
<1>3. CASE \E o \in {"get", "delete", "status", "exist", "getrefs", "delallrefs", "count"}, k \in Keys :
             inv = K!Call(o, k, Empty, {})
  BY <1>1, <1>3 DEF K!Call, K!Ops, K!UnitOps
<1>4. CASE \E k \in Keys, d \in Data \cup {Empty}, R \in K!RefArgs : inv = K!Call("set", k, d, R)
  BY <1>1, <1>2, <1>4 DEF K!Call, K!Ops, K!UnitOps
<1>5. CASE \E o \in {"setrefs", "appendrefs", "delrefs"}, k \in Keys, R \in K!RefArgs :
             inv = K!Call(o, k, Empty, R)
  BY <1>1, <1>2, <1>5 DEF K!Call, K!Ops, K!UnitOps
<1>6. CASE inv = K!Call("namespace", CHOOSE k \in Keys : TRUE, Empty, {})
  <2>1. (CHOOSE k \in Keys : TRUE) \in Keys
    BY ClientAssumption
  <2>. QED
    BY <1>1, <1>6, <2>1 DEF K!Call, K!Ops, K!UnitOps
<1>. QED
  BY <1>3, <1>4, <1>5, <1>6 DEF K!AllInvocations

(* toErr maps every RPC error code to a datastor error, never to none. *)
LEMMA ToErrValues ==
  ASSUME NEW e \in RespCodes \ {"none", "ok"}
  PROVE  ToErr(e) \in ErrNames \ {"none"}
BY DEF ToErr, ExpectedErrorMapping, RespCodes, ErrNames

(* Convert dispatches a call to the conversion code of its method. *)
LEMMA ConvertDispatch ==
  ASSUME NEW inv, NEW r, NEW lbl
  PROVE  /\ inv.op \in K!UnitOps => Convert(inv, r, lbl) = SetObjectResult(inv, r)
         /\ inv.op = "get" => Convert(inv, r, lbl) = GetObjectResult(inv, r)
         /\ inv.op = "status" => Convert(inv, r, lbl) = GetObjectStatusResult(inv, r)
         /\ inv.op = "exist" => Convert(inv, r, lbl) = ExistObjectResult(inv, r)
         /\ inv.op = "namespace" => Convert(inv, r, lbl) = GetNamespaceResult(inv, r, lbl)
         /\ inv.op = "getrefs" => Convert(inv, r, lbl) = GetReferenceListResult(inv, r)
         /\ inv.op \in {"delrefs", "count"} => Convert(inv, r, lbl) = GetReferenceCountResult(inv, r)
BY Zenon DEF Convert, K!UnitOps

(* ExistObject's switch on the status GetObjectStatus returned. *)
LEMMA ExistSwitch ==
  ASSUME NEW inv, NEW r
  PROVE  LET s == GetObjectStatusResult(inv, r)
         IN  /\ s.err /= "none" => ExistObjectResult(inv, r) = Err(inv, s.err)
             /\ (s.err = "none" /\ s.val[2] = "ok") => ExistObjectResult(inv, r) = Ok(inv, TRUE)
             /\ (s.err = "none" /\ s.val[2] = "corrupted") => ExistObjectResult(inv, r) = Err(inv, "corrupted")
             /\ (s.err = "none" /\ s.val[2] \notin {"ok", "corrupted"}) => ExistObjectResult(inv, r) = Ok(inv, FALSE)
BY DEF ExistObjectResult

(* A response with an error code becomes that error, mapped by toErr,    *)
(* whatever the call (ExistObject passes GetObjectStatus's error on).     *)
LEMMA ConvertError ==
  ASSUME NEW inv \in K!AllInvocations, NEW e \in RespCodes \ {"none", "ok"}, NEW lbl
  PROVE  Convert(inv, RawErr(e), lbl) = Err(inv, ToErr(e))
<1>1. inv.op \in K!Ops
  BY InvocationFields
<1>2. ToErr(e) /= "none"
  BY ToErrValues
<1>3. GetObjectStatusResult(inv, RawErr(e)) = Err(inv, ToErr(e))
  BY DEF GetObjectStatusResult, RawErr
<1>4. GetObjectStatusResult(inv, RawErr(e)).err = ToErr(e)
  BY <1>3 DEF Err, K!Err
<1>5. ExistObjectResult(inv, RawErr(e)) = Err(inv, ToErr(e))
  BY <1>2, <1>4 DEF ExistObjectResult
<1>. QED
  BY <1>1, <1>5, ConvertDispatch DEF RawErr, K!Ops, SetObjectResult, GetObjectResult,
       GetObjectStatusResult, GetNamespaceResult, GetReferenceListResult, GetReferenceCountResult

(* The contract's Cardinality is the one the client module uses. *)
LEMMA CardinalitySame ==
  ASSUME NEW S PROVE K!Cardinality(S) = Cardinality(S)
BY DEF K!Cardinality, Cardinality

(* The status the shard reports, and what convertStatus makes of it. *)
LEMMA StatusConversion ==
  ASSUME NEW inv, NEW o \in K!Objects
  PROVE  ConvertStatus(inv, PbStatus(o)) = Ok(inv, IF o.st = "absent" THEN "missing" ELSE o.st)
<1>1. /\ o.st = "ok" => PbStatus(o) = "pb_ok"
      /\ o.st = "absent" => PbStatus(o) = "pb_missing"
      /\ o.st = "corrupted" => PbStatus(o) = "pb_corrupted"
  BY Zenon DEF PbStatus
<1>2. /\ ProtoObjectStatusMapping["pb_ok"] = "ok"
      /\ ProtoObjectStatusMapping["pb_missing"] = "missing"
      /\ ProtoObjectStatusMapping["pb_corrupted"] = "corrupted"
      /\ DOMAIN ProtoObjectStatusMapping = {"pb_ok", "pb_missing", "pb_corrupted"}
  BY Zenon DEF ProtoObjectStatusMapping
<1>3. o.st \in K!ObjStates
  BY DEF K!Objects
<1>. QED
  BY <1>1, <1>2, <1>3 DEF ConvertStatus, K!ObjStates

(* The two error codes the shard's answers use, as toErr maps them. *)
LEMMA ToErrMapped ==
  /\ ToErr("rpc_key_not_found") = "key_not_found"
  /\ ToErr("rpc_data_corrupted") = "corrupted"
  /\ ToErr("rpc_permission_denied") = "permission_denied"
  /\ ToErr("transport") = "transport"
  /\ ToErr("closing") = "closing"
  /\ ToErr("none") = "none"
BY Zenon DEF ToErr, ExpectedErrorMapping

(* The client's conversion of the shard's answer is the contract's answer: *)
(* each method's result handling (client.go 94-368) composed with what the *)
(* shard returns gives exactly what spec 4.1 promises.                      *)
LEMMA ConvertAnswer ==
  ASSUME NEW inv \in K!AllInvocations, NEW o \in K!Objects, NEW rs, NEW slbl, NEW lbl
  PROVE  Convert(inv, ServerAnswer(inv, o, rs, slbl), lbl) = K!Answer(inv, o, rs, slbl, lbl)
<1> DEFINE r == ServerAnswer(inv, o, rs, slbl)
           a == K!Answer(inv, o, rs, slbl, lbl)
<1>1. inv.op \in K!Ops
  BY InvocationFields
<1>2. o.st \in K!ObjStates /\ o.data \in Data \cup {Empty}
  BY DEF K!Objects
<1>3. CASE inv.op \in K!UnitOps
  <2>1. r = RawOk("unit")
    BY <1>3, Zenon DEF ServerAnswer, K!UnitOps
  <2>2. a = Ok(inv, "unit")
    BY <1>3, Zenon DEF K!Answer, K!UnitOps, Ok, Err
  <2>3. Convert(inv, r, lbl) = SetObjectResult(inv, r)
    BY <1>3, Zenon DEF Convert, K!UnitOps
  <2>. QED
    BY <2>1, <2>2, <2>3 DEF SetObjectResult, RawOk
<1>4. CASE inv.op = "get"
  <2>1. r = IF o.st = "absent" THEN RawErr("rpc_key_not_found")
              ELSE IF o.st = "corrupted" THEN RawErr("rpc_data_corrupted")
              ELSE RawOk(o.data)
    BY <1>4, Zenon DEF ServerAnswer, K!UnitOps
  <2>2. a = IF o.st = "absent" THEN Err(inv, "key_not_found")
              ELSE IF o.st = "corrupted" THEN Err(inv, "corrupted")
              ELSE IF o.data = Empty THEN Err(inv, "missing_data")
              ELSE Ok(inv, o.data)
    BY <1>4, Zenon DEF K!Answer, K!UnitOps, Ok, Err
  <2>3. Convert(inv, r, lbl) = GetObjectResult(inv, r)
    BY <1>4, Zenon DEF Convert, K!UnitOps
  <2>. QED
    BY <2>1, <2>2, <2>3, ToErrMapped DEF GetObjectResult, RawOk, RawErr
<1>5. CASE inv.op = "status"
  <2>1. r = RawOk(PbStatus(o))
    BY <1>5, Zenon DEF ServerAnswer, K!UnitOps
  <2>2. a = Ok(inv, IF o.st = "absent" THEN "missing" ELSE o.st)
    BY <1>5, Zenon DEF K!Answer, K!UnitOps, Ok, Err
  <2>3. Convert(inv, r, lbl) = GetObjectStatusResult(inv, r)
    BY <1>5, Zenon DEF Convert, K!UnitOps
  <2>. QED
    BY <2>1, <2>2, <2>3, StatusConversion DEF GetObjectStatusResult, RawOk
<1>6. CASE inv.op = "exist"
  <2>1. r = RawOk(PbStatus(o))
    BY <1>6, Zenon DEF ServerAnswer, K!UnitOps
  <2>2. a = IF o.st = "corrupted" THEN Err(inv, "corrupted") ELSE Ok(inv, o.st = "ok")
    BY <1>6, Zenon DEF K!Answer, K!UnitOps, Ok, Err
  <2>3. Convert(inv, r, lbl) = ExistObjectResult(inv, r)
    BY <1>6, Zenon DEF Convert, K!UnitOps
  <2>4. GetObjectStatusResult(inv, r) = Ok(inv, IF o.st = "absent" THEN "missing" ELSE o.st)
    BY <2>1, StatusConversion DEF GetObjectStatusResult, RawOk
  <2>5. /\ GetObjectStatusResult(inv, r).err = "none"
        /\ GetObjectStatusResult(inv, r).val[2] = IF o.st = "absent" THEN "missing" ELSE o.st
    BY <2>4 DEF Ok, K!Ok
  <2>6. CASE o.st = "ok"
    BY <2>2, <2>3, <2>5, <2>6, ExistSwitch
  <2>7. CASE o.st = "corrupted"
    BY <2>2, <2>3, <2>5, <2>7, ExistSwitch
  <2>8. CASE o.st = "absent"
    BY <2>2, <2>3, <2>5, <2>8, ExistSwitch
  <2>. QED
    BY <1>2, <2>6, <2>7, <2>8 DEF K!ObjStates
<1>7. CASE inv.op = "namespace"
  <2>1. r = RawOk(slbl)
    BY <1>7, Zenon DEF ServerAnswer, K!UnitOps
  <2>2. a = IF slbl = lbl THEN Ok(inv, slbl) ELSE Err(inv, "invalid_label")
    BY <1>7, Zenon DEF K!Answer, K!UnitOps, Ok, Err
  <2>3. Convert(inv, r, lbl) = GetNamespaceResult(inv, r, lbl)
    BY <1>7, Zenon DEF Convert, K!UnitOps
  <2>. QED
    BY <2>1, <2>2, <2>3 DEF GetNamespaceResult, RawOk
<1>8. CASE inv.op = "getrefs"
  <2>1. r = RawOk(rs)
    BY <1>8, Zenon DEF ServerAnswer, K!UnitOps
  <2>2. a = IF rs = {} THEN Err(inv, "missing_reflist") ELSE Ok(inv, rs)
    BY <1>8, Zenon DEF K!Answer, K!UnitOps, Ok, Err
  <2>3. Convert(inv, r, lbl) = GetReferenceListResult(inv, r)
    BY <1>8, Zenon DEF Convert, K!UnitOps
  <2>. QED
    BY <2>1, <2>2, <2>3 DEF GetReferenceListResult, RawOk
<1>9. CASE inv.op = "delrefs"
  <2>1. r = RawOk(Cardinality(rs \ inv.refs))
    BY <1>9, Zenon DEF ServerAnswer, K!UnitOps
  <2>2. a = Ok(inv, K!Cardinality(rs \ inv.refs))
    BY <1>9, Zenon DEF K!Answer, K!UnitOps, Ok, Err
  <2>3. Convert(inv, r, lbl) = GetReferenceCountResult(inv, r)
    BY <1>9, Zenon DEF Convert, K!UnitOps
  <2>. QED
    BY <2>1, <2>2, <2>3, CardinalitySame DEF GetReferenceCountResult, RawOk
<1>10. CASE inv.op = "count"
  <2>1. r = RawOk(Cardinality(rs))
    BY <1>10, Zenon DEF ServerAnswer, K!UnitOps
  <2>2. a = Ok(inv, K!Cardinality(rs))
    BY <1>10, Zenon DEF K!Answer, K!UnitOps, Ok, Err
  <2>3. Convert(inv, r, lbl) = GetReferenceCountResult(inv, r)
    BY <1>10, Zenon DEF Convert, K!UnitOps
  <2>. QED
    BY <2>1, <2>2, <2>3, CardinalitySame DEF GetReferenceCountResult, RawOk
<1>. QED
  BY <1>1, <1>3, <1>4, <1>5, <1>6, <1>7, <1>8, <1>9, <1>10 DEF K!Ops
-----------------------------------------------------------------------------
(* A well-formed result: a known error name, and no value with an error. *)
GoodResult(x) == x.err \in ErrNames /\ (x.err /= "none" => x.val = <<>>)

(* A well-formed response: a known code, and no payload with an error. *)
GoodResp(r) == r.code \in RespCodes /\ (r.code /= "ok" => r.val = <<>>)

(* Whatever the response, each method returns a well-formed result. *)
LEMMA ConvertType ==
  ASSUME NEW inv \in K!AllInvocations, NEW r, GoodResp(r), NEW lbl
  PROVE  GoodResult(Convert(inv, r, lbl))
<1>1. inv.op \in K!Ops
  BY InvocationFields
<1>2. r.code /= "ok" => ToErr(r.code) \in ErrNames
  BY ToErrValues, ToErrMapped DEF GoodResp, RespCodes, ErrNames
<1>. USE DEF GoodResult, Ok, Err, K!Ok, K!Err, ErrNames
<1>3. GoodResult(GetObjectStatusResult(inv, r))
  BY <1>2 DEF GetObjectStatusResult, ConvertStatus
<1>4. CASE inv.op \in K!UnitOps
  <2>1. Convert(inv, r, lbl) = SetObjectResult(inv, r)
    BY <1>4, Zenon DEF Convert, K!UnitOps
  <2>. QED
    BY <1>2, <2>1 DEF SetObjectResult
<1>5. CASE inv.op = "get"
  <2>1. Convert(inv, r, lbl) = GetObjectResult(inv, r)
    BY <1>5, Zenon DEF Convert, K!UnitOps
  <2>. QED
    BY <1>2, <2>1 DEF GetObjectResult
<1>6. CASE inv.op = "status"
  <2>1. Convert(inv, r, lbl) = GetObjectStatusResult(inv, r)
    BY <1>6, Zenon DEF Convert, K!UnitOps
  <2>. QED
    BY <1>3, <2>1
<1>7. CASE inv.op = "exist"
  <2>1. Convert(inv, r, lbl) = ExistObjectResult(inv, r)
    BY <1>7, Zenon DEF Convert, K!UnitOps
  <2>2. GoodResult(ExistObjectResult(inv, r))
    BY <1>3 DEF ExistObjectResult
  <2>. QED
    BY <2>1, <2>2
<1>8. CASE inv.op = "namespace"
  <2>1. Convert(inv, r, lbl) = GetNamespaceResult(inv, r, lbl)
    BY <1>8, Zenon DEF Convert, K!UnitOps
  <2>. QED
    BY <1>2, <2>1 DEF GetNamespaceResult
<1>9. CASE inv.op = "getrefs"
  <2>1. Convert(inv, r, lbl) = GetReferenceListResult(inv, r)
    BY <1>9, Zenon DEF Convert, K!UnitOps
  <2>. QED
    BY <1>2, <2>1 DEF GetReferenceListResult
<1>10. CASE inv.op \in {"delrefs", "count"}
  <2>1. Convert(inv, r, lbl) = GetReferenceCountResult(inv, r)
    BY <1>10, Zenon DEF Convert, K!UnitOps
  <2>. QED
    BY <1>2, <2>1 DEF GetReferenceCountResult
<1>. QED
  BY <1>1, <1>4, <1>5, <1>6, <1>7, <1>8, <1>9, <1>10 DEF K!Ops

(* The shard answers with a well-formed response. *)
LEMMA ServerAnswerType ==
  ASSUME NEW inv \in K!AllInvocations, NEW o, NEW rs, NEW slbl
  PROVE  GoodResp(ServerAnswer(inv, o, rs, slbl)) /\ ServerAnswer(inv, o, rs, slbl).code /= "none"
<1>1. inv.op \in K!Ops
  BY InvocationFields
<1>. QED
  BY <1>1, Zenon DEF ServerAnswer, K!Ops, K!UnitOps, GoodResp, RespCodes, RawOk, RawErr

(* The effect of a call keeps objects objects and reference lists sets of refs. *)
LEMMA EffectType ==
  ASSUME NEW inv \in K!AllInvocations, NEW o \in K!Objects, NEW rs \in SUBSET Refs
  PROVE  K!EffectObj(inv, o) \in K!Objects /\ K!EffectRefs(inv, rs) \in SUBSET Refs
<1>1. inv.data \in Data \cup {Empty} /\ inv.refs \in SUBSET Refs
  BY InvocationFields
<1>2. K!EffectObj(inv, o) \in {[st |-> "ok", data |-> inv.data], K!Absent, o}
  BY Zenon DEF K!EffectObj
<1>3. K!EffectRefs(inv, rs) \in {inv.refs, rs \cup inv.refs, rs \ inv.refs, {}, rs}
  BY Zenon DEF K!EffectRefs
<1>. QED
  BY <1>1, <1>2, <1>3 DEF K!Objects, K!Absent, K!ObjStates

-----------------------------------------------------------------------------
LEMMA TypeInit == Init => TypeOK
<1> SUFFICES ASSUME Init PROVE TypeOK
  OBVIOUS
<1>1. K!Absent \in K!Objects /\ K!NoCall \in K!Invocations \cup {K!NoCall}
  BY DEF K!Absent, K!Objects, K!ObjStates
<1>. QED
  BY <1>1, ClientAssumption DEF Init, TypeOK, NoResp, RawErr, RespCodes,
     K!NoResult, K!Err, ErrNames

LEMMA TypeStep == TypeOK /\ [Next]_vars => TypeOK'
<1> SUFFICES ASSUME TypeOK, [Next]_vars PROVE TypeOK'
  OBVIOUS
<1>0. K!Invocations \subseteq K!AllInvocations
  BY DEF K!Invocations
<1>1. CASE NewClient
  BY <1>1, ClientAssumption DEF NewClient, TypeOK
<1>2. ASSUME NEW c \in Callers, NEW inv \in K!Invocations, Invoke(c, inv) PROVE TypeOK'
  <2>1. inv /= K!NoCall
    BY <1>0, InvocationFields
  <2>. QED
    BY <1>2, <2>1 DEF Invoke, TypeOK, Err, K!Err, ErrNames
<1>3. ASSUME NEW c \in Callers, ServerHandle(c) PROVE TypeOK'
  <2> DEFINE inv == rpc[c]
             k == inv.key
  <2>1. inv \in K!AllInvocations /\ inv /= K!NoCall
    BY <1>0, <1>3 DEF ServerHandle, TypeOK
  <2>2. k \in Keys
    BY <2>1, InvocationFields
  <2>3. store' \in [Keys -> K!Objects] /\ refs' \in [Keys -> SUBSET Refs]
    BY <1>3, <2>1, <2>2, EffectType DEF ServerHandle, K!Apply, TypeOK
  <2>4. GoodResp(ServerAnswer(inv, store[k], refs[k], srvLabel))
        /\ ServerAnswer(inv, store[k], refs[k], srvLabel).code /= "none"
    BY <2>1, ServerAnswerType
  <2>5. resp'[c] \in {RawErr("rpc_permission_denied"), ServerAnswer(inv, store[k], refs[k], srvLabel)}
                      \cup {RawErr(e) : e \in TransportErrs}
    BY <1>3 DEF ServerHandle, TypeOK
  <2>6. \A x \in {RawErr("rpc_permission_denied")} \cup {RawErr(e) : e \in TransportErrs} :
          GoodResp(x) /\ x /= NoResp
    BY DEF GoodResp, RespCodes, RawErr, NoResp, TransportErrs
  <2>7. ServerAnswer(inv, store[k], refs[k], srvLabel) /= NoResp
    BY <2>4 DEF NoResp, RawErr
  <2>8. GoodResp(resp'[c]) /\ resp'[c] /= NoResp
    BY <2>4, <2>5, <2>6, <2>7
  <2>. QED
    BY <1>3, <2>3, <2>8 DEF ServerHandle, TypeOK, GoodResp
<1>4. ASSUME NEW c \in Callers, LoseRequest(c) PROVE TypeOK'
  BY <1>4 DEF LoseRequest, TypeOK, RespCodes, RawErr, TransportErrs
<1>5. ASSUME NEW c \in Callers, Return(c) PROVE TypeOK'
  <2>1. rpc[c] \in K!AllInvocations /\ GoodResp(resp[c])
    BY <1>0, <1>5 DEF Return, TypeOK, GoodResp
  <2>2. GoodResult(Convert(rpc[c], resp[c], label))
    BY <2>1, ConvertType
  <2>. QED
    BY <1>5, <2>2 DEF Return, TypeOK, GoodResult, NoResp, RawErr, RespCodes
<1>6. CASE Close
  BY <1>6 DEF Close, TypeOK
<1>7. ASSUME NEW k \in Keys, Corrupt(k) PROVE TypeOK'
  BY <1>7 DEF Corrupt, TypeOK, K!Objects, K!ObjStates
<1>8. CASE UNCHANGED vars
  BY <1>8 DEF vars, TypeOK
<1>. QED
  BY <1>1, <1>2, <1>3, <1>4, <1>5, <1>6, <1>7, <1>8 DEF Next

(* Type correctness of the client: every response a caller holds belongs *)
(* to the call it has in flight, and every result is well formed.          *)
THEOREM TypeCorrect == Spec => []TypeOK
BY TypeInit, TypeStep, PTL DEF Spec
-----------------------------------------------------------------------------
(* The contract's constant definitions are the same through both instances. *)
LEMMA SameContract ==
  /\ A!NoCall = K!NoCall
  /\ A!NoResult = K!NoResult
  /\ A!Invocations = K!Invocations
  /\ A!Absent = K!Absent
  /\ \A c, e : A!Err(c, e) = Err(c, e)
  /\ \A c, o, rs, sl, cl : A!Answer(c, o, rs, sl, cl) = K!Answer(c, o, rs, sl, cl)
  /\ \A c, o : A!EffectObj(c, o) = K!EffectObj(c, o)
  /\ \A c, rs : A!EffectRefs(c, rs) = K!EffectRefs(c, rs)
<1>1. A!NoCall = K!NoCall /\ A!NoResult = K!NoResult /\ A!Absent = K!Absent
  BY DEF A!NoCall, K!NoCall, A!NoResult, K!NoResult, A!Call, K!Call, A!Err, K!Err, A!Absent, K!Absent
<1>2. A!Invocations = K!Invocations
  BY DEF A!Invocations, K!Invocations, A!AllInvocations, K!AllInvocations, A!Call, K!Call, A!RefArgs, K!RefArgs
<1>3. \A c, e : A!Err(c, e) = Err(c, e)
  BY DEF A!Err, K!Err, Err
<1>4. \A c, o, rs, sl, cl : A!Answer(c, o, rs, sl, cl) = K!Answer(c, o, rs, sl, cl)
  <2> SUFFICES ASSUME NEW c, NEW o, NEW rs, NEW sl, NEW cl
               PROVE  A!Answer(c, o, rs, sl, cl) = K!Answer(c, o, rs, sl, cl)
    OBVIOUS
  <2>1. \A S : A!Cardinality(S) = K!Cardinality(S)
    BY DEF A!Cardinality, K!Cardinality
  <2>. QED
    BY <2>1, Zenon DEF A!Answer, K!Answer, A!Ok, K!Ok, A!Err, K!Err, A!UnitOps, K!UnitOps
<1>5. \A c, o : A!EffectObj(c, o) = K!EffectObj(c, o)
  BY Zenon DEF A!EffectObj, K!EffectObj, A!Absent, K!Absent
<1>6. \A c, rs : A!EffectRefs(c, rs) = K!EffectRefs(c, rs)
  BY Zenon DEF A!EffectRefs, K!EffectRefs
<1>. QED
  BY <1>1, <1>2, <1>3, <1>4, <1>5, <1>6

avars == <<conn, jwt, label, srvLabel, store, refs, AbsPending, AbsResult>>

(* The client starts as the contract does. *)
LEMMA RefInit == Init => A!Init
<1> SUFFICES ASSUME Init PROVE A!Init
  OBVIOUS
<1>1. AbsPending = [c \in Callers |-> A!NoCall]
  BY SameContract DEF Init, AbsPending
<1>2. AbsResult = [c \in Callers |-> A!NoResult]
  BY SameContract DEF Init, AbsResult
<1>. QED
  BY <1>1, <1>2, SameContract DEF Init, A!Init

(* Steps that touch one caller c only: the mapped state of every other  *)
(* caller is unchanged.                                                   *)
LEMMA OtherCallers ==
  ASSUME NEW c \in Callers,
         \A d \in Callers \ {c} : rpc'[d] = rpc[d] /\ resp'[d] = resp[d] /\ result'[d] = result[d],
         label' = label
  PROVE  /\ AbsPending' = [AbsPending EXCEPT ![c] = AbsPending'[c]]
         /\ AbsResult' = [AbsResult EXCEPT ![c] = AbsResult'[c]]
BY DEF AbsPending, AbsResult

(* The invariant the refinement needs besides TypeOK: before NewClient  *)
(* succeeded no call is in flight, so the label NewClient sets is not    *)
(* used by a conversion already under way.                                *)
IInv == TypeOK /\ (conn \in {"none", "failed"} => \A c \in Callers : rpc[c] = K!NoCall)

LEMMA IInvInit == Init => IInv
BY TypeInit DEF Init, IInv

LEMMA IInvStep == IInv /\ [Next]_vars => IInv'
<1> SUFFICES ASSUME IInv, [Next]_vars PROVE IInv'
  OBVIOUS
<1>1. TypeOK'
  BY TypeStep DEF IInv
<1>. QED
  BY <1>1 DEF IInv, Next, vars, NewClient, Invoke, ServerHandle, LoseRequest, Return, Close, Corrupt

LEMMA RefStep == IInv /\ [Next]_vars => [A!Next]_avars
<1> SUFFICES ASSUME IInv, [Next]_vars PROVE [A!Next]_avars
  OBVIOUS
<1>. USE DEF IInv
<1>0. K!Invocations \subseteq K!AllInvocations
  BY DEF K!Invocations
<1>1. CASE NewClient
  <2>1. UNCHANGED <<AbsPending, AbsResult>>
    BY <1>1 DEF NewClient, AbsPending, AbsResult, NoResp, TypeOK
  <2>. QED
    BY <1>1, <2>1 DEF NewClient, A!Create, A!Next, avars
<1>6. CASE Close
  <2>1. UNCHANGED <<AbsPending, AbsResult>>
    BY <1>6 DEF Close, AbsPending, AbsResult
  <2>. QED
    BY <1>6, <2>1 DEF Close, A!Close, A!Next, avars
<1>7. ASSUME NEW k \in Keys, Corrupt(k) PROVE [A!Next]_avars
  <2>1. UNCHANGED <<AbsPending, AbsResult>>
    BY <1>7 DEF Corrupt, AbsPending, AbsResult
  <2>2. A!Corrupt(k)
    BY <1>7, <2>1 DEF Corrupt, A!Corrupt
  <2>. QED
    BY <2>2 DEF A!Next
<1>8. CASE UNCHANGED vars
  BY <1>8 DEF vars, avars, AbsPending, AbsResult
<1>2. ASSUME NEW c \in Callers, NEW inv \in K!Invocations, Invoke(c, inv) PROVE [A!Next]_avars
  <2>1. rpc[c] = K!NoCall /\ resp[c] = NoResp /\ inv /= K!NoCall
    BY <1>0, <1>2, InvocationFields DEF Invoke, TypeOK
  <2>2. /\ AbsPending' = [AbsPending EXCEPT ![c] = AbsPending'[c]]
        /\ AbsResult' = [AbsResult EXCEPT ![c] = AbsResult'[c]]
    <3>1. \A d \in Callers \ {c} : rpc'[d] = rpc[d] /\ resp'[d] = resp[d] /\ result'[d] = result[d]
      BY <1>2 DEF Invoke, TypeOK
    <3>. QED
      BY <1>2, <3>1, OtherCallers DEF Invoke
  <2>3. AbsPending[c] = A!NoCall
    BY <2>1, SameContract DEF AbsPending
  <2>4. CASE jwt /\ result' = [result EXCEPT ![c] = Err(inv, "token")] /\ UNCHANGED rpc
    <3>1. AbsPending'[c] = AbsPending[c] /\ AbsResult'[c] = Err(inv, "token")
      BY <1>2, <2>1, <2>4 DEF Invoke, AbsPending, AbsResult, TypeOK
    <3>2. AbsPending' = AbsPending
      BY <2>2, <3>1 DEF AbsPending
    <3>3. AbsResult' = [AbsResult EXCEPT ![c] = A!Err(inv, "token")]
      BY <2>2, <3>1, SameContract
    <3>4. UNCHANGED <<conn, jwt, label, srvLabel, store, refs>>
      BY <1>2 DEF Invoke
    <3>5. A!Reject(c, inv)
      BY <1>2, <2>3, <2>4, <3>2, <3>3, <3>4 DEF Invoke, A!Reject
    <3>. QED
      BY <3>5, SameContract DEF A!Next
  <2>5. CASE conn = "closed" /\ result' = [result EXCEPT ![c] = Err(inv, "closing")] /\ UNCHANGED rpc
    <3>1. AbsPending'[c] = AbsPending[c] /\ AbsResult'[c] = Err(inv, "closing")
      BY <1>2, <2>1, <2>5 DEF Invoke, AbsPending, AbsResult, TypeOK
    <3>2. AbsPending' = AbsPending
      BY <2>2, <3>1 DEF AbsPending
    <3>3. AbsResult' = [AbsResult EXCEPT ![c] = A!Err(inv, "closing")]
      BY <2>2, <3>1, SameContract
    <3>4. UNCHANGED <<conn, jwt, label, srvLabel, store, refs>>
      BY <1>2 DEF Invoke
    <3>5. A!Reject(c, inv)
      BY <1>2, <2>3, <2>5, <3>2, <3>3, <3>4 DEF Invoke, A!Reject
    <3>. QED
      BY <3>5, SameContract DEF A!Next
  <2>6. CASE conn = "ready" /\ rpc' = [rpc EXCEPT ![c] = inv] /\ UNCHANGED result
    <3>1. AbsPending'[c] = inv /\ AbsResult'[c] = AbsResult[c]
      BY <1>2, <2>1, <2>6 DEF Invoke, AbsPending, AbsResult, TypeOK
    <3>2. AbsResult' = AbsResult
      BY <2>2, <3>1 DEF AbsResult
    <3>3. AbsPending' = [AbsPending EXCEPT ![c] = inv]
      BY <2>2, <3>1
    <3>4. UNCHANGED <<conn, jwt, label, srvLabel, store, refs>>
      BY <1>2 DEF Invoke
    <3>5. A!Invoke(c, inv)
      BY <2>3, <2>6, <3>2, <3>3, <3>4 DEF A!Invoke
    <3>. QED
      BY <3>5, SameContract DEF A!Next
  <2>. QED
    BY <1>2, <2>4, <2>5, <2>6 DEF Invoke
<1>5. ASSUME NEW c \in Callers, Return(c) PROVE [A!Next]_avars
  <2>1. /\ AbsPending' = [AbsPending EXCEPT ![c] = AbsPending'[c]]
        /\ AbsResult' = [AbsResult EXCEPT ![c] = AbsResult'[c]]
    <3>1. \A d \in Callers \ {c} : rpc'[d] = rpc[d] /\ resp'[d] = resp[d] /\ result'[d] = result[d]
      BY <1>5 DEF Return, TypeOK
    <3>. QED
      BY <1>5, <3>1, OtherCallers DEF Return
  <2>2. AbsPending'[c] = AbsPending[c] /\ AbsResult'[c] = AbsResult[c]
    <3>1. rpc[c] /= K!NoCall /\ resp[c] /= NoResp /\ rpc'[c] = K!NoCall /\ resp'[c] = NoResp
      BY <1>5 DEF Return, TypeOK
    <3>2. result'[c] = Convert(rpc[c], resp[c], label) /\ label' = label
      BY <1>5 DEF Return, TypeOK
    <3>3. AbsPending'[c] = AbsPending[c]
      BY <3>1 DEF AbsPending
    <3>4. AbsResult'[c] = AbsResult[c]
      BY <3>1, <3>2 DEF AbsResult
    <3>. QED
      BY <3>3, <3>4
  <2>3. AbsPending' = AbsPending /\ AbsResult' = AbsResult
    BY <2>1, <2>2 DEF AbsPending, AbsResult
  <2>. QED
    BY <1>5, <2>3 DEF Return, avars
<1>3. ASSUME NEW c \in Callers, ServerHandle(c) PROVE [A!Next]_avars
  <2> DEFINE inv == rpc[c]
             k == inv.key
             ans == ServerAnswer(inv, store[k], refs[k], srvLabel)
  <2>1. /\ inv \in K!AllInvocations /\ inv /= K!NoCall /\ k \in Keys
        /\ resp[c] = NoResp /\ store[k] \in K!Objects
    BY <1>0, <1>3, InvocationFields DEF ServerHandle, TypeOK
  <2>2. /\ AbsPending' = [AbsPending EXCEPT ![c] = AbsPending'[c]]
        /\ AbsResult' = [AbsResult EXCEPT ![c] = AbsResult'[c]]
    <3>1. \A d \in Callers \ {c} : rpc'[d] = rpc[d] /\ resp'[d] = resp[d] /\ result'[d] = result[d]
      BY <1>3 DEF ServerHandle, TypeOK
    <3>. QED
      BY <1>3, <3>1, OtherCallers DEF ServerHandle
  <2>3. AbsPending[c] = inv
    BY <2>1 DEF AbsPending
  <2>4. resp'[c] \in {RawErr("rpc_permission_denied"), ans} \cup {RawErr(e) : e \in TransportErrs}
    BY <1>3 DEF ServerHandle, TypeOK
  <2>5. ans /= NoResp
    BY <2>1, ServerAnswerType DEF NoResp, RawErr
  <2>6. /\ AbsPending' = [AbsPending EXCEPT ![c] = A!NoCall]
        /\ AbsResult' = [AbsResult EXCEPT ![c] = Convert(inv, resp'[c], label)]
    <3>1. resp'[c] /= NoResp
      BY <2>4, <2>5 DEF NoResp, RawErr, TransportErrs
    <3>2. AbsPending'[c] = K!NoCall /\ AbsResult'[c] = Convert(inv, resp'[c], label)
      BY <1>3, <2>1, <3>1 DEF ServerHandle, AbsPending, AbsResult
    <3>. QED
      BY <2>2, <3>2, SameContract
  <2>7. UNCHANGED <<conn, jwt, label, srvLabel>>
    BY <1>3 DEF ServerHandle
  <2>8. CASE resp' = [resp EXCEPT ![c] = RawErr("rpc_permission_denied")] /\ UNCHANGED <<store, refs>>
    <3>1. Convert(inv, RawErr("rpc_permission_denied"), label) = Err(inv, "permission_denied")
      BY <2>1, ConvertError, ToErrMapped DEF RespCodes
    <3>2. AbsResult' = [AbsResult EXCEPT ![c] = A!Err(inv, "permission_denied")]
      BY <2>6, <2>8, <3>1, SameContract DEF TypeOK
    <3>3. A!Complete(c)
      BY <2>1, <2>3, <2>6, <2>7, <2>8, <3>2, SameContract DEF A!Complete
    <3>. QED
      BY <3>3 DEF A!Next
  <2>9. CASE K!Apply(inv) /\ resp' = [resp EXCEPT ![c] = ans]
    <3>1. Convert(inv, ans, label) = K!Answer(inv, store[k], refs[k], srvLabel, label)
      BY <2>1, ConvertAnswer
    <3>2. AbsResult' = [AbsResult EXCEPT ![c] = A!Answer(inv, store[k], refs[k], srvLabel, label)]
      BY <2>6, <2>9, <3>1, SameContract DEF TypeOK
    <3>3. A!Apply(inv)
      BY <2>9, SameContract DEF K!Apply, A!Apply
    <3>4. A!Complete(c)
      BY <2>1, <2>3, <2>6, <2>7, <3>2, <3>3, SameContract DEF A!Complete
    <3>. QED
      BY <3>4 DEF A!Next
  <2>10. ASSUME NEW e \in TransportErrs, K!Apply(inv), resp' = [resp EXCEPT ![c] = RawErr(e)]
         PROVE [A!Next]_avars
    <3>1. e \in {"transport"} \cup (IF conn = "closed" THEN {"closing"} ELSE {})
      BY DEF TransportErrs
    <3>2. Convert(inv, RawErr(e), label) = Err(inv, e)
      BY <2>1, <3>1, ConvertError, ToErrMapped DEF RespCodes
    <3>3. AbsResult' = [AbsResult EXCEPT ![c] = A!Err(inv, e)]
      BY <2>6, <2>10, <3>2, SameContract DEF TypeOK
    <3>4. A!Apply(inv)
      BY <2>10, SameContract DEF K!Apply, A!Apply
    <3>5. A!Complete(c)
      BY <2>1, <2>3, <2>6, <2>7, <3>1, <3>3, <3>4, SameContract DEF A!Complete
    <3>. QED
      BY <3>5 DEF A!Next
  <2>11. \/ resp' = [resp EXCEPT ![c] = RawErr("rpc_permission_denied")] /\ UNCHANGED <<store, refs>>
         \/ K!Apply(inv) /\ resp' = [resp EXCEPT ![c] = ans]
         \/ \E e \in TransportErrs : K!Apply(inv) /\ resp' = [resp EXCEPT ![c] = RawErr(e)]
    BY <1>3, Zenon DEF ServerHandle
  <2>. QED
    BY <2>8, <2>9, <2>10, <2>11
<1>4. ASSUME NEW c \in Callers, LoseRequest(c) PROVE [A!Next]_avars
  <2> DEFINE inv == rpc[c]
  <2>1. inv \in K!AllInvocations /\ inv /= K!NoCall /\ resp[c] = NoResp
    BY <1>0, <1>4 DEF LoseRequest, TypeOK
  <2>2. /\ AbsPending' = [AbsPending EXCEPT ![c] = AbsPending'[c]]
        /\ AbsResult' = [AbsResult EXCEPT ![c] = AbsResult'[c]]
    <3>1. \A d \in Callers \ {c} : rpc'[d] = rpc[d] /\ resp'[d] = resp[d] /\ result'[d] = result[d]
      BY <1>4 DEF LoseRequest, TypeOK
    <3>. QED
      BY <1>4, <3>1, OtherCallers DEF LoseRequest
  <2>3. AbsPending[c] = inv
    BY <2>1 DEF AbsPending
  <2>4. PICK e \in TransportErrs : resp' = [resp EXCEPT ![c] = RawErr(e)]
    BY <1>4 DEF LoseRequest
  <2>5. e \in {"transport"} \cup (IF conn = "closed" THEN {"closing"} ELSE {})
    BY DEF TransportErrs
  <2>6. Convert(inv, RawErr(e), label) = Err(inv, e)
    BY <2>1, <2>5, ConvertError, ToErrMapped DEF RespCodes
  <2>7. /\ AbsPending' = [AbsPending EXCEPT ![c] = A!NoCall]
        /\ AbsResult' = [AbsResult EXCEPT ![c] = A!Err(inv, e)]
    <3>1. AbsPending'[c] = K!NoCall /\ AbsResult'[c] = Err(inv, e)
      BY <1>4, <2>1, <2>4, <2>5, <2>6 DEF LoseRequest, AbsPending, AbsResult, NoResp, RawErr, TypeOK
    <3>. QED
      BY <2>2, <3>1, SameContract
  <2>8. A!Complete(c)
    BY <1>4, <2>1, <2>3, <2>5, <2>7, SameContract DEF LoseRequest, A!Complete
  <2>. QED
    BY <2>8 DEF A!Next
<1>. QED
  BY <1>1, <1>2, <1>3, <1>4, <1>5, <1>6, <1>7, <1>8 DEF Next

(* The client implements the data-client contract of spec 4.1: with a    *)
(* call pending until the shard or the network answered it, and the       *)
(* result what the method's conversion code makes of that answer, every  *)
(* step of NewClient, a call, the shard, the network, Close or the disk  *)
(* is a step of the contract or leaves it unchanged - for any number of  *)
(* callers, keys, payloads, references and labels.                       *)
THEOREM ImplementsContract == Spec => ContractSpec
<1>1. [A!Next]_avars => [A!Next]_A!cvars
  BY DEF avars, A!cvars
<1>. QED
  BY IInvInit, IInvStep, RefInit, RefStep, <1>1, PTL DEF Spec, ContractSpec, A!Spec
=============================================================================
