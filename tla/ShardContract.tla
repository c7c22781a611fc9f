---------------------------- MODULE ShardContract ----------------------------
(***************************************************************************)
(* What a shard client promises (spec 4.1, 6, 7): each call of a caller   *)
(* takes effect atomically on the shard's objects and reference lists and *)
(* returns the answer the contract gives for the state it met, or fails:  *)
(* locally (token fetch, closed connection) without effect, by the server *)
(* (permission denied) without effect, or in transport, with or without   *)
(* effect (what reached the shard is not rolled back).                    *)
(* The reference list of a key is kept as a set: appends deduplicate.     *)
(***************************************************************************)
EXTENDS Naturals, FiniteSets

CONSTANTS
  Callers,    \* goroutines sharing one client
  Keys,       \* object keys
  Data,       \* non-empty object payloads
  Empty,      \* the zero-length payload
  Refs,       \* reference-list entries
  Labels,     \* namespace labels
  Namespace,  \* the namespace the client is created for
  CallOps     \* the operations the callers use

ObjStates == {"absent", "ok", "corrupted"}
Objects == [st : ObjStates, data : Data \cup {Empty}]
Absent == [st |-> "absent", data |-> Empty]

UnitOps == {"set", "delete", "setrefs", "appendrefs", "delallrefs"}
Ops == UnitOps \cup {"get", "status", "exist", "namespace", "getrefs", "delrefs", "count"}

(* The argument sets enumerated for the reference-list calls. *)
RefArgs == {{}} \cup {{r} : r \in Refs}

(* A call: operation, key and arguments; the unused ones are Empty / {}. *)
Call(o, k, d, R) == [op |-> o, key |-> k, data |-> d, refs |-> R]
AllInvocations ==
  {Call(o, k, Empty, {}) : o \in {"get", "delete", "status", "exist", "getrefs", "delallrefs", "count"}, k \in Keys}
  \cup {Call("set", k, d, R) : k \in Keys, d \in Data \cup {Empty}, R \in RefArgs}
  \cup {Call(o, k, Empty, R) : o \in {"setrefs", "appendrefs", "delrefs"}, k \in Keys, R \in RefArgs}
  \cup {Call("namespace", CHOOSE k \in Keys : TRUE, Empty, {})}
Invocations == {c \in AllInvocations : c.op \in CallOps}
NoCall == Call("none", CHOOSE k \in Keys : TRUE, Empty, {})

(* A result of call c: its error name and its returned value, tagged     *)
(* with the operation (values of different calls have different types).  *)
Ok(c, v) == [err |-> "none", val |-> <<c.op, v>>]
Err(c, e) == [err |-> e, val |-> <<>>]
NoResult == Err(NoCall, "none")

(* The effect of a call on the object and the reference list of its key. *)
EffectObj(c, o) ==
  CASE c.op = "set" -> [st |-> "ok", data |-> c.data]
    [] c.op = "delete" -> Absent
    [] OTHER -> o

EffectRefs(c, rs) ==
  CASE c.op = "set" \/ c.op = "setrefs" -> c.refs
    [] c.op = "appendrefs" -> rs \cup c.refs
    [] c.op = "delrefs" -> rs \ c.refs
    [] c.op = "delallrefs" -> {}
    [] OTHER -> rs

(* The answer the contract (spec 4.1) gives for a call that met object o, *)
(* reference list rs and a shard whose namespace label is slbl.           *)
Answer(c, o, rs, slbl, clbl) ==
  CASE c.op \in UnitOps -> Ok(c, "unit")
    [] c.op = "get" ->
         IF o.st = "absent" THEN Err(c, "key_not_found")
         ELSE IF o.st = "corrupted" THEN Err(c, "corrupted")
         ELSE IF o.data = Empty THEN Err(c, "missing_data")
         ELSE Ok(c, o.data)
    [] c.op = "status" -> Ok(c, IF o.st = "absent" THEN "missing" ELSE o.st)
    [] c.op = "exist" -> IF o.st = "corrupted" THEN Err(c, "corrupted") ELSE Ok(c, o.st = "ok")
    [] c.op = "namespace" -> IF slbl = clbl THEN Ok(c, slbl) ELSE Err(c, "invalid_label")
    [] c.op = "getrefs" -> IF rs = {} THEN Err(c, "missing_reflist") ELSE Ok(c, rs)
    [] c.op = "delrefs" -> Ok(c, Cardinality(rs \ c.refs))
    [] c.op = "count" -> Ok(c, Cardinality(rs))

VARIABLES
  conn,      \* the client: "none", "ready", "failed", "closed"
  jwt,       \* the client fetches a JWT per call
  label,     \* the label the client is bound to
  srvLabel,  \* the label of the shard's namespace
  store,     \* the shard's objects
  refs,      \* the shard's reference lists
  pending,   \* the call each caller has in flight, or NoCall
  result     \* the last result each caller got

cvars == <<conn, jwt, label, srvLabel, store, refs, pending, result>>

Init ==
  /\ conn = "none"
  /\ jwt = FALSE
  /\ label = Namespace
  /\ srvLabel \in Labels
  /\ store = [k \in Keys |-> Absent]
  /\ refs = [k \in Keys |-> {}]
  /\ pending = [c \in Callers |-> NoCall]
  /\ result = [c \in Callers |-> NoResult]

Create ==
  /\ conn = "none"
  /\ \/ conn' = "failed" /\ UNCHANGED <<jwt, label>>
     \/ conn' = "ready" /\ jwt' = FALSE /\ label' = Namespace
     \/ conn' = "ready" /\ jwt' = TRUE /\ label' \in Labels
  /\ UNCHANGED <<srvLabel, store, refs, pending, result>>

Invoke(c, inv) ==
  /\ conn = "ready"
  /\ pending[c] = NoCall
  /\ pending' = [pending EXCEPT ![c] = inv]
  /\ UNCHANGED <<conn, jwt, label, srvLabel, store, refs, result>>

(* A call that fails before reaching the shard. *)
Reject(c, inv) ==
  /\ conn \in {"ready", "closed"}
  /\ pending[c] = NoCall
  /\ \/ jwt /\ result' = [result EXCEPT ![c] = Err(inv, "token")]
     \/ conn = "closed" /\ result' = [result EXCEPT ![c] = Err(inv, "closing")]
  /\ UNCHANGED <<conn, jwt, label, srvLabel, store, refs, pending>>

Apply(inv) ==
  LET k == inv.key
  IN /\ store' = [store EXCEPT ![k] = EffectObj(inv, store[k])]
     /\ refs' = [refs EXCEPT ![k] = EffectRefs(inv, refs[k])]

Complete(c) ==
  LET inv == pending[c]
      k == inv.key
  IN /\ inv /= NoCall
     /\ pending' = [pending EXCEPT ![c] = NoCall]
     /\ \/ /\ Apply(inv)
           /\ result' = [result EXCEPT ![c] = Answer(inv, store[k], refs[k], srvLabel, label)]
        \/ /\ result' = [result EXCEPT ![c] = Err(inv, "permission_denied")]
           /\ UNCHANGED <<store, refs>>
        \/ /\ \E e \in {"transport"} \cup (IF conn = "closed" THEN {"closing"} ELSE {}) :
                result' = [result EXCEPT ![c] = Err(inv, e)]
           /\ (Apply(inv) \/ UNCHANGED <<store, refs>>)
     /\ UNCHANGED <<conn, jwt, label, srvLabel>>

Close ==
  /\ conn = "ready"
  /\ conn' = "closed"
  /\ UNCHANGED <<jwt, label, srvLabel, store, refs, pending, result>>

(* The shard's disk corrupts a stored object. *)
Corrupt(k) ==
  /\ store[k].st = "ok"
  /\ store' = [store EXCEPT ![k].st = "corrupted"]
  /\ UNCHANGED <<conn, jwt, label, srvLabel, refs, pending, result>>

Next ==
  \/ Create \/ Close
  \/ \E c \in Callers, inv \in Invocations : Invoke(c, inv) \/ Reject(c, inv)
  \/ \E c \in Callers : Complete(c)
  \/ \E k \in Keys : Corrupt(k)

Spec == Init /\ [][Next]_cvars
=============================================================================
