---------------------------- MODULE MCShardClient ----------------------------
(* One caller using every call of the data client, on one key, with one   *)
(* payload besides the empty one, one reference and two labels (so that  *)
(* GetLabel may return a label the shard does not have).                  *)
EXTENDS ShardClient
CONSTANTS c1, k1, d1, empty, r1, l1, l2
MCCallers == {c1}
MCKeys == {k1}
MCData == {d1}
MCRefs == {r1}
MCLabels == {l1, l2}
MCCallOps == {"set", "get", "delete", "status", "exist", "namespace",
              "setrefs", "appendrefs", "delrefs", "delallrefs", "getrefs", "count"}
=============================================================================
