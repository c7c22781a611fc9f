---------------------------- MODULE MCListKeys ----------------------------
(* Model-checking instance of ListKeys: two keys, streams of up to three *)
(* responses, so that a cancel can race a buffered and an in-flight key.  *)
EXTENDS ListKeys

CONSTANTS k1, k2, empty

MCKeys == {k1, k2}
=============================================================================
