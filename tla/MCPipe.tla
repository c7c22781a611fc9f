------------------------------- MODULE MCPipe -------------------------------
(* Every type validate accepts, the empty type, and names a configuration  *)
(* file may hold by mistake: a capitalised type (the comparisons are       *)
(* case-sensitive), a codec's name in place of the stage's and an unknown   *)
(* word.                                                                   *)
EXTENDS Pipe

MCTypes == ValidPipes \cup {"", "Compress", "lz4", "bogus"}
=============================================================================
