-------------------------------- MODULE Pipe --------------------------------
(***************************************************************************)
(* One pipe of the client configuration (client/config/pipe.go).  The     *)
(* caller (the configuration loader, not in the repository) may call the  *)
(* pipe's methods in any order: validate, setConfigType, CreateBlockReader *)
(* and CreateBlockWriter.  p.Config holds what the YAML parser produced (a *)
(* map), or, in a Pipe literal built by a program, any Config type, until   *)
(* setConfigType replaces it by the Config type its switch                 *)
(* names for p.Type; the Create methods type-assert it against the Config  *)
(* type their own switch names, and a failed assertion, like              *)
(* setConfigType's own panic, crashes the process.  The three switches are *)
(* written separately in the code and are modelled separately here.        *)
(***************************************************************************)
EXTENDS Naturals

CONSTANTS
  Types       \* the type names a configuration file may give a pipe

(* validPipes (config package, not under src): the types validate accepts. *)
ValidPipes == {"chunker", "compress", "distribution", "encrypt", "hash", "replication"}

(* The Go types a pipe's Config may hold after setConfigType. *)
ConfigTypes == {"chunker.Config", "compress.Config", "encrypt.Config", "hash.Config",
                "replication.Config", "distribution.Config"}

(* Mutant: the hash case missing from setConfigType's switch. *)
SetConfigCasesNoHash ==
  [t \in {"chunker", "compress", "encrypt", "replication", "distribution"} |->
     CASE t = "chunker"      -> "chunker.Config"
       [] t = "compress"     -> "compress.Config"
       [] t = "encrypt"      -> "encrypt.Config"
       [] t = "replication"  -> "replication.Config"
       [] t = "distribution" -> "distribution.Config"]

(* Mutant: the compress case unmarshals into an encrypt.Config. *)
SetConfigCasesWrongConf ==
  [t \in {"chunker", "compress", "encrypt", "hash", "replication", "distribution"} |->
     CASE t = "chunker"      -> "chunker.Config"
       [] t = "compress"     -> "encrypt.Config"
       [] t = "encrypt"      -> "encrypt.Config"
       [] t = "hash"         -> "hash.Config"
       [] t = "replication"  -> "replication.Config"
       [] t = "distribution" -> "distribution.Config"]

(* setConfigType's switch: for each case, the Config it unmarshals into  *)
(* and stores in p.Config.                                                 *)
SetConfigCases ==
  [t \in {"chunker", "compress", "encrypt", "hash", "replication", "distribution"} |->
     CASE t = "chunker"      -> "chunker.Config"
       [] t = "compress"     -> "compress.Config"
       [] t = "encrypt"      -> "encrypt.Config"
       [] t = "hash"         -> "hash.Config"
       [] t = "replication"  -> "replication.Config"
       [] t = "distribution" -> "distribution.Config"]

(* CreateBlockReader's switch: for each case, the Config it asserts. *)
ReaderCases ==
  [t \in {"compress", "encrypt", "distribution"} |->
     CASE t = "compress"     -> "compress.Config"
       [] t = "encrypt"      -> "encrypt.Config"
       [] t = "distribution" -> "distribution.Config"]

(* CreateBlockWriter's switch: for each case, the Config it asserts. *)
WriterCases ==
  [t \in {"compress", "distribution", "encrypt"} |->
     CASE t = "compress"     -> "compress.Config"
       [] t = "distribution" -> "distribution.Config"
       [] t = "encrypt"      -> "encrypt.Config"]

VARIABLES
  ptype,      \* p.Type
  config,     \* the dynamic type of p.Config: "map", or a Config type
  validated,  \* the last validate returned nil
  typed,      \* the last setConfigType returned nil
  panic,      \* where the process crashed in a panic: "none", "switch", "assert"
  reader,     \* the case of the block reader CreateBlockReader built, or "none"
  writer      \* the case of the block writer CreateBlockWriter built, or "none"

vars == <<ptype, config, validated, typed, panic, reader, writer>>

Init ==
  /\ ptype \in Types
  /\ config \in {"map"} \cup ConfigTypes
  /\ validated = FALSE
  /\ typed = FALSE
  /\ panic = "none"
  /\ reader = "none"
  /\ writer = "none"

(* validate: the validator's nonzero tag on Type, then validPipes. *)
Validate ==
  /\ panic = "none"
  /\ validated' = (ptype /= "" /\ ptype \in ValidPipes)
  /\ UNCHANGED <<ptype, config, typed, panic, reader, writer>>

(* Mutant: a failed yaml.Marshal leaves p.Config set to nil. *)
SetConfigTypeClearOnError ==
  /\ panic = "none"
  /\ \/ typed' = FALSE /\ config' = "nil" /\ UNCHANGED panic
     \/ /\ ptype \in DOMAIN SetConfigCases
        /\ \/ typed' = FALSE /\ UNCHANGED config
           \/ typed' = TRUE /\ config' = SetConfigCases[ptype]
        /\ UNCHANGED panic
     \/ ptype \notin DOMAIN SetConfigCases /\ panic' = "switch" /\ UNCHANGED <<config, typed>>
  /\ UNCHANGED <<ptype, validated, reader, writer>>

(* setConfigType: yaml.Marshal of the config may fail (returns); then the *)
(* switch on Type unmarshals into the case's Config - which may fail,    *)
(* leaving p.Config as it was - or panics on a type it does not list.    *)
SetConfigType ==
  /\ panic = "none"
  /\ \/ typed' = FALSE /\ UNCHANGED <<config, panic>>
     \/ /\ ptype \in DOMAIN SetConfigCases
        /\ \/ typed' = FALSE /\ UNCHANGED config
           \/ typed' = TRUE /\ config' = SetConfigCases[ptype]
        /\ UNCHANGED panic
     \/ ptype \notin DOMAIN SetConfigCases /\ panic' = "switch" /\ UNCHANGED <<config, typed>>
  /\ UNCHANGED <<ptype, validated, reader, writer>>

(* A Create method's switch over cases: the default case returns an     *)
(* error; a listed case type-asserts p.Config (a panic if it holds       *)
(* another type) and calls the stage's constructor, which may fail.      *)
Build(cases, built) ==
  \/ ptype \notin DOMAIN cases /\ UNCHANGED <<built, panic>>
  \/ /\ ptype \in DOMAIN cases
     /\ \/ config = cases[ptype] /\ (built' = ptype \/ UNCHANGED built) /\ UNCHANGED panic
        \/ config /= cases[ptype] /\ panic' = "assert" /\ UNCHANGED built

CreateBlockReader ==
  /\ panic = "none"
  /\ Build(ReaderCases, reader)
  /\ UNCHANGED <<ptype, config, validated, typed, writer>>

CreateBlockWriter ==
  /\ panic = "none"
  /\ Build(WriterCases, writer)
  /\ UNCHANGED <<ptype, config, validated, typed, reader>>

Next == Validate \/ SetConfigType \/ CreateBlockReader \/ CreateBlockWriter

Spec == Init /\ [][Next]_vars

-----------------------------------------------------------------------------
TypeOK ==
  /\ ptype \in Types
  /\ config \in {"map"} \cup ConfigTypes
  /\ validated \in BOOLEAN /\ typed \in BOOLEAN /\ panic \in {"none", "switch", "assert"}
  /\ reader \in {"none"} \cup DOMAIN ReaderCases
  /\ writer \in {"none"} \cup DOMAIN WriterCases

(* The pipe's methods panic only when called out of order: setConfigType *)
(* never panics on a pipe validate accepted (its switch lists every type  *)
(* of validPipes), and CreateBlockReader / CreateBlockWriter never panic  *)
(* once setConfigType returned nil (the Config each setConfigType case    *)
(* stores is the one the Create methods' case for that type asserts).     *)
PanicOnlyOnMisuse ==
  /\ panic = "switch" => ~validated
  /\ panic = "assert" => ~typed
=============================================================================
