----------------------------- MODULE ServerBoot -----------------------------
(***************************************************************************)
(* The zstordb command (cmd/zstordb/commands/root.go, rootFunc): open the *)
(* database, create the GRPC server (deferring its Close), optionally     *)
(* start the profiling HTTP goroutine, optionally set up a profile        *)
(* (stat / create its output directory, defer the profile's Stop), listen,*)
(* start the Serve goroutine, and wait for Serve's error or a SIGINT.     *)
(* What the environment does (a failing open, stat, mkdir, listen; Serve  *)
(* ending; a SIGINT) is a nondeterministic choice.                        *)
(***************************************************************************)
EXTENDS Naturals, Sequences

CONSTANTS
  ProfileModes   \* the --profile-mode values other than the empty one

VARIABLES
  cfg,        \* the flags rootFunc reads: [auth, profileAddr, profileMode]
  pc,         \* the main goroutine's place in rootFunc
  server,     \* the GRPC server: "none", "created", "closed"
  profiling,  \* the deferred profile: "off", "started", "stopped"
  profGo,     \* the profiling HTTP goroutine: "none", "running"
  serveGo,    \* the Serve goroutine: "none", "serving", "sending", "done"
  errChan,    \* errChan (capacity 1)
  sigChan,    \* sigChan (capacity 1): the SIGINTs signal.Notify buffered
  notified,   \* signal.Notify(sigChan, SIGINT) has run
  exit        \* how the process ended: "running", "error", "ok", "panic", "killed"

vars == <<cfg, pc, server, profiling, profGo, serveGo, errChan, sigChan, notified, exit>>

(* The flag values rootFunc distinguishes (init, lines 167-193). *)
Configs == [auth : BOOLEAN, profileAddr : BOOLEAN, profileMode : {""} \cup ProfileModes]

(* The outcomes of os.Stat on --profile-output. *)
StatResults == {"dir", "file", "notexist", "error"}

Running == exit = "running"

Init ==
  /\ cfg \in Configs
  /\ pc = "open_db"
  /\ server = "none"
  /\ profiling = "off"
  /\ profGo = "none"
  /\ serveGo = "none"
  /\ errChan = <<>>
  /\ sigChan = 0
  /\ notified = FALSE
  /\ exit = "running"

(* rootFunc returns (an error, or nil on SIGINT): its deferred calls run *)
(* last-registered first - the profile's Stop, then storServer.Close -   *)
(* and main exits with the result.                                        *)
ReturnWith(e) ==
  /\ pc' = "returned"
  /\ exit' = e
  /\ profiling' = IF profiling = "started" THEN "stopped" ELSE profiling
  /\ server' = IF server = "created" THEN "closed" ELSE server

(* A panic in the main goroutine unwinds it, running the deferred calls, *)
(* and then crashes the process.                                          *)
PanicMain ==
  /\ pc' = "panicked"
  /\ exit' = "panic"
  /\ profiling' = IF profiling = "started" THEN "stopped" ELSE profiling
  /\ server' = IF server = "created" THEN "closed" ELSE server

OpenDB ==
  /\ Running /\ pc = "open_db"
  /\ \/ pc' = "new_server" /\ UNCHANGED <<exit, profiling, server>>
     \/ ReturnWith("error")
  /\ UNCHANGED <<cfg, profGo, serveGo, errChan, sigChan, notified>>

(* grpc.New, with or without the JWT verifier; on success Close is deferred. *)
NewServer ==
  /\ Running /\ pc = "new_server"
  /\ \/ pc' = "profile_addr" /\ server' = "created" /\ UNCHANGED <<exit, profiling>>
     \/ ReturnWith("error")
  /\ UNCHANGED <<cfg, profGo, serveGo, errChan, sigChan, notified>>

StartProfiler ==
  /\ Running /\ pc = "profile_addr"
  /\ pc' = "profile_mode"
  /\ profGo' = IF cfg.profileAddr THEN "running" ELSE "none"
  /\ UNCHANGED <<cfg, server, profiling, serveGo, errChan, sigChan, notified, exit>>

(* The profiling goroutine: ListenAndServe fails and log.Panicf crashes  *)
(* the process; no deferred call of rootFunc runs.                        *)
ProfilerPanic ==
  /\ Running /\ profGo = "running"
  /\ exit' = "panic"
  /\ UNCHANGED <<cfg, pc, server, profiling, profGo, serveGo, errChan, sigChan, notified>>

(* Lines 83-119: os.Stat; a non-NotExist error returns; NotExist creates *)
(* the directory and goes on with the nil stat; stat.IsDir() then        *)
(* dereferences it; a file returns an error; a directory starts the     *)
(* profile and defers its Stop.                                           *)
ProfileSetup ==
  /\ Running /\ pc = "profile_mode"
  /\ \/ /\ cfg.profileMode = ""
        /\ pc' = "listen" /\ UNCHANGED <<exit, profiling, server>>
     \/ /\ cfg.profileMode /= ""
        /\ \E st \in StatResults :
             \/ st = "error" /\ ReturnWith("error")
             \/ st = "notexist" /\ (ReturnWith("error") \/ PanicMain)
             \/ st = "file" /\ ReturnWith("error")
             \/ st = "dir" /\ pc' = "listen" /\ profiling' = "started" /\ UNCHANGED <<exit, server>>
  /\ UNCHANGED <<cfg, profGo, serveGo, errChan, sigChan, notified>>

(* net.Listen; then signal.Notify, the Serve goroutine, and the select. *)
Listen ==
  /\ Running /\ pc = "listen"
  /\ \/ pc' = "select" /\ serveGo' = "serving" /\ notified' = TRUE /\ UNCHANGED <<exit, profiling, server>>
     \/ ReturnWith("error") /\ UNCHANGED <<serveGo, notified>>
  /\ UNCHANGED <<cfg, profGo, errChan, sigChan>>

(* storServer.Serve returns: an accept error, or the server was closed. *)
ServeReturns ==
  /\ Running /\ serveGo = "serving"
  /\ serveGo' = "sending"
  /\ UNCHANGED <<cfg, pc, server, profiling, profGo, errChan, sigChan, notified, exit>>

ServeSend ==
  /\ Running /\ serveGo = "sending"
  /\ Len(errChan) < 1
  /\ errChan' = Append(errChan, "err")
  /\ serveGo' = "done"
  /\ UNCHANGED <<cfg, pc, server, profiling, profGo, sigChan, notified, exit>>

(* Mutant: every SIGINT queued, as if sigChan had no capacity limit. *)
SigIntQueued ==
  /\ Running
  /\ \/ ~notified /\ exit' = "killed" /\ UNCHANGED sigChan
     \/ notified /\ sigChan' = sigChan + 1 /\ UNCHANGED exit
  /\ UNCHANGED <<cfg, pc, server, profiling, profGo, serveGo, errChan, notified>>

(* A SIGINT: before signal.Notify it kills the process; after, it is      *)
(* buffered in sigChan, or dropped when the buffer is full.               *)
SigInt ==
  /\ Running
  /\ \/ ~notified /\ exit' = "killed" /\ UNCHANGED sigChan
     \/ notified /\ sigChan' = 1 /\ UNCHANGED exit
  /\ UNCHANGED <<cfg, pc, server, profiling, profGo, serveGo, errChan, notified>>

(* Mutant: rootFunc waits on errChan only. *)
SelectErrOnly ==
  /\ Running /\ pc = "select"
  /\ errChan /= <<>> /\ ReturnWith("error") /\ errChan' = Tail(errChan)
  /\ UNCHANGED <<cfg, profGo, serveGo, notified, sigChan>>

(* The select: either ready case, Go picks at random. *)
Select ==
  /\ Running /\ pc = "select"
  /\ \/ errChan /= <<>> /\ ReturnWith("error") /\ errChan' = Tail(errChan) /\ UNCHANGED sigChan
     \/ sigChan = 1 /\ ReturnWith("ok") /\ sigChan' = 0 /\ UNCHANGED errChan
  /\ UNCHANGED <<cfg, profGo, serveGo, notified>>

Next ==
  \/ OpenDB \/ NewServer \/ StartProfiler \/ ProfilerPanic \/ ProfileSetup
  \/ Listen \/ ServeReturns \/ ServeSend \/ SigInt \/ Select

(* The main goroutine and the Serve goroutine are scheduled while they   *)
(* can run; signals and the profiler's failure come from outside.         *)
Spec == Init /\ [][Next]_vars /\ WF_vars(Select) /\ WF_vars(ServeSend)
           /\ WF_vars(OpenDB) /\ WF_vars(NewServer) /\ WF_vars(StartProfiler)
           /\ WF_vars(ProfileSetup) /\ WF_vars(Listen)

TypeOK ==
  /\ cfg \in Configs
  /\ pc \in {"open_db", "new_server", "profile_addr", "profile_mode", "listen", "select",
            "returned", "panicked"}
  /\ server \in {"none", "created", "closed"}
  /\ profiling \in {"off", "started", "stopped"}
  /\ profGo \in {"none", "running"}
  /\ serveGo \in {"none", "serving", "sending", "done"}
  /\ errChan \in Seq({"err"}) /\ Len(errChan) <= 1
  /\ sigChan \in 0..1 /\ notified \in BOOLEAN
  /\ exit \in {"running", "error", "ok", "panic", "killed"}

(* Once Serve has returned or a SIGINT has been buffered, the process    *)
(* ends: the select takes one of them, even if the other never comes.    *)
ShutdownEnds == (serveGo = "sending" \/ sigChan = 1) ~> (exit /= "running")

(* rootFunc handles every failure of its start-up by returning an error: *)
(* it never panics (the code's own checks of os.Stat and MkdirAll).      *)
StartupNeverPanics == pc /= "panicked"
=============================================================================
