------------------------------- MODULE LifeCycle -------------------------------
(***************************************************************************)
(* The process around the goroutine of Startup: the goroutine that serves, *)
(* the one that waits for a signal, and the loggers that a cleanup closes, *)
(* each file in a goroutine of its own.  Two may clean up: the signal      *)
(* goroutine, and main when it panics.  (main never returns, so what it    *)
(* defers is run by a panic only.)                                         *)
(***************************************************************************)
EXTENDS Startup

File    == {"patch", "db", "api", "sessions"}
Cleaner == {"signal", "main"}

VARIABLES
    logging,    \* whether LOGFOLDER is set
    files,      \* logFileList
    log,        \* each file: "none", "open", "closed", "moved"; "stuck" where
                \* it could not be moved
    clean,      \* of each cleaner: "idle", "listing", "waiting", "done", "expired"
    task,       \* its goroutines, one for a file: "close", "move", "finished"
    server,     \* the http.Server: "new", "listening", "shut"
    serving,    \* the goroutine of Start: "none", "starting", "serving", "gone"
    running,    \* the flag of Server
    busy,       \* a request is being handled
    cancelled,  \* the context of main
    exit        \* how the process ended: "no", "fatal", a cleaner, "tested"

loggers  == <<logging, files, log>>
cleaners == <<clean, task>>
web      == <<server, serving, running, busy, cancelled>>
lifeVars == <<mainVars, loggers, cleaners, web, exit>>

LifeInit ==
    /\ Init
    /\ logging = FALSE /\ files = {} /\ log = [f \in File |-> "none"]
    /\ clean = [c \in Cleaner |-> "idle"] /\ task = [c \in Cleaner |-> << >>]
    /\ server = "new" /\ serving = "none" /\ running = FALSE
    /\ busy = FALSE /\ cancelled = FALSE /\ exit = "no"

Alive == exit = "no"
Ends  == exit' = IF at' = "dead" THEN "fatal" ELSE exit

-----------------------------------------------------------------------------
(* main *)

\* CreateLogger opens a file where a folder is known.
Opens(f, on) ==
    /\ files' = IF on THEN files \cup {f} ELSE files
    /\ log' = IF on THEN [log EXCEPT ![f] = "open"] ELSE log

Silently(A) == Alive /\ A /\ Ends /\ UNCHANGED <<loggers, cleaners, web>>

\* A step of Startup that makes the logger of file f when it succeeds.
Logged(A, f) ==
    /\ Alive /\ A /\ Ends /\ logging' = logging
    /\ IF at' = "dead" THEN UNCHANGED <<files, log>> ELSE Opens(f, logging)
    /\ UNCHANGED <<cleaners, web>>

\* SetDefaultLogger has a folder where there is a log section and EnsureDir
\* gets at it; the default file is never opened, DEFAULTFILE being a text.
Configure ==
    /\ Alive /\ LoadConfig /\ Ends
    /\ \/ logging' = ("log" \in DOMAIN environ["main"])
       \/ "disk" \in Outages /\ logging' = FALSE
    /\ IF at' = "dead" THEN UNCHANGED <<files, log>> ELSE Opens("patch", logging')
    /\ UNCHANGED <<cleaners, web>>

\* AddRoutes does without a file of its own for the sessions.
NewServerLogged ==
    \/ Logged(NewServer, "sessions")
    \/ logging /\ "disk" \in Outages /\ Silently(NewServer)

\* Any other log file that cannot be opened ends the start.
LoggerFails ==
    /\ Alive /\ logging /\ "disk" \in Outages
    /\ Die("dbPrepare") \/ Die("apiPrepare")
    /\ Ends /\ UNCHANGED <<loggers, cleaners, web>>

\* Start: the flag first, then the certificate, then the goroutine.
Start ==
    /\ Alive
    /\ running' = TRUE
    /\ \/ StartFails /\ serving' = serving
       \/ StartWorks /\ serving' = "starting"
    /\ Ends /\ UNCHANGED <<loggers, cleaners, server, busy, cancelled>>

\* PATCH_TIMEOUT has passed: the context is cancelled, and main sleeps on.
TimeOut ==
    /\ Alive /\ program = "main" /\ Goto("serving", "asleep")
    /\ cancelled' = TRUE
    /\ UNCHANGED <<rest, loggers, cleaners, server, serving, running, busy, exit>>

\* Stop, which only a test calls: the listener goes, requests may finish.
Stop ==
    /\ Alive /\ program = "test" /\ running /\ Goto("serving", "stopping")
    /\ server' = "shut"
    /\ UNCHANGED <<rest, loggers, cleaners, serving, running, busy, cancelled, exit>>

StopReturns ==
    /\ Alive /\ ~busy /\ Goto("stopping", "dead")
    /\ running' = FALSE /\ exit' = "tested"
    /\ UNCHANGED <<rest, loggers, cleaners, server, serving, busy, cancelled>>

\* The deferred cleanup(mainStop).
Panic ==
    /\ Alive /\ program = "main" /\ Goto("panic", "recovering")
    /\ cancelled' = TRUE
    /\ clean' = [clean EXCEPT !["main"] = "listing"]
    /\ UNCHANGED <<rest, loggers, task, server, serving, running, busy, exit>>

Main ==
    \/ Silently(PrepareEnvironment) \/ Configure \/ LoggerFails
    \/ Logged(PrepareDB, "db") \/ Silently(NewConnector) \/ Silently(InitDB)
    \/ Logged(PrepareApi, "api") \/ NewServerLogged \/ Silently(InitApi)
    \/ Start \/ StopReturns \/ Panic

-----------------------------------------------------------------------------
(* The goroutine of Start *)

\* Mutant: a server that was shut down listens all the same.
ListenAnyway ==
    /\ Alive /\ serving = "starting"
    /\ serving' = "serving" /\ server' = "listening"
    /\ UNCHANGED <<mainVars, loggers, cleaners, running, busy, cancelled, exit>>

\* ListenAndServe: returns because of a Shutdown, be it before or after.
Listen ==
    /\ Alive
    /\ \/ /\ serving = "starting" /\ server = "new"
          /\ server' = "listening" /\ serving' = "serving"
       \/ /\ serving \in {"starting", "serving"} /\ server = "shut"
          /\ server' = server /\ serving' = "gone"
    /\ UNCHANGED <<mainVars, loggers, cleaners, running, busy, cancelled, exit>>

\* Any other error of it, such as a port in use, is fatal.
ListenFails ==
    /\ Alive /\ serving = "starting" /\ server = "new" /\ "port" \in Outages
    /\ at' = "dead" /\ exit' = "fatal"
    /\ UNCHANGED <<rest, loggers, cleaners, web>>

\* Mutant: a connection that is kept open brings requests after the Shutdown.
ServeKeptOpen ==
    /\ Alive /\ server # "new" /\ busy' = ~busy
    /\ UNCHANGED <<mainVars, loggers, cleaners, server, serving, running, cancelled, exit>>

Serve ==
    /\ Alive
    /\ \/ server = "listening" /\ ~busy /\ busy' = TRUE
       \/ busy /\ busy' = FALSE
    /\ UNCHANGED <<mainVars, loggers, cleaners, server, serving, running, cancelled, exit>>

-----------------------------------------------------------------------------
(* Cleaning up *)

Signal ==
    /\ Alive /\ program = "main" /\ clean["signal"] = "idle"
    /\ clean' = [clean EXCEPT !["signal"] = "listing"]
    /\ UNCHANGED <<mainVars, loggers, task, web, exit>>

\* Mutant: one for every file there may be, opened or not.
ListEvery(c) ==
    /\ Alive /\ clean[c] = "listing"
    /\ clean' = [clean EXCEPT ![c] = "waiting"]
    /\ task' = [task EXCEPT ![c] = [f \in File |-> "close"]]
    /\ UNCHANGED <<mainVars, loggers, web, exit>>

\* terminationWrapper: a goroutine for every file on the list by now.
List(c) ==
    /\ Alive /\ clean[c] = "listing"
    /\ clean' = [clean EXCEPT ![c] = "waiting"]
    /\ task' = [task EXCEPT ![c] = [f \in files |-> "close"]]
    /\ UNCHANGED <<mainVars, loggers, web, exit>>

At(c, f, t) == Alive /\ f \in DOMAIN task[c] /\ task[c][f] = t

\* terminateLogger: a last line, sync and close; then the rename.  A file that
\* another cleaner has closed, or moved, makes for errors without effect.
CloseFile(c, f) ==
    /\ At(c, f, "close")
    /\ log' = [log EXCEPT ![f] = IF @ = "open" THEN "closed" ELSE @]
    /\ task' = [task EXCEPT ![c][f] = "move"]
    /\ UNCHANGED <<mainVars, logging, files, clean, web, exit>>

\* Mutant: the error channel has no buffer, and nobody receives from it.
MoveUnbuffered(c, f) ==
    /\ At(c, f, "move") /\ log[f] = "closed"
    /\ \/ log' = [log EXCEPT ![f] = "moved"] /\ task' = [task EXCEPT ![c][f] = "finished"]
       \/ "disk" \in Outages /\ log' = [log EXCEPT ![f] = "stuck"] /\ task' = task
    /\ UNCHANGED <<mainVars, logging, files, clean, web, exit>>

\* The error channel has a buffer of one, so an error does not block.
MoveFile(c, f) ==
    /\ At(c, f, "move")
    /\ \/ log[f] # "moved" /\ log' = [log EXCEPT ![f] = "moved"]
       \/ log[f] # "moved" /\ "disk" \in Outages /\ log' = [log EXCEPT ![f] = "stuck"]
       \/ log[f] = "moved" /\ log' = log
    /\ task' = [task EXCEPT ![c][f] = "finished"]
    /\ UNCHANGED <<mainVars, logging, files, clean, web, exit>>

\* Mutant: Add is called in the goroutine, so Wait may be through before it.
WaitTooEarly(c) ==
    /\ Alive /\ clean[c] = "waiting"
    /\ \A f \in DOMAIN task[c] : task[c][f] # "move"
    /\ clean' = [clean EXCEPT ![c] = "done"]
    /\ UNCHANGED <<mainVars, loggers, task, web, exit>>

AllClosed(c) ==
    /\ Alive /\ clean[c] = "waiting"
    /\ \A f \in DOMAIN task[c] : task[c][f] = "finished"
    /\ clean' = [clean EXCEPT ![c] = "done"]
    /\ UNCHANGED <<mainVars, loggers, task, web, exit>>

\* TerminateLoggers waits five seconds at most.
GivesUp(c) ==
    /\ Alive /\ clean[c] = "waiting"
    /\ clean' = [clean EXCEPT ![c] = "expired"]
    /\ UNCHANGED <<mainVars, loggers, task, web, exit>>

\* os.Exit, or log.Fatalln with the error that was recovered.
Leave(c) ==
    /\ Alive /\ clean[c] \in {"done", "expired"}
    /\ at' = "dead" /\ exit' = c
    /\ UNCHANGED <<rest, loggers, cleaners, web>>

Tidy(c) == List(c) \/ AllClosed(c) \/ Leave(c) \/ \E f \in File : CloseFile(c, f) \/ MoveFile(c, f)

LifeNext ==
    \/ Main \/ TimeOut \/ Stop \/ Listen \/ ListenFails \/ Serve \/ Signal
    \/ \E c \in Cleaner : Tidy(c) \/ GivesUp(c)

\* Goroutines run on and requests end (a registration does if its destination
\* answers); a signal need not come, nor five seconds pass.
LifeSpec ==
    /\ LifeInit /\ [][LifeNext]_lifeVars
    /\ WF_lifeVars(Main) /\ WF_lifeVars(Listen)
    /\ WF_lifeVars(busy /\ Serve)
    /\ \A c \in Cleaner : WF_lifeVars(Tidy(c))

-----------------------------------------------------------------------------
(* Properties *)

LifeTypeOK ==
    /\ program \in {"main", "test"} /\ cache \in {"none", "stub", "redis"}
    /\ \A s \in Section : \A k \in DOMAIN store[s] : store[s][k].type \in Types
    /\ sessions \in {"none", "cookie", "redis"}
    /\ files \subseteq File
    /\ log \in [File -> {"none", "open", "closed", "moved", "stuck"}]
    /\ clean \in [Cleaner -> {"idle", "listing", "waiting", "done", "expired"}]
    /\ \A c \in Cleaner : /\ DOMAIN task[c] \subseteq files
                          /\ \A f \in DOMAIN task[c] : task[c][f] \in {"close", "move", "finished"}
    /\ server \in {"new", "listening", "shut"}
    /\ serving \in {"none", "starting", "serving", "gone"}
    /\ \A flag \in {logging, running, busy, cancelled} : flag \in BOOLEAN
    /\ exit \in {"no", "fatal", "tested"} \cup Cleaner

\* A process that a cleanup has ended in time leaves no log file open, or not
\* moved without an error, except those that main opened after the cleanup had
\* read the list: the order of the two cleaners, of their goroutines and of main
\* does not matter.
LogsRetired ==
    exit \in Cleaner /\ clean[exit] = "done" =>
        \A f \in File : log[f] \in {"open", "closed"} => f \notin DOMAIN task[exit]

\* While the server listens the flag says so, and once Stop has shut it down it
\* stays down, even if the goroutine of Start gets there last.
ListensOnlyWhenRunning ==
    /\ server = "listening" => running /\ at \in {"serving", "asleep", "dead"}
    /\ at = "stopping" \/ exit = "tested" => server = "shut"

\* A signal, or a panic while the init files are loaded, ends the process, and
\* without waiting for the five seconds: no rename that fails keeps a goroutine,
\* and the wait group counts down.
CleanupEnds == \A c \in Cleaner : (clean[c] = "listing") ~> (at = "dead")

\* Stop returns: nothing is accepted after the Shutdown, so what it waits for
\* comes to an end.
StopEnds == (at = "stopping") ~> (at = "dead")
================================================================================
