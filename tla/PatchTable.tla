------------------------------- MODULE PatchTable -------------------------------
(***************************************************************************)
(* The forwarding table of pkg/api/patch.go: a map from path to            *)
(* destination that the HTTP handlers share without a lock, filled at the  *)
(* start from the init files (pkg/api/server.go).  Before a destination is *)
(* stored it is sent a GET, which has no timeout; other handlers run in    *)
(* the meantime.                                                           *)
(***************************************************************************)
EXTENDS Integers, Sequences

CONSTANTS
    Client,         \* handlers that run at the same time
    Offered,        \* the requests that are sent
    Main,           \* the goroutine that loads the init files
    Base,           \* texts without "/"
    Host,           \* hosts that answer, sooner or later
    Slow,           \* hosts that accept a connection and never answer
    InitFiles,      \* the patches of every init file, in the order of loading
    Nil             \* no text, no destination

ASSUME ActorAssumption == Main \notin Client

\* A path is some "/" and a text, "" if the text is Nil.
Path == [slashes : 0..2, base : Base \cup {Nil}]

EmptyPath == [slashes |-> 0, base |-> Nil]

\* A destination as it is written, and what is missing in it; Nil is a text
\* that is no URL at all.
Dest == [scheme : {"http", "https", "ftp", "none"}, host : Host \cup Slow \cup {Nil},
         port : {"80", "443", "other", "none"}]

ASSUME NilAssumption == Nil \notin Dest

ASSUME PatchAssumption ==
    InitFiles \in Seq(Seq([path : Path, dest : Dest \cup {Nil}]))

\* Requests that name one path in their URL: gin matches /:dest with one
\* segment, which is not empty and has no "/".
Segment == {p \in Path : p.slashes = 0 /\ p.base # Nil}

Request ==
    [op : {"PATCH"}, path : Path, dest : Dest \cup {Nil}]
      \cup [op : {"GET", "DELETE"}, path : Segment]
      \cup [op : {"LIST"}]

ASSUME OfferedAssumption == Offered \subseteq Request

Actor   == Client \cup {Main}
Stages  == {"done", "check", "fetch", "store", "read", "delete"}
Replies == {"none", "applied", "refused", "found", "list", "deleted", "not found"}

VARIABLES
    table,  \* the destination of every path, Nil for none
    phase,  \* of the process: "init", "serving" or "dead"
    file, at, \* the init file that Main is at, and the patch in it
    skipped,  \* auxiliary: the init files that were passed over
    stage, call, reply \* of every actor

loading == <<file, at, skipped>>
vars    == <<table, phase, loading, stage, call, reply>>

Start ==
    /\ table = [p \in Path |-> Nil]
    /\ phase = "init"
    /\ file = 0 /\ at = 0 /\ skipped = {}
    /\ stage = [a \in Actor |-> "done"]
    /\ call = [a \in Actor |-> [op |-> "LIST"]]
    /\ reply = [a \in Actor |-> "none"]

-----------------------------------------------------------------------------
(* registerPath *)

\* sanitizePath takes one "/" away.
Sanitize(p) == IF p.slashes > 0 THEN [p EXCEPT !.slashes = @ - 1] ELSE p

\* validatePath, up to the GET: what it refuses, and the port it fills in.
WellFormed(d) ==
    /\ d # Nil /\ d.scheme # "none" /\ d.host # Nil
    /\ d.port = "none" => d.scheme \in {"http", "https"}

\* Mutants: the port of https is forgotten; the scheme is given as the port.
CompleteHttp(d)   == IF d.port = "none" /\ d.scheme = "http"
                     THEN [d EXCEPT !.port = "80"] ELSE d
CompleteScheme(d) == IF d.port # "none" THEN d ELSE [d EXCEPT !.port = d.scheme]

Complete(d) ==
    IF d.port # "none" THEN d
    ELSE [d EXCEPT !.port = IF d.scheme = "http" THEN "80" ELSE "443"]

Answer(a, e) ==
    /\ stage' = [stage EXCEPT ![a] = "done"]
    /\ reply' = [reply EXCEPT ![a] = e]

Goto(a, s) == stage' = [stage EXCEPT ![a] = s] /\ reply' = reply

Check(a) ==
    /\ stage[a] = "check"
    /\ IF table[Sanitize(call[a].path)] # Nil \/ ~ WellFormed(call[a].dest)
       THEN Answer(a, "refused")
       ELSE Goto(a, "fetch")
    /\ UNCHANGED <<table, phase, loading, call>>

\* The destinations that a GET never comes back from.  What is not HTTP is
\* refused before it is sent.
Hangs(d) == d.scheme \in {"http", "https"} /\ d.host \in Slow

\* http.DefaultClient.Get: an answer 200, or anything else.
Fetch(a) ==
    /\ stage[a] = "fetch" /\ ~ Hangs(call[a].dest)
    /\ \/ call[a].dest.scheme \in {"http", "https"} /\ Goto(a, "store")
       \/ Answer(a, "refused")
    /\ UNCHANGED <<table, phase, loading, call>>

Store(a) ==
    /\ stage[a] = "store"
    /\ table' = [table EXCEPT ![Sanitize(call[a].path)] = Complete(call[a].dest)]
    /\ Answer(a, "applied")
    /\ UNCHANGED <<phase, loading, call>>

-----------------------------------------------------------------------------
(* The init files: one after the other, up to the first that is refused *)

\* Mutant: a patch or a file that is refused is logged and passed over.
GoesOnAnyway == phase = "init" /\ stage[Main] = "done"

GoesOn == phase = "init" /\ stage[Main] = "done" /\ reply[Main] # "refused"

Through == file \in DOMAIN InitFiles \ skipped => at = Len(InitFiles[file])

\* Server.Init answers nil when it cannot stat the file or the folder, and main
\* lets ErrOpenInitFile pass, which is a folder that cannot be read.
PassOver ==
    /\ GoesOn /\ file = 0
    /\ phase' = "serving" /\ skipped' = DOMAIN InitFiles
    /\ UNCHANGED <<table, file, at, stage, call, reply>>

\* A file of the folder without an Info is passed over; one that cannot be read
\* or parsed, or is not called .json, is refused.
NextFile ==
    /\ GoesOn /\ Through /\ file < Len(InitFiles)
    /\ file' = file + 1 /\ at' = 0
    /\ \/ skipped' = skipped \cup {file + 1} /\ UNCHANGED <<stage, reply>>
       \/ skipped' = skipped /\ UNCHANGED <<stage, reply>>
       \/ skipped' = skipped /\ Answer(Main, "refused")
    /\ UNCHANGED <<table, phase, call>>

\* The loop of Apply.
LoadPatch ==
    /\ GoesOn /\ ~ Through
    /\ at' = at + 1
    /\ LET patch == InitFiles[file][at + 1] IN
       call' = [call EXCEPT ![Main] =
                  [op |-> "PATCH", path |-> patch.path, dest |-> patch.dest]]
    /\ stage' = [stage EXCEPT ![Main] = "check"]
    /\ reply' = [reply EXCEPT ![Main] = "none"]
    /\ UNCHANGED <<table, phase, file, skipped>>

Loaded ==
    /\ GoesOn /\ Through /\ file = Len(InitFiles)
    /\ phase' = "serving"
    /\ UNCHANGED <<table, loading, stage, call, reply>>

\* main ends the process when a patch or a file was refused.
LoadFails ==
    /\ phase = "init" /\ reply[Main] = "refused"
    /\ phase' = "dead"
    /\ UNCHANGED <<table, loading, stage, call, reply>>

-----------------------------------------------------------------------------
(* The handlers *)

Handle(c) ==
    /\ phase = "serving" /\ stage[c] = "done"
    /\ \E request \in Offered :
          /\ call' = [call EXCEPT ![c] = request]
          /\ stage' = [stage EXCEPT ![c] =
                CASE request.op = "PATCH"  -> "check"
                  [] request.op = "DELETE" -> "delete"
                  [] OTHER                 -> "read"]
          /\ reply' = [reply EXCEPT ![c] = "none"]
    /\ UNCHANGED <<table, phase, loading>>

\* Mutant: one lock for the table, which registerPath holds during the GET.
ReadLocked(c) ==
    /\ stage[c] = "read"
    /\ \A a \in Actor : stage[a] # "fetch"
    /\ Answer(c, IF call[c].op = "LIST" THEN "list"
                 ELSE IF table[call[c].path] # Nil THEN "found" ELSE "not found")
    /\ UNCHANGED <<table, phase, loading, call>>

Read(c) ==
    /\ stage[c] = "read"
    /\ Answer(c, IF call[c].op = "LIST" THEN "list"
                 ELSE IF table[call[c].path] # Nil THEN "found" ELSE "not found")
    /\ UNCHANGED <<table, phase, loading, call>>

Delete(c) ==
    /\ stage[c] = "delete"
    /\ Answer(c, IF table[call[c].path] # Nil THEN "deleted" ELSE "not found")
    /\ table' = [table EXCEPT ![call[c].path] = Nil]
    /\ UNCHANGED <<phase, loading, call>>

\* The runtime ends a process that reads or writes a map while another
\* goroutine writes it, if it notices.
MapFault ==
    /\ \E a, b \in Actor :
          /\ a # b /\ stage[a] \in {"store", "delete"}
          /\ stage[b] \in {"check", "store", "read", "delete"}
    /\ phase' = "dead"
    /\ UNCHANGED <<table, loading, stage, call, reply>>

\* The table is lost with the process.
Restart ==
    /\ phase = "dead"
    /\ table' = [p \in Path |-> Nil]
    /\ phase' = "init"
    /\ file' = 0 /\ at' = 0 /\ skipped' = {}
    /\ stage' = [a \in Actor |-> "done"]
    /\ call' = [a \in Actor |-> [op |-> "LIST"]]
    /\ reply' = [a \in Actor |-> "none"]

Advance(a) ==
    phase # "dead" /\ (Check(a) \/ Fetch(a) \/ Store(a) \/ Read(a) \/ Delete(a))

Next ==
    \/ PassOver \/ NextFile \/ LoadPatch \/ Loaded \/ LoadFails
    \/ MapFault \/ Restart
    \/ \E c \in Client : Handle(c)
    \/ \E a \in Actor : Advance(a)

Spec == Start /\ [][Next]_vars

\* Every goroutine runs on, except in a GET that is never answered.
FairSpec == Spec /\ \A a \in Actor : WF_vars(Advance(a))

-----------------------------------------------------------------------------
(* Properties *)

TypeOK ==
    /\ table \in [Path -> Dest \cup {Nil}]
    /\ phase \in {"init", "serving", "dead"}
    /\ file \in 0..Len(InitFiles) /\ at \in Nat /\ skipped \subseteq DOMAIN InitFiles
    /\ stage \in [Actor -> Stages]
    /\ call \in [Actor -> Request]
    /\ reply \in [Actor -> Replies]

\* "path already exists" (patch.go:82): a path keeps its destination until it
\* is deleted or the process ends.
NoOverwrite ==
    [][\A p \in Path : table[p] # Nil /\ table'[p] # Nil => table'[p] = table[p]]_vars

\* Whatever was written, only destinations that can be sent a request to are in
\* the table, complete with their port, and none that has never answered.
DestinationsUsable ==
    \A p \in Path : table[p] # Nil =>
        /\ table[p].scheme \in {"http", "https"}
        /\ table[p].host \in Host
        /\ table[p].port # "none"

Place(patch) == table[Sanitize(patch.path)] = Complete(patch.dest)

\* The server is started with every patch of an init file in place or, if the
\* file was passed over, with none of it: a start never goes on with a part of a
\* file, nor after a patch that was refused.
StartsComplete ==
    [][phase = "init" /\ phase' = "serving" =>
         \A f \in DOMAIN InitFiles \ skipped' :
            \A i \in DOMAIN InitFiles[f] : Place(InitFiles[f][i])]_vars

\* A destination that never answers holds up the request that names it and no
\* other: the table is not locked during the GET.
OthersAreAnswered ==
    \A c \in Client :
        stage[c] # "done" /\ (call[c].op = "PATCH" /\ call[c].dest # Nil =>
                                 ~ Hangs(call[c].dest))
          ~> stage[c] = "done" \/ phase = "dead"
===============================================================================
