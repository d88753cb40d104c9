------------------------------- MODULE ConfigLoad -------------------------------
(***************************************************************************)
(* The configuration of pkg/util/config.go: a tree of maps, one lock each, *)
(* that LoadConfig fills from the environment.  One goroutine reads the    *)
(* environment, one parses what it found, one starts a goroutine per entry *)
(* and waits for all of them on a wait group; LoadConfig waits for that    *)
(* one, at most ten seconds.                                               *)
(***************************************************************************)
EXTENDS Integers, Sequences

CONSTANTS
    Environs,   \* environments the process may be started with
    Value,      \* values of variables, contents of files
    MayTimeOut, \* whether ten seconds may pass
    Config,     \* the entry that is a map
    Nil         \* no entry

\* A variable: whether its name begins with the prefix, the rest of the name
\* in lower case and split at "_", its value, and whether it is a _FILE
\* variable, whose value is that of the file, which may be "missing".
Variable == [ours : BOOLEAN, path : Seq(STRING), value : Value,
             file : {"none", "there", "missing"}]

ASSUME EnvironAssumption ==
    \A e \in Environs : /\ e \in Seq(Variable)
                        /\ \A v \in DOMAIN e : e[v].path # <<>>

ASSUME EntryAssumption ==
    Config \notin Value /\ Nil \notin Value /\ Config # Nil /\ MayTimeOut \in BOOLEAN

\* The variables by their place in the environment, and the places of the
\* tree their names lead through.
Var  == UNION {DOMAIN e : e \in Environs}
Prefixes(p) == {SubSeq(p, 1, n) : n \in 1..Len(p)}
Path == UNION {UNION {Prefixes(e[v].path) : v \in DOMAIN e} : e \in Environs}

VARIABLES
    environ, \* the environment of this process
    store,   \* the entry at every path; what a map holds stays in it when the
             \* map itself is replaced
    next,    \* the variable that getVarStream is at
    stream,  \* its channel, closed or not
    held,    \* the variable that parseVarStream has parsed, 0 for none
    entries, \* its channel
    setter, depth, \* of the goroutine of every entry: what it does next, and
                   \* at which part of the name
    pending, \* the counter of the wait group
    reader, parser, loader, \* the three other goroutines
    result,  \* of LoadConfig
    dead     \* whether the process has ended

pipe    == <<next, stream, held, entries>>
setters == <<setter, depth>>
ends    == <<result, dead>>
vars    == <<environ, store, pipe, setters, pending, reader, parser, loader, ends>>

Init ==
    /\ environ \in Environs
    /\ store = [p \in Path |-> Nil]
    /\ next = 1 /\ held = 0
    /\ stream = [queue |-> <<>>, closed |-> FALSE]
    /\ entries = [queue |-> <<>>, closed |-> FALSE]
    /\ setter = [v \in Var |-> "idle"]
    /\ depth = [v \in Var |-> 1]
    /\ pending = 2 \* getVarStream and parseVarStream have added themselves
    /\ reader = "begin" /\ parser = "receive" /\ loader = "receive"
    /\ result = "none" /\ dead = FALSE

Put(channel, v) == [channel EXCEPT !.queue = Append(@, v)]
Take(channel)   == [channel EXCEPT !.queue = Tail(@)]
Shut(channel)   == [channel EXCEPT !.closed = TRUE]

Dies == dead' = TRUE /\ result' = result

-----------------------------------------------------------------------------
(* getVarStream: its channel has room for the whole environment *)

ReadBegin ==
    /\ reader = "begin" /\ reader' = "read"
    /\ pending' = pending + Len(environ)
    /\ UNCHANGED <<environ, store, pipe, setters, parser, loader, ends>>

\* Mutant: the prefix is not looked at.
ReadForeign ==
    /\ reader = "read" /\ next <= Len(environ)
    /\ next' = next + 1
    /\ stream' = Put(stream, next)
    /\ UNCHANGED <<environ, store, held, entries, setters, pending, reader,
                   parser, loader, ends>>

Read ==
    /\ reader = "read" /\ next <= Len(environ)
    /\ next' = next + 1
    /\ stream' = IF environ[next].ours THEN Put(stream, next) ELSE stream
    /\ UNCHANGED <<environ, store, held, entries, setters, pending, reader,
                   parser, loader, ends>>

\* The deferred calls: Done for every variable, close, Done.
ReadEnd ==
    /\ \/ /\ reader = "read" /\ next > Len(environ) /\ reader' = "leave"
          /\ pending' = pending - Len(environ)
          /\ stream' = Shut(stream)
       \/ /\ reader = "leave" /\ reader' = "done"
          /\ pending' = pending - 1
          /\ stream' = stream
    /\ UNCHANGED <<environ, store, next, held, entries, setters, parser,
                   loader, ends>>

(* parseVarStream *)

\* A file that cannot be opened is a panic.
Parse ==
    /\ parser = "receive" /\ stream.queue # <<>>
    /\ stream' = Take(stream)
    /\ LET v == Head(stream.queue) IN
       IF environ[v].file = "missing"
       THEN Dies /\ UNCHANGED <<held, parser>>
       ELSE held' = v /\ parser' = "send" /\ UNCHANGED ends
    /\ UNCHANGED <<environ, store, next, entries, setters, pending, reader, loader>>

\* There is room for one entry.
SendEntry ==
    /\ parser = "send" /\ entries.queue = <<>>
    /\ entries' = Put(entries, held)
    /\ held' = 0 /\ parser' = "receive"
    /\ UNCHANGED <<environ, store, next, stream, setters, pending, reader, loader, ends>>

\* Mutant: the channel of entries is not closed.
ParseEndOpen ==
    /\ parser = "receive" /\ stream.queue = <<>> /\ stream.closed
    /\ parser' = "done" /\ pending' = pending - 1
    /\ UNCHANGED <<environ, store, pipe, setters, reader, loader, ends>>

ParseEnd ==
    /\ \/ /\ parser = "receive" /\ stream.queue = <<>> /\ stream.closed
          /\ parser' = "leave"
          /\ entries' = Shut(entries) /\ pending' = pending
       \/ /\ parser = "leave" /\ parser' = "done"
          /\ entries' = entries /\ pending' = pending - 1
    /\ UNCHANGED <<environ, store, next, stream, held, setters, reader, loader, ends>>

(* setEntries, and the wait of loadVarsFromEnv *)

\* Mutant: the goroutine is started before it is added.
StartSetterUncounted ==
    /\ loader = "receive" /\ entries.queue # <<>>
    /\ entries' = Take(entries)
    /\ setter' = [setter EXCEPT ![Head(entries.queue)] = "lock"]
    /\ UNCHANGED <<environ, store, next, stream, held, depth, pending, reader,
                   parser, loader, ends>>

StartSetter ==
    /\ loader = "receive" /\ entries.queue # <<>>
    /\ entries' = Take(entries)
    /\ setter' = [setter EXCEPT ![Head(entries.queue)] = "lock"]
    /\ pending' = pending + 1
    /\ UNCHANGED <<environ, store, next, stream, held, depth, reader, parser,
                   loader, ends>>

LoaderWaits ==
    /\ loader = "receive" /\ entries.queue = <<>> /\ entries.closed
    /\ loader' = "wait"
    /\ UNCHANGED <<environ, store, pipe, setters, pending, reader, parser, ends>>

LoaderFinishes ==
    /\ loader = "wait" /\ pending = 0
    /\ loader' = "finished"
    /\ UNCHANGED <<environ, store, pipe, setters, pending, reader, parser, ends>>

-----------------------------------------------------------------------------
(* setRecursive, in the goroutine of one entry *)

Part(v) == SubSeq(environ[v].path, 1, depth[v]) \* the name so far ...
Map(v)  == SubSeq(environ[v].path, 1, depth[v] - 1) \* ... and the map it is in
AtEnd(v) == depth[v] = Len(environ[v].path)

\* The lock of a map is held from here to the write.
Lock(v) ==
    /\ setter[v] = "lock"
    /\ \A w \in Var : setter[w] = "write" => Map(w) # Map(v)
    /\ setter' = [setter EXCEPT ![v] = "write"]
    /\ UNCHANGED <<environ, store, pipe, depth, pending, reader, parser, loader, ends>>

\* Mutant: a map that is missing is not made.
WriteNoMap(v) ==
    /\ setter[v] = "write"
    /\ IF AtEnd(v)
       THEN /\ store' = [store EXCEPT ![Part(v)] = environ[v].value]
            /\ setter' = [setter EXCEPT ![v] = "leave"]
       ELSE store' = store /\ setter' = [setter EXCEPT ![v] = "read"]
    /\ UNCHANGED <<environ, pipe, depth, pending, reader, parser, loader, ends>>

\* Mutant: a map is made whether there is one or not.
WriteNewMap(v) ==
    /\ setter[v] = "write"
    /\ IF AtEnd(v)
       THEN /\ store' = [store EXCEPT ![Part(v)] = environ[v].value]
            /\ setter' = [setter EXCEPT ![v] = "leave"]
       ELSE /\ store' = [p \in Path |->
                  IF p = Part(v) THEN Config
                  ELSE IF Len(p) > depth[v] /\ SubSeq(p, 1, depth[v]) = Part(v)
                  THEN Nil ELSE store[p]]
            /\ setter' = [setter EXCEPT ![v] = "read"]
    /\ UNCHANGED <<environ, pipe, depth, pending, reader, parser, loader, ends>>

Write(v) ==
    /\ setter[v] = "write"
    /\ IF AtEnd(v)
       THEN /\ store' = [store EXCEPT ![Part(v)] = environ[v].value]
            /\ setter' = [setter EXCEPT ![v] = "leave"]
       ELSE /\ store' = [store EXCEPT ![Part(v)] = IF @ = Nil THEN Config ELSE @]
            /\ setter' = [setter EXCEPT ![v] = "read"]
    /\ UNCHANGED <<environ, pipe, depth, pending, reader, parser, loader, ends>>

\* The map of the next part is read after the lock was given back; an entry
\* that is no map is a panic.
Descend(v) ==
    /\ setter[v] = "read"
    /\ IF store[Part(v)] = Config
       THEN /\ depth' = [depth EXCEPT ![v] = @ + 1]
            /\ setter' = [setter EXCEPT ![v] = "lock"]
            /\ UNCHANGED ends
       ELSE Dies /\ UNCHANGED setters
    /\ UNCHANGED <<environ, store, pipe, pending, reader, parser, loader>>

Leave(v) ==
    /\ setter[v] = "leave"
    /\ setter' = [setter EXCEPT ![v] = "done"]
    /\ pending' = pending - 1
    /\ UNCHANGED <<environ, store, pipe, depth, reader, parser, loader, ends>>

\* The runtime ends a process that reads a map while it is written, if it
\* notices; a read that misses the entry ends it as well, in Descend.
MapFault ==
    /\ \E v, w \in Var : setter[v] = "read" /\ setter[w] = "write" /\ Map(v) = Map(w)
    /\ Dies
    /\ UNCHANGED <<environ, store, pipe, setters, pending, reader, parser, loader>>

(* LoadConfig, and main *)

Return ==
    /\ result = "none" /\ loader = "finished"
    /\ result' = "loaded"
    /\ UNCHANGED <<environ, store, pipe, setters, pending, reader, parser, loader, dead>>

TimeOut ==
    /\ MayTimeOut /\ result = "none"
    /\ result' = "timeout"
    /\ UNCHANGED <<environ, store, pipe, setters, pending, reader, parser, loader, dead>>

Exit ==
    /\ result = "timeout"
    /\ Dies
    /\ UNCHANGED <<environ, store, pipe, setters, pending, reader, parser, loader>>

Reader    == ReadBegin \/ Read \/ ReadEnd
Parser    == Parse \/ SendEntry \/ ParseEnd
Loader    == StartSetter \/ LoaderWaits \/ LoaderFinishes
Setter(v) == Lock(v) \/ Write(v) \/ Descend(v) \/ Leave(v)

Next ==
    /\ ~ dead
    /\ \/ Reader \/ Parser \/ Loader
       \/ \E v \in Var : Setter(v)
       \/ MapFault \/ Return \/ TimeOut \/ Exit

Spec == Init /\ [][Next]_vars

\* The Go scheduler runs every goroutine that can run.
FairSpec ==
    /\ Spec
    /\ WF_vars(~ dead /\ Reader) /\ WF_vars(~ dead /\ Parser)
    /\ WF_vars(~ dead /\ Loader) /\ WF_vars(~ dead /\ Return)
    /\ \A v \in Var : WF_vars(~ dead /\ Setter(v))

-----------------------------------------------------------------------------
(* Properties *)

\* Config.Get: what is found under a name.
Get(p) ==
    IF \A n \in 1..Len(p) - 1 : store[SubSeq(p, 1, n)] = Config
    THEN store[p] ELSE Nil

Ours == {v \in DOMAIN environ : environ[v].ours}

\* The name of v leads through the place where another variable has its value.
Shadowed(v) == \E w \in Ours : \E n \in 1..Len(environ[v].path) - 1 :
                  environ[w].path = SubSeq(environ[v].path, 1, n)

Stages == {"idle", "lock", "write", "read", "leave", "done"}

TypeOK ==
    /\ environ \in Environs
    /\ store \in [Path -> Value \cup {Config, Nil}]
    /\ next \in 1..Len(environ) + 1
    /\ held \in 0..Len(environ)
    /\ stream.queue \in Seq(Var) /\ entries.queue \in Seq(Var)
    /\ Len(entries.queue) <= 1
    /\ setter \in [Var -> Stages]
    /\ \A v \in DOMAIN environ : depth[v] \in 1..Len(environ[v].path)
    /\ pending \in Nat

\* The configuration that LoadConfig returns has every variable of the
\* environment, with its value, under its name, however the goroutines that make
\* the maps on the way interleave; a variable is missing only if another has its
\* value where a map is needed.  (Of a variable and its _FILE variant, which have
\* one name, the last written wins: nothing is said of them.)
Alone(v) == \A w \in Ours : environ[w].path = environ[v].path => w = v
LoadedIsComplete ==
    result = "loaded" =>
        \A v \in Ours : Alone(v) /\ ~ Shadowed(v) => Get(environ[v].path) = environ[v].value

\* Nothing is in it that the environment does not say, under the prefix.
OnlyTheEnvironment ==
    \A p \in Path : store[p] \in Value =>
        \E v \in Ours : environ[v].path = p /\ environ[v].value = store[p]

\* Once LoadConfig has returned a configuration no goroutine changes it: its
\* callers read and write it without a thought of the loader.
LoadedIsSettled == [][result = "loaded" => store' = store]_<<store, result>>

\* The process is ended by its own configuration only for a file that is
\* missing, names in conflict, the time-out, or, through the read without a
\* lock, a name of two parts or more beside another one.
EndsForAReason ==
    dead => \/ result = "timeout"
            \/ \E v \in Ours : Shadowed(v) \/ environ[v].file = "missing"
            \/ \E v, w \in Ours : v # w /\ Len(environ[v].path) > 1

\* Channels, locks and the wait group never wait for each other: the loader
\* ends, or the process has.
LoadingEnds == <>(loader = "finished" \/ dead)
===============================================================================
