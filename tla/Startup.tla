-------------------------------- MODULE Startup --------------------------------
(***************************************************************************)
(* The start of the process, from the loaded configuration to the call of  *)
(* ListenAndServe: main.go, setup/prepare.go, NewConnector of the data     *)
(* base and NewServer of the API.  All of it runs in one goroutine; what   *)
(* is hard is the configuration, a tree of sections that share subtrees:   *)
(* the redis section of the main configuration becomes the redis section   *)
(* of the data base and of the API, and each writes its defaults into it.  *)
(***************************************************************************)
CONSTANTS
    Programs,   \* "main", and "test": a test starts the API without a data base
    Trees(_),   \* the configurations each may have
    Outages     \* what may be wrong outside: "disk", "files" (the init files),
                \* "database", "redis", "cert", "port"

\* The maps of the tree; "own" sections are those named below DB_ and API_.
Section == {"main", "db", "api", "redis", "ownDb", "ownApi"}
Own     == [db |-> "ownDb", api |-> "ownApi"]

\* An entry: LoadConfig stores texts, defaults and tests other types as well.
Types      == {"text", "bool", "int", "config"}
None       == [type |-> "none", val |-> ""]
Text(v)    == [type |-> "text", val |-> v]
Bool(v)    == [type |-> "bool", val |-> v]
Number(v)  == [type |-> "int", val |-> v]
SubTree(s) == [type |-> "config", val |-> s]

\* A loaded configuration is a tree: a section has its place by its name, and one
\* without a place is empty.  The environment is text; the tests, which do
\* without it, have no shared redis section.
HasSection(t, k) == k \in DOMAIN t["main"] /\ t["main"][k].type = "config"
ASSUME TreeAssumption ==
    /\ Programs \subseteq {"main", "test"}
    /\ \A p \in Programs : \A t \in Trees(p) :
         /\ DOMAIN t = Section
         /\ \A s \in Section : \A k \in DOMAIN t[s] :
              t[s][k].type \in IF p = "main" THEN {"text", "config"} ELSE Types
         /\ \A k \in {"db", "api", "redis"} : HasSection(t, k) => t["main"][k] = SubTree(k)
         /\ \A s \in {"db", "api"} :
              /\ ~ HasSection(t, s) => t[s] = << >>
              /\ "redis" \in DOMAIN t[s] /\ t[s]["redis"].type = "config" =>
                    t[s]["redis"] = SubTree(Own[s])
         /\ p = "test" => ~ HasSection(t, "redis")

VARIABLES
    program, environ, \* which program, and its configuration as it was loaded
    store,            \* the sections by now
    at,               \* where main is
    cache, sessions   \* the connectors it has made: "none", "stub", "redis",
                      \* and "none", "cookie", "redis"

mainVars == <<program, environ, store, at, cache, sessions>>
rest     == <<program, environ, store, cache, sessions>>

Init ==
    /\ program \in Programs
    /\ environ \in Trees(program) /\ store = environ
    /\ at \in IF program = "main" THEN {"environment"} ELSE {"apiPrepare", "apiNew"}
    /\ cache = "none" /\ sessions = "none"

-----------------------------------------------------------------------------
(* Sections *)

Entry(s, k) == IF k \in DOMAIN store[s] THEN store[s][k] ELSE None
Nested(s, k, j) ==
    IF Entry(s, k).type = "config" THEN Entry(Entry(s, k).val, j) ELSE None

\* GetBool: a text is not a boolean, whatever it says.
IsTrue(e) == e = Bool("true")

\* Mutant: what f has is replaced by what d has.
FilledOver(f, d) == [k \in DOMAIN f \cup DOMAIN d |-> IF k \in DOMAIN d THEN d[k] ELSE f[k]]

\* What d has and f has not is added to f.
Filled(f, d) == [k \in DOMAIN f \cup DOMAIN d |-> IF k \in DOMAIN f THEN f[k] ELSE d[k]]

\* Set keeps everything else; what is set already stays: MergeDefault(d) of
\* section s.  Its entry "redis.use" makes a section where there is none, and
\* fails where redis is not a section (a plain REDIS variable).
MayMerge(s) == Entry(s, "redis").type \in {"none", "config"}
MergeDefault(s, d) ==
    LET redis == IF Entry(s, "redis") = None THEN Own[s] ELSE Entry(s, "redis").val
        top == [store EXCEPT ![s] = Filled(Filled(@, d), [redis |-> SubTree(redis)])]
    IN  [top EXCEPT ![redis] = Filled(@, [use |-> Bool("false")])]

\* MergeInConfig(redis): where a subsystem has a section of its own the shared
\* one takes its place, where it has none there is an error that nobody reads.
MergeInConfig(s) ==
    IF Entry(s, "redis").type = "config" /\ Entry("main", "redis").type = "config"
    THEN store' = [store EXCEPT ![s]["redis"] = Entry("main", "redis")]
    ELSE store' = store

-----------------------------------------------------------------------------
(* The goroutine of main *)

Goto(from, to) == at = from /\ at' = to
Die(from) == Goto(from, "dead") /\ UNCHANGED rest

\* PREFIX, the working directory and the time-out, or log.Fatalln.
PrepareEnvironment ==
    \/ Goto("environment", "config") /\ UNCHANGED rest
    \/ "disk" \in Outages /\ Die("environment")

\* ConfigLoad shows how the configuration comes about; it may take too long.
LoadConfig ==
    \/ Goto("config", "dbPrepare") /\ UNCHANGED rest
    \/ Die("config")

\* Without a section of its own a subsystem starts from its defaults: a new
\* map, for which the unused section s stands.
Prepare(s, from, to) ==
    /\ Goto(from, to)
    /\ IF Entry("main", s).type = "config" THEN MergeInConfig(s)
       ELSE store' = [store EXCEPT ![s] = << >>]
    /\ UNCHANGED <<program, environ, cache, sessions>>

PrepareDB  == Prepare("db", "dbPrepare", "dbConnect")
PrepareApi == Prepare("api", "apiPrepare", "apiNew")

DbDefault    == [host |-> Text("localhost"), dbname |-> Text("postgres")]
ApiDefault   == [host |-> Text("127.0.0.1"), port |-> Number("80")]
RedisDefault == [host |-> Text("localhost"), port |-> Number("6379"),
                 password |-> Text(""), db |-> Number("0")]

\* buildConnString reads "name", which no default sets.
NewConnector ==
    LET merged == MergeDefault("db", DbDefault)
        redis  == merged["db"]["redis"].val
        usable == MayMerge("db") /\ "name" \in DOMAIN merged["db"] IN
    \/ /\ usable /\ Goto("dbConnect", "dbInit")
       /\ IF IsTrue(merged[redis]["use"])
          THEN cache' = "redis" /\ store' = [merged EXCEPT ![redis] = Filled(@, RedisDefault)]
          ELSE cache' = "stub" /\ store' = merged
       /\ UNCHANGED <<program, environ, sessions>>
    \/ /\ usable => \/ "database" \in Outages
                    \/ IsTrue(merged[redis]["use"]) /\ "redis" \in Outages
       /\ Die("dbConnect")

\* The init files; one without a table makes buildCreateTableSQL panic.
InitDB ==
    /\ \/ Goto("dbInit", "apiPrepare")
       \/ "database" \in Outages /\ Goto("dbInit", "dead")
       \/ "files" \in Outages /\ at = "dbInit" /\ at' \in {"dead", "panic"}
    /\ UNCHANGED rest

\* connectRedisCache asks for the port as a uint16: no text, and no int.
RedisStore(redis) ==
    /\ {"host", "port", "password", "db"} \subseteq DOMAIN redis
    /\ redis["port"].type = "uint16"

Numeric(e) == e.val \in {"80", "2070", "3080", "12345"} \* strconv.Atoi

NewServer ==
    LET merged == MergeDefault("api", ApiDefault)
        redis  == merged[merged["api"]["redis"].val]
        usable == /\ MayMerge("api") /\ Numeric(merged["api"]["port"])
                  /\ IsTrue(redis["use"]) => RedisStore(redis) IN
    \/ /\ usable /\ Goto("apiNew", "apiInit") /\ store' = merged
       /\ sessions' = IF IsTrue(redis["use"]) THEN "redis" ELSE "cookie"
       /\ UNCHANGED <<program, environ, cache>>
    \/ /\ usable => IsTrue(redis["use"]) /\ "redis" \in Outages
       /\ Die("apiNew")

\* The patches of the init files, as PatchTable has them.  An error does not end
\* the process where Init passes over it (no file there, no information about
\* one) or main does (a directory that cannot be read): it goes on without the
\* patches.
InitApi ==
    \/ Goto("apiInit", "start") /\ UNCHANGED rest
    \/ "files" \in Outages /\ Die("apiInit")

\* loadCert: with both files named the server speaks TLS, if they are a pair;
\* with one of them it does without, and says nothing.
HasCert == Entry("api", "cert") # None /\ Entry("api", "key") # None
StartFails == HasCert /\ "cert" \in Outages /\ Die("start")
StartWorks == Goto("start", "serving") /\ UNCHANGED rest

Startup ==
    \/ PrepareEnvironment \/ LoadConfig \/ PrepareDB \/ NewConnector \/ InitDB
    \/ PrepareApi \/ NewServer \/ InitApi \/ StartFails \/ StartWorks

-----------------------------------------------------------------------------
(* Properties *)

Started == {"apiInit", "start", "serving", "stopping"}

\* What the environment says of a subsystem is what it reads, and the redis
\* section that both may share keeps what was said of it: whoever fills in its
\* defaults first, no default replaces a setting.  (A subsystem's own redis
\* section gives way to the shared one, so nothing is said of it where both are.)
Given(s, k) == IF k \in DOMAIN environ[s] THEN environ[s][k] ELSE None
SettingsKept ==
    /\ \A k \in DOMAIN environ["redis"] : Entry("redis", k) = environ["redis"][k]
    /\ \A s \in {"db", "api"} :
        at \in Started /\ (s = "api" \/ cache # "none") =>
            /\ \A k \in DOMAIN environ[s] \ {"redis"} : Entry(s, k) = environ[s][k]
            /\ Given("main", "redis").type # "config" =>
                 \A k \in DOMAIN environ[Own[s]] : Nested(s, "redis", k) = environ[Own[s]][k]
================================================================================
