---------------------------- MODULE LifeCycleProofs ----------------------------
(***************************************************************************)
(* The invariants of Startup and LifeCycle, for every configuration that   *)
(* the assumption about the trees admits.  What main does to the sections  *)
(* is followed from place to place; that no section can switch redis on,   *)
(* that settings never mix and that log files are opened before a cleaner  *)
(* can have them on its list are what the invariants need in between.      *)
(***************************************************************************)
EXTENDS LifeCycle, TLAPS

-----------------------------------------------------------------------------
(* The configuration: what the goroutine of main has made of it by now      *)

Redis == {"redis", "ownDb", "ownApi"}

\* What the environment says stays; what is added to a redis section is the
\* switch, off.  Only the place of the redis section itself may change.
Kept ==
    \A s \in Section : \A k \in DOMAIN environ[s] :
        k # "redis" \/ s \notin {"db", "api"} =>
            k \in DOMAIN store[s] /\ store[s][k] = environ[s][k]
Added ==
    \A r \in Redis : \A k \in DOMAIN store[r] \ DOMAIN environ[r] :
        k = "use" /\ store[r][k] = Bool("false")

\* The redis section that subsystem s works with: the shared one if both exist.
RedisOf(s) ==
    IF Given("main", s).type # "config" \/ Given(s, "redis") = None THEN Own[s]
    ELSE IF Given("main", "redis").type = "config" THEN "redis" ELSE Own[s]

\* A subsystem's section as it was loaded, with the shared redis section put in
\* place of its own, and with the defaults merged in.
Untouched(s) == store[s] = environ[s]
Passed(s) ==
    IF Given("main", s).type = "config" /\ Given(s, "redis").type = "config"
          /\ Given("main", "redis").type = "config"
    THEN SubTree("redis") ELSE Given(s, "redis")
Prepared(s) == DOMAIN store[s] = DOMAIN environ[s] /\ Entry(s, "redis") = Passed(s)
Ready(s)    == Entry(s, "redis") = SubTree(RedisOf(s))

BeforeDb  == {"environment", "config", "dbPrepare"}
BeforeApi == BeforeDb \cup {"dbConnect", "dbInit", "apiPrepare"}

Shape ==
    /\ program \in Programs /\ environ \in Trees(program)
    /\ DOMAIN store = Section /\ store["main"] = environ["main"]
    /\ \A s \in Section : \A k \in DOMAIN store[s] : store[s][k].type \in Types
    /\ cache \in {"none", "stub"} /\ sessions \in {"none", "cookie"}

DbSteps ==
    /\ at \in BeforeDb \cup {"dbConnect", "dbInit"} => program = "main"
    /\ at \in BeforeDb => Untouched("db")
    /\ at = "dbConnect" => Prepared("db")
    /\ at \in BeforeDb \cup {"dbConnect"} => cache = "none"
    /\ program = "main" /\ at \in {"dbInit", "apiPrepare", "apiNew"} \cup Started =>
         cache = "stub" /\ "name" \in DOMAIN environ["db"]
    /\ cache # "none" => Ready("db")

ApiSteps ==
    /\ at \in BeforeApi => Untouched("api")
    /\ at = "apiNew" => Prepared("api")
    /\ at \in Started => Ready("api") /\ sessions = "cookie" /\ Numeric(Entry("api", "port"))

StartInv == Shape /\ Kept /\ Added /\ DbSteps /\ ApiSteps

-----------------------------------------------------------------------------
(* The process: log files, cleanups and the server                         *)

\* Main has not opened file f yet while it is at one of these places.
Early(f) ==
    CASE f = "patch"    -> {"environment", "config"}
      [] f = "db"       -> BeforeDb
      [] f = "api"      -> BeforeApi
      [] f = "sessions" -> BeforeApi \cup {"apiNew"}

LifeTypes ==
    /\ files \subseteq File
    /\ log \in [File -> {"none", "open", "closed", "moved", "stuck"}]
    /\ clean \in [Cleaner -> {"idle", "listing", "waiting", "done", "expired"}]
    /\ DOMAIN task = Cleaner
    /\ \A c \in Cleaner : /\ DOMAIN task[c] \subseteq files
                          /\ \A f \in DOMAIN task[c] : task[c][f] \in {"close", "move", "finished"}
    /\ server \in {"new", "listening", "shut"}
    /\ serving \in {"none", "starting", "serving", "gone"}
    /\ logging \in BOOLEAN /\ running \in BOOLEAN /\ busy \in BOOLEAN /\ cancelled \in BOOLEAN
    /\ exit \in {"no", "fatal", "tested"} \cup Cleaner

\* A file is opened once, before any cleaner can have it on its list; what a
\* cleaner has finished with is retired, and a cleaner that is done has
\* finished with all of its files.
FilesInv ==
    /\ \A f \in File : at \in Early(f) => f \notin files
    /\ \A c \in Cleaner : \A f \in DOMAIN task[c] :
         /\ task[c][f] = "finished" => log[f] \in {"moved", "stuck"}
         /\ clean[c] = "done" => task[c][f] = "finished"

\* The goroutine of Start listens only while nobody has shut the server down.
ServerInv ==
    /\ server = "listening" \/ (serving = "starting" /\ server = "new") =>
         running /\ at \in {"serving", "asleep", "dead"}
    /\ at = "stopping" \/ exit = "tested" => server = "shut"

LifeInv == StartInv /\ LifeTypes /\ FilesInv /\ ServerInv

-----------------------------------------------------------------------------
(* Facts about the configuration                                           *)

LEMMA NoneIsNoEntry == None.type = "none" /\ "none" \notin Types /\ "config" \in Types
  BY DEF None, Types

\* What the assumption about the trees says of the configuration in use.
LEMMA TreeFacts ==
    ASSUME Shape
    PROVE  /\ program \in {"main", "test"} /\ DOMAIN environ = Section
           /\ \A s \in Section : \A k \in DOMAIN environ[s] :
                /\ environ[s][k].type \in Types
                /\ program = "main" => environ[s][k].type \in {"text", "config"}
           /\ \A k \in {"db", "api", "redis"} :
                Given("main", k).type = "config" => Given("main", k) = SubTree(k)
           /\ \A s \in {"db", "api"} :
                /\ Given("main", s).type # "config" => environ[s] = << >>
                /\ Given(s, "redis").type = "config" => Given(s, "redis") = SubTree(Own[s])
           /\ program = "test" => Given("main", "redis").type # "config"
           /\ \A s \in Section : \A k : Given(s, k) = None <=> k \notin DOMAIN environ[s]
<1> DEFINE t == environ
<1>1. /\ program \in {"main", "test"} /\ DOMAIN t = Section
      /\ \A s \in Section : \A k \in DOMAIN t[s] :
           t[s][k].type \in IF program = "main" THEN {"text", "config"} ELSE Types
      /\ \A k \in {"db", "api", "redis"} : HasSection(t, k) => t["main"][k] = SubTree(k)
      /\ \A s \in {"db", "api"} :
           /\ ~ HasSection(t, s) => t[s] = << >>
           /\ "redis" \in DOMAIN t[s] /\ t[s]["redis"].type = "config" =>
                 t[s]["redis"] = SubTree(Own[s])
      /\ program = "test" => ~ HasSection(t, "redis")
  BY TreeAssumption DEF Shape
<1>2. \A k : HasSection(t, k) <=> Given("main", k).type = "config"
  BY DEF HasSection, Given, None
<1>3. \A s \in Section : \A k \in DOMAIN t[s] :
        /\ t[s][k].type \in Types
        /\ program = "main" => t[s][k].type \in {"text", "config"}
  BY <1>1 DEF Types
<1>4. \A s \in Section : \A k : Given(s, k) = None <=> k \notin DOMAIN environ[s]
  BY <1>3, NoneIsNoEntry DEF Given
<1>5. \A k \in {"db", "api", "redis"} :
        Given("main", k).type = "config" => Given("main", k) = SubTree(k)
  BY <1>1, <1>2 DEF Given, None
<1>6. \A s \in {"db", "api"} :
        /\ Given("main", s).type # "config" => environ[s] = << >>
        /\ Given(s, "redis").type = "config" => Given(s, "redis") = SubTree(Own[s])
  BY <1>1, <1>2 DEF Given, None
<1> QED
  BY <1>1, <1>2, <1>3, <1>4, <1>5, <1>6

\* Filled keeps the first function and adds what only the second has.
LEMMA FilledFacts ==
    ASSUME NEW f, NEW d
    PROVE  /\ DOMAIN Filled(f, d) = DOMAIN f \cup DOMAIN d
           /\ \A k \in DOMAIN f : Filled(f, d)[k] = f[k]
           /\ \A k \in DOMAIN d \ DOMAIN f : Filled(f, d)[k] = d[k]
  BY DEF Filled

\* What a merge of defaults makes of a section that is as it was passed on: the
\* redis section it uses is the one that RedisOf names.
LEMMA Merged ==
    ASSUME Shape, NEW s \in {"db", "api"}, Prepared(s), MayMerge(s), NEW d, "redis" \notin DOMAIN d
    PROVE  LET r == RedisOf(s)
               M == MergeDefault(s, d)
           IN  /\ r \in Redis /\ DOMAIN M = Section
               /\ \A q \in Section \ {s, r} : M[q] = store[q]
               /\ M[s] = Filled(Filled(store[s], d), [redis |-> SubTree(r)])
               /\ M[r] = Filled(store[r], [use |-> Bool("false")])
               /\ "redis" \in DOMAIN M[s] /\ M[s]["redis"] = SubTree(r)
<1> DEFINE r == RedisOf(s)
           given == Given(s, "redis")
           redis == IF Entry(s, "redis") = None THEN Own[s] ELSE Entry(s, "redis").val
           M == MergeDefault(s, d)
<1>1. Entry(s, "redis") = Passed(s) /\ Passed(s).type \in {"none", "config"}
  BY DEF Prepared, MayMerge
<1>2. /\ s \in Section /\ s \notin Redis /\ Own[s] \in Redis /\ DOMAIN store = Section
      /\ Redis \subseteq Section
  BY DEF Section, Redis, Own, Shape
<1>3. /\ Given("main", s).type # "config" => given = None
      /\ given.type = "config" => given = SubTree(Own[s])
      /\ given = None <=> given.type = "none"
  <2>1. Given("main", s).type # "config" => environ[s] = << >>
    BY TreeFacts
  <2>2. environ[s] = << >> => DOMAIN environ[s] = {}
    OBVIOUS
  <2>3. given = None <=> given.type = "none"
    BY <1>2, TreeFacts, NoneIsNoEntry DEF Given
  <2> QED
    BY <2>1, <2>2, <2>3, TreeFacts DEF Given
<1>4. /\ redis = r /\ r \in Redis
      /\ Entry(s, "redis") = None \/ Entry(s, "redis") = SubTree(r)
  <2>1. CASE given = None
    <3>1. given.type # "config"
      BY <2>1, NoneIsNoEntry
    <3>2. Passed(s) = None /\ r = Own[s]
      BY <2>1, <3>1 DEF Passed, RedisOf
    <3> QED
      BY <3>2, <1>1, <1>2
  <2>2. CASE given.type = "config"
    <3>1. given # None /\ given = SubTree(Own[s]) /\ Given("main", s).type = "config"
      BY <2>2, <1>3 DEF None
    <3>2. r = IF Given("main", "redis").type = "config" THEN "redis" ELSE Own[s]
      BY <3>1 DEF RedisOf
    <3>3. Passed(s) = SubTree(r)
      BY <2>2, <3>1, <3>2 DEF Passed
    <3>4. SubTree(r) # None /\ SubTree(r).val = r
      BY DEF SubTree, None
    <3> QED
      BY <3>2, <3>3, <3>4, <1>1, <1>2 DEF Redis
  <2>3. given.type \in {"none", "config"}
    BY <1>1 DEF Passed, SubTree
  <2> QED
    BY <2>1, <2>2, <2>3, <1>3
<1>5. r # s /\ r \in Section /\ s \in Section
  BY <1>2, <1>4
<1>6. M = [[store EXCEPT ![s] = Filled(Filled(store[s], d), [redis |-> SubTree(r)])]
             EXCEPT ![r] = Filled([store EXCEPT ![s] = Filled(Filled(store[s], d),
                                     [redis |-> SubTree(r)])][r], [use |-> Bool("false")])]
  BY <1>4 DEF MergeDefault
<1> HIDE DEF M, r, redis
<1>7. /\ DOMAIN M = Section
      /\ \A q \in Section \ {s, r} : M[q] = store[q]
      /\ M[s] = Filled(Filled(store[s], d), [redis |-> SubTree(r)])
      /\ M[r] = Filled(store[r], [use |-> Bool("false")])
  BY <1>2, <1>5, <1>6
<1>8. "redis" \in DOMAIN M[s] /\ M[s]["redis"] = SubTree(r)
  <2> DEFINE f == Filled(store[s], d)
             e == [redis |-> SubTree(r)]
  <2>1. DOMAIN f = DOMAIN store[s] \cup DOMAIN d /\ \A k \in DOMAIN store[s] : f[k] = store[s][k]
    BY FilledFacts
  <2>2. DOMAIN e = {"redis"} /\ e["redis"] = SubTree(r)
    OBVIOUS
  <2>3. "redis" \in DOMAIN f => f["redis"] = SubTree(r)
    <3>1. "redis" \in DOMAIN f => "redis" \in DOMAIN store[s]
      BY <2>1
    <3>2. "redis" \in DOMAIN store[s] => Entry(s, "redis") = store[s]["redis"] /\ Entry(s, "redis") # None
      BY <1>5, NoneIsNoEntry DEF Entry, Shape
    <3> QED
      BY <3>1, <3>2, <2>1, <1>4
  <2> HIDE DEF f, e
  <2>4. M[s] = Filled(f, e)
    BY <1>7 DEF f, e
  <2>5. /\ DOMAIN Filled(f, e) = DOMAIN f \cup DOMAIN e
        /\ \A k \in DOMAIN f : Filled(f, e)[k] = f[k]
        /\ \A k \in DOMAIN e \ DOMAIN f : Filled(f, e)[k] = e[k]
    BY FilledFacts
  <2> QED
    BY <2>2, <2>3, <2>4, <2>5
<1> QED
  BY <1>4, <1>7, <1>8 DEF M, r

\* In main no entry of a redis section switches it on.
LEMMA RedisOff ==
    ASSUME Shape, Kept, Added, program = "main", NEW r \in Redis, NEW k \in DOMAIN store[r]
    PROVE  ~ IsTrue(store[r][k])
<1>1. r \in Section /\ r \notin {"db", "api"}
  BY DEF Redis, Section
<1>2. CASE k \in DOMAIN environ[r]
  <2>1. store[r][k] = environ[r][k]
    BY <1>1, <1>2 DEF Kept
  <2>2. environ[r][k].type \in {"text", "config"}
    BY <1>1, <1>2, TreeFacts
  <2> QED
    BY <2>1, <2>2 DEF IsTrue, Bool
<1>3. CASE k \notin DOMAIN environ[r]
  BY <1>3 DEF Added, IsTrue, Bool
<1> QED
  BY <1>2, <1>3

\* A merge of defaults keeps the configuration in shape.
LEMMA MergeKeeps ==
    ASSUME Shape, Kept, Added, NEW s \in {"db", "api"}, Prepared(s), MayMerge(s),
           NEW d, "redis" \notin DOMAIN d, \A k \in DOMAIN d : d[k].type \in Types,
           store' = MergeDefault(s, d), UNCHANGED <<program, environ>>
    PROVE  /\ DOMAIN store' = Section /\ store'["main"] = store["main"]
           /\ \A q \in Section : \A k \in DOMAIN store'[q] : store'[q][k].type \in Types
           /\ Kept' /\ Added' /\ Ready(s)'
           /\ \A q \in {"db", "api"} : q # s => store'[q] = store[q]
           /\ \A k \in DOMAIN d : k \in DOMAIN store'[s]
           /\ DOMAIN store'[s] = DOMAIN store[s] \cup DOMAIN d \cup {"redis"}
           /\ RedisOf(s) \in Redis /\ store'[s]["redis"] = SubTree(RedisOf(s))
           /\ "use" \in DOMAIN store'[RedisOf(s)]
           /\ program = "main" => ~ IsTrue(store'[RedisOf(s)]["use"])
<1> DEFINE r == RedisOf(s)
           f == Filled(store[s], d)
           e == [redis |-> SubTree(r)]
           u == [use |-> Bool("false")]
<1>1. /\ r \in Redis /\ DOMAIN store' = Section
      /\ \A q \in Section \ {s, r} : store'[q] = store[q]
      /\ store'[s] = Filled(f, e) /\ store'[r] = Filled(store[r], u)
      /\ "redis" \in DOMAIN store'[s] /\ store'[s]["redis"] = SubTree(r)
  BY Merged
<1>2. r' = r
  BY DEF RedisOf, Given
<1>3. DOMAIN e = {"redis"} /\ e["redis"].type = "config" /\ DOMAIN u = {"use"}
      /\ u["use"] = Bool("false") /\ u["use"].type = "bool"
  BY DEF SubTree, Bool
<1> HIDE DEF r, f, e, u
<1>4. /\ DOMAIN store'[s] = DOMAIN store[s] \cup DOMAIN d \cup {"redis"}
      /\ \A k \in DOMAIN store[s] : store'[s][k] = store[s][k]
      /\ \A k \in DOMAIN d \ DOMAIN store[s] : store'[s][k] = d[k]
  <2>1. /\ DOMAIN f = DOMAIN store[s] \cup DOMAIN d
        /\ \A k \in DOMAIN store[s] : f[k] = store[s][k]
        /\ \A k \in DOMAIN d \ DOMAIN store[s] : f[k] = d[k]
    BY FilledFacts DEF f
  <2>2. DOMAIN store'[s] = DOMAIN f \cup {"redis"} /\ \A k \in DOMAIN f : store'[s][k] = f[k]
    <3>1. /\ DOMAIN Filled(f, e) = DOMAIN f \cup DOMAIN e
          /\ \A k \in DOMAIN f : Filled(f, e)[k] = f[k]
      BY FilledFacts
    <3> QED
      BY <3>1, <1>1, <1>3
  <2> QED
    BY <2>1, <2>2
<1>5. /\ DOMAIN store'[r] = DOMAIN store[r] \cup {"use"}
      /\ \A k \in DOMAIN store[r] : store'[r][k] = store[r][k]
      /\ "use" \notin DOMAIN store[r] => store'[r]["use"] = Bool("false")
  <2>1. /\ DOMAIN Filled(store[r], u) = DOMAIN store[r] \cup DOMAIN u
        /\ \A k \in DOMAIN store[r] : Filled(store[r], u)[k] = store[r][k]
        /\ \A k \in DOMAIN u \ DOMAIN store[r] : Filled(store[r], u)[k] = u[k]
    BY FilledFacts
  <2> QED
    BY <2>1, <1>1, <1>3
<1>6. s \in Section /\ r \in Section /\ s \notin Redis /\ r \notin {"db", "api", "main"} /\ s # "main"
  BY <1>1 DEF Section, Redis
<1>7. \A q \in Section : \A k \in DOMAIN store'[q] : store'[q][k].type \in Types
  <2> SUFFICES ASSUME NEW q \in Section, NEW k \in DOMAIN store'[q]
               PROVE  store'[q][k].type \in Types
    OBVIOUS
  <2>1. \A p \in Section : \A j \in DOMAIN store[p] : store[p][j].type \in Types
    BY DEF Shape
  <2>2. CASE q = s
    <3>1. SubTree(r).type \in Types
      BY DEF SubTree, Types
    <3> QED
      BY <2>1, <2>2, <3>1, <1>1, <1>4, <1>6
  <2>3. CASE q = r
    <3>1. Bool("false").type \in Types
      BY DEF Bool, Types
    <3> QED
      BY <2>1, <2>3, <3>1, <1>5, <1>6
  <2>4. CASE q \notin {s, r}
    BY <2>1, <2>4, <1>1
  <2> QED
    BY <2>2, <2>3, <2>4
<1>8. Kept'
  <2> SUFFICES ASSUME NEW q \in Section, NEW k \in DOMAIN environ[q],
                      k # "redis" \/ q \notin {"db", "api"}
               PROVE  k \in DOMAIN store'[q] /\ store'[q][k] = environ[q][k]
    BY DEF Kept
  <2>1. k \in DOMAIN store[q] /\ store[q][k] = environ[q][k]
    BY DEF Kept
  <2> QED
    BY <2>1, <1>1, <1>4, <1>5
<1>9. Added'
  <2> SUFFICES ASSUME NEW q \in Redis, NEW k \in DOMAIN store'[q], k \notin DOMAIN environ[q]
               PROVE  k = "use" /\ store'[q][k] = Bool("false")
    BY DEF Added
  <2>1. k \in DOMAIN store[q] => k = "use" /\ store[q][k] = Bool("false")
    BY DEF Added
  <2>2. q \in Section /\ q # s
    BY <1>6 DEF Redis, Section
  <2> QED
    BY <2>1, <2>2, <1>1, <1>5
<1>10. Ready(s)'
  BY <1>1, <1>2 DEF Ready, Entry, r
<1>11. program = "main" => ~ IsTrue(store'[r]["use"])
  <2>1. ~ IsTrue(Bool("false"))
    BY DEF IsTrue, Bool
  <2> QED
    BY <2>1, <1>1, <1>5, RedisOff
<1> QED
  BY <1>1, <1>4, <1>5, <1>6, <1>7, <1>8, <1>9, <1>10, <1>11 DEF r, Section

-----------------------------------------------------------------------------
(* The steps of main keep StartInv                                         *)

\* A step that only takes main elsewhere, to the next place or to an end.
LEMMA StepOn ==
    ASSUME StartInv, UNCHANGED rest,
           at' \in BeforeDb => at \in BeforeDb,
           at' \notin {"dbConnect", "dbInit", "apiNew"} \/ at' = at,
           at' = "apiPrepare" => at \in {"dbInit", "apiPrepare"},
           at' \in Started => at \in Started
    PROVE  StartInv'
<1>1. /\ program' = program /\ environ' = environ /\ store' = store
      /\ cache' = cache /\ sessions' = sessions
  BY DEF rest
<1>2. Shape' /\ Kept' /\ Added'
  BY <1>1 DEF StartInv, Shape, Kept, Added
<1>3. \A s \in {"db", "api"} : /\ Untouched(s)' <=> Untouched(s)
                               /\ Prepared(s)' <=> Prepared(s)
                               /\ Ready(s)' <=> Ready(s)
  BY <1>1 DEF Untouched, Prepared, Ready, Entry, Passed, RedisOf, Given
<1>4. at' \in BeforeApi => at \in BeforeApi
  BY DEF BeforeApi, BeforeDb
<1>5. DbSteps'
  BY <1>1, <1>3 DEF StartInv, DbSteps, BeforeDb, Started
<1>6. Entry("api", "port")' = Entry("api", "port")
  BY <1>1 DEF Entry
<1>7. ApiSteps'
  BY <1>1, <1>3, <1>4, <1>6 DEF StartInv, ApiSteps, Numeric
<1> QED
  BY <1>2, <1>5, <1>7 DEF StartInv

\* A step that leaves main alone.
LEMMA NotMain ==
    ASSUME StartInv, UNCHANGED mainVars
    PROVE  StartInv'
  BY StepOn DEF mainVars, rest

\* A step that ends main, or sends it to where it does nothing more of its own.
LEMMA EndOfMain ==
    ASSUME StartInv, UNCHANGED rest, at' \in {"dead", "panic", "recovering", "asleep"}
    PROVE  StartInv'
<1>1. at' \notin BeforeApi \cup Started \cup {"dbConnect", "dbInit", "apiNew"}
  BY DEF BeforeApi, BeforeDb, Started
<1> QED
  BY <1>1, StepOn DEF BeforeApi, BeforeDb

\* The choice of the section, and of the shared redis section in it.
LEMMA PreparedBy ==
    ASSUME Shape, Kept, Added, NEW s \in {"db", "api"}, Untouched(s),
           NEW from, NEW to, Prepare(s, from, to)
    PROVE  /\ Shape' /\ Kept' /\ Added' /\ Prepared(s)'
           /\ \A q \in {"db", "api"} : q # s => store'[q] = store[q]
<1> USE DEF Untouched
<1>1. UNCHANGED <<program, environ, cache, sessions>>
  BY DEF Prepare
<1>2. /\ s \in Section /\ s # "main" /\ s \notin Redis /\ "main" \in Section
      /\ Redis \subseteq Section /\ DOMAIN store = Section /\ store["main"] = environ["main"]
  BY DEF Section, Redis, Shape
<1>3. /\ Entry("main", s) = Given("main", s) /\ Entry(s, "redis") = Given(s, "redis")
      /\ Entry("main", "redis") = Given("main", "redis")
  BY <1>2 DEF Entry, Given
<1>4. /\ DOMAIN store' = Section /\ \A q \in Section : q # s => store'[q] = store[q]
      /\ DOMAIN store'[s] = DOMAIN environ[s]
      /\ \A k \in DOMAIN environ[s] : k # "redis" => store'[s][k] = environ[s][k]
      /\ "redis" \in DOMAIN environ[s] => store'[s]["redis"] = Passed(s)
  <2>1. CASE Given("main", s).type # "config"
    <3>1. environ[s] = << >>
      BY <2>1, TreeFacts
    <3>2. store' = [store EXCEPT ![s] = << >>]
      BY <2>1, <1>3 DEF Prepare
    <3>3. \A k : k \notin DOMAIN << >>
      OBVIOUS
    <3> QED
      BY <3>1, <3>2, <3>3, <1>2
  <2>2. CASE Given("main", s).type = "config"
    <3>1. MergeInConfig(s)
      BY <2>2, <1>3 DEF Prepare
    <3>2. CASE Given(s, "redis").type = "config" /\ Given("main", "redis").type = "config"
      <4>1. Entry("main", "redis") = SubTree("redis")
        BY <3>2, <1>3, TreeFacts
      <4>2. store' = [store EXCEPT ![s]["redis"] = SubTree("redis")]
        BY <3>1, <3>2, <4>1, <1>3 DEF MergeInConfig
      <4>3. store' = [store EXCEPT ![s] = [store[s] EXCEPT !["redis"] = SubTree("redis")]]
        BY <4>2
      <4>4. Passed(s) = SubTree("redis")
        BY <2>2, <3>2 DEF Passed
      <4> QED
        BY <4>3, <4>4, <1>2
    <3>3. CASE ~ (Given(s, "redis").type = "config" /\ Given("main", "redis").type = "config")
      <4>1. store' = store
        BY <3>1, <3>3, <1>3 DEF MergeInConfig
      <4>2. Passed(s) = Given(s, "redis")
        BY <3>3 DEF Passed
      <4> QED
        BY <4>1, <4>2, <1>2 DEF Given
    <3> QED
      BY <3>2, <3>3
  <2> QED
    BY <2>1, <2>2
<1>5. Prepared(s)'
  <2>1. Passed(s)' = Passed(s)
    BY <1>1 DEF Passed, Given
  <2>2. "redis" \notin DOMAIN environ[s] => Passed(s) = None
    BY NoneIsNoEntry DEF Passed, Given
  <2> QED
    BY <2>1, <2>2, <1>1, <1>4 DEF Prepared, Entry
<1>6. Shape'
  <2>1. \A q \in Section : \A k \in DOMAIN store[q] : store[q][k].type \in Types
    BY DEF Shape
  <2>2. Passed(s).type \in Types \/ Passed(s) = None
    <3>1. SubTree("redis").type \in Types
      BY DEF SubTree, Types
    <3> QED
      BY <3>1, <2>1, <1>2 DEF Passed, Given
  <2>3. "redis" \in DOMAIN environ[s] => Passed(s).type \in Types
    <3>1. SubTree("redis").type \in Types
      BY DEF SubTree, Types
    <3> QED
      BY <3>1, <2>1, <1>2 DEF Passed, Given
  <2>4. \A k \in DOMAIN store'[s] : store'[s][k].type \in Types
    BY <2>1, <2>3, <1>2, <1>4
  <2>5. \A q \in Section : \A k \in DOMAIN store'[q] : store'[q][k].type \in Types
    BY <2>1, <2>4, <1>4
  <2> QED
    BY <2>5, <1>1, <1>2, <1>4 DEF Shape
<1>7. Kept'
  BY <1>1, <1>2, <1>4 DEF Kept
<1>8. Added'
  <2>1. \A r \in Redis : r \in Section /\ r # s
    BY <1>2
  <2> QED
    BY <2>1, <1>1, <1>4 DEF Added
<1>9. \A q \in {"db", "api"} : q # s => store'[q] = store[q]
  BY <1>4 DEF Section
<1> QED
  BY <1>5, <1>6, <1>7, <1>8, <1>9

LEMMA PrepareDBKeeps == ASSUME StartInv, PrepareDB PROVE StartInv'
<1>1. at = "dbPrepare" /\ at' = "dbConnect" /\ Prepare("db", "dbPrepare", "dbConnect")
  BY DEF PrepareDB, Prepare, Goto
<1>2. Untouched("db") /\ Untouched("api") /\ cache = "none" /\ program = "main"
  BY <1>1 DEF StartInv, DbSteps, ApiSteps, BeforeApi, BeforeDb
<1>3. /\ Shape' /\ Kept' /\ Added' /\ Prepared("db")' /\ store'["api"] = store["api"]
      /\ UNCHANGED <<program, environ, cache, sessions>>
  BY <1>1, <1>2, PreparedBy DEF StartInv, Prepare
<1>4. Untouched("api")'
  BY <1>2, <1>3 DEF Untouched
<1>5. DbSteps'
  BY <1>1, <1>2, <1>3 DEF DbSteps, BeforeDb, Started
<1>6. ApiSteps'
  BY <1>1, <1>4 DEF ApiSteps, Started
<1> QED
  BY <1>3, <1>5, <1>6 DEF StartInv

LEMMA PrepareApiKeeps == ASSUME StartInv, PrepareApi PROVE StartInv'
<1>1. at = "apiPrepare" /\ at' = "apiNew" /\ Prepare("api", "apiPrepare", "apiNew")
  BY DEF PrepareApi, Prepare, Goto
<1>2. Untouched("api")
  BY <1>1 DEF StartInv, ApiSteps, BeforeApi
<1>3. /\ Shape' /\ Kept' /\ Added' /\ Prepared("api")' /\ store'["db"] = store["db"]
      /\ UNCHANGED <<program, environ, cache, sessions>>
  BY <1>1, <1>2, PreparedBy DEF StartInv, Prepare
<1>4. Ready("db")' <=> Ready("db")
  BY <1>3 DEF Ready, Entry, RedisOf, Given
<1>5. DbSteps'
  BY <1>1, <1>3, <1>4 DEF StartInv, DbSteps, BeforeDb, Started
<1>6. ApiSteps'
  BY <1>1, <1>3 DEF ApiSteps, BeforeApi, BeforeDb, Started
<1> QED
  BY <1>3, <1>5, <1>6 DEF StartInv

\* The defaults are neither redis sections nor of a type of their own.
LEMMA Defaults ==
    /\ "redis" \notin DOMAIN DbDefault /\ \A k \in DOMAIN DbDefault : DbDefault[k].type \in Types
    /\ "redis" \notin DOMAIN ApiDefault /\ \A k \in DOMAIN ApiDefault : ApiDefault[k].type \in Types
    /\ "name" \notin DOMAIN DbDefault /\ "port" \in DOMAIN ApiDefault
<1>1. DOMAIN DbDefault = {"host", "dbname"} /\ DOMAIN ApiDefault = {"host", "port"}
  BY DEF DbDefault, ApiDefault
<1>2. \A k \in DOMAIN DbDefault : DbDefault[k].type = "text"
  BY DEF DbDefault, Text
<1>3. \A k \in DOMAIN ApiDefault : ApiDefault[k].type \in {"text", "int"}
  BY DEF ApiDefault, Text, Number
<1> QED
  BY <1>1, <1>2, <1>3 DEF Types

LEMMA NewConnectorKeeps == ASSUME StartInv, NewConnector PROVE StartInv'
<1> DEFINE merged == MergeDefault("db", DbDefault)
           redis  == merged["db"]["redis"].val
           usable == MayMerge("db") /\ "name" \in DOMAIN merged["db"]
<1>1. CASE Die("dbConnect")
  BY <1>1, EndOfMain DEF Die, Goto
<1>2. CASE /\ usable /\ Goto("dbConnect", "dbInit")
           /\ IF IsTrue(merged[redis]["use"])
              THEN cache' = "redis" /\ store' = [merged EXCEPT ![redis] = Filled(@, RedisDefault)]
              ELSE cache' = "stub" /\ store' = merged
           /\ UNCHANGED <<program, environ, sessions>>
  <2>1. /\ at = "dbConnect" /\ at' = "dbInit" /\ program = "main" /\ MayMerge("db")
        /\ Prepared("db") /\ Shape /\ Kept /\ Added /\ Untouched("api")
    BY <1>2 DEF Goto, StartInv, DbSteps, ApiSteps, BeforeApi
  <2>2. ~ IsTrue(merged[redis]["use"])
    <3> DEFINE r == RedisOf("db")
    <3>1. /\ r \in Redis /\ merged[r] = Filled(store[r], [use |-> Bool("false")])
          /\ merged["db"]["redis"] = SubTree(r)
      BY <2>1, Merged, Defaults
    <3>2. redis = r
      BY <3>1 DEF SubTree
    <3> HIDE DEF r, merged
    <3>3. "use" \in DOMAIN store[r] => merged[r]["use"] = store[r]["use"]
      BY <3>1 DEF Filled
    <3>4. "use" \notin DOMAIN store[r] => merged[r]["use"] = Bool("false")
      BY <3>1 DEF Filled
    <3>5. ~ IsTrue(Bool("false"))
      BY DEF IsTrue, Bool
    <3> QED
      BY <3>1, <3>2, <3>3, <3>4, <3>5, <2>1, RedisOff
  <2>3. cache' = "stub" /\ store' = merged /\ UNCHANGED <<program, environ, sessions>>
    BY <1>2, <2>2
  <2>4. /\ DOMAIN store' = Section /\ store'["main"] = store["main"]
        /\ \A q \in Section : \A k \in DOMAIN store'[q] : store'[q][k].type \in Types
        /\ Kept' /\ Added' /\ Ready("db")' /\ store'["api"] = store["api"]
        /\ DOMAIN store'["db"] = DOMAIN store["db"] \cup DOMAIN DbDefault \cup {"redis"}
    BY <2>1, <2>3, Defaults, MergeKeeps
  <2>5. "name" \in DOMAIN environ["db"]
    <3>1. "name" \in DOMAIN store'["db"]
      BY <1>2, <2>3
    <3> QED
      BY <3>1, <2>1, <2>4, Defaults DEF Prepared
  <2>6. Shape'
    BY <2>1, <2>3, <2>4 DEF Shape
  <2>7. DbSteps'
    BY <2>1, <2>3, <2>4, <2>5 DEF DbSteps, BeforeDb
  <2>8. ApiSteps'
    BY <2>1, <2>3, <2>4 DEF ApiSteps, Untouched, BeforeApi, BeforeDb, Started
  <2> QED
    BY <2>4, <2>6, <2>7, <2>8 DEF StartInv
<1> QED
  BY <1>1, <1>2 DEF NewConnector

LEMMA NewServerKeeps == ASSUME StartInv, NewServer PROVE StartInv'
<1> DEFINE merged == MergeDefault("api", ApiDefault)
           redis  == merged[merged["api"]["redis"].val]
           usable == /\ MayMerge("api") /\ Numeric(merged["api"]["port"])
                     /\ IsTrue(redis["use"]) => RedisStore(redis)
<1>1. CASE Die("apiNew")
  BY <1>1, EndOfMain DEF Die, Goto
<1>2. CASE /\ usable /\ Goto("apiNew", "apiInit") /\ store' = merged
           /\ sessions' = IF IsTrue(redis["use"]) THEN "redis" ELSE "cookie"
           /\ UNCHANGED <<program, environ, cache>>
  <2>1. /\ at = "apiNew" /\ at' = "apiInit" /\ store' = merged /\ MayMerge("api")
        /\ Prepared("api") /\ Shape /\ Kept /\ Added /\ Numeric(merged["api"]["port"])
        /\ UNCHANGED <<program, environ, cache>>
    BY <1>2 DEF Goto, StartInv, ApiSteps
  <2>2. /\ DOMAIN store' = Section /\ store'["main"] = store["main"]
        /\ \A q \in Section : \A k \in DOMAIN store'[q] : store'[q][k].type \in Types
        /\ Kept' /\ Added' /\ Ready("api")' /\ store'["db"] = store["db"]
        /\ "port" \in DOMAIN store'["api"]
        /\ RedisOf("api") \in Redis /\ store'["api"]["redis"] = SubTree(RedisOf("api"))
    BY <2>1, Defaults, MergeKeeps
  <2>3. ~ RedisStore(redis)
    <3>1. redis = store'[RedisOf("api")] /\ RedisOf("api") \in Section
      BY <2>1, <2>2 DEF SubTree, Redis, Section
    <3>2. "port" \in DOMAIN redis => redis["port"].type \in Types
      BY <3>1, <2>2
    <3> QED
      BY <3>2 DEF RedisStore, Types
  <2>4. sessions' = "cookie"
    BY <1>2, <2>3
  <2>5. Numeric(Entry("api", "port"))'
    BY <2>1, <2>2 DEF Entry, Numeric
  <2>6. Shape'
    BY <2>1, <2>2, <2>4 DEF Shape
  <2>7. Ready("db")' <=> Ready("db")
    BY <2>1, <2>2 DEF Ready, Entry, RedisOf, Given
  <2>8. DbSteps'
    BY <2>1, <2>7 DEF StartInv, DbSteps, BeforeDb, Started
  <2>9. ApiSteps'
    BY <2>1, <2>2, <2>4, <2>5 DEF ApiSteps, BeforeApi, BeforeDb, Started
  <2> QED
    BY <2>2, <2>6, <2>8, <2>9 DEF StartInv
<1> QED
  BY <1>1, <1>2 DEF NewServer

\* Every step of Startup keeps StartInv.
LEMMA StartupKeeps == ASSUME StartInv, Startup PROVE StartInv'
<1>1. CASE \/ PrepareEnvironment \/ LoadConfig \/ InitDB \/ InitApi \/ StartFails \/ StartWorks
  <2>1. /\ UNCHANGED rest
        /\ \/ at' \in {"dead", "panic"}
           \/ at = "environment" /\ at' = "config"
           \/ at = "config" /\ at' = "dbPrepare"
           \/ at = "dbInit" /\ at' = "apiPrepare"
           \/ at = "apiInit" /\ at' = "start"
           \/ at = "start" /\ at' = "serving"
    BY <1>1 DEF PrepareEnvironment, LoadConfig, InitDB, InitApi, StartFails, StartWorks, Die, Goto
  <2>2. CASE at' \in {"dead", "panic"}
    BY <2>1, <2>2, EndOfMain
  <2>3. CASE at' \notin {"dead", "panic"}
    <3>1. /\ at' \in BeforeDb => at \in BeforeDb
          /\ at' \notin {"dbConnect", "dbInit", "apiNew"}
          /\ at' = "apiPrepare" => at = "dbInit"
          /\ at' \in Started => at \in Started
      BY <2>1, <2>3 DEF BeforeDb, Started
    <3> QED
      BY <2>1, <3>1, StepOn
  <2> QED
    BY <2>2, <2>3
<1> QED
  BY <1>1, PrepareDBKeeps, PrepareApiKeeps, NewConnectorKeeps, NewServerKeeps DEF Startup

-----------------------------------------------------------------------------
(* The process                                                             *)

\* Where main is before and after a step of Startup.
LEMMA StartupMoves ==
    ASSUME Startup
    PROVE  \/ at = "environment" /\ at' = "config"
           \/ at = "config" /\ at' = "dbPrepare"
           \/ at = "dbPrepare" /\ at' = "dbConnect"
           \/ at = "dbConnect" /\ at' = "dbInit"
           \/ at = "dbInit" /\ at' = "apiPrepare"
           \/ at = "apiPrepare" /\ at' = "apiNew"
           \/ at = "apiNew" /\ at' = "apiInit"
           \/ at = "apiInit" /\ at' = "start"
           \/ at = "start" /\ at' = "serving"
           \/ /\ at \in BeforeApi \cup {"apiNew", "apiInit", "start"}
              /\ at' \in {"dead", "panic"}
<1> USE DEF Goto, Die, BeforeApi, BeforeDb
<1>1. CASE PrepareEnvironment \/ LoadConfig \/ PrepareDB
  BY <1>1 DEF PrepareEnvironment, LoadConfig, PrepareDB, Prepare
<1>2. CASE NewConnector
  BY <1>2 DEF NewConnector
<1>3. CASE InitDB \/ PrepareApi
  BY <1>3 DEF InitDB, PrepareApi, Prepare
<1>4. CASE NewServer
  BY <1>4 DEF NewServer
<1>5. CASE InitApi \/ StartFails \/ StartWorks
  BY <1>5 DEF InitApi, StartFails, StartWorks
<1> QED
  BY <1>1, <1>2, <1>3, <1>4, <1>5 DEF Startup

\* The steps of main that are steps of Startup, with what they do to the log
\* files, and the step that starts the server.
StartupStep ==
    \/ Silently(PrepareEnvironment) \/ Configure
    \/ Logged(PrepareDB, "db") \/ Silently(NewConnector) \/ Silently(InitDB)
    \/ Logged(PrepareApi, "api") \/ NewServerLogged \/ Silently(InitApi)
    \/ Start

LEMMA StartupStepFacts ==
    ASSUME StartupStep
    PROVE  /\ Alive /\ Startup /\ exit' \in {"no", "fatal"}
           /\ UNCHANGED <<cleaners, server, busy, cancelled>>
           /\ at # "start" => UNCHANGED web
<1> USE DEF Alive, Ends, Startup, web
<1>1. CASE Silently(PrepareEnvironment) \/ Silently(NewConnector) \/ Silently(InitDB) \/ Silently(InitApi)
  BY <1>1 DEF Silently
<1>2. CASE Configure
  BY <1>2 DEF Configure
<1>3. CASE Logged(PrepareDB, "db") \/ Logged(PrepareApi, "api")
  BY <1>3 DEF Logged
<1>4. CASE NewServerLogged
  BY <1>4 DEF NewServerLogged, Logged, Silently
<1>5. CASE Start
  <2>1. at = "start"
    BY <1>5 DEF Start, StartFails, StartWorks, Die, Goto
  <2> QED
    BY <1>5, <2>1 DEF Start
<1> QED
  BY <1>1, <1>2, <1>3, <1>4, <1>5 DEF StartupStep

\* Every step of the process keeps what holds of the configuration.
LEMMA LifeStart == ASSUME StartInv, LifeNext PROVE StartInv'
<1>1. CASE StartupStep
  BY <1>1, StartupStepFacts, StartupKeeps
<1>2. CASE LoggerFails \/ ListenFails \/ StopReturns \/ Panic \/ TimeOut \/ \E c \in Cleaner : Leave(c)
  <2>1. UNCHANGED rest /\ at' \in {"dead", "recovering", "asleep"}
    BY <1>2 DEF LoggerFails, ListenFails, StopReturns, Panic, TimeOut, Leave, Die, Goto
  <2> QED
    BY <2>1, EndOfMain
<1>3. CASE Stop
  <2>1. UNCHANGED rest /\ at = "serving" /\ at' = "stopping"
    BY <1>3 DEF Stop, Goto
  <2> QED
    BY <2>1, StepOn DEF BeforeDb, Started
<1>4. CASE Listen \/ Serve \/ Signal
  BY <1>4, NotMain DEF Listen, Serve, Signal
<1>5. CASE \E c \in Cleaner : \/ List(c) \/ AllClosed(c) \/ GivesUp(c)
                              \/ \E f \in File : CloseFile(c, f) \/ MoveFile(c, f)
  BY <1>5, NotMain DEF List, AllClosed, GivesUp, CloseFile, MoveFile
<1> QED
  BY <1>1, <1>2, <1>3, <1>4, <1>5 DEF LifeNext, Main, StartupStep, Tidy

-----------------------------------------------------------------------------
(* The server                                                              *)

LEMMA ServerKept == ASSUME LifeTypes, ServerInv, LifeNext PROVE ServerInv'
<1> USE DEF ServerInv, Alive
<1>1. CASE StartupStep
  <2>1. /\ at \in BeforeApi \cup {"apiNew", "apiInit", "start"} /\ at' # "stopping"
        /\ at' = "serving" => at = "start"
    BY <1>1, StartupStepFacts, StartupMoves DEF BeforeApi, BeforeDb
  <2>2. server' = server /\ server # "listening" /\ ~ (serving = "starting" /\ server = "new")
    BY <1>1, <2>1, StartupStepFacts DEF BeforeApi, BeforeDb
  <2>3. exit' # "tested"
    BY <1>1, StartupStepFacts
  <2>4. CASE at = "start"
    <3>1. Start
      <4>1. PrepareEnvironment \/ LoadConfig \/ PrepareDB \/ NewConnector \/ InitDB
              \/ PrepareApi \/ NewServer \/ InitApi => at # "start"
        BY DEF PrepareEnvironment, LoadConfig, PrepareDB, NewConnector, InitDB, PrepareApi,
               Prepare, NewServer, InitApi, Die, Goto
      <4> QED
        BY <1>1, <2>4, <4>1 DEF StartupStep, Silently, Logged, Configure, NewServerLogged
    <3>2. /\ running' = TRUE
          /\ \/ serving' = serving
             \/ serving' = "starting" /\ at' = "serving"
      BY <3>1 DEF Start, StartWorks, Goto
    <3> QED
      BY <2>1, <2>2, <2>3, <3>2
  <2>5. CASE at # "start"
    <3>1. serving' = serving
      BY <1>1, <2>5, StartupStepFacts DEF web
    <3> QED
      BY <2>1, <2>2, <2>3, <3>1
  <2> QED
    BY <2>4, <2>5
<1>2. CASE LoggerFails
  BY <1>2 DEF LoggerFails, Die, Goto, Ends, web
<1>3. CASE StopReturns
  BY <1>3 DEF StopReturns, Goto
<1>4. CASE Panic
  BY <1>4 DEF Panic, Goto
<1>5. CASE TimeOut
  BY <1>5 DEF TimeOut, Goto
<1>6. CASE Stop
  BY <1>6 DEF Stop, Goto
<1>7. CASE Listen
  BY <1>7 DEF Listen, mainVars
<1>8. CASE ListenFails
  BY <1>8 DEF ListenFails, web
<1>9. CASE Serve
  BY <1>9 DEF Serve, mainVars
<1>10. CASE Signal
  BY <1>10 DEF Signal, mainVars, web
<1>11. CASE \E c \in Cleaner : Leave(c)
  BY <1>11 DEF Leave, web, Cleaner
<1>12. CASE \E c \in Cleaner : \/ List(c) \/ AllClosed(c) \/ GivesUp(c)
                               \/ \E f \in File : CloseFile(c, f) \/ MoveFile(c, f)
  BY <1>12 DEF List, AllClosed, GivesUp, CloseFile, MoveFile, mainVars, web
<1> QED
  BY <1>1, <1>2, <1>3, <1>4, <1>5, <1>6, <1>7, <1>8, <1>9, <1>10, <1>11, <1>12
  DEF LifeNext, Main, StartupStep, Tidy

-----------------------------------------------------------------------------
(* The log files                                                           *)

LEMMA EarlyFacts ==
    /\ Early("patch") = {"environment", "config"} /\ Early("db") = BeforeDb
    /\ Early("api") = BeforeApi /\ Early("sessions") = BeforeApi \cup {"apiNew"}
<1>1. Early("patch") = {"environment", "config"}
  BY DEF Early
<1>2. Early("db") = BeforeDb
  BY DEF Early
<1>3. Early("api") = BeforeApi
  BY DEF Early
<1>4. Early("sessions") = BeforeApi \cup {"apiNew"}
  BY DEF Early
<1> QED
  BY <1>1, <1>2, <1>3, <1>4

\* Main never goes back to where a file was not open yet.
LEMMA NeverBack ==
    ASSUME NEW f \in File,
           Startup \/ at' \in {"dead", "recovering", "asleep", "stopping"} \/ at' = at
    PROVE  at' \in Early(f) => at \in Early(f)
<1>1. CASE at' = at
  BY <1>1
<1>2. CASE at' \in {"dead", "recovering", "asleep", "stopping"}
  BY <1>2, EarlyFacts DEF BeforeApi, BeforeDb, File
<1>3. CASE Startup
  BY <1>3, StartupMoves, EarlyFacts DEF BeforeApi, BeforeDb, File
<1> QED
  BY <1>1, <1>2, <1>3

\* A step that leaves the log files and the cleaners alone.
LEMMA FilesAlone ==
    ASSUME FilesInv, UNCHANGED <<files, log, cleaners>>,
           Startup \/ at' \in {"dead", "recovering", "asleep", "stopping"} \/ at' = at
    PROVE  FilesInv'
<1>1. \A f \in File : at' \in Early(f) => f \notin files'
  BY NeverBack DEF FilesInv
<1> QED
  BY <1>1 DEF FilesInv, cleaners

\* Main opens file f, or does not.
LEMMA Opened ==
    ASSUME LifeTypes, FilesInv, Startup, NEW f \in File, at \in Early(f), at' \notin Early(f),
           UNCHANGED cleaners, NEW on, IF at' = "dead" THEN UNCHANGED <<files, log>> ELSE Opens(f, on)
    PROVE  /\ files \subseteq files' /\ files' \subseteq File
           /\ log' \in [File -> {"none", "open", "closed", "moved", "stuck"}]
           /\ FilesInv'
<1>1. f \notin files /\ \A c \in Cleaner : f \notin DOMAIN task[c]
  BY DEF FilesInv, LifeTypes
<1>2. /\ files \subseteq files' /\ files' \subseteq files \cup {f}
      /\ log' \in [File -> {"none", "open", "closed", "moved", "stuck"}]
      /\ \A g \in File : g # f => log'[g] = log[g]
  <2>1. CASE UNCHANGED <<files, log>>
    BY <2>1 DEF LifeTypes
  <2>2. CASE Opens(f, on)
    BY <2>2 DEF Opens, LifeTypes
  <2> QED
    BY <2>1, <2>2
<1>3. \A g \in File : at' \in Early(g) => g \notin files'
  BY <1>2, NeverBack DEF FilesInv
<1>4. \A c \in Cleaner : \A g \in DOMAIN task[c] : g # f /\ g \in File
  BY <1>1 DEF LifeTypes
<1>5. FilesInv'
  BY <1>2, <1>3, <1>4 DEF FilesInv, cleaners
<1> QED
  BY <1>2, <1>5 DEF LifeTypes

LEMMA StartupFiles == ASSUME LifeTypes, FilesInv, StartupStep PROVE LifeTypes' /\ FilesInv'
<1>1. /\ Startup /\ exit' \in {"no", "fatal"} /\ UNCHANGED <<cleaners, server, busy, cancelled>>
  BY StartupStepFacts
<1>2. /\ serving' \in {"none", "starting", "serving", "gone"} /\ running' \in BOOLEAN
      /\ logging' \in BOOLEAN
  <2>1. CASE Start
    BY <2>1 DEF Start, LifeTypes, loggers
  <2>2. CASE Configure
    <3> DEFINE folder == "log" \in DOMAIN environ["main"]
    <3>1. folder \in BOOLEAN
      OBVIOUS
    <3>2. UNCHANGED web /\ (logging' = folder \/ logging' = FALSE)
      BY <2>2, Zenon DEF Configure
    <3> HIDE DEF folder
    <3> QED
      BY <3>1, <3>2 DEF LifeTypes, web
  <2>3. CASE ~ Start /\ ~ Configure
    BY <2>3 DEF StartupStep, Silently, Logged, NewServerLogged, LifeTypes, web, loggers
  <2> QED
    BY <2>1, <2>2, <2>3
<1>3. /\ files \subseteq files' /\ files' \subseteq File
      /\ log' \in [File -> {"none", "open", "closed", "moved", "stuck"}]
      /\ FilesInv'
  <2>1. CASE UNCHANGED <<files, log>>
    BY <2>1, <1>1, FilesAlone DEF LifeTypes
  <2>2. CASE Configure
    <3>1. at = "config" /\ at' \in {"dbPrepare", "dead"}
      BY <2>2 DEF Configure, LoadConfig, Goto, Die
    <3>2. "patch" \in File /\ at \in Early("patch") /\ at' \notin Early("patch")
      BY <3>1, EarlyFacts DEF File
    <3> QED
      BY <2>2, <3>2, <1>1, Opened DEF Configure
  <2>3. CASE Logged(PrepareDB, "db")
    <3>1. at = "dbPrepare" /\ at' = "dbConnect"
      BY <2>3 DEF Logged, PrepareDB, Prepare, Goto
    <3>2. "db" \in File /\ at \in Early("db") /\ at' \notin Early("db")
      BY <3>1, EarlyFacts DEF File, BeforeDb
    <3> QED
      BY <2>3, <3>2, <1>1, Opened DEF Logged
  <2>4. CASE Logged(PrepareApi, "api")
    <3>1. at = "apiPrepare" /\ at' = "apiNew"
      BY <2>4 DEF Logged, PrepareApi, Prepare, Goto
    <3>2. "api" \in File /\ at \in Early("api") /\ at' \notin Early("api")
      BY <3>1, EarlyFacts DEF File, BeforeApi, BeforeDb
    <3> QED
      BY <2>4, <3>2, <1>1, Opened DEF Logged
  <2>5. CASE Logged(NewServer, "sessions")
    <3>1. at = "apiNew" /\ at' \in {"apiInit", "dead"}
      BY <2>5 DEF Logged, NewServer, Goto, Die
    <3>2. "sessions" \in File /\ at \in Early("sessions") /\ at' \notin Early("sessions")
      BY <3>1, EarlyFacts DEF File, BeforeApi, BeforeDb
    <3> QED
      BY <2>5, <3>2, <1>1, Opened DEF Logged
  <2> QED
    BY <2>1, <2>2, <2>3, <2>4, <2>5
    DEF StartupStep, NewServerLogged, Silently, Start, loggers
<1>4. \A c \in Cleaner : DOMAIN task'[c] \subseteq files'
  BY <1>1, <1>3 DEF LifeTypes, cleaners
<1>5. LifeTypes'
  BY <1>1, <1>2, <1>3, <1>4 DEF LifeTypes, cleaners
<1> QED
  BY <1>3, <1>5

\* The steps of the other goroutines, and of main where it starts nothing.
LEMMA ProcessFiles ==
    ASSUME LifeTypes, FilesInv,
           \/ LoggerFails \/ StopReturns \/ TimeOut \/ Stop
           \/ Listen \/ ListenFails \/ Serve \/ \E c \in Cleaner : Leave(c)
    PROVE  LifeTypes' /\ FilesInv'
<1>1. UNCHANGED <<loggers, cleaners>>
  BY DEF LoggerFails, StopReturns, TimeOut, Stop, Listen, ListenFails, Serve, Leave
<1>2. at' \in {"dead", "recovering", "asleep", "stopping"} \/ at' = at
  BY DEF LoggerFails, StopReturns, TimeOut, Stop, Listen, ListenFails, Serve, Leave, Die, Goto, mainVars
<1>3. FilesInv'
  BY <1>1, <1>2, FilesAlone DEF loggers
<1>4. /\ server' \in {"new", "listening", "shut"}
      /\ serving' \in {"none", "starting", "serving", "gone"}
      /\ running' \in BOOLEAN /\ busy' \in BOOLEAN /\ cancelled' \in BOOLEAN
      /\ exit' \in {"no", "fatal", "tested"} \cup Cleaner
  <2>1. CASE LoggerFails \/ StopReturns \/ TimeOut \/ Stop
    BY <2>1 DEF LoggerFails, StopReturns, TimeOut, Stop, Ends, web, LifeTypes
  <2>2. CASE Listen \/ ListenFails \/ Serve \/ \E c \in Cleaner : Leave(c)
    BY <2>2 DEF Listen, ListenFails, Serve, Leave, web, LifeTypes
  <2> QED
    BY <2>1, <2>2
<1>5. LifeTypes'
  BY <1>1, <1>4 DEF LifeTypes, loggers, cleaners
<1> QED
  BY <1>3, <1>5

LEMMA CleanersFiles ==
    ASSUME LifeTypes, FilesInv,
           Panic \/ Signal \/ \E c \in Cleaner : List(c) \/ AllClosed(c) \/ GivesUp(c)
    PROVE  LifeTypes' /\ FilesInv'
<1> DEFINE Clean == {"idle", "listing", "waiting", "done", "expired"}
<1>1. PICK c \in Cleaner :
        /\ clean' \in [Cleaner -> Clean] /\ clean'[c] \in Clean
        /\ \A d \in Cleaner : d # c => clean'[d] = clean[d]
        /\ \/ /\ task' = task
              /\ clean'[c] = "done" => \A f \in DOMAIN task[c] : task[c][f] = "finished"
           \/ clean'[c] # "done" /\ task' = [task EXCEPT ![c] = [f \in files |-> "close"]]
  <2>1. clean \in [Cleaner -> Clean]
    BY DEF LifeTypes
  <2>2. CASE Panic
    BY <2>1, <2>2 DEF Panic, Cleaner
  <2>3. CASE Signal
    BY <2>1, <2>3 DEF Signal, Cleaner
  <2>4. ASSUME NEW c \in Cleaner, List(c) \/ AllClosed(c) \/ GivesUp(c)
        PROVE  /\ clean' \in [Cleaner -> Clean] /\ clean'[c] \in Clean
               /\ \A d \in Cleaner : d # c => clean'[d] = clean[d]
               /\ \/ /\ task' = task
                     /\ clean'[c] = "done" => \A f \in DOMAIN task[c] : task[c][f] = "finished"
                  \/ clean'[c] # "done" /\ task' = [task EXCEPT ![c] = [f \in files |-> "close"]]
    BY <2>1, <2>4 DEF List, AllClosed, GivesUp
  <2> QED
    BY <2>2, <2>3, <2>4
<1>2. /\ UNCHANGED loggers
      /\ at' = "recovering" \/ at' = at
      /\ UNCHANGED <<server, serving, running, busy, exit>> /\ cancelled' \in BOOLEAN
  BY DEF Panic, Signal, List, AllClosed, GivesUp, Goto, mainVars, web, LifeTypes
<1>3. /\ DOMAIN task' = Cleaner
      /\ \A d \in Cleaner : \/ task'[d] = task[d]
                            \/ d = c /\ clean'[c] # "done" /\ task'[d] = [f \in files |-> "close"]
  BY <1>1 DEF LifeTypes
<1>4. \A d \in Cleaner : /\ DOMAIN task'[d] \subseteq files
                         /\ \A f \in DOMAIN task'[d] : task'[d][f] \in {"close", "move", "finished"}
  <2> SUFFICES ASSUME NEW d \in Cleaner
               PROVE  /\ DOMAIN task'[d] \subseteq files
                      /\ \A f \in DOMAIN task'[d] : task'[d][f] \in {"close", "move", "finished"}
    OBVIOUS
  <2>1. CASE task'[d] = task[d]
    BY <2>1 DEF LifeTypes
  <2>2. CASE task'[d] = [f \in files |-> "close"]
    BY <2>2
  <2> QED
    BY <2>1, <2>2, <1>3
<1>5. LifeTypes'
  BY <1>1, <1>2, <1>3, <1>4 DEF LifeTypes, loggers
<1>6. \A d \in Cleaner : \A f \in DOMAIN task'[d] :
        /\ task'[d][f] = "finished" => log[f] \in {"moved", "stuck"}
        /\ clean'[d] = "done" => task'[d][f] = "finished"
  <2> SUFFICES ASSUME NEW d \in Cleaner, NEW f \in DOMAIN task'[d]
               PROVE  /\ task'[d][f] = "finished" => log[f] \in {"moved", "stuck"}
                      /\ clean'[d] = "done" => task'[d][f] = "finished"
    OBVIOUS
  <2>1. CASE d # c
    BY <2>1, <1>1, <1>3 DEF FilesInv
  <2>2. CASE d = c /\ task' = task
    BY <2>2, <1>1 DEF FilesInv
  <2>3. CASE d = c /\ clean'[c] # "done" /\ task'[d] = [g \in files |-> "close"]
    BY <2>3
  <2> QED
    BY <2>1, <2>2, <2>3, <1>1, <1>3
<1>7. \A f \in File : at' \in Early(f) => f \notin files
  BY <1>2, NeverBack DEF FilesInv
<1> QED
  BY <1>2, <1>5, <1>6, <1>7 DEF FilesInv, loggers

\* The goroutine of a cleaner closes or moves its file: a file that another has
\* finished with is moved or stuck, and stays so.
LEMMA TaskFiles ==
    ASSUME LifeTypes, FilesInv, NEW c \in Cleaner, NEW f \in File, CloseFile(c, f) \/ MoveFile(c, f)
    PROVE  LifeTypes' /\ FilesInv'
<1> DEFINE Stages == {"none", "open", "closed", "moved", "stuck"}
           next == IF task[c][f] = "close" THEN "move" ELSE "finished"
<1>1. /\ f \in DOMAIN task[c] /\ task[c][f] \in {"close", "move"} /\ log \in [File -> Stages]
      /\ task' = [task EXCEPT ![c] = [task[c] EXCEPT ![f] = next]]
      /\ UNCHANGED <<mainVars, logging, files, clean, web, exit>>
  BY DEF CloseFile, MoveFile, At, LifeTypes
<1>2. /\ log' \in [File -> Stages] /\ \A g \in File : g # f => log'[g] = log[g]
      /\ log[f] \in {"moved", "stuck"} => log'[f] \in {"moved", "stuck"}
      /\ next = "finished" => log'[f] \in {"moved", "stuck"}
  <2>1. CASE CloseFile(c, f)
    <3>1. next = "move" /\ log' = [log EXCEPT ![f] = IF @ = "open" THEN "closed" ELSE @]
      BY <2>1 DEF CloseFile, At
    <3> QED
      BY <3>1, <1>1
  <2>2. CASE MoveFile(c, f)
    <3>1. \/ log' = [log EXCEPT ![f] = "moved"]
          \/ log' = [log EXCEPT ![f] = "stuck"]
          \/ log[f] = "moved" /\ log' = log
      BY <2>2 DEF MoveFile
    <3> QED
      BY <3>1, <1>1
  <2> QED
    BY <2>1, <2>2
<1>3. /\ DOMAIN task' = Cleaner /\ DOMAIN task'[c] = DOMAIN task[c] /\ task'[c][f] = next
      /\ \A d \in Cleaner : d # c => task'[d] = task[d]
      /\ \A g \in DOMAIN task[c] : g # f => task'[c][g] = task[c][g]
  BY <1>1 DEF LifeTypes
<1>4. next \in {"move", "finished"}
  OBVIOUS
<1> HIDE DEF next
<1>5. \A d \in Cleaner : /\ DOMAIN task'[d] \subseteq files
                         /\ \A g \in DOMAIN task'[d] : task'[d][g] \in {"close", "move", "finished"}
  BY <1>3, <1>4 DEF LifeTypes
<1>6. LifeTypes'
  BY <1>1, <1>2, <1>3, <1>5 DEF LifeTypes, web
<1>7. \A d \in Cleaner : \A g \in DOMAIN task'[d] :
        /\ task'[d][g] = "finished" => log'[g] \in {"moved", "stuck"}
        /\ clean[d] = "done" => task'[d][g] = "finished"
  <2> SUFFICES ASSUME NEW d \in Cleaner, NEW g \in DOMAIN task'[d]
               PROVE  /\ task'[d][g] = "finished" => log'[g] \in {"moved", "stuck"}
                      /\ clean[d] = "done" => task'[d][g] = "finished"
    OBVIOUS
  <2>1. g \in DOMAIN task[d] /\ g \in File
    BY <1>3 DEF LifeTypes
  <2>2. CASE d = c /\ g = f
    <3>1. clean[c] # "done"
      BY <1>1 DEF FilesInv
    <3> QED
      BY <2>2, <3>1, <1>2, <1>3
  <2>3. CASE ~ (d = c /\ g = f)
    <3>1. task'[d][g] = task[d][g]
      BY <2>1, <2>3, <1>3
    <3> QED
      BY <3>1, <2>1, <1>2 DEF FilesInv
  <2> QED
    BY <2>2, <2>3
<1>8. \A g \in File : at' \in Early(g) => g \notin files
  BY <1>1 DEF FilesInv, mainVars
<1> QED
  BY <1>1, <1>6, <1>7, <1>8 DEF FilesInv

LEMMA FilesKept == ASSUME LifeTypes, FilesInv, LifeNext PROVE LifeTypes' /\ FilesInv'
<1>1. CASE StartupStep
  BY <1>1, StartupFiles
<1>2. CASE \/ LoggerFails \/ StopReturns \/ TimeOut \/ Stop
           \/ Listen \/ ListenFails \/ Serve \/ \E c \in Cleaner : Leave(c)
  BY <1>2, ProcessFiles
<1>3. CASE Panic \/ Signal \/ \E c \in Cleaner : List(c) \/ AllClosed(c) \/ GivesUp(c)
  BY <1>3, CleanersFiles
<1>4. CASE \E c \in Cleaner : \E f \in File : CloseFile(c, f) \/ MoveFile(c, f)
  BY <1>4, TaskFiles
<1> QED
  BY <1>1, <1>2, <1>3, <1>4 DEF LifeNext, Main, StartupStep, Tidy

-----------------------------------------------------------------------------
(* The invariant, and what follows from it                                 *)

LEMMA LifeStarts == ASSUME LifeInit PROVE LifeInv
<1>1. Shape
  <2>1. program \in Programs /\ environ \in Trees(program) /\ store = environ
    BY DEF LifeInit, Init
  <2>2. \A s \in Section : \A k \in DOMAIN environ[s] : environ[s][k].type \in Types
    BY <2>1, TreeAssumption DEF Types
  <2>3. DOMAIN environ = Section
    BY <2>1, TreeAssumption
  <2> QED
    BY <2>1, <2>2, <2>3 DEF LifeInit, Init, Shape
<1>2. store = environ /\ cache = "none" /\ sessions = "none"
      /\ IF program = "main" THEN at = "environment" ELSE at \in {"apiPrepare", "apiNew"}
  BY DEF LifeInit, Init
<1>3. Kept /\ Added
  BY <1>2 DEF Kept, Added
<1>4. program # "main" => Passed("api") = Given("api", "redis")
  BY <1>1, TreeFacts DEF Passed
<1>5. program # "main" => Prepared("api")
  BY <1>2, <1>4 DEF Prepared, Entry, Given
<1>6. DbSteps /\ ApiSteps
  BY <1>2, <1>5 DEF DbSteps, ApiSteps, Untouched, BeforeApi, BeforeDb, Started
<1>7. LifeTypes
  <2>1. DOMAIN task = Cleaner /\ \A c \in Cleaner : DOMAIN task[c] = {}
    <3>1. DOMAIN << >> = {}
      OBVIOUS
    <3> QED
      BY <3>1 DEF LifeInit
  <2> QED
    BY <2>1 DEF LifeInit, LifeTypes
<1>8. FilesInv
  BY DEF LifeInit, FilesInv
<1>9. ServerInv
  BY <1>2 DEF LifeInit, ServerInv
<1> QED
  BY <1>1, <1>3, <1>6, <1>7, <1>8, <1>9 DEF LifeInv, StartInv

LEMMA LifeSteps == LifeInv /\ [LifeNext]_lifeVars => LifeInv'
<1> SUFFICES ASSUME LifeInv, [LifeNext]_lifeVars PROVE LifeInv'
  OBVIOUS
<1>1. CASE LifeNext
  BY <1>1, LifeStart, FilesKept, ServerKept DEF LifeInv
<1>2. CASE UNCHANGED lifeVars
  <2>1. UNCHANGED <<mainVars, loggers, cleaners, web, exit>>
    BY <1>2 DEF lifeVars
  <2>2. StartInv'
    BY <2>1, NotMain DEF LifeInv
  <2>3. FilesInv'
    BY <2>1, FilesAlone DEF LifeInv, loggers, mainVars
  <2>4. LifeTypes' /\ ServerInv'
    BY <2>1 DEF LifeInv, LifeTypes, ServerInv, loggers, cleaners, web, mainVars
  <2> QED
    BY <2>2, <2>3, <2>4 DEF LifeInv
<1> QED
  BY <1>1, <1>2

LEMMA Invariant == LifeSpec => []LifeInv
  BY LifeStarts, LifeSteps, PTL DEF LifeSpec

\* The variables of Startup and of LifeCycle have their types.
THEOREM TypeCorrect == LifeSpec => []LifeTypeOK
<1>1. LifeInv => LifeTypeOK
  BY TreeFacts DEF LifeInv, StartInv, Shape, LifeTypes, LifeTypeOK
<1> QED
  BY <1>1, Invariant, PTL

\* LoadConfig stores texts and GetBool wants a boolean: a process that gets as far
\* as its init files runs without the cache and keeps its sessions in cookies,
\* whatever its environment says.  (The switches that default.env documents,
\* PATCH_DB_REDIS_USE and PATCH_API_REDIS_USE, do nothing.)
THEOREM RedisNeverOn ==
    LifeSpec => [](at \in Started => sessions = "cookie" /\ (program = "main" => cache = "stub"))
<1>1. LifeInv => (at \in Started => sessions = "cookie" /\ (program = "main" => cache = "stub"))
  BY DEF LifeInv, StartInv, DbSteps, ApiSteps
<1> QED
  BY <1>1, Invariant, PTL

\* No default replaces a setting, and the shared section keeps what it was given.
THEOREM SettingsStay == LifeSpec => []SettingsKept
<1>1. ASSUME LifeInv PROVE SettingsKept
  <2>1. Shape /\ Kept /\ \A k \in DOMAIN environ["redis"] : Entry("redis", k) = environ["redis"][k]
    BY <1>1 DEF LifeInv, StartInv, Kept, Section, Entry
  <2> SUFFICES ASSUME NEW s \in {"db", "api"}, at \in Started, s = "api" \/ cache # "none"
               PROVE  /\ \A k \in DOMAIN environ[s] \ {"redis"} : Entry(s, k) = environ[s][k]
                      /\ Given("main", "redis").type # "config" =>
                           \A k \in DOMAIN environ[Own[s]] :
                              Nested(s, "redis", k) = environ[Own[s]][k]
    BY <2>1 DEF SettingsKept
  <2>2. Ready(s)
    BY <1>1 DEF LifeInv, StartInv, DbSteps, ApiSteps
  <2>3. s \in Section /\ Own[s] \in Section /\ Own[s] \notin {"db", "api"}
    BY DEF Own, Section
  <2>4. \A k \in DOMAIN environ[s] \ {"redis"} : Entry(s, k) = environ[s][k]
    BY <2>1, <2>3 DEF Kept, Entry
  <2>5. ASSUME Given("main", "redis").type # "config", NEW k \in DOMAIN environ[Own[s]]
        PROVE  Nested(s, "redis", k) = environ[Own[s]][k]
    <3>1. RedisOf(s) = Own[s]
      BY <2>5 DEF RedisOf
    <3>2. Nested(s, "redis", k) = Entry(Own[s], k)
      BY <2>2, <3>1 DEF Ready, Nested, SubTree
    <3> QED
      BY <2>1, <2>3, <2>5, <3>2 DEF Kept, Entry
  <2> QED
    BY <2>4, <2>5
<1> QED
  BY <1>1, Invariant, PTL

\* A cleanup that ends the process in time leaves no log file open, or not moved
\* without an error, that was on its list.
THEOREM Retired == LifeSpec => []LogsRetired
<1>1. LifeInv => LogsRetired
  BY DEF LifeInv, LifeTypes, FilesInv, LogsRetired
<1> QED
  BY <1>1, Invariant, PTL

\* The server listens only while its flag says so, and never after Stop.
THEOREM NeverAfterStop == LifeSpec => []ListensOnlyWhenRunning
<1>1. LifeInv => ListensOnlyWhenRunning
  BY DEF LifeInv, ServerInv, ListensOnlyWhenRunning
<1> QED
  BY <1>1, Invariant, PTL

================================================================================
