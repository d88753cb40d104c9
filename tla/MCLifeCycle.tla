------------------------------ MODULE MCLifeCycle ------------------------------
(***************************************************************************)
(* The instance of LifeCycle for TLC: every environment that Startup can   *)
(* tell apart, without log files; some of them with log files; and the     *)
(* configurations of the two tests that start the API.                     *)
(***************************************************************************)
EXTENDS LifeCycle, TLC

Yes   == Text("true")
Empty == << >>
Maybe(k, vs) == {Empty} \cup {k :> v : v \in vs}

Has(section, k) == k \in DOMAIN section

\* The sections of main from those of the data base, of the API and of redis,
\* and from what is set beside them.  PATCH_DB_REDIS_USE and PATCH_API_REDIS_DB
\* make sections below DB and API; PATCH_API_REDIS alone is a text.
Tree(d, a, r, top) ==
    [main   |-> top @@ (IF d = Empty THEN Empty ELSE "db" :> SubTree("db"))
                    @@ (IF a = Empty THEN Empty ELSE "api" :> SubTree("api"))
                    @@ (IF r = Empty THEN Empty ELSE "redis" :> SubTree("redis")),
     db     |-> d, api |-> a, redis |-> r,
     ownDb  |-> IF Has(d, "redis") /\ d.redis.type = "config"
                THEN [use |-> Yes, db |-> Text("0")] ELSE Empty,
     ownApi |-> IF Has(a, "redis") /\ a.redis.type = "config"
                THEN [use |-> Yes, db |-> Text("1")] ELSE Empty]

Dbs    == {n @@ r : n \in Maybe("name", {Text("patch_db")}),
                    r \in Maybe("redis", {Yes, SubTree("ownDb")})}
Apis   == {p @@ r @@ c : p \in Maybe("port", {Text("2070"), Text("eighty")}),
                         r \in Maybe("redis", {Yes, SubTree("ownApi")}),
                         c \in Maybe("cert", {Text("server.crt")}) \cup
                               {[cert |-> Text("server.crt"), key |-> Text("server.key")]}}
Shared == {Empty} \cup {("db" :> Text("2")) @@ u : u \in Maybe("use", {Yes})}

Logs    == "log" :> SubTree("log")
GoodDb  == "name" :> Text("patch_db")
GoodApi == "port" :> Text("2070")

\* main_api_test.go:27 and server_test.go:20.
TestTrees ==
    {Tree(Empty, "port" :> Number("3080"), Empty, Empty),
     [Tree(Empty, [port |-> Number("12345"), redis |-> SubTree("ownApi")], Empty, Empty)
        EXCEPT !.ownApi = "use" :> Bool("false")]}

AllTrees(p) ==
    IF p = "test" THEN TestTrees
    ELSE {Tree(d, a, r, Empty) : d \in Dbs, a \in Apis, r \in Shared}
         \cup {Tree(GoodDb, a, Empty, Logs) : a \in {GoodApi, Empty}}
================================================================================
