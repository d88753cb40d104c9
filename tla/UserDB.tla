-------------------------------- MODULE UserDB --------------------------------
(***************************************************************************)
(* The user table of pkg/storage/data/userdb.go with the optional redis    *)
(* cache of pkg/storage/cache/redis.go.  A request is one goroutine that   *)
(* calls a method of UserDB.  A method is a sequence of SQL statements,    *)
(* each a transaction of its own (DataBase.tla shows that one statement    *)
(* may be taken as one atomic step); other requests, the goroutines that   *)
(* refresh the cache and a restart of the process run between any two.     *)
(*                                                                         *)
(* A stage names the statement a request will send next; "done" is a       *)
(* request that has its answer, or that was never asked.                   *)
(***************************************************************************)
EXTENDS Integers, FiniteSets

CONSTANTS
    Request,        \* goroutines that call UserDB
    Worker,         \* bound on the `go updateCache` / `go clearCache` in flight
    Name, Email,    \* texts used as user names and as e-mail addresses
    Password,
    At,             \* the texts that contain "@"
    Spaced,         \* the texts that contain a space
    TooLong,        \* the passwords of more than 72 bytes, which bcrypt refuses
    MaxId,          \* last value of the sequence behind the serial column
    CacheActive,    \* the value of cache.Is_active()
    HasIdColumn,    \* FALSE: the table calls its key user_id (system.json)
    Int64Id,        \* the driver hands a serial out as an int64: CockroachDB's
                    \* is one, PostgreSQL's is an int32
    Faults,         \* what may fail: "statement", "redis", "restart"
    Exposed,        \* the methods that callers use
    Rows0, Serial0, \* the accounts kept from an earlier run
    Nil             \* no user, no text, no password

Methods == {"Create", "Authenticate", "GetByName", "GetByEmail", "GetById",
            "GetAll", "Update", "UpdateUserPassword", "DeleteByName",
            "DeleteById"}

Id    == 1..MaxId
User  == [id : 0..MaxId, name : Name, email : Email]
Row   == [id : Id, name : Name, email : Email, password : Password]
Login == Name \cup Email

\* "user_" + text: names, e-mails and ids share one namespace, so a name that
\* is a decimal number is modelled as that number.
Key == Name \cup Email \cup (0..MaxId)

Call == [op : Methods, name : Login \cup {Nil}, email : Email \cup {Nil},
         id : 0..MaxId, password : Password \cup {Nil}]
\* A method and its arguments; Nil and 0 where it has none.
To(op, n, e, i, p) ==
    [op |-> op, name |-> n, email |-> e, id |-> i, password |-> p]
NoCall == To("GetAll", Nil, Nil, 0, Nil)

Stages  == {"done", "email", "insert", "readback", "verify", "delete"}
Replies == {"none", "ok", "panic", "username cannot contain spaces",
            "ErrUserExists", "ErrCreateUser", "ErrNoUser", "ErrPassMismatch",
            "ErrGetAll", "ErrUpdateUser", "ErrDBUpdate", "ErrDBDelete"}

ASSUME BoundAssumption == MaxId \in Nat /\ Serial0 \in 0..MaxId

ASSUME NilAssumption ==
    Nil \notin User \cup Login \cup Password

ASSUME SwitchAssumption ==
    /\ CacheActive \in BOOLEAN
    /\ HasIdColumn \in BOOLEAN /\ Int64Id \in BOOLEAN
    /\ Faults \subseteq {"statement", "redis", "restart"}
    /\ Exposed \subseteq Methods

ASSUME RowsAssumption ==
    /\ Rows0 \subseteq Row /\ IsFiniteSet(Rows0) /\ IsFiniteSet(Request)
    /\ \A row \in Rows0 : row.id <= Serial0
    /\ \A a, b \in Rows0 : a.id = b.id => a = b

VARIABLES
    rows,   \* the users table
    serial, \* last value its sequence handed out
    cache,  \* what redis holds under each key, Nil for a miss
    stage, call, user, reply, \* of each request; user is the *User it holds
    job     \* of each cache goroutine: which user, and the next key to write

table == <<rows, serial>>
vars  == <<rows, serial, cache, stage, call, user, reply, job>>

Init ==
    /\ rows = Rows0
    /\ serial = Serial0
    /\ cache = [k \in Key |-> Nil]
    /\ stage = [r \in Request |-> "done"]
    /\ call = [r \in Request |-> NoCall]
    /\ user = [r \in Request |-> Nil]
    /\ reply = [r \in Request |-> "none"]
    /\ job = [w \in Worker |-> [kind |-> "idle"]]

-----------------------------------------------------------------------------
(* The table *)

\* Mutants of two WHERE clauses below: the wrong column, and none.
ByOtherColumn(e) == {row \in rows : row.name = e}
Anything(i)      == rows

WithName(n)  == {row \in rows : row.name = n}
WithEmail(e) == {row \in rows : row.email = e}
WithId(i)    == {row \in rows : row.id = i}

\* The sequence has handed out its last value.  Mutant: it has no last value.
Unlimited == FALSE
Exhausted == serial = MaxId

\* What system.LoadUser keeps of a row.
View(row) == [id |-> row.id, name |-> row.name, email |-> row.email]

MayFail == "statement" \in Faults \/ ~HasIdColumn

\* getUserWithWhere: SELECT id, ... WHERE ... LIMIT 1.  An error of the
\* statement and an empty result look the same to its caller.
Select(found) ==
    {View(row) : row \in IF HasIdColumn /\ Int64Id THEN found ELSE {}}
        \cup (IF found = {} \/ MayFail THEN {Nil} ELSE {})

\* The row it reads has an id that id.(int64) refuses.
SelectPanics(found) == HasIdColumn /\ ~Int64Id /\ found # {}

(* The cache *)

\* MarshalBinary drops the unexported id.
Cached(u) == [u EXCEPT !.id = 0]

\* redis.go:107-113 log a miss, or an error, through a logger that is nil.
LookupPanics(key, found) ==
    IF CacheActive THEN cache[key] = Nil \/ "redis" \in Faults
                   ELSE SelectPanics(found)

\* GetByName, GetByEmail and GetById: the cache first, then the table.
Lookup(key, found) == IF CacheActive THEN {cache[key]} \ {Nil} ELSE Select(found)

\* `go updateCache(u)` or `go clearCache(u)` for every u in the range of us.
\* With the cache off the goroutine returns at once.
Spawn(kind, us) ==
    IF ~CacheActive THEN job' = job
    ELSE \E slot \in [DOMAIN us -> {w \in Worker : job[w].kind = "idle"}] :
            /\ \A x, y \in DOMAIN us : slot[x] = slot[y] => x = y
            /\ job' = [w \in Worker |->
                         IF \E x \in DOMAIN us : slot[x] = w
                         THEN [kind |-> kind, next |-> 1,
                               user |-> us[CHOOSE x \in DOMAIN us : slot[x] = w]]
                         ELSE job[w]]

(* Requests *)

Ask(r, c) == stage[r] = "done" /\ c.op \in Exposed /\ call' = [call EXCEPT ![r] = c]

Goto(r, s, u) ==
    /\ stage' = [stage EXCEPT ![r] = s]
    /\ user' = [user EXCEPT ![r] = u]
    /\ reply' = [reply EXCEPT ![r] = "none"]

Answer(r, u, e) ==
    /\ stage' = [stage EXCEPT ![r] = "done"]
    /\ user' = [user EXCEPT ![r] = u]
    /\ reply' = [reply EXCEPT ![r] = e]

-----------------------------------------------------------------------------
(* Create *)

CreateByName(r) ==
    \E n \in Name, e \in Email, p \in Password :
        /\ Ask(r, To("Create", n, e, 0, p))
        /\ \/ LookupPanics(n, WithName(n)) /\ Answer(r, Nil, "panic")
           \/ \E u \in Lookup(n, WithName(n)) :
                 IF u = Nil THEN Goto(r, "email", Nil)
                            ELSE Answer(r, Nil, "ErrUserExists")
        /\ UNCHANGED <<table, cache, job>>

CreateByEmail(r) ==
    LET c == call[r] IN
    /\ stage[r] = "email"
    /\ \/ LookupPanics(c.email, WithEmail(c.email)) /\ Answer(r, Nil, "panic")
       \/ \E u \in Lookup(c.email, WithEmail(c.email)) :
             IF u # Nil THEN Answer(r, Nil, "ErrUserExists")
             ELSE IF c.name \in Spaced
                  THEN Answer(r, Nil, "username cannot contain spaces")
             ELSE IF c.password \in TooLong THEN Answer(r, Nil, "ErrCreateUser")
             ELSE Goto(r, "insert", Nil)
    /\ UNCHANGED <<table, cache, call, job>>

\* Mutant: an INSERT whose acknowledgement is lost is sent again.
InsertRetried(r) ==
    /\ stage[r] = "insert" /\ ~Exhausted
    /\ serial' = serial + 1
    /\ rows' = rows \cup {[id |-> serial + 1, name |-> call[r].name,
                           email |-> call[r].email, password |-> call[r].password]}
    /\ \/ Goto(r, "readback", Nil)
       \/ "statement" \in Faults /\ Goto(r, "insert", Nil)
    /\ UNCHANGED <<cache, call, job>>

\* The INSERT: applied and acknowledged, applied with the acknowledgement
\* lost, or refused; the sequence refuses once it is exhausted.
CreateInsert(r) ==
    /\ stage[r] = "insert"
    /\ \/ /\ ~Exhausted
          /\ serial' = serial + 1
          /\ rows' = rows \cup {[id |-> serial + 1, name |-> call[r].name,
                                 email |-> call[r].email,
                                 password |-> call[r].password]}
          /\ \/ Goto(r, "readback", Nil)
             \/ "statement" \in Faults /\ Answer(r, Nil, "ErrCreateUser")
       \/ /\ Exhausted \/ "statement" \in Faults
          /\ Answer(r, Nil, "ErrCreateUser")
          /\ UNCHANGED table
    /\ UNCHANGED <<cache, call, job>>

CreateReadback(r) ==
    /\ stage[r] = "readback"
    /\ \/ /\ LookupPanics(call[r].name, WithName(call[r].name))
          /\ Answer(r, Nil, "panic") /\ job' = job
       \/ \E u \in Lookup(call[r].name, WithName(call[r].name)) :
             IF u = Nil
             THEN Answer(r, Nil, "ErrCreateUser") /\ job' = job
             ELSE Answer(r, u, "ok") /\ Spawn("update", [x \in {r} |-> u])
    /\ UNCHANGED <<table, cache, call>>

(* Authenticate *)

AuthenticateLookup(r) ==
    \E l \in Login, p \in Password :
        LET found == IF l \in At THEN WithEmail(l) ELSE WithName(l) IN
        /\ Ask(r, To("Authenticate", l, Nil, 0, p))
        /\ \/ LookupPanics(l, found) /\ Answer(r, Nil, "panic")
           \/ \E u \in Lookup(l, found) :
                 IF u = Nil THEN Answer(r, Nil, "ErrNoUser")
                            ELSE Goto(r, "verify", u)
        /\ UNCHANGED <<table, cache, job>>

\* verifyPasswordById reads the hash of whatever row has the id by now.
AuthenticateVerify(r) ==
    LET stored == {row.password : row \in WithId(user[r].id)} IN
    /\ stage[r] = "verify"
    /\ \/ HasIdColumn /\ call[r].password \in stored /\ Answer(r, user[r], "ok")
       \/ /\ stored # {call[r].password} \/ MayFail
          /\ Answer(r, Nil, "ErrPassMismatch")
    /\ UNCHANGED <<table, cache, call, job>>

(* Reads *)

Get(r, c, key, found) ==
    /\ Ask(r, c)
    /\ \/ LookupPanics(key, found) /\ Answer(r, Nil, "panic")
       \/ \E u \in Lookup(key, found) :
             Answer(r, u, IF u = Nil THEN "ErrNoUser" ELSE "ok")
    /\ UNCHANGED <<table, cache, job>>

GetByName(r) == \E n \in Name :
    Get(r, To("GetByName", n, Nil, 0, Nil), n, WithName(n))
GetByEmail(r) == \E e \in Email :
    Get(r, To("GetByEmail", Nil, e, 0, Nil), e, WithEmail(e))
GetById(r) == \E i \in 0..MaxId :
    Get(r, To("GetById", Nil, Nil, i, Nil), i, WithId(i))

\* SELECT *, so the name of the key column does not matter; the users it
\* returns, and caches, never had their id set.
GetAll(r) ==
    /\ Ask(r, NoCall)
    /\ \/ /\ rows # {}
          /\ Answer(r, Nil, "ok")
          /\ Spawn("update", [row \in rows |-> Cached(View(row))])
       \/ /\ rows = {} \/ "statement" \in Faults
          /\ Answer(r, Nil, "ErrGetAll")
          /\ job' = job
    /\ UNCHANGED <<table, cache>>

(* Update: the caller passes a *User it has edited *)

\* UPDATE users SET ... WHERE id = i, as seen by its caller: after the last
\* statement the answer is u, or the error e.
Apply(r, newRows, u, e) ==
    \/ /\ HasIdColumn /\ rows' = newRows
       /\ Answer(r, u, "ok") /\ Spawn("update", [x \in {r} |-> u])
    \/ "statement" \in Faults /\ rows' = newRows /\ Answer(r, Nil, e) /\ job' = job
    \/ MayFail /\ rows' = rows /\ Answer(r, Nil, e) /\ job' = job

Update(r) ==
    \E u \in User :
        /\ Ask(r, To("Update", u.name, u.email, u.id, Nil))
        /\ Apply(r, {IF row.id = u.id
                     THEN [row EXCEPT !.name = u.name, !.email = u.email]
                     ELSE row : row \in rows}, u, "ErrDBUpdate")
        /\ UNCHANGED <<serial, cache>>

UpdateUserPassword(r) ==
    \E u \in User, p \in Password :
        /\ Ask(r, To("UpdateUserPassword", u.name, u.email, u.id, p))
        /\ IF p \in TooLong
           THEN Answer(r, Nil, "ErrUpdateUser") /\ UNCHANGED <<rows, job>>
           ELSE Apply(r, {IF row.id = u.id THEN [row EXCEPT !.password = p]
                          ELSE row : row \in rows}, u, "ErrDBUpdate")
        /\ UNCHANGED <<serial, cache>>

(* Delete *)

DeleteLookup(r, c, key, found) ==
    /\ Ask(r, c)
    /\ \/ LookupPanics(key, found) /\ Answer(r, Nil, "panic") /\ job' = job
       \/ \E u \in Lookup(key, found) :
             IF u = Nil
             THEN Answer(r, Nil, "ErrNoUser") /\ job' = job
             ELSE Goto(r, "delete", Nil) /\ Spawn("clear", [x \in {r} |-> u])
    /\ UNCHANGED <<table, cache>>

DeleteByName(r) == \E n \in Name :
    DeleteLookup(r, To("DeleteByName", n, Nil, 0, Nil),
                 n, WithName(n))
DeleteById(r) == \E i \in 0..MaxId :
    DeleteLookup(r, To("DeleteById", Nil, Nil, i, Nil), i, WithId(i))

\* Mutant: the DELETE goes by the id of the user that was found, which one from
\* the cache has lost.
DeleteFound(r) ==
    /\ stage[r] = "delete"
    /\ rows' = rows \ WithId(0) /\ Answer(r, Nil, "ok")
    /\ UNCHANGED <<serial, cache, call, job>>

\* The DELETE removes every row that matches by now, not the row looked up.
DeleteRow(r) ==
    LET byName == call[r].op = "DeleteByName"
        left == rows \ (IF byName THEN WithName(call[r].name)
                                  ELSE WithId(call[r].id)) IN
    /\ stage[r] = "delete"
    /\ \/ (byName \/ HasIdColumn) /\ rows' = left /\ Answer(r, Nil, "ok")
       \/ "statement" \in Faults /\ rows' \in {rows, left} /\ Answer(r, Nil, "ErrDBDelete")
       \/ ~byName /\ ~HasIdColumn /\ rows' = rows /\ Answer(r, Nil, "ErrDBDelete")
    /\ UNCHANGED <<serial, cache, call, job>>

-----------------------------------------------------------------------------
(* The cache goroutines, and the process *)

\* updateCache and clearCache write the three keys one redis call at a time.
CacheWrite(w) ==
    LET j == job[w]
        key == <<j.user.name, j.user.email, j.user.id>>[j.next] IN
    /\ j.kind # "idle"
    /\ cache' = [cache EXCEPT ![key] = IF j.kind = "update" THEN Cached(j.user)
                                                          ELSE Nil]
    /\ job' = [job EXCEPT ![w] = IF j.next = 3 THEN [kind |-> "idle"]
                                 ELSE [j EXCEPT !.next = @ + 1]]
    /\ UNCHANGED <<table, stage, call, user, reply>>

\* A restart; or a panic of a cache goroutine (a redis error is logged through
\* the nil logger), which nothing recovers.  The table and redis survive.
ProcessDies ==
    /\ \/ "restart" \in Faults
       \/ "redis" \in Faults /\ \E w \in Worker : job[w].kind # "idle"
    /\ stage' = [r \in Request |-> "done"]
    /\ call' = [r \in Request |-> NoCall]
    /\ user' = [r \in Request |-> Nil]
    /\ reply' = [r \in Request |-> "none"]
    /\ job' = [w \in Worker |-> [kind |-> "idle"]]
    /\ UNCHANGED <<table, cache>>

Step(r) ==
    \/ CreateByName(r) \/ CreateByEmail(r) \/ CreateInsert(r)
    \/ CreateReadback(r) \/ AuthenticateLookup(r) \/ AuthenticateVerify(r)
    \/ GetByName(r) \/ GetByEmail(r) \/ GetById(r) \/ GetAll(r)
    \/ Update(r) \/ UpdateUserPassword(r)
    \/ DeleteByName(r) \/ DeleteById(r) \/ DeleteRow(r)

Next ==
    \/ \E r \in Request : Step(r)
    \/ \E w \in Worker : CacheWrite(w)
    \/ ProcessDies

Spec == Init /\ [][Next]_vars

-----------------------------------------------------------------------------
(* Properties *)

Job == [kind : {"idle"}]
         \cup [kind : {"update", "clear"}, next : 1..3, user : User]

TypeOK ==
    /\ rows \subseteq Row
    /\ serial \in 0..MaxId
    /\ cache \in [Key -> User \cup {Nil}]
    /\ stage \in [Request -> Stages]
    /\ call \in [Request -> Call]
    /\ user \in [Request -> User \cup {Nil}]
    /\ reply \in [Request -> Replies]
    /\ job \in [Worker -> Job]

\* Create looks both logins up before it inserts, in statements of their own,
\* and the table has no unique constraint: at most as many accounts share a
\* name, or an e-mail, as there are requests.  With one request at a time both
\* are unique.  (Statements do not fail, the key column is id, no Update.)
BoundedDuplicates ==
    /\ \A n \in Name : Cardinality({row \in rows : row.name = n}) <= Cardinality(Request)
    /\ \A e \in Email : Cardinality({row \in rows : row.email = e}) <= Cardinality(Request)

\* "username or email already exists" (userdb.go:20): no two accounts share
\* either.
LoginsUnique ==
    \A a, b \in rows : a.name = b.name \/ a.email = b.email => a = b

\* In this step request r gets an answer among es to a call of the method op.
Answers(r, op, es) ==
    /\ <<stage[r], call[r], user[r], reply[r]>>
          # <<stage'[r], call'[r], user'[r], reply'[r]>>
    /\ stage'[r] = "done" /\ call'[r].op = op /\ reply'[r] \in es

Matches(row, c) == c.name \in {row.name, row.email} /\ row.password = c.password

\* Authenticate reads the account and the hash in two statements.  Whatever
\* runs between them, a request it lets in gave the login and the password of
\* one account, the one it is answered with.  (No Update.)
AuthenticateSound ==
    [][\A r \in Request : Answers(r, "Authenticate", {"ok"}) =>
         \E row \in rows : row.id = user'[r].id /\ Matches(row, call'[r])]_vars

\* Requests, statement by statement, do what UserRegistry promises, whatever
\* the cache answers; with the cache on, "already exists" may be a thing of the
\* past.
Registry == INSTANCE UserRegistry WITH
    Calls <- Call, Stale <- CacheActive, Users <- User,
    open <- {r \in Request : stage[r] # "done"},
    acted <- {r \in Request : stage[r] = "readback"},
    user <- [r \in Request |-> IF stage[r] = "done" THEN user[r] ELSE Nil]

RefinesRegistry == Registry!Spec
===============================================================================
