# PaT-CH in TLA+

PaT-CH ("Pass-Through Connection Handler") is a Go micro-service: an HTTP API
over a user table in PostgreSQL, with an optional redis cache, sessions in a
cookie, and a table that forwards paths to other services. This directory holds
TLA+ models of it, the TLC configurations that check them on small instances,
and TLAPS proofs about them. Paths below are relative to `src/`.

## 1. The system

### Components

| component | code | state | operations |
|---|---|---|---|
| User table | `pkg/storage/data/userdb.go`, `internal/system/user.go` | rows of the `users` table, the sequence behind its key; a `*User` per request | Create, Authenticate, GetByName, GetByEmail, GetById, GetAll, Update, UpdateUserPassword, DeleteByName, DeleteById |
| Redis cache of the user table | `pkg/storage/cache/redis.go` | redis keys `user_<name>`, `user_<email>`, `user_<id>` | Get, Set, Delete, Is_active |
| SQL data base | `pkg/storage/data/sql.go` | the tables; the pool's connections and its queue; open transactions | Init, CreateTable, DeleteTable, Select, Insert, Update, Delete, Disconnect |
| Data base connection set-up | `pkg/storage/data/sql.go` NewConnector | the configuration it writes its defaults into | NewConnector, buildConnString |
| SQL text | `pkg/storage/data/helper.go` | none | WhereMap.String, buildCreateTableSQL, conversions |
| Patch table | `pkg/api/patch.go` | one Go map, path to destination, without a lock | register, list, look up, delete; Apply for the init files |
| API server | `pkg/api/server.go`, `router.go` | router, HTTP server, `running` | NewServer, Init, Start, Stop |
| Sessions | `pkg/api/internal/` | a signed cookie at each browser; nothing on the server | register, connect, disconnect, status, session, user, delete user |
| In-memory user table | `internal/system/userimdb.go` | three maps and a counter, without a lock | as the user table; only tests use it |
| Configuration | `pkg/util/config.go` | a tree of maps, one lock each | LoadConfig, Get, Set, MergeDefault, MergeInConfig |
| Loggers | `pkg/util/logger.go` | log files | CreateLogger, TerminateLoggers |
| Set-up of the environment | `internal/setup/` | environment, working directory | PrepareEnvironment, PrepareSubsystemInit |
| Process life cycle | `cmd/patch/main.go` | the main context | load configuration, data base, API; serve; clean up |
| Utilities | `pkg/util/` | none | helpers on files and strings |

### How they interact

`main` loads the configuration, then the data base (which runs the init files),
then the API server (which loads the init patches), then serves. Each HTTP
request is a goroutine. The session handlers call the user table; the user table
calls the cache and the data base; every statement to the data base is a
transaction of its own on a connection of the pool. After a read the user table
starts goroutines of its own that write to the cache. The patch handlers share
one Go map and call other services with `http.Get` before they store into it.
The main context goes to the statements of the init files only: a handler
passes its `*gin.Context`, which is never cancelled. The data base and the API
read their settings from sections of one configuration tree, and both come to share
its redis section. A goroutine waits for a signal; it, and main when it panics,
close the log files and end the process. When the API is started without a data
base, as the tests do, the in-memory table takes the place of the user table.

### What is hard in it

* **Interleaving.** A method of the user table is up to four transactions;
  others run between any two. Cache goroutines overtake each other. Handlers
  read and write the patch map without a lock and wait for a foreign server
  between the look-up and the store. The configuration is filled by one
  goroutine per variable.
* **Partial failure.** A statement is refused, its COMMIT is carried out and the
  acknowledgement lost, or the connection breaks while rows are read. `Select`
  answers `nil` for an error, which its callers take for no rows.
* **Crash and restart.** Rows and redis survive; requests, cache goroutines and
  the patch table do not. The init files run again.
* **State at the other end.** The server keeps no sessions: a session is a
  cookie, good for an hour and across restarts. Its account may be gone and its
  name taken anew; answers that set cookies may overtake each other.
* **Limits and waiting.** The pool has a fixed size and a queue; no statement
  and no GET has a time-out; the sequence of the key ends.

### What would make each component correct

* User table: no two accounts share a login (they may, section 4); only the
  right password is let in; each call has one effect, at one instant, and its
  answer is true.
* Cache: it never changes what a call does to the accounts, nor whom a login is
  granted to. (It does change whom it is refused to: section 4.)
* Data base: each statement happens at one instant or not at all; no connection
  is lost; every call is answered; only empty tables are dropped.
* Patch table: a destination is never overwritten (it may be, section 4); only
  usable destinations are stored; the server starts with all patches of an init
  file or with none; a slow destination holds up nobody else.
* Configuration: what is returned is complete for names that do not repeat, is only what the environment
  says, and does not change afterwards; the loading ends.
* Sessions: a session is of an account whose password its browser gave; an
  account is deleted only under a session of its name (which may be that of a
  deleted namesake, section 4).
* In-memory table: only the right password is let in, although others see an
  account half made.
* Set-up: each subsystem reads what the environment says of it; defaults replace
  nothing, in a section that two subsystems share either.
* Process: nothing is served before everything is loaded; a cleanup ends, and
  leaves no log file open; a server that was stopped stays down.

`PROJECT.json` lists the hazards at their lines, with the properties that cover
them.

## 2. The modules

| module | models | state, in the code's terms |
|---|---|---|
| `UserDB` | every method of the user table, statement by statement, with the cache and its goroutines | `rows`, `serial`: the table. `cache`: redis. `stage`, `call`, `user`, `reply`: where each request is, its arguments, the `*User` it holds, its answer. `job`: cache goroutines |
| `UserRegistry` | abstract: what a caller of the user table is promised | `rows`, which calls are open and which have acted |
| `SqlTables` | what SQL statements and `WhereMap.String` mean, as operators | none |
| `DataBase` | the methods of `sql.go`, round trip by round trip, over the pool | `tables`: committed rows. `queue`, `stage`: the pool and each client. `seen`, `got`, `broken`: of its transaction |
| `AtomicTables` | abstract: what `sql.go` promises the user table | `tables`, the statement each call is at and whether it has taken effect |
| `PatchTable` | the patch table with its handlers and the loading of init files | `table`: the Go map. `phase`, `file`, `at`: main, the file and the patch it is at. `skipped` (auxiliary): the files it passed over. `stage`, `call`, `reply`: each handler |
| `ConfigLoad` | `LoadConfig` with all its goroutines, `Set`, `Get` | `store`: the tree. `stream`, `entries`: the channels. `pending`: the wait group. `setter`, `depth`: the goroutine of each entry |
| `Sessions` | the HTTP handlers and `UserRoutePass`, over the actions of `UserDB` | that of `UserDB`, and `jar`: the cookie of each browser; `web`: what each request is about, with the answer that is on its way |
| `UserIMDB` | the in-memory table, map access by map access | `users`, `passwords`, `counter`; `stage`, `call`, `target`, `reply` of each request; `registered` (auxiliary): the passwords that the Creates of each id were given |
| `Startup` | from the loaded configuration to `ListenAndServe`: main, NewConnector, NewServer, MergeDefault, MergeInConfig | `store`: the sections of the tree. `environ`: as they were loaded. `at`: main. `cache`, `sessions`: the connectors chosen |
| `LifeCycle` | the process around `Startup`: the loggers, the server's goroutine, Stop, the signal goroutine, the time-out | `files`, `log`: the log files. `clean`, `task`: the two that may clean up, and a goroutine per file. `server`, `serving`, `running`: the HTTP server |
| `MC...` | instances for TLC | |
| `UserDBProofs`, `UserDBLoginProofs`, `SessionsProofs` | proofs about `UserDB` and `Sessions`; `UserDBProofs` also that it implements `UserRegistry` | |
| `DataBaseProofs`, `PatchTableProofs`, `ConfigLoadProofs`, `UserIMDBProofs` | proofs about the module each is named after; `DataBaseProofs` also that it implements `AtomicTables` | |
| `LifeCycleProofs` | proofs about `Startup` and `LifeCycle` | |

`Sessions` extends `UserDB`: a handler that calls the user table begins with the
first statement of the method, and the further statements are its later steps.
`LifeCycle` extends `Startup`: it adds to each step of main what the step does to
the loggers and the server. Two abstract modules join the layers. `DataBase` implements `AtomicTables`:
each statement, though it takes an acquisition, a BEGIN, the statement and a
COMMIT that may each fail, takes effect at one instant or not at all. That is
what `UserDB` assumes when it makes one action of one statement. `UserDB`
implements `UserRegistry`: a method, though it takes several statements and may
be cut short between them, changes the accounts at most once, between its
call and its answer, and the answer is true of what it did.

### Correspondence to the code

`PROJECT.json` "map" names the lines of every definition. Conventions:

* An action is one atomic piece of a handler: from one round trip (a statement,
  a redis call, a GET, a lock) to the next. Local computation, early returns and
  error paths between two round trips belong to the action.
* `stage` is what an actor does next; `"done"` is an actor that has its answer.
* In `UserDB`, `Lookup` is the pair of cache and SELECT that the four getters
  share. With the cache on a miss, or an error of redis, panics: the cache's logger
  is never set. A user that went through the cache has id 0, since
  `MarshalBinary` drops the unexported field.
* `HasIdColumn = FALSE` is the schema that the repository ships
  (`configs/db/system.json`), whose key column is called `user_id` while the
  SELECTs say `id`. `Int64Id = FALSE` is PostgreSQL, whose serial the driver
  hands out as an int32: every look-up that finds an account panics
  (`userdb.go:140`). The tests run on CockroachDB, whose serial is an int64.
* In `DataBase`, a client whose step failed goes on as its method does:
  `Failed`, `Succeeded` and `GoOn` are the error returns of the methods.
* In `Sessions`, everybody types one password, her own, so a browser is named by
  the password typed into it. A session is the name in the cookie; the id of the
  account that logged in stands next to it, for the properties only.
* In `Startup`, `own` sections are those the environment puts below `DB_REDIS` and
  `API_REDIS`; sections that share a subtree name the same one.
* A Go map that is read or written while another goroutine writes it may end
  the process: `MapFault` in `PatchTable`, `ConfigLoad` and `UserIMDB`.

### What is abstracted

Names, e-mails, passwords, hosts and values are members of small sets, with
the sets that the code distinguishes (`At`, `Spaced`, `TooLong`, `Slow`). A hash
is equal to its password; a password over 72 bytes is refused by bcrypt, and
never equal to one in the table. Timestamps, log lines and, outside `Sessions`,
HTTP status codes are left out. Failed INSERTs leave no gap in the sequence. A `GetAll` writes as
many users to the cache as there are rows, bounded by `Worker`. An init file is
the set of tables it creates; one without a table is the outage "files" of
`Startup`. A certificate is a pair or not (the outage "cert"). SQL rows have the columns that the WHERE clauses
distinguish.

The PostgreSQL server, redis, pgx's pool, `net/http`, the Go runtime and
`os.Environ` are modelled as the code in `src/` uses them. The server is taken
to be serializable: a transaction reads committed rows, and a write is
committed only if the rows it touches are still those it saw; it may refuse any
transaction that ran beside a change. Row locks are not modelled: a statement
that would wait is one that comes later. The pool serves its queue in order.

## 3. Checking

    tlc -config MCUserDBConcurrent.cfg MCUserDB.tla
    tlapm UserDBProofs.tla

### Runs that pass

| run | configuration | question | distinct states |
|---|---|---|---|
| users_concurrent | `MCUserDBConcurrent` | Do two interleaved requests, with failing statements, lost answers and restarts, still do what `UserRegistry` says? Is only the right password let in? | 105,417 |
| users_cached | `MCUserDBCache` | Does the cache, with fills and clears that overtake each other, leave it at what was asked? | 540,367 |
| tables_calls | `MCDataBaseCalls` | Are statements atomic although every round trip may fail and the process may stop? | 763,689 |
| tables_pool | `MCDataBasePool` | Does every call come back, and every connection, with three clients for two connections? | 13,278 |
| patches | `MCPatchTableServing` | The patch table under registrations, deletes, odd requests, a slow host and map faults; what is in it when the server starts | 74,032 |
| config | `MCConfigLoadEnvironments` | Is the loaded configuration complete, and the loader finished, in every order of its goroutines? | 35,853 |
| sessions | `MCSessions` | Who holds a session, and who gets an account deleted, with two browsers, two requests, lost and late answers, deletions and restarts? | 615,806 |
| lifecycle | `MCLifeCycle` | What do the subsystems read of their shared configuration; does cleaning up, or stopping, end, and what does it leave, with signals, panics and failures at any moment? | 63,842 |
| memory | `MCUserIMDB` | Does the table without locks let in only whom it should, while accounts are seen half made and ids are drawn twice? | 1,974,528 |

The properties, by run:

* `AuthenticateSound`: the account and its hash are read in two transactions, by
  name and then by id. Between them the account may be deleted and the name
  taken anew; still nobody is let in as an account whose login and password they
  did not give. It rests on ids that are never used twice.
* `RefinesRegistry`: as described above.
  With the cache on it is weaker in one point: "already exists" may be said of
  an account that is gone (`Stale`). What it still excludes is that a call
  changes other accounts than it was asked to, since a user from the cache has
  lost its id, and that somebody is let in by it.
* `RefinesAtomicTables`, `NoHoldAndWait`, `EveryCallIsAnswered`,
  `DisconnectReturns`: the data base. `DeleteTable` needs two transactions and
  gives its connection back between them, which keeps the pool free of
  deadlock.
* `DestinationsUsable`, `StartsComplete`, `OthersAreAnswered`: the patch table.
  An init file that cannot be found is passed over, one that is refused ends the
  process: either way no file is in force by half (`StartsComplete`).
* `LoadedIsComplete`, `OnlyTheEnvironment`, `LoadedIsSettled`, `EndsForAReason`,
  `LoadingEnds`: the configuration. `LoadedIsComplete` leaves out variables that
  share a name, of which any may win (section 4).
* `SessionsEarned`: every session that a browser holds, has sent or is about to
  receive was given for an account whose password was typed into that browser. It
  follows the account, not the name: who has the name by now is another question.
  `DeletedByName`: an account goes only by a request under a session of its name;
  nobody whose account is still there under another name can delete it. Somebody
  whose own account is gone can, if the name was taken since: section 4.
  `AccountsBounded`: HTTP lets one person register, as register passes the
  e-mail "", which Create then finds taken. It describes a defect, so that a
  repair shows.
* `SettingsKept`: what the environment says of a subsystem is what it reads, and a
  redis section that both share keeps what was said of it, whoever fills in its
  defaults first. Where a subsystem has a redis section of its own next to the
  shared one nothing is said: `MergeInConfig` replaces it (section 4).
* `LogsRetired`: two cleanups may run at once, next to a main that still opens
  files; whichever ends the process in time leaves no file of its list open.
  `CleanupEnds`: without waiting for the five seconds. `ListensOnlyWhenRunning`,
  `StopEnds`: Stop against the goroutine of Start.
* `LoginsGranted`: a login is granted only to a password that the account was made
  with. Two Creates that race may draw one id; then it is the password of either.

Each property has a mutant in `PROJECT.json`: a plausible mistake in the code
under which TLC finds it violated. The mutants stand beside the definitions they
replace, marked "Mutant".

### Bounds, and why they are enough

* Users: two requests, since every race here is between two (a third adds no
  new pair of statements); two logins, two passwords and two ids, so that an
  account is deleted and its login taken by another id, and the sequence ends. A
  name of `users_concurrent` contains "@", which makes a login ambiguous; a name
  with a space and a password that is too long are in `users_duplicate`. The
  cached run has one account from before the cache and two goroutines, enough for
  one to overtake the other at each of three keys. Its sequence has ended, which
  leaves nothing out: with the cache on the first look-up of a Create finds an
  account or panics, so no INSERT is ever sent.
* Tables: two clients that contend for rows, two tables for the two init files,
  two values per column. In the pool run three clients for two connections, so
  that one waits.
* Patches: two handlers, either of which registers, reads or deletes; paths with
  none, one and two slashes, each kind of destination that `validatePath` tells
  apart; two init files, one of them with two patches, so that a patch, or a file,
  is refused after another was stored.
* Configuration: up to four variables with names of up to three parts, chosen
  for what they share: one map, one name, a name and its file, a name that leads
  through another's value, a file that is missing, another program's variable,
  and none. The seven environments are in `MCConfigLoad`.
* Sessions: two browsers, so that one could hold what the other earned; two
  requests, since the races are between two; two names and three ids, so that a
  name is taken anew by another browser while the session of its first owner
  lives, and once more. Statements do not fail here: `users_concurrent` has
  that, and `AccountsBounded` needs it. The cache is off, as theorem
  `RedisNeverOn` shows it to be.
* Life cycle: every combination of the settings that `Startup` tells apart (a
  name, a port that is a number or not, redis as a text, as a section, shared or
  not, a certificate with its key or without), without log files; two of them with log files; the
  configurations of the two tests that start the API. All outages at once.
* Memory: two requests that do anything, both may register; two ids, so that one
  is drawn twice, or one account comes after the other; a password that bcrypt
  refuses.

`CHECK_DEADLOCK FALSE` stands only in the configurations of `ConfigLoad`, whose
goroutines end, of `LifeCycle`, whose process does, and of `PatchTable`, where
every handler may come to wait for a host that never answers.

### Fairness

* `DataBase`: weak fairness of each client's next step. The server answers every
  round trip, one way or the other, the pool serves its queue in order, and the
  Go scheduler runs every goroutine. Calls, cancellation and restarts are not
  fair. No statement has a time-out, so a server that stops answering is outside
  the assumption.
* `PatchTable`: weak fairness of each handler's next step, and of main's within a
  patch, but a GET to a host
  in `Slow` is never answered and no step is enabled there.
* `ConfigLoad`: weak fairness of each goroutine and of LoadConfig's return; the
  time-out, a map fault and the exit are not fair.
* `LifeCycle`: weak fairness of main, of the goroutine of Start, of the end of a
  request and of each cleanup. A request ends because `DataBase` and `PatchTable`
  answer; one that registers a path does so only if its destination answers,
  so `StopEnds` assumes that it does. Signals, requests, the five seconds and
  PATCH_TIMEOUT are not fair.
* `UserDB`, `Sessions` and `UserIMDB` have no liveness property: their
  requests are sequences of `DataBase` calls, whose answers `DataBase` shows, or of
  map accesses.

## 4. Disagreements between the code and what it says

| run | what the run shows |
|---|---|
| users_duplicate | Two concurrent Creates both find the login free and both insert; no table has a unique constraint. `userdb.go:20` says "username or email already exists". |
| tables_dropped | `Select` turns an error into `nil`, `DeleteTable` takes `nil` for empty: a failed SELECT lets it drop a full table. |
| patches_overwritten | Two registrations of one path both find it free and wait for their destinations; the second replaces what the first has stored. `patch.go:82` says "path already exists". |

Others were met while modelling and have no run.

In the user table and the sessions:

* With the shipped schema (`configs/db/system.json`), whose key column is called
  `user_id`, every SELECT by column `id` is refused: Create inserts its row and
  then answers "error creating user" (`HasIdColumn = FALSE` in `UserDB`).
* A name with "@" can be created and never logs in by it (`userdb.go:213`).
* On PostgreSQL, which `.devcontainer/docker-compose.yml:48` starts, every look-up that finds an account
  panics: the serial arrives as an int32 (`userdb.go:140`, `Int64Id = FALSE`).
* A cache that is on lets nobody in: a miss panics (`redis.go:112`), and a hit has
  lost its id, so that no password is found for it (`user.go:26`), while
  `userdb.go:211` means it to serve logins. Its entries are written by goroutines
  that overtake each other (`userdb.go:82`, `:267`), so what it says of an account
  may be long past.
* A session outlives its account: for an hour it deletes the account of whoever
  has taken the name since (`sessioncontrol.go:157`, `:213`).
* Only one account can be registered over HTTP (`sessioncontrol.go:78`, `:81`;
  `AccountsBounded`).
* The user handler converts a nil id to a string and panics, so it answers 500
  whenever it should answer 200 (`sessioncontrol.go:190`).
* The session cookie has no path, so a browser does not send it to
  `/api/v1/status`, which answers 401 after a login (`router.go:37`,
  `routes.go:45`).
* In the in-memory table two racing Creates may draw one id (`userimdb.go:124`), so
  that one account replaces the other, with a password of either; and an Update
  may bring back an account that was deleted meanwhile (`userimdb.go:95`).

In the data base:

* `DeleteTable` never answers `ErrTableNotEmpty` (`sql.go:326` against
  `sql_test.go:97`).
* A WHERE clause with two conditions is not valid SQL (`helper.go:37`).
* The default for the name of the data base is set under "DBname" (`sql.go:78`)
  and read under "name" (`sql.go:177`), so a start without PATCH_DB_NAME fails;
  `sql_test.go:43` gives a "DBname" alone and expects a connection.

In the patch table:

* An init file or folder that cannot be found, or a folder that cannot be read, is
  passed over, and the server serves without its patches (`server.go:173`, `:188`
  with `main.go:32`), while a file that cannot be read ends the process.
* The path "/" is stored as the empty path, which no route can delete
  (`patch.go:80`, `:52`).

In the configuration and the process:

* With NAME and NAME_FILE in the environment either may win; `config_test.go:46`
  expects the file.
* PATCH_..._USE=true (`configs/default.env`) never switches redis on
  (`config.go:96`; theorem `RedisNeverOn`), while PATCH_API_REDIS=true as
  `.devcontainer/docker-compose.yml:27` sets it makes NewServer fail.
* `MergeInConfig` puts the shared redis section in the place of a subsystem's own
  (`config.go:182`); `configs/default.env` says that "setting specific values
  won't override the nested config".
* PATCH_TIMEOUT cancels the main context, which no handler's statements use, and
  the process goes on serving for ever (`main.go:118-126`); `configs/default.env`
  calls it "timeout for patch".
* With only one of PATCH_API_CERT and PATCH_API_KEY the server speaks plain HTTP,
  and says nothing of it (`server.go:129`).
* PATCH_LOG_DEFAULTFILE, being a text, never opens the default file
  (`logger.go`, SetDefaultLogger).

## 5. Proofs

All proofs are checked for every value of the constants that meets the
assumptions stated in the models: the sets of requests, browsers, names, tables,
paths, variables and so on are arbitrary, except that requests, rows and the
init files are finite.

| theorem | module | says |
|---|---|---|
| `TypeCorrect` | `UserDBProofs` | `Spec => []TypeOK` |
| `Implements` | `UserDBProofs` | with the cache on or off, `Spec => RefinesRegistry`: each call changes the accounts at most once while it is open, and its answer was true in that time |
| `DuplicatesBounded` | `UserDBLoginProofs` | when statements do not fail, the key column is `id`, `Update` is not called and the accounts of earlier runs allow it, at most as many accounts share a name, or an e-mail, as there are requests |
| `LoginsSound` | `UserDBLoginProofs` | with the cache on or off and without `Update`, whichever statements fail, only the login and the password of the account that is answered are let in |
| `WebTypeCorrect` | `SessionsProofs` | `WebSpec => []WebTypeOK` |
| `SessionsAreEarned` | `SessionsProofs` | `WebSpec => []SessionsEarned`, whichever statements fail |
| `DeletedBySession` | `SessionsProofs` | `WebSpec => DeletedByName`, whichever statements fail |
| `FewCanRegister` | `SessionsProofs` | when statements do not fail and the accounts of earlier runs allow it, there are never more accounts than requests |
| `TypeCorrect` | `DataBaseProofs` | `Spec => []TypeOK` |
| `NeverHoldsAndWaits` | `DataBaseProofs` | for every pool size and any number of goroutines, no more connections are lent than there are, and who holds one does not wait for one |
| `Refines` | `DataBaseProofs` | `Spec => RefinesAtomicTables`: each statement takes effect at one instant or not at all |
| `TypeCorrect` | `PatchTableProofs` | `Spec => []TypeOK` |
| `Usable` | `PatchTableProofs` | only destinations that `validatePath` has accepted are stored |
| `LoadedCompletely` | `PatchTableProofs` | the server begins with all patches of every init file it has not passed over |
| `TypeCorrect` | `ConfigLoadProofs` | `Spec => []TypeOK` |
| `NothingForeign` | `ConfigLoadProofs` | what is in the tree is what the environment says |
| `CompleteOnceLoaded` | `ConfigLoadProofs` | what LoadConfig returns has every variable that has its name to itself |
| `SettledOnceLoaded` | `ConfigLoadProofs` | what LoadConfig has returned no goroutine changes |
| `EndsWithReason` | `ConfigLoadProofs` | the loading ends the process only for the reasons in the code |
| `TypeCorrect` | `LifeCycleProofs` | `LifeSpec => []LifeTypeOK` |
| `RedisNeverOn` | `LifeCycleProofs` | whatever the environment says, cache and session store stay off |
| `SettingsStay` | `LifeCycleProofs` | what the environment says of a subsystem is what it reads; defaults replace nothing |
| `Retired` | `LifeCycleProofs` | a cleanup that ends the process in time leaves no file of its list open |
| `NeverAfterStop` | `LifeCycleProofs` | `LifeSpec => []ListensOnlyWhenRunning` |
| `TypeCorrect` | `UserIMDBProofs` | `Spec => []TypeOK` |
| `LoginsSound` | `UserIMDBProofs` | with any number of requests that register, only a password that the account was made with is let in |

The arguments:

* *Types.* `TypeInv` adds to `TypeOK` what a request holds at each stage (`Held`):
  from `"email"` to `"readback"` the arguments of a Create, at `"verify"` a
  password and a user. Without it the row of an INSERT could have no name.
* *Duplicates.* `LoginsUnique` is not inductive, and false for several requests.
  The invariant counts: the accounts with a name, together with the requests
  that have found it free and not inserted it yet, are never more than the
  requests (`DuplicateInv`; e-mails likewise). A request passes the look-up only
  when no account has the name, so then only requests are counted; an INSERT
  turns one of them into an account.
* *Logins.* At `"verify"` the request holds a user whose row, if there is still
  one with that id, has the login. This is kept because ids are not used twice:
  the invariant also says that every id is at most `serial`, and that two rows
  with one id are the same row. With the cache on a user comes from the cache,
  has id 0, which no row has, and is not let in (`LockedInv`).
* *Registry.* `UserRegistry` sees of a request whether its call is open (`Open`), has
  changed the accounts (`Acted`) and what was answered (`Shown`). One lemma per group of
  methods (`CreatePromised` to `DeletePromised`) finds in each step a `Begin`, a
  change of the accounts, an `End` with a true answer, or nothing. All that it takes of the past
  is that no id is above `serial` (`IdsInv`), so that an INSERT adds an account, and
  that with the cache on no request gets past the look-ups of a Create
  (`StoppedInv`).
* *Sessions.* A step of a handler is a step of `UserDB`, or leaves its state alone,
  or is the end of a request (`WebStep`), so the invariants of `UserDB` hold
  under `WebSpec`. What a session says of an account stays true, since the
  handlers only add accounts with new ids and remove accounts (`NewIdsOnly`). A
  session is made from what a request has read before, so the invariant
  (`EarnedInv`) says of a login under way which account it has read and whose
  password it compares (`LoggingIn`). A DELETE under way has its name from the
  session it came with (`DeleteInv`).
* *Registration.* All accounts, and all Creates under way, have the e-mail ""
  (`MailInv`), so the count of `DuplicateInv` for that e-mail is the count of all.

* *Pool.* `NoHoldAndWait` needs that a client is in the queue once and exactly
  while it is at `"acquire"` (`Queued`), whoever leaves the queue and wherever it
  stood (`Without`: `Removed`, `TailRemoved`), and that at most `MaxConns` hold a
  connection (`Lent`).
* *Atomic statements.* `AtomicTables` sees of a client the statement it is at,
  whether a SELECT has read (`Done`) and what (`Got`). One lemma per action shows
  what the action is there: the start of a method is `Ask`; acquiring and BEGIN
  change nothing that is seen; the SELECT itself, the COMMIT of a write, and every
  failure and further statement, is a `Carry`, with or without an effect. `Working`
  says that a write has read nothing, and that a transaction that waits for its
  COMMIT is not broken. The statements' meaning, `Then`, `Selected` and `Refused`,
  is shown to be the same in both modules (`SameEffect`).
* *Patches.* Handlers only work while the process serves, so while main loads it is
  alone at the table (`Alone`). Then every patch that it has gone past is in
  place, in the files it did not pass over (`Loading`), as a path that is taken
  would have been refused.
* *Configuration.* Each variable of the program is either unread, or in one of the
  channels, or held by one goroutine, or settled (`Flow`, `Reached`), and the wait group
  counts those held (`Count`). So when the loader has finished, all are settled,
  and a settled variable is in the tree, or another one is in its way (`Tree`).
* *Start-up.* `StartInv` follows the tree along main: what the environment says
  stays (`Kept`), what is added to a redis section is USE, false (`Added`), and
  at each place it is known how far each subsystem's section has got
  (`Untouched`, `Prepared`, `Ready`). That USE is never true holds because what is
  loaded is a text. `TreeAssumption` says what a loaded tree is: the
  properties of `ConfigLoad`'s store, and of the configurations of the tests.
* *Process.* A file is opened at one place of main, before which it is on no
  cleaner's list (`FilesInv`), so what a cleaner has finished stays finished. The
  goroutine of Start listens only if nobody has shut the server down before
  (`ServerInv`).
* *Memory.* A password in the map is one that a Create of its id was given
  (`Accounts`), since a Create notes its id and its password before it encrypts, and
  keeps the id until it stores (`Encrypting`). Nothing is needed about who else
  has drawn the id.

Each of these invariants was first checked by TLC as the invariant of a run.

Every invariant, every action property and both refinements that a passing run
checks are proved. Only model-checked are `EveryCallIsAnswered`,
`DisconnectReturns`, `OthersAreAnswered`, `LoadingEnds`, `CleanupEnds` and
`StopEnds`: they rest on fairness, which the provers do not handle; and the
three runs that expect a violation, whose counterexamples are TLC's.

## 6. Not modelled

Formatting, and the lines of the logs; `ForwardRequest`, which changes no state and
has no route; the health and development routes; `SetTableName`, which only
tests call; `Close` of the cache, which nothing calls; the random id in a session,
which nothing reads; the caller of `Update` that keeps the `*User` while a
goroutine marshals it (only a test calls it); connections of `net/http`, whose
response bodies `validatePath` does not close; the parsing of init files; the
helpers on files and strings; `Sprint` of a configuration.

The redis store of the sessions (`router.go`, `connectRedisCache`) is chosen in
`Startup` and never used, by `RedisNeverOn`; `Sessions` models the cookie store.

## 7. Plan

Done: every component with state is modelled, and all that section 5 lists is
proved. What is left, in this order:

1. What several registrations of one path, or several Creates in memory, still
   guarantee together: find it with TLC first, and prove it.
2. The safety behind the liveness properties, which the provers do handle: for
   example, that nobody queues in `DataBase` while a connection is free, and that
   the setters of `ConfigLoad` only wait for a lock that somebody holds.
3. Lemmas that two proofs state in nearly the same words, as one lemma.
