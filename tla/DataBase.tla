------------------------------- MODULE DataBase -------------------------------
(***************************************************************************)
(* The methods of DataBase in pkg/storage/data/sql.go, over the connection *)
(* pool of pgx and a SQL server.  A client is a goroutine in a method.     *)
(* Every statement is a transaction: a connection of the pool, BEGIN, the  *)
(* statement, COMMIT or ROLLBACK.  Goroutines queue for the connections;   *)
(* any round trip to the server may fail, and a COMMIT may be carried out  *)
(* while its acknowledgement is lost.                                      *)
(*                                                                         *)
(* The server is the environment: a transaction reads the committed rows,  *)
(* and a write is committed only if the rows it touched are still those it *)
(* has seen.                                                               *)
(***************************************************************************)
EXTENDS SqlTables

CONSTANTS
    Client,
    MaxConns,       \* size of the pool
    Faulty,         \* a round trip to the server may fail
    Stops,          \* the context may be cancelled, the pool closed, the process restarted
    Offered,        \* the calls that clients make
    Tables0         \* the tables kept from an earlier run

ASSUME PoolAssumption == MaxConns \in Nat \ {0}

ASSUME CallAssumption ==
    /\ Offered \subseteq Calls
    /\ Tables0 \in [Table -> Content]
    /\ Faulty \in BOOLEAN
    /\ Stops \in BOOLEAN

VARIABLES
    tables,  \* the committed rows of every table, Nil for a missing table
    stopped, \* the pool is closed or the context cancelled: "no", "closed", "cancelled"
    queue,   \* clients that wait for a connection
    stage,   \* "done" or what the client does next
    call,    \* its call
    step,    \* which of the statements of its call it is at, 0 when answered
    seen,    \* the tables as its statement has seen them
    got,     \* the rows it has read
    broken,  \* its connection broke while it read them
    reply    \* its answer

client == <<call, step, seen, got, broken, reply>>
vars == <<tables, stopped, queue, stage, client>>

Stages  == {"done", "acquire", "begin", "exec", "rollback", "commit"}
Replies == {"none", "ok", "nil", "ErrTxStart", "ErrTxRollback", "ErrTxCommit",
            "ErrDBCreate", "ErrDBDrop", "ErrDBInsert", "ErrDBSelect",
            "ErrDBUpdate", "ErrDBDelete", "ErrInitDB"}

Init ==
    /\ tables = Tables0
    /\ stopped = "no"
    /\ queue = <<>>
    /\ stage = [c \in Client |-> "done"]
    /\ call = [c \in Client |-> Idle]
    /\ step = [c \in Client |-> 0]
    /\ seen = [c \in Client |-> Tables0]
    /\ got = [c \in Client |-> {}]
    /\ broken = [c \in Client |-> FALSE]
    /\ reply = [c \in Client |-> "none"]

Statement(c) == Statements(call[c])[step[c]]

\* A round trip may fail, and does so once the context is cancelled.
MayFail == Faulty \/ stopped = "cancelled"
MaySucceed == stopped # "cancelled"

\* Mutant: DeleteTable keeps the connection of its SELECT for its DROP.
HoldersBetween == {c \in Client : \/ stage[c] \in {"begin", "exec", "rollback", "commit"}
                                  \/ stage[c] = "acquire" /\ step[c] = 2}

\* Clients that hold a connection.
Holders == {c \in Client : stage[c] \in {"begin", "exec", "rollback", "commit"}}

Free == Cardinality(Holders) < MaxConns

\* The queue without client c, which waits in it.
Without(c) ==
    LET i == CHOOSE j \in DOMAIN queue : queue[j] = c IN
    [j \in 1..(Len(queue) - 1) |-> IF j < i THEN queue[j] ELSE queue[j + 1]]

-----------------------------------------------------------------------------
(* How the methods go on after a transaction *)

\* The answer of a method whose transaction failed with the error e.
Failure(op, e) ==
    CASE op = "Insert"      -> e
      [] op = "Select"      -> "nil"
      [] op = "CreateTable" -> "ErrDBCreate"
      [] op = "DeleteTable" -> "ErrDBDrop"
      [] op = "Update"      -> "ErrDBUpdate"
      [] op = "Delete"      -> "ErrDBDelete"
      [] op = "Init"        -> "ErrInitDB"

Answer(c, rows, e) ==
    /\ stage' = [stage EXCEPT ![c] = "done"]
    /\ step' = [step EXCEPT ![c] = 0]
    /\ got' = [got EXCEPT ![c] = rows]
    /\ broken' = [broken EXCEPT ![c] = FALSE]
    /\ reply' = [reply EXCEPT ![c] = e]
    /\ seen' = seen

GoOn(c) ==
    /\ stage' = [stage EXCEPT ![c] = "acquire"]
    /\ step' = [step EXCEPT ![c] = @ + 1]
    /\ got' = [got EXCEPT ![c] = {}]
    /\ broken' = [broken EXCEPT ![c] = FALSE]
    /\ UNCHANGED <<seen, reply>>

\* The transaction failed with the error e, q are the clients that wait.
\* Select turns an error into nil, and DeleteTable takes nil for an empty table.
Failed(c, e, q) ==
    IF call[c].op = "DeleteTable" /\ step[c] = 1
    THEN GoOn(c) /\ queue' = Append(q, c)
    ELSE Answer(c, {}, Failure(call[c].op, e)) /\ queue' = q

Succeeded(c) ==
    IF call[c].op = "DeleteTable" /\ step[c] = 1 /\ got[c] # {}
    THEN Answer(c, got[c], "ErrDBSelect") /\ queue' = queue
    ELSE IF step[c] < Len(Statements(call[c]))
    THEN GoOn(c) /\ queue' = Append(queue, c)
    ELSE Answer(c, got[c], "ok") /\ queue' = queue

-----------------------------------------------------------------------------
(* The steps of a client *)

Call(c) ==
    /\ stage[c] = "done"
    /\ \E k \in Offered : call' = [call EXCEPT ![c] = k]
    /\ stage' = [stage EXCEPT ![c] = "acquire"]
    /\ queue' = Append(queue, c)
    /\ step' = [step EXCEPT ![c] = 1]
    /\ got' = [got EXCEPT ![c] = {}]
    /\ reply' = [reply EXCEPT ![c] = "none"]
    /\ UNCHANGED <<tables, stopped, seen, broken>>

\* A connection for the client that has waited longest.
Acquire(c) ==
    /\ stopped # "closed" /\ queue # <<>> /\ Head(queue) = c /\ Free
    /\ stage' = [stage EXCEPT ![c] = "begin"]
    /\ queue' = Tail(queue)
    /\ UNCHANGED <<tables, stopped, client>>

\* None: the server cannot be reached or the pool is closed; a client whose
\* context is cancelled stops waiting, wherever it is in the queue.
AcquireFails(c) ==
    /\ stage[c] = "acquire"
    /\ \/ stopped = "cancelled"
       \/ Head(queue) = c /\ Free /\ (Faulty \/ stopped = "closed")
    /\ Failed(c, "ErrTxStart", Without(c))
    /\ UNCHANGED <<tables, stopped, call>>

BeginTx(c) ==
    /\ stage[c] = "begin"
    /\ \/ /\ MaySucceed
          /\ stage' = [stage EXCEPT ![c] = "exec"]
          /\ UNCHANGED <<queue, client>>
       \/ MayFail /\ Failed(c, "ErrTxStart", queue) /\ call' = call
    /\ UNCHANGED <<tables, stopped>>

Seen(c, rows, cut) ==
    /\ stage' = [stage EXCEPT ![c] = "commit"]
    /\ seen' = [seen EXCEPT ![c] = tables]
    /\ got' = [got EXCEPT ![c] = rows]
    /\ broken' = [broken EXCEPT ![c] = cut]

\* The statement: rows are read until there are no more, or until the
\* connection breaks, which getData does not tell apart.
Exec(c) ==
    LET s == Statement(c) IN
    /\ stage[c] = "exec"
    /\ \/ /\ MaySucceed /\ ~ Refused(s, tables)
          /\ \E rows \in IF s.kind = "select" THEN Selected(s, tables) ELSE {{}} :
                Seen(c, rows, FALSE)
       \/ /\ MayFail /\ ~ Refused(s, tables) /\ s.kind = "select"
          /\ \E rows \in Selected(s, tables) :
                \E some \in (SUBSET rows) \ {rows} : Seen(c, some, TRUE)
       \/ /\ MayFail \/ Refused(s, tables)
          /\ stage' = [stage EXCEPT ![c] = "rollback"]
          /\ UNCHANGED <<seen, got, broken>>
    /\ UNCHANGED <<tables, stopped, queue, call, step, reply>>

\* Whether it is acknowledged or not, the connection goes back to the pool.
Rollback(c) ==
    /\ stage[c] = "rollback"
    /\ \/ MaySucceed /\ Failed(c, "ErrDBInsert", queue)
       \/ MayFail /\ Failed(c, "ErrTxRollback", queue)
    /\ UNCHANGED <<tables, stopped, call>>

\* The rows that the statement s depends on.
Touched(s, ts) == IF s.kind \in {"update", "delete"} THEN Found(s, ts) ELSE {}

\* Mutant: a transaction whose rows were cut short is committed all the same.
ApplicableCut(c) ==
    LET s == Statement(c) IN
    /\ s.kind = "select" \/ ~ Refused(s, tables)
    /\ s.kind = "select" \/ Touched(s, tables) = Touched(s, seen[c])

\* The server may apply the transaction now, or must refuse it.
Applicable(c) ==
    LET s == Statement(c) IN
    /\ ~ broken[c]
    /\ s.kind = "select" \/ ~ Refused(s, tables)
    /\ s.kind = "select" \/ Touched(s, tables) = Touched(s, seen[c])

Commit(c) ==
    /\ stage[c] = "commit"
    /\ \/ /\ Applicable(c)
          /\ tables' = Then(Statement(c), tables)
          /\ \/ MaySucceed /\ Succeeded(c)
             \/ MayFail /\ Failed(c, "ErrTxCommit", queue)
       \/ /\ MayFail \/ ~ Applicable(c) \/ seen[c] # tables
          /\ tables' = tables
          /\ Failed(c, "ErrTxCommit", queue)
    /\ UNCHANGED <<stopped, call>>

-----------------------------------------------------------------------------
(* The process *)

\* mainStop, from main's time-out or the deferred cleanup: the context that the
\* init files are run with.  A handler passes its *gin.Context, which is never
\* cancelled; that a cancel reaches its calls as well only adds behaviours.
Cancel == /\ Stops /\ stopped = "no" /\ stopped' = "cancelled"
          /\ UNCHANGED <<tables, queue, stage, client>>

\* It returns once all connections are back: when Holders is empty.
Disconnect == /\ Stops /\ stopped = "no" /\ stopped' = "closed"
              /\ UNCHANGED <<tables, queue, stage, client>>

Restart ==
    /\ Stops
    /\ stopped' = "no" /\ queue' = <<>>
    /\ stage' = [c \in Client |-> "done"]
    /\ call' = [c \in Client |-> Idle]
    /\ step' = [c \in Client |-> 0]
    /\ got' = [c \in Client |-> {}]
    /\ broken' = [c \in Client |-> FALSE]
    /\ reply' = [c \in Client |-> "none"]
    /\ UNCHANGED <<tables, seen>>

Advance(c) ==
    Acquire(c) \/ AcquireFails(c) \/ BeginTx(c) \/ Exec(c) \/ Rollback(c) \/ Commit(c)

Next ==
    \/ \E c \in Client : Call(c) \/ Advance(c)
    \/ Cancel \/ Disconnect \/ Restart

Spec == Init /\ [][Next]_vars

\* The server answers every statement, one way or the other, and the scheduler
\* runs every goroutine.
FairSpec == Spec /\ \A c \in Client : WF_vars(Advance(c))

-----------------------------------------------------------------------------
(* Properties *)

TypeOK ==
    /\ tables \in [Table -> Content]
    /\ stopped \in {"no", "closed", "cancelled"}
    /\ queue \in Seq(Client)
    /\ stage \in [Client -> Stages]
    /\ call \in [Client -> Calls \cup {Idle}]
    /\ step \in [Client -> Nat]
    /\ seen \in [Client -> [Table -> Content]]
    /\ got \in [Client -> SUBSET Row]
    /\ broken \in [Client -> BOOLEAN]
    /\ reply \in [Client -> Replies]

\* The pool never lends out more connections than it has, and a client waits in
\* its queue, once, exactly while it holds none: a connection is never waited
\* for by a goroutine that holds another.
NoHoldAndWait ==
    /\ Cardinality(Holders) <= MaxConns
    /\ \A c \in Client : Cardinality({i \in DOMAIN queue : queue[i] = c})
                            = IF stage[c] = "done" \/ c \in Holders THEN 0 ELSE 1

\* Every method, taken apart into its round trips, still carries out each of
\* its statements at one instant or not at all, and tells the truth about it.
Atomic == INSTANCE AtomicTables WITH
    done <- [c \in Client |-> /\ stage[c] = "commit" /\ ~broken[c]
                              /\ Statement(c).kind = "select"],
    got <- [c \in Client |-> IF broken[c] THEN {} ELSE got[c]]

RefinesAtomicTables == Atomic!Spec

\* No failure keeps a connection, so every call is answered sooner or later,
\* and Disconnect, which waits for the connections, returns.
EveryCallIsAnswered == \A c \in Client : (stage[c] # "done") ~> (stage[c] = "done")
DisconnectReturns   == (stopped = "closed") ~> (Holders = {} \/ stopped = "no")

\* "deleted full table" (sql_test.go:95): DeleteTable drops empty tables only.
DropsEmptyOnly ==
    [][\A t \in Table : tables'[t] = Nil => tables[t] \in {Nil, {}}]_vars
===============================================================================
