------------------------------ MODULE AtomicTables ------------------------------
(***************************************************************************)
(* What pkg/storage/data/sql.go promises its callers: the statements of a  *)
(* call take effect one after the other, each at one instant or not at     *)
(* all, and the answer does not claim what did not happen.  UserDB.tla     *)
(* takes this for granted.                                                 *)
(***************************************************************************)
EXTENDS SqlTables

CONSTANTS Client, Tables0

VARIABLES
    tables,  \* the committed rows of every table, Nil for a missing table
    call,    \* the last call of every client, Idle before the first
    step,    \* the statement it is at, 0 when the call has its answer
    done,    \* whether that statement has taken effect
    got,     \* the rows read
    reply

vars == <<tables, call, step, done, got, reply>>

Init ==
    /\ tables = Tables0
    /\ call = [c \in Client |-> Idle]
    /\ step = [c \in Client |-> 0]
    /\ done = [c \in Client |-> FALSE]
    /\ got = [c \in Client |-> {}]
    /\ reply = [c \in Client |-> "none"]

Doubt == {"ErrTxCommit", "ErrDBCreate", "ErrDBDrop", "ErrDBUpdate", "ErrDBDelete", "ErrInitDB"}

\* The answer e is true of a call k at the statement i, which has taken effect
\* if acted holds.
Truthful(k, i, acted, e) ==
    \/ e = "ok" /\ acted /\ i = Len(Statements(k))
    \/ e \in {"ErrTxStart", "ErrDBInsert", "ErrTxRollback"} /\ k.op = "Insert" /\ ~acted
    \/ e = "nil" /\ k.op = "Select"
    \/ e = "ErrDBSelect" /\ k.op = "DeleteTable" /\ i = 1 /\ acted
    \/ e \in Doubt

\* The statement s reads or writes the tables now; rows are those it returns.
Effect(s, rows) ==
    /\ ~ Refused(s, tables)
    /\ tables' = Then(s, tables)
    /\ IF s.kind = "select" THEN rows \in Selected(s, tables) ELSE rows = {}

Ask(c) ==
    /\ step[c] = 0
    /\ call' = [call EXCEPT ![c] = call'[c]] /\ call'[c] \in Calls
    /\ step' = [step EXCEPT ![c] = 1]
    /\ done' = [done EXCEPT ![c] = FALSE]
    /\ got' = [got EXCEPT ![c] = {}]
    /\ reply' = [reply EXCEPT ![c] = "none"]
    /\ tables' = tables

\* A statement takes effect, if it has not, or nothing happens; then the call
\* stays where it is, goes on to its next statement, or is answered.
Carry(c) ==
    LET k == call[c]
        s == Statements(k)[step[c]] IN
    /\ step[c] > 0
    /\ call' = call
    /\ \E acts \in {FALSE, ~done[c]} :
         /\ IF acts THEN Effect(s, got'[c]) ELSE tables' = tables
         /\ acts \/ got'[c] \in {got[c], {}}
         /\ got' = [got EXCEPT ![c] = got'[c]]
         /\ \/ /\ step' = step /\ reply' = reply
               /\ done' = [done EXCEPT ![c] = @ \/ acts]
            \/ /\ step[c] < Len(Statements(k)) /\ step' = [step EXCEPT ![c] = @ + 1]
               /\ k.op = "Init" => done[c] \/ acts
               /\ reply' = reply
               /\ done' = [done EXCEPT ![c] = FALSE]
            \/ /\ step' = [step EXCEPT ![c] = 0]
               /\ done' = [done EXCEPT ![c] = FALSE]
               /\ reply' = [reply EXCEPT ![c] = reply'[c]]
               /\ Truthful(k, step[c], done[c] \/ acts, reply'[c])

Restart ==
    /\ tables' = tables
    /\ call' = [c \in Client |-> Idle]
    /\ step' = [c \in Client |-> 0]
    /\ done' = [c \in Client |-> FALSE]
    /\ got' = [c \in Client |-> {}]
    /\ reply' = [c \in Client |-> "none"]

Next == Restart \/ \E c \in Client : Ask(c) \/ Carry(c)

Spec == Init /\ [][Next]_vars
===============================================================================
