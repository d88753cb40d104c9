----------------------------- MODULE UserRegistry -----------------------------
(***************************************************************************)
(* What the user table promises the callers of pkg/storage/data/userdb.go, *)
(* without saying how: a call, while it is open, changes the accounts at   *)
(* most once, and its answer tells the truth about what it did.  Accounts  *)
(* survive a restart, open calls do not.  A call that is not open changes  *)
(* nothing.                                                                *)
(***************************************************************************)
EXTENDS Integers

CONSTANTS Request, Row, Users, Calls, NoCall, Replies, Rows0, Nil,
          Stale \* what is said of other accounts may be a thing of the past

VARIABLES
    rows,  \* the accounts
    open,  \* the requests whose call has no answer yet
    acted, \* those of them whose call has had its effect
    call, user, reply \* the last call of each request, and its answer

vars == <<rows, open, acted, call, user, reply>>

Init ==
    /\ rows = Rows0
    /\ open = {} /\ acted = {}
    /\ call = [r \in Request |-> NoCall]
    /\ user = [r \in Request |-> Nil]
    /\ reply = [r \in Request |-> "none"]

Known(l) == \E row \in rows : row.name = l \/ row.email = l

\* The accounts before and after one effect of the call c.
Effect(c, old, new) ==
    CASE c.op = "Create" ->
           \E fresh \in new \cap Row :
              /\ \A row \in old : row.id < fresh.id
              /\ fresh.name = c.name /\ fresh.email = c.email
              /\ fresh.password = c.password
              /\ new = old \cup {fresh}
      [] c.op = "DeleteByName" -> new = {row \in old : row.name # c.name}
      [] c.op = "DeleteById"   -> new = {row \in old : row.id # c.id}
      [] c.op = "Update" ->
           new = {IF row.id = c.id
                  THEN [row EXCEPT !.name = c.name, !.email = c.email]
                  ELSE row : row \in old}
      [] c.op = "UpdateUserPassword" ->
           new = {IF row.id = c.id THEN [row EXCEPT !.password = c.password]
                  ELSE row : row \in old}
      [] OTHER -> FALSE

Writes == {"Create", "DeleteByName", "DeleteById", "Update", "UpdateUserPassword"}

\* The answers that are true of a call c which has, or has not, had its effect.
Truthful(c, done, u, e) ==
    CASE e = "ok" ->
           /\ c.op \in Writes => done
           /\ c.op = "Create" =>
                 \E row \in rows' : u.id = row.id /\ row.name = c.name
           /\ c.op = "Authenticate" =>
                 \E row \in rows : u.id = row.id /\ row.password = c.password
      [] e = "ErrUserExists" ->
           c.op = "Create" /\ ~done /\ (Stale \/ Known(c.name) \/ Known(c.email))
      [] e = "ErrNoUser" -> c.op \notin {"Create", "Update", "UpdateUserPassword"} /\ ~done
      [] e = "ErrPassMismatch" -> c.op = "Authenticate"
      [] OTHER -> TRUE \* any other error leaves the caller in doubt

\* One step of request r: it may be asked, may have its effect and may be
\* answered, in that order.
Step(r) ==
    LET c == call'[r] IN
    /\ call' \in [Request -> Calls]
    /\ user' \in [Request -> Users \cup {Nil}]
    /\ reply' \in [Request -> Replies]
    /\ \A q \in Request \ {r} :
          <<call[q], user[q], reply[q]>>' = <<call[q], user[q], reply[q]>>
    /\ r \in open => c = call[r]
    /\ \E acts \in {{}, {r} \ acted} :
          /\ IF acts = {} THEN rows' = rows ELSE Effect(c, rows, rows')
          /\ \/ /\ Truthful(c, r \in acted \cup acts, user'[r], reply'[r])
                /\ open' = open \ {r} /\ acted' = acted \ {r}
             \/ /\ user'[r] = Nil /\ reply'[r] = "none"
                /\ open' = open \cup {r} /\ acted' = acted \cup acts

Restart ==
    /\ open' = {} /\ acted' = {}
    /\ call' = [r \in Request |-> NoCall]
    /\ user' = [r \in Request |-> Nil]
    /\ reply' = [r \in Request |-> "none"]
    /\ rows' = rows

Next == (\E r \in Request : Step(r)) \/ Restart

Spec == Init /\ [][Next]_vars
===============================================================================
