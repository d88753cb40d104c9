-------------------------------- MODULE UserIMDB --------------------------------
(***************************************************************************)
(* The user table in memory (internal/system/userimdb.go), which takes the *)
(* place of UserDB when the API is started without a data base.  Two maps  *)
(* and a counter that the handlers share without a lock: every access is a *)
(* step of its own, and bcrypt, which is slow, lies between two of them.   *)
(***************************************************************************)
EXTENDS Integers, FiniteSets

CONSTANTS
    Request,  \* handlers that run at the same time
    Name, Password,
    TooLong,  \* passwords that bcrypt refuses
    MaxId,    \* bound: how many ids are given out
    Nil

ASSUME MemoryAssumption ==
    /\ TooLong \subseteq Password
    /\ MaxId \in Nat \ {0} /\ Nil \notin Name \cup Password \cup Nat

Id == 0..(MaxId - 1)

ByName == [op : {"GetByName", "DeleteByName"}, name : Name]
ById   == [op : {"GetById", "DeleteById"}, id : Id]
Call   == ByName \cup ById \cup [op : {"GetUsers", "GetByEmail"}]
            \cup [op : {"Create", "Authenticate"}, name : Name, password : Password]
            \cup [op : {"Update"}, id : Id, name : Name]
NoCall == [op |-> "GetUsers"]

Stages  == {"done", "count", "increment", "insert", "encrypt", "find", "check",
            "remove", "forget", "replace"}
Replies == {"none", "ok", "nil", "ErrNoSuchUser", "ErrAuthFailed", "bcrypt"}

VARIABLES
    users,     \* Users: the name of every account, Nil for none
    passwords, \* IDPasswords, Nil for none
    counter,   \* idCounter
    stage, call, reply,
    target,    \* the id that a request is at work on, or Nil
    registered \* auxiliary: the passwords given to the Creates of an id

vars == <<users, passwords, counter, stage, call, reply, target, registered>>

Init ==
    /\ users = [i \in Id |-> Nil] /\ passwords = [i \in Id |-> Nil]
    /\ counter = 0
    /\ stage = [r \in Request |-> "done"] /\ reply = [r \in Request |-> "none"]
    /\ call = [r \in Request |-> NoCall] /\ target = [r \in Request |-> Nil]
    /\ registered = [i \in Id |-> {}]

maps == <<users, passwords, counter, registered>>

Goto(r, s) == stage' = [stage EXCEPT ![r] = s] /\ UNCHANGED <<reply, call>>

\* The request is over; only its answer is of interest from here on.
Answer(r, e) ==
    /\ stage' = [stage EXCEPT ![r] = "done"] /\ reply' = [reply EXCEPT ![r] = e]
    /\ call' = [call EXCEPT ![r] = NoCall] /\ target' = [target EXCEPT ![r] = Nil]

\* The account that a request works on.
Keeps(r, s, i) == Goto(r, s) /\ target' = [target EXCEPT ![r] = i]

\* GetByEmail answers nil, and no error, without a look at the maps.
Begin(r) ==
    /\ stage[r] = "done"
    /\ \E c \in Call :
         /\ c.op = "Create" => counter < MaxId
         /\ IF c.op = "GetByEmail" THEN Answer(r, "nil")
            ELSE /\ call' = [call EXCEPT ![r] = c]
                 /\ reply' = [reply EXCEPT ![r] = "none"]
                 /\ stage' = [stage EXCEPT ![r] =
                                IF c.op = "Create" THEN "count" ELSE "find"]
                 /\ target' = target
    /\ UNCHANGED maps

-----------------------------------------------------------------------------
(* Create *)

\* nextId reads the counter, and then increments it, without a lock: two Creates
\* that race may draw one id.
NextId(r) ==
    /\ stage[r] = "count" /\ counter < MaxId
    /\ Keeps(r, "increment", counter)
    /\ UNCHANGED maps

\* What is written back is one more than any value the counter had since then:
\* the compiled ++ may read it again, and store later.
Increment(r) ==
    /\ stage[r] = "increment" /\ Goto(r, "insert")
    /\ \E last \in (target[r]..counter) \cup {target[r], counter} :
         last < MaxId /\ counter' = last + 1
    /\ UNCHANGED <<users, passwords, registered, target>>

\* The account is there for all to see before it has its password.
Insert(r) ==
    /\ stage[r] = "insert" /\ Goto(r, "encrypt")
    /\ users' = [users EXCEPT ![target[r]] = call[r].name]
    /\ registered' = [registered EXCEPT ![target[r]] = @ \cup {call[r].password}]
    /\ UNCHANGED <<passwords, counter, target>>

\* Mutant: the error of bcrypt is not looked at.
EncryptAll(r) ==
    /\ stage[r] = "encrypt" /\ Answer(r, "ok")
    /\ passwords' = [passwords EXCEPT ![target[r]] = call[r].password]
    /\ UNCHANGED <<users, counter, registered>>

\* EncryptPassword, then the second map.  When it fails the account stays, and
\* nobody can log in to it.
Encrypt(r) ==
    /\ stage[r] = "encrypt"
    /\ IF call[r].password \in TooLong
       THEN Answer(r, "bcrypt") /\ passwords' = passwords
       ELSE Answer(r, "ok") /\ passwords' = [passwords EXCEPT ![target[r]] = call[r].password]
    /\ UNCHANGED <<users, counter, registered>>

-----------------------------------------------------------------------------
(* The other methods *)

Matching(c) == {i \in Id : /\ users[i] # Nil
                           /\ IF "id" \in DOMAIN c THEN i = c.id
                              ELSE "name" \in DOMAIN c => users[i] = c.name}

\* The loop over the map, or its element: any account of the name may come up.
Find(r) ==
    LET c == call[r] IN
    /\ stage[r] = "find"
    /\ \/ c.op = "GetUsers" /\ Answer(r, "ok")
       \/ /\ c.op # "GetUsers" /\ Matching(c) = {}
          /\ Answer(r, CASE c.op = "GetById" -> "nil"
                         [] c.op = "Authenticate" -> "ErrAuthFailed"
                         [] OTHER -> "ErrNoSuchUser")
       \/ \E i \in Matching(c) :
            \/ c.op \in {"GetByName", "GetById"} /\ Answer(r, "ok")
            \/ c.op = "Authenticate" /\ Keeps(r, "check", i)
            \/ c.op = "Update" /\ Keeps(r, "replace", i)
            \/ c.op \in {"DeleteByName", "DeleteById"} /\ Keeps(r, "remove", i)
    /\ UNCHANGED maps

\* Mutant: an account without a password lets everybody in.
CheckMissing(r) ==
    /\ stage[r] = "check"
    /\ Answer(r, IF passwords[target[r]] \in {Nil, call[r].password} THEN "ok"
                 ELSE "ErrNoSuchUser")
    /\ UNCHANGED maps

Check(r) ==
    /\ stage[r] = "check"
    /\ Answer(r, CASE passwords[target[r]] = Nil -> "ErrAuthFailed"
                   [] passwords[target[r]] = call[r].password -> "ok"
                   [] OTHER -> "ErrNoSuchUser")
    /\ UNCHANGED maps

Remove(r) ==
    /\ stage[r] = "remove" /\ Goto(r, "forget")
    /\ users' = [users EXCEPT ![target[r]] = Nil]
    /\ UNCHANGED <<passwords, counter, registered, target>>

Forget(r) ==
    /\ stage[r] = "forget" /\ Answer(r, "ok")
    /\ passwords' = [passwords EXCEPT ![target[r]] = Nil]
    /\ UNCHANGED <<users, counter, registered>>

\* Update does not look again: an account deleted meanwhile comes back.
Replace(r) ==
    /\ stage[r] = "replace" /\ Answer(r, "ok")
    /\ users' = [users EXCEPT ![target[r]] = call[r].name]
    /\ UNCHANGED <<passwords, counter, registered>>

-----------------------------------------------------------------------------

Writes(r, m) == stage[r] \in IF m = "users" THEN {"insert", "remove", "replace"}
                             ELSE {"encrypt", "forget"}
Reads(r, m)  == stage[r] = IF m = "users" THEN "find" ELSE "check"

\* The runtime ends the process, with all it holds, when it notices a write of a
\* map next to another access.
MapFault ==
    /\ \E r, q \in Request, m \in {"users", "passwords"} :
         r # q /\ Writes(r, m) /\ (Writes(q, m) \/ Reads(q, m))
    /\ users' = [i \in Id |-> Nil] /\ passwords' = [i \in Id |-> Nil] /\ counter' = 0
    /\ stage' = [r \in Request |-> "done"] /\ reply' = [r \in Request |-> "none"]
    /\ call' = [r \in Request |-> NoCall]
    /\ target' = [r \in Request |-> Nil] /\ registered' = [i \in Id |-> {}]

Next ==
    \/ \E r \in Request :
         \/ Begin(r) \/ NextId(r) \/ Increment(r) \/ Insert(r) \/ Encrypt(r)
         \/ Find(r) \/ Check(r) \/ Remove(r) \/ Forget(r) \/ Replace(r)
    \/ MapFault

Spec == Init /\ [][Next]_vars

-----------------------------------------------------------------------------
(* Properties *)

TypeOK ==
    /\ users \in [Id -> Name \cup {Nil}]
    /\ passwords \in [Id -> (Password \ TooLong) \cup {Nil}]
    /\ registered \in [Id -> SUBSET Password]
    /\ counter \in 0..MaxId
    /\ stage \in [Request -> Stages] /\ reply \in [Request -> Replies]
    /\ call \in [Request -> Call] /\ target \in [Request -> Id \cup {Nil}]

\* A login is granted only to a password that a Create of the account was given,
\* whatever Updates and deletions come between the look-up of the name and the
\* check, although an account is seen before it has a password, and although
\* Creates that race may share an id (then to the password of either).
LoginsGranted ==
    [][\A r \in Request :
         call[r].op = "Authenticate" /\ reply[r] # "ok" /\ reply'[r] = "ok" =>
            call[r].password \in registered[target[r]]]_vars
================================================================================
