---------------------------- MODULE UserIMDBProofs ----------------------------
(***************************************************************************)
(* Theorems about the user table in memory, for every number of handlers   *)
(* and of accounts.                                                        *)
(***************************************************************************)
EXTENDS UserIMDB, TLAPS

\* What a request is in the middle of fits its method.
Busy(r) ==
    /\ stage[r] # "done" => reply[r] = "none"
    /\ stage[r] \in {"count", "increment", "insert", "encrypt"} =>
          call[r].op = "Create"
    /\ stage[r] = "check" => call[r].op = "Authenticate"
    /\ stage[r] = "replace" => call[r].op = "Update"
    /\ stage[r] \in {"remove", "forget"} => call[r].op \in {"DeleteByName", "DeleteById"}
    /\ stage[r] \notin {"done", "count", "find"} => target[r] \in Id

TypeInv == TypeOK /\ \A r \in Request : Busy(r)

-----------------------------------------------------------------------------
(* Types *)

LEMMA CallType ==
    ASSUME NEW c \in Call
    PROVE  /\ c.op \in {"Create", "Authenticate"} => c.name \in Name /\ c.password \in Password
           /\ c.op = "Update" => c.name \in Name
  BY DEF Call, ByName, ById

\* What Begin does: it answers, or goes on to s.
LEMMA BeginStep ==
    ASSUME TypeInv, NEW r \in Request, Begin(r)
    PROVE  /\ UNCHANGED maps
           /\ \/ Answer(r, "nil") /\ stage[r] = "done"
              \/ /\ target' = target /\ reply' = [reply EXCEPT ![r] = "none"]
                 /\ \E c \in Call : call' = [call EXCEPT ![r] = c]
                 /\ \/ stage' = [stage EXCEPT ![r] = "find"]
                    \/ /\ stage' = [stage EXCEPT ![r] = "count"]
                       /\ call'[r].op = "Create"
<1>1. PICK c \in Call :
        IF c.op = "GetByEmail" THEN Answer(r, "nil")
        ELSE /\ call' = [call EXCEPT ![r] = c]
             /\ reply' = [reply EXCEPT ![r] = "none"]
             /\ stage' = [stage EXCEPT ![r] = IF c.op = "Create" THEN "count" ELSE "find"]
             /\ target' = target
  BY DEF Begin
<1>2. UNCHANGED maps /\ stage[r] = "done"
  BY DEF Begin
<1>3. CASE c.op = "GetByEmail"
  BY <1>1, <1>2, <1>3
<1>4. CASE c.op = "Create"
  <2>1. call' = [call EXCEPT ![r] = c] /\ call'[r] = c
    BY <1>1, <1>4 DEF TypeInv, TypeOK
  <2>2. QED
    BY <1>1, <1>2, <1>4, <2>1
<1>5. CASE c.op \notin {"Create", "GetByEmail"}
  BY <1>1, <1>2, <1>5
<1>6. QED
  BY <1>3, <1>4, <1>5

\* Find has come upon an account, and goes on with it.
Chosen(r) ==
    \E i \in Id :
      \/ call[r].op = "Authenticate" /\ Keeps(r, "check", i)
      \/ call[r].op = "Update" /\ Keeps(r, "replace", i)
      \/ call[r].op \in {"DeleteByName", "DeleteById"} /\ Keeps(r, "remove", i)

\* What Find does: it answers, or goes on with an account.
LEMMA FindStep ==
    ASSUME TypeInv, NEW r \in Request, Find(r)
    PROVE  /\ UNCHANGED maps /\ stage[r] = "find"
           /\ \/ \E e \in Replies : /\ Answer(r, e)
                                    /\ e = "ok" => call[r].op # "Authenticate"
              \/ Chosen(r)
<1>1. \A e \in {"ok", "nil", "ErrAuthFailed", "ErrNoSuchUser"} : e \in Replies
  BY DEF Replies
<1>2. \/ call[r].op = "GetUsers" /\ Answer(r, "ok")
      \/ \E e \in {"nil", "ErrAuthFailed", "ErrNoSuchUser"} : Answer(r, e)
      \/ \E i \in Matching(call[r]) :
            \/ call[r].op \in {"GetByName", "GetById"} /\ Answer(r, "ok")
            \/ call[r].op = "Authenticate" /\ Keeps(r, "check", i)
            \/ call[r].op = "Update" /\ Keeps(r, "replace", i)
            \/ call[r].op \in {"DeleteByName", "DeleteById"} /\ Keeps(r, "remove", i)
  BY DEF Find
<1>3. Matching(call[r]) \subseteq Id
  BY DEF Matching
<1>4. QED
  BY <1>1, <1>2, <1>3 DEF Find, Chosen

LEMMA StepType == TypeInv /\ [Next]_vars => TypeInv'
<1> SUFFICES ASSUME TypeInv, [Next]_vars PROVE TypeInv'
  OBVIOUS
<1> USE DEF TypeInv
<1>a. Id \subseteq Nat /\ Nil \notin Id /\ MaxId \in Nat \ {0}
  BY MemoryAssumption DEF Id
<1>b. NoCall \in Call
  BY DEF NoCall, Call
<1>0. ASSUME NEW r \in Request, NEW e \in Replies, Answer(r, e)
      PROVE  /\ stage' \in [Request -> Stages] /\ reply' \in [Request -> Replies]
             /\ call' \in [Request -> Call] /\ target' \in [Request -> Id \cup {Nil}]
             /\ \A q \in Request : Busy(q)'
  <2>1. /\ stage' \in [Request -> Stages] /\ reply' \in [Request -> Replies]
        /\ call' \in [Request -> Call] /\ target' \in [Request -> Id \cup {Nil}]
    BY <1>b, <1>0 DEF TypeOK, Answer, Stages
  <2>2. \A q \in Request : Busy(q)'
    BY <1>0 DEF TypeOK, Answer, Busy
  <2>3. QED
    BY <2>1, <2>2
<1>1. ASSUME NEW r \in Request, Begin(r) PROVE TypeInv'
  <2>1. CASE Answer(r, "nil")
    BY <1>0, <1>1, <2>1, BeginStep DEF TypeOK, maps, Replies
  <2>2. CASE /\ target' = target /\ reply' = [reply EXCEPT ![r] = "none"]
             /\ \E c \in Call : call' = [call EXCEPT ![r] = c]
             /\ \/ stage' = [stage EXCEPT ![r] = "find"]
                \/ stage' = [stage EXCEPT ![r] = "count"] /\ call'[r].op = "Create"
    <3>1. TypeOK'
      BY <1>1, <2>2, BeginStep DEF TypeOK, maps, Stages, Replies
    <3>2. \A q \in Request : Busy(q)'
      BY <2>2 DEF TypeOK, Busy
    <3>3. QED
      BY <3>1, <3>2
  <2>3. QED
    BY <1>1, <2>1, <2>2, BeginStep
<1>2. ASSUME NEW r \in Request, NextId(r) PROVE TypeInv'
  <2>1. counter \in Id
    BY <1>2, <1>a DEF TypeOK, NextId, Id
  <2>2. TypeOK'
    BY <1>2, <2>1 DEF TypeOK, NextId, Keeps, Goto, maps, Stages
  <2>3. \A q \in Request : Busy(q)'
    BY <1>2, <2>1 DEF TypeOK, Busy, NextId, Keeps, Goto
  <2>4. QED
    BY <2>2, <2>3
<1>3. ASSUME NEW r \in Request, Increment(r) PROVE TypeInv'
  <2>1. target[r] \in Id /\ counter \in 0..MaxId
    BY <1>3 DEF Increment, Busy, TypeOK
  <2>2. PICK last \in (target[r]..counter) \cup {target[r], counter} :
          last < MaxId /\ counter' = last + 1
    BY <1>3 DEF Increment
  <2>3. counter' \in 0..MaxId
    BY <1>a, <2>1, <2>2 DEF Id
  <2>4. TypeOK'
    BY <1>3, <2>3 DEF TypeOK, Increment, Goto, Stages
  <2>5. \A q \in Request : Busy(q)'
    BY <1>3 DEF TypeOK, Busy, Increment, Goto
  <2>6. QED
    BY <2>4, <2>5
<1>4. ASSUME NEW r \in Request, Insert(r) PROVE TypeInv'
  <2>1. /\ target[r] \in Id /\ call[r] \in Call
        /\ call[r].name \in Name /\ call[r].password \in Password
    BY <1>4, CallType DEF Insert, Busy, TypeOK
  <2>2. TypeOK'
    BY <1>4, <2>1 DEF TypeOK, Insert, Goto, Stages
  <2>3. \A q \in Request : Busy(q)'
    BY <1>4 DEF TypeOK, Busy, Insert, Goto
  <2>4. QED
    BY <2>2, <2>3
<1>5. ASSUME NEW r \in Request, Encrypt(r) PROVE TypeInv'
  <2>1. target[r] \in Id /\ call[r].password \in Password
    BY <1>5, CallType DEF Encrypt, Busy, TypeOK
  <2>2. /\ \/ passwords' = passwords
           \/ /\ passwords' = [passwords EXCEPT ![target[r]] = call[r].password]
              /\ call[r].password \notin TooLong
        /\ UNCHANGED <<users, counter, registered>>
    BY <1>5 DEF Encrypt
  <2>3. PICK e \in Replies : Answer(r, e)
    BY <1>5 DEF Encrypt, Replies
  <2>4. passwords' \in [Id -> (Password \ TooLong) \cup {Nil}]
    BY <2>1, <2>2 DEF TypeOK
  <2>5. QED
    BY <1>0, <2>2, <2>3, <2>4 DEF TypeOK
<1>6. ASSUME NEW r \in Request, Find(r) PROVE TypeInv'
  <2>1. UNCHANGED maps /\ stage[r] = "find"
    BY <1>6, FindStep
  <2>2. CASE \E e \in Replies : Answer(r, e)
    BY <1>0, <2>1, <2>2 DEF TypeOK, maps
  <2>3. CASE Chosen(r)
    <3>1. TypeOK'
      BY <2>1, <2>3 DEF TypeOK, maps, Chosen, Keeps, Goto, Stages
    <3>2. \A q \in Request : Busy(q)'
      BY <2>1, <2>3 DEF TypeOK, Busy, Chosen, Keeps, Goto
    <3>3. QED
      BY <3>1, <3>2
  <2>4. (\E e \in Replies : Answer(r, e)) \/ Chosen(r)
    BY <1>6, FindStep
  <2>5. QED
    BY <2>2, <2>3, <2>4
<1>7. ASSUME NEW r \in Request, Check(r) PROVE TypeInv'
  <2>1. PICK e \in Replies : Answer(r, e)
    <3>1. Answer(r, "ErrAuthFailed") \/ Answer(r, "ok") \/ Answer(r, "ErrNoSuchUser")
      BY <1>7 DEF Check
    <3>2. QED
      BY <3>1 DEF Replies
  <2>2. QED
    BY <1>0, <1>7, <2>1 DEF TypeOK, Check, maps
<1>8. ASSUME NEW r \in Request, Remove(r) PROVE TypeInv'
  <2>1. TypeOK'
    BY <1>8 DEF TypeOK, Remove, Goto, Stages
  <2>2. \A q \in Request : Busy(q)'
    BY <1>8 DEF TypeOK, Busy, Remove, Goto
  <2>3. QED
    BY <2>1, <2>2
<1>9. ASSUME NEW r \in Request, Forget(r) \/ Replace(r) PROVE TypeInv'
  <2>1. stage[r] = "replace" => call[r].name \in Name
    BY <1>9, CallType DEF Busy, TypeOK
  <2>2. Answer(r, "ok") /\ "ok" \in Replies
    BY <1>9 DEF Forget, Replace, Replies
  <2>3. /\ users' \in [Id -> Name \cup {Nil}]
        /\ passwords' \in [Id -> (Password \ TooLong) \cup {Nil}]
        /\ UNCHANGED <<counter, registered>>
    BY <1>9, <2>1 DEF Forget, Replace, TypeOK
  <2>4. QED
    BY <1>0, <2>2, <2>3 DEF TypeOK
<1>10. CASE MapFault
  <2>1. Init'
    BY <1>10 DEF MapFault, Init
  <2>2. QED
    BY <2>1, <1>a DEF Init, TypeOK, Busy, Stages, Replies, Call, NoCall
<1>11. CASE UNCHANGED vars
  BY <1>11 DEF vars, TypeOK, Busy
<1>12. QED
  BY <1>1, <1>2, <1>3, <1>4, <1>5, <1>6, <1>7, <1>8, <1>9, <1>10, <1>11 DEF Next

LEMMA InitType == Init => TypeInv
<1>1. MaxId \in Nat \ {0} /\ NoCall \in Call
  BY MemoryAssumption DEF Call, NoCall
<1>2. QED
  BY <1>1 DEF Init, TypeInv, TypeOK, Busy, Stages, Replies

LEMMA TypeInvariant == Spec => []TypeInv
  BY InitType, StepType, PTL DEF Spec

\* The maps hold what they are meant to hold under every interleaving of their
\* accesses, and no password that bcrypt refuses is among the passwords.
THEOREM TypeCorrect == Spec => []TypeOK
  BY TypeInvariant, PTL DEF TypeInv

-----------------------------------------------------------------------------
(* Accounts *)

\* A password in the map is one that a Create of its id was given.
Accounts == \A i \in Id : passwords[i] \in registered[i] \cup {Nil}

\* A Create that has inserted its account has registered its password.
Encrypting(r) == stage[r] = "encrypt" => call[r].password \in registered[target[r]]

AccountInv == TypeInv /\ Accounts /\ \A r \in Request : Encrypting(r)

LEMMA StepAccounts == AccountInv /\ [Next]_vars => AccountInv'
<1> SUFFICES ASSUME AccountInv, [Next]_vars PROVE AccountInv'
  OBVIOUS
<1> USE DEF AccountInv
<1>a. TypeInv'
  BY StepType
<1>0. ASSUME NEW r \in Request, NEW e, Answer(r, e), registered' = registered
      PROVE  \A q \in Request : Encrypting(q)'
  BY <1>0 DEF Encrypting, Answer, TypeInv, TypeOK
<1>1. ASSUME NEW r \in Request, Begin(r) PROVE AccountInv'
  <2>1. Accounts'
    BY <1>1, BeginStep DEF Accounts, maps
  <2>2. CASE Answer(r, "nil")
    BY <1>a, <1>0, <1>1, <2>1, <2>2, BeginStep DEF maps
  <2>3. CASE /\ target' = target /\ \E c \in Call : call' = [call EXCEPT ![r] = c]
             /\ \E s \in {"find", "count"} : stage' = [stage EXCEPT ![r] = s]
    <3>1. \A q \in Request : Encrypting(q)'
      BY <1>1, <2>3, BeginStep DEF Encrypting, maps, TypeInv, TypeOK
    <3>2. QED
      BY <1>a, <2>1, <3>1
  <2>4. QED
    BY <1>1, <2>2, <2>3, BeginStep
<1>2. ASSUME NEW r \in Request, NextId(r) \/ Increment(r) \/ Remove(r) PROVE AccountInv'
  <2>1. Accounts'
    BY <1>2 DEF NextId, Increment, Remove, Accounts, maps
  <2>2. \A q \in Request : Encrypting(q)'
    BY <1>2 DEF NextId, Increment, Remove, Keeps, Goto, Encrypting, maps, TypeInv, TypeOK
  <2>3. QED
    BY <1>a, <2>1, <2>2
<1>3. ASSUME NEW r \in Request, Insert(r) PROVE AccountInv'
  <2>1. /\ target[r] \in Id /\ stage' = [stage EXCEPT ![r] = "encrypt"]
        /\ registered' = [registered EXCEPT ![target[r]] = @ \cup {call[r].password}]
        /\ UNCHANGED <<passwords, call, target>>
    BY <1>3 DEF Insert, Goto, TypeInv, Busy
  <2>2. \A i \in Id : registered[i] \subseteq registered'[i]
    BY <2>1 DEF TypeInv, TypeOK
  <2>3. Accounts'
    BY <2>1, <2>2 DEF Accounts
  <2>4. call[r].password \in registered'[target[r]]
    BY <2>1 DEF TypeInv, TypeOK
  <2>5. ASSUME NEW q \in Request, stage'[q] = "encrypt"
        PROVE  call'[q].password \in registered'[target'[q]]
    <3>1. CASE q = r
      BY <2>1, <2>4, <3>1
    <3>2. CASE q # r
      <4>1. stage[q] = "encrypt"
        BY <2>1, <2>5, <3>2 DEF TypeInv, TypeOK
      <4>2. target[q] \in Id /\ call[q].password \in registered[target[q]]
        BY <4>1 DEF Encrypting, TypeInv, Busy
      <4>3. QED
        BY <2>1, <2>2, <4>2
    <3>3. QED
      BY <3>1, <3>2
  <2>6. QED
    BY <1>a, <2>3, <2>5 DEF Encrypting
<1>4. ASSUME NEW r \in Request, Encrypt(r) PROVE AccountInv'
  <2>1. /\ target[r] \in Id /\ call[r].password \in registered[target[r]]
        /\ registered' = registered
    BY <1>4 DEF Encrypt, Encrypting, TypeInv, Busy
  <2>2. \/ passwords' = passwords
        \/ passwords' = [passwords EXCEPT ![target[r]] = call[r].password]
    BY <1>4 DEF Encrypt
  <2>3. PICK e : Answer(r, e)
    BY <1>4 DEF Encrypt
  <2>4. Accounts'
    BY <2>1, <2>2 DEF Accounts, TypeInv, TypeOK
  <2>5. QED
    BY <1>a, <1>0, <2>1, <2>3, <2>4
<1>5. ASSUME NEW r \in Request, Find(r) PROVE AccountInv'
  <2>1. Accounts'
    BY <1>5, FindStep DEF Accounts, maps
  <2>2. CASE \E e \in Replies : Answer(r, e)
    BY <1>a, <1>0, <1>5, <2>1, <2>2, FindStep DEF maps
  <2>3. CASE Chosen(r)
    <3>1. \A q \in Request : Encrypting(q)'
      BY <1>5, <2>3, FindStep DEF Encrypting, Chosen, Keeps, Goto, maps, TypeInv, TypeOK
    <3>2. QED
      BY <1>a, <2>1, <3>1
  <2>4. (\E e \in Replies : Answer(r, e)) \/ Chosen(r)
    BY <1>5, FindStep
  <2>5. QED
    BY <2>2, <2>3, <2>4
<1>6. ASSUME NEW r \in Request, Check(r) PROVE AccountInv'
  <2>1. PICK e : Answer(r, e)
    BY <1>6 DEF Check
  <2>2. QED
    BY <1>a, <1>0, <1>6, <2>1 DEF Check, Accounts, maps
<1>7. ASSUME NEW r \in Request, Forget(r) \/ Replace(r) PROVE AccountInv'
  <2>1. target[r] \in Id /\ registered' = registered /\ Answer(r, "ok")
    BY <1>7 DEF Forget, Replace, TypeInv, Busy
  <2>2. Accounts'
    BY <1>7, <2>1 DEF Forget, Replace, Accounts, TypeInv, TypeOK
  <2>3. QED
    BY <1>a, <1>0, <2>1, <2>2
<1>8. CASE MapFault
  BY <1>a, <1>8 DEF MapFault, Accounts, Encrypting
<1>9. CASE UNCHANGED vars
  BY <1>a, <1>9 DEF vars, Accounts, Encrypting
<1>10. QED
  BY <1>1, <1>2, <1>3, <1>4, <1>5, <1>6, <1>7, <1>8, <1>9 DEF Next

LEMMA AccountInvariant == Spec => []AccountInv
<1>1. Init => AccountInv
  BY InitType DEF Init, AccountInv, Accounts, Encrypting
<1>2. QED
  BY <1>1, StepAccounts, PTL DEF Spec

\* What LoginsGranted says of a step.
Granted(r) ==
    call[r].op = "Authenticate" /\ reply[r] # "ok" /\ reply'[r] = "ok" =>
        call[r].password \in registered[target[r]]

\* However many handlers register, look up, change and delete accounts between
\* the two steps of a login, it is granted only to a password that the account
\* was registered with.
THEOREM LoginsSound == Spec => LoginsGranted
<1>1. ASSUME AccountInv, [Next]_vars, NEW r \in Request PROVE Granted(r)
  <2> USE DEF AccountInv
  <2>1. SUFFICES ASSUME call[r].op = "Authenticate", reply[r] # "ok", reply'[r] = "ok"
                 PROVE  call[r].password \in registered[target[r]]
    BY DEF Granted
  <2>2. ASSUME NEW q \in Request, q # r,
               \/ Begin(q) \/ NextId(q) \/ Increment(q) \/ Insert(q) \/ Encrypt(q)
               \/ Find(q) \/ Check(q) \/ Remove(q) \/ Forget(q) \/ Replace(q)
        PROVE  FALSE
    <3>1. reply' = reply \/ \E e : reply' = [reply EXCEPT ![q] = e]
      <4>1. CASE Begin(q)
        BY <1>1, <4>1, BeginStep DEF Answer
      <4>2. CASE Find(q)
        <5>1. (\E e \in Replies : Answer(q, e)) \/ Chosen(q)
          BY <1>1, <4>2, FindStep
        <5>2. QED
          BY <5>1 DEF Chosen, Keeps, Goto, Answer
      <4>3. CASE NextId(q) \/ Increment(q) \/ Insert(q) \/ Remove(q)
        BY <4>3 DEF NextId, Increment, Insert, Remove, Keeps, Goto
      <4>4. CASE Encrypt(q) \/ Check(q) \/ Forget(q) \/ Replace(q)
        BY <4>4 DEF Encrypt, Check, Forget, Replace, Answer
      <4>5. QED
        BY <2>2, <4>1, <4>2, <4>3, <4>4
    <3>2. QED
      BY <1>1, <2>1, <2>2, <3>1 DEF TypeInv, TypeOK
  <2>3. CASE Begin(r)
    BY <1>1, <2>1, <2>3, BeginStep DEF Answer, TypeInv, TypeOK
  <2>4. CASE NextId(r) \/ Increment(r) \/ Insert(r) \/ Remove(r)
    BY <1>1, <2>1, <2>4 DEF NextId, Increment, Insert, Remove, Keeps, Goto
  <2>5. CASE Encrypt(r) \/ Forget(r) \/ Replace(r)
    BY <1>1, <2>1, <2>5 DEF Encrypt, Forget, Replace, TypeInv, Busy
  <2>6. CASE Find(r)
    <3>1. (\E e \in Replies : Answer(r, e) /\ e # "ok") \/ Chosen(r)
      BY <1>1, <2>1, <2>6, FindStep
    <3>2. QED
      BY <1>1, <2>1, <3>1 DEF Chosen, Keeps, Goto, Answer, TypeInv, TypeOK
  <2>7. CASE Check(r)
    <3>1. target[r] \in Id
      BY <1>1, <2>7 DEF Check, TypeInv, Busy
    <3>2. passwords[target[r]] # Nil /\ passwords[target[r]] = call[r].password
      <4>1. CASE passwords[target[r]] = Nil
        <5>0. call[r].password # Nil
          BY <1>1, <2>1, CallType, MemoryAssumption DEF TypeInv, TypeOK
        <5>1. Answer(r, "ErrAuthFailed")
          BY <2>7, <4>1, <5>0 DEF Check
        <5>2. QED
          BY <1>1, <2>1, <5>1 DEF Answer, TypeInv, TypeOK
      <4>2. CASE passwords[target[r]] # Nil /\ passwords[target[r]] # call[r].password
        <5>1. Answer(r, "ErrNoSuchUser")
          BY <2>7, <4>2 DEF Check
        <5>2. QED
          BY <1>1, <2>1, <5>1 DEF Answer, TypeInv, TypeOK
      <4>3. QED
        BY <4>1, <4>2
    <3>3. QED
      BY <1>1, <3>1, <3>2 DEF Accounts
  <2>8. CASE MapFault
    BY <2>1, <2>8 DEF MapFault
  <2>9. CASE UNCHANGED vars
    BY <2>1, <2>9 DEF vars
  <2>10. QED
    BY <1>1, <2>2, <2>3, <2>4, <2>5, <2>6, <2>7, <2>8, <2>9 DEF Next
<1>2. AccountInv /\ [Next]_vars =>
        [\A r \in Request :
           call[r].op = "Authenticate" /\ reply[r] # "ok" /\ reply'[r] = "ok" =>
              call[r].password \in registered[target[r]]]_vars
  BY <1>1 DEF Granted
<1>3. QED
  BY <1>2, AccountInvariant, PTL DEF Spec, LoginsGranted
================================================================================
