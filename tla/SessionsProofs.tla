----------------------------- MODULE SessionsProofs -----------------------------
(***************************************************************************)
(* Theorems about the sessions, for every number of browsers, requests and *)
(* names: what the invariants of the user table say of the HTTP handlers.  *)
(***************************************************************************)
EXTENDS Sessions, UserDBLoginProofs

\* A step of a handler is a step of the user table, leaves it alone, or is the
\* end of a request.
LEMMA WebStep ==
    ASSUME [WebNext]_webVars
    PROVE  [Next]_vars \/ \E r \in Request : Finish(r)
<1>1. ASSUME NEW r \in Request, NEW b \in Browser, Browse(r, b) PROVE Step(r) \/ UNCHANGED vars
  BY <1>1 DEF Browse, Register, Connect, GetStatus, Disconnect, GetSession, GetUser,
     DeleteUser, Refuse, AnswerAtOnce, Step
<1>2. ASSUME NEW r \in Request, Work(r) PROVE Step(r)
  BY <1>2 DEF Work, Step
<1>3. QED
  BY <1>1, <1>2 DEF WebNext, Next, Arrive, Expire, Restart, webVars

\* The end of a request keeps what is known of the user table.
LEMMA FinishKeeps ==
    ASSUME TypeInv, NEW r \in Request, Finish(r)
    PROVE  /\ TypeInv' /\ Quiet /\ Settled /\ rows' = rows
<1>1. NoCall \in Call
  BY ToType, BoundAssumption DEF NoCall, Methods
<1>2. TypeInv'
  BY <1>1 DEF TypeInv, TypeOK, Held, Finish, table, Replies
<1>3. Quiet /\ Settled /\ rows' = rows
  BY DEF TypeInv, TypeOK, Finish, table, Quiet, Settled
<1>4. QED
  BY <1>2, <1>3

LEMMA TypeKept ==
    ASSUME TypeInv, [WebNext]_webVars
    PROVE  TypeInv'
<1>1. ASSUME [Next]_vars PROVE TypeInv'
  BY <1>1, CreateType, AuthenticateType, ReadType, UpdateType, DeleteType,
     CacheWriteType, DiesType, StutterType DEF Next, Step
<1>2. QED
  BY <1>1, WebStep, FinishKeeps

-----------------------------------------------------------------------------
(* How many accounts there are *)

\* Every account has the e-mail "", and so has every Create under way.
MailInv ==
    /\ \A row \in rows : row.email = NoMail
    /\ \A r \in Request : stage[r] \in {"email", "insert"} => call[r].email = NoMail

LEMMA MailStep ==
    ASSUME TypeInv, MailInv, [WebNext]_webVars
    PROVE  MailInv'
<1>0. TypeOK
  BY DEF TypeInv
<1>1. ASSUME Quiet, rows' \subseteq rows PROVE MailInv'
  BY <1>1 DEF MailInv, Quiet
<1>2. ASSUME NEW r \in Request, NEW b \in Browser, Browse(r, b) PROVE MailInv'
  <2>1. CASE Step(r)
    <3>1. rows' = rows /\ (stage'[r] \in {"email", "insert"} => call'[r].email = NoMail)
      BY <1>0, <1>2 DEF Browse, Register, Connect, GetStatus, Disconnect, GetSession,
         GetUser, DeleteUser, Refuse, AnswerAtOnce, CreateByName, AuthenticateLookup,
         GetByName, Get, DeleteByName, DeleteLookup, table, Answer, Goto, TypeOK, MailInv, vars
    <3>2. \A q \in Request : q # r => stage'[q] = stage[q] /\ call'[q] = call[q]
      BY <1>0, <2>1, OnlyItsOwn
    <3>3. QED
      BY <3>1, <3>2 DEF MailInv
  <2>2. CASE UNCHANGED vars
    BY <2>2, <1>1 DEF vars, Quiet
  <2>3. QED
    BY <1>2, <2>1, <2>2 DEF Browse, Register, Connect, GetStatus, Disconnect, GetSession,
       GetUser, DeleteUser, Refuse, AnswerAtOnce, Step
<1>3. ASSUME NEW r \in Request, Work(r) PROVE MailInv'
  <2>1. Step(r) /\ call' = call
    BY <1>3 DEF Work, Step, CreateByEmail, CreateInsert, CreateReadback,
       AuthenticateVerify, DeleteRow
  <2>2. \A q \in Request : q # r => stage'[q] = stage[q]
    BY <1>0, <2>1, OnlyItsOwn
  <2>3. stage'[r] \in {"email", "insert"} => stage[r] \in {"email", "insert"}
    BY <1>0, <1>3 DEF Work, CreateByEmail, CreateInsert, CreateReadback,
       AuthenticateVerify, DeleteRow, Answer, Goto, TypeOK
  <2>4. \A row \in rows' : row.email = NoMail
    <3>1. CASE CreateInsert(r)
      <4>1. call[r].email = NoMail
        BY <3>1 DEF MailInv, CreateInsert
      <4>2. \A row \in rows' : row \in rows \/ row.email = call[r].email
        BY <3>1 DEF CreateInsert, table
      <4>3. QED
        BY <4>1, <4>2 DEF MailInv
    <3>2. CASE ~ CreateInsert(r)
      <4>1. rows' \subseteq rows
        BY <1>3, <3>2 DEF Work, CreateByEmail, CreateReadback, AuthenticateVerify,
           DeleteRow, table
      <4>2. QED
        BY <4>1 DEF MailInv
    <3>3. QED
      BY <3>1, <3>2
  <2>5. QED
    BY <2>1, <2>2, <2>3, <2>4 DEF MailInv
<1>4. ASSUME NEW r \in Request, Finish(r) PROVE MailInv'
  BY <1>1, <1>4, FinishKeeps
<1>5. CASE Restart \/ UNCHANGED vars
  <2>1. Quiet /\ rows' = rows
    BY <1>5 DEF Restart, ProcessDies, table, Quiet, vars
  <2>2. QED
    BY <1>1, <2>1
<1>6. QED
  BY <1>2, <1>3, <1>4, <1>5 DEF WebNext, Arrive, Expire, webVars

\* Over HTTP at most as many accounts can be made as requests that register at
\* one time, whatever names they ask for: the e-mail of all of them is "".
THEOREM FewCanRegister ==
    ASSUME Reliable, FewAtFirst, \A row \in Rows0 : row.email = NoMail
    PROVE  WebSpec => []AccountsBounded
<1>1. WebInit => TypeInv /\ DuplicateInv /\ MailInv
  BY InitTypeInv, DuplicateInit DEF WebInit, Init, MailInv
<1>2. ASSUME TypeInv, DuplicateInv, MailInv, [WebNext]_webVars
      PROVE  TypeInv' /\ DuplicateInv' /\ MailInv'
  <2>1. DuplicateInv'
    BY <1>2, WebStep, DuplicateStep, FinishKeeps, FewerRows
  <2>2. QED
    BY <1>2, <2>1, TypeKept, MailStep
<1>3. ASSUME DuplicateInv, MailInv PROVE AccountsBounded
  <2>1. rows = Mailed(NoMail)
    BY <1>3 DEF MailInv, Mailed
  <2>2. /\ Cardinality(Mailed(NoMail)) + Cardinality(Mailing(NoMail)) <= Cardinality(Request)
        /\ Cardinality(Mailed(NoMail)) \in Nat /\ Cardinality(Mailing(NoMail)) \in Nat
        /\ Cardinality(Request) \in Nat
    BY <1>3, Counts, WebAssumption DEF DuplicateInv
  <2> HIDE DEF Mailed, Mailing
  <2>3. Cardinality(Mailed(NoMail)) <= Cardinality(Request)
    BY <2>2
  <2>4. QED
    BY <2>1, <2>3 DEF AccountsBounded
<1>4. QED
  BY <1>1, <1>2, <1>3, PTL DEF WebSpec

-----------------------------------------------------------------------------
(* Who holds a session *)

WebType ==
    /\ jar \in [Browser -> Session \cup {Nil}]
    /\ web \in [Request -> Exchange \cup {Nil}]

\* A user or a session whose id no other account has had or will have.
Known(u) ==
    /\ u.id \in Id /\ u.id <= serial
    /\ \A row \in rows : row.id = u.id => row.name = u.name

Earned(u, b) == Known(u) /\ \A row \in rows : row.id = u.id => row.password = b

\* A login under way answers with the account whose id it has read, and only
\* after it has compared the password of this browser.
LoggingIn(r) ==
    \/ stage[r] = "verify" /\ Known(user[r]) /\ call[r].password = web[r].from
    \/ stage[r] = "done" /\ (reply[r] = "ok" => user[r] \in User /\ Earned(user[r], web[r].from))

\* SessionsEarned speaks of sessions only; a step makes one from what the
\* request has read before, so that has to be part of the invariant.
Proper(r) == LET w == web[r] IN
    w # Nil => /\ w.cookie \in Session => Earned(w.cookie, w.from)
               /\ w.sets \in Session => Earned(w.sets, w.from)
               /\ w.code = 0 => /\ w.handler \in DOMAIN Succeeded
                                /\ w.handler = "connect" => LoggingIn(r)

EarnedInv ==
    /\ WebType
    /\ \A b \in Browser : jar[b] \in Session => Earned(jar[b], b)
    /\ \A r \in Request : Proper(r)

\* The handlers add accounts with new ids and remove accounts; they change none.
LEMMA NewIdsOnly ==
    ASSUME TypeInv, [WebNext]_webVars
    PROVE  /\ serial \in Nat /\ serial' \in Nat /\ serial <= serial'
           /\ \A row \in rows : row.id \in Nat
           /\ \A row \in rows' : row \in rows \/ row.id = serial + 1
<1>0. /\ TypeOK /\ serial \in Nat
      /\ \A row \in rows : row.id \in Nat
  BY BoundAssumption DEF TypeInv, TypeOK, Row, Id
<1>1. ASSUME NEW r \in Request, NEW b \in Browser, Browse(r, b)
      PROVE  rows' = rows /\ serial' = serial
  BY <1>1 DEF Browse, Register, Connect, GetStatus, Disconnect, GetSession,
     GetUser, DeleteUser, Refuse, AnswerAtOnce, CreateByName, AuthenticateLookup,
     GetByName, Get, DeleteByName, DeleteLookup, table, vars
<1>2. ASSUME NEW r \in Request, Work(r), ~ CreateInsert(r)
      PROVE  rows' \subseteq rows /\ serial' = serial
  BY <1>2 DEF Work, CreateByEmail, CreateReadback, AuthenticateVerify, DeleteRow, table
<1>3. ASSUME NEW r \in Request, CreateInsert(r)
      PROVE  \/ rows' = rows /\ serial' = serial
             \/ serial' = serial + 1 /\ \A row \in rows' : row \in rows \/ row.id = serial + 1
  BY <1>3 DEF CreateInsert, table
<1>4. CASE \/ \E r \in Request : Finish(r) \/ Arrive(r)
           \/ \E b \in Browser : Expire(b)
           \/ Restart \/ UNCHANGED webVars
  <2>1. rows' = rows /\ serial' = serial
    BY <1>4 DEF Finish, Arrive, Expire, Restart, ProcessDies, webVars, vars, table
  <2>2. QED
    BY <1>0, <2>1
<1>5. QED
  BY <1>0, <1>1, <1>2, <1>3, <1>4 DEF WebNext

\* So a session that was earned stays earned.
LEMMA StaysEarned ==
    ASSUME TypeInv, [WebNext]_webVars, NEW u, NEW b
    PROVE  (Known(u) => Known(u)') /\ (Earned(u, b) => Earned(u, b)')
  BY NewIdsOnly DEF Known, Earned, Id

\* A step keeps what is known of a request it does not touch, and of one whose
\* exchange it does not touch when no login is under way in it.
LEMMA StaysProper ==
    ASSUME TypeInv, EarnedInv, [WebNext]_webVars, NEW r \in Request, web'[r] = web[r],
           \/ UNCHANGED <<stage[r], call[r], user[r], reply[r]>>
           \/ web[r] # Nil => web[r].handler # "connect" \/ web[r].code # 0
    PROVE  Proper(r)'
<1>1. Proper(r)
  BY DEF EarnedInv
<1> DEFINE w == web[r]
<1>2. CASE w = Nil
  BY <1>2 DEF Proper
<1>3. CASE w # Nil
  <2>1. /\ w.cookie \in Session => Earned(w.cookie, w.from)'
        /\ w.sets \in Session => Earned(w.sets, w.from)'
        /\ w.code = 0 => w.handler \in DOMAIN Succeeded
    BY <1>1, <1>3, StaysEarned DEF Proper
  <2>2. w.code = 0 /\ w.handler = "connect" => LoggingIn(r)'
    BY <1>1, <1>3, NewIdsOnly DEF Proper, LoggingIn, Earned, Known, Id
  <2>3. QED
    BY <2>1, <2>2 DEF Proper, Earned, Known
<1>4. QED
  BY <1>2, <1>3

LEMMA BeginType ==
    ASSUME WebType, NEW r \in Request, NEW b \in Browser, NEW h \in Handler,
           NEW code \in Code \cup {0}, NEW sets \in {Nil, Keep}, Begin(r, b, h, code, sets)
    PROVE  /\ WebType' /\ jar' = jar
           /\ web'[r].from = b /\ web'[r].handler = h /\ web'[r].code = code
           /\ web'[r].cookie \in {jar[b], Nil} /\ web'[r].sets = sets
           /\ \A q \in Request : q # r => web'[q] = web[q]
<1> DEFINE w == [from |-> b, handler |-> h, code |-> code,
                 cookie |-> Carried(b, h), sets |-> sets]
<1>1. Carried(b, h) \in {jar[b], Nil} /\ Carried(b, h) \in Session \cup {Nil}
  BY DEF Carried, WebType
<1>2. w \in Exchange
  BY <1>1 DEF Exchange
<1>3. web' = [web EXCEPT ![r] = w] /\ jar' = jar
  BY DEF Begin
<1>4. WebType'
  BY <1>2, <1>3 DEF WebType
<1>5. web'[r] = w /\ \A q \in Request : q # r => web'[q] = web[q]
  BY <1>3 DEF WebType
<1>6. QED
  BY <1>1, <1>3, <1>4, <1>5

\* The statement that opens a login finds one account, or answers.
LEMMA ConnectFinds ==
    ASSUME TypeInv, LoginInv, NEW r \in Request, AuthenticateLookup(r),
           call'[r].password = web'[r].from
    PROVE  LoggingIn(r)'
<1>0. TypeOK
  BY DEF TypeInv
<1>1. /\ rows' = rows /\ serial' = serial
      /\ \/ \E e \in Replies \ {"ok"} : Answer(r, Nil, e)
         \/ \E found \in rows : Goto(r, "verify", View(found))
  BY WebAssumption DEF AuthenticateLookup, Lookup, Select, WithEmail, WithName, Replies, table
<1>2. CASE \E e \in Replies \ {"ok"} : Answer(r, Nil, e)
  BY <1>0, <1>2 DEF Answer, TypeOK, LoggingIn
<1>3. ASSUME NEW found \in rows, Goto(r, "verify", View(found)) PROVE LoggingIn(r)'
  <2>1. stage'[r] = "verify" /\ user'[r] = View(found)
    BY <1>0, <1>3 DEF Goto, TypeOK
  <2>2. /\ View(found).id = found.id /\ View(found).name = found.name
        /\ found.id \in Id /\ found.id <= serial
        /\ \A row \in rows : row.id = found.id => row = found
    BY <1>0 DEF View, LoginInv, TypeOK, Row
  <2>3. Known(user[r])'
    BY <1>1, <2>1, <2>2 DEF Known
  <2>4. QED
    BY <2>1, <2>3 DEF LoggingIn
<1>4. QED
  BY <1>1, <1>2, <1>3

LEMMA BrowseKeeps ==
    ASSUME TypeInv, LoginInv, EarnedInv, NEW r \in Request, NEW b \in Browser, Browse(r, b)
    PROVE  EarnedInv'
<1>0. TypeOK /\ WebType /\ [WebNext]_webVars
  BY DEF TypeInv, EarnedInv, WebNext
<1>1. PICK h \in Handler, code \in Code \cup {0}, sets \in {Nil, Keep} :
        /\ Begin(r, b, h, code, sets)
        /\ code = 0 => h \in DOMAIN Succeeded
        /\ code = 0 /\ h = "connect" => AuthenticateLookup(r) /\ Typed(r, b)
  BY DEF Browse, Register, Connect, GetStatus, Disconnect, GetSession, GetUser,
     DeleteUser, Refuse, AnswerAtOnce, Calling, Handler, Guarded, Code, Succeeded
<1>2. /\ WebType' /\ jar' = jar
      /\ web'[r].from = b /\ web'[r].handler = h /\ web'[r].code = code
      /\ web'[r].cookie \in {jar[b], Nil} /\ web'[r].sets = sets
      /\ \A q \in Request : q # r => web'[q] = web[q]
  BY <1>0, <1>1, BeginType
<1>3. \A c \in Browser : jar[c] \in Session => Earned(jar[c], c)'
  BY <1>0, <1>2, StaysEarned DEF EarnedInv, Earned, Known
<1>4. \A q \in Request : q # r => Proper(q)'
  <2>1. Step(r) \/ UNCHANGED vars
    BY DEF Browse, Register, Connect, GetStatus, Disconnect, GetSession, GetUser,
       DeleteUser, Refuse, AnswerAtOnce, Step
  <2>2. \A q \in Request : q # r => UNCHANGED <<stage[q], call[q], user[q], reply[q]>>
    BY <1>0, <2>1, OnlyItsOwn DEF vars
  <2>3. QED
    BY <1>0, <1>2, <2>2, StaysProper
<1>5. code = 0 /\ h = "connect" => LoggingIn(r)'
  BY <1>1, <1>2, ConnectFinds DEF Typed
<1>6. web'[r].sets \notin Session
  BY <1>2, WebAssumption
<1>7. Proper(r)'
  BY <1>1, <1>2, <1>3, <1>5, <1>6, WebAssumption DEF Proper
<1>8. QED
  BY <1>2, <1>3, <1>4, <1>7 DEF EarnedInv, Earned, Known

\* A statement in the middle of a request: only the comparison of the password
\* can bring a login to its answer.
LEMMA WorkKeeps ==
    ASSUME TypeInv, LoginInv, EarnedInv, NEW r \in Request, Work(r)
    PROVE  EarnedInv'
<1>0. TypeOK /\ WebType /\ [WebNext]_webVars /\ jar' = jar /\ web' = web
  BY DEF TypeInv, EarnedInv, WebNext, Work
<1>1. \A c \in Browser : jar[c] \in Session => Earned(jar[c], c)'
  BY <1>0, StaysEarned DEF EarnedInv, Earned, Known
<1>2. \A q \in Request : q # r => Proper(q)'
  <2>1. Step(r)
    BY DEF Work, Step
  <2>2. \A q \in Request : q # r => UNCHANGED <<stage[q], call[q], user[q], reply[q]>>
    BY <1>0, <2>1, OnlyItsOwn
  <2>3. QED
    BY <1>0, <2>2, StaysProper
<1>3. CASE web[r] # Nil /\ web[r].handler = "connect" /\ web[r].code = 0
  <2>1. LoggingIn(r) /\ Proper(r)
    BY <1>3 DEF EarnedInv, Proper
  <2>2. /\ AuthenticateVerify(r) /\ stage[r] = "verify" /\ Known(user[r])
        /\ call[r].password = web[r].from
    <3>1. stage[r] # "done"
      BY DEF Work, CreateByEmail, CreateInsert, CreateReadback, AuthenticateVerify, DeleteRow
    <3>2. stage[r] = "verify" /\ Known(user[r]) /\ call[r].password = web[r].from
      BY <2>1, <3>1 DEF LoggingIn
    <3>3. AuthenticateVerify(r)
      BY <3>2 DEF Work, CreateByEmail, CreateInsert, CreateReadback, DeleteRow
    <3>4. QED
      BY <3>2, <3>3
  <2>3. /\ rows' = rows /\ serial' = serial /\ stage'[r] = "done"
        /\ reply'[r] = "ok" =>
              /\ user'[r] = user[r]
              /\ \E row \in rows : row.id = user[r].id /\ row.password = call[r].password
    BY <1>0, <2>2 DEF AuthenticateVerify, Answer, WithId, TypeOK, table
  <2>4. user[r] \in User
    BY <2>2 DEF TypeInv, Held
  <2>5. LoggingIn(r)'
    BY <1>0, <2>2, <2>3, <2>4 DEF LoggingIn, Known, Earned, LoginInv
  <2>6. /\ web[r].cookie \in Session => Earned(web[r].cookie, web[r].from)'
        /\ web[r].sets \in Session => Earned(web[r].sets, web[r].from)'
    BY <1>0, <1>3, <2>1, <2>3 DEF Proper, Earned, Known
  <2>7. web[r].handler \in DOMAIN Succeeded
    BY <1>3, <2>1 DEF Proper
  <2>8. Proper(r)'
    BY <1>0, <2>5, <2>6, <2>7 DEF Proper, Earned, Known
  <2>9. QED
    BY <1>0, <1>1, <1>2, <2>8 DEF EarnedInv, WebType, Earned, Known
<1>4. CASE ~(web[r] # Nil /\ web[r].handler = "connect" /\ web[r].code = 0)
  <2>1. Proper(r)'
    BY <1>0, <1>4, StaysProper
  <2>2. QED
    BY <1>0, <1>1, <1>2, <2>1 DEF EarnedInv, WebType, Earned, Known
<1>5. QED
  BY <1>3, <1>4

\* The handler answers: what a login has found becomes the session.
LEMMA FinishKeepsEarned ==
    ASSUME TypeInv, EarnedInv, NEW r \in Request, Finish(r)
    PROVE  EarnedInv'
<1>0. /\ TypeOK /\ WebType /\ jar' = jar /\ rows' = rows /\ serial' = serial
      /\ web[r] # Nil /\ web[r].code = 0 /\ stage[r] = "done" /\ Proper(r)
  BY DEF TypeInv, EarnedInv, Finish, table
<1>1. PICK w \in Exchange : w = web[r]
  BY <1>0 DEF WebType
<1> PICK code : code = IF reply[r] = "ok" THEN Succeeded[w.handler]
                       ELSE IF reply[r] = "panic" THEN 500 ELSE Failed[w.handler]
  OBVIOUS
<1> PICK sets : sets = IF reply[r] = "ok" /\ w.handler = "connect"
                       THEN [name |-> user[r].name, id |-> user[r].id] ELSE Keep
  OBVIOUS
<1>2. web' = [web EXCEPT ![r].code = code, ![r].sets = sets]
  BY <1>1 DEF Finish
<1>3. w.handler \in {"register", "connect", "getUser", "deleteUser"}
  BY <1>0, <1>1 DEF Proper, Succeeded
<1>4. code \in Code /\ code # 0
  BY <1>2, <1>3 DEF Succeeded, Failed, Code
<1>5. sets \in Session => Earned(sets, w.from)
  BY <1>0, <1>1, <1>2, WebAssumption DEF Proper, LoggingIn, Earned, Known
<1>6. sets \in Session \cup {Keep}
  BY <1>0, <1>1, <1>2 DEF Proper, LoggingIn, Earned, Known, User, Session
<1>7. web'[r] = [from |-> w.from, handler |-> w.handler, cookie |-> w.cookie,
                 code |-> code, sets |-> sets]
  BY <1>0, <1>1, <1>2 DEF WebType, Exchange
<1>8. web'[r] \in Exchange
  BY <1>4, <1>6, <1>7 DEF Exchange
<1>9. WebType' /\ \A q \in Request : q # r => web'[q] = web[q]
  BY <1>0, <1>2, <1>8 DEF WebType
<1>10. Proper(r)'
  <2>1. /\ w.cookie \in Session => Earned(w.cookie, w.from)'
        /\ sets \in Session => Earned(sets, w.from)'
    BY <1>0, <1>1, <1>5 DEF Proper, Earned, Known
  <2>2. QED
    BY <1>4, <1>7, <2>1 DEF Proper, Earned, Known
<1>11. ASSUME NEW q \in Request, q # r PROVE Proper(q)'
  <2>1. UNCHANGED <<stage[q], call[q], user[q], reply[q]>>
    BY <1>0, <1>11 DEF Finish, TypeOK
  <2>2. QED
    BY <1>9, <1>11, <2>1, StaysProper DEF WebNext
<1>12. QED
  BY <1>0, <1>9, <1>10, <1>11 DEF EarnedInv, Earned, Known

\* An answer arrives: the jar takes what was earned, or keeps what it has.
LEMMA ArriveKeeps ==
    ASSUME TypeInv, EarnedInv, NEW r \in Request, Arrive(r)
    PROVE  EarnedInv'
<1>0. /\ TypeOK /\ WebType /\ rows' = rows /\ serial' = serial /\ web[r] \in Exchange
      /\ web[r] # Nil /\ Proper(r)
  BY DEF TypeInv, EarnedInv, WebType, Arrive, vars
<1>1. WebType' /\ web'[r] = Nil /\ \A q \in Request : q # r => web'[q] = web[q]
  BY <1>0 DEF Arrive, WebType, Exchange
<1>2. \A c \in Browser : \/ jar'[c] = jar[c]
                         \/ c = web[r].from /\ jar'[c] = web[r].sets
  BY <1>0 DEF Arrive, WebType
<1>3. ASSUME NEW q \in Request PROVE Proper(q)'
  <2>1. CASE q = r
    BY <1>1, <2>1 DEF Proper
  <2>2. CASE q # r
    BY <1>1, <2>2, StaysProper DEF WebNext, Arrive, vars
  <2>3. QED
    BY <2>1, <2>2
<1>4. QED
  BY <1>0, <1>1, <1>2, <1>3 DEF EarnedInv, Proper, Earned, Known

LEMMA RestKeeps ==
    ASSUME TypeInv, EarnedInv,
           (\E b \in Browser : Expire(b)) \/ Restart \/ UNCHANGED webVars
    PROVE  EarnedInv'
<1>0. TypeOK /\ WebType /\ [WebNext]_webVars /\ rows' = rows /\ serial' = serial
  BY DEF TypeInv, EarnedInv, WebNext, Expire, Restart, ProcessDies, webVars, vars, table
<1>1. WebType' /\ \A c \in Browser : jar'[c] \in {jar[c], Nil}
  BY <1>0 DEF WebType, Expire, Restart, webVars
<1>2. CASE Restart
  <2>1. ASSUME NEW q \in Request PROVE Proper(q)'
    <3>1. CASE web[q] # Nil /\ web[q].code = 0
      BY <1>2, <3>1 DEF Restart, Proper
    <3>2. CASE ~(web[q] # Nil /\ web[q].code = 0)
      <4>1. web'[q] = web[q]
        BY <1>2, <3>2 DEF Restart
      <4>2. QED
        BY <1>0, <3>2, <4>1, StaysProper
    <3>3. QED
      BY <3>1, <3>2
  <2>2. QED
    BY <1>0, <1>1, <2>1, WebAssumption DEF EarnedInv, Earned, Known
<1>3. CASE (\E b \in Browser : Expire(b)) \/ UNCHANGED webVars
  <2>1. UNCHANGED <<vars, web>>
    BY <1>3 DEF Expire, webVars
  <2>2. \A q \in Request : Proper(q)'
    BY <1>0, <2>1, StaysProper DEF vars
  <2>3. QED
    BY <1>0, <1>1, <2>2, WebAssumption DEF EarnedInv, Earned, Known
<1>4. QED
  BY <1>2, <1>3

\* Types, logins and sessions, together.
WebInv == TypeInv /\ LoginInv /\ EarnedInv

LEMMA WebInvariant == WebSpec => []WebInv
<1>1. WebInit => WebInv
  <2> SUFFICES ASSUME WebInit PROVE WebInv
    OBVIOUS
  <2>1. TypeInv /\ LoginInv
    BY InitTypeInv, LoginInit DEF WebInit
  <2>2. EarnedInv
    BY WebAssumption DEF WebInit, EarnedInv, WebType, Proper
  <2>3. QED
    BY <2>1, <2>2 DEF WebInv
<1>2. WebInv /\ [WebNext]_webVars => WebInv'
  <2> SUFFICES ASSUME WebInv, [WebNext]_webVars PROVE WebInv'
    OBVIOUS
  <2> USE DEF WebInv
  <2>1. TypeInv'
    BY TypeKept
  <2>2. LoginInv'
    BY WebStep, LoginStep, FinishKeeps, SettledKeeps, WebAssumption
  <2>3. EarnedInv'
    BY BrowseKeeps, WorkKeeps, FinishKeepsEarned, ArriveKeeps, RestKeeps DEF WebNext
  <2>4. QED
    BY <2>1, <2>2, <2>3
<1>3. QED
  BY <1>1, <1>2, PTL DEF WebSpec

THEOREM WebTypeCorrect == WebSpec => []WebTypeOK
<1>1. WebInv => WebTypeOK
  BY DEF WebInv, TypeInv, EarnedInv, WebType, WebTypeOK
<1>2. QED
  BY <1>1, WebInvariant, PTL

\* Whoever holds a session, has sent it, or is about to receive it, typed the
\* password of the account it names: whatever the order of the answers, and
\* whatever is registered, deleted and restarted in between.
THEOREM SessionsAreEarned == WebSpec => []SessionsEarned
<1>1. ASSUME WebInv PROVE SessionsEarned
  <2> SUFFICES ASSUME NEW b \in Browser, NEW s \in SessionsOf(b) \cap Session
               PROVE  Earned(s, b)
    BY DEF SessionsEarned, Earned, Known
  <2>1. \/ s = jar[b]
        \/ \E r \in Request : /\ web[r] # Nil /\ web[r].from = b
                              /\ s \in {web[r].cookie, web[r].sets}
    BY DEF SessionsOf
  <2>2. QED
    BY <1>1, <2>1 DEF WebInv, EarnedInv, Proper
<1>2. QED
  BY <1>1, WebInvariant, PTL

-----------------------------------------------------------------------------
(* Who gets an account deleted *)

\* A request that is about to send its DELETE is one of deleteUser, and deletes
\* by the name in the session that it came with.
Deleting(r) == stage[r] = "delete" =>
    /\ web[r] # Nil /\ web[r].handler = "deleteUser" /\ web[r].code = 0
    /\ web[r].cookie \in Session
    /\ call[r].op = "DeleteByName" /\ call[r].name = web[r].cookie.name

DeleteInv == \A r \in Request : Deleting(r)

LEMMA BrowseDeleting ==
    ASSUME TypeInv, EarnedInv, DeleteInv, NEW r \in Request, NEW b \in Browser, Browse(r, b)
    PROVE  DeleteInv'
<1>0. TypeOK /\ WebType
  BY DEF TypeInv, EarnedInv
<1>1. ASSUME NEW q \in Request, q # r PROVE Deleting(q)'
  <2>1. Step(r) \/ UNCHANGED vars
    BY DEF Browse, Register, Connect, GetStatus, Disconnect, GetSession, GetUser,
       DeleteUser, Refuse, AnswerAtOnce, Step
  <2>2. UNCHANGED <<stage[q], call[q]>>
    BY <1>0, <1>1, <2>1, OnlyItsOwn DEF vars
  <2>3. web'[q] = web[q]
    BY <1>0, <1>1 DEF Browse, Register, Connect, GetStatus, Disconnect, GetSession, GetUser,
       DeleteUser, Refuse, AnswerAtOnce, Calling, Begin, WebType
  <2>4. QED
    BY <1>1, <2>2, <2>3 DEF DeleteInv, Deleting
<1>2. CASE DeleteUser(r, b)
  <2>1. /\ web'[r].handler = "deleteUser" /\ web'[r].code = 0 /\ web'[r].cookie = jar[b]
        /\ web'[r] \in Exchange
    BY <1>0, <1>2, BeginType DEF DeleteUser, Calling, Begin, Carried, Guarded, Handler, WebType, Exchange
  <2>2. jar[b] \in Session
    BY <1>0, <1>2 DEF DeleteUser, WebType
  <2>3. call'[r].op = "DeleteByName" /\ call'[r].name = jar[b].name
    BY <1>0, <1>2 DEF DeleteUser, DeleteByName, DeleteLookup, Ask, To, TypeOK
  <2>4. Deleting(r)'
    BY <2>1, <2>2, <2>3, NoExchange DEF Deleting
  <2>5. QED
    BY <1>1, <2>4 DEF DeleteInv
<1>3. CASE ~ DeleteUser(r, b)
  <2>1. stage[r] = "delete" => web[r] # Nil
    BY DEF DeleteInv, Deleting
  <2>2. web[r] = Nil
    BY DEF Browse, Register, Connect, GetStatus, Disconnect, GetSession, GetUser,
       DeleteUser, Refuse, AnswerAtOnce, Calling, Begin
  <2>3. stage'[r] # "delete"
    BY <1>0, <1>3, <2>1, <2>2 DEF Browse, Register, Connect, GetStatus, Disconnect, GetSession,
       GetUser, Refuse, AnswerAtOnce, CreateByName, AuthenticateLookup, GetByName, Get,
       Answer, Goto, TypeOK, vars
  <2>4. QED
    BY <1>1, <2>3 DEF DeleteInv, Deleting
<1>4. QED
  BY <1>2, <1>3

LEMMA DeletingKept ==
    ASSUME TypeInv, EarnedInv, DeleteInv, [WebNext]_webVars
    PROVE  DeleteInv'
<1>0. TypeOK /\ WebType
  BY DEF TypeInv, EarnedInv
<1>1. ASSUME NEW r \in Request, Work(r) PROVE DeleteInv'
  <2>1. Step(r) /\ web' = web /\ stage'[r] # "delete"
    BY <1>0, <1>1 DEF Work, Step, CreateByEmail, CreateInsert, CreateReadback,
       AuthenticateVerify, DeleteRow, Answer, Goto, TypeOK
  <2>2. \A q \in Request : q # r => UNCHANGED <<stage[q], call[q]>>
    BY <1>0, <2>1, OnlyItsOwn
  <2>3. QED
    BY <2>1, <2>2 DEF DeleteInv, Deleting
<1>2. ASSUME NEW r \in Request, Finish(r) PROVE DeleteInv'
  BY <1>0, <1>2 DEF Finish, TypeOK, WebType, DeleteInv, Deleting
<1>3. ASSUME NEW r \in Request, Arrive(r) PROVE DeleteInv'
  BY <1>0, <1>3 DEF Arrive, WebType, DeleteInv, Deleting, vars
<1>4. CASE (\E b \in Browser : Expire(b)) \/ Restart \/ UNCHANGED webVars
  BY <1>4 DEF Expire, Restart, ProcessDies, webVars, vars, DeleteInv, Deleting
<1>5. QED
  BY <1>1, <1>2, <1>3, <1>4, BrowseDeleting DEF WebNext

\* An account is removed by a deleteUser only, and by the name in its session;
\* whose session that is, SessionsEarned says.
LEMMA DeletesNamed ==
    ASSUME WebInv, DeleteInv, [WebNext]_webVars, NEW row \in rows \ rows'
    PROVE  \E r \in Request :
             /\ web[r] # Nil /\ web[r].handler = "deleteUser" /\ web[r].code = 0
             /\ web[r].cookie.name = row.name
             /\ \A own \in rows : own.id = web[r].cookie.id =>
                    own.name = row.name /\ own.password = web[r].from
<1>1. PICK r \in Request : DeleteRow(r)
  <2>1. ASSUME NEW r \in Request, NEW b \in Browser, Browse(r, b) PROVE rows' = rows
    BY <2>1 DEF Browse, Register, Connect, GetStatus, Disconnect, GetSession, GetUser,
       DeleteUser, Refuse, AnswerAtOnce, CreateByName, AuthenticateLookup, GetByName, Get,
       DeleteByName, DeleteLookup, table, vars
  <2>2. ASSUME NEW r \in Request, Work(r), ~ DeleteRow(r) PROVE rows \subseteq rows'
    BY <2>2 DEF Work, CreateByEmail, CreateInsert, CreateReadback, AuthenticateVerify, table
  <2>3. QED
    BY <2>1, <2>2 DEF WebNext, Finish, Arrive, Expire, Restart, ProcessDies, webVars, vars, table
<1>2. /\ web[r] # Nil /\ web[r].handler = "deleteUser" /\ web[r].code = 0
      /\ web[r].cookie \in Session
      /\ call[r].op = "DeleteByName" /\ call[r].name = web[r].cookie.name
  BY <1>1 DEF DeleteInv, Deleting, DeleteRow
<1>3. row.name = call[r].name
  BY <1>1, <1>2 DEF DeleteRow, WithName
<1>4. Earned(web[r].cookie, web[r].from)
  BY <1>2 DEF WebInv, EarnedInv, Proper
<1>5. QED
  BY <1>2, <1>3, <1>4 DEF Earned, Known

\* Whatever the answers, restarts and namesakes in between: an account goes only
\* by a DELETE under a session of its name, which was earned.
THEOREM DeletedBySession == WebSpec => DeletedByName
<1>1. WebInit => DeleteInv
  BY DEF WebInit, Init, DeleteInv, Deleting
<1>2. WebInv /\ DeleteInv /\ [WebNext]_webVars => DeleteInv'
  BY DeletingKept DEF WebInv
<1>3. WebInv /\ DeleteInv /\ [WebNext]_webVars =>
        \A row \in rows \ rows' : \E r \in Request :
             /\ web[r] # Nil /\ web[r].handler = "deleteUser" /\ web[r].code = 0
             /\ web[r].cookie.name = row.name
             /\ \A own \in rows : own.id = web[r].cookie.id =>
                    own.name = row.name /\ own.password = web[r].from
  BY DeletesNamed
<1>4. QED
  BY <1>1, <1>2, <1>3, WebInvariant, PTL DEF WebSpec, DeletedByName
================================================================================
