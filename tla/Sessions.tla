------------------------------- MODULE Sessions -------------------------------
(***************************************************************************)
(* The HTTP handlers of pkg/api/internal over the user table of UserDB.    *)
(* The server keeps no sessions: a login is a signed cookie in the jar of  *)
(* a browser, readable after a restart because the key is a constant.      *)
(*                                                                         *)
(* Everybody types one password, her own, so a browser is named by the     *)
(* password typed into it.  A session is the user name the cookie carries; *)
(* the id next to it, which the code does not keep, says which account     *)
(* logged in.                                                              *)
(***************************************************************************)
EXTENDS UserDB

CONSTANTS NoMail, \* "", the e-mail of every account that is registered
          Keep    \* an answer without a Set-Cookie

Browser == Password
Session == [name : Name, id : Id]

ASSUME WebAssumption ==
    /\ NoMail \in Email /\ CacheActive = FALSE
    /\ Exposed = {"Create", "Authenticate", "GetByName", "DeleteByName"}
    /\ Nil \notin Session /\ Keep \notin Session \cup {Nil}

VARIABLES
    jar,    \* the cookie each browser keeps
    web     \* what each request is about, until its answer has arrived

webVars == <<vars, jar, web>>

Guarded == {"disconnect", "session", "getUser", "deleteUser"}
Handler == {"register", "status", "connect"} \cup Guarded
Code    == {200, 201, 400, 401, 404, 409, 500}

\* code is 0 until the handler answers; sets is the Set-Cookie of the answer.
Exchange == [from : Browser, handler : Handler, cookie : Session \cup {Nil},
             code : Code \cup {0}, sets : Session \cup {Nil, Keep}]

\* web[r] is Nil while no handler runs for r.
ASSUME NoExchange == Nil \notin Exchange

WebInit ==
    /\ Init
    /\ jar = [b \in Browser |-> Nil]
    /\ web = [r \in Request |-> Nil]

\* The cookie has no Path, so a browser that got it from /api/v1/auth/connect
\* returns it below /api/v1/auth only: not to register, nor to /api/v1/status.
Carried(b, h) == IF h \in Guarded \cup {"connect"} THEN jar[b] ELSE Nil

Begin(r, b, h, code, sets) ==
    /\ web[r] = Nil
    /\ web' = [web EXCEPT ![r] = [from |-> b, handler |-> h, code |-> code,
                                  cookie |-> Carried(b, h), sets |-> sets]]
    /\ jar' = jar

AnswerAtOnce(r, b, h, code, sets) == Begin(r, b, h, code, sets) /\ UNCHANGED vars

\* A request whose handler goes on to a method of UserDB: its first statement.
Calling(r, b, h) == Begin(r, b, h, 0, Keep)

Typed(r, b) == call'[r].password = b

Register(r, b) ==
    \/ AnswerAtOnce(r, b, "register", 400, Keep) \* the body is not JSON
    \/ Calling(r, b, "register") /\ CreateByName(r) /\ Typed(r, b)
          /\ call'[r].email = NoMail

Connect(r, b) ==
    \/ AnswerAtOnce(r, b, "connect", 400, Keep)
    \/ Calling(r, b, "connect") /\ AuthenticateLookup(r) /\ Typed(r, b)

GetStatus(r, b) ==
    AnswerAtOnce(r, b, "status",
                 IF Carried(b, "status") = Nil THEN 401 ELSE 200, Keep)

\* UserRoutePass lets only an authorised session, or a login, through.
Refuse(r, b, h) == jar[b] = Nil /\ AnswerAtOnce(r, b, h, 401, Keep)

Disconnect(r, b) == jar[b] # Nil /\ AnswerAtOnce(r, b, "disconnect", 200, Nil)
GetSession(r, b) == jar[b] # Nil /\ AnswerAtOnce(r, b, "session", 200, Keep)

GetUser(r, b) ==
    /\ jar[b] # Nil
    /\ Calling(r, b, "getUser") /\ GetByName(r) /\ call'[r].name = jar[b].name

\* Mutant: the name comes with the request, not from the session.
DeleteAnyUser(r, b) ==
    jar[b] # Nil /\ Calling(r, b, "deleteUser") /\ DeleteByName(r)

\* The session stays: nothing clears the cookie.
DeleteUser(r, b) ==
    /\ jar[b] # Nil
    /\ Calling(r, b, "deleteUser") /\ DeleteByName(r) /\ call'[r].name = jar[b].name

Work(r) ==
    /\ CreateByEmail(r) \/ CreateInsert(r) \/ CreateReadback(r)
          \/ AuthenticateVerify(r) \/ DeleteRow(r)
    /\ UNCHANGED <<jar, web>>

\* The answers of a handler whose method succeeded, and failed.  GetUser asserts
\* that the id in the context is a string; UserRoutePass put nil there (the key
\* is not the one Connect sets), so it panics and gin.Recovery answers.
Succeeded == [register |-> 201, connect |-> 201, getUser |-> 500, deleteUser |-> 200]
Failed    == [register |-> 409, connect |-> 400, getUser |-> 404, deleteUser |-> 400]

\* The method has returned, or panicked, which gin.Recovery answers: the handler
\* answers, and its goroutine is gone.
Finish(r) ==
    LET h == web[r].handler
        ok == reply[r] = "ok" IN
    /\ web[r] # Nil /\ web[r].code = 0 /\ stage[r] = "done"
    /\ web' = [web EXCEPT
                 ![r].code = IF ok THEN Succeeded[h]
                             ELSE IF reply[r] = "panic" THEN 500 ELSE Failed[h],
                 ![r].sets = IF ok /\ h = "connect"
                             THEN [name |-> user[r].name, id |-> user[r].id]
                             ELSE Keep]
    /\ call' = [call EXCEPT ![r] = NoCall]
    /\ user' = [user EXCEPT ![r] = Nil]
    /\ reply' = [reply EXCEPT ![r] = "none"]
    /\ UNCHANGED <<table, cache, stage, job, jar>>

\* The answers reach the browser in any order, or not at all.
Arrive(r) ==
    LET w == web[r] IN
    /\ w # Nil /\ w.code # 0
    /\ web' = [web EXCEPT ![r] = Nil]
    /\ jar' \in {jar, IF w.sets = Keep THEN jar ELSE [jar EXCEPT ![w.from] = w.sets]}
    /\ UNCHANGED vars

\* After an hour the browser drops the cookie.
Expire(b) == jar[b] # Nil /\ jar' = [jar EXCEPT ![b] = Nil] /\ UNCHANGED <<vars, web>>

\* A restart takes the requests without an answer; cookies stay good.
Restart ==
    /\ ProcessDies
    /\ web' = [r \in Request |-> IF web[r] # Nil /\ web[r].code = 0 THEN Nil ELSE web[r]]
    /\ jar' = jar

Browse(r, b) ==
    \/ Register(r, b) \/ Connect(r, b) \/ GetStatus(r, b)
    \/ Disconnect(r, b) \/ GetSession(r, b) \/ GetUser(r, b) \/ DeleteUser(r, b)
    \/ \E h \in Guarded : Refuse(r, b, h)

WebNext ==
    \/ \E r \in Request : Work(r) \/ Finish(r) \/ Arrive(r) \/ \E b \in Browser : Browse(r, b)
    \/ \E b \in Browser : Expire(b)
    \/ Restart

WebSpec == WebInit /\ [][WebNext]_webVars

-----------------------------------------------------------------------------
(* Properties *)

WebTypeOK ==
    /\ TypeOK
    /\ jar \in [Browser -> Session \cup {Nil}]
    /\ web \in [Request -> Exchange \cup {Nil}]

\* The sessions that browser b holds, has sent, or is about to receive.
SessionsOf(b) ==
    {jar[b]} \cup UNION {{web[r].cookie, web[r].sets} :
                           r \in {q \in Request : web[q] # Nil /\ web[q].from = b}}

\* A session was earned: while the account that logged in exists, it has the
\* name in the cookie and the password typed into that browser.  Restarts,
\* deletions, names that are taken anew and answers that overtake each other
\* make no exception.  (No Update.)
SessionsEarned ==
    \A b \in Browser : \A s \in SessionsOf(b) \cap Session :
        /\ s.id <= serial
        /\ \A row \in rows : row.id = s.id => row.name = s.name /\ row.password = b

\* register gives every account the e-mail "" and Create looks the e-mail up
\* first, so once somebody is registered nobody else can be: there are never
\* more accounts than requests that were registering at one time.
\* (Statements do not fail.)
AccountsBounded == Cardinality(rows) <= Cardinality(Request)

\* An account goes only by a DELETE under a session of its name.  That session
\* need not be of that account: its own may be a namesake or, as the cookie
\* outlives an account, gone, and the name somebody else's by now.  Nobody whose
\* account is still there under another name can delete it.
DeletedByName ==
    [][\A row \in rows \ rows' : \E r \in Request :
         /\ web[r] # Nil /\ web[r].handler = "deleteUser" /\ web[r].code = 0
         /\ web[r].cookie.name = row.name
         /\ \A own \in rows : own.id = web[r].cookie.id =>
                own.name = row.name /\ own.password = web[r].from]_webVars
===============================================================================
