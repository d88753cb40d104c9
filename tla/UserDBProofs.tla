----------------------------- MODULE UserDBProofs -----------------------------
(***************************************************************************)
(* UserDB keeps its types, and implements UserRegistry, for every set of   *)
(* requests, names, e-mails, passwords and accounts.                       *)
(***************************************************************************)
EXTENDS UserDB, FiniteSetTheorems, TLAPS

\* What a request holds between two statements: the arguments of the method it
\* is in, and the user it has looked up.  Without it a lookup by call[r].email
\* could be a lookup by no text at all, so TypeOK alone is not inductive.
Held(r) ==
    /\ stage[r] \in {"email", "insert", "readback"} =>
          /\ call[r].op = "Create"
          /\ call[r].name \in Name /\ call[r].email \in Email
          /\ call[r].password \in Password
    /\ stage[r] = "verify" =>
          /\ call[r].op = "Authenticate"
          /\ call[r].password \in Password /\ user[r] \in User
    /\ stage[r] = "delete" => call[r].op \in {"DeleteByName", "DeleteById"}

TypeInv == TypeOK /\ \A r \in Request : Held(r)

\* What the helpers of the actions return, or leave behind.

LEMMA LookupType ==
    ASSUME TypeOK, NEW key \in Key, NEW found, found \subseteq rows
    PROVE  Lookup(key, found) \subseteq User \cup {Nil}
  BY BoundAssumption DEF TypeOK, Lookup, Select, View, User, Row, Id

LEMMA AskType ==
    ASSUME TypeOK, NEW r \in Request, NEW c \in Call, Ask(r, c)
    PROVE  /\ stage[r] = "done" /\ call' \in [Request -> Call] /\ call'[r] = c
           /\ \A q \in Request : q # r => call'[q] = call[q]
  BY DEF TypeOK, Ask

LEMMA GotoType ==
    ASSUME TypeOK, NEW r \in Request, NEW s \in Stages, NEW u \in User \cup {Nil},
           Goto(r, s, u)
    PROVE  /\ stage' \in [Request -> Stages] /\ user' \in [Request -> User \cup {Nil}]
           /\ reply' \in [Request -> Replies]
           /\ stage'[r] = s /\ user'[r] = u
           /\ \A q \in Request : q # r => stage'[q] = stage[q] /\ user'[q] = user[q]
  BY DEF TypeOK, Goto, Replies

LEMMA AnswerType ==
    ASSUME TypeOK, NEW r \in Request, NEW u \in User \cup {Nil}, NEW e \in Replies,
           Answer(r, u, e)
    PROVE  /\ stage' \in [Request -> Stages] /\ user' \in [Request -> User \cup {Nil}]
           /\ reply' \in [Request -> Replies]
           /\ stage'[r] = "done" /\ user'[r] = u
           /\ \A q \in Request : q # r => stage'[q] = stage[q] /\ user'[q] = user[q]
  BY DEF TypeOK, Answer, Stages

LEMMA SpawnType ==
    ASSUME TypeOK, NEW kind \in {"update", "clear"}, NEW D, NEW us \in [D -> User],
           Spawn(kind, us)
    PROVE  job' \in [Worker -> Job]
<1>1. CASE ~CacheActive
  BY <1>1 DEF Spawn, TypeOK
<1>2. CASE CacheActive
  <2>1. PICK slot \in [D -> Worker] :
          job' = [w \in Worker |->
                    IF \E x \in D : slot[x] = w
                    THEN [kind |-> kind, next |-> 1,
                          user |-> us[CHOOSE x \in D : slot[x] = w]]
                    ELSE job[w]]
    BY <1>2 DEF Spawn
  <2>2. ASSUME NEW w \in Worker PROVE job'[w] \in Job
    <3>1. CASE \E x \in D : slot[x] = w
      <4>1. (CHOOSE x \in D : slot[x] = w) \in D
        BY <3>1
      <4>2. us[CHOOSE x \in D : slot[x] = w] \in User
        BY <4>1
      <4>3. QED
        BY <2>1, <3>1, <4>2 DEF Job
    <3>2. CASE ~ \E x \in D : slot[x] = w
      BY <2>1, <3>2 DEF TypeOK
    <3>3. QED
      BY <3>1, <3>2
  <2>3. QED
    BY <2>1, <2>2
<1>3. QED
  BY <1>1, <1>2, SwitchAssumption

LEMMA SpawnOneType ==
    ASSUME TypeOK, NEW kind \in {"update", "clear"}, NEW r, NEW u \in User,
           Spawn(kind, [x \in {r} |-> u])
    PROVE  job' \in [Worker -> Job]
<1>1. [x \in {r} |-> u] \in [{r} -> User]
  OBVIOUS
<1>2. QED
  BY <1>1, SpawnType

-----------------------------------------------------------------------------
(* Type correctness *)

LEMMA InitTypeInv == Init => TypeInv
<1> SUFFICES ASSUME Init PROVE TypeInv
  OBVIOUS
<1>1. NoCall \in Call
  BY BoundAssumption DEF NoCall, To, Call, Methods
<1>2. TypeOK
  BY <1>1, BoundAssumption, RowsAssumption
  DEF Init, TypeOK, Stages, Replies, Job
<1>3. \A r \in Request : Held(r)
  BY DEF Init, Held
<1>4. QED
  BY <1>2, <1>3 DEF TypeInv

LEMMA ToType ==
    ASSUME NEW op \in Methods, NEW n \in Login \cup {Nil}, NEW e \in Email \cup {Nil},
           NEW i \in 0..MaxId, NEW p \in Password \cup {Nil}
    PROVE  To(op, n, e, i, p) \in Call
  BY DEF To, Call

\* A request whose call and answer are as typed, and what it holds as stated,
\* keeps the invariant when the table, the cache and the jobs stay typed.
LEMMA StepType ==
    ASSUME TypeInv, NEW r \in Request,
           rows' \subseteq Row, serial' \in 0..MaxId,
           cache' \in [Key -> User \cup {Nil}], job' \in [Worker -> Job],
           call' \in [Request -> Call], \A q \in Request : q # r => call'[q] = call[q],
           \/ \E u \in User \cup {Nil}, e \in Replies : Answer(r, u, e)
           \/ \E s \in Stages, u \in User \cup {Nil} : Goto(r, s, u) /\ Held(r)'
    PROVE  TypeInv'
<1>1. CASE \E u \in User \cup {Nil}, e \in Replies : Answer(r, u, e)
  BY <1>1, AnswerType DEF TypeInv, TypeOK, Held
<1>2. CASE \E s \in Stages, u \in User \cup {Nil} : Goto(r, s, u) /\ Held(r)'
  BY <1>2, GotoType DEF TypeInv, TypeOK, Held
<1>3. QED
  BY <1>1, <1>2

LEMMA CreateType ==
    ASSUME TypeInv, NEW r \in Request,
           CreateByName(r) \/ CreateByEmail(r) \/ CreateInsert(r) \/ CreateReadback(r)
    PROVE  TypeInv'
<1> USE DEF Replies, Stages, table
<1>0. TypeOK /\ Held(r)
  BY DEF TypeInv
<1>1. CASE CreateByName(r)
  <2>1. PICK n \in Name, e \in Email, p \in Password :
          /\ Ask(r, To("Create", n, e, 0, p))
          /\ \/ Answer(r, Nil, "panic") \/ Answer(r, Nil, "ErrUserExists")
             \/ Goto(r, "email", Nil)
          /\ UNCHANGED <<table, cache, job>>
    BY <1>1 DEF CreateByName
  <2>2. To("Create", n, e, 0, p) \in Call
    BY ToType, BoundAssumption DEF Methods, Login
  <2>3. /\ call' \in [Request -> Call] /\ call'[r] = To("Create", n, e, 0, p)
        /\ \A q \in Request : q # r => call'[q] = call[q]
    BY <1>0, <2>1, <2>2, AskType
  <2>4. ASSUME Goto(r, "email", Nil) PROVE Held(r)'
    <3>1. /\ call'[r].op = "Create" /\ call'[r].name \in Name
          /\ call'[r].email \in Email /\ call'[r].password \in Password
      BY <2>3 DEF To
    <3>2. stage'[r] = "email"
      BY <1>0, <2>4, GotoType
    <3>3. QED
      BY <3>1, <3>2 DEF Held
  <2>5. QED
    BY <1>0, <2>1, <2>3, <2>4, StepType DEF TypeOK
<1>2. CASE CreateByEmail(r)
  <2>1. /\ \/ \E e \in Replies : Answer(r, Nil, e)
           \/ Goto(r, "insert", Nil)
        /\ UNCHANGED <<table, cache, call, job>>
    BY <1>2 DEF CreateByEmail
  <2>2. Goto(r, "insert", Nil) => Held(r)'
    BY <1>0, <1>2, <2>1, GotoType DEF Held, CreateByEmail
  <2>3. QED
    BY <1>0, <2>1, <2>2, StepType DEF TypeOK
<1>3. CASE CreateInsert(r)
  <2>1. /\ Answer(r, Nil, "ErrCreateUser") \/ Goto(r, "readback", Nil)
        /\ UNCHANGED <<cache, call, job>>
    BY <1>3 DEF CreateInsert
  <2>2. Goto(r, "readback", Nil) => Held(r)'
    BY <1>0, <1>3, <2>1, GotoType DEF Held, CreateInsert
  <2>3. rows' \subseteq Row /\ serial' \in 0..MaxId
    <3> DEFINE new == [id |-> serial + 1, name |-> call[r].name,
                       email |-> call[r].email, password |-> call[r].password]
    <3>1. \/ rows' = rows /\ serial' = serial
          \/ ~Exhausted /\ serial' = serial + 1 /\ rows' = rows \cup {new}
      BY <1>3 DEF CreateInsert
    <3>2. ~Exhausted => serial + 1 \in Id /\ serial + 1 \in 0..MaxId
      <4>1. serial \in 0..MaxId
        BY <1>0 DEF TypeOK
      <4>2. QED
        BY <4>1, BoundAssumption DEF Exhausted, Id
    <3>3. call[r].name \in Name /\ call[r].email \in Email
          /\ call[r].password \in Password
      BY <1>0, <1>3 DEF Held, CreateInsert
    <3>4. ~Exhausted => new \in Row
      BY <3>2, <3>3 DEF Row
    <3> HIDE DEF new
    <3>5. QED
      BY <1>0, <3>1, <3>2, <3>4 DEF TypeOK
  <2>4. QED
    BY <1>0, <2>1, <2>2, <2>3, StepType DEF TypeOK
<1>4. CASE CreateReadback(r)
  <2>1. call[r].name \in Key
    BY <1>0, <1>4 DEF Held, CreateReadback, Key
  <2>2. Lookup(call[r].name, WithName(call[r].name)) \subseteq User \cup {Nil}
    BY <1>0, <2>1, LookupType DEF WithName
  <2>3. /\ \E u \in User \cup {Nil}, e \in Replies : Answer(r, u, e)
        /\ \/ job' = job
           \/ \E u \in User : Spawn("update", [x \in {r} |-> u])
        /\ UNCHANGED <<table, cache, call>>
    BY <1>4, <2>2 DEF CreateReadback
  <2>4. job' \in [Worker -> Job]
    BY <1>0, <2>3, SpawnOneType DEF TypeOK
  <2>5. QED
    BY <1>0, <2>3, <2>4, StepType DEF TypeOK
<1>5. QED
  BY <1>1, <1>2, <1>3, <1>4

LEMMA AuthenticateType ==
    ASSUME TypeInv, NEW r \in Request, AuthenticateLookup(r) \/ AuthenticateVerify(r)
    PROVE  TypeInv'
<1> USE DEF Replies, Stages, table
<1>0. TypeOK /\ Held(r)
  BY DEF TypeInv
<1>1. CASE AuthenticateLookup(r)
  <2>1. PICK l \in Login, p \in Password :
          /\ Ask(r, To("Authenticate", l, Nil, 0, p))
          /\ \/ Answer(r, Nil, "panic")
             \/ \E u \in Lookup(l, IF l \in At THEN WithEmail(l) ELSE WithName(l)) :
                   IF u = Nil THEN Answer(r, Nil, "ErrNoUser")
                              ELSE Goto(r, "verify", u)
          /\ UNCHANGED <<table, cache, job>>
    BY <1>1 DEF AuthenticateLookup
  <2>2. Lookup(l, IF l \in At THEN WithEmail(l) ELSE WithName(l)) \subseteq User \cup {Nil}
    BY <1>0, LookupType DEF WithEmail, WithName, Login, Key
  <2>3. To("Authenticate", l, Nil, 0, p) \in Call
    BY ToType, BoundAssumption DEF Methods
  <2>4. /\ call' \in [Request -> Call] /\ call'[r] = To("Authenticate", l, Nil, 0, p)
        /\ \A q \in Request : q # r => call'[q] = call[q]
    BY <1>0, <2>1, <2>3, AskType
  <2>5. ASSUME NEW u \in User, Goto(r, "verify", u) PROVE Held(r)'
    <3>1. call'[r].op = "Authenticate" /\ call'[r].password \in Password
      BY <2>4 DEF To
    <3>0. u \in User \cup {Nil} /\ "verify" \in Stages
      OBVIOUS
    <3>2. stage'[r] = "verify" /\ user'[r] = u
      BY <1>0, <2>5, <3>0 DEF Goto, TypeOK
    <3>3. QED
      BY <3>1, <3>2 DEF Held
  <2>6. \/ \E e \in Replies : Answer(r, Nil, e)
        \/ \E u \in User : Goto(r, "verify", u)
    BY <2>1, <2>2
  <2>7. QED
    BY <1>0, <2>1, <2>4, <2>5, <2>6, StepType DEF TypeOK
<1>2. CASE AuthenticateVerify(r)
  <2>1. /\ \E u \in User \cup {Nil}, e \in Replies : Answer(r, u, e)
        /\ UNCHANGED <<table, cache, call, job>>
    BY <1>0, <1>2 DEF AuthenticateVerify, TypeOK
  <2>2. QED
    BY <1>0, <2>1, StepType DEF TypeOK
<1>3. QED
  BY <1>1, <1>2

LEMMA GetType ==
    ASSUME TypeInv, NEW r \in Request, NEW c \in Call, NEW key \in Key,
           NEW found, found \subseteq rows, Get(r, c, key, found)
    PROVE  TypeInv'
<1>0. TypeOK
  BY DEF TypeInv
<1>1. Lookup(key, found) \subseteq User \cup {Nil}
  BY <1>0, LookupType
<1>2. /\ \E u \in User \cup {Nil}, e \in Replies : Answer(r, u, e)
      /\ UNCHANGED <<table, cache, job>>
  BY <1>1 DEF Get, Replies
<1>3. call' \in [Request -> Call] /\ \A q \in Request : q # r => call'[q] = call[q]
  BY <1>0, AskType DEF Get
<1>4. QED
  BY <1>0, <1>2, <1>3, StepType DEF TypeOK, table

LEMMA ReadType ==
    ASSUME TypeInv, NEW r \in Request,
           GetByName(r) \/ GetByEmail(r) \/ GetById(r) \/ GetAll(r)
    PROVE  TypeInv'
<1>0. TypeOK
  BY DEF TypeInv
<1>1. CASE GetByName(r)
  <2>1. PICK n \in Name : Get(r, To("GetByName", n, Nil, 0, Nil), n, WithName(n))
    BY <1>1 DEF GetByName
  <2>2. To("GetByName", n, Nil, 0, Nil) \in Call
    BY ToType, BoundAssumption DEF Methods, Login
  <2>3. QED
    BY <2>1, <2>2, GetType DEF Key, WithName
<1>2. CASE GetByEmail(r)
  <2>1. PICK e \in Email : Get(r, To("GetByEmail", Nil, e, 0, Nil), e, WithEmail(e))
    BY <1>2 DEF GetByEmail
  <2>2. To("GetByEmail", Nil, e, 0, Nil) \in Call
    BY ToType, BoundAssumption DEF Methods
  <2>3. QED
    BY <2>1, <2>2, GetType DEF Key, WithEmail
<1>3. CASE GetById(r)
  <2>1. PICK i \in 0..MaxId : Get(r, To("GetById", Nil, Nil, i, Nil), i, WithId(i))
    BY <1>3 DEF GetById
  <2>2. To("GetById", Nil, Nil, i, Nil) \in Call
    BY ToType DEF Methods
  <2>3. QED
    BY <2>1, <2>2, GetType DEF Key, WithId
<1>4. CASE GetAll(r)
  <2>1. /\ Ask(r, NoCall) /\ \E e \in Replies : Answer(r, Nil, e)
        /\ job' = job \/ Spawn("update", [row \in rows |-> Cached(View(row))])
        /\ UNCHANGED <<table, cache>>
    BY <1>4 DEF GetAll, Replies
  <2>2. [row \in rows |-> Cached(View(row))] \in [rows -> User]
    BY <1>0, BoundAssumption DEF TypeOK, Cached, View, Row, User, Id
  <2>3. job' \in [Worker -> Job]
    BY <1>0, <2>1, <2>2, SpawnType DEF TypeOK
  <2>4. NoCall \in Call
    BY ToType, BoundAssumption DEF NoCall, Methods
  <2>5. call' \in [Request -> Call] /\ \A q \in Request : q # r => call'[q] = call[q]
    BY <1>0, <2>1, <2>4, AskType
  <2>6. QED
    BY <1>0, <2>1, <2>3, <2>5, StepType DEF TypeOK, table
<1>5. QED
  BY <1>1, <1>2, <1>3, <1>4

LEMMA ApplyType ==
    ASSUME TypeInv, NEW r \in Request, NEW c \in Call, Ask(r, c), NEW u \in User,
           NEW newRows, newRows \subseteq Row, NEW e \in Replies,
           Apply(r, newRows, u, e), UNCHANGED <<serial, cache>>
    PROVE  TypeInv'
<1>0. TypeOK
  BY DEF TypeInv
<1>1. /\ \E v \in User \cup {Nil}, x \in Replies : Answer(r, v, x)
      /\ rows' \in {newRows, rows}
      /\ job' = job \/ Spawn("update", [x \in {r} |-> u])
  BY DEF Apply, Replies
<1>2. job' \in [Worker -> Job]
  BY <1>0, <1>1, SpawnOneType DEF TypeOK
<1>3. call' \in [Request -> Call] /\ \A q \in Request : q # r => call'[q] = call[q]
  BY <1>0, AskType
<1>4. QED
  BY <1>0, <1>1, <1>2, <1>3, StepType DEF TypeOK

LEMMA UpdateType ==
    ASSUME TypeInv, NEW r \in Request, Update(r) \/ UpdateUserPassword(r)
    PROVE  TypeInv'
<1>0. TypeOK
  BY DEF TypeInv
<1>1. ASSUME NEW u \in User, NEW p \in Password \cup {Nil},
             NEW op \in {"Update", "UpdateUserPassword"}
      PROVE  To(op, u.name, u.email, u.id, p) \in Call
  BY ToType DEF User, Login, Methods
<1>2. CASE Update(r)
  <2>1. PICK u \in User :
          /\ Ask(r, To("Update", u.name, u.email, u.id, Nil))
          /\ Apply(r, {IF row.id = u.id
                       THEN [row EXCEPT !.name = u.name, !.email = u.email]
                       ELSE row : row \in rows}, u, "ErrDBUpdate")
          /\ UNCHANGED <<serial, cache>>
    BY <1>2 DEF Update
  <2>2. {IF row.id = u.id THEN [row EXCEPT !.name = u.name, !.email = u.email]
         ELSE row : row \in rows} \subseteq Row
    BY <1>0 DEF TypeOK, Row, User
  <2>3. "ErrDBUpdate" \in Replies
    BY DEF Replies
  <2>4. QED
    BY <1>1, <2>1, <2>2, <2>3, ApplyType
<1>3. CASE UpdateUserPassword(r)
  <2>1. PICK u \in User, p \in Password :
          /\ Ask(r, To("UpdateUserPassword", u.name, u.email, u.id, p))
          /\ IF p \in TooLong
             THEN Answer(r, Nil, "ErrUpdateUser") /\ UNCHANGED <<rows, job>>
             ELSE Apply(r, {IF row.id = u.id THEN [row EXCEPT !.password = p]
                            ELSE row : row \in rows}, u, "ErrDBUpdate")
          /\ UNCHANGED <<serial, cache>>
    BY <1>3 DEF UpdateUserPassword
  <2>2. {IF row.id = u.id THEN [row EXCEPT !.password = p]
         ELSE row : row \in rows} \subseteq Row
    BY <1>0 DEF TypeOK, Row
  <2>3. {"ErrDBUpdate", "ErrUpdateUser"} \subseteq Replies
    BY DEF Replies
  <2>4. CASE p \in TooLong
    <3>1. call' \in [Request -> Call] /\ \A q \in Request : q # r => call'[q] = call[q]
      BY <1>0, <1>1, <2>1, AskType
    <3>2. QED
      BY <1>0, <2>1, <2>3, <2>4, <3>1, StepType DEF TypeOK
  <2>5. CASE p \notin TooLong
    BY <1>1, <2>1, <2>2, <2>3, <2>5, ApplyType
  <2>6. QED
    BY <2>4, <2>5
<1>4. QED
  BY <1>2, <1>3

LEMMA DeleteLookupType ==
    ASSUME TypeInv, NEW r \in Request, NEW c \in Call, NEW key \in Key,
           c.op \in {"DeleteByName", "DeleteById"},
           NEW found, found \subseteq rows, DeleteLookup(r, c, key, found)
    PROVE  TypeInv'
<1> USE DEF Replies, Stages, table
<1>0. TypeOK
  BY DEF TypeInv
<1>1. Lookup(key, found) \subseteq User \cup {Nil}
  BY <1>0, LookupType
<1>2. /\ (\E e \in Replies : Answer(r, Nil, e)) \/ Goto(r, "delete", Nil)
      /\ job' = job \/ \E u \in User : Spawn("clear", [x \in {r} |-> u])
      /\ UNCHANGED <<table, cache>>
  BY <1>1 DEF DeleteLookup
<1>3. /\ call' \in [Request -> Call] /\ call'[r] = c
      /\ \A q \in Request : q # r => call'[q] = call[q]
  BY <1>0, AskType DEF DeleteLookup
<1>4. job' \in [Worker -> Job]
  BY <1>0, <1>2, SpawnOneType DEF TypeOK
<1>5. Goto(r, "delete", Nil) => Held(r)'
  BY <1>0, <1>3, GotoType DEF Held
<1>6. QED
  BY <1>0, <1>2, <1>3, <1>4, <1>5, StepType DEF TypeOK

LEMMA DeleteType ==
    ASSUME TypeInv, NEW r \in Request,
           DeleteByName(r) \/ DeleteById(r) \/ DeleteRow(r)
    PROVE  TypeInv'
<1>0. TypeOK
  BY DEF TypeInv
<1>1. CASE DeleteByName(r)
  <2>1. PICK n \in Name :
          DeleteLookup(r, To("DeleteByName", n, Nil, 0, Nil), n, WithName(n))
    BY <1>1 DEF DeleteByName
  <2>2. /\ To("DeleteByName", n, Nil, 0, Nil) \in Call
        /\ To("DeleteByName", n, Nil, 0, Nil).op = "DeleteByName"
    BY ToType, BoundAssumption DEF Methods, Login, To
  <2>3. QED
    BY <2>1, <2>2, DeleteLookupType DEF Key, WithName
<1>2. CASE DeleteById(r)
  <2>1. PICK i \in 0..MaxId :
          DeleteLookup(r, To("DeleteById", Nil, Nil, i, Nil), i, WithId(i))
    BY <1>2 DEF DeleteById
  <2>2. /\ To("DeleteById", Nil, Nil, i, Nil) \in Call
        /\ To("DeleteById", Nil, Nil, i, Nil).op = "DeleteById"
    BY ToType DEF Methods, To
  <2>3. QED
    BY <2>1, <2>2, DeleteLookupType DEF Key, WithId
<1>3. CASE DeleteRow(r)
  <2>1. /\ \E e \in Replies : Answer(r, Nil, e)
        /\ rows' \subseteq rows
        /\ UNCHANGED <<serial, cache, call, job>>
    BY <1>3 DEF DeleteRow, Replies
  <2>2. QED
    BY <1>0, <2>1, StepType DEF TypeOK
<1>4. QED
  BY <1>1, <1>2, <1>3

\* The goroutines of the cache, and the end of the process.

LEMMA CacheWriteType ==
    ASSUME TypeInv, NEW w \in Worker, CacheWrite(w)
    PROVE  TypeInv'
<1>0. TypeOK
  BY DEF TypeInv
<1>1. job[w] \in [kind : {"update", "clear"}, next : 1..3, user : User]
  BY <1>0 DEF TypeOK, Job, CacheWrite
<1>2. job' \in [Worker -> Job]
  BY <1>0, <1>1 DEF TypeOK, Job, CacheWrite
<1>3. Cached(job[w].user) \in User
  BY <1>1, BoundAssumption DEF Cached, User
<1>4. cache' \in [Key -> User \cup {Nil}]
  BY <1>0, <1>3 DEF TypeOK, CacheWrite
<1>5. QED
  BY <1>2, <1>4 DEF TypeInv, TypeOK, Held, CacheWrite, table

LEMMA DiesType == ASSUME TypeInv, ProcessDies PROVE TypeInv'
<1>1. NoCall \in Call
  BY ToType, BoundAssumption DEF NoCall, Methods
<1>2. QED
  BY <1>1 DEF TypeInv, TypeOK, Held, ProcessDies, table, Stages, Replies, Job

LEMMA StutterType == ASSUME TypeInv, UNCHANGED vars PROVE TypeInv'
  BY DEF TypeInv, TypeOK, Held, vars

\* The invariant with what every request holds, for the theorems below.
THEOREM TypeInvariant == Spec => []TypeInv
<1>1. Init => TypeInv
  BY InitTypeInv
<1>2. ASSUME TypeInv, [Next]_vars PROVE TypeInv'
  <2>1. CASE \E r \in Request : Step(r)
    BY <1>2, <2>1, CreateType, AuthenticateType, ReadType, UpdateType, DeleteType
    DEF Step
  <2>2. CASE \E w \in Worker : CacheWrite(w)
    BY <1>2, <2>2, CacheWriteType
  <2>3. CASE ProcessDies
    BY <1>2, <2>3, DiesType
  <2>4. CASE UNCHANGED vars
    BY <1>2, <2>4, StutterType
  <2>5. QED
    BY <1>2, <2>1, <2>2, <2>3, <2>4 DEF Next
<1>3. QED
  BY <1>1, <1>2, PTL DEF Spec

\* Every variable of UserDB keeps its type: no method stores a user without a
\* name, hands out an id beyond the sequence, or leaves a goroutine past its
\* third key.
THEOREM TypeCorrect == Spec => []TypeOK
<1>1. TypeInv => TypeOK
  BY DEF TypeInv
<1>2. QED
  BY <1>1, TypeInvariant, PTL

-----------------------------------------------------------------------------
(* The methods do what UserRegistry promises                               *)

\* The variables that the refinement mapping computes.
Open   == {r \in Request : stage[r] # "done"}
Acted  == {r \in Request : stage[r] = "readback"}
Shown  == [r \in Request |-> IF stage[r] = "done" THEN user[r] ELSE Nil]

\* The promises, method by method and answer by answer.
LEMMA Truths ==
    ASSUME NEW c, NEW did, NEW u, NEW e
    PROVE  /\ e \notin {"ok", "ErrUserExists", "ErrNoUser", "ErrPassMismatch"} =>
                  Registry!Truthful(c, did, u, e)
           /\ c.op = "Authenticate" => Registry!Truthful(c, did, u, "ErrPassMismatch")
           /\ c.op \notin {"Create", "Update", "UpdateUserPassword"} /\ ~ did =>
                  Registry!Truthful(c, did, u, "ErrNoUser")
           /\ c.op = "Create" /\ ~ did /\ CacheActive =>
                  Registry!Truthful(c, did, u, "ErrUserExists")
           /\ c.op = "Create" /\ ~ did /\ (\E row \in rows : c.name = row.name \/ c.email = row.email) =>
                  Registry!Truthful(c, did, u, "ErrUserExists")
           /\ c.op \notin {"Create", "Authenticate"} /\ (c.op \in Registry!Writes => did) =>
                  Registry!Truthful(c, did, u, "ok")
           /\ c.op = "Authenticate" /\ (\E row \in rows : u.id = row.id /\ row.password = c.password) =>
                  Registry!Truthful(c, did, u, "ok")
           /\ c.op = "Create" /\ did /\ (\E row \in rows' : u.id = row.id /\ row.name = c.name) =>
                  Registry!Truthful(c, did, u, "ok")
<1>1. e \notin {"ok", "ErrUserExists", "ErrNoUser", "ErrPassMismatch"} =>
          Registry!Truthful(c, did, u, e)
  BY DEF Registry!Truthful
<1>2. c.op = "Authenticate" => Registry!Truthful(c, did, u, "ErrPassMismatch")
  BY DEF Registry!Truthful
<1>3. c.op \notin {"Create", "Update", "UpdateUserPassword"} /\ ~ did =>
          Registry!Truthful(c, did, u, "ErrNoUser")
  BY DEF Registry!Truthful
<1>4. /\ c.op = "Create" /\ ~ did /\ CacheActive =>
             Registry!Truthful(c, did, u, "ErrUserExists")
      /\ c.op = "Create" /\ ~ did /\ (\E row \in rows : c.name = row.name \/ c.email = row.email) =>
             Registry!Truthful(c, did, u, "ErrUserExists")
  BY DEF Registry!Truthful, Registry!Known
<1>5. /\ c.op \notin {"Create", "Authenticate"} /\ (c.op \in Registry!Writes => did) =>
             Registry!Truthful(c, did, u, "ok")
      /\ c.op = "Authenticate" /\ (\E row \in rows : u.id = row.id /\ row.password = c.password) =>
             Registry!Truthful(c, did, u, "ok")
      /\ c.op = "Create" /\ did /\ (\E row \in rows' : u.id = row.id /\ row.name = c.name) =>
             Registry!Truthful(c, did, u, "ok")
  BY DEF Registry!Truthful, Registry!Writes
<1>6. QED
  BY <1>1, <1>2, <1>3, <1>4, <1>5

\* The effect that a step has, if any, and the answer it gives, if any, make it
\* a step of the registry.
LEMMA Promised ==
    ASSUME TypeOK, NEW r \in Request, NEW did \in BOOLEAN,
           call' \in [Request -> Call], \A q \in Request : q # r => call'[q] = call[q],
           stage[r] # "done" => call'[r] = call[r],
           ~ did => rows' = rows,
           did => stage[r] # "readback" /\ Registry!Effect(call'[r], rows, rows'),
           \/ \E u \in User \cup {Nil}, e \in Replies :
                Answer(r, u, e) /\ Registry!Truthful(call'[r], stage[r] = "readback" \/ did, u, e)
           \/ \E s \in Stages \ {"done"}, u \in User \cup {Nil} :
                Goto(r, s, u) /\ (s = "readback" <=> stage[r] = "readback" \/ did)
    PROVE  Registry!Step(r)
<1> DEFINE acts == IF did THEN {r} ELSE {}
<1>1. acts \in {{}, {r} \ Acted}
  BY DEF Acted
<1>2. IF acts = {} THEN rows' = rows ELSE Registry!Effect(call'[r], rows, rows')
  OBVIOUS
<1>3. (r \in Acted \cup acts) = (stage[r] = "readback" \/ did)
  BY DEF Acted
<1>4. CASE \E u \in User \cup {Nil}, e \in Replies :
             Answer(r, u, e) /\ Registry!Truthful(call'[r], stage[r] = "readback" \/ did, u, e)
  <2>1. PICK u \in User \cup {Nil}, e \in Replies :
           Answer(r, u, e) /\ Registry!Truthful(call'[r], r \in Acted \cup acts, u, e)
    BY <1>3, <1>4
  <2>2. /\ stage' = [stage EXCEPT ![r] = "done"] /\ user' = [user EXCEPT ![r] = u]
        /\ reply' = [reply EXCEPT ![r] = e]
    BY <2>1 DEF Answer
  <2>3. /\ Shown' = [Shown EXCEPT ![r] = u] /\ Shown' \in [Request -> User \cup {Nil}]
        /\ reply' \in [Request -> Replies] /\ Shown'[r] = u /\ reply'[r] = e
        /\ \A q \in Request \ {r} : Shown'[q] = Shown[q] /\ reply'[q] = reply[q]
    BY <2>2 DEF TypeOK, Shown
  <2>4. Open' = Open \ {r} /\ Acted' = Acted \ {r}
    BY <2>2 DEF TypeOK, Open, Acted
  <2> HIDE DEF acts
  <2>5. QED
    BY <1>1, <1>2, <2>1, <2>3, <2>4 DEF Registry!Step, Open, Acted, Shown
<1>5. CASE \E s \in Stages \ {"done"}, u \in User \cup {Nil} :
             Goto(r, s, u) /\ (s = "readback" <=> stage[r] = "readback" \/ did)
  <2>1. PICK s \in Stages \ {"done"}, u \in User \cup {Nil} :
           Goto(r, s, u) /\ (s = "readback" <=> stage[r] = "readback" \/ did)
    BY <1>5
  <2>2. /\ stage' = [stage EXCEPT ![r] = s] /\ user' = [user EXCEPT ![r] = u]
        /\ reply' = [reply EXCEPT ![r] = "none"]
    BY <2>1 DEF Goto
  <2>3. /\ Shown' = [Shown EXCEPT ![r] = Nil] /\ Shown' \in [Request -> User \cup {Nil}]
        /\ reply' \in [Request -> Replies] /\ Shown'[r] = Nil /\ reply'[r] = "none"
        /\ \A q \in Request \ {r} : Shown'[q] = Shown[q] /\ reply'[q] = reply[q]
    BY <2>2 DEF TypeOK, Shown, Replies
  <2>4. Open' = Open \cup {r} /\ Acted' = Acted \cup acts
    BY <2>1, <2>2 DEF TypeOK, Open, Acted
  <2> HIDE DEF acts
  <2>5. QED
    BY <1>1, <1>2, <2>3, <2>4 DEF Registry!Step, Open, Acted, Shown
<1>6. QED
  BY <1>4, <1>5

LEMMA Effects ==
    ASSUME NEW c, NEW old, NEW new
    PROVE  /\ c.op = "Create" /\ (\E fresh \in Row : /\ \A row \in old : row.id < fresh.id
                                                     /\ fresh.name = c.name
                                                     /\ fresh.email = c.email
                                                     /\ fresh.password = c.password
                                                     /\ new = old \cup {fresh}) =>
                  Registry!Effect(c, old, new)
           /\ c.op = "DeleteByName" /\ new = {row \in old : row.name # c.name} =>
                  Registry!Effect(c, old, new)
           /\ c.op = "DeleteById" /\ new = {row \in old : row.id # c.id} =>
                  Registry!Effect(c, old, new)
           /\ c.op = "Update" /\ new = {IF row.id = c.id
                                        THEN [row EXCEPT !.name = c.name, !.email = c.email]
                                        ELSE row : row \in old} =>
                  Registry!Effect(c, old, new)
           /\ c.op = "UpdateUserPassword"
                 /\ new = {IF row.id = c.id THEN [row EXCEPT !.password = c.password]
                           ELSE row : row \in old} =>
                  Registry!Effect(c, old, new)
<1>1. c.op = "Create" /\ (\E fresh \in Row : /\ \A row \in old : row.id < fresh.id
                                             /\ fresh.name = c.name
                                             /\ fresh.email = c.email
                                             /\ fresh.password = c.password
                                             /\ new = old \cup {fresh}) =>
          Registry!Effect(c, old, new)
  BY DEF Registry!Effect
<1>2. c.op = "DeleteByName" /\ new = {row \in old : row.name # c.name} =>
          Registry!Effect(c, old, new)
  BY DEF Registry!Effect
<1>3. c.op = "DeleteById" /\ new = {row \in old : row.id # c.id} =>
          Registry!Effect(c, old, new)
  BY DEF Registry!Effect
<1>4. c.op = "Update" /\ new = {IF row.id = c.id
                                THEN [row EXCEPT !.name = c.name, !.email = c.email]
                                ELSE row : row \in old} =>
          Registry!Effect(c, old, new)
  BY DEF Registry!Effect
<1>5. c.op = "UpdateUserPassword"
         /\ new = {IF row.id = c.id THEN [row EXCEPT !.password = c.password]
                   ELSE row : row \in old} =>
          Registry!Effect(c, old, new)
  BY DEF Registry!Effect
<1>6. QED
  BY <1>1, <1>2, <1>3, <1>4, <1>5

\* The sequence is ahead of every id, so the account that an INSERT adds is one
\* that was not there.
IdsInv == \A row \in rows : row.id <= serial

\* With the cache on no Create gets past its first look-up, which finds the name
\* in the cache or panics: nothing is read back through the cache.
StoppedInv == CacheActive => \A r \in Request : stage[r] \in {"done", "verify", "delete"}

LEMMA StoppedStep ==
    ASSUME TypeInv, StoppedInv, [Next]_vars
    PROVE  StoppedInv'
<1>0. TypeOK
  BY DEF TypeInv
<1> SUFFICES ASSUME CacheActive, NEW q \in Request
             PROVE  stage'[q] \in {"done", "verify", "delete"}
  BY DEF StoppedInv
<1>1. \A r \in Request : stage[r] \in {"done", "verify", "delete"}
  BY DEF StoppedInv
<1>2. ASSUME NEW r \in Request, Step(r) PROVE stage'[q] \in {"done", "verify", "delete"}
  <2>1. ~ (CreateByEmail(r) \/ CreateInsert(r) \/ CreateReadback(r))
    BY <1>1 DEF CreateByEmail, CreateInsert, CreateReadback
  <2>2. \/ stage' = [stage EXCEPT ![r] = "done"]
        \/ stage' = [stage EXCEPT ![r] = "verify"]
        \/ stage' = [stage EXCEPT ![r] = "delete"]
    BY <1>2, <2>1 DEF Step, CreateByName, AuthenticateLookup, AuthenticateVerify,
       GetByName, GetByEmail, GetById, Get, GetAll, Update, UpdateUserPassword,
       Apply, DeleteByName, DeleteById, DeleteLookup, DeleteRow, Answer, Goto, Lookup
  <2>3. QED
    BY <1>0, <1>1, <2>2 DEF TypeOK
<1>3. CASE (\E w \in Worker : CacheWrite(w)) \/ ProcessDies \/ UNCHANGED vars
  BY <1>1, <1>3 DEF CacheWrite, ProcessDies, vars
<1>4. QED
  BY <1>2, <1>3 DEF Next

\* What a look-up answers without the cache: the view of a row, or nothing.
LEMMA LookupFinds ==
    ASSUME ~ CacheActive, NEW key, NEW found, NEW u \in Lookup(key, found)
    PROVE  u = Nil \/ \E row \in found : u = View(row)
  BY DEF Lookup, Select

LEMMA CreatePromised ==
    ASSUME TypeInv, IdsInv, StoppedInv, NEW r \in Request,
           CreateByName(r) \/ CreateByEmail(r) \/ CreateInsert(r) \/ CreateReadback(r)
    PROVE  Registry!Step(r)
<1>0. TypeOK /\ Held(r) /\ TypeInv'
  BY CreateType DEF TypeInv
<1>a. call' \in [Request -> Call] /\ Nil \in User \cup {Nil}
      /\ {"ErrUserExists", "ErrCreateUser", "ok", "panic",
          "username cannot contain spaces"} \subseteq Replies
      /\ {"email", "insert", "readback"} \subseteq Stages \ {"done"}
  BY <1>0 DEF TypeInv, TypeOK, Replies, Stages
<1>b. Registry!Truthful(call'[r], FALSE, Nil, "panic")
      /\ Registry!Truthful(call'[r], TRUE, Nil, "panic")
  BY Truths
<1>1. CASE CreateByName(r)
  <2>1. PICK n \in Name, e \in Email, p \in Password :
          /\ Ask(r, To("Create", n, e, 0, p))
          /\ \/ Answer(r, Nil, "panic")
             \/ \E u \in Lookup(n, WithName(n)) :
                  IF u = Nil THEN Goto(r, "email", Nil) ELSE Answer(r, Nil, "ErrUserExists")
          /\ rows' = rows
    BY <1>1 DEF CreateByName, table
  <2>2. /\ stage[r] = "done" /\ call'[r] = To("Create", n, e, 0, p)
        /\ \A q \in Request : q # r => call'[q] = call[q]
    BY <1>0, <2>1 DEF Ask, TypeOK
  <2>3. call'[r].op = "Create" /\ call'[r].name = n
    BY <2>2 DEF To
  <2>4. \/ Goto(r, "email", Nil) \/ Answer(r, Nil, "panic")
        \/ Answer(r, Nil, "ErrUserExists") /\ (CacheActive \/ \E row \in rows : row.name = n)
    <3>1. \A u \in Lookup(n, WithName(n)) :
            u = Nil \/ CacheActive \/ \E row \in rows : row.name = n
      BY LookupFinds DEF WithName
    <3>2. QED
      BY <2>1, <3>1
  <2>5. CacheActive \/ (\E row \in rows : row.name = n) =>
           Registry!Truthful(call'[r], FALSE, Nil, "ErrUserExists")
    BY <2>3, Truths
  <2>6. QED
    BY <1>0, <1>a, <1>b, <2>1, <2>2, <2>4, <2>5, Promised
<1>2. CASE CreateByEmail(r)
  <2>1. /\ stage[r] = "email" /\ call' = call /\ rows' = rows
        /\ \/ \E u \in Lookup(call[r].email, WithEmail(call[r].email)) :
                u # Nil /\ Answer(r, Nil, "ErrUserExists")
           \/ Answer(r, Nil, "panic")
           \/ Answer(r, Nil, "username cannot contain spaces")
           \/ Answer(r, Nil, "ErrCreateUser")
           \/ Goto(r, "insert", Nil)
    BY <1>2 DEF CreateByEmail, table
  <2>2. call'[r].op = "Create"
    BY <1>0, <2>1 DEF Held
  <2>3. /\ Registry!Truthful(call'[r], FALSE, Nil, "username cannot contain spaces")
        /\ Registry!Truthful(call'[r], FALSE, Nil, "ErrCreateUser")
    BY Truths
  <2>4. ASSUME NEW u \in Lookup(call[r].email, WithEmail(call[r].email)), u # Nil
        PROVE  Registry!Truthful(call'[r], FALSE, Nil, "ErrUserExists")
    <3>0. ~ CacheActive
      BY <2>1 DEF StoppedInv
    <3>1. PICK row \in WithEmail(call[r].email) : u = View(row)
      BY <2>4, <3>0, LookupFinds
    <3>2. row \in rows /\ row.email = call'[r].email
      BY <2>1, <3>1 DEF WithEmail
    <3>3. QED
      BY <2>2, <3>2, Truths
  <2>5. QED
    BY <1>0, <1>a, <1>b, <2>1, <2>3, <2>4, Promised
<1>3. CASE CreateInsert(r)
  <2> DEFINE new == [id |-> serial + 1, name |-> call[r].name,
                     email |-> call[r].email, password |-> call[r].password]
  <2>1. /\ stage[r] = "insert" /\ call' = call
        /\ \/ /\ serial # MaxId /\ rows' = rows \cup {new}
              /\ Goto(r, "readback", Nil) \/ Answer(r, Nil, "ErrCreateUser")
           \/ rows' = rows /\ Answer(r, Nil, "ErrCreateUser")
    BY <1>3 DEF CreateInsert, Exhausted, table
  <2>2. call'[r].op = "Create" /\ Registry!Truthful(call'[r], TRUE, Nil, "ErrCreateUser")
        /\ Registry!Truthful(call'[r], FALSE, Nil, "ErrCreateUser")
    BY <1>0, <2>1, Truths DEF Held
  <2>3. CASE rows' = rows /\ Answer(r, Nil, "ErrCreateUser")
    BY <1>0, <1>a, <2>1, <2>2, <2>3, Promised
  <2>4. CASE /\ serial # MaxId /\ rows' = rows \cup {new}
             /\ Goto(r, "readback", Nil) \/ Answer(r, Nil, "ErrCreateUser")
    <3>1. /\ call[r].name \in Name /\ call[r].email \in Email /\ call[r].password \in Password
          /\ serial + 1 \in Id
      BY <1>0, <2>1, <2>4, BoundAssumption DEF Held, TypeOK, Id
    <3>2. new \in Row
      BY <3>1 DEF Row
    <3>3. \A row \in rows : row.id < serial + 1
      BY <1>0, BoundAssumption DEF IdsInv, TypeOK, Row, Id
    <3>4. /\ new.id = serial + 1 /\ new.name = call[r].name
          /\ new.email = call[r].email /\ new.password = call[r].password
      OBVIOUS
    <3> HIDE DEF new
    <3>5. Registry!Effect(call'[r], rows, rows')
      BY <2>1, <2>2, <2>4, <3>2, <3>3, <3>4, Effects
    <3>6. QED
      BY <1>0, <1>a, <2>1, <2>2, <2>4, <3>5, Promised
  <2>5. QED
    BY <2>1, <2>3, <2>4
<1>4. CASE CreateReadback(r)
  <2>1. /\ stage[r] = "readback" /\ call' = call /\ rows' = rows
        /\ \/ Answer(r, Nil, "panic")
           \/ \E u \in Lookup(call[r].name, WithName(call[r].name)) :
                IF u = Nil THEN Answer(r, Nil, "ErrCreateUser") ELSE Answer(r, u, "ok")
    BY <1>4 DEF CreateReadback, table
  <2>0. ~ CacheActive
    BY <2>1 DEF StoppedInv
  <2>a. CASE Answer(r, Nil, "panic")
    BY <1>0, <1>a, <1>b, <2>1, <2>a, Promised
  <2>2. call'[r].op = "Create" /\ Registry!Truthful(call'[r], TRUE, Nil, "ErrCreateUser")
    BY <1>0, <2>1, Truths DEF Held
  <2>3. ASSUME NEW u \in Lookup(call[r].name, WithName(call[r].name)), u = Nil,
               Answer(r, Nil, "ErrCreateUser")
        PROVE  Registry!Step(r)
    BY <1>0, <1>a, <2>1, <2>2, <2>3, Promised
  <2>4. ASSUME NEW u \in Lookup(call[r].name, WithName(call[r].name)), u # Nil,
               Answer(r, u, "ok")
        PROVE  Registry!Step(r)
    <3>1. PICK row \in rows : u = View(row) /\ row.name = call[r].name
      BY <2>0, <2>4, LookupFinds DEF WithName
    <3>2. u.id = row.id
      BY <3>1 DEF View
    <3>3. u \in User
      BY <1>0, <3>1, BoundAssumption DEF TypeOK, View, User, Row, Id
    <3>4. Registry!Truthful(call'[r], TRUE, u, "ok")
      BY <2>1, <2>2, <3>1, <3>2, Truths
    <3>5. QED
      BY <1>0, <1>a, <2>1, <2>4, <3>3, <3>4, Promised
  <2>5. QED
    BY <2>1, <2>a, <2>3, <2>4
<1>5. QED
  BY <1>1, <1>2, <1>3, <1>4

LEMMA LoginPromised ==
    ASSUME TypeInv, NEW r \in Request,
           AuthenticateLookup(r) \/ AuthenticateVerify(r)
    PROVE  Registry!Step(r)
<1>0. TypeOK /\ Held(r) /\ call' \in [Request -> Call]
  BY AuthenticateType DEF TypeInv, TypeOK
<1>a. /\ Nil \in User \cup {Nil} /\ "verify" \in Stages \ {"done"}
      /\ {"ErrNoUser", "ErrPassMismatch", "ok", "panic"} \subseteq Replies
  BY DEF Replies, Stages
<1>1. CASE AuthenticateLookup(r)
  <2>1. PICK l \in Login, p \in Password :
          /\ Ask(r, To("Authenticate", l, Nil, 0, p))
          /\ \/ Answer(r, Nil, "panic")
             \/ \E u \in Lookup(l, IF l \in At THEN WithEmail(l) ELSE WithName(l)) :
                  IF u = Nil THEN Answer(r, Nil, "ErrNoUser") ELSE Goto(r, "verify", u)
          /\ rows' = rows
    BY <1>1 DEF AuthenticateLookup, table
  <2>2. /\ stage[r] = "done" /\ call'[r] = To("Authenticate", l, Nil, 0, p)
        /\ \A q \in Request : q # r => call'[q] = call[q]
    BY <1>0, <2>1 DEF Ask, TypeOK
  <2>3. call'[r].op = "Authenticate"
    BY <2>2 DEF To
  <2>4. Lookup(l, IF l \in At THEN WithEmail(l) ELSE WithName(l)) \subseteq User \cup {Nil}
    BY <1>0, LookupType DEF WithEmail, WithName, Login, Key
  <2>5. \/ Answer(r, Nil, "panic") \/ Answer(r, Nil, "ErrNoUser")
        \/ \E u \in User \cup {Nil} : Goto(r, "verify", u)
    BY <2>1, <2>4
  <2>6. /\ Registry!Truthful(call'[r], FALSE, Nil, "ErrNoUser")
        /\ Registry!Truthful(call'[r], FALSE, Nil, "panic")
    BY <2>3, Truths
  <2>7. QED
    BY <1>0, <1>a, <2>1, <2>2, <2>5, <2>6, Promised
<1>2. CASE AuthenticateVerify(r)
  <2>1. /\ stage[r] = "verify" /\ call' = call /\ rows' = rows /\ user[r] \in User
        /\ call'[r].op = "Authenticate"
        /\ \/ /\ Answer(r, user[r], "ok")
              /\ \E row \in rows : user[r].id = row.id /\ row.password = call'[r].password
           \/ Answer(r, Nil, "ErrPassMismatch")
    BY <1>0, <1>2 DEF AuthenticateVerify, WithId, Held, table
  <2>2. Registry!Truthful(call'[r], FALSE, Nil, "ErrPassMismatch")
    BY <2>1, Truths
  <2>3. (\E row \in rows : user[r].id = row.id /\ row.password = call'[r].password) =>
           Registry!Truthful(call'[r], FALSE, user[r], "ok")
    BY <2>1, Truths
  <2>4. QED
    BY <1>0, <1>a, <2>1, <2>2, <2>3, Promised
<1>3. QED
  BY <1>1, <1>2

LEMMA GetPromised ==
    ASSUME TypeInv, NEW r \in Request, NEW c \in Call, NEW key \in Key,
           NEW found, found \subseteq rows, Get(r, c, key, found),
           c.op \in {"GetByName", "GetByEmail", "GetById"}
    PROVE  Registry!Step(r)
<1>0. TypeOK
  BY DEF TypeInv
<1>1. /\ stage[r] = "done" /\ call' \in [Request -> Call] /\ call'[r] = c
      /\ \A q \in Request : q # r => call'[q] = call[q]
  BY <1>0, AskType DEF Get
<1>2. PICK u \in User \cup {Nil}, e \in {"ErrNoUser", "ok", "panic"} :
         Answer(r, u, e) /\ rows' = rows
  <2>1. Lookup(key, found) \subseteq User \cup {Nil}
    BY <1>0, LookupType
  <2>2. QED
    BY <2>1 DEF Get, table
<1>3. {"ErrNoUser", "ok", "panic"} \subseteq Replies
  BY DEF Replies
<1>4. Registry!Truthful(c, FALSE, u, e)
  <2>1. c.op \notin Registry!Writes
    BY DEF Registry!Writes
  <2>2. QED
    BY <2>1, Truths
<1>5. QED
  BY <1>0, <1>1, <1>2, <1>3, <1>4, Promised

LEMMA ReadPromised ==
    ASSUME TypeInv, NEW r \in Request,
           GetByName(r) \/ GetByEmail(r) \/ GetById(r) \/ GetAll(r)
    PROVE  Registry!Step(r)
<1>0. TypeOK
  BY DEF TypeInv
<1>1. CASE GetByName(r)
  <2>1. PICK n \in Name : Get(r, To("GetByName", n, Nil, 0, Nil), n, WithName(n))
    BY <1>1 DEF GetByName
  <2>2. /\ To("GetByName", n, Nil, 0, Nil) \in Call
        /\ To("GetByName", n, Nil, 0, Nil).op = "GetByName"
    BY ToType, BoundAssumption DEF Methods, Login, To
  <2>3. QED
    BY <2>1, <2>2, GetPromised DEF Key, WithName
<1>2. CASE GetByEmail(r)
  <2>1. PICK e \in Email : Get(r, To("GetByEmail", Nil, e, 0, Nil), e, WithEmail(e))
    BY <1>2 DEF GetByEmail
  <2>2. /\ To("GetByEmail", Nil, e, 0, Nil) \in Call
        /\ To("GetByEmail", Nil, e, 0, Nil).op = "GetByEmail"
    BY ToType, BoundAssumption DEF Methods, To
  <2>3. QED
    BY <2>1, <2>2, GetPromised DEF Key, WithEmail
<1>3. CASE GetById(r)
  <2>1. PICK i \in 0..MaxId : Get(r, To("GetById", Nil, Nil, i, Nil), i, WithId(i))
    BY <1>3 DEF GetById
  <2>2. /\ To("GetById", Nil, Nil, i, Nil) \in Call
        /\ To("GetById", Nil, Nil, i, Nil).op = "GetById"
    BY ToType DEF Methods, To
  <2>3. QED
    BY <2>1, <2>2, GetPromised DEF Key, WithId
<1>4. CASE GetAll(r)
  <2>1. NoCall \in Call /\ NoCall.op = "GetAll"
    BY ToType, BoundAssumption DEF NoCall, Methods, To
  <2>2. /\ stage[r] = "done" /\ call' \in [Request -> Call] /\ call'[r] = NoCall
        /\ \A q \in Request : q # r => call'[q] = call[q]
    BY <1>0, <1>4, <2>1, AskType DEF GetAll
  <2>3. rows' = rows /\ (Answer(r, Nil, "ok") \/ Answer(r, Nil, "ErrGetAll"))
    BY <1>4 DEF GetAll, table
  <2>4. {"ErrGetAll", "ok"} \subseteq Replies /\ "GetAll" \notin Registry!Writes
    BY DEF Replies, Registry!Writes
  <2>5. Registry!Truthful(NoCall, FALSE, Nil, "ok") /\ Registry!Truthful(NoCall, FALSE, Nil, "ErrGetAll")
    BY <2>1, <2>4, Truths
  <2>6. QED
    BY <1>0, <2>2, <2>3, <2>4, <2>5, Promised
<1>5. QED
  BY <1>1, <1>2, <1>3, <1>4

\* An UPDATE that changes the accounts as its call says, or does nothing.
LEMMA ApplyPromised ==
    ASSUME TypeInv, NEW r \in Request, NEW c \in Call, Ask(r, c), NEW u \in User,
           NEW newRows, Apply(r, newRows, u, "ErrDBUpdate"),
           c.op \in {"Update", "UpdateUserPassword"}, Registry!Effect(c, rows, newRows)
    PROVE  Registry!Step(r)
<1>0. TypeOK
  BY DEF TypeInv
<1>1. /\ stage[r] = "done" /\ call' \in [Request -> Call] /\ call'[r] = c
      /\ \A q \in Request : q # r => call'[q] = call[q]
  BY <1>0, AskType
<1>2. {"ErrDBUpdate", "ok"} \subseteq Replies
  BY DEF Replies
<1>3. /\ Registry!Truthful(c, TRUE, u, "ok")
      /\ \A did \in BOOLEAN : Registry!Truthful(c, did, Nil, "ErrDBUpdate")
  BY Truths
<1>4. \/ rows' = newRows /\ Answer(r, u, "ok")
      \/ rows' = newRows /\ Answer(r, Nil, "ErrDBUpdate")
      \/ rows' = rows /\ Answer(r, Nil, "ErrDBUpdate")
  BY DEF Apply
<1>5. CASE rows' = newRows /\ (Answer(r, u, "ok") \/ Answer(r, Nil, "ErrDBUpdate"))
  BY <1>0, <1>1, <1>2, <1>3, <1>5, Promised
<1>6. CASE rows' = rows /\ Answer(r, Nil, "ErrDBUpdate")
  BY <1>0, <1>1, <1>2, <1>3, <1>6, Promised
<1>7. QED
  BY <1>4, <1>5, <1>6

LEMMA UpdatePromised ==
    ASSUME TypeInv, NEW r \in Request, Update(r) \/ UpdateUserPassword(r)
    PROVE  Registry!Step(r)
<1>0. TypeOK
  BY DEF TypeInv
<1>1. CASE Update(r)
  <2>1. PICK u \in User :
          /\ Ask(r, To("Update", u.name, u.email, u.id, Nil))
          /\ Apply(r, {IF row.id = u.id
                       THEN [row EXCEPT !.name = u.name, !.email = u.email]
                       ELSE row : row \in rows}, u, "ErrDBUpdate")
    BY <1>1 DEF Update
  <2> DEFINE c == To("Update", u.name, u.email, u.id, Nil)
  <2>2. c \in Call /\ c.op = "Update" /\ c.name = u.name /\ c.email = u.email /\ c.id = u.id
    BY ToType DEF User, Login, Methods, To
  <2> HIDE DEF c
  <2>3. QED
    BY <2>1, <2>2, Effects, ApplyPromised DEF c
<1>2. CASE UpdateUserPassword(r)
  <2>1. PICK u \in User, p \in Password :
          /\ Ask(r, To("UpdateUserPassword", u.name, u.email, u.id, p))
          /\ IF p \in TooLong
             THEN Answer(r, Nil, "ErrUpdateUser") /\ rows' = rows
             ELSE Apply(r, {IF row.id = u.id THEN [row EXCEPT !.password = p]
                            ELSE row : row \in rows}, u, "ErrDBUpdate")
    BY <1>2 DEF UpdateUserPassword
  <2> DEFINE c == To("UpdateUserPassword", u.name, u.email, u.id, p)
  <2>2. c \in Call /\ c.op = "UpdateUserPassword" /\ c.id = u.id /\ c.password = p
    BY ToType DEF User, Login, Methods, To
  <2> HIDE DEF c
  <2>3. CASE p \in TooLong
    <3>1. /\ stage[r] = "done" /\ call' \in [Request -> Call] /\ call'[r] = c
          /\ \A q \in Request : q # r => call'[q] = call[q]
      BY <1>0, <2>1, <2>2, AskType DEF c
    <3>2. "ErrUpdateUser" \in Replies /\ Registry!Truthful(c, FALSE, Nil, "ErrUpdateUser")
      BY Truths DEF Replies
    <3>3. QED
      BY <1>0, <2>1, <2>3, <3>1, <3>2, Promised
  <2>4. CASE p \notin TooLong
    BY <2>1, <2>2, <2>4, Effects, ApplyPromised DEF c
  <2>5. QED
    BY <2>3, <2>4
<1>3. QED
  BY <1>1, <1>2

LEMMA DeleteLookupPromised ==
    ASSUME TypeInv, NEW r \in Request, NEW c \in Call, NEW key, NEW found,
           DeleteLookup(r, c, key, found), c.op \in {"DeleteByName", "DeleteById"}
    PROVE  Registry!Step(r)
<1>0. TypeOK
  BY DEF TypeInv
<1>1. /\ stage[r] = "done" /\ call' \in [Request -> Call] /\ call'[r] = c
      /\ \A q \in Request : q # r => call'[q] = call[q]
  BY <1>0, AskType DEF DeleteLookup
<1>2. /\ \/ Answer(r, Nil, "panic") \/ Answer(r, Nil, "ErrNoUser")
         \/ Goto(r, "delete", Nil)
      /\ rows' = rows
  BY DEF DeleteLookup, table
<1>3. {"ErrNoUser", "panic"} \subseteq Replies /\ "delete" \in Stages \ {"done"}
  BY DEF Replies, Stages
<1>4. Registry!Truthful(c, FALSE, Nil, "ErrNoUser") /\ Registry!Truthful(c, FALSE, Nil, "panic")
  BY Truths
<1>5. QED
  BY <1>0, <1>1, <1>2, <1>3, <1>4, Promised

LEMMA DeletePromised ==
    ASSUME TypeInv, NEW r \in Request,
           DeleteByName(r) \/ DeleteById(r) \/ DeleteRow(r)
    PROVE  Registry!Step(r)
<1>0. TypeOK /\ Held(r)
  BY DEF TypeInv
<1>1. CASE DeleteByName(r)
  <2>1. PICK n \in Name :
          DeleteLookup(r, To("DeleteByName", n, Nil, 0, Nil), n, WithName(n))
    BY <1>1 DEF DeleteByName
  <2>2. /\ To("DeleteByName", n, Nil, 0, Nil) \in Call
        /\ To("DeleteByName", n, Nil, 0, Nil).op = "DeleteByName"
    BY ToType, BoundAssumption DEF Methods, Login, To
  <2>3. QED
    BY <2>1, <2>2, DeleteLookupPromised
<1>2. CASE DeleteById(r)
  <2>1. PICK i \in 0..MaxId :
          DeleteLookup(r, To("DeleteById", Nil, Nil, i, Nil), i, WithId(i))
    BY <1>2 DEF DeleteById
  <2>2. /\ To("DeleteById", Nil, Nil, i, Nil) \in Call
        /\ To("DeleteById", Nil, Nil, i, Nil).op = "DeleteById"
    BY ToType DEF Methods, To
  <2>3. QED
    BY <2>1, <2>2, DeleteLookupPromised
<1>3. CASE DeleteRow(r)
  <2> DEFINE left == rows \ (IF call[r].op = "DeleteByName" THEN WithName(call[r].name)
                                                            ELSE WithId(call[r].id))
  <2>1. /\ stage[r] = "delete" /\ call' = call
        /\ \/ rows' = left /\ Answer(r, Nil, "ok")
           \/ rows' \in {rows, left} /\ Answer(r, Nil, "ErrDBDelete")
    BY <1>3 DEF DeleteRow
  <2>2. call'[r].op \in {"DeleteByName", "DeleteById"} /\ call' \in [Request -> Call]
    BY <1>0, <2>1 DEF Held, TypeOK
  <2>3. Registry!Effect(call'[r], rows, left)
    <3>1. CASE call[r].op = "DeleteByName"
      <4>1. left = {row \in rows : row.name # call'[r].name}
        BY <2>1, <3>1 DEF WithName
      <4>2. QED
        BY <2>1, <3>1, <4>1, Effects
    <3>2. CASE call[r].op = "DeleteById"
      <4>1. left = {row \in rows : row.id # call'[r].id}
        BY <2>1, <3>2 DEF WithId
      <4>2. QED
        BY <2>1, <3>2, <4>1, Effects
    <3>3. QED
      BY <2>1, <2>2, <3>1, <3>2
  <2>4. /\ Registry!Truthful(call'[r], TRUE, Nil, "ok")
        /\ \A did \in BOOLEAN : Registry!Truthful(call'[r], did, Nil, "ErrDBDelete")
    BY <2>2, Truths
  <2>5. {"ok", "ErrDBDelete"} \subseteq Replies
    BY DEF Replies
  <2> HIDE DEF left
  <2>6. CASE rows' = left /\ (Answer(r, Nil, "ok") \/ Answer(r, Nil, "ErrDBDelete"))
    BY <1>0, <2>1, <2>2, <2>3, <2>4, <2>5, <2>6, Promised
  <2>7. CASE rows' = rows /\ Answer(r, Nil, "ErrDBDelete")
    BY <1>0, <2>1, <2>2, <2>4, <2>5, <2>7, Promised
  <2>8. QED
    BY <2>1, <2>6, <2>7
<1>4. QED
  BY <1>1, <1>2, <1>3

\* Only an INSERT adds an id, and it moves the sequence along.
LEMMA IdsKept ==
    ASSUME TypeInv, IdsInv, [Next]_vars
    PROVE  IdsInv'
<1>0. TypeOK /\ serial \in Nat /\ \A row \in rows : row.id \in Nat /\ row \in Row
  BY BoundAssumption DEF TypeInv, TypeOK, Row, Id
<1>1. ASSUME serial' = serial, \A row \in rows' : \E old \in rows : row.id = old.id
      PROVE  IdsInv'
  BY <1>1 DEF IdsInv
<1>2. ASSUME NEW r \in Request, CreateInsert(r) PROVE IdsInv'
  <2>1. \/ rows' = rows /\ serial' = serial
        \/ serial' = serial + 1 /\ \A row \in rows' : row \in rows \/ row.id = serial + 1
    BY <1>2 DEF CreateInsert, table
  <2>2. QED
    BY <1>0, <2>1 DEF IdsInv
<1>3. ASSUME NEW r \in Request, Update(r) PROVE IdsInv'
  <2>1. PICK u \in User :
          /\ serial' = serial
          /\ \/ rows' = rows
             \/ rows' = {IF row.id = u.id
                         THEN [row EXCEPT !.name = u.name, !.email = u.email]
                         ELSE row : row \in rows}
    BY <1>3 DEF Update, Apply
  <2>2. \A row \in Row : [row EXCEPT !.name = u.name, !.email = u.email].id = row.id
    BY DEF Row
  <2>3. ASSUME NEW row \in rows' PROVE \E old \in rows : row.id = old.id
    <3>1. CASE rows' = rows
      BY <2>3, <3>1
    <3>2. CASE rows' # rows
      <4>1. PICK old \in rows : row = IF old.id = u.id
                             THEN [old EXCEPT !.name = u.name, !.email = u.email]
                             ELSE old
        BY <2>1, <2>3, <3>2
      <4>2. row.id = old.id
        BY <1>0, <2>2, <4>1
      <4>3. QED
        BY <4>2
    <3>3. QED
      BY <3>1, <3>2
  <2>4. QED
    BY <1>1, <2>1, <2>3
<1>4. ASSUME NEW r \in Request, UpdateUserPassword(r) PROVE IdsInv'
  <2>1. PICK u \in User, p \in Password :
          /\ serial' = serial
          /\ \/ rows' = rows
             \/ rows' = {IF row.id = u.id THEN [row EXCEPT !.password = p]
                         ELSE row : row \in rows}
    BY <1>4 DEF UpdateUserPassword, Apply
  <2>2. \A row \in Row : [row EXCEPT !.password = p].id = row.id
    BY DEF Row
  <2>3. ASSUME NEW row \in rows' PROVE \E old \in rows : row.id = old.id
    <3>1. CASE rows' = rows
      BY <2>3, <3>1
    <3>2. CASE rows' # rows
      <4>1. PICK old \in rows : row = IF old.id = u.id THEN [old EXCEPT !.password = p] ELSE old
        BY <2>1, <2>3, <3>2
      <4>2. row.id = old.id
        BY <1>0, <2>2, <4>1
      <4>3. QED
        BY <4>2
    <3>3. QED
      BY <3>1, <3>2
  <2>4. QED
    BY <1>1, <2>1, <2>3
<1>5. ASSUME NEW r \in Request, Step(r), ~ CreateInsert(r), ~ Update(r), ~ UpdateUserPassword(r)
      PROVE  IdsInv'
  <2>1. serial' = serial /\ rows' \subseteq rows
    BY <1>5 DEF Step, CreateByName, CreateByEmail, CreateReadback, AuthenticateLookup,
       AuthenticateVerify, GetByName, GetByEmail, GetById, Get, GetAll, DeleteByName,
       DeleteById, DeleteLookup, DeleteRow, table
  <2>2. QED
    BY <1>1, <2>1
<1>6. CASE (\E w \in Worker : CacheWrite(w)) \/ ProcessDies \/ UNCHANGED vars
  <2>1. serial' = serial /\ rows' = rows
    BY <1>6 DEF CacheWrite, ProcessDies, table, vars
  <2>2. QED
    BY <1>1, <2>1
<1>7. QED
  BY <1>2, <1>3, <1>4, <1>5, <1>6 DEF Next

LEMMA StepsPromised ==
    ASSUME TypeInv, IdsInv, StoppedInv, [Next]_vars
    PROVE  [Registry!Next]_(Registry!vars)
<1>1. ASSUME NEW r \in Request, Step(r) PROVE Registry!Next
  <2>1. Registry!Step(r)
    BY <1>1, CreatePromised, LoginPromised, ReadPromised, UpdatePromised, DeletePromised DEF Step
  <2>2. QED
    BY <2>1 DEF Registry!Next
<1>2. CASE ProcessDies
  <2>1. /\ Open' = {} /\ Acted' = {} /\ call' = [r \in Request |-> NoCall]
        /\ Shown' = [r \in Request |-> Nil] /\ reply' = [r \in Request |-> "none"]
        /\ rows' = rows
    BY <1>2 DEF ProcessDies, Open, Acted, Shown, table
  <2>2. Registry!Restart
    BY <2>1 DEF Registry!Restart, Open, Acted, Shown
  <2>3. QED
    BY <2>2 DEF Registry!Next
<1>3. CASE (\E w \in Worker : CacheWrite(w)) \/ UNCHANGED vars
  BY <1>3 DEF CacheWrite, table, vars, Registry!vars
<1>4. QED
  BY <1>1, <1>2, <1>3 DEF Next

\* A method of several statements, cut short, interleaved and restarted, changes
\* the accounts at most once while its call is open, and answers what is true:
\* any number of requests, whichever statements fail and whatever the cache
\* holds.
THEOREM Implements == Spec => RefinesRegistry
<1>1. Init => IdsInv /\ StoppedInv
  BY RowsAssumption DEF Init, IdsInv, StoppedInv
<1>2. Init => Registry!Init
  BY DEF Init, Registry!Init
<1>3. TypeInv /\ IdsInv /\ StoppedInv /\ [Next]_vars =>
          IdsInv' /\ StoppedInv' /\ [Registry!Next]_(Registry!vars)
  BY IdsKept, StoppedStep, StepsPromised
<1>4. QED
  BY <1>1, <1>2, <1>3, TypeInvariant, PTL DEF Spec, RefinesRegistry, Registry!Spec
===============================================================================
