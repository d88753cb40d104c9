--------------------------- MODULE UserDBLoginProofs ---------------------------
(***************************************************************************)
(* How many accounts can share a name or an e-mail, and whom Authenticate  *)
(* lets in.                                                                *)
(***************************************************************************)
EXTENDS UserDBProofs

\* Statements do not fail, the key column has the name the code uses, and no
\* account is renamed (no HTTP route calls Update).
Reliable == HasIdColumn /\ "statement" \notin Faults /\ "Update" \notin Exposed

Named(n)   == {row \in rows : row.name = n}
Mailed(e)  == {row \in rows : row.email = e}

\* The requests that have found no account of that name, or e-mail, and have
\* not inserted theirs yet.
Naming(n)  == {r \in Request : stage[r] \in {"email", "insert"} /\ call[r].name = n}
Mailing(e) == {r \in Request : stage[r] = "insert" /\ call[r].email = e}

\* BoundedDuplicates is not inductive: a request past its lookups inserts
\* whatever the table holds by then.  It has to be counted from its lookup on.
DuplicateInv ==
    /\ IsFiniteSet(rows)
    /\ \A n \in Name :
         Cardinality(Named(n)) + Cardinality(Naming(n)) <= Cardinality(Request)
    /\ \A e \in Email :
         Cardinality(Mailed(e)) + Cardinality(Mailing(e)) <= Cardinality(Request)

\* A lookup finds nothing only when there is nothing.
LEMMA NothingFound ==
    ASSUME Reliable, TypeOK, NEW key, NEW found, found \subseteq rows,
           Nil \in Lookup(key, found)
    PROVE  found = {}
<1>1. \A row \in found : View(row) # Nil
  BY NilAssumption, BoundAssumption DEF TypeOK, View, Row, User, Id
<1>2. QED
  BY <1>1 DEF Reliable, Lookup, Select, MayFail

LEMMA Counts ==
    ASSUME DuplicateInv
    PROVE  /\ Cardinality(Request) \in Nat
           /\ \A n : IsFiniteSet(Named(n)) /\ Cardinality(Named(n)) \in Nat
           /\ \A e : IsFiniteSet(Mailed(e)) /\ Cardinality(Mailed(e)) \in Nat
           /\ \A n : IsFiniteSet(Naming(n)) /\ Cardinality(Naming(n)) \in Nat
           /\ \A e : IsFiniteSet(Mailing(e)) /\ Cardinality(Mailing(e)) \in Nat
<1>1. /\ \A n : Named(n) \in SUBSET rows /\ Naming(n) \in SUBSET Request
      /\ \A e : Mailed(e) \in SUBSET rows /\ Mailing(e) \in SUBSET Request
  BY DEF Named, Mailed, Naming, Mailing
<1>2. \A S \in (SUBSET rows) \cup (SUBSET Request) : IsFiniteSet(S) /\ Cardinality(S) \in Nat
  BY RowsAssumption, FS_Subset, FS_CardinalityType DEF DuplicateInv
<1>3. QED
  BY <1>1, <1>2, FS_CardinalityType, RowsAssumption

\* No request gets past a lookup in this step.
Quiet == \A q \in Request : stage'[q] \in {"email", "insert"} =>
            stage'[q] = stage[q] /\ call'[q] = call[q]

LEMMA QuietKeeps ==
    ASSUME DuplicateInv, Quiet, IsFiniteSet(rows'),
           \A n \in Name : Cardinality(Named(n)') <= Cardinality(Named(n)),
           \A e \in Email : Cardinality(Mailed(e)') <= Cardinality(Mailed(e))
    PROVE  DuplicateInv'
<1>1. ASSUME NEW n \in Name
      PROVE  Cardinality(Naming(n)') <= Cardinality(Naming(n)) /\ Cardinality(Naming(n)') \in Nat
  <2>1. Naming(n)' \in SUBSET Naming(n)
    BY DEF Quiet, Naming
  <2>2. QED
    BY <2>1, Counts, FS_Subset, FS_CardinalityType
<1>2. ASSUME NEW e \in Email
      PROVE  Cardinality(Mailing(e)') <= Cardinality(Mailing(e)) /\ Cardinality(Mailing(e)') \in Nat
  <2>1. Mailing(e)' \in SUBSET Mailing(e)
    BY DEF Quiet, Mailing
  <2>2. QED
    BY <2>1, Counts, FS_Subset, FS_CardinalityType
<1>3. /\ \A n : Cardinality(Named(n)') \in Nat
      /\ \A e : Cardinality(Mailed(e)') \in Nat
  <2>1. \A n, e : Named(n)' \in SUBSET rows' /\ Mailed(e)' \in SUBSET rows'
    BY DEF Named, Mailed
  <2>2. QED
    BY <2>1, FS_Subset, FS_CardinalityType
<1>4. ASSUME NEW n \in Name
      PROVE  Cardinality(Named(n)') + Cardinality(Naming(n)') <= Cardinality(Request)
  BY <1>1, <1>3, Counts DEF DuplicateInv
<1>5. ASSUME NEW e \in Email
      PROVE  Cardinality(Mailed(e)') + Cardinality(Mailing(e)') <= Cardinality(Request)
  BY <1>2, <1>3, Counts DEF DuplicateInv
<1>6. QED
  BY <1>4, <1>5 DEF DuplicateInv

LEMMA FewerRows ==
    ASSUME DuplicateInv, Quiet, rows' \subseteq rows
    PROVE  DuplicateInv'
<1>1. IsFiniteSet(rows')
  BY FS_Subset DEF DuplicateInv
<1>2. /\ \A n : Named(n)' \in SUBSET Named(n)
      /\ \A e : Mailed(e)' \in SUBSET Mailed(e)
  BY DEF Named, Mailed
<1>3. /\ \A n : Cardinality(Named(n)') <= Cardinality(Named(n))
      /\ \A e : Cardinality(Mailed(e)') <= Cardinality(Mailed(e))
  BY <1>2, Counts, FS_Subset
<1>4. QED
  BY <1>1, <1>3, QuietKeeps

\* Changing the passwords of some rows changes how many share a name in no way.
LEMMA SamePeople ==
    ASSUME DuplicateInv, Quiet, NEW f, DOMAIN f = rows,
           \A row \in rows : f[row].name = row.name /\ f[row].email = row.email,
           rows' = {f[row] : row \in rows}
    PROVE  DuplicateInv'
<1>1. ASSUME NEW S, S \subseteq rows, NEW T, T = {f[row] : row \in S}
      PROVE  IsFiniteSet(T) /\ Cardinality(T) <= Cardinality(S)
  <2> DEFINE g == [row \in S |-> f[row]]
  <2>1. g \in Surjection(S, T)
    BY <1>1 DEF Surjection
  <2>2. IsFiniteSet(S)
    BY <1>1, FS_Subset DEF DuplicateInv
  <2>3. QED
    BY <2>1, <2>2, FS_Surjection
<1>2. /\ \A n : Named(n)' = {f[row] : row \in Named(n)} /\ Named(n) \subseteq rows
      /\ \A e : Mailed(e)' = {f[row] : row \in Mailed(e)} /\ Mailed(e) \subseteq rows
  BY DEF Named, Mailed
<1>3. IsFiniteSet(rows')
  BY <1>1
<1>4. /\ \A n : Cardinality(Named(n)') <= Cardinality(Named(n))
      /\ \A e : Cardinality(Mailed(e)') <= Cardinality(Mailed(e))
  BY <1>1, <1>2
<1>5. QED
  BY <1>3, <1>4, QuietKeeps

\* A request that is answered, or goes where nothing is inserted, is quiet.
LEMMA QuietStep ==
    ASSUME TypeOK, NEW r \in Request,
           \A q \in Request : q # r => call'[q] = call[q],
           \/ \E u \in User \cup {Nil}, e \in Replies : Answer(r, u, e)
           \/ \E s \in Stages \ {"email", "insert"}, u \in User \cup {Nil} : Goto(r, s, u)
    PROVE  Quiet
<1>1. CASE \E u \in User \cup {Nil}, e \in Replies : Answer(r, u, e)
  BY <1>1, AnswerType DEF Quiet
<1>2. CASE \E s \in Stages \ {"email", "insert"}, u \in User \cup {Nil} : Goto(r, s, u)
  BY <1>2, GotoType DEF Quiet
<1>3. QED
  BY <1>1, <1>2

LEMMA CreateByNameKeeps ==
    ASSUME Reliable, TypeInv, DuplicateInv, NEW r \in Request, CreateByName(r)
    PROVE  DuplicateInv'
<1>0. TypeOK
  BY DEF TypeInv
<1>1. PICK n \in Name, e \in Email, p \in Password :
        /\ Ask(r, To("Create", n, e, 0, p))
        /\ \/ Answer(r, Nil, "panic") \/ Answer(r, Nil, "ErrUserExists")
           \/ Nil \in Lookup(n, WithName(n)) /\ Goto(r, "email", Nil)
        /\ rows' = rows
  BY DEF CreateByName, table
<1>2. To("Create", n, e, 0, p) \in Call
  BY ToType, BoundAssumption DEF Methods, Login
<1>3. /\ stage[r] = "done" /\ call'[r] = To("Create", n, e, 0, p)
      /\ \A q \in Request : q # r => call'[q] = call[q]
  BY <1>0, <1>1, <1>2, AskType
<1>4. CASE Answer(r, Nil, "panic") \/ Answer(r, Nil, "ErrUserExists")
  BY <1>0, <1>1, <1>3, <1>4, QuietStep, FewerRows DEF Replies
<1>5. CASE Nil \in Lookup(n, WithName(n)) /\ Goto(r, "email", Nil)
  <2>1. Named(n) = {}
    BY <1>0, <1>5, NothingFound DEF Named, WithName
  <2>2. /\ stage'[r] = "email" /\ call'[r].name = n
        /\ \A q \in Request : q # r => stage'[q] = stage[q]
    BY <1>0, <1>3, <1>5, GotoType DEF Stages, To
  <2>3. /\ \A m : Named(m)' = Named(m)
        /\ \A m : Mailed(m)' = Mailed(m)
    BY <1>1 DEF Named, Mailed
  <2>4. /\ Naming(n)' \in SUBSET Request
        /\ \A m \in Name \ {n} : Naming(m)' \in SUBSET Naming(m)
        /\ \A m : Mailing(m)' \in SUBSET Mailing(m)
    BY <1>3, <2>2 DEF Naming, Mailing
  <2>5. /\ Cardinality(Naming(n)') <= Cardinality(Request)
        /\ Cardinality(Naming(n)') \in Nat
        /\ \A m \in Name \ {n} : /\ Cardinality(Naming(m)') <= Cardinality(Naming(m))
                                 /\ Cardinality(Naming(m)') \in Nat
        /\ \A m : /\ Cardinality(Mailing(m)') <= Cardinality(Mailing(m))
                  /\ Cardinality(Mailing(m)') \in Nat
    BY <2>4, Counts, RowsAssumption, FS_Subset, FS_CardinalityType
  <2>6. Cardinality(Named(n)') = 0
    BY <2>1, <2>3, FS_EmptySet
  <2>7. \A m \in Name : Cardinality(Named(m)') + Cardinality(Naming(m)') <= Cardinality(Request)
    <3> TAKE m \in Name
    <3>1. CASE m = n
      BY <2>5, <2>6, <3>1, Counts
    <3>2. CASE m # n
      BY <2>3, <2>5, <3>2, Counts DEF DuplicateInv
    <3>3. QED
      BY <3>1, <3>2
  <2>8. \A m \in Email : Cardinality(Mailed(m)') + Cardinality(Mailing(m)') <= Cardinality(Request)
    BY <2>3, <2>5, Counts DEF DuplicateInv
  <2>9. QED
    BY <1>1, <2>7, <2>8 DEF DuplicateInv
<1>6. QED
  BY <1>1, <1>4, <1>5

LEMMA CreateByEmailKeeps ==
    ASSUME Reliable, TypeInv, DuplicateInv, NEW r \in Request, CreateByEmail(r)
    PROVE  DuplicateInv'
<1>0. TypeOK
  BY DEF TypeInv
<1> PICK e : e = call[r].email
  OBVIOUS
<1>1. /\ \/ \E x \in Replies : Answer(r, Nil, x)
         \/ Nil \in Lookup(e, WithEmail(e)) /\ Goto(r, "insert", Nil)
      /\ stage[r] = "email" /\ rows' = rows /\ call' = call
  BY DEF CreateByEmail, table, Replies
<1>2. CASE \E x \in Replies : Answer(r, Nil, x)
  BY <1>0, <1>1, <1>2, QuietStep, FewerRows
<1>3. CASE Nil \in Lookup(e, WithEmail(e)) /\ Goto(r, "insert", Nil)
  <2>1. Mailed(e) = {}
    BY <1>0, <1>3, NothingFound DEF Mailed, WithEmail
  <2>2. stage'[r] = "insert" /\ \A q \in Request : q # r => stage'[q] = stage[q]
    BY <1>0, <1>3, GotoType DEF Stages
  <2>3. /\ \A m : Named(m)' = Named(m)
        /\ \A m : Mailed(m)' = Mailed(m)
    BY <1>1 DEF Named, Mailed
  <2>4. /\ Mailing(e)' \in SUBSET Request
        /\ \A m \in Email \ {e} : Mailing(m)' \in SUBSET Mailing(m)
        /\ \A m : Naming(m)' = Naming(m)
    BY <1>1, <2>2 DEF Naming, Mailing
  <2>5. /\ Cardinality(Mailing(e)') <= Cardinality(Request)
        /\ Cardinality(Mailing(e)') \in Nat
        /\ \A m \in Email \ {e} : /\ Cardinality(Mailing(m)') <= Cardinality(Mailing(m))
                                  /\ Cardinality(Mailing(m)') \in Nat
    BY <2>4, Counts, RowsAssumption, FS_Subset, FS_CardinalityType
  <2>6. Cardinality(Mailed(e)') = 0
    BY <2>1, <2>3, FS_EmptySet
  <2>7. \A m \in Email : Cardinality(Mailed(m)') + Cardinality(Mailing(m)') <= Cardinality(Request)
    <3> TAKE m \in Email
    <3>1. CASE m = e
      BY <2>5, <2>6, <3>1, Counts
    <3>2. CASE m # e
      BY <2>3, <2>5, <3>2, Counts DEF DuplicateInv
    <3>3. QED
      BY <3>1, <3>2
  <2>8. QED
    BY <1>1, <2>3, <2>4, <2>7 DEF DuplicateInv
<1>4. QED
  BY <1>1, <1>2, <1>3

LEMMA OneMore ==
    ASSUME NEW S, IsFiniteSet(S), NEW x
    PROVE  /\ Cardinality(S \cup {x}) <= Cardinality(S) + 1
           /\ Cardinality(S \cup {x}) \in Nat
<1>1. Cardinality(S) \in Nat
  BY FS_CardinalityType
<1>2. CASE x \in S
  BY <1>1, <1>2, FS_AddElement
<1>3. CASE x \notin S
  BY <1>1, <1>3, FS_AddElement
<1>4. QED
  BY <1>2, <1>3

\* The row of a request takes the place the request had in the count.
LEMMA CreateInsertKeeps ==
    ASSUME Reliable, TypeInv, DuplicateInv, NEW r \in Request, CreateInsert(r)
    PROVE  DuplicateInv'
<1> DEFINE new == [id |-> serial + 1, name |-> call[r].name,
                   email |-> call[r].email, password |-> call[r].password]
<1>0. TypeOK
  BY DEF TypeInv
<1>1. /\ \/ Answer(r, Nil, "ErrCreateUser") /\ rows' = rows
         \/ Goto(r, "readback", Nil) /\ rows' = rows \cup {new}
      /\ stage[r] = "insert" /\ call' = call
  BY DEF CreateInsert, Reliable, table
<1>2. CASE Answer(r, Nil, "ErrCreateUser") /\ rows' = rows
  BY <1>0, <1>1, <1>2, QuietStep, FewerRows DEF Replies
<1>3. CASE Goto(r, "readback", Nil) /\ rows' = rows \cup {new}
  <2>1. stage'[r] = "readback" /\ \A q \in Request : q # r => stage'[q] = stage[q]
    BY <1>0, <1>3, GotoType DEF Stages
  <2>2. new.name = call[r].name /\ new.email = call[r].email
    OBVIOUS
  <2> HIDE DEF new
  <2>3. IsFiniteSet(rows')
    BY <1>3, FS_AddElement DEF DuplicateInv
  <2>4. ASSUME NEW n \in Name
        PROVE  Cardinality(Named(n)') + Cardinality(Naming(n)') <= Cardinality(Request)
    <3>1. CASE n = call[r].name
      <4>1. /\ Named(n)' = Named(n) \cup {new}
            /\ Naming(n)' = Naming(n) \ {r} /\ r \in Naming(n)
        BY <1>1, <1>3, <2>1, <2>2, <3>1 DEF Named, Naming
      <4>2. /\ Cardinality(Named(n)') <= Cardinality(Named(n)) + 1
            /\ Cardinality(Named(n)') \in Nat
        BY <4>1, Counts, OneMore
      <4>3. Cardinality(Naming(n)') = Cardinality(Naming(n)) - 1
        BY <4>1, Counts, FS_RemoveElement
      <4>4. QED
        BY <4>2, <4>3, Counts DEF DuplicateInv
    <3>2. CASE n # call[r].name
      <4>1. Named(n)' = Named(n) /\ Naming(n)' = Naming(n)
        BY <1>1, <1>3, <2>1, <2>2, <3>2 DEF Named, Naming
      <4>2. QED
        BY <4>1 DEF DuplicateInv
    <3>3. QED
      BY <3>1, <3>2
  <2>5. ASSUME NEW e \in Email
        PROVE  Cardinality(Mailed(e)') + Cardinality(Mailing(e)') <= Cardinality(Request)
    <3>1. CASE e = call[r].email
      <4>1. /\ Mailed(e)' = Mailed(e) \cup {new}
            /\ Mailing(e)' = Mailing(e) \ {r} /\ r \in Mailing(e)
        BY <1>1, <1>3, <2>1, <2>2, <3>1 DEF Mailed, Mailing
      <4>2. /\ Cardinality(Mailed(e)') <= Cardinality(Mailed(e)) + 1
            /\ Cardinality(Mailed(e)') \in Nat
        BY <4>1, Counts, OneMore
      <4>3. Cardinality(Mailing(e)') = Cardinality(Mailing(e)) - 1
        BY <4>1, Counts, FS_RemoveElement
      <4>4. QED
        BY <4>2, <4>3, Counts DEF DuplicateInv
    <3>2. CASE e # call[r].email
      <4>1. Mailed(e)' = Mailed(e) /\ Mailing(e)' = Mailing(e)
        BY <1>1, <1>3, <2>1, <2>2, <3>2 DEF Mailed, Mailing
      <4>2. QED
        BY <4>1 DEF DuplicateInv
    <3>3. QED
      BY <3>1, <3>2
  <2>6. QED
    BY <2>3, <2>4, <2>5 DEF DuplicateInv
<1>4. QED
  BY <1>1, <1>2, <1>3

LEMMA PasswordKeeps ==
    ASSUME Reliable, TypeInv, DuplicateInv, NEW r \in Request, UpdateUserPassword(r)
    PROVE  DuplicateInv'
<1>0. TypeOK
  BY DEF TypeInv
<1>1. PICK u \in User, p \in Password :
        /\ Ask(r, To("UpdateUserPassword", u.name, u.email, u.id, p))
        /\ \E v \in User \cup {Nil}, x \in Replies : Answer(r, v, x)
        /\ \/ rows' = rows
           \/ rows' = {IF row.id = u.id THEN [row EXCEPT !.password = p]
                       ELSE row : row \in rows}
  BY DEF UpdateUserPassword, Apply, Replies
<1>2. To("UpdateUserPassword", u.name, u.email, u.id, p) \in Call
  BY ToType DEF User, Login, Methods
<1>3. Quiet
  BY <1>0, <1>1, <1>2, AskType, QuietStep
<1>4. CASE rows' = rows
  BY <1>3, <1>4, FewerRows
<1>5. CASE rows' = {IF row.id = u.id THEN [row EXCEPT !.password = p]
                    ELSE row : row \in rows}
  <2> DEFINE f == [row \in rows |-> IF row.id = u.id THEN [row EXCEPT !.password = p]
                                   ELSE row]
  <2>1. rows' = {f[row] : row \in rows}
    BY <1>5
  <2>2. \A row \in rows : f[row].name = row.name /\ f[row].email = row.email
    BY <1>0 DEF TypeOK, Row
  <2>3. DOMAIN f = rows
    OBVIOUS
  <2> HIDE DEF f
  <2>4. QED
    BY <1>3, <2>1, <2>2, <2>3, SamePeople
<1>6. QED
  BY <1>1, <1>4, <1>5

\* Every other step of a request is quiet and adds no row.
LEMMA OtherStepKeeps ==
    ASSUME Reliable, TypeInv, DuplicateInv, NEW r \in Request,
           \/ CreateReadback(r) \/ AuthenticateLookup(r) \/ AuthenticateVerify(r)
           \/ GetByName(r) \/ GetByEmail(r) \/ GetById(r) \/ GetAll(r)
           \/ DeleteByName(r) \/ DeleteById(r) \/ DeleteRow(r)
    PROVE  DuplicateInv'
<1>0. TypeOK
  BY DEF TypeInv
<1>1. rows' \subseteq rows
  BY DEF CreateReadback, AuthenticateLookup, AuthenticateVerify, GetByName,
         GetByEmail, GetById, Get, GetAll, DeleteByName, DeleteById,
         DeleteLookup, DeleteRow, table
<1>2. \A q \in Request : q # r => call'[q] = call[q]
  BY <1>0 DEF TypeOK, CreateReadback, AuthenticateLookup, AuthenticateVerify,
              GetByName, GetByEmail, GetById, Get, GetAll, DeleteByName,
              DeleteById, DeleteLookup, DeleteRow, Ask
<1>3. \A q \in Request : q # r => stage'[q] = stage[q]
  BY <1>0 DEF TypeOK, CreateReadback, AuthenticateLookup, AuthenticateVerify,
              GetByName, GetByEmail, GetById, Get, GetAll, DeleteByName,
              DeleteById, DeleteLookup, DeleteRow, Answer, Goto
<1>4. stage'[r] \in {"done", "verify", "delete"}
  BY <1>0 DEF TypeOK, CreateReadback, AuthenticateLookup, AuthenticateVerify,
              GetByName, GetByEmail, GetById, Get, GetAll, DeleteByName,
              DeleteById, DeleteLookup, DeleteRow, Answer, Goto
<1>5. Quiet
  BY <1>2, <1>3, <1>4 DEF Quiet
<1>6. QED
  BY <1>1, <1>5, FewerRows

LEMMA DuplicateStep ==
    ASSUME Reliable, TypeInv, DuplicateInv, [Next]_vars
    PROVE  DuplicateInv'
<1>1. ASSUME NEW r \in Request, Step(r) PROVE DuplicateInv'
  <2>1. ~ Update(r)
    BY DEF Update, Ask, To, Reliable
  <2>2. QED
    BY <1>1, <2>1, CreateByNameKeeps, CreateByEmailKeeps, CreateInsertKeeps,
       PasswordKeeps, OtherStepKeeps DEF Step
<1>2. ASSUME NEW w \in Worker, CacheWrite(w) PROVE DuplicateInv'
  <2>1. rows' = rows /\ Quiet
    BY <1>2 DEF CacheWrite, table, Quiet
  <2>2. QED
    BY <2>1, FewerRows
<1>3. CASE ProcessDies
  <2>1. rows' = rows /\ Quiet
    BY <1>3 DEF ProcessDies, table, Quiet
  <2>2. QED
    BY <2>1, FewerRows
<1>4. CASE UNCHANGED vars
  <2>1. rows' = rows /\ Quiet
    BY <1>4 DEF vars, Quiet
  <2>2. QED
    BY <2>1, FewerRows
<1>5. QED
  BY <1>1, <1>2, <1>3, <1>4 DEF Next

\* Accounts of earlier runs: no more of a name or an e-mail than requests.
FewAtFirst ==
    /\ \A n \in Name : Cardinality({row \in Rows0 : row.name = n}) <= Cardinality(Request)
    /\ \A e \in Email : Cardinality({row \in Rows0 : row.email = e}) <= Cardinality(Request)

LEMMA DuplicateInit == ASSUME FewAtFirst, Init PROVE DuplicateInv
<1>1. /\ \A n : Naming(n) = {} /\ Named(n) = {row \in Rows0 : row.name = n}
      /\ \A e : Mailing(e) = {} /\ Mailed(e) = {row \in Rows0 : row.email = e}
  BY DEF Init, Naming, Mailing, Named, Mailed
<1>2. /\ \A n : Named(n) \in SUBSET Rows0
      /\ \A e : Mailed(e) \in SUBSET Rows0
  BY <1>1
<1>3. /\ \A n : Cardinality(Named(n)) \in Nat /\ Cardinality(Naming(n)) = 0
      /\ \A e : Cardinality(Mailed(e)) \in Nat /\ Cardinality(Mailing(e)) = 0
  BY <1>1, <1>2, RowsAssumption, FS_EmptySet, FS_Subset, FS_CardinalityType
<1>4. QED
  BY <1>1, <1>3, RowsAssumption DEF DuplicateInv, Init, FewAtFirst

LEMMA DuplicateInvariant == ASSUME Reliable, FewAtFirst PROVE Spec => []DuplicateInv
<1>1. Init => DuplicateInv
  BY DuplicateInit
<1>2. TypeInv /\ DuplicateInv /\ [Next]_vars => DuplicateInv'
  BY DuplicateStep
<1>3. QED
  BY <1>1, <1>2, TypeInvariant, PTL DEF Spec

\* However many requests race, a name or an e-mail is shared by at most one
\* account for each of them, provided the accounts of earlier runs were.
THEOREM DuplicatesBounded ==
    ASSUME Reliable, FewAtFirst
    PROVE  Spec => []BoundedDuplicates
<1>1. ASSUME DuplicateInv PROVE BoundedDuplicates
  <2>1. \A n \in Name : Cardinality(Named(n)) <= Cardinality(Request)
    BY <1>1, Counts DEF DuplicateInv
  <2>2. \A e \in Email : Cardinality(Mailed(e)) <= Cardinality(Request)
    BY <1>1, Counts DEF DuplicateInv
  <2>3. QED
    BY <2>1, <2>2 DEF BoundedDuplicates, Named, Mailed
<1>2. QED
  BY <1>1, DuplicateInvariant, PTL

-----------------------------------------------------------------------------
(* Whom Authenticate lets in *)

\* A step of one request leaves the others alone.
LEMMA OnlyItsOwn ==
    ASSUME TypeOK, NEW r \in Request, NEW q \in Request, q # r, Step(r)
    PROVE  UNCHANGED <<stage[q], call[q], user[q], reply[q]>>
  BY DEF TypeOK, Step, CreateByName, CreateByEmail, CreateInsert, CreateReadback,
         AuthenticateLookup, AuthenticateVerify, GetByName, GetByEmail, GetById,
         Get, GetAll, Update, UpdateUserPassword, Apply, DeleteByName, DeleteById,
         DeleteLookup, DeleteRow, Ask, Answer, Goto

\* Only the comparison of the passwords lets a request in.
LEMMA LetInByVerify ==
    ASSUME TypeInv, [Next]_vars, NEW r \in Request, Answers(r, "Authenticate", {"ok"})
    PROVE  /\ stage[r] = "verify" /\ call'[r] = call[r] /\ user'[r] = user[r]
           /\ \E row \in rows : row.id = user[r].id /\ row.password = call[r].password
<1>0. TypeOK /\ Held(r)
  BY DEF TypeInv
<1>1. ASSUME NEW q \in Request, Step(q) PROVE q = r
  BY <1>0, <1>1, OnlyItsOwn DEF Answers
<1>2. ~ \E w \in Worker : CacheWrite(w)
  BY DEF CacheWrite, Answers
<1>3. ~ ProcessDies
  BY DEF ProcessDies, Answers
<1>4. ~ UNCHANGED vars
  BY DEF vars, Answers
<1>5. Step(r)
  BY <1>1, <1>2, <1>3, <1>4 DEF Next
<1>6. call'[r].op = "Authenticate" /\ reply'[r] = "ok" /\ stage'[r] = "done"
  BY DEF Answers
<1>7. ASSUME NEW op, NEW n, NEW e, NEW i, NEW p, Ask(r, To(op, n, e, i, p))
      PROVE  op = "Authenticate"
  <2>1. call'[r] = To(op, n, e, i, p)
    BY <1>0, <1>7 DEF Ask, TypeOK
  <2>2. QED
    BY <1>6, <2>1 DEF To
<1>8. ~ (CreateByName(r) \/ GetByName(r) \/ GetByEmail(r) \/ GetById(r) \/ GetAll(r)
         \/ Update(r) \/ UpdateUserPassword(r) \/ DeleteByName(r) \/ DeleteById(r))
  BY <1>7 DEF CreateByName, GetByName, GetByEmail, GetById, Get, GetAll, Update,
              UpdateUserPassword, DeleteByName, DeleteById, DeleteLookup, NoCall
<1>9. ~ (CreateByEmail(r) \/ CreateInsert(r) \/ CreateReadback(r) \/ DeleteRow(r))
  BY <1>0, <1>6 DEF CreateByEmail, CreateInsert, CreateReadback, DeleteRow, Held
<1>10. ~ AuthenticateLookup(r)
  BY <1>0, <1>6 DEF AuthenticateLookup, Answer, Goto, TypeOK
<1>11. AuthenticateVerify(r)
  BY <1>5, <1>8, <1>9, <1>10 DEF Step
<1>12. QED
  BY <1>0, <1>6, <1>11 DEF AuthenticateVerify, Answer, WithId, TypeOK

\* AuthenticateSound is not inductive: between the two statements of r others
\* delete and add accounts.  It holds because ids are never handed out twice,
\* so that an account with the id r has read is the account r has read.
LoginInv ==
    /\ \A row \in rows : row.id <= serial
    /\ \A a, b \in rows : a.id = b.id => a = b
    /\ \A r \in Request : stage[r] = "verify" =>
          /\ user[r].id <= serial
          /\ \A row \in rows : row.id = user[r].id => call[r].name \in {row.name, row.email}

LEMMA LoginInit == Init => LoginInv
  BY RowsAssumption DEF Init, LoginInv

\* No login is looked up in this step, and the accounts left have the ids,
\* names and e-mails they had.
Settled ==
    /\ serial' = serial
    /\ \A r \in Request : stage'[r] = "verify" =>
          stage[r] = "verify" /\ call'[r] = call[r] /\ user'[r] = user[r]

LEMMA SettledKeeps ==
    ASSUME LoginInv, Settled, rows' \subseteq rows
    PROVE  LoginInv'
  BY DEF LoginInv, Settled

LEMMA LookupEstablishes ==
    ASSUME ~CacheActive, TypeInv, LoginInv, NEW r \in Request, AuthenticateLookup(r)
    PROVE  LoginInv'
<1>0. TypeOK
  BY DEF TypeInv
<1>1. PICK l \in Login, p \in Password :
        /\ Ask(r, To("Authenticate", l, Nil, 0, p))
        /\ \/ \E e \in Replies : Answer(r, Nil, e)
           \/ \E u \in Lookup(l, IF l \in At THEN WithEmail(l) ELSE WithName(l)) :
                 u # Nil /\ Goto(r, "verify", u)
        /\ UNCHANGED <<table, cache, job>>
  BY DEF AuthenticateLookup, Replies
<1>2. To("Authenticate", l, Nil, 0, p) \in Call
  BY ToType, BoundAssumption DEF Methods
<1>3. /\ call'[r].name = l
      /\ \A q \in Request : q # r => call'[q] = call[q]
  BY <1>0, <1>1, <1>2, AskType DEF To
<1>4. rows' = rows /\ serial' = serial
  BY <1>1 DEF table
<1>5. CASE \E e \in Replies : Answer(r, Nil, e)
  <2>1. Settled
    BY <1>0, <1>3, <1>4, <1>5, AnswerType DEF Settled
  <2>2. QED
    BY <1>4, <2>1, SettledKeeps
<1>6. CASE \E u \in Lookup(l, IF l \in At THEN WithEmail(l) ELSE WithName(l)) :
             u # Nil /\ Goto(r, "verify", u)
  <2>1. PICK found \in rows : /\ l \in {found.name, found.email}
                              /\ Goto(r, "verify", View(found))
    BY <1>6 DEF Lookup, Select, WithEmail, WithName
  <2>2. View(found).id = found.id /\ View(found) \in User
    BY <1>0, BoundAssumption DEF TypeOK, View, Row, User, Id
  <2>3. /\ user'[r].id = found.id
        /\ \A q \in Request : q # r => stage'[q] = stage[q] /\ user'[q] = user[q]
    BY <1>0, <2>1, <2>2, GotoType DEF Stages
  <2>4. found.id <= serial /\ \A row \in rows : row.id = found.id => row = found
    BY DEF LoginInv
  <2>5. \A q \in Request : stage'[q] = "verify" =>
          /\ user'[q].id <= serial
          /\ \A row \in rows : row.id = user'[q].id => call'[q].name \in {row.name, row.email}
    BY <1>3, <2>1, <2>3, <2>4 DEF LoginInv
  <2>6. QED
    BY <1>4, <2>5 DEF LoginInv
<1>7. QED
  BY <1>1, <1>5, <1>6

LEMMA InsertKeepsLogins ==
    ASSUME TypeInv, LoginInv, NEW r \in Request, CreateInsert(r)
    PROVE  LoginInv'
<1> DEFINE new == [id |-> serial + 1, name |-> call[r].name,
                   email |-> call[r].email, password |-> call[r].password]
<1>0. TypeOK
  BY DEF TypeInv
<1>1. /\ \/ rows' = rows /\ serial' = serial
         \/ rows' = rows \cup {new} /\ serial' = serial + 1
      /\ call' = call
      /\ \A q \in Request : stage'[q] = "verify" => stage[q] = "verify" /\ user'[q] = user[q]
  BY <1>0 DEF CreateInsert, table, Answer, Goto, TypeOK
<1>2. new.id = serial + 1
  OBVIOUS
<1> HIDE DEF new
<1>3. /\ serial \in Nat /\ \A row \in rows : row.id \in Nat
      /\ \A q \in Request : stage[q] = "verify" => user[q].id \in Nat
  BY BoundAssumption DEF TypeInv, TypeOK, Held, Row, User, Id
<1>4. CASE rows' = rows /\ serial' = serial
  BY <1>1, <1>4, SettledKeeps DEF Settled
<1>5. CASE rows' = rows \cup {new} /\ serial' = serial + 1
  <2>1. \A row \in rows' : row.id <= serial'
    BY <1>2, <1>3, <1>5 DEF LoginInv
  <2>2. \A a, b \in rows' : a.id = b.id => a = b
    BY <1>2, <1>3, <1>5 DEF LoginInv
  <2>3. ASSUME NEW q \in Request, stage'[q] = "verify"
        PROVE  /\ user'[q].id <= serial'
               /\ \A row \in rows' : row.id = user'[q].id =>
                                     call'[q].name \in {row.name, row.email}
    BY <1>1, <1>2, <1>3, <1>5, <2>3 DEF LoginInv
  <2>4. QED
    BY <2>1, <2>2, <2>3 DEF LoginInv
<1>6. QED
  BY <1>1, <1>4, <1>5

LEMMA PasswordKeepsLogins ==
    ASSUME TypeInv, LoginInv, NEW r \in Request, UpdateUserPassword(r)
    PROVE  LoginInv'
<1>0. TypeOK
  BY DEF TypeInv
<1>1. /\ serial' = serial
      /\ \A q \in Request : stage'[q] = "verify" =>
            stage[q] = "verify" /\ call'[q] = call[q] /\ user'[q] = user[q]
      /\ \E u \in User, p \in Password :
            rows' \in {rows, {IF row.id = u.id THEN [row EXCEPT !.password = p]
                             ELSE row : row \in rows}}
  BY <1>0 DEF UpdateUserPassword, Apply, Ask, Answer, TypeOK
<1>2. \A new \in rows' : \E old \in rows :
        new.id = old.id /\ new.name = old.name /\ new.email = old.email
  BY <1>0, <1>1 DEF TypeOK, Row
<1>3. \A a, b \in rows' : a.id = b.id => a = b
  BY <1>0, <1>1 DEF LoginInv, TypeOK, Row
<1>4. QED
  BY <1>1, <1>2, <1>3 DEF LoginInv

LEMMA LoginStep ==
    ASSUME ~CacheActive, "Update" \notin Exposed, TypeInv, LoginInv, [Next]_vars
    PROVE  LoginInv'
<1>0. TypeOK
  BY DEF TypeInv
<1>1. ASSUME NEW r \in Request, Step(r) PROVE LoginInv'
  <2>1. ~ Update(r)
    BY DEF Update, Ask, To
  <2>2. CASE \/ CreateByName(r) \/ CreateByEmail(r) \/ CreateReadback(r)
             \/ AuthenticateVerify(r) \/ GetByName(r) \/ GetByEmail(r)
             \/ GetById(r) \/ GetAll(r) \/ DeleteByName(r) \/ DeleteById(r)
             \/ DeleteRow(r)
    <3>1. rows' \subseteq rows /\ serial' = serial
      BY <2>2 DEF CreateByName, CreateByEmail, CreateReadback, AuthenticateVerify,
         GetByName, GetByEmail, GetById, Get, GetAll, DeleteByName, DeleteById,
         DeleteLookup, DeleteRow, table
    <3>2. stage'[r] # "verify"
      BY <1>0, <2>2 DEF TypeOK, CreateByName, CreateByEmail, CreateReadback,
         AuthenticateVerify, GetByName, GetByEmail, GetById, Get, GetAll,
         DeleteByName, DeleteById, DeleteLookup, DeleteRow, Answer, Goto
    <3>3. Settled
      BY <1>0, <1>1, <3>1, <3>2, OnlyItsOwn DEF Settled
    <3>4. QED
      BY <3>1, <3>3, SettledKeeps
  <2>3. QED
    BY <1>1, <2>1, <2>2, LookupEstablishes, InsertKeepsLogins, PasswordKeepsLogins
    DEF Step
<1>2. CASE (\E w \in Worker : CacheWrite(w)) \/ ProcessDies \/ UNCHANGED vars
  <2>1. rows' = rows /\ Settled
    BY <1>2 DEF CacheWrite, ProcessDies, vars, table, Settled
  <2>2. QED
    BY <2>1, SettledKeeps
<1>3. QED
  BY <1>1, <1>2 DEF Next

-----------------------------------------------------------------------------
(* The cache *)

\* What the cache hands out has no id, and so has who waits for the comparison.
LockedInv ==
    /\ \A k \in Key : cache[k] # Nil => cache[k].id = 0
    /\ \A r \in Request : stage[r] = "verify" => user[r].id = 0

LEMMA LockedStep ==
    ASSUME CacheActive, TypeInv, LockedInv, [Next]_vars
    PROVE  LockedInv'
<1>0. TypeOK
  BY DEF TypeInv
<1>1. ASSUME NEW r \in Request, Step(r) PROVE LockedInv'
  <2>1. \A q \in Request : q # r => stage'[q] = stage[q] /\ user'[q] = user[q]
    BY <1>0, <1>1, OnlyItsOwn
  <2>2. cache' = cache
    BY <1>1 DEF Step, CreateByName, CreateByEmail, CreateInsert, CreateReadback,
       AuthenticateLookup, AuthenticateVerify, GetByName, GetByEmail, GetById,
       Get, GetAll, Update, UpdateUserPassword, DeleteByName, DeleteById,
       DeleteLookup, DeleteRow
  <2>3. stage'[r] = "verify" => AuthenticateLookup(r)
    BY <1>0, <1>1 DEF TypeOK, Step, CreateByName, CreateByEmail, CreateInsert,
       CreateReadback, AuthenticateVerify, GetByName, GetByEmail, GetById, Get,
       GetAll, Update, UpdateUserPassword, Apply, DeleteByName, DeleteById,
       DeleteLookup, DeleteRow, Answer, Goto
  <2>4. AuthenticateLookup(r) /\ stage'[r] = "verify" => user'[r].id = 0
    <3> SUFFICES ASSUME AuthenticateLookup(r), stage'[r] = "verify" PROVE user'[r].id = 0
      OBVIOUS
    <3>0. PICK l \in Login :
            \/ Answer(r, Nil, "panic")
            \/ \E u \in Lookup(l, IF l \in At THEN WithEmail(l) ELSE WithName(l)) :
                  IF u = Nil THEN Answer(r, Nil, "ErrNoUser") ELSE Goto(r, "verify", u)
      BY DEF AuthenticateLookup
    <3>1. \A u \in Lookup(l, IF l \in At THEN WithEmail(l) ELSE WithName(l)) :
            u = cache[l] /\ u # Nil
      BY DEF Lookup
    <3>2. user'[r] = cache[l] /\ cache[l] # Nil
      BY <1>0, <3>0, <3>1 DEF Answer, Goto, TypeOK
    <3>3. QED
      BY <3>2 DEF LockedInv, Login, Key
  <2>5. QED
    BY <2>1, <2>2, <2>3, <2>4 DEF LockedInv
<1>2. ASSUME NEW w \in Worker, CacheWrite(w)
      PROVE  LockedInv'
  <2>1. job[w].user \in User
    BY <1>0, <1>2 DEF TypeOK, Job, CacheWrite
  <2>2. Cached(job[w].user).id = 0
    BY <2>1 DEF Cached, User
  <2>3. QED
    BY <1>0, <1>2, <2>2 DEF CacheWrite, LockedInv, TypeOK, table
<1>3. CASE ProcessDies \/ UNCHANGED vars
  BY <1>3 DEF ProcessDies, vars, table, LockedInv
<1>4. QED
  BY <1>1, <1>2, <1>3 DEF Next

\* No Update renames an account.  Whatever other requests do between its two
\* statements, whichever statements fail and whatever the cache holds,
\* Authenticate lets in only who gave the login and the password of the account
\* it answers with: with the cache on nobody, since what it hands out has no id.
THEOREM LoginsSound ==
    ASSUME "Update" \notin Exposed
    PROVE  Spec => AuthenticateSound
<1> DEFINE Sound == \A r \in Request : Answers(r, "Authenticate", {"ok"}) =>
                      \E row \in rows : row.id = user'[r].id /\ Matches(row, call'[r])
           SafeInv == IF CacheActive THEN LockedInv ELSE LoginInv
<1>1. Init => SafeInv
  BY LoginInit DEF Init, LockedInv
<1>2. TypeInv /\ SafeInv /\ [Next]_vars => SafeInv'
  BY LoginStep, LockedStep
<1>3. ASSUME TypeInv, SafeInv, [Next]_vars PROVE Sound
  <2>1. CASE CacheActive
    <3>1. \A row \in rows : row.id # 0
      BY <1>3 DEF TypeInv, TypeOK, Row, Id
    <3>2. QED
      BY <1>3, <2>1, <3>1, LetInByVerify DEF LockedInv
  <2>2. CASE ~CacheActive
    BY <1>3, <2>2, LetInByVerify DEF LoginInv, Matches
  <2>3. QED
    BY <2>1, <2>2
<1>4. QED
  BY <1>1, <1>2, <1>3, TypeInvariant, PTL DEF Spec, AuthenticateSound
===============================================================================
