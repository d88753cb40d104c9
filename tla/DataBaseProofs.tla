---------------------------- MODULE DataBaseProofs ----------------------------
(***************************************************************************)
(* Theorems about the methods of DataBase, for every number of goroutines, *)
(* every size of the pool and every set of tables, columns and texts: the  *)
(* types, the discipline of the pool, and that the methods carry out the   *)
(* statements of AtomicTables.                                             *)
(***************************************************************************)
EXTENDS DataBase, FiniteSetTheorems, SequenceTheorems, TLAPS

-----------------------------------------------------------------------------
(* The inductive invariant                                                 *)

In(q, c) == \E i \in DOMAIN q : q[i] = c
Once(q)  == \A i, j \in DOMAIN q : q[i] = q[j] => i = j

\* A client in a method is at one of the statements of its call; a write that
\* waits for its COMMIT has read nothing.
Working(c) ==
    /\ stage[c] = "done" <=> step[c] = 0
    /\ step[c] > 0 => call[c] \in Calls /\ step[c] <= Len(Statements(call[c]))
    /\ stage[c] = "commit" /\ Statement(c).kind # "select" => got[c] = {} /\ ~ broken[c]

\* The clients in the queue are those that wait, and each is in it once.
Queued == Once(queue) /\ \A c \in Client : stage[c] = "acquire" <=> In(queue, c)

Lent == IsFiniteSet(Holders) /\ Cardinality(Holders) <= MaxConns

IInv == TypeOK /\ (\A c \in Client : Working(c)) /\ Queued /\ Lent

-----------------------------------------------------------------------------
(* Statements and tables                                                   *)

\* What a statement is made of.
Legal(s) ==
    /\ s.kind \in {"create", "drop", "select", "insert", "update", "delete"}
    /\ s.on \subseteq Table
    /\ s.kind = "insert" => s.rows \subseteq Row
    /\ s.kind = "update" => s.set \in Partial

LEMMA CallFacts ==
    ASSUME NEW k \in Calls
    PROVE  /\ k.op \in {"CreateTable", "DeleteTable", "Select", "Delete", "Insert", "Update", "Init"}
           /\ k.op # "Init" => k.table \in Table
           /\ k.op = "Insert" => k.rows \subseteq Row
           /\ k.op = "Update" => k.set \in Partial
  BY DEF Calls, InitDB

LEMMA Single ==
    ASSUME NEW s
    PROVE  Len(<<s>>) = 1 /\ <<s>>[1] = s /\ \A i \in 1..Len(<<s>>) : i = 1
  OBVIOUS

\* The statements of a call: a SELECT and a DROP for DeleteTable, one for each
\* init file, and one for any other call.
LEMMA StatementFacts ==
    ASSUME NEW k \in Calls
    PROVE  /\ Len(Statements(k)) \in Nat \ {0}
           /\ \A i \in 1..Len(Statements(k)) : Legal(Statements(k)[i])
           /\ k.op = "DeleteTable" => /\ Len(Statements(k)) = 2
                                      /\ Statements(k)[1].kind = "select"
                                      /\ Statements(k)[2].kind = "drop"
           /\ k.op \notin {"DeleteTable", "Init"} => Len(Statements(k)) = 1
           /\ k.op = "Insert" => Statements(k)[1].kind = "insert"
           /\ k.op = "Init" => \A i \in 1..Len(Statements(k)) : Statements(k)[i].kind = "create"
<1>1. CASE k.op = "CreateTable"
  <2>1. Statements(k) = <<[kind |-> "create", on |-> {k.table}]>>
    BY <1>1 DEF Statements
  <2> QED
    BY <1>1, <2>1, Single, CallFacts DEF Legal
<1>2. CASE k.op = "DeleteTable"
  <2> DEFINE s == [kind |-> "select", on |-> {k.table}, where |-> Nil, limit |-> TRUE]
             d == [kind |-> "drop", on |-> {k.table}]
  <2>1. Statements(k) = <<s, d>>
    BY <1>2 DEF Statements
  <2>2. /\ s.kind = "select" /\ s.on \subseteq Table
        /\ d.kind = "drop" /\ d.on \subseteq Table
    BY <1>2, CallFacts
  <2>3. Legal(s) /\ Legal(d)
    BY <2>2 DEF Legal
  <2> HIDE DEF s, d
  <2>4. Len(Statements(k)) = 2 /\ Statements(k)[1] = s /\ Statements(k)[2] = d
    BY <2>1
  <2>5. \A i \in 1..Len(Statements(k)) : i \in {1, 2}
    BY <2>4
  <2> QED
    BY <1>2, <2>2, <2>3, <2>4, <2>5
<1>3. CASE k.op = "Select"
  <2>1. Statements(k) = <<[kind |-> "select", on |-> {k.table},
                           where |-> k.where, limit |-> FALSE]>>
    BY <1>3 DEF Statements
  <2> QED
    BY <1>3, <2>1, Single, CallFacts DEF Legal
<1>4. CASE k.op = "Insert"
  <2>1. Statements(k) = <<[kind |-> "insert", on |-> {k.table}, rows |-> k.rows]>>
    BY <1>4 DEF Statements
  <2> QED
    BY <1>4, <2>1, Single, CallFacts DEF Legal
<1>5. CASE k.op = "Update"
  <2>1. Statements(k) = <<[kind |-> "update", on |-> {k.table},
                           set |-> k.set, where |-> k.where]>>
    BY <1>5 DEF Statements
  <2> QED
    BY <1>5, <2>1, Single, CallFacts DEF Legal
<1>6. CASE k.op = "Delete"
  <2>1. Statements(k) = <<[kind |-> "delete", on |-> {k.table}, where |-> k.where]>>
    BY <1>6 DEF Statements
  <2> QED
    BY <1>6, <2>1, Single, CallFacts DEF Legal
<1>7. CASE k.op = "Init"
  <2>1. Statements(k) = [i \in DOMAIN InitFiles |-> [kind |-> "create", on |-> InitFiles[i]]]
    BY <1>7 DEF Statements
  <2>2. Len(InitFiles) \in Nat \ {0} /\ DOMAIN InitFiles = 1..Len(InitFiles)
    BY FilesAssumption, EmptySeq, LenProperties
  <2>3. \A i \in DOMAIN InitFiles : InitFiles[i] \subseteq Table
    BY FilesAssumption, ElementOfSeq, <2>2
  <2>4. Len(Statements(k)) = Len(InitFiles)
    BY <2>1, <2>2
  <2>5. \A i \in 1..Len(Statements(k)) : Legal(Statements(k)[i]) /\ Statements(k)[i].kind = "create"
    BY <2>1, <2>2, <2>3, <2>4 DEF Legal
  <2> QED
    BY <1>7, <2>2, <2>4, <2>5
<1> QED
  BY <1>1, <1>2, <1>3, <1>4, <1>5, <1>6, <1>7, CallFacts

\* An edited row is a row.
LEMMA EditedRow ==
    ASSUME NEW row \in Row, NEW set \in Partial
    PROVE  Edited(row, set) \in Row
<1>1. PICK columns \in SUBSET Column : set \in [columns -> Text]
  BY DEF Partial
<1> QED
  BY <1>1 DEF Edited, Row

\* A statement that is not refused makes contents of contents.
LEMMA AfterContent ==
    ASSUME NEW s, Legal(s), NEW rows \in Content,
           s.kind \in {"insert", "update", "delete"} => rows # Nil
    PROVE  After(s, rows) \in Content
<1>1. CASE s.kind = "create"
  BY <1>1 DEF After, Content
<1>2. CASE s.kind = "drop"
  BY <1>2 DEF After, Content
<1>3. CASE s.kind = "select"
  BY <1>3 DEF After
<1>4. CASE s.kind = "insert"
  BY <1>4 DEF After, Content, Legal
<1>5. CASE s.kind = "delete"
  <2>1. rows \subseteq Row
    BY <1>5 DEF Content
  <2>2. After(s, rows) = rows \ Matching(s.where, rows)
    BY <1>5 DEF After
  <2> QED
    BY <2>1, <2>2 DEF Content
<1>6. CASE s.kind = "update"
  <2>1. rows \subseteq Row
    BY <1>6 DEF Content
  <2>2. {Edited(row, s.set) : row \in Matching(s.where, rows)} \subseteq Row
    <3>1. s.set \in Partial
      BY <1>6 DEF Legal
    <3> QED
      BY <2>1, <3>1, EditedRow DEF Matching
  <2>3. After(s, rows) = (rows \ Matching(s.where, rows))
                           \cup {Edited(row, s.set) : row \in Matching(s.where, rows)}
    BY <1>6 DEF After
  <2> QED
    BY <2>1, <2>2, <2>3 DEF Content
<1> QED
  BY <1>1, <1>2, <1>3, <1>4, <1>5, <1>6 DEF Legal

LEMMA ThenTables ==
    ASSUME NEW s, Legal(s), NEW ts \in [Table -> Content], ~ Refused(s, ts)
    PROVE  Then(s, ts) \in [Table -> Content]
<1>1. ASSUME NEW t \in Table, t \in s.on
      PROVE  After(s, ts[t]) \in Content
  <2>1. s.kind \in {"insert", "update", "delete"} => ts[t] # Nil
    BY <1>1 DEF Refused
  <2> QED
    BY <1>1, <2>1, AfterContent
<1> QED
  BY <1>1 DEF Then

\* A SELECT changes nothing, and returns rows.
LEMMA SelectTables ==
    ASSUME NEW s, Legal(s), s.kind = "select", NEW ts \in [Table -> Content]
    PROVE  /\ Then(s, ts) = ts
           /\ \A rows \in Selected(s, ts) : rows \subseteq Row
<1>1. Then(s, ts) = ts
  <2>1. \A t \in Table : After(s, ts[t]) = ts[t]
    BY DEF After
  <2> QED
    BY <2>1 DEF Then
<1>2. Found(s, ts) \subseteq Row
  <2>1. \A t \in s.on : ts[t] # Nil => ts[t] \subseteq Row
    BY DEF Legal, Content
  <2>2. UNION ({ts[t] : t \in s.on} \ {Nil}) \subseteq Row
    BY <2>1
  <2> QED
    BY <2>2 DEF Found, Matching
<1>3. \A rows \in Selected(s, ts) : rows \subseteq Row
  BY <1>2 DEF Selected
<1> QED
  BY <1>1, <1>3

-----------------------------------------------------------------------------
(* The queue                                                               *)

LEMMA Appended ==
    ASSUME NEW q \in Seq(Client), Once(q), NEW c \in Client, ~ In(q, c)
    PROVE  /\ Append(q, c) \in Seq(Client) /\ Once(Append(q, c))
           /\ \A d : In(Append(q, c), d) <=> In(q, d) \/ d = c
<1> DEFINE n == Len(q)
           r == Append(q, c)
<1>1. /\ n \in Nat /\ DOMAIN q = 1..n /\ r \in Seq(Client) /\ Len(r) = n + 1 /\ DOMAIN r = 1..(n + 1)
      /\ \A i \in 1..n : r[i] = q[i]
      /\ r[n + 1] = c
  BY AppendProperties, LenProperties
<1> HIDE DEF n, r
<1>2. Once(r)
  <2> SUFFICES ASSUME NEW i \in 1..(n + 1), NEW j \in 1..(n + 1), r[i] = r[j]
               PROVE  i = j
    BY <1>1 DEF Once
  <2>1. CASE i \in 1..n /\ j \in 1..n
    BY <2>1, <1>1 DEF Once
  <2>2. i = n + 1 => ~ (j \in 1..n)
    BY <1>1 DEF In
  <2>3. j = n + 1 => ~ (i \in 1..n)
    BY <1>1 DEF In
  <2> QED
    BY <2>1, <2>2, <2>3, <1>1
<1>3. ASSUME NEW d
      PROVE  In(r, d) <=> In(q, d) \/ d = c
  <2>1. \A i \in 1..n : i \in 1..(n + 1)
    BY <1>1
  <2>2. \A i \in 1..(n + 1) : i \in 1..n \/ i = n + 1
    BY <1>1
  <2>3. n + 1 \in 1..(n + 1)
    BY <1>1
  <2> QED
    BY <1>1, <2>1, <2>2, <2>3 DEF In
<1> QED
  BY <1>1, <1>2, <1>3 DEF r

LEMMA Removed ==
    ASSUME NEW q \in Seq(Client), Once(q), NEW i \in DOMAIN q, NEW r,
           r = [j \in 1..(Len(q) - 1) |-> IF j < i THEN q[j] ELSE q[j + 1]]
    PROVE  /\ r \in Seq(Client) /\ Once(r)
           /\ \A d : In(r, d) <=> In(q, d) /\ d # q[i]
<1> DEFINE n == Len(q)
           at(j) == IF j < i THEN j ELSE j + 1
<1>1. /\ n \in Nat /\ n > 0 /\ DOMAIN q = 1..n /\ i \in 1..n /\ \A j \in 1..n : q[j] \in Client
  BY LenProperties, ElementOfSeq
<1>2. \A j \in 1..(n - 1) : at(j) \in 1..n /\ at(j) # i
  BY <1>1
<1>3. DOMAIN r = 1..(n - 1) /\ \A j \in 1..(n - 1) : r[j] = q[at(j)]
  OBVIOUS
<1>4. \A j, k \in 1..(n - 1) : at(j) = at(k) => j = k
  BY <1>1
<1>5. \A m \in 1..n : m # i => \E j \in 1..(n - 1) : at(j) = m
  <2> SUFFICES ASSUME NEW m \in 1..n, m # i
               PROVE  \E j \in 1..(n - 1) : at(j) = m
    OBVIOUS
  <2>1. CASE m < i
    <3>1. m \in 1..(n - 1) /\ at(m) = m
      BY <2>1, <1>1
    <3> QED
      BY <3>1
  <2>2. CASE m > i
    <3>1. m - 1 \in 1..(n - 1) /\ at(m - 1) = m
      BY <2>2, <1>1
    <3> QED
      BY <3>1
  <2> QED
    BY <2>1, <2>2, <1>1
<1>6. r \in Seq(Client)
  <2>1. \A j \in 1..(n - 1) : r[j] \in Client
    BY <1>1, <1>2, <1>3
  <2>2. n - 1 \in Nat
    BY <1>1
  <2>3. r = [j \in 1..(n - 1) |-> r[j]]
    BY <1>3
  <2> QED
    BY <2>1, <2>2, <2>3, IsASeq
<1> HIDE DEF n, at
<1>7. Once(r)
  <2> SUFFICES ASSUME NEW j \in 1..(n - 1), NEW k \in 1..(n - 1), r[j] = r[k]
               PROVE  j = k
    BY <1>3 DEF Once
  <2>1. at(j) \in 1..n /\ at(k) \in 1..n /\ q[at(j)] = q[at(k)]
    BY <1>2, <1>3
  <2>2. at(j) = at(k)
    BY <2>1, <1>1 DEF Once
  <2> QED
    BY <2>2, <1>4
<1>8. \A d : In(r, d) <=> In(q, d) /\ d # q[i]
  <2> TAKE d
  <2>1. In(r, d) => In(q, d) /\ d # q[i]
    <3> SUFFICES ASSUME NEW j \in 1..(n - 1), r[j] = d
                 PROVE  In(q, d) /\ d # q[i]
      BY <1>3 DEF In
    <3>1. at(j) \in 1..n /\ at(j) # i /\ q[at(j)] = d
      BY <1>2, <1>3
    <3> QED
      BY <3>1, <1>1 DEF In, Once
  <2>2. ASSUME In(q, d), d # q[i] PROVE In(r, d)
    <3>1. PICK m \in 1..n : q[m] = d /\ m # i
      BY <2>2, <1>1 DEF In
    <3>2. PICK j \in 1..(n - 1) : at(j) = m
      BY <3>1, <1>5
    <3> QED
      BY <3>1, <3>2, <1>3 DEF In
  <2> QED
    BY <2>1, <2>2
<1> QED
  BY <1>6, <1>7, <1>8

LEMMA TailRemoved ==
    ASSUME NEW q \in Seq(Client), Once(q), q # << >>
    PROVE  /\ Tail(q) \in Seq(Client) /\ Once(Tail(q)) /\ In(q, Head(q))
           /\ \A d : In(Tail(q), d) <=> In(q, d) /\ d # Head(q)
<1>1. /\ Len(q) \in Nat /\ Len(q) > 0 /\ DOMAIN q = 1..Len(q) /\ Head(q) = q[1]
      /\ Tail(q) \in Seq(Client) /\ Len(Tail(q)) = Len(q) - 1
      /\ \A j \in 1..Len(Tail(q)) : Tail(q)[j] = q[j + 1]
  BY EmptySeq, LenProperties, HeadTailProperties
<1>2. Tail(q) = [j \in 1..(Len(q) - 1) |-> q[j + 1]]
  <2>1. Tail(q) = [j \in 1..Len(Tail(q)) |-> Tail(q)[j]]
    BY <1>1, LenProperties
  <2> QED
    BY <1>1, <2>1
<1>3. \A j \in 1..(Len(q) - 1) : ~ (j < 1)
  BY <1>1
<1>4. Tail(q) = [j \in 1..(Len(q) - 1) |-> IF j < 1 THEN q[j] ELSE q[j + 1]]
  BY <1>2, <1>3
<1>5. 1 \in DOMAIN q
  BY <1>1
<1> QED
  <2>1. \A d : In(Tail(q), d) <=> In(q, d) /\ d # q[1]
    BY <1>4, <1>5, Removed
  <2>2. Once(Tail(q))
    BY <1>4, <1>5, Removed
  <2> QED
    BY <1>1, <1>5, <2>1, <2>2 DEF In

LEMMA WithoutRemoved ==
    ASSUME queue \in Seq(Client), Once(queue), NEW c, In(queue, c)
    PROVE  /\ Without(c) \in Seq(Client) /\ Once(Without(c))
           /\ \A d : In(Without(c), d) <=> In(queue, d) /\ d # c
<1> DEFINE i == CHOOSE j \in DOMAIN queue : queue[j] = c
<1>1. i \in DOMAIN queue /\ queue[i] = c
  BY DEF In
<1>2. Without(c) = [j \in 1..(Len(queue) - 1) |-> IF j < i THEN queue[j] ELSE queue[j + 1]]
  BY DEF Without
<1> HIDE DEF i
<1> QED
  BY <1>1, <1>2, Removed

-----------------------------------------------------------------------------
(* A step of one client                                                    *)

Lending == {"begin", "exec", "rollback", "commit"}

\* A client that gets to hold a connection has found one free.
LEMMA LentKept ==
    ASSUME TypeOK, Lent, NEW c \in Client, NEW st, stage' = [stage EXCEPT ![c] = st],
           st \in Lending => c \in Holders \/ Free
    PROVE  Lent'
<1>1. Holders' = IF st \in Lending THEN Holders \cup {c} ELSE Holders \ {c}
  BY DEF Holders, TypeOK, Lending
<1>2. Cardinality(Holders) \in Nat /\ MaxConns \in Nat
  BY FS_CardinalityType, PoolAssumption DEF Lent
<1>3. CASE st \in Lending /\ c \in Holders
  <2>1. Holders' = Holders
    BY <1>1, <1>3
  <2> QED
    BY <2>1 DEF Lent
<1>4. CASE st \in Lending /\ c \notin Holders
  <2>1. Holders' = Holders \cup {c} /\ Cardinality(Holders) < MaxConns
    BY <1>1, <1>4 DEF Free
  <2>2. IsFiniteSet(Holders \cup {c}) /\ Cardinality(Holders \cup {c}) = Cardinality(Holders) + 1
    BY <1>4, FS_AddElement DEF Lent
  <2> QED
    BY <1>2, <2>1, <2>2 DEF Lent
<1>5. CASE st \notin Lending
  <2>1. Holders' \subseteq Holders
    BY <1>1, <1>5
  <2>2. IsFiniteSet(Holders') /\ Cardinality(Holders') <= Cardinality(Holders)
    BY <2>1, FS_Subset DEF Lent
  <2>3. Cardinality(Holders') \in Nat
    BY <2>2, FS_CardinalityType
  <2> QED
    BY <1>2, <2>2, <2>3 DEF Lent
<1> QED
  BY <1>3, <1>4, <1>5

\* The queue without c, unless c is not in it.
Others(c) == IF stage[c] = "acquire" THEN Without(c) ELSE queue

LEMMA OthersFacts ==
    ASSUME TypeOK, Queued, NEW c \in Client
    PROVE  /\ Others(c) \in Seq(Client) /\ Once(Others(c))
           /\ \A d : In(Others(c), d) <=> In(queue, d) /\ d # c
<1>1. queue \in Seq(Client) /\ Once(queue)
  BY DEF TypeOK, Queued
<1>2. CASE stage[c] = "acquire"
  BY <1>1, <1>2, WithoutRemoved DEF Others, Queued
<1>3. CASE stage[c] # "acquire"
  <2>1. Others(c) = queue /\ ~ In(queue, c)
    BY <1>3 DEF Others, Queued
  <2>2. \A d : In(queue, d) => d # c
    BY <2>1
  <2> QED
    BY <1>1, <2>1, <2>2
<1> QED
  BY <1>2, <1>3

\* A client that waits has queued, one that does not has left the queue.
LEMMA QueuedKept ==
    ASSUME TypeOK, Queued, NEW c \in Client, NEW st, stage' = [stage EXCEPT ![c] = st],
           \/ st = "acquire" /\ queue' = Append(Others(c), c)
           \/ st # "acquire" /\ queue' = Others(c)
           \/ st # "acquire" /\ queue # << >> /\ Head(queue) = c /\ queue' = Tail(queue)
    PROVE  queue' \in Seq(Client) /\ Queued'
<1>1. queue \in Seq(Client) /\ Once(queue)
  BY DEF TypeOK, Queued
<1>2. /\ queue' \in Seq(Client) /\ Once(queue')
      /\ \A d : In(queue', d) <=> \/ In(queue, d) /\ d # c
                                  \/ d = c /\ st = "acquire"
  <2>1. CASE st = "acquire" /\ queue' = Append(Others(c), c)
    <3> DEFINE q == Others(c)
    <3>1. q \in Seq(Client) /\ Once(q) /\ \A d : In(q, d) <=> In(queue, d) /\ d # c
      BY OthersFacts
    <3> HIDE DEF q
    <3>2. queue' = Append(q, c)
      BY <2>1 DEF q
    <3>3. /\ queue' \in Seq(Client) /\ Once(queue')
          /\ \A d : In(queue', d) <=> In(q, d) \/ d = c
      BY <3>1, <3>2, Appended
    <3> QED
      BY <2>1, <3>1, <3>3
  <2>2. CASE st # "acquire" /\ queue' = Others(c)
    BY <2>2, OthersFacts
  <2>3. CASE st # "acquire" /\ queue # << >> /\ Head(queue) = c /\ queue' = Tail(queue)
    BY <2>3, <1>1, TailRemoved
  <2> QED
    BY <2>1, <2>2, <2>3
<1>3. \A d \in Client : stage'[d] = "acquire" <=> In(queue', d)
  <2>1. \A d \in Client : d # c => stage'[d] = stage[d]
    BY DEF TypeOK
  <2>2. stage'[c] = st
    BY DEF TypeOK
  <2>3. \A d \in Client : d # c => (stage'[d] = "acquire" <=> In(queue', d))
    BY <1>2, <2>1 DEF Queued
  <2>4. stage'[c] = "acquire" <=> In(queue', c)
    BY <1>2, <2>2
  <2> QED
    BY <2>3, <2>4
<1> QED
  BY <1>2, <1>3 DEF Queued

\* The step takes client c to these values, and it may be where they say.
Moves(c, st, n, rs, b, e, ts, k) ==
    /\ st \in Stages /\ n \in Nat /\ rs \in SUBSET Row /\ b \in BOOLEAN /\ e \in Replies
    /\ ts \in [Table -> Content] /\ k \in Calls
    /\ stage' = [stage EXCEPT ![c] = st] /\ step' = [step EXCEPT ![c] = n]
    /\ got' = [got EXCEPT ![c] = rs] /\ broken' = [broken EXCEPT ![c] = b]
    /\ reply' = [reply EXCEPT ![c] = e] /\ seen' = [seen EXCEPT ![c] = ts]
    /\ call' = [call EXCEPT ![c] = k]
    /\ st = "done" <=> n = 0
    /\ n > 0 => n <= Len(Statements(k))
    /\ st = "commit" /\ Statements(k)[n].kind # "select" => rs = {} /\ ~ b
    /\ st \in Lending => c \in Holders \/ Free
    /\ \/ st = "acquire" /\ queue' = Append(Others(c), c)
       \/ st # "acquire" /\ queue' = Others(c)
       \/ st # "acquire" /\ queue # << >> /\ Head(queue) = c /\ queue' = Tail(queue)

\* A step of client c that leaves the others alone keeps the invariant.
LEMMA ClientStep ==
    ASSUME IInv, NEW c \in Client, NEW st, NEW n, NEW rs, NEW b, NEW e, NEW ts, NEW k,
           Moves(c, st, n, rs, b, e, ts, k),
           tables' \in [Table -> Content], stopped' \in {"no", "closed", "cancelled"}
    PROVE  IInv'
<1> USE DEF Moves
<1>1. TypeOK /\ Queued /\ Lent
  BY DEF IInv
<1>2. queue' \in Seq(Client) /\ Queued'
  BY <1>1, QueuedKept
<1>3. Lent'
  BY <1>1, LentKept
<1>4. TypeOK'
  BY <1>1, <1>2 DEF TypeOK
<1>5. ASSUME NEW d \in Client, d # c PROVE Working(d)'
  <2>1. /\ stage'[d] = stage[d] /\ step'[d] = step[d] /\ got'[d] = got[d]
        /\ broken'[d] = broken[d] /\ call'[d] = call[d]
    BY <1>1, <1>5 DEF TypeOK
  <2>2. Working(d)
    BY DEF IInv
  <2> QED
    BY <2>1, <2>2 DEF Working, Statement
<1>6. Working(c)'
  <2>1. /\ stage'[c] = st /\ step'[c] = n /\ got'[c] = rs /\ broken'[c] = b /\ call'[c] = k
    BY <1>1 DEF TypeOK
  <2> QED
    BY <2>1 DEF Working, Statement
<1> QED
  BY <1>2, <1>3, <1>4, <1>5, <1>6 DEF IInv

\* A function with one value put where it is.
LEMMA Unchanged ==
    ASSUME NEW A, NEW B, NEW f \in [A -> B], NEW a \in A
    PROVE  f = [f EXCEPT ![a] = f[a]] /\ f[a] \in B
  OBVIOUS

\* What is known of a client that is in a method.
LEMMA AtWork ==
    ASSUME IInv, NEW c \in Client, stage[c] # "done"
    PROVE  /\ call[c] \in Calls /\ step[c] \in Nat /\ step[c] > 0
           /\ step[c] \in 1..Len(Statements(call[c])) /\ Legal(Statement(c))
           /\ Len(Statements(call[c])) \in Nat
           /\ stage[c] \in Stages /\ got[c] \in SUBSET Row /\ broken[c] \in BOOLEAN
           /\ reply[c] \in Replies /\ seen[c] \in [Table -> Content]
           /\ stage = [stage EXCEPT ![c] = stage[c]] /\ step = [step EXCEPT ![c] = step[c]]
           /\ got = [got EXCEPT ![c] = got[c]] /\ broken = [broken EXCEPT ![c] = broken[c]]
           /\ reply = [reply EXCEPT ![c] = reply[c]] /\ seen = [seen EXCEPT ![c] = seen[c]]
           /\ call = [call EXCEPT ![c] = call[c]]
<1>1. TypeOK /\ Working(c)
  BY DEF IInv
<1>2. /\ step[c] \in Nat /\ step[c] > 0 /\ call[c] \in Calls
      /\ step[c] <= Len(Statements(call[c]))
  BY <1>1 DEF TypeOK, Working
<1>3. Len(Statements(call[c])) \in Nat
  BY <1>2, StatementFacts
<1>4. step[c] \in 1..Len(Statements(call[c]))
  BY <1>2, <1>3
<1>5. Legal(Statement(c))
  BY <1>2, <1>4, StatementFacts DEF Statement
<1>6. /\ stage[c] \in Stages /\ got[c] \in SUBSET Row /\ broken[c] \in BOOLEAN
      /\ reply[c] \in Replies /\ seen[c] \in [Table -> Content]
  BY <1>1 DEF TypeOK
<1>7. /\ stage = [stage EXCEPT ![c] = stage[c]] /\ step = [step EXCEPT ![c] = step[c]]
      /\ got = [got EXCEPT ![c] = got[c]] /\ broken = [broken EXCEPT ![c] = broken[c]]
      /\ reply = [reply EXCEPT ![c] = reply[c]] /\ seen = [seen EXCEPT ![c] = seen[c]]
      /\ call = [call EXCEPT ![c] = call[c]]
  BY <1>1 DEF TypeOK
<1> QED
  BY <1>2, <1>3, <1>4, <1>5, <1>6, <1>7

Errors == {"ErrTxStart", "ErrTxRollback", "ErrTxCommit", "ErrDBInsert"}

LEMMA FailureFacts ==
    ASSUME NEW k \in Calls, NEW e \in Errors
    PROVE  /\ Failure(k.op, e) \in Replies
           /\ k.op = "Insert" => Failure(k.op, e) = e
           /\ k.op = "Select" => Failure(k.op, e) = "nil"
           /\ k.op \notin {"Insert", "Select"} =>
                Failure(k.op, e) \in {"ErrDBCreate", "ErrDBDrop", "ErrDBUpdate", "ErrDBDelete", "ErrInitDB"}
<1>1. CASE k.op = "Insert"
  BY <1>1 DEF Failure, Replies, Errors
<1>2. CASE k.op = "Select"
  BY <1>2 DEF Failure, Replies, Errors
<1>3. CASE k.op = "CreateTable"
  BY <1>3 DEF Failure, Replies
<1>4. CASE k.op = "DeleteTable"
  BY <1>4 DEF Failure, Replies
<1>5. CASE k.op = "Update"
  BY <1>5 DEF Failure, Replies
<1>6. CASE k.op = "Delete"
  BY <1>6 DEF Failure, Replies
<1>7. CASE k.op = "Init"
  BY <1>7 DEF Failure, Replies
<1> QED
  BY <1>1, <1>2, <1>3, <1>4, <1>5, <1>6, <1>7, CallFacts

\* The client goes on to its next statement, or has its answer.
LEMMA GoOnKeeps ==
    ASSUME IInv, NEW c \in Client, stage[c] # "done", step[c] < Len(Statements(call[c])),
           GoOn(c), queue' = Append(Others(c), c), UNCHANGED <<call, stopped>>,
           tables' \in [Table -> Content]
    PROVE  IInv'
<1>1. stage' = [stage EXCEPT ![c] = "acquire"] /\ step' = [step EXCEPT ![c] = step[c] + 1]
      /\ got' = [got EXCEPT ![c] = {}] /\ broken' = [broken EXCEPT ![c] = FALSE]
      /\ seen' = seen /\ reply' = reply
  BY DEF GoOn
<1>2. "acquire" \in Stages /\ "acquire" # "done" /\ "acquire" # "commit" /\ "acquire" \notin Lending
  BY DEF Stages, Lending
<1>3. step[c] + 1 \in Nat /\ step[c] + 1 > 0 /\ step[c] + 1 # 0
      /\ step[c] + 1 <= Len(Statements(call[c]))
  BY AtWork
<1>4. stopped' \in {"no", "closed", "cancelled"}
  BY DEF IInv, TypeOK
<1>5. /\ reply' = [reply EXCEPT ![c] = reply[c]] /\ seen' = [seen EXCEPT ![c] = seen[c]]
      /\ call' = [call EXCEPT ![c] = call[c]] /\ call[c] \in Calls /\ reply[c] \in Replies
      /\ seen[c] \in [Table -> Content]
  BY <1>1, AtWork
<1>6. Moves(c, "acquire", step[c] + 1, {}, FALSE, reply[c], seen[c], call[c])
  BY <1>1, <1>2, <1>3, <1>5 DEF Moves
<1> QED
  BY <1>4, <1>6, ClientStep

LEMMA AnswerKeeps ==
    ASSUME IInv, NEW c \in Client, stage[c] # "done", NEW rs \in SUBSET Row, NEW e \in Replies,
           Answer(c, rs, e), queue' = Others(c), UNCHANGED <<call, stopped>>,
           tables' \in [Table -> Content]
    PROVE  IInv'
<1>1. stage' = [stage EXCEPT ![c] = "done"] /\ step' = [step EXCEPT ![c] = 0]
      /\ got' = [got EXCEPT ![c] = rs] /\ broken' = [broken EXCEPT ![c] = FALSE]
      /\ seen' = seen /\ reply' = [reply EXCEPT ![c] = e]
  BY DEF Answer
<1>2. "done" \in Stages /\ "acquire" # "done" /\ "done" # "commit" /\ "done" \notin Lending
  BY DEF Stages, Lending
<1>3. 0 \in Nat /\ ~ (0 > 0)
  OBVIOUS
<1>4. stopped' \in {"no", "closed", "cancelled"}
  BY DEF IInv, TypeOK
<1>5. /\ seen' = [seen EXCEPT ![c] = seen[c]]
      /\ call' = [call EXCEPT ![c] = call[c]] /\ call[c] \in Calls
      /\ seen[c] \in [Table -> Content]
  BY <1>1, AtWork
<1>6. Moves(c, "done", 0, rs, FALSE, e, seen[c], call[c])
  BY <1>1, <1>2, <1>3, <1>5 DEF Moves
<1> QED
  BY <1>4, <1>6, ClientStep

LEMMA FailedKeeps ==
    ASSUME IInv, NEW c \in Client, stage[c] # "done", NEW e \in Errors,
           Failed(c, e, Others(c)), UNCHANGED <<call, stopped>>, tables' \in [Table -> Content]
    PROVE  IInv'
<1>1. CASE call[c].op = "DeleteTable" /\ step[c] = 1
  <2>1. step[c] < Len(Statements(call[c]))
    BY <1>1, AtWork, StatementFacts
  <2> QED
    BY <1>1, <2>1, GoOnKeeps DEF Failed
<1>2. CASE ~ (call[c].op = "DeleteTable" /\ step[c] = 1)
  <2>1. Failure(call[c].op, e) \in Replies /\ {} \in SUBSET Row
    BY AtWork, FailureFacts
  <2> QED
    BY <1>2, <2>1, AnswerKeeps DEF Failed
<1> QED
  BY <1>1, <1>2

LEMMA SucceededKeeps ==
    ASSUME IInv, NEW c \in Client, stage[c] = "commit", Succeeded(c),
           UNCHANGED <<call, stopped>>, tables' \in [Table -> Content]
    PROVE  IInv'
<1>1. Others(c) = queue /\ stage[c] # "done" /\ got[c] \in SUBSET Row
      /\ "ok" \in Replies /\ "ErrDBSelect" \in Replies
  BY AtWork DEF Others, Replies
<1>2. CASE call[c].op = "DeleteTable" /\ step[c] = 1 /\ got[c] # {}
  BY <1>1, <1>2, AnswerKeeps DEF Succeeded
<1>3. CASE ~ (call[c].op = "DeleteTable" /\ step[c] = 1 /\ got[c] # {})
           /\ step[c] < Len(Statements(call[c]))
  BY <1>1, <1>3, GoOnKeeps DEF Succeeded
<1>4. CASE ~ (call[c].op = "DeleteTable" /\ step[c] = 1 /\ got[c] # {})
           /\ ~ (step[c] < Len(Statements(call[c])))
  BY <1>1, <1>4, AnswerKeeps DEF Succeeded
<1> QED
  BY <1>2, <1>3, <1>4

-----------------------------------------------------------------------------
(* Every step keeps the invariant                                          *)

LEMMA CallKeeps == ASSUME IInv, NEW c \in Client, Call(c) PROVE IInv'
<1>1. PICK k \in Offered : call' = [call EXCEPT ![c] = k]
  BY DEF Call
<1>2. /\ stage[c] = "done" /\ stage' = [stage EXCEPT ![c] = "acquire"]
      /\ queue' = Append(queue, c) /\ step' = [step EXCEPT ![c] = 1]
      /\ got' = [got EXCEPT ![c] = {}] /\ reply' = [reply EXCEPT ![c] = "none"]
      /\ UNCHANGED <<tables, stopped, seen, broken>>
  BY DEF Call
<1>3. /\ "acquire" \in Stages /\ "acquire" \notin Lending /\ "none" \in Replies
  BY DEF Stages, Lending, Replies
<1>4. k \in Calls /\ 1 \in Nat /\ 1 <= Len(Statements(k))
  <2>1. k \in Calls
    BY CallAssumption
  <2> QED
    BY <2>1, StatementFacts
<1>5. /\ broken = [broken EXCEPT ![c] = broken[c]] /\ broken[c] \in BOOLEAN
      /\ seen = [seen EXCEPT ![c] = seen[c]] /\ seen[c] \in [Table -> Content]
  BY DEF IInv, TypeOK
<1>6. Others(c) = queue
  BY <1>2 DEF Others
<1>7. Moves(c, "acquire", 1, {}, broken[c], "none", seen[c], k)
  BY <1>1, <1>2, <1>3, <1>4, <1>5, <1>6 DEF Moves
<1>8. tables' \in [Table -> Content] /\ stopped' \in {"no", "closed", "cancelled"}
  BY <1>2 DEF IInv, TypeOK
<1> QED
  BY <1>7, <1>8, ClientStep

LEMMA AcquireKeeps == ASSUME IInv, NEW c \in Client, Acquire(c) PROVE IInv'
<1>1. /\ queue # << >> /\ Head(queue) = c /\ Free /\ stage' = [stage EXCEPT ![c] = "begin"]
      /\ queue' = Tail(queue) /\ UNCHANGED <<tables, stopped, client>>
  BY DEF Acquire
<1>2. stage[c] = "acquire"
  <2>1. queue \in Seq(Client) /\ Once(queue)
    BY DEF IInv, TypeOK, Queued
  <2>2. In(queue, c)
    BY <1>1, <2>1, TailRemoved
  <2> QED
    BY <2>2 DEF IInv, Queued
<1>3. "begin" \in Stages /\ "begin" \in Lending /\ "acquire" # "begin"
  BY DEF Stages, Lending
<1>4. Moves(c, "begin", step[c], got[c], broken[c], reply[c], seen[c], call[c])
  <2>1. /\ got' = got /\ broken' = broken /\ reply' = reply /\ seen' = seen /\ step' = step
        /\ call' = call
    BY <1>1 DEF client
  <2>2. step[c] # 0 /\ step[c] <= Len(Statements(call[c]))
    BY <1>2, AtWork
  <2> QED
    BY <1>1, <1>2, <1>3, <2>1, <2>2, AtWork DEF Moves
<1>5. tables' \in [Table -> Content] /\ stopped' \in {"no", "closed", "cancelled"}
  BY <1>1 DEF IInv, TypeOK
<1> QED
  BY <1>4, <1>5, ClientStep

LEMMA AcquireFailsKeeps == ASSUME IInv, NEW c \in Client, AcquireFails(c) PROVE IInv'
<1>1. /\ stage[c] = "acquire" /\ Failed(c, "ErrTxStart", Without(c))
      /\ UNCHANGED <<tables, stopped, call>>
  BY DEF AcquireFails
<1>2. Others(c) = Without(c) /\ "ErrTxStart" \in Errors /\ stage[c] # "done"
  BY <1>1 DEF Others, Errors
<1>3. tables' \in [Table -> Content]
  BY <1>1 DEF IInv, TypeOK
<1> QED
  BY <1>1, <1>2, <1>3, FailedKeeps

\* A client at a lending stage keeps its connection while it stays at one.
LEMMA StaysKeeps ==
    ASSUME IInv, NEW c \in Client, stage[c] \in Lending, NEW st \in Lending,
           stage' = [stage EXCEPT ![c] = st], queue' = queue,
           NEW rs \in SUBSET Row, NEW b \in BOOLEAN, NEW ts \in [Table -> Content],
           got' = [got EXCEPT ![c] = rs], broken' = [broken EXCEPT ![c] = b],
           seen' = [seen EXCEPT ![c] = ts],
           st = "commit" /\ Statement(c).kind # "select" => rs = {} /\ ~ b,
           UNCHANGED <<tables, stopped, call, step, reply>>
    PROVE  IInv'
<1>1. /\ st \in Stages /\ st # "done" /\ st # "acquire"
      /\ stage[c] # "done" /\ stage[c] # "acquire"
  BY DEF Lending, Stages
<1>2. Others(c) = queue /\ c \in Holders
  BY <1>1 DEF Others, Holders, Lending
<1>3. Moves(c, st, step[c], rs, b, reply[c], ts, call[c])
  <2>1. step[c] # 0 /\ step[c] <= Len(Statements(call[c]))
    BY <1>1, AtWork
  <2>2. st = "commit" /\ Statements(call[c])[step[c]].kind # "select" => rs = {} /\ ~ b
    BY DEF Statement
  <2>3. /\ step' = [step EXCEPT ![c] = step[c]] /\ reply' = [reply EXCEPT ![c] = reply[c]]
        /\ call' = [call EXCEPT ![c] = call[c]]
        /\ step[c] \in Nat /\ reply[c] \in Replies /\ call[c] \in Calls
    BY <1>1, AtWork
  <2> QED
    BY <1>1, <1>2, <2>1, <2>2, <2>3 DEF Moves
<1>4. tables' \in [Table -> Content] /\ stopped' \in {"no", "closed", "cancelled"}
  BY DEF IInv, TypeOK
<1> QED
  BY <1>3, <1>4, ClientStep

LEMMA BeginTxKeeps == ASSUME IInv, NEW c \in Client, BeginTx(c) PROVE IInv'
<1>1. stage[c] = "begin" /\ stage[c] # "done" /\ stage[c] \in Lending /\ Others(c) = queue
      /\ UNCHANGED <<tables, stopped>> /\ "exec" \in Lending /\ "exec" # "commit"
  BY DEF BeginTx, Lending, Others
<1>2. CASE stage' = [stage EXCEPT ![c] = "exec"] /\ UNCHANGED <<queue, client>>
  <2>1. /\ got' = [got EXCEPT ![c] = got[c]] /\ broken' = [broken EXCEPT ![c] = broken[c]]
        /\ seen' = [seen EXCEPT ![c] = seen[c]] /\ got[c] \in SUBSET Row
        /\ broken[c] \in BOOLEAN /\ seen[c] \in [Table -> Content]
        /\ UNCHANGED <<call, step, reply>>
    BY <1>1, <1>2, AtWork DEF client
  <2> QED
    BY <1>1, <1>2, <2>1, StaysKeeps
<1>3. CASE Failed(c, "ErrTxStart", queue) /\ call' = call
  <2>1. tables' \in [Table -> Content] /\ "ErrTxStart" \in Errors
    BY <1>1 DEF IInv, TypeOK, Errors
  <2> QED
    BY <1>1, <1>3, <2>1, FailedKeeps
<1> QED
  BY <1>2, <1>3 DEF BeginTx

LEMMA ExecKeeps == ASSUME IInv, NEW c \in Client, Exec(c) PROVE IInv'
<1> DEFINE s == Statement(c)
<1>1. /\ stage[c] = "exec" /\ stage[c] # "done" /\ stage[c] \in Lending
      /\ UNCHANGED <<tables, stopped, queue, call, step, reply>>
      /\ "commit" \in Lending /\ "rollback" \in Lending /\ "rollback" # "commit"
  BY DEF Exec, Lending
<1>2. tables \in [Table -> Content] /\ Legal(s)
  BY <1>1, AtWork DEF IInv, TypeOK
<1>3. ASSUME NEW rows, NEW cut \in BOOLEAN, Seen(c, rows, cut), rows \in SUBSET Row,
             s.kind # "select" => rows = {} /\ ~ cut
      PROVE  IInv'
  <2>1. /\ stage' = [stage EXCEPT ![c] = "commit"] /\ seen' = [seen EXCEPT ![c] = tables]
        /\ got' = [got EXCEPT ![c] = rows] /\ broken' = [broken EXCEPT ![c] = cut]
    BY <1>3 DEF Seen
  <2> QED
    BY <1>1, <1>2, <1>3, <2>1, StaysKeeps
<1>4. CASE \E rows \in IF s.kind = "select" THEN Selected(s, tables) ELSE {{}} : Seen(c, rows, FALSE)
  <2>1. PICK rows \in IF s.kind = "select" THEN Selected(s, tables) ELSE {{}} : Seen(c, rows, FALSE)
    BY <1>4
  <2>2. rows \in SUBSET Row
    BY <1>2, SelectTables
  <2> QED
    BY <2>1, <2>2, <1>3
<1>5. CASE /\ s.kind = "select"
           /\ \E rows \in Selected(s, tables) : \E some \in (SUBSET rows) \ {rows} : Seen(c, some, TRUE)
  <2>1. PICK rows \in Selected(s, tables) : \E some \in (SUBSET rows) \ {rows} : Seen(c, some, TRUE)
    BY <1>5
  <2>2. PICK some \in (SUBSET rows) \ {rows} : Seen(c, some, TRUE)
    BY <2>1
  <2>3. rows \subseteq Row
    BY <1>2, <1>5, SelectTables
  <2> QED
    BY <2>2, <2>3, <1>3, <1>5
<1>6. CASE stage' = [stage EXCEPT ![c] = "rollback"] /\ UNCHANGED <<seen, got, broken>>
  <2>1. /\ got' = [got EXCEPT ![c] = got[c]] /\ broken' = [broken EXCEPT ![c] = broken[c]]
        /\ seen' = [seen EXCEPT ![c] = seen[c]] /\ got[c] \in SUBSET Row
        /\ broken[c] \in BOOLEAN /\ seen[c] \in [Table -> Content]
    BY <1>1, <1>6, AtWork
  <2> QED
    BY <1>1, <1>6, <2>1, StaysKeeps
<1> QED
  BY <1>4, <1>5, <1>6 DEF Exec

LEMMA RollbackKeeps == ASSUME IInv, NEW c \in Client, Rollback(c) PROVE IInv'
<1>1. stage[c] = "rollback" /\ stage[c] # "done" /\ Others(c) = queue
      /\ UNCHANGED <<tables, stopped, call>>
  BY DEF Rollback, Others
<1>2. tables' \in [Table -> Content] /\ "ErrDBInsert" \in Errors /\ "ErrTxRollback" \in Errors
  BY <1>1 DEF IInv, TypeOK, Errors
<1> QED
  BY <1>1, <1>2, FailedKeeps DEF Rollback

\* What a COMMIT makes of the tables.
LEMMA CommitTables ==
    ASSUME IInv, NEW c \in Client, stage[c] = "commit", Applicable(c)
    PROVE  /\ Then(Statement(c), tables) \in [Table -> Content]
           /\ Statement(c).kind = "select" => Then(Statement(c), tables) = tables
<1>1. Legal(Statement(c)) /\ tables \in [Table -> Content]
  BY AtWork DEF IInv, TypeOK
<1>2. CASE Statement(c).kind = "select"
  BY <1>1, <1>2, SelectTables
<1>3. CASE Statement(c).kind # "select"
  BY <1>1, <1>3, ThenTables DEF Applicable
<1> QED
  BY <1>2, <1>3

LEMMA CommitKeeps == ASSUME IInv, NEW c \in Client, Commit(c) PROVE IInv'
<1>1. /\ stage[c] = "commit" /\ stage[c] # "done" /\ Others(c) = queue
      /\ "ErrTxCommit" \in Errors /\ UNCHANGED <<stopped, call>>
  BY DEF Commit, Others, Errors
<1>2. tables' \in [Table -> Content]
  BY <1>1, CommitTables DEF Commit, IInv, TypeOK
<1> QED
  BY <1>1, <1>2, FailedKeeps, SucceededKeeps DEF Commit

LEMMA RestartKeeps == ASSUME IInv, Restart PROVE IInv'
<1>1. TypeOK'
  <2>1. queue' \in Seq(Client)
    BY EmptySeq DEF Restart
  <2>2. "done" \in Stages /\ "none" \in Replies /\ Idle \in Calls \cup {Idle}
    BY DEF Stages, Replies
  <2> QED
    BY <2>1, <2>2 DEF Restart, IInv, TypeOK
<1>2. \A c \in Client : Working(c)'
  BY DEF Restart, Working
<1>3. Queued'
  <2>1. DOMAIN << >> = {}
    OBVIOUS
  <2> QED
    BY <2>1 DEF Restart, Queued, In, Once
<1>4. Lent'
  <2>1. Holders' = {}
    BY DEF Restart, Holders
  <2> QED
    BY <2>1, FS_EmptySet, PoolAssumption DEF Lent
<1> QED
  BY <1>1, <1>2, <1>3, <1>4 DEF IInv

LEMMA Starts == ASSUME Init PROVE IInv
<1>1. TypeOK
  <2>1. queue \in Seq(Client)
    BY EmptySeq DEF Init
  <2>2. "done" \in Stages /\ "none" \in Replies /\ Idle \in Calls \cup {Idle}
    BY DEF Stages, Replies
  <2> QED
    BY <2>1, <2>2, CallAssumption DEF Init, TypeOK
<1>2. \A c \in Client : Working(c)
  BY DEF Init, Working
<1>3. Queued
  <2>1. DOMAIN << >> = {}
    OBVIOUS
  <2> QED
    BY <2>1 DEF Init, Queued, In, Once
<1>4. Lent
  <2>1. Holders = {}
    BY DEF Init, Holders
  <2> QED
    BY <2>1, FS_EmptySet, PoolAssumption DEF Lent
<1> QED
  BY <1>1, <1>2, <1>3, <1>4 DEF IInv

\* What leaves all of the clients alone keeps the invariant.
LEMMA AloneKeeps ==
    ASSUME IInv, UNCHANGED <<tables, queue, stage, client>>,
           stopped' \in {"no", "closed", "cancelled"}
    PROVE  IInv'
<1> USE DEF client
<1>1. TypeOK'
  BY DEF IInv, TypeOK
<1>2. \A c \in Client : Working(c)'
  BY DEF IInv, Working, Statement
<1>3. Queued' /\ Lent'
  BY DEF IInv, Queued, Lent, Holders
<1> QED
  BY <1>1, <1>2, <1>3 DEF IInv

LEMMA Steps == IInv /\ [Next]_vars => IInv'
<1> SUFFICES ASSUME IInv, [Next]_vars PROVE IInv'
  OBVIOUS
<1>1. CASE \E c \in Client : Call(c) \/ Advance(c)
  BY <1>1, CallKeeps, AcquireKeeps, AcquireFailsKeeps, BeginTxKeeps, ExecKeeps, RollbackKeeps,
     CommitKeeps DEF Advance
<1>2. CASE Cancel \/ Disconnect
  BY <1>2, AloneKeeps DEF Cancel, Disconnect
<1>3. CASE Restart
  BY <1>3, RestartKeeps
<1>4. CASE UNCHANGED vars
  <2>1. stopped' \in {"no", "closed", "cancelled"} /\ UNCHANGED <<tables, queue, stage, client>>
    BY <1>4 DEF vars, IInv, TypeOK
  <2> QED
    BY <2>1, AloneKeeps
<1> QED
  BY <1>1, <1>2, <1>3, <1>4 DEF Next

LEMMA Invariant == Spec => []IInv
  BY Starts, Steps, PTL DEF Spec

\* Every variable has its type: what a statement makes of a table is a table.
THEOREM TypeCorrect == Spec => []TypeOK
<1>1. IInv => TypeOK
  BY DEF IInv
<1> QED
  BY <1>1, Invariant, PTL

\* The pool lends no more than it has, and a goroutine waits for a connection, in
\* one place of the queue, exactly while it holds none.
THEOREM NeverHoldsAndWaits == Spec => []NoHoldAndWait
<1>1. ASSUME IInv PROVE NoHoldAndWait
  <2>1. Cardinality(Holders) <= MaxConns
    BY <1>1 DEF IInv, Lent
  <2>2. ASSUME NEW c \in Client
        PROVE  Cardinality({i \in DOMAIN queue : queue[i] = c})
                 = IF stage[c] = "done" \/ c \in Holders THEN 0 ELSE 1
    <3> DEFINE places == {i \in DOMAIN queue : queue[i] = c}
    <3>1. stage[c] \in Stages
      BY <1>1 DEF IInv, TypeOK
    <3>2. stage[c] = "acquire" <=> ~ (stage[c] = "done" \/ c \in Holders)
      BY <3>1 DEF Stages, Holders
    <3>3. CASE stage[c] = "acquire"
      <4>1. PICK i \in DOMAIN queue : queue[i] = c
        BY <1>1, <3>3 DEF IInv, Queued, In
      <4>2. places = {i}
        BY <1>1, <4>1 DEF IInv, Queued, Once
      <4> QED
        BY <4>2, <3>2, <3>3, FS_Singleton
    <3>4. CASE stage[c] # "acquire"
      <4>1. places = {}
        BY <1>1, <3>4 DEF IInv, Queued, In
      <4> QED
        BY <4>1, <3>2, <3>4, FS_EmptySet
    <3> QED
      BY <3>3, <3>4
  <2> QED
    BY <2>1, <2>2 DEF NoHoldAndWait
<1> QED
  BY <1>1, Invariant, PTL

-----------------------------------------------------------------------------
(* The methods implement AtomicTables                                      *)

\* The variables that the refinement mapping computes.
Done == [c \in Client |-> /\ stage[c] = "commit" /\ ~broken[c]
                          /\ Statement(c).kind = "select"]
Got  == [c \in Client |-> IF broken[c] THEN {} ELSE got[c]]

\* Statements mean the same in both modules.
LEMMA SameStatements == \A k : Atomic!Statements(k) = Statements(k)
  BY DEF Atomic!Statements, Statements

LEMMA SameCardinality == \A S : Atomic!Cardinality(S) = Cardinality(S)
  BY Zenon DEF Atomic!Cardinality, Cardinality

LEMMA SameCalls == Atomic!Calls = Calls
<1>1. Atomic!Row = Row
  BY DEF Atomic!Row, Row
<1>2. Atomic!Partial = Partial
  BY DEF Atomic!Partial, Partial
<1> QED
  BY <1>1, <1>2 DEF Atomic!Calls, Calls, Atomic!InitDB, InitDB

LEMMA SameEffect ==
    ASSUME NEW s, NEW ts
    PROVE  /\ Atomic!Then(s, ts) = Then(s, ts)
           /\ Atomic!Refused(s, ts) <=> Refused(s, ts)
           /\ Atomic!Selected(s, ts) = Selected(s, ts)
<1>1. \A w, rows : Atomic!Matching(w, rows) = Matching(w, rows)
  BY DEF Atomic!Matching, Matching
<1>2. \A row, set : Atomic!Edited(row, set) = Edited(row, set)
  BY DEF Atomic!Edited, Edited
<1>3. \A rows : Atomic!After(s, rows) = After(s, rows)
  BY <1>1, <1>2, Zenon DEF Atomic!After, After
<1>4. Atomic!Then(s, ts) = Then(s, ts)
  BY <1>3 DEF Atomic!Then, Then
<1>5. Atomic!Selected(s, ts) = Selected(s, ts)
  BY <1>1, Zenon DEF Atomic!Selected, Selected, Atomic!Found, Found
<1>6. \A w : Atomic!WhereMapString(w) = WhereMapString(w)
  BY SameCardinality DEF Atomic!WhereMapString, WhereMapString
<1>7. \A rows : Atomic!KeysUnique(rows) <=> KeysUnique(rows)
  BY DEF Atomic!KeysUnique, KeysUnique
<1>8. \A new, rows : Atomic!KeyTaken(new, rows) <=> KeyTaken(new, rows)
  BY DEF Atomic!KeyTaken, KeyTaken
<1>9. Atomic!Refused(s, ts) <=> Refused(s, ts)
  <2> DEFINE A(t) ==
         IF ts[t] = Nil THEN TRUE
         ELSE IF s.kind = "insert" THEN ~ Atomic!KeysUnique(s.rows) \/ Atomic!KeyTaken(s.rows, ts[t])
         ELSE \/ Atomic!WhereMapString(s.where) = {}
              \/ s.kind = "update" /\ \/ DOMAIN s.set = {}
                                      \/ ~ Atomic!KeysUnique(Atomic!After(s, ts[t]))
                                      \/ Atomic!Cardinality(Atomic!After(s, ts[t])) # Atomic!Cardinality(ts[t])
         B(t) ==
         IF ts[t] = Nil THEN TRUE
         ELSE IF s.kind = "insert" THEN ~ KeysUnique(s.rows) \/ KeyTaken(s.rows, ts[t])
         ELSE \/ WhereMapString(s.where) = {}
              \/ s.kind = "update" /\ \/ DOMAIN s.set = {}
                                      \/ ~ KeysUnique(After(s, ts[t]))
                                      \/ Cardinality(After(s, ts[t])) # Cardinality(ts[t])
  <2>1. \A t : A(t) <=> B(t)
    BY <1>3, <1>6, <1>7, <1>8, SameCardinality
  <2>2. Atomic!Refused(s, ts) <=> s.kind \notin {"create", "drop"} /\ \E t \in s.on : A(t)
    BY Zenon DEF Atomic!Refused
  <2>3. Refused(s, ts) <=> s.kind \notin {"create", "drop"} /\ \E t \in s.on : B(t)
    BY Zenon DEF Refused
  <2> HIDE DEF A, B
  <2> QED
    BY <2>1, <2>2, <2>3
<1> QED
  BY <1>4, <1>5, <1>9

LEMMA AtomicStarts == ASSUME Init PROVE Atomic!Init
  BY DEF Init, Atomic!Init, Atomic!Idle, Idle

\* The values that the mapping gives to a client at stage st of a call k.
DoneAt(st, b, k, n) == st = "commit" /\ ~ b /\ Statements(k)[n].kind = "select"
GotAt(b, rs)        == IF b THEN {} ELSE rs

\* The step takes client c there.
Shifts(c, st, n, rs, b, k) ==
    /\ b \in BOOLEAN
    /\ stage' = [stage EXCEPT ![c] = st] /\ step' = [step EXCEPT ![c] = n]
    /\ got' = [got EXCEPT ![c] = rs] /\ broken' = [broken EXCEPT ![c] = b]
    /\ call' = [call EXCEPT ![c] = k]

\* A step of one client changes what is mapped of that client only.
LEMMA Mapped ==
    ASSUME TypeOK, NEW c \in Client, NEW st, NEW n, NEW rs, NEW b, NEW k,
           Shifts(c, st, n, rs, b, k)
    PROVE  /\ Done' = [Done EXCEPT ![c] = DoneAt(st, b, k, n)]
           /\ Got' = [Got EXCEPT ![c] = GotAt(b, rs)]
           /\ Done'[c] = DoneAt(st, b, k, n) /\ Got'[c] = GotAt(b, rs)
<1>1. /\ stage'[c] = st /\ step'[c] = n /\ got'[c] = rs /\ broken'[c] = b /\ call'[c] = k
      /\ \A d \in Client : d # c => /\ stage'[d] = stage[d] /\ step'[d] = step[d]
                                    /\ got'[d] = got[d] /\ broken'[d] = broken[d]
                                    /\ call'[d] = call[d]
  BY DEF TypeOK, Shifts
<1>2. Done' = [d \in Client |-> stage'[d] = "commit" /\ ~broken'[d]
                                  /\ Statements(call'[d])[step'[d]].kind = "select"]
  BY DEF Done, Statement
<1>3. \A d \in Client : d # c =>
        ((stage'[d] = "commit" /\ ~broken'[d] /\ Statements(call'[d])[step'[d]].kind = "select")
            = (stage[d] = "commit" /\ ~broken[d] /\ Statements(call[d])[step[d]].kind = "select"))
  BY <1>1
<1>4. (stage'[c] = "commit" /\ ~broken'[c] /\ Statements(call'[c])[step'[c]].kind = "select")
        = DoneAt(st, b, k, n)
  BY <1>1 DEF DoneAt
<1>5. Done = [d \in Client |-> stage[d] = "commit" /\ ~broken[d]
                                 /\ Statements(call[d])[step[d]].kind = "select"]
  BY DEF Done, Statement
<1>6. Done' = [Done EXCEPT ![c] = DoneAt(st, b, k, n)] /\ Done'[c] = DoneAt(st, b, k, n)
  BY <1>2, <1>3, <1>4, <1>5
<1>7. Got' = [Got EXCEPT ![c] = GotAt(b, rs)] /\ Got'[c] = GotAt(b, rs)
  BY <1>1 DEF Got, GotAt
<1> QED
  BY <1>6, <1>7

\* A step of the methods in which the statement of client c acts, or does not,
\* and in which the call stays where it is, goes on or is answered.
Carries(c, acts, st, n, rs, b, e) ==
    LET k == call[c]
        s == Statement(c)
        D == DoneAt(st, b, k, n)
        G == GotAt(b, rs) IN
    /\ acts \in BOOLEAN /\ b \in BOOLEAN
    /\ stage' = [stage EXCEPT ![c] = st] /\ step' = [step EXCEPT ![c] = n]
    /\ got' = [got EXCEPT ![c] = rs] /\ broken' = [broken EXCEPT ![c] = b]
    /\ reply' = [reply EXCEPT ![c] = e] /\ call' = call
    /\ acts => /\ ~ Done[c] /\ ~ Refused(s, tables) /\ tables' = Then(s, tables)
               /\ IF s.kind = "select" THEN G \in Selected(s, tables) ELSE G = {}
    /\ ~ acts => tables' = tables /\ G \in {Got[c], {}}
    /\ \/ n = step[c] /\ e = reply[c] /\ (D <=> Done[c] \/ acts)
       \/ /\ step[c] < Len(Statements(k)) /\ n = step[c] + 1 /\ e = reply[c] /\ ~ D
          /\ k.op = "Init" => Done[c] \/ acts
       \/ n = 0 /\ ~ D /\ Atomic!Truthful(k, step[c], Done[c] \/ acts, e)

LEMMA Carried ==
    ASSUME IInv, NEW c \in Client, stage[c] # "done", NEW acts, NEW st, NEW n, NEW rs, NEW b, NEW e,
           Carries(c, acts, st, n, rs, b, e)
    PROVE  Atomic!Carry(c)
<1> DEFINE k == call[c]
           s == Statement(c)
           D == DoneAt(st, b, k, n)
           G == GotAt(b, rs)
<1>1. /\ TypeOK /\ step[c] > 0 /\ call = [call EXCEPT ![c] = k]
      /\ step = [step EXCEPT ![c] = step[c]] /\ reply = [reply EXCEPT ![c] = reply[c]]
      /\ DOMAIN reply = Client /\ DOMAIN step = Client
  BY AtWork DEF IInv, TypeOK
<1>2. /\ Done' = [Done EXCEPT ![c] = D] /\ Got' = [Got EXCEPT ![c] = G]
      /\ Got'[c] = G
  <2>1. Shifts(c, st, n, rs, b, k)
    BY <1>1 DEF Carries, Shifts
  <2> HIDE DEF k
  <2> QED
    BY <1>1, <2>1, Mapped
<1>3. /\ Done[c] \in BOOLEAN /\ D \in BOOLEAN /\ acts \in BOOLEAN
  BY DEF Done, DoneAt, Carries
<1>4. Atomic!Statements(k)[step[c]] = s /\ Len(Atomic!Statements(k)) = Len(Statements(k))
  BY SameStatements DEF Statement
<1>5. acts \in {FALSE, ~ Done[c]}
  BY <1>3 DEF Carries
<1>6. IF acts THEN Atomic!Effect(s, Got'[c]) ELSE tables' = tables
  <2>1. CASE acts
    BY <2>1, <1>2, SameEffect DEF Atomic!Effect, Carries
  <2>2. CASE ~ acts
    BY <2>2 DEF Carries
  <2> QED
    BY <2>1, <2>2
<1>7. (acts \/ Got'[c] \in {Got[c], {}}) /\ Got' = [Got EXCEPT ![c] = Got'[c]]
  BY <1>2 DEF Carries
<1>8. \/ /\ step' = step /\ reply' = reply
         /\ Done' = [Done EXCEPT ![c] = Done[c] \/ acts]
      \/ /\ step[c] < Len(Atomic!Statements(k)) /\ step' = [step EXCEPT ![c] = step[c] + 1]
         /\ k.op = "Init" => Done[c] \/ acts
         /\ reply' = reply
         /\ Done' = [Done EXCEPT ![c] = FALSE]
      \/ /\ step' = [step EXCEPT ![c] = 0]
         /\ Done' = [Done EXCEPT ![c] = FALSE]
         /\ reply' = [reply EXCEPT ![c] = reply'[c]]
         /\ Atomic!Truthful(k, step[c], Done[c] \/ acts, reply'[c])
  <2>1. reply' = [reply EXCEPT ![c] = e] /\ step' = [step EXCEPT ![c] = n] /\ reply'[c] = e
    BY <1>1 DEF Carries
  <2>2. CASE n = step[c] /\ e = reply[c] /\ (D <=> Done[c] \/ acts)
    <3>1. D = (Done[c] \/ acts)
      BY <1>3, <2>2
    <3> QED
      BY <1>1, <1>2, <2>1, <2>2, <3>1
  <2>3. CASE /\ step[c] < Len(Statements(k)) /\ n = step[c] + 1 /\ e = reply[c] /\ ~ D
             /\ k.op = "Init" => Done[c] \/ acts
    <3>1. D = FALSE
      BY <1>3, <2>3
    <3> QED
      BY <1>1, <1>2, <1>4, <2>1, <2>3, <3>1
  <2>4. CASE n = 0 /\ ~ D /\ Atomic!Truthful(k, step[c], Done[c] \/ acts, e)
    <3>1. D = FALSE
      BY <1>3, <2>4
    <3> QED
      BY <1>2, <2>1, <2>4, <3>1
  <2> QED
    BY <2>2, <2>3, <2>4 DEF Carries
<1>9. call' = call
  BY DEF Carries
<1> HIDE DEF D, G
<1> QED
  BY <1>1, <1>4, <1>5, <1>6, <1>7, <1>8, <1>9 DEF Atomic!Carry, Done, Got

\* What the mapping says of a client, by its stage.
LEMMA MappedAt ==
    ASSUME IInv, NEW c \in Client, stage[c] # "done"
    PROVE  /\ Done[c] <=> DoneAt(stage[c], broken[c], call[c], step[c])
           /\ Got[c] = GotAt(broken[c], got[c])
           /\ stage[c] # "commit" => ~ Done[c]
           /\ stage[c] = "commit" /\ Statement(c).kind # "select" => ~ Done[c] /\ Got[c] = {}
           /\ stage[c] = "commit" /\ Statement(c).kind = "select" /\ ~ broken[c] => Done[c]
  BY DEF Done, Got, DoneAt, GotAt, Statement, IInv, Working

\* The call is over with a failure, or DeleteTable goes on to its DROP.
LEMMA FailedRefines ==
    ASSUME IInv, NEW c \in Client, stage[c] # "done", NEW acts \in BOOLEAN, NEW e \in Errors, NEW q,
           Failed(c, e, q), call' = call, ~ acts => tables' = tables,
           acts => /\ ~ Done[c] /\ Statement(c).kind # "select" /\ ~ Refused(Statement(c), tables)
                   /\ tables' = Then(Statement(c), tables),
           e # "ErrTxCommit" => ~ Done[c] /\ ~ acts
    PROVE  Atomic!Carry(c)
<1>1. /\ call[c] \in Calls /\ step[c] \in Nat /\ reply = [reply EXCEPT ![c] = reply[c]]
      /\ ~ DoneAt("done", FALSE, call[c], 0) /\ ~ DoneAt("acquire", FALSE, call[c], step[c] + 1)
      /\ GotAt(FALSE, {}) = {}
  BY AtWork DEF DoneAt, GotAt
<1>2. CASE call[c].op = "DeleteTable" /\ step[c] = 1
  <2>1. step[c] < Len(Statements(call[c])) /\ Statement(c).kind = "select" /\ ~ acts
    BY <1>1, <1>2, StatementFacts DEF Statement
  <2>2. /\ stage' = [stage EXCEPT ![c] = "acquire"] /\ step' = [step EXCEPT ![c] = step[c] + 1]
        /\ got' = [got EXCEPT ![c] = {}] /\ broken' = [broken EXCEPT ![c] = FALSE]
        /\ reply' = [reply EXCEPT ![c] = reply[c]]
    BY <1>1, <1>2 DEF Failed, GoOn
  <2>3. Carries(c, acts, "acquire", step[c] + 1, {}, FALSE, reply[c])
    BY <1>1, <1>2, <2>1, <2>2 DEF Carries
  <2> QED
    BY <2>3, Carried
<1>3. CASE ~ (call[c].op = "DeleteTable" /\ step[c] = 1)
  <2> DEFINE f == Failure(call[c].op, e)
  <2>1. /\ stage' = [stage EXCEPT ![c] = "done"] /\ step' = [step EXCEPT ![c] = 0]
        /\ got' = [got EXCEPT ![c] = {}] /\ broken' = [broken EXCEPT ![c] = FALSE]
        /\ reply' = [reply EXCEPT ![c] = f]
    BY <1>3 DEF Failed, Answer
  <2>2. Atomic!Truthful(call[c], step[c], Done[c] \/ acts, f)
    <3>1. CASE call[c].op = "Insert"
      <4>1. f = e
        BY <1>1, <3>1, FailureFacts
      <4>2. e = "ErrTxCommit" \/ e \in {"ErrTxStart", "ErrDBInsert", "ErrTxRollback"}
        BY DEF Errors
      <4> QED
        BY <3>1, <4>1, <4>2 DEF Atomic!Truthful, Atomic!Doubt
    <3>2. CASE call[c].op = "Select"
      <4>1. f = "nil"
        BY <1>1, <3>2, FailureFacts
      <4> QED
        BY <3>2, <4>1 DEF Atomic!Truthful
    <3>3. CASE call[c].op \notin {"Insert", "Select"}
      <4>1. f \in {"ErrDBCreate", "ErrDBDrop", "ErrDBUpdate", "ErrDBDelete", "ErrInitDB"}
        BY <1>1, <3>3, FailureFacts
      <4> QED
        BY <4>1 DEF Atomic!Truthful, Atomic!Doubt
    <3> QED
      BY <3>1, <3>2, <3>3
  <2> HIDE DEF f
  <2>3. Carries(c, acts, "done", 0, {}, FALSE, f)
    BY <1>1, <2>1, <2>2 DEF Carries
  <2> QED
    BY <2>3, Carried
<1> QED
  BY <1>2, <1>3

\* The COMMIT is acknowledged.
LEMMA SucceededRefines ==
    ASSUME IInv, NEW c \in Client, stage[c] = "commit", Succeeded(c), call' = call,
           Applicable(c), tables' = Then(Statement(c), tables)
    PROVE  Atomic!Carry(c)
<1> DEFINE acts == Statement(c).kind # "select"
<1>1. /\ call[c] \in Calls /\ step[c] \in Nat /\ reply = [reply EXCEPT ![c] = reply[c]]
      /\ Len(Statements(call[c])) \in Nat /\ step[c] <= Len(Statements(call[c]))
      /\ \A b, rs : ~ DoneAt("done", b, call[c], 0) /\ ~ DoneAt("acquire", b, call[c], step[c] + 1)
      /\ \A rs : GotAt(FALSE, rs) = rs
  BY AtWork DEF DoneAt, GotAt
<1>2. ~ broken[c] /\ acts \in BOOLEAN /\ Done[c] \in BOOLEAN
  BY DEF Applicable, Done
<1>3. /\ (Done[c] <=> ~ acts) /\ (Done[c] \/ acts) /\ Got[c] = got[c]
      /\ acts => got[c] = {} /\ ~ Refused(Statement(c), tables)
      /\ ~ acts => tables' = tables
  BY <1>2, MappedAt, CommitTables DEF GotAt, Applicable, IInv, Working
<1>4. CASE call[c].op = "DeleteTable" /\ step[c] = 1 /\ got[c] # {}
  <2>1. /\ stage' = [stage EXCEPT ![c] = "done"] /\ step' = [step EXCEPT ![c] = 0]
        /\ got' = [got EXCEPT ![c] = got[c]] /\ broken' = [broken EXCEPT ![c] = FALSE]
        /\ reply' = [reply EXCEPT ![c] = "ErrDBSelect"]
    BY <1>4 DEF Succeeded, Answer
  <2>2. Atomic!Truthful(call[c], step[c], Done[c] \/ acts, "ErrDBSelect")
    BY <1>3, <1>4 DEF Atomic!Truthful
  <2>3. ~ acts
    BY <1>3, <1>4
  <2> HIDE DEF acts
  <2>4. Carries(c, acts, "done", 0, got[c], FALSE, "ErrDBSelect")
    BY <1>1, <1>2, <1>3, <2>1, <2>2, <2>3 DEF Carries
  <2> QED
    BY <2>4, Carried
<1>5. CASE /\ ~ (call[c].op = "DeleteTable" /\ step[c] = 1 /\ got[c] # {})
           /\ step[c] < Len(Statements(call[c]))
  <2>1. /\ stage' = [stage EXCEPT ![c] = "acquire"] /\ step' = [step EXCEPT ![c] = step[c] + 1]
        /\ got' = [got EXCEPT ![c] = {}] /\ broken' = [broken EXCEPT ![c] = FALSE]
        /\ reply' = [reply EXCEPT ![c] = reply[c]]
    BY <1>1, <1>5 DEF Succeeded, GoOn
  <2>2. acts <=> Statement(c).kind # "select"
    OBVIOUS
  <2> HIDE DEF acts
  <2>3. Carries(c, acts, "acquire", step[c] + 1, {}, FALSE, reply[c])
    BY <1>1, <1>2, <1>3, <1>5, <2>1, <2>2 DEF Carries
  <2> QED
    BY <2>3, Carried
<1>6. CASE /\ ~ (call[c].op = "DeleteTable" /\ step[c] = 1 /\ got[c] # {})
           /\ ~ (step[c] < Len(Statements(call[c])))
  <2>1. /\ stage' = [stage EXCEPT ![c] = "done"] /\ step' = [step EXCEPT ![c] = 0]
        /\ got' = [got EXCEPT ![c] = got[c]] /\ broken' = [broken EXCEPT ![c] = FALSE]
        /\ reply' = [reply EXCEPT ![c] = "ok"]
    BY <1>6 DEF Succeeded, Answer
  <2>2. step[c] = Len(Atomic!Statements(call[c]))
    BY <1>1, <1>6, SameStatements
  <2>3. Atomic!Truthful(call[c], step[c], Done[c] \/ acts, "ok")
    BY <1>3, <2>2 DEF Atomic!Truthful
  <2>4. acts <=> Statement(c).kind # "select"
    OBVIOUS
  <2> HIDE DEF acts
  <2>5. Carries(c, acts, "done", 0, got[c], FALSE, "ok")
    BY <1>1, <1>2, <1>3, <2>1, <2>3, <2>4 DEF Carries
  <2> QED
    BY <2>5, Carried
<1> QED
  BY <1>4, <1>5, <1>6

\* The steps that AtomicTables does not see.
LEMMA Unseen ==
    ASSUME TypeOK, NEW c \in Client, stage[c] # "commit", NEW st, st # "commit",
           stage' = [stage EXCEPT ![c] = st], UNCHANGED <<tables, call, step, got, broken, reply>>
    PROVE  UNCHANGED Atomic!vars
<1>1. \A d \in Client : (stage'[d] = "commit") = (stage[d] = "commit")
  BY DEF TypeOK
<1>2. Done' = Done /\ Got' = Got
  BY <1>1 DEF Done, Got, Statement
<1> QED
  BY <1>2 DEF Atomic!vars, Done, Got

LEMMA CallRefines == ASSUME IInv, NEW c \in Client, Call(c) PROVE Atomic!Ask(c)
<1>1. PICK k \in Offered : call' = [call EXCEPT ![c] = k]
  BY DEF Call
<1>2. /\ stage[c] = "done" /\ stage' = [stage EXCEPT ![c] = "acquire"]
      /\ step' = [step EXCEPT ![c] = 1] /\ got' = [got EXCEPT ![c] = {}]
      /\ reply' = [reply EXCEPT ![c] = "none"] /\ broken' = broken /\ tables' = tables
  BY DEF Call
<1>3. /\ TypeOK /\ step[c] = 0 /\ broken = [broken EXCEPT ![c] = broken[c]]
      /\ broken[c] \in BOOLEAN /\ call'[c] = k
  BY <1>1, <1>2 DEF IInv, Working, TypeOK
<1>4. Shifts(c, "acquire", 1, {}, broken[c], k)
  BY <1>1, <1>2, <1>3 DEF Shifts
<1>5. /\ Done' = [Done EXCEPT ![c] = FALSE] /\ Got' = [Got EXCEPT ![c] = {}]
  <2>1. DoneAt("acquire", broken[c], k, 1) = FALSE /\ GotAt(broken[c], {}) = {}
    BY DEF DoneAt, GotAt
  <2> QED
    BY <1>3, <1>4, <2>1, Mapped
<1>6. call'[c] \in Atomic!Calls
  BY <1>3, CallAssumption, SameCalls
<1> QED
  BY <1>1, <1>2, <1>3, <1>5, <1>6 DEF Atomic!Ask, Done, Got

LEMMA AcquireRefines == ASSUME IInv, NEW c \in Client, Acquire(c) PROVE UNCHANGED Atomic!vars
<1>1. /\ queue # << >> /\ Head(queue) = c /\ stage' = [stage EXCEPT ![c] = "begin"]
      /\ UNCHANGED <<tables, call, step, got, broken, reply>>
  BY DEF Acquire, client
<1>2. stage[c] = "acquire"
  <2>1. In(queue, c)
    BY <1>1, TailRemoved DEF IInv, TypeOK, Queued
  <2> QED
    BY <2>1 DEF IInv, Queued
<1> QED
  BY <1>1, <1>2, Unseen DEF IInv

LEMMA ExecRefines ==
    ASSUME IInv, NEW c \in Client, Exec(c)
    PROVE  Atomic!Carry(c) \/ UNCHANGED Atomic!vars
<1> DEFINE s == Statement(c)
<1>1. /\ stage[c] = "exec" /\ stage[c] # "done" /\ UNCHANGED <<tables, queue, call, step, reply>>
  BY DEF Exec
<1>2. /\ ~ Done[c] /\ Legal(s) /\ tables \in [Table -> Content]
      /\ step = [step EXCEPT ![c] = step[c]] /\ reply = [reply EXCEPT ![c] = reply[c]]
      /\ TypeOK
  BY <1>1, MappedAt, AtWork DEF IInv, TypeOK
<1>3. CASE /\ ~ Refused(s, tables)
           /\ \E rows \in IF s.kind = "select" THEN Selected(s, tables) ELSE {{}} : Seen(c, rows, FALSE)
  <2>1. PICK rows \in IF s.kind = "select" THEN Selected(s, tables) ELSE {{}} : Seen(c, rows, FALSE)
    BY <1>3
  <2>2. /\ stage' = [stage EXCEPT ![c] = "commit"] /\ got' = [got EXCEPT ![c] = rows]
        /\ broken' = [broken EXCEPT ![c] = FALSE]
    BY <2>1 DEF Seen
  <2>3. DoneAt("commit", FALSE, call[c], step[c]) <=> s.kind = "select"
    BY DEF DoneAt, Statement
  <2>4. GotAt(FALSE, rows) = rows
    BY DEF GotAt
  <2>5. CASE s.kind = "select"
    <3>1. tables' = Then(s, tables) /\ rows \in Selected(s, tables)
      BY <1>1, <1>2, <2>1, <2>5, SelectTables
    <3>2. Carries(c, TRUE, "commit", step[c], rows, FALSE, reply[c])
      BY <1>1, <1>2, <1>3, <2>2, <2>3, <2>4, <2>5, <3>1 DEF Carries
    <3> QED
      BY <1>1, <3>2, Carried
  <2>6. CASE s.kind # "select"
    <3>1. rows = {}
      BY <2>1, <2>6
    <3>2. Carries(c, FALSE, "commit", step[c], rows, FALSE, reply[c])
      BY <1>1, <1>2, <2>2, <2>3, <2>4, <2>6, <3>1 DEF Carries
    <3> QED
      BY <1>1, <3>2, Carried
  <2> QED
    BY <2>5, <2>6
<1>4. CASE \E rows \in Selected(s, tables) : \E some \in (SUBSET rows) \ {rows} : Seen(c, some, TRUE)
  <2>1. PICK some : Seen(c, some, TRUE)
    BY <1>4
  <2>2. /\ stage' = [stage EXCEPT ![c] = "commit"] /\ got' = [got EXCEPT ![c] = some]
        /\ broken' = [broken EXCEPT ![c] = TRUE]
    BY <2>1 DEF Seen
  <2>3. ~ DoneAt("commit", TRUE, call[c], step[c]) /\ GotAt(TRUE, some) = {}
    BY DEF DoneAt, GotAt
  <2>4. Carries(c, FALSE, "commit", step[c], some, TRUE, reply[c])
    BY <1>1, <1>2, <2>2, <2>3 DEF Carries
  <2> QED
    BY <1>1, <2>4, Carried
<1>5. CASE stage' = [stage EXCEPT ![c] = "rollback"] /\ UNCHANGED <<seen, got, broken>>
  BY <1>1, <1>2, <1>5, Unseen
<1> QED
  BY <1>3, <1>4, <1>5 DEF Exec

LEMMA CommitRefines == ASSUME IInv, NEW c \in Client, Commit(c) PROVE Atomic!Carry(c)
<1>1. /\ stage[c] = "commit" /\ stage[c] # "done" /\ call' = call /\ "ErrTxCommit" \in Errors
  BY DEF Commit, Errors
<1>2. CASE Applicable(c) /\ tables' = Then(Statement(c), tables) /\ Succeeded(c)
  BY <1>1, <1>2, SucceededRefines
<1>3. CASE Applicable(c) /\ tables' = Then(Statement(c), tables) /\ Failed(c, "ErrTxCommit", queue)
  <2>1. CASE Statement(c).kind = "select"
    <3>1. tables' = tables /\ FALSE \in BOOLEAN
      BY <1>1, <1>3, <2>1, CommitTables
    <3> QED
      BY <1>1, <1>3, <3>1, FailedRefines
  <2>2. CASE Statement(c).kind # "select"
    <3>1. ~ Done[c] /\ ~ Refused(Statement(c), tables) /\ TRUE \in BOOLEAN
      BY <1>1, <1>3, <2>2, MappedAt DEF Applicable
    <3> QED
      BY <1>1, <1>3, <2>2, <3>1, FailedRefines
  <2> QED
    BY <2>1, <2>2
<1>4. CASE tables' = tables /\ Failed(c, "ErrTxCommit", queue)
  <2>1. FALSE \in BOOLEAN
    OBVIOUS
  <2> QED
    BY <1>1, <1>4, <2>1, FailedRefines
<1> QED
  BY <1>2, <1>3, <1>4 DEF Commit

\* The failures before the COMMIT.
LEMMA FailureRefines ==
    ASSUME IInv, NEW c \in Client, stage[c] \notin {"done", "commit"},
           NEW e \in Errors, e # "ErrTxCommit", NEW q, Failed(c, e, q), UNCHANGED <<tables, call>>
    PROVE  Atomic!Carry(c)
<1>1. ~ Done[c] /\ FALSE \in BOOLEAN
  BY MappedAt
<1> QED
  BY <1>1, FailedRefines

LEMMA AdvanceRefines ==
    ASSUME IInv, NEW c \in Client, Advance(c)
    PROVE  Atomic!Carry(c) \/ UNCHANGED Atomic!vars
<1>1. /\ "ErrTxStart" \in Errors /\ "ErrDBInsert" \in Errors /\ "ErrTxRollback" \in Errors
  BY DEF Errors
<1>2. CASE Acquire(c)
  BY <1>2, AcquireRefines
<1>3. CASE AcquireFails(c)
  <2>1. /\ stage[c] = "acquire" /\ Failed(c, "ErrTxStart", Without(c)) /\ UNCHANGED <<tables, call>>
    BY <1>3 DEF AcquireFails
  <2> QED
    BY <1>1, <2>1, FailureRefines
<1>4. CASE BeginTx(c)
  <2>1. stage[c] = "begin" /\ tables' = tables
    BY <1>4 DEF BeginTx
  <2>2. CASE stage' = [stage EXCEPT ![c] = "exec"] /\ UNCHANGED client
    BY <2>1, <2>2, Unseen DEF client, IInv
  <2>3. CASE Failed(c, "ErrTxStart", queue) /\ call' = call
    BY <1>1, <2>1, <2>3, FailureRefines
  <2> QED
    BY <1>4, <2>2, <2>3 DEF BeginTx
<1>5. CASE Exec(c)
  BY <1>5, ExecRefines
<1>6. CASE Rollback(c)
  <2>1. /\ stage[c] = "rollback" /\ UNCHANGED <<tables, call>>
        /\ Failed(c, "ErrDBInsert", queue) \/ Failed(c, "ErrTxRollback", queue)
    BY <1>6 DEF Rollback
  <2> QED
    BY <1>1, <2>1, FailureRefines
<1>7. CASE Commit(c)
  BY <1>7, CommitRefines
<1> QED
  BY <1>2, <1>3, <1>4, <1>5, <1>6, <1>7 DEF Advance

LEMMA RestartRefines == ASSUME IInv, Restart PROVE Atomic!Restart
<1>1. Done' = [c \in Client |-> FALSE]
  BY DEF Restart, Done
<1>2. Got' = [c \in Client |-> {}]
  BY DEF Restart, Got
<1> QED
  BY <1>1, <1>2 DEF Restart, Atomic!Restart, Atomic!Idle, Idle, Done, Got

LEMMA StepsRefine == IInv /\ [Next]_vars => [Atomic!Next]_(Atomic!vars)
<1> SUFFICES ASSUME IInv, [Next]_vars PROVE Atomic!Next \/ UNCHANGED Atomic!vars
  OBVIOUS
<1>1. CASE \E c \in Client : Call(c)
  BY <1>1, CallRefines DEF Atomic!Next
<1>2. CASE \E c \in Client : Advance(c)
  BY <1>2, AdvanceRefines DEF Atomic!Next
<1>3. CASE Restart
  BY <1>3, RestartRefines DEF Atomic!Next
<1>4. CASE Cancel \/ Disconnect \/ UNCHANGED vars
  <2>1. UNCHANGED <<tables, stage, client>>
    BY <1>4 DEF Cancel, Disconnect, vars
  <2>2. Done' = Done /\ Got' = Got
    BY <2>1 DEF Done, Got, Statement, client
  <2> QED
    BY <2>1, <2>2 DEF Atomic!vars, Done, Got, client
<1> QED
  BY <1>1, <1>2, <1>3, <1>4 DEF Next

\* However round trips fail and goroutines queue, every statement of a call takes
\* effect at one instant or not at all, and the answer claims nothing that did
\* not happen: the methods implement AtomicTables.
THEOREM Refines == Spec => RefinesAtomicTables
<1>1. Init => Atomic!Init
  BY AtomicStarts
<1> QED
  BY <1>1, Invariant, StepsRefine, PTL DEF Spec, RefinesAtomicTables, Atomic!Spec

==============================================================================
