------------------------------- MODULE SqlTables -------------------------------
(***************************************************************************)
(* The SQL statements that pkg/storage/data/sql.go and helper.go put       *)
(* together, and what each does to a table.  A table is a set of rows, a   *)
(* row gives every column a text.  The texts of a statement are kept as    *)
(* functions: the WHERE clause and the SET list are partial rows, as the   *)
(* maps they are built from are.                                           *)
(***************************************************************************)
EXTENDS Integers, FiniteSets, Sequences

CONSTANTS
    Table, Column, Text,
    KeyColumn,      \* the primary key
    InitFiles,      \* the tables of each init file, in directory order
    Nil             \* no table, no WHERE clause, no rows

ASSUME KeyAssumption == KeyColumn \in Column

ASSUME FilesAssumption == InitFiles \in Seq(SUBSET Table) /\ InitFiles # <<>>

Row     == [Column -> Text]
Partial == UNION {[columns -> Text] : columns \in SUBSET Column}
Content == (SUBSET Row) \cup {Nil}

\* A WhereMap of no clause, or of two and more, is put together to a text that
\* is no SQL: helper.go:26 and helper.go:36, which ends in "AND".
WhereMapString(where) == IF where = Nil THEN {"all"}
                         ELSE IF Cardinality(DOMAIN where) = 1 THEN {"clause"} ELSE {}

Matching(where, rows) ==
    {row \in rows : where = Nil \/ \A c \in DOMAIN where : row[c] = where[c]}

\* Mutant: the columns that an UPDATE does not name are set to NULL.
Overwritten(row, set) == [c \in Column |-> IF c \in DOMAIN set THEN set[c] ELSE Nil]

Edited(row, set) == [c \in Column |-> IF c \in DOMAIN set THEN set[c] ELSE row[c]]

\* The rows of a table after the statement s.
After(s, rows) ==
    CASE s.kind = "create" -> IF rows = Nil THEN {} ELSE rows
      [] s.kind = "drop"   -> Nil
      [] s.kind = "select" -> rows
      [] s.kind = "insert" -> rows \cup s.rows
      [] s.kind = "delete" -> rows \ Matching(s.where, rows)
      [] s.kind = "update" -> (rows \ Matching(s.where, rows))
                                 \cup {Edited(row, s.set) : row \in Matching(s.where, rows)}

\* All the tables after the statement s.
Then(s, tables) ==
    [t \in Table |-> IF t \in s.on THEN After(s, tables[t]) ELSE tables[t]]

\* The rows that a statement with a WHERE clause is about.
Found(s, tables) == Matching(s.where, UNION ({tables[t] : t \in s.on} \ {Nil}))

\* The rows that a SELECT may return.
Selected(s, tables) ==
    LET found == Found(s, tables) IN
    IF s.limit /\ found # {} THEN {{row} : row \in found} ELSE {found}

KeysUnique(rows) == \A a, b \in rows : a[KeyColumn] = b[KeyColumn] => a = b

KeyTaken(new, rows) == \E a \in rows, b \in new : a[KeyColumn] = b[KeyColumn]

\* The server refuses the statement, whatever else goes on: the table is
\* missing, the text is no SQL, or a key would be there twice.
Refused(s, tables) ==
    /\ s.kind \notin {"create", "drop"}
    /\ \E t \in s.on :
         IF tables[t] = Nil THEN TRUE
         ELSE IF s.kind = "insert" THEN ~ KeysUnique(s.rows) \/ KeyTaken(s.rows, tables[t])
         ELSE \/ WhereMapString(s.where) = {}
              \/ s.kind = "update" /\ \/ DOMAIN s.set = {}
                                      \/ ~ KeysUnique(After(s, tables[t]))
                                      \/ Cardinality(After(s, tables[t])) # Cardinality(tables[t])

-----------------------------------------------------------------------------
(* The calls, and the statements each of them sends, one transaction apiece *)

CreateTable(t)    == [op |-> "CreateTable", table |-> t]
DeleteTable(t)    == [op |-> "DeleteTable", table |-> t]
Select(t, w)      == [op |-> "Select", table |-> t, where |-> w]
Insert(t, rows)   == [op |-> "Insert", table |-> t, rows |-> rows]
Update(t, set, w) == [op |-> "Update", table |-> t, set |-> set, where |-> w]
Delete(t, w)      == [op |-> "Delete", table |-> t, where |-> w]
InitDB            == [op |-> "Init"]
Idle              == [op |-> "none"] \* of a client that has made no call

Statements(call) ==
    CASE call.op = "CreateTable" -> <<[kind |-> "create", on |-> {call.table}]>>
      [] call.op = "DeleteTable" ->
            <<[kind |-> "select", on |-> {call.table}, where |-> Nil, limit |-> TRUE],
              [kind |-> "drop", on |-> {call.table}]>>
      [] call.op = "Select" -> <<[kind |-> "select", on |-> {call.table},
                                  where |-> call.where, limit |-> FALSE]>>
      [] call.op = "Insert" -> <<[kind |-> "insert", on |-> {call.table},
                                  rows |-> call.rows]>>
      [] call.op = "Update" -> <<[kind |-> "update", on |-> {call.table},
                                  set |-> call.set, where |-> call.where]>>
      [] call.op = "Delete" -> <<[kind |-> "delete", on |-> {call.table},
                                  where |-> call.where]>>
      [] call.op = "Init" -> [i \in DOMAIN InitFiles |->
                                [kind |-> "create", on |-> InitFiles[i]]]

Calls ==
    [op : {"CreateTable", "DeleteTable"}, table : Table]
      \cup [op : {"Select", "Delete"}, table : Table, where : Partial \cup {Nil}]
      \cup [op : {"Insert"}, table : Table, rows : SUBSET Row]
      \cup [op : {"Update"}, table : Table, set : Partial, where : Partial \cup {Nil}]
      \cup {InitDB}
===============================================================================
