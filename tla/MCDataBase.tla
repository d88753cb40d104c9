------------------------------ MODULE MCDataBase ------------------------------
(***************************************************************************)
(* Instances of DataBase for TLC: the table "users" with a key and a value *)
(* column, and "roles", which only the init files create.                  *)
(***************************************************************************)
EXTENDS DataBase, TLC

row(id, name) == [c \in {"id", "name"} |-> IF c = "id" THEN id ELSE name]

\* The directory of init files: the first file makes both tables.
TwoFiles == <<{"users", "roles"}, {"users"}>>
OneFile  == <<{"users"}>>

ByKey(x) == [c \in {"id"} |-> x]

\* Writers of the same row, of the same key and of the whole table, a WHERE
\* clause of two fields, and the init files.
Contending == {
    Insert("users", {row("a", "b")}),
    Insert("users", {row("a", "a"), row("b", "a")}),
    Update("users", [c \in {"name"} |-> "a"], ByKey("a")),
    Delete("users", Nil),
    Select("users", Nil), Select("users", row("a", "b")),
    CreateTable("users"), DeleteTable("users"), InitDB }

\* Calls of one statement and one of two.
Queueing == {Select("users", Nil), DeleteTable("users")}

\* Each makes the table, fills it or drops it.
Dropping == {CreateTable("users"), DeleteTable("users"),
             Insert("users", {row("a", "b")})}

Empty   == [t \in Table |-> {}]
Missing == [t \in Table |-> Nil]

Interchangeable == Permutations(Client)
===============================================================================
