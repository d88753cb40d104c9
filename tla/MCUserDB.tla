------------------------------- MODULE MCUserDB -------------------------------
(***************************************************************************)
(* Instances of UserDB for TLC.                                            *)
(***************************************************************************)
EXTENDS UserDB, TLC

CONSTANTS ann, bob, mail, post, secret, other, long

\* The HTTP routes that take more than one statement.
Http == {"Create", "Authenticate", "DeleteByName"}

\* A login survives these: Update, which renames, is left out.
Racing == Http \cup {"UpdateUserPassword", "DeleteById", "GetByEmail"}

Cacheable == Methods \ {"UpdateUserPassword", "GetByEmail", "DeleteById"}

\* An account made while the cache was off.
OneRow == {[id |-> 1, name |-> ann, email |-> mail, password |-> secret]}

NoRows == {}

Interchangeable == Permutations(Request) \cup Permutations(Worker)
================================================================================
