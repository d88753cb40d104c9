----------------------------- MODULE MCConfigLoad -----------------------------
(***************************************************************************)
(* Instances of ConfigLoad for TLC.                                        *)
(***************************************************************************)
EXTENDS ConfigLoad

CONSTANTS v1, v2, v3

var(p, x)     == [ours |-> TRUE, path |-> p, value |-> x, file |-> "none"]
inFile(p, x)  == [var(p, x) EXCEPT !.file = "there"]
missing(p, x) == [var(p, x) EXCEPT !.file = "missing"]
foreign(p, x) == [var(p, x) EXCEPT !.ours = FALSE]

\* The environment that config_test.go leaves behind.
Tested == << var(<<"simple">>, v1), var(<<"map", "test">>, v2),
             inFile(<<"simple">>, v3) >>

\* Names of up to three parts that share maps; another program's variable.
Nested == << var(<<"db", "host">>, v1), foreign(<<"db", "host">>, v3),
             var(<<"db", "redis", "use">>, v2), var(<<"db", "redis", "db">>, v1) >>

\* A name in a map of its own, names in conflict, a missing file, top-level names only, and none.
Single      == << var(<<"db", "host">>, v1) >>
Conflicting == << var(<<"db">>, v1), var(<<"db", "host">>, v2) >>
NoFile      == << var(<<"a">>, v1), missing(<<"b">>, v2), var(<<"c">>, v3) >>
Flat        == << var(<<"a">>, v1), inFile(<<"b">>, v2), var(<<"a">>, v3) >>

All == {Tested, Nested, Single, Conflicting, NoFile, Flat, <<>>}
===============================================================================
