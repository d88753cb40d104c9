------------------------------ MODULE MCSessions ------------------------------
(***************************************************************************)
(* The instance of Sessions for TLC.                                       *)
(***************************************************************************)
EXTENDS Sessions, TLC

\* The methods of UserTable that the handlers call.
Handled == {"Create", "Authenticate", "GetByName", "DeleteByName"}

NoRows == {}

\* Browsers may trade places together with what is typed into them.
Interchangeable ==
    Permutations(Request) \cup Permutations(Name) \cup Permutations(Password)
================================================================================
