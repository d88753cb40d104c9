------------------------------ MODULE MCUserIMDB ------------------------------
(***************************************************************************)
(* The instance of UserIMDB for TLC.                                       *)
(***************************************************************************)
EXTENDS UserIMDB, TLC

\* Requests may trade places, and so may names.
Interchangeable == Permutations(Request) \cup Permutations(Name)
================================================================================
