------------------------------- MODULE MC_Web --------------------------------
(* Small instances of Web for TLC. *)
EXTENDS Web, TLC

CONSTANTS t1, t2

Pool == Permutations({t1, t2})
OneToken == <<"tok1">>
=============================================================================
