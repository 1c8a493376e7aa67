------------------------------ MODULE MC_Roster ------------------------------
(* Instances of Roster for TLC. *)
EXTENDS Roster, TLC

CONSTANTS c1, c2, c3, s1, bob, Bob, amy, alice

\* Every connection on one worker thread, or each on its own.
OneWorker == [c \in Conns |-> 1]
OwnWorker == [c \in Conns |-> c]

\* Nicks without capitals: toLower changes nothing.
LowerSame == [n \in Nicks |-> n]

\* Bob and bob differ only in case.
LowerMixed == [n \in Nicks |-> IF n = Bob THEN bob ELSE n]

\* alice is the account of the database; its nick is its name.
DbNickAmy == [a \in Named |-> amy]

\* A Python module that renames guests to bob
PyCallsBob == Conns \X {bob}

ConnSymmetry == Permutations(Conns)
=============================================================================
