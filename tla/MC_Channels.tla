---------------------------- MODULE MC_Channels -----------------------------
(* Small instances of Channels for TLC. *)
EXTENDS Channels, TLC

CONSTANTS a1, a2, c1, c2, c3, w1, w2, n1, n2, k1, k2, k3

\* a1 is logged in twice, a2 once.
TwoAndOne == c1 :> a1 @@ c2 :> a1 @@ c3 :> a2

\* The connections of a1 are on two workers, and one shares its worker with a2's.
RoundRobin == c1 :> w1 @@ c2 :> w2 @@ c3 :> w1

\* n1 comes from the database with a1 in it.
LoadedN1 == k1 :> n1

WithA1 == k1 :> <<a1>>

RenameN1 == {<<n1, n2>>}
=============================================================================
