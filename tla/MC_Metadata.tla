----------------------------- MODULE MC_Metadata -----------------------------
(* Small instances of Metadata for TLC. *)
EXTENDS Metadata, TLC

CONSTANTS a1, a2, me, lobby, w1, w2

\* An account and a channel.
WithLobby == me :> a1 @@ lobby :> Nobody

TwoWorkers == a1 :> w1 @@ a2 :> w2
=============================================================================
