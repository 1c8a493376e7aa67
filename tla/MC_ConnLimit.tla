---------------------------- MODULE MC_ConnLimit ----------------------------
(* Small instances of ConnLimit for TLC. *)
EXTENDS ConnLimit

CONSTANTS s1, s2, s3, irc, ws, ip1, ip2, unknown
=============================================================================
