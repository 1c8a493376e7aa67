----------------------------- MODULE MC_Startup -----------------------------
(* A small instance of Startup for TLC. *)
EXTENDS Startup

CONSTANTS admin, u1, u2, s1, s2, c1, c2

\* Two users of a server, one channel with both in it, and one with the admin
\* and a name that is no user.
First ==
    [servers |-> <<s1>>,
     users |-> <<[name |-> u1, server |-> s1]>>,
     channels |-> <<[name |-> c1, server |-> s1, members |-> <<u1, u2>>],
                    [name |-> c2, server |-> s1, members |-> <<admin, u1>>]>>]

\* Later the file drops a user and a channel, repeats a server, moves a channel
\* and names a server that is not configured.
Second ==
    [servers |-> <<s2, s2>>,
     users |-> <<[name |-> u2, server |-> s2], [name |-> u2, server |-> s1]>>,
     channels |-> <<[name |-> c1, server |-> s2, members |-> <<u2>>],
                    [name |-> c2, server |-> s1, members |-> <<u2>>],
                    [name |-> c2, server |-> s2, members |-> <<admin>>]>>]

TwoFiles == {First, Second, NoFile}
=============================================================================
