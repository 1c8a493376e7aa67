------------------------------- MODULE MC_Chat -------------------------------
(* Small instances of Chat for TLC. *)
EXTENDS Chat, TLC

CONSTANTS c1, c2, c3, a1, a2, w1, w2

\* One account with two connections on two workers, and another account.
Accounts == c1 :> a1 @@ c2 :> a1 @@ c3 :> a2
Workers == c1 :> w1 @@ c2 :> w2 @@ c3 :> w1

Caps == {"echo-message", "znc.in/self-message"}
CapChoices == {c1 :> {"echo-message"} @@ c2 :> {} @@ c3 :> {}}
CapRequests == [c \in {c1, c2, c3} |->
    {{<<"znc.in/self-message", TRUE>>}, {<<"znc.in/self-message", FALSE>>},
     {<<"echo-message", TRUE>>, <<"sasl", TRUE>>}}]

Line(adding, letters, args) == [adding |-> adding, letters |-> letters, args |-> args]
ModeRequests == {Line(TRUE, <<"l", "?", "l", "k">>, <<5, -1, 0>>), Line(FALSE, <<"n", "l">>, <<>>)}
=============================================================================
