------------------------------ MODULE MC_Lines -------------------------------
(* Small instances of Lines for TLC. *)
EXTENDS Lines

CONSTANT dropped

Bytes == <<"CR", " ", ":", ";", "=", "\\", "a", "n", "r", "s", "EF", "BF", "BD">>

\* Keys byte by byte.
Rank(b) == SelectInSeq(Bytes, LAMBDA x : x = b)
Less(k, l) ==
    \/ IsStrictPrefix(k, l)
    \/ \E i \in DOMAIN k \cap DOMAIN l :
          Rank(k[i]) < Rank(l[i]) /\ \A j \in 1 .. i - 1 : k[j] = l[j]

\* Any short tag block before a fixed command, and any short value of a tag.
Line(block) == <<"@">> \o block \o <<" ", "p", "LF">>
Tagged == {Line(block) : block \in BoundedSeq({"a", "=", ";", "\\", "CR", "FF"}, 3)}
Valued == {Line(<<"a", "=">> \o value) :
               value \in BoundedSeq({"\\", ":", "s", "r", "n", "CR", "FF"}, 4)}
Escaping == {Line(<<"a", "=", "\\", e, "\\", f>>) : e, f \in {"\\", ":", "s", "r", "n", "a"}}

\* Any short line, and two lines.
Plain == {line \o <<"CR", "LF">> : line \in BoundedSeq({"p", " ", ":"}, 5)}
Pairs == {l \o <<"LF">> \o k \o <<"LF", "p">> :
              l, k \in {<<"p", " ", "p">>, <<"p", " ", "p", " ", ":", "p">>, <<>>}}

AllStreams == Tagged \cup Valued \cup Escaping \cup Plain \cup Pairs

\* A handler that lets a line be, cancels it or puts another one, with a tag, in its place.
Rewrite(line) ==
    IF line = <<"p", " ", "p">> THEN {line, dropped, <<"@", "s", " ", "p", " ", ":", "a">>}
    ELSE {line}

SenderTag == <<"n", "=", "r">>
=============================================================================
