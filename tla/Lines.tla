-------------------------------- MODULE Lines --------------------------------
(***************************************************************************)
(* From bytes to commands and back.  onReadyRead collects what arrives on  *)
(* the socket and cuts it at newlines, parseIncoming takes the tags off a  *)
(* line and splits the rest, buildMessageTags writes the tags of a message *)
(* in front of the line each receiver gets.                                *)
(*                                                                         *)
(* A byte is a one-character string, "LF" and "CR" the two line ends, "FF" *)
(* one that no UTF-8 text contains.  The network may cut the stream        *)
(* anywhere.                                                               *)
(*                                                                         *)
(* A RAW_MSG handler may rewrite a line or cancel it, otherwise every time *)
(* it is called.  Handlers of VERIFY_MSG_TAGS change nothing:              *)
(* parseIncoming tests the result as a QEventMessage, which it never is,   *)
(* and reads nothing back.                                                 *)
(***************************************************************************)
EXTENDS Naturals, Sequences, FiniteSets, SequencesExt

CONSTANTS
    Streams,        \* what a client may send: sequences of bytes
    RAW_MSG(_),     \* what the handlers of RAW_MSG may leave of a line
    Dropped,        \* one that they cancelled
    AccountTag,     \* "account=" and the name of the sender
    Before(_, _),   \* the order of the keys in a QMap
    MAX_BUFFER_SIZE, max_tag_data   \* 1024 and 4094 in the code

ASSUME LinesAssumption ==
    /\ Streams \subseteq Seq(STRING)
    /\ MAX_BUFFER_SIZE \in Nat /\ max_tag_data \in Nat

VARIABLES
    sent,       \* the stream the client chose
    wire,       \* the part of it that has not arrived
    socket,     \* arrived, unread bytes
    m_buffer,
    cap,        \* the clients have message-tags, and the sender an account
    handled,    \* by line, what parseIncoming dispatched: the tags and parts
    relayed,    \* by message, whether a receiver has account-tag, and the prefix it gets
    connected

vars == <<sent, wire, socket, m_buffer, cap, handled, relayed, connected>>

----------------------------------------------------------------------------
(* Byte strings                                                            *)

\* QByteArray::indexOf, counted from 1, 0 when there is none.
IndexOf(s, b) == SelectInSeq(s, LAMBDA x : x = b)

Left(s, n) == SubSeq(s, 1, n)
Mid(s, n) == SubSeq(s, n, Len(s))

\* QByteArray::split
Split(s, b) ==
    LET cuts == {i \in 1 .. Len(s) : s[i] = b}
        Cut(i) == CHOOSE c \in cuts : Cardinality({d \in cuts : d <= c}) = i
        Start(i) == IF i = 1 THEN 1 ELSE Cut(i - 1) + 1
        End(i) == IF i > Cardinality(cuts) THEN Len(s) ELSE Cut(i) - 1
    IN  [i \in 1 .. Cardinality(cuts) + 1 |-> SubSeq(s, Start(i), End(i))]

Join(parts, b) ==
    FlattenSeq([i \in 1 .. Len(parts) |-> IF i = 1 THEN parts[i] ELSE <<b>> \o parts[i]])

\* QByteArray::trimmed
trimmed(s) ==
    LET solid == {i \in 1 .. Len(s) : s[i] \notin {" ", "CR", "LF"}}
    IN  IF solid = {} THEN <<>>
        ELSE SubSeq(s, CHOOSE i \in solid : \A j \in solid : i <= j,
                       CHOOSE i \in solid : \A j \in solid : j <= i)

NonEmpty(parts) == SelectSeq(parts, LAMBDA p : p # <<>>)

----------------------------------------------------------------------------
(* Message tags                                                            *)

\* A tag without a value is one with the empty value.
Missing == <<>>

Escapes == {<<";", ":">>, <<" ", "s">>, <<"\\", "\\">>, <<"CR", "r">>, <<"LF", "n">>}

Escaped(b) ==
    IF \E e \in Escapes : e[1] = b
    THEN <<"\\", (CHOOSE e \in Escapes : e[1] = b)[2]>>
    ELSE <<b>>

Unescaped(b) ==
    IF \E e \in Escapes : e[2] = b THEN (CHOOSE e \in Escapes : e[2] = b)[1] ELSE b

\* Mutant of escapeTagValue: only separators are escaped.
EscapeSeparators(v) ==
    FlattenSeq([i \in 1 .. Len(v) |-> IF v[i] = "\\" THEN <<"\\">> ELSE Escaped(v[i])])

\* A backslash at the end is dropped.
escapeTagValue(v) ==
    FlattenSeq([i \in 1 .. Len(v) |->
                   IF v[i] = "\\" /\ i = Len(v) THEN <<>> ELSE Escaped(v[i])])

unescapeTagValue(v) ==
    LET rest[i \in 1 .. Len(v) + 1] ==
            IF i = Len(v) + 1 THEN <<>>
            ELSE IF v[i] # "\\" THEN <<v[i]>> \o rest[i + 1]
            ELSE IF i < Len(v) THEN <<Unescaped(v[i + 1])>> \o rest[i + 2]
            ELSE <<>>
    IN  rest[1]

\* QString::fromUtf8 and back: a byte that is not UTF-8 becomes U+FFFD.
fromUtf8(s) ==
    FlattenSeq([i \in 1 .. Len(s) |-> IF s[i] = "FF" THEN <<"EF", "BF", "BD">> ELSE <<s[i]>>])

Key(t) == fromUtf8(IF IndexOf(t, "=") = 0 THEN t ELSE Left(t, IndexOf(t, "=") - 1))
Value(t) == IF IndexOf(t, "=") = 0 THEN Missing
            ELSE unescapeTagValue(fromUtf8(Mid(t, IndexOf(t, "=") + 1)))

\* The tag block ends at the first space; a later tag overrides an earlier one.
parseMessageTags(line) ==
    LET space == IndexOf(line, " ")
        raw == NonEmpty(Split(SubSeq(line, 2, space - 1), ";"))
    IN  IF line = <<>> \/ line[1] # "@" \/ space = 0
        THEN [tags |-> <<>>, end |-> 0]
        ELSE [tags |-> [k \in {Key(raw[i]) : i \in DOMAIN raw} |->
                           Value(raw[SelectLastInSeq(raw, LAMBDA t : Key(t) = k)])],
              end |-> space]

\* The account of the sender comes first.
TagList(tags, withAccount) ==
    LET keys == SetToSortSeq(DOMAIN tags, Before)
    IN  (IF withAccount THEN <<AccountTag>> ELSE <<>>)
            \o [i \in DOMAIN keys |->
                   IF tags[keys[i]] = Missing THEN keys[i]
                   ELSE keys[i] \o <<"=">> \o escapeTagValue(tags[keys[i]])]

\* The prefix is cut at the limit, its closing space included.
buildMessageTags(tags, withAccount, withTags) ==
    LET list == TagList(tags, withAccount) IN
    IF ~withTags \/ list = <<>> THEN <<>>
    ELSE LET prefix == <<"@">> \o Join(list, ";") \o <<" ">>
         IN  IF Len(prefix) > max_tag_data + 2 THEN Left(prefix, max_tag_data + 2) ELSE prefix

----------------------------------------------------------------------------
(* Lines                                                                   *)

\* Mutant of split_irc: the first colon starts the trailing parameter, also one
\* inside a word.
SplitAtColon(line) ==
    LET colon == IndexOf(line, ":")
    IN  IF colon = 0 THEN NonEmpty(Split(line, " "))
        ELSE NonEmpty(Split(Left(line, colon - 1), " ")) \o <<Mid(line, colon + 1)>>

\* The command, the words before " :" and what follows it.  A colon right after
\* the command is not one.
split_irc(line) ==
    LET sp == IndexOf(line, " ")
        rest == Mid(line, sp + 1)
        colons == {i \in 1 .. Len(rest) - 1 : rest[i] = " " /\ rest[i + 1] = ":"}
        colon == CHOOSE i \in colons : \A j \in colons : i <= j
    IN  IF sp = 0 THEN <<line>>
        ELSE IF colons = {} THEN <<Left(line, sp - 1)>> \o NonEmpty(Split(rest, " "))
        ELSE <<Left(line, sp - 1)>> \o NonEmpty(Split(Left(rest, colon - 1), " "))
                \o NonEmpty(<<Mid(rest, colon + 2)>>)

NoTags == [tags |-> <<>>, end |-> 0]

\* Nothing is dispatched.
Cancelled == [tags |-> <<>>, line |-> <<>>, parts |-> <<>>]

Dispatched(raw, withTags) ==
    LET block == IF withTags THEN parseMessageTags(raw) ELSE NoTags
        rest == trimmed(Mid(raw, block.end + 1))
    IN  [tags |-> block.tags, line |-> rest, parts |-> split_irc(rest)]

\* parseIncoming, as far as the dispatch: what it may be.
parseIncoming(line, withTags) ==
    {IF raw = Dropped THEN Cancelled ELSE Dispatched(raw, withTags) : raw \in RAW_MSG(line)}

\* One CR before the LF belongs to the line end.
Chop(line) == IF line # <<>> /\ Last(line) = "CR" THEN Front(line) ELSE line

CompleteLines(s) ==
    LET all == Split(s, "LF") IN [i \in 1 .. Len(all) - 1 |-> Chop(all[i])]

\* Mutant of Remainder: what follows the last line is thrown away with it.
DropAll(s) == <<>>

\* The bytes after the last newline.
Remainder(s) == Last(Split(s, "LF"))

\* What parseIncoming may make of the complete lines of s.
Handled(s) ==
    LET lines == CompleteLines(s)
        outcomes == UNION {parseIncoming(lines[i], cap) : i \in DOMAIN lines}
    IN  {h \in [DOMAIN lines -> outcomes] :
             \A i \in DOMAIN lines : h[i] \in parseIncoming(lines[i], cap)}

----------------------------------------------------------------------------
Init ==
    /\ sent \in Streams /\ cap \in BOOLEAN
    /\ wire = sent
    /\ socket = <<>> /\ m_buffer = <<>>
    /\ handled = <<>> /\ relayed = <<>>
    /\ connected = TRUE

\* The network delivers some bytes.
Arrive ==
    /\ wire # <<>>
    /\ \E n \in 1 .. Len(wire) :
           /\ socket' = socket \o Left(wire, n)
           /\ wire' = Mid(wire, n + 1)
    /\ UNCHANGED <<sent, m_buffer, cap, handled, relayed, connected>>

\* Everything that has arrived is read before the first line is cut off, so a
\* burst of short lines counts against MAX_BUFFER_SIZE too.
onReadyRead ==
    /\ connected /\ socket # <<>>
    /\ socket' = <<>>
    /\ LET buffer == m_buffer \o socket
       IN  IF Len(buffer) > MAX_BUFFER_SIZE
           THEN /\ m_buffer' = <<>> /\ connected' = FALSE
                /\ UNCHANGED handled
           ELSE /\ m_buffer' = Remainder(buffer)
                /\ \E more \in Handled(buffer) : handled' = handled \o more
                /\ UNCHANGED connected
    /\ UNCHANGED <<sent, wire, cap, relayed>>

\* The next message goes out to a receiver.
Relay ==
    /\ Len(relayed) < Len(handled)
    /\ \E withAccount \in BOOLEAN :
           relayed' = Append(relayed,
                             [account |-> withAccount,
                              prefix |-> buildMessageTags(handled[Len(relayed) + 1].tags,
                                                          withAccount, cap)])
    /\ UNCHANGED <<sent, wire, socket, m_buffer, cap, handled, connected>>

Next == Arrive \/ onReadyRead \/ Relay

Spec == Init /\ [][Next]_vars

----------------------------------------------------------------------------
\* However the network cuts the stream, the lines get to the handlers as they were sent,
\* in order, none lost or joined, and each as soon as its newline is read.
InOrder ==
    LET all == CompleteLines(sent)
        read == Left(sent, Len(sent) - (Len(socket) + Len(wire)))
    IN  /\ Len(handled) <= Len(all)
        /\ \A i \in DOMAIN handled : handled[i] \in parseIncoming(all[i], cap)
        /\ connected => Len(handled) = Len(CompleteLines(read))

\* A line without empty words is split so that joining the parts gives it back,
\* the last one after a colon or not.
SplitReversible ==
    \A i \in DOMAIN handled :
        LET parts == handled[i].parts
            line == handled[i].line
        IN  \/ Join(parts, " ") = line
            \/ Join(Front(parts) \o <<(<<":">> \o Last(parts))>>, " ") = line
            \/ <<>> \in Range(Split(line, " "))     \* an empty word
            \/ Last(line) = ":"                     \* an empty trailing parameter

\* The value a receiver can get: a trailing backslash is lost.
Kept(v) == IF v # <<>> /\ Last(v) = "\\" THEN Front(v) ELSE v

\* A receiver reads the tags the server read from the line, with every character that
\* has to be escaped in any place of a value, next to the account of the sender, if all
\* fit into max_tag_data; only a tag with the empty key may get lost.
TagsArrive ==
    \A i \in DOMAIN relayed :
        LET tags == handled[i].tags
            own == IF relayed[i].account THEN {Key(AccountTag)} \ DOMAIN tags ELSE {}
            seen == parseMessageTags(relayed[i].prefix).tags
        IN  \/ ~cap /\ relayed[i].prefix = <<>>
            \/ /\ own \cup (DOMAIN tags \ {<<>>}) \subseteq DOMAIN seen
               /\ DOMAIN seen \subseteq own \cup DOMAIN tags
               /\ \A k \in own : seen[k] = Value(AccountTag)
               /\ \A k \in DOMAIN seen \ own : seen[k] = Kept(tags[k])
            \/ Len(Join(TagList(tags, relayed[i].account), ";")) > max_tag_data

-----------------------------------------------------------------------------
(* The inductive invariant behind InOrder                                    *)

\* The stream falls into what is handled, which ends with a line, and what is
\* buffered, unread or on its way.  No line waits in the buffer.
Inv ==
    /\ sent \in Seq(STRING) /\ wire \in Seq(STRING)
    /\ socket \in Seq(STRING) /\ m_buffer \in Seq(STRING)
    /\ \A i \in 1 .. Len(m_buffer) : m_buffer[i] # "LF"
    /\ \E n \in 0 .. Len(sent) :
           /\ handled \in Handled(Left(sent, n))
           /\ connected => /\ n = 0 \/ sent[n] = "LF"
                           /\ Mid(sent, n + 1) = m_buffer \o socket \o wire
=============================================================================
