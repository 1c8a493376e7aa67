----------------------------- MODULE ChatProofs ------------------------------
(***************************************************************************)
(* Proofs about Chat: whatever the interleaving of the handlers, a message *)
(* reaches every connection exactly as often as it is due.                 *)
(***************************************************************************)
EXTENDS Chat, FiniteSetTheorems, TLAPS

----------------------------------------------------------------------------
(* Counting the copies of a message                                        *)

\* How often an index occurs in a finite sequence is a number, and it is 0 in
\* a sequence without it.
LEMMA CopiesCounted ==
    ASSUME NEW list \in Seq(Nat), NEW i
    PROVE  /\ CopiesIn(list, i) \in Nat
           /\ IsFiniteSet({j \in DOMAIN list : list[j] = i})
           /\ (\A j \in 1 .. Len(list) : list[j] # i) => CopiesIn(list, i) = 0
<1> DEFINE S == {j \in DOMAIN list : list[j] = i}
<1>1. DOMAIN list = 1 .. Len(list) /\ Len(list) \in Nat
  OBVIOUS
<1>2. IsFiniteSet(1 .. Len(list))
  BY <1>1, FS_Interval
<1>3. S \subseteq 1 .. Len(list)
  BY <1>1
<1>4. IsFiniteSet(S)
  BY <1>2, <1>3, FS_Subset
<1>5. Cardinality(S) \in Nat
  BY <1>4, FS_CardinalityType
<1>6. (\A j \in 1 .. Len(list) : list[j] # i) => Cardinality(S) = 0
  BY <1>1, FS_EmptySet
<1> QED
  BY <1>4, <1>5, <1>6 DEF CopiesIn

\* Queueing an index adds one occurrence of it and none of another.
LEMMA CopiesAppended ==
    ASSUME NEW list \in Seq(Nat), NEW e \in Nat, NEW i
    PROVE  CopiesIn(Append(list, e), i) = CopiesIn(list, i) + (IF e = i THEN 1 ELSE 0)
<1> DEFINE more == Append(list, e)
           S == {j \in DOMAIN list : list[j] = i}
           T == {j \in DOMAIN more : more[j] = i}
           n == Len(list) + 1
<1>1. /\ DOMAIN list = 1 .. Len(list) /\ Len(list) \in Nat
      /\ DOMAIN more = 1 .. n
      /\ more[n] = e /\ \A j \in 1 .. Len(list) : more[j] = list[j]
  OBVIOUS
<1> HIDE DEF more
<1>2. CopiesIn(list, i) = Cardinality(S) /\ CopiesIn(more, i) = Cardinality(T)
  BY DEF CopiesIn
<1>3. IsFiniteSet(S) /\ CopiesIn(list, i) \in Nat
  BY CopiesCounted
<1>4. n \notin S
  BY <1>1
<1>5. CASE e = i
  <2>1. T = S \cup {n}
    BY <1>1, <1>5
  <2>2. Cardinality(S \cup {n}) = Cardinality(S) + 1
    BY <1>3, <1>4, FS_AddElement
  <2> QED
    BY <1>2, <1>5, <2>1, <2>2 DEF more
<1>6. CASE e # i
  <2>1. T = S
    BY <1>1, <1>6
  <2>2. CopiesIn(more, i) = CopiesIn(list, i)
    BY <1>2, <2>1
  <2> QED
    BY <1>3, <1>6, <2>2 DEF more
<1> QED
  BY <1>5, <1>6

----------------------------------------------------------------------------
(* What the parts of the invariant say together                            *)

\* What a connection is due is at most one copy as a receiver and one as a
\* connection of the sender.
LEMMA DueBounds ==
    ASSUME NEW m, NEW d
    PROVE  /\ DueFirst(m, d) \in {0, 1} /\ DueOwn(m, d) \in {0, 1}
           /\ Due(m, d) \in Nat /\ DueFirst(m, d) <= Due(m, d)
  BY DEF DueFirst, DueOwn, Due

\* The copies of a message under way are never more than the message is due.
LEMMA SofarBounds ==
    ASSUME NEW c, NEW d
    PROVE  Sofar(c, d) \in Nat /\ Sofar(c, d) <= Due(Message(c), d)
<1>1. /\ DueFirst(Message(c), d) \in {0, 1} /\ Due(Message(c), d) \in Nat
      /\ DueFirst(Message(c), d) <= Due(Message(c), d)
  BY DueBounds
<1> QED
  BY <1>1 DEF Sofar

\* The copies are counted.
LEMMA CopiesNat ==
    ASSUME TypeOK, NEW i, NEW d \in Conns
    PROVE  /\ Copies(i, d) \in Nat
           /\ inbox[d] = <<>> => Copies(i, d) = 0
<1>1. inbox[d] \in Seq(Nat)
  BY DEF TypeOK
<1>2. /\ CopiesIn(inbox[d], i) \in Nat
      /\ (\A j \in 1 .. Len(inbox[d]) : inbox[d][j] # i) => CopiesIn(inbox[d], i) = 0
  BY <1>1, CopiesCounted
<1>3. inbox[d] = <<>> => \A j \in 1 .. Len(inbox[d]) : inbox[d][j] # i
  OBVIOUS
<1> QED
  BY <1>2, <1>3 DEF Copies

\* Two handlers never work on the same message: each on one of its own.
LEMMA OwnMessage ==
    ASSUME WorkingInv, NEW c \in Conns, NEW d \in Conns, c # d,
           pc[c] \in Sending, pc[d] \in Sending
    PROVE  current[c] # current[d]
  BY DEF WorkingInv, Message

\* Initially nothing is sent.
LEMMA InitEstablishes == Init => Inv
<1> SUFFICES ASSUME Init PROVE Inv
  OBVIOUS
<1>1. TypeOK
  BY ChatAssumption DEF Init, TypeOK, Steps, Sending
<1>2. messages = <<>> /\ pc = [c \in Conns |-> "idle"] /\ inbox = [c \in Conns |-> <<>>]
      /\ todo = [c \in Conns |-> {}]
  BY DEF Init
<1>3. NegotiatingInv /\ InboxInv
  BY <1>2 DEF NegotiatingInv, InboxInv
<1>4. WorkingInv /\ ProgressInv
  BY <1>2 DEF WorkingInv, ProgressInv, Sending
<1>5. DeliveredExactly
  BY <1>2 DEF DeliveredExactly
<1> QED
  BY <1>1, <1>3, <1>4, <1>5 DEF Inv

----------------------------------------------------------------------------
(* The steps                                                               *)

\* A step that touches neither the messages nor what handlers deliver keeps the
\* invariant, wherever it takes a handler that sends nothing.
LEMMA QuietStep ==
    ASSUME Inv, UNCHANGED <<settings, todo, current, messages, inbox>>,
           pc' \in [Conns -> Steps], \A c \in Conns : pc'[c] = pc[c] \/ pc'[c] \notin Sending
    PROVE  Inv'
<1>1. /\ negotiating' = negotiating /\ capabilities' = capabilities /\ todo' = todo
      /\ current' = current /\ messages' = messages /\ inbox' = inbox
  BY DEF settings
<1>2. TypeOK'
  BY <1>1 DEF Inv, TypeOK
<1>3. NegotiatingInv' /\ InboxInv'
  BY <1>1 DEF Inv, NegotiatingInv, InboxInv
<1>4. \A c \in Conns : pc'[c] \in Sending => pc'[c] = pc[c]
  OBVIOUS
<1>5. \A c \in Conns : Message(c)' = Message(c)
  BY <1>1 DEF Message
<1>6. WorkingInv'
  BY <1>1, <1>4, <1>5 DEF Inv, WorkingInv
<1>7. \A i, d : Copies(i, d)' = Copies(i, d)
  BY <1>1 DEF Copies
<1>8. \A m, d : DueFirst(m, d)' = DueFirst(m, d) /\ Due(m, d)' = Due(m, d)
  BY <1>1 DEF DueFirst, DueOwn, Due, Welcome
<1>9. DeliveredExactly'
  BY <1>1, <1>7, <1>8 DEF Inv, DeliveredExactly
<1>10. ProgressInv'
  <2> SUFFICES ASSUME NEW c \in Conns, pc'[c] \in Sending, NEW d \in Conns
               PROVE  /\ Copies(current[c], d) <= Sofar(c, d)'
                      /\ d \in Message(c).audience => Copies(current[c], d) = Sofar(c, d)'
    BY <1>1, <1>5, <1>7 DEF ProgressInv
  <2>1. Sofar(c, d)' = Sofar(c, d)
    BY <1>1, <1>4, <1>5, <1>8 DEF Sofar
  <2> QED
    BY <2>1, <1>4 DEF Inv, ProgressInv
<1> QED
  BY <1>2, <1>3, <1>6, <1>9, <1>10 DEF Inv

\* CAP REQ changes the capabilities of a connection that is nobody's receiver.
LEMMA CapReqStep ==
    ASSUME Inv, NEW c \in Conns, NEW line, CapReq(c, line)
    PROVE  Inv'
<1>1. /\ negotiating' = negotiating /\ pc' = pc /\ todo' = todo /\ current' = current
      /\ messages' = messages /\ inbox' = inbox /\ negotiating[c]
      /\ \A d \in Conns : d # c => capabilities'[d] = capabilities[d]
  BY DEF CapReq, Inv, TypeOK
<1>2. TypeOK'
  <2>1. capabilities' \in [Conns -> SUBSET ServerCaps]
    BY DEF CapReq, Inv, TypeOK
  <2> QED
    BY <1>1, <2>1 DEF Inv, TypeOK
<1>3. NegotiatingInv' /\ InboxInv'
  BY <1>1 DEF Inv, NegotiatingInv, InboxInv
<1>4. \A e \in Conns : Message(e)' = Message(e)
  BY <1>1 DEF Message
<1>5. WorkingInv'
  BY <1>1, <1>4 DEF Inv, WorkingInv
<1>6. \A i, d : Copies(i, d)' = Copies(i, d)
  BY <1>1 DEF Copies
<1>7. \A m : \A d \in Conns : d # c => /\ DueFirst(m, d)' = DueFirst(m, d)
                                       /\ Due(m, d)' = Due(m, d)
  BY <1>1 DEF DueFirst, DueOwn, Due, Welcome
<1>8. \A i : Copies(i, c) = 0
  BY <1>1, CopiesNat DEF Inv, NegotiatingInv
<1>9. \A i \in 1 .. Len(messages) : c \notin messages[i].audience
  BY <1>1 DEF Inv, NegotiatingInv
<1>10. \A m : Due(m, c)' \in Nat
  BY DEF Due, DueFirst, DueOwn
<1>11. DeliveredExactly'
  <2> SUFFICES ASSUME NEW i \in 1 .. Len(messages), NEW d \in Conns
               PROVE  /\ messages[i].fate = "dropped" => Copies(i, d) = 0
                      /\ Copies(i, d) <= Due(messages[i], d)'
                      /\ (messages[i].fate = "sent" /\ d \in messages[i].audience) =>
                             Copies(i, d) = Due(messages[i], d)'
    BY <1>1, <1>6 DEF DeliveredExactly
  <2>1. CASE d = c
    BY <2>1, <1>8, <1>9, <1>10
  <2>2. CASE d # c
    BY <2>2, <1>1, <1>7 DEF Inv, DeliveredExactly
  <2> QED
    BY <2>1, <2>2
<1>12. ProgressInv'
  <2> SUFFICES ASSUME NEW e \in Conns, pc[e] \in Sending, NEW d \in Conns
               PROVE  /\ Copies(current[e], d) <= Sofar(e, d)'
                      /\ d \in Message(e).audience => Copies(current[e], d) = Sofar(e, d)'
    BY <1>1, <1>4, <1>6 DEF ProgressInv
  <2>1. CASE d = c
    <3>1. Message(e).audience = messages[current[e]].audience
          /\ current[e] \in 1 .. Len(messages)
      BY DEF Message, Inv, WorkingInv
    <3>2. Sofar(e, c)' \in Nat
      BY <1>10 DEF Sofar, Due, DueFirst, DueOwn
    <3> QED
      BY <2>1, <3>1, <3>2, <1>8, <1>9
  <2>2. CASE d # c
    <3>1. Sofar(e, d)' = Sofar(e, d)
      BY <1>1, <1>4, <1>7, <2>2 DEF Sofar
    <3> QED
      BY <3>1 DEF Inv, ProgressInv
  <2> QED
    BY <2>1, <2>2
<1> QED
  BY <1>2, <1>3, <1>5, <1>11, <1>12 DEF Inv

\* CAP END makes a connection a receiver of what is sent from then on.
LEMMA CapEndStep ==
    ASSUME Inv, NEW c \in Conns, CapEnd(c)
    PROVE  Inv'
<1>1. /\ capabilities' = capabilities /\ pc' = pc /\ todo' = todo /\ current' = current
      /\ messages' = messages /\ inbox' = inbox
      /\ negotiating' \in [Conns -> BOOLEAN]
      /\ \A d \in Conns : negotiating'[d] => negotiating[d]
  BY DEF CapEnd, Inv, TypeOK
<1>2. TypeOK'
  BY <1>1 DEF Inv, TypeOK
<1>3. NegotiatingInv' /\ InboxInv'
  BY <1>1 DEF Inv, NegotiatingInv, InboxInv
<1>4. \A e \in Conns : Message(e)' = Message(e)
  BY <1>1 DEF Message
<1>5. WorkingInv'
  BY <1>1, <1>4 DEF Inv, WorkingInv
<1>6. \A i, d : Copies(i, d)' = Copies(i, d)
  BY <1>1 DEF Copies
<1>7. \A m, d : DueFirst(m, d)' = DueFirst(m, d) /\ Due(m, d)' = Due(m, d)
  BY <1>1 DEF DueFirst, DueOwn, Due, Welcome
<1>8. DeliveredExactly'
  BY <1>1, <1>6, <1>7 DEF Inv, DeliveredExactly
<1>9. ProgressInv'
  <2>1. \A e, d \in Conns : Sofar(e, d)' = Sofar(e, d)
    BY <1>1, <1>4, <1>7 DEF Sofar
  <2> QED
    BY <1>1, <1>4, <1>6, <2>1 DEF Inv, ProgressInv
<1> QED
  BY <1>2, <1>3, <1>5, <1>8, <1>9 DEF Inv

\* A new message: nobody has a copy of it yet, and its audience are the
\* connections that are ready.
LEMMA PrivmsgStep ==
    ASSUME Inv, NEW c \in Conns, NEW target \in Accts \cup {Room}, handlePRIVMSG(c, target)
    PROVE  Inv'
<1> DEFINE n == Len(messages) + 1
           new == [from |-> c, to |-> target, audience |-> {d \in Conns : Ready(d)}, fate |-> "open"]
<1>1. /\ capabilities' = capabilities /\ negotiating' = negotiating /\ todo' = todo
      /\ inbox' = inbox /\ messages' = Append(messages, new) /\ pc[c] = "idle"
      /\ pc' = [pc EXCEPT ![c] = "hook"] /\ current' = [current EXCEPT ![c] = n]
  BY DEF handlePRIVMSG, settings, Goto, MayStart, WorkerIdle
<1>2. /\ Len(messages) \in Nat /\ Len(messages') = n
      /\ messages'[n] = new /\ \A i \in 1 .. Len(messages) : messages'[i] = messages[i]
  BY <1>1 DEF Inv, TypeOK
<1>3. /\ pc'[c] = "hook" /\ current'[c] = n
      /\ \A e \in Conns : e # c => pc'[e] = pc[e] /\ current'[e] = current[e]
  BY <1>1 DEF Inv, TypeOK
<1>4. new.audience = {d \in Conns : ~negotiating[d]} /\ new.from = c /\ new.fate = "open"
  BY DEF Ready
<1>5. TypeOK'
  <2>1. new \in [from : Conns, to : Accts \cup {Room}, audience : SUBSET Conns,
                 fate : {"open", "sent", "dropped"}]
    OBVIOUS
  <2>2. messages' \in Seq([from : Conns, to : Accts \cup {Room}, audience : SUBSET Conns,
                           fate : {"open", "sent", "dropped"}])
    <3> HIDE DEF new
    <3> QED
      BY <1>1, <2>1 DEF Inv, TypeOK
  <2>3. pc' \in [Conns -> Steps] /\ current' \in [Conns -> Nat]
    BY <1>1, <1>2 DEF Inv, TypeOK, Steps, Sending
  <2> QED
    BY <1>1, <2>2, <2>3 DEF Inv, TypeOK
<1> HIDE DEF new
<1>6. NegotiatingInv'
  BY <1>1, <1>2, <1>4 DEF Inv, NegotiatingInv
<1>7. InboxInv'
  BY <1>1, <1>2 DEF Inv, InboxInv
<1>8. \A i, d : Copies(i, d)' = Copies(i, d)
  BY <1>1 DEF Copies
<1>9. \A d \in Conns : Copies(n, d) = 0
  <2> TAKE d \in Conns
  <2>1. \A j \in 1 .. Len(inbox[d]) : inbox[d][j] # n
    BY <1>2 DEF Inv, InboxInv
  <2>2. inbox[d] \in Seq(Nat)
    BY DEF Inv, TypeOK
  <2> QED
    BY <2>1, <2>2, CopiesCounted DEF Copies
<1>10. \A m, d : DueFirst(m, d)' = DueFirst(m, d) /\ Due(m, d)' = Due(m, d)
  BY <1>1 DEF DueFirst, DueOwn, Due, Welcome
<1>11. /\ Message(c)' = new
       /\ \A e \in Conns : (e # c /\ pc[e] \in Sending) => Message(e)' = Message(e)
  BY <1>2, <1>3 DEF Message, Inv, WorkingInv
<1>12. WorkingInv'
  <2> SUFFICES ASSUME NEW e \in Conns, pc'[e] \in Sending
               PROVE  /\ current'[e] \in 1 .. n
                      /\ Message(e)'.from = e /\ Message(e)'.fate = "open"
                      /\ pc'[e] = "channel" =>
                             Message(e)'.to = Room /\ \A d \in todo[e] : AccountOf[d] \in Members
                      /\ pc'[e] \in {"dest", "own"} => Message(e)'.to # Room
                      /\ pc'[e] = "dest" => \A d \in todo[e] : AccountOf[d] = Message(e)'.to
                      /\ pc'[e] = "own" => \A d \in todo[e] : AccountOf[d] = AccountOf[e]
    BY <1>1, <1>2 DEF WorkingInv
  <2>1. CASE e = c
    BY <2>1, <1>2, <1>3, <1>4, <1>11
  <2>2. CASE e # c
    BY <2>2, <1>2, <1>3, <1>11 DEF Inv, WorkingInv
  <2> QED
    BY <2>1, <2>2
<1>13. ProgressInv'
  <2> SUFFICES ASSUME NEW e \in Conns, pc'[e] \in Sending, NEW d \in Conns
               PROVE  /\ Copies(current'[e], d) <= Sofar(e, d)'
                      /\ d \in Message(e)'.audience => Copies(current'[e], d) = Sofar(e, d)'
    BY <1>8 DEF ProgressInv
  <2>1. CASE e = c
    BY <2>1, <1>3, <1>9 DEF Sofar
  <2>2. CASE e # c
    <3>1. Sofar(e, d)' = Sofar(e, d)
      BY <2>2, <1>1, <1>3, <1>10, <1>11 DEF Sofar
    <3> QED
      BY <2>2, <3>1, <1>3, <1>11 DEF Inv, ProgressInv
  <2> QED
    BY <2>1, <2>2
<1>14. DeliveredExactly'
  <2> SUFFICES ASSUME NEW i \in 1 .. n, NEW d \in Conns
               PROVE  /\ messages'[i].fate = "dropped" => Copies(i, d) = 0
                      /\ Copies(i, d) <= Due(messages'[i], d)
                      /\ (messages'[i].fate = "sent" /\ d \in messages'[i].audience) =>
                             Copies(i, d) = Due(messages'[i], d)
    BY <1>2, <1>8, <1>10 DEF DeliveredExactly
  <2>1. CASE i = n
    BY <2>1, <1>2, <1>4, <1>9, DueBounds
  <2>2. CASE i # n
    BY <2>2, <1>2 DEF Inv, DeliveredExactly
  <2> QED
    BY <2>1, <2>2
<1> QED
  BY <1>5, <1>6, <1>7, <1>12, <1>13, <1>14 DEF Inv
\* One entry of a sequence is replaced.
LEMMA EntryReplaced ==
    ASSUME NEW M, NEW s \in Seq(M), NEW k \in 1 .. Len(s), NEW v \in M, NEW t,
           t = [s EXCEPT ![k] = v]
    PROVE  /\ t \in Seq(M) /\ Len(t) = Len(s) /\ t[k] = v
           /\ \A i \in 1 .. Len(s) : i # k => t[i] = s[i]
  OBVIOUS

\* A handler ends and settles its message, which was dropped and is nobody's, or
\* was sent and has all its copies.
LEMMA FinishedStep ==
    ASSUME Inv, NEW c \in Conns, NEW fate \in {"dropped", "sent"},
           UNCHANGED <<capabilities, negotiating, todo, inbox>>, pc[c] \in Sending,
           fate = "dropped" => \A d \in Conns : Copies(current[c], d) = 0,
           fate = "sent" => \A d \in Message(c).audience :
                                Copies(current[c], d) = Due(Message(c), d),
           Done(c), Mark(c, fate)
    PROVE  Inv'
<1> DEFINE k == current[c]
<1>1. /\ capabilities' = capabilities /\ negotiating' = negotiating /\ todo' = todo
      /\ inbox' = inbox /\ pc' = [pc EXCEPT ![c] = "idle"]
      /\ current' = [current EXCEPT ![c] = 0]
      /\ messages' = [messages EXCEPT ![k].fate = fate]
  BY DEF Done, Goto, Mark
<1>2. k \in 1 .. Len(messages)
  BY DEF Inv, WorkingInv
<1> DEFINE M == [from : Conns, to : Accts \cup {Room}, audience : SUBSET Conns,
                 fate : {"open", "sent", "dropped"}]
           new == [messages[k] EXCEPT !.fate = fate]
<1>3. messages \in Seq(M) /\ messages' = [messages EXCEPT ![k] = new]
  BY <1>1 DEF Inv, TypeOK
<1>4. messages[k] \in M
  <2> HIDE DEF M, k
  <2> QED
    BY <1>2, <1>3
<1>5. new \in M /\ new.fate = fate /\ new.from = messages[k].from
      /\ new.to = messages[k].to /\ new.audience = messages[k].audience
  BY <1>4
<1>6. /\ messages' \in Seq(M) /\ Len(messages') = Len(messages) /\ messages'[k] = new
      /\ \A i \in 1 .. Len(messages) : i # k => messages'[i] = messages[i]
  <2> HIDE DEF M, k, new
  <2> QED
    BY <1>2, <1>3, <1>5, EntryReplaced
<1>7. /\ pc'[c] = "idle" /\ \A e \in Conns : e # c => pc'[e] = pc[e] /\ current'[e] = current[e]
  BY <1>1 DEF Inv, TypeOK
<1> HIDE DEF new
<1>8. TypeOK'
  <2>1. pc' \in [Conns -> Steps] /\ current' \in [Conns -> Nat]
    BY <1>1 DEF Inv, TypeOK, Steps
  <2> QED
    BY <1>1, <1>6, <2>1 DEF Inv, TypeOK
<1>9. NegotiatingInv'
  BY <1>1, <1>5, <1>6 DEF Inv, NegotiatingInv
<1>10. InboxInv'
  BY <1>1, <1>6 DEF Inv, InboxInv
<1>11. \A e \in Conns : (e # c /\ pc[e] \in Sending) =>
           current[e] # k /\ current[e] \in 1 .. Len(messages) /\ Message(e)' = Message(e)
  <2> TAKE e \in Conns
  <2> HAVE e # c /\ pc[e] \in Sending
  <2>1. current[e] # k /\ current[e] \in 1 .. Len(messages)
    BY OwnMessage DEF Inv, WorkingInv
  <2> QED
    BY <2>1, <1>6, <1>7 DEF Message
<1>12. \A e \in Conns : pc'[e] \in Sending => e # c /\ pc'[e] = pc[e]
  BY <1>7 DEF Sending
<1>13. WorkingInv'
  BY <1>1, <1>6, <1>7, <1>11, <1>12 DEF Inv, WorkingInv
<1>14. \A i, d : Copies(i, d)' = Copies(i, d)
  BY <1>1 DEF Copies
<1>15. \A m, d : DueFirst(m, d)' = DueFirst(m, d) /\ Due(m, d)' = Due(m, d)
  BY <1>1 DEF DueFirst, DueOwn, Due, Welcome
<1>16. ProgressInv'
  <2> SUFFICES ASSUME NEW e \in Conns, pc'[e] \in Sending, NEW d \in Conns
               PROVE  /\ Copies(current'[e], d) <= Sofar(e, d)'
                      /\ d \in Message(e)'.audience => Copies(current'[e], d) = Sofar(e, d)'
    BY <1>14 DEF ProgressInv
  <2>1. Sofar(e, d)' = Sofar(e, d)
    BY <1>1, <1>7, <1>11, <1>12, <1>15 DEF Sofar
  <2> QED
    BY <2>1, <1>7, <1>11, <1>12 DEF Inv, ProgressInv
<1>17. DeliveredExactly'
  <2> SUFFICES ASSUME NEW i \in 1 .. Len(messages), NEW d \in Conns
               PROVE  /\ messages'[i].fate = "dropped" => Copies(i, d) = 0
                      /\ Copies(i, d) <= Due(messages'[i], d)
                      /\ (messages'[i].fate = "sent" /\ d \in messages'[i].audience) =>
                             Copies(i, d) = Due(messages'[i], d)
    BY <1>6, <1>14, <1>15 DEF DeliveredExactly
  <2>1. CASE i = k
    <3>1. Due(messages'[k], d) = Due(messages[k], d)
      BY <1>5, <1>6 DEF Due, DueFirst, DueOwn, Welcome
    <3>2. Copies(k, d) <= Due(messages[k], d)
      BY <1>2 DEF Inv, DeliveredExactly
    <3> QED
      BY <2>1, <3>1, <3>2, <1>5, <1>6 DEF Message
  <2>2. CASE i # k
    BY <2>2, <1>6 DEF Inv, DeliveredExactly
  <2> QED
    BY <2>1, <2>2
<1> QED
  BY <1>8, <1>9, <1>10, <1>13, <1>16, <1>17 DEF Inv

\* A module cancels a message or its handler fails: it was delivered to nobody.
\* Otherwise the handler goes on to the locks.
LEMMA HookStep ==
    ASSUME Inv, NEW c \in Conns, MessageHook(c)
    PROVE  Inv'
<1>1. /\ capabilities' = capabilities /\ negotiating' = negotiating /\ todo' = todo
      /\ inbox' = inbox /\ pc[c] = "hook"
  BY DEF MessageHook, settings, At
<1>2. CASE Done(c) /\ Mark(c, "dropped")
  <2> DEFINE k == current[c]
  <2>1. k \in 1 .. Len(messages) /\ \A d \in Conns : Copies(k, d) = 0
    <3>1. pc[c] \in Sending /\ \A d \in Conns : Sofar(c, d) = 0
      BY <1>1 DEF Sending, Sofar
    <3>2. k \in 1 .. Len(messages)
      BY <3>1 DEF Inv, WorkingInv
    <3>3. \A d \in Conns : Copies(k, d) <= 0 /\ Copies(k, d) \in Nat
      BY <3>1, CopiesNat DEF Inv, ProgressInv
    <3> QED
      BY <3>2, <3>3
  <2> QED
    BY <1>1, <1>2, <2>1, FinishedStep DEF Sending
<1>3. CASE Goto(c, "lock") /\ UNCHANGED <<current, messages>>
  <2>1. /\ current' = current /\ messages' = messages
        /\ pc' = [pc EXCEPT ![c] = "lock"] /\ pc'[c] = "lock"
        /\ \A e \in Conns : e # c => pc'[e] = pc[e]
    BY <1>3 DEF Goto, Inv, TypeOK
  <2>2. TypeOK'
    BY <1>1, <2>1 DEF Inv, TypeOK, Steps, Sending
  <2>3. NegotiatingInv' /\ InboxInv'
    BY <1>1, <2>1 DEF Inv, NegotiatingInv, InboxInv
  <2>4. \A e \in Conns : Message(e)' = Message(e)
    BY <2>1 DEF Message
  <2>5. \A e \in Conns : pc'[e] \in Sending => pc[e] \in Sending
    BY <1>1, <2>1 DEF Sending
  <2>6. WorkingInv'
    BY <1>1, <2>1, <2>4, <2>5 DEF Inv, WorkingInv
  <2>7. \A i, d : Copies(i, d)' = Copies(i, d)
    BY <1>1 DEF Copies
  <2>8. \A m, d : DueFirst(m, d)' = DueFirst(m, d) /\ Due(m, d)' = Due(m, d)
    BY <1>1 DEF DueFirst, DueOwn, Due, Welcome
  <2>9. DeliveredExactly'
    BY <2>1, <2>7, <2>8 DEF Inv, DeliveredExactly
  <2>10. \A e, d \in Conns : Sofar(e, d)' = Sofar(e, d)
    BY <1>1, <2>1, <2>4, <2>8 DEF Sofar
  <2>11. ProgressInv'
    BY <2>1, <2>4, <2>5, <2>7, <2>10 DEF Inv, ProgressInv
  <2> QED
    BY <2>2, <2>3, <2>6, <2>9, <2>11 DEF Inv
<1> QED
  BY <1>2, <1>3 DEF MessageHook

\* Under the locks, the receivers are those that are ready: nobody has a copy
\* yet, and who is not among them is due none or was not ready for the message.
LEMMA LockStep ==
    ASSUME Inv, NEW c \in Conns, LockChannel(c) \/ LockAccount(c)
    PROVE  Inv'
<1> DEFINE k == current[c]
<1>1. /\ capabilities' = capabilities /\ negotiating' = negotiating /\ current' = current
      /\ inbox' = inbox /\ messages' = messages /\ pc[c] = "lock"
      /\ \A e \in Conns : e # c => pc'[e] = pc[e] /\ todo'[e] = todo[e]
  BY DEF LockChannel, LockAccount, settings, At, Goto, Inv, TypeOK
<1>2. \/ /\ pc'[c] = "channel" /\ Message(c).to = Room
         /\ todo'[c] = {d \in Conns : ~negotiating[d] /\ AccountOf[d] \in Members}
      \/ /\ pc'[c] = "dest" /\ Message(c).to # Room
         /\ todo'[c] = {d \in Conns : ~negotiating[d] /\ AccountOf[d] = Message(c).to}
  <2>1. CASE LockChannel(c)
    BY <2>1 DEF LockChannel, At, Goto, Inv, TypeOK, Ready
  <2>2. CASE LockAccount(c)
    BY <2>2 DEF LockAccount, At, Goto, Inv, TypeOK, Ready, ConnsOf
  <2> QED
    BY <2>1, <2>2
<1>3. TypeOK'
  <2>1. pc' \in [Conns -> Steps]
    BY DEF LockChannel, LockAccount, Goto, Inv, TypeOK, Steps, Sending
  <2>2. todo' \in [Conns -> SUBSET Conns]
    BY DEF LockChannel, LockAccount, Inv, TypeOK, ConnsOf
  <2> QED
    BY <1>1, <2>1, <2>2 DEF Inv, TypeOK
<1>4. NegotiatingInv'
  BY <1>1, <1>2 DEF Inv, NegotiatingInv
<1>5. InboxInv'
  BY <1>1 DEF Inv, InboxInv
<1>6. \A e \in Conns : Message(e)' = Message(e)
  BY <1>1 DEF Message
<1>7. \A e \in Conns : pc'[e] \in Sending => pc[e] \in Sending
  BY <1>1 DEF Sending
<1>8. WorkingInv'
  <2> SUFFICES ASSUME NEW e \in Conns, pc'[e] \in Sending
               PROVE  /\ current[e] \in 1 .. Len(messages)
                      /\ Message(e).from = e /\ Message(e).fate = "open"
                      /\ pc'[e] = "channel" =>
                             Message(e).to = Room /\ \A d \in todo'[e] : AccountOf[d] \in Members
                      /\ pc'[e] \in {"dest", "own"} => Message(e).to # Room
                      /\ pc'[e] = "dest" => \A d \in todo'[e] : AccountOf[d] = Message(e).to
                      /\ pc'[e] = "own" => \A d \in todo'[e] : AccountOf[d] = AccountOf[e]
    BY <1>1, <1>6 DEF WorkingInv
  <2>1. CASE e = c
    BY <2>1, <1>2, <1>7 DEF Inv, WorkingInv
  <2>2. CASE e # c
    BY <2>2, <1>1 DEF Inv, WorkingInv
  <2> QED
    BY <2>1, <2>2
<1>9. \A i, d : Copies(i, d)' = Copies(i, d)
  BY <1>1 DEF Copies
<1>10. \A m, d : DueFirst(m, d)' = DueFirst(m, d) /\ Due(m, d)' = Due(m, d)
  BY <1>1 DEF DueFirst, DueOwn, Due, Welcome
<1>11. DeliveredExactly'
  BY <1>1, <1>9, <1>10 DEF Inv, DeliveredExactly
<1>12. ProgressInv'
  <2> SUFFICES ASSUME NEW e \in Conns, pc'[e] \in Sending, NEW d \in Conns
               PROVE  /\ Copies(current[e], d) <= Sofar(e, d)'
                      /\ d \in Message(e).audience => Copies(current[e], d) = Sofar(e, d)'
    BY <1>1, <1>6, <1>9 DEF ProgressInv
  <2>1. CASE e = c
    <3>1. Copies(k, d) = 0 /\ k \in 1 .. Len(messages)
      <4>1. pc[c] \in Sending /\ Sofar(c, d) = 0
        BY <1>1 DEF Sending, Sofar
      <4>2. Copies(k, d) <= 0 /\ Copies(k, d) \in Nat
        BY <4>1, CopiesNat DEF Inv, ProgressInv
      <4> QED
        BY <4>1, <4>2 DEF Inv, WorkingInv
    <3>2. d \in Message(c).audience => ~negotiating[d]
      BY <3>1 DEF Inv, NegotiatingInv, Message
    <3>3. Sofar(c, d)' = IF d \in todo'[c] THEN 0 ELSE DueFirst(Message(c), d)
      BY <1>2, <1>6, <1>10 DEF Sofar
    <3>4. (~negotiating[d] /\ d \notin todo'[c]) => DueFirst(Message(c), d) = 0
      BY <1>2 DEF DueFirst
    <3>5. DueFirst(Message(c), d) \in {0, 1}
      BY DueBounds
    <3> QED
      BY <2>1, <3>1, <3>2, <3>3, <3>4, <3>5
  <2>2. CASE e # c
    <3>1. Sofar(e, d)' = Sofar(e, d)
      BY <2>2, <1>1, <1>6, <1>10 DEF Sofar
    <3> QED
      BY <2>2, <3>1, <1>1 DEF Inv, ProgressInv
  <2> QED
    BY <2>1, <2>2
<1> QED
  BY <1>3, <1>4, <1>5, <1>8, <1>11, <1>12 DEF Inv

\* One receiver gets its copy, if it wants one; copies of other messages and
\* other receivers' copies are as before.
LEMMA SendStep ==
    ASSUME Inv, NEW c \in Conns, pc[c] \in {"channel", "dest", "own"}, Send(c)
    PROVE  Inv'
<1> DEFINE k == current[c]
<1>1. PICK d \in todo[c] :
          /\ inbox' = [inbox EXCEPT ![d] = IF Wanted(d, c) THEN Append(@, k) ELSE @]
          /\ todo' = [todo EXCEPT ![c] = @ \ {d}]
          /\ capabilities' = capabilities /\ negotiating' = negotiating /\ pc' = pc
          /\ current' = current /\ messages' = messages
  <2>1. (CHOOSE x \in todo[c] : TRUE) \in todo[c]
    BY DEF Send
  <2> QED
    BY <2>1 DEF Send, settings
<1>2. d \in Conns /\ pc[c] \in Sending /\ k \in 1 .. Len(messages) /\ k \in Nat /\ ~negotiating[d]
      /\ Len(messages) \in Nat
  BY DEF Inv, TypeOK, WorkingInv, NegotiatingInv, Sending
<1> DEFINE want == IF Wanted(d, c) THEN 1 ELSE 0
<1>3. /\ inbox[d] \in Seq(Nat)
      /\ inbox'[d] = IF Wanted(d, c) THEN Append(inbox[d], k) ELSE inbox[d]
      /\ \A e \in Conns : e # d => inbox'[e] = inbox[e]
  BY <1>1, <1>2 DEF Inv, TypeOK
<1>4. /\ todo'[c] = todo[c] \ {d} /\ \A e \in Conns : e # c => todo'[e] = todo[e]
  BY <1>1 DEF Inv, TypeOK
<1>5. TypeOK'
  <2>1. inbox' \in [Conns -> Seq(Nat)]
    BY <1>1, <1>2, <1>3 DEF Inv, TypeOK
  <2>2. todo' \in [Conns -> SUBSET Conns]
    BY <1>1 DEF Inv, TypeOK
  <2> QED
    BY <1>1, <2>1, <2>2 DEF Inv, TypeOK
<1>6. NegotiatingInv'
  BY <1>1, <1>2, <1>3, <1>4 DEF Inv, NegotiatingInv
<1>7. InboxInv'
  <2> SUFFICES ASSUME NEW e \in Conns, NEW j \in 1 .. Len(inbox'[e])
               PROVE  inbox'[e][j] \in 1 .. Len(messages)
    BY <1>1 DEF InboxInv
  <2>1. CASE e = d
    BY <2>1, <1>2, <1>3 DEF Inv, InboxInv
  <2>2. CASE e # d
    BY <2>2, <1>3 DEF Inv, InboxInv
  <2> QED
    BY <2>1, <2>2
<1>8. /\ Copies(k, d)' = Copies(k, d) + want
      /\ \A i : i # k => Copies(i, d)' = Copies(i, d)
      /\ \A i : \A e \in Conns : e # d => Copies(i, e)' = Copies(i, e)
  <2>1. \A i : Copies(i, d) \in Nat
    BY <1>2, CopiesNat DEF Inv
  <2>2. \A i : CopiesIn(Append(inbox[d], k), i)
                   = CopiesIn(inbox[d], i) + (IF k = i THEN 1 ELSE 0)
    BY <1>2, <1>3, CopiesAppended
  <2>3. CASE Wanted(d, c)
    BY <2>1, <2>2, <2>3, <1>1, <1>3 DEF Copies
  <2>4. CASE ~Wanted(d, c)
    BY <2>1, <2>4, <1>1, <1>3 DEF Copies
  <2> QED
    BY <2>3, <2>4
<1>9. \A e \in Conns : Message(e)' = Message(e)
  BY <1>1 DEF Message
<1>10. WorkingInv'
  BY <1>1, <1>4, <1>9 DEF Inv, WorkingInv
<1>11. \A m, e : DueFirst(m, e)' = DueFirst(m, e) /\ Due(m, e)' = Due(m, e)
  BY <1>1 DEF DueFirst, DueOwn, Due, Welcome
<1>12. /\ Message(c).from = c
       /\ pc[c] = "channel" => Message(c).to = Room /\ AccountOf[d] \in Members
       /\ pc[c] = "dest" => Message(c).to # Room /\ AccountOf[d] = Message(c).to
       /\ pc[c] = "own" => Message(c).to # Room /\ AccountOf[d] = AccountOf[c]
  BY <1>2 DEF Inv, WorkingInv
<1>13. /\ pc[c] = "own" => DueOwn(Message(c), d) = want
       /\ pc[c] # "own" => DueFirst(Message(c), d) = want
  BY <1>12 DEF DueOwn, DueFirst, Welcome, Wanted
<1>14. ProgressInv'
  <2> SUFFICES ASSUME NEW e \in Conns, pc[e] \in Sending, NEW x \in Conns
               PROVE  /\ Copies(current[e], x)' <= Sofar(e, x)'
                      /\ x \in Message(e).audience => Copies(current[e], x)' = Sofar(e, x)'
    BY <1>1, <1>9 DEF ProgressInv
  <2>1. CASE e = c /\ x = d
    <3>1. Sofar(c, d) = IF pc[c] = "own" THEN DueFirst(Message(c), d) ELSE 0
      BY DEF Sofar
    <3>2. Sofar(c, d)' = IF pc[c] = "own" THEN Due(Message(c), d) ELSE DueFirst(Message(c), d)
      BY <1>1, <1>4, <1>9, <1>11 DEF Sofar
    <3>3. Sofar(c, d)' = Sofar(c, d) + want
      BY <3>1, <3>2, <1>13, DueBounds DEF Due
    <3>4. /\ Copies(k, d) <= Sofar(c, d)
          /\ d \in Message(c).audience => Copies(k, d) = Sofar(c, d)
      BY <1>2 DEF Inv, ProgressInv
    <3>5. Copies(k, d) \in Nat /\ Sofar(c, d) \in Nat /\ want \in Nat
      BY <1>2, CopiesNat, SofarBounds DEF Inv
    <3>6. Copies(current[c], d)' = Copies(k, d) + want
      BY <1>1, <1>8
    <3> QED
      BY <2>1, <3>3, <3>4, <3>5, <3>6
  <2>2. CASE e = c /\ x # d
    <3>1. Sofar(c, x)' = Sofar(c, x)
      BY <2>2, <1>1, <1>4, <1>9, <1>11 DEF Sofar
    <3>2. Copies(current[c], x)' = Copies(current[c], x)
      BY <2>2, <1>1, <1>8
    <3> QED
      BY <2>2, <3>1, <3>2 DEF Inv, ProgressInv
  <2>3. CASE e # c
    <3>1. Sofar(e, x)' = Sofar(e, x)
      BY <2>3, <1>1, <1>4, <1>9, <1>11 DEF Sofar
    <3>2. current[e] # k
      BY <2>3, <1>2, OwnMessage DEF Inv
    <3>3. Copies(current[e], x)' = Copies(current[e], x)
      BY <3>2, <1>1, <1>8
    <3> QED
      BY <3>1, <3>3 DEF Inv, ProgressInv
  <2> QED
    BY <2>1, <2>2, <2>3
<1>15. DeliveredExactly'
  <2> SUFFICES ASSUME NEW i \in 1 .. Len(messages), NEW x \in Conns
               PROVE  /\ messages[i].fate = "dropped" => Copies(i, x)' = 0
                      /\ Copies(i, x)' <= Due(messages[i], x)
                      /\ (messages[i].fate = "sent" /\ x \in messages[i].audience) =>
                             Copies(i, x)' = Due(messages[i], x)
    BY <1>1, <1>11 DEF DeliveredExactly
  <2>1. CASE i = k
    <3>1. messages[k].fate = "open"
      BY <1>2 DEF Inv, WorkingInv, Message
    <3>2. Copies(current[c], x)' <= Sofar(c, x)'
      BY <1>1, <1>2, <1>14 DEF ProgressInv
    <3>3. Copies(i, x)' = Copies(current[c], x)'
      BY <2>1, <1>1
    <3>4. /\ Sofar(c, x)' \in Nat /\ Sofar(c, x)' <= Due(Message(c), x)'
      BY DEF Sofar, Due, DueFirst, DueOwn
    <3>5. Due(Message(c), x)' = Due(messages[k], x)
      BY <1>9, <1>11 DEF Message
    <3>6. Due(messages[k], x) \in Nat /\ Copies(current[c], x)' \in Nat
      BY <1>1, <1>8, CopiesNat, DueBounds DEF Inv
    <3> QED
      BY <2>1, <3>1, <3>2, <3>3, <3>4, <3>5, <3>6
  <2>2. CASE i # k
    <3>1. Copies(i, x)' = Copies(i, x)
      BY <2>2, <1>8
    <3> QED
      BY <3>1 DEF Inv, DeliveredExactly
  <2> QED
    BY <2>1, <2>2
<1> QED
  BY <1>5, <1>6, <1>7, <1>10, <1>14, <1>15 DEF Inv

\* After the receivers come the sender's own connections that are ready; who is
\* not among them is due no second copy, or was not ready for the message.
LEMMA TurnStep ==
    ASSUME Inv, NEW c \in Conns, TurnToOwn(c)
    PROVE  Inv'
<1> DEFINE k == current[c]
<1>1. /\ capabilities' = capabilities /\ negotiating' = negotiating /\ current' = current
      /\ inbox' = inbox /\ messages' = messages /\ pc[c] = "dest" /\ todo[c] = {}
      /\ pc'[c] = "own" /\ todo'[c] = {d \in Conns : ~negotiating[d] /\ AccountOf[d] = AccountOf[c]}
      /\ \A e \in Conns : e # c => pc'[e] = pc[e] /\ todo'[e] = todo[e]
  BY DEF TurnToOwn, settings, At, Goto, Inv, TypeOK, Ready, ConnsOf
<1>2. TypeOK'
  <2>1. pc' \in [Conns -> Steps]
    BY DEF TurnToOwn, Goto, Inv, TypeOK, Steps, Sending
  <2>2. todo' \in [Conns -> SUBSET Conns]
    BY DEF TurnToOwn, Inv, TypeOK, ConnsOf
  <2> QED
    BY <1>1, <2>1, <2>2 DEF Inv, TypeOK
<1>3. NegotiatingInv' /\ InboxInv'
  BY <1>1 DEF Inv, NegotiatingInv, InboxInv
<1>4. \A e \in Conns : Message(e)' = Message(e)
  BY <1>1 DEF Message
<1>5. \A e \in Conns : pc'[e] \in Sending => pc[e] \in Sending
  BY <1>1 DEF Sending
<1>6. WorkingInv'
  <2> SUFFICES ASSUME NEW e \in Conns, pc'[e] \in Sending
               PROVE  /\ current[e] \in 1 .. Len(messages)
                      /\ Message(e).from = e /\ Message(e).fate = "open"
                      /\ pc'[e] = "channel" =>
                             Message(e).to = Room /\ \A d \in todo'[e] : AccountOf[d] \in Members
                      /\ pc'[e] \in {"dest", "own"} => Message(e).to # Room
                      /\ pc'[e] = "dest" => \A d \in todo'[e] : AccountOf[d] = Message(e).to
                      /\ pc'[e] = "own" => \A d \in todo'[e] : AccountOf[d] = AccountOf[e]
    BY <1>1, <1>4 DEF WorkingInv
  <2>1. CASE e = c
    BY <2>1, <1>1, <1>5 DEF Inv, WorkingInv
  <2>2. CASE e # c
    BY <2>2, <1>1 DEF Inv, WorkingInv
  <2> QED
    BY <2>1, <2>2
<1>7. \A i, d : Copies(i, d)' = Copies(i, d)
  BY <1>1 DEF Copies
<1>8. \A m, d : DueFirst(m, d)' = DueFirst(m, d) /\ Due(m, d)' = Due(m, d)
  BY <1>1 DEF DueFirst, DueOwn, Due, Welcome
<1>9. DeliveredExactly'
  BY <1>1, <1>7, <1>8 DEF Inv, DeliveredExactly
<1>10. ProgressInv'
  <2> SUFFICES ASSUME NEW e \in Conns, pc'[e] \in Sending, NEW d \in Conns
               PROVE  /\ Copies(current[e], d) <= Sofar(e, d)'
                      /\ d \in Message(e).audience => Copies(current[e], d) = Sofar(e, d)'
    BY <1>1, <1>4, <1>7 DEF ProgressInv
  <2>1. CASE e = c
    <3>1. Message(c).from = c /\ k \in 1 .. Len(messages) /\ pc[c] \in Sending
      BY <1>1 DEF Inv, WorkingInv, Sending
    <3>2. Sofar(c, d) = DueFirst(Message(c), d)
      BY <1>1 DEF Sofar
    <3>3. Sofar(c, d)' = IF d \in todo'[c] THEN DueFirst(Message(c), d) ELSE Due(Message(c), d)
      BY <1>1, <1>4, <1>8 DEF Sofar
    <3>4. (~negotiating[d] /\ d \notin todo'[c]) => DueOwn(Message(c), d) = 0
      BY <1>1, <3>1 DEF DueOwn
    <3>5. d \in Message(c).audience => ~negotiating[d]
      BY <3>1 DEF Inv, NegotiatingInv, Message
    <3>6. /\ Copies(k, d) <= DueFirst(Message(c), d)
          /\ d \in Message(c).audience => Copies(k, d) = DueFirst(Message(c), d)
      BY <3>1, <3>2 DEF Inv, ProgressInv
    <3>7. /\ DueFirst(Message(c), d) \in {0, 1} /\ DueOwn(Message(c), d) \in {0, 1}
          /\ Copies(k, d) \in Nat
      BY DueBounds, CopiesNat DEF Inv
    <3> QED
      BY <2>1, <3>3, <3>4, <3>5, <3>6, <3>7 DEF Due
  <2>2. CASE e # c
    <3>1. Sofar(e, d)' = Sofar(e, d)
      BY <2>2, <1>1, <1>4, <1>8 DEF Sofar
    <3> QED
      BY <2>2, <3>1, <1>1 DEF Inv, ProgressInv
  <2> QED
    BY <2>1, <2>2
<1> QED
  BY <1>2, <1>3, <1>6, <1>9, <1>10 DEF Inv

\* When nobody is left, the copies are those that are due.
LEMMA SentStep ==
    ASSUME Inv, NEW c \in Conns, Sent(c)
    PROVE  Inv'
<1>1. /\ UNCHANGED <<capabilities, negotiating, todo, inbox>> /\ pc[c] \in {"channel", "own"}
      /\ todo[c] = {} /\ Done(c) /\ Mark(c, "sent")
  BY DEF Sent, settings
<1>2. pc[c] \in Sending
  BY <1>1 DEF Sending
<1>3. \A d \in Conns : Sofar(c, d) = Due(Message(c), d)
  <2> TAKE d \in Conns
  <2>1. CASE pc[c] = "own"
    BY <1>1, <2>1 DEF Sofar
  <2>2. CASE pc[c] = "channel"
    <3>1. DueOwn(Message(c), d) = 0 /\ DueFirst(Message(c), d) \in {0, 1}
      BY <1>2, <2>2 DEF Inv, WorkingInv, DueOwn, DueFirst
    <3> QED
      BY <1>1, <2>2, <3>1 DEF Sofar, Due
  <2> QED
    BY <1>1, <2>1, <2>2
<1>4. Message(c).audience \subseteq Conns
  <2>1. current[c] \in 1 .. Len(messages)
    BY <1>2 DEF Inv, WorkingInv
  <2> DEFINE M == [from : Conns, to : Accts \cup {Room}, audience : SUBSET Conns,
                   fate : {"open", "sent", "dropped"}]
  <2>2. messages \in Seq(M)
    BY DEF Inv, TypeOK
  <2>3. Message(c) \in M
    <3> HIDE DEF M
    <3> QED
      BY <2>1, <2>2 DEF Message
  <2> QED
    BY <2>3
<1>5. \A d \in Message(c).audience : Copies(current[c], d) = Due(Message(c), d)
  BY <1>2, <1>3, <1>4 DEF Inv, ProgressInv
<1> QED
  BY <1>1, <1>2, <1>5, FinishedStep

\* Every step keeps the invariant.
LEMMA NextPreserves == Inv /\ [Next]_vars => Inv'
<1> SUFFICES ASSUME Inv, [Next]_vars PROVE Inv'
  OBVIOUS
<1>1. pc \in [Conns -> Steps]
  BY DEF Inv, TypeOK
<1>2. CASE UNCHANGED vars
  BY <1>1, <1>2, QuietStep DEF vars, settings
<1>3. ASSUME NEW c \in Conns, Start(c)
      PROVE  Inv'
  <2>1. CASE CapEnd(c) \/ \E line \in CapLines[c] : CapReq(c, line)
    BY <2>1, CapEndStep, CapReqStep
  <2>2. CASE \E target \in Accts \cup {Room} : handlePRIVMSG(c, target)
    BY <2>2, PrivmsgStep
  <2>3. CASE WantAccount(c) \/ \E line \in ModeLines : handleMODE(c, line)
    <3>1. /\ UNCHANGED <<settings, todo, current, messages, inbox>>
          /\ pc' \in [Conns -> Steps]
          /\ \A e \in Conns : pc'[e] = pc[e] \/ pc'[e] \notin Sending
      BY <1>1, <2>3 DEF WantAccount, handleMODE, Goto, Steps, Sending
    <3> QED
      BY <3>1, QuietStep
  <2> QED
    BY <1>3, <2>1, <2>2, <2>3 DEF Start
<1>4. ASSUME NEW c \in Conns, Step(c)
      PROVE  Inv'
  <2>1. CASE MessageHook(c)
    BY <2>1, HookStep
  <2>2. CASE LockChannel(c) \/ LockAccount(c)
    BY <2>2, LockStep
  <2>3. CASE SendToMember(c) \/ SendToDest(c) \/ SendToOwn(c)
    BY <2>3, SendStep DEF SendToMember, SendToDest, SendToOwn, At
  <2>4. CASE TurnToOwn(c)
    BY <2>4, TurnStep
  <2>5. CASE Sent(c)
    BY <2>5, SentStep
  <2>6. CASE ModeLetter(c) \/ SetMode(c) \/ ModeDone(c) \/ WriteAccount(c)
    <3>1. UNCHANGED <<settings, todo, current, messages, inbox>>
      BY <2>6 DEF ModeLetter, SetMode, ModeDone, WriteAccount
    <3>2. pc' = pc \/ \E s \in {"mode", "relock", "letters", "idle"} : pc' = [pc EXCEPT ![c] = s]
      BY <2>6 DEF ModeLetter, SetMode, ModeDone, WriteAccount, Goto
    <3>3. /\ pc' \in [Conns -> Steps]
          /\ \A e \in Conns : pc'[e] = pc[e] \/ pc'[e] \notin Sending
      BY <1>1, <3>2 DEF Steps, Sending
    <3> QED
      BY <3>1, <3>3, QuietStep
  <2> QED
    BY <1>4, <2>1, <2>2, <2>3, <2>4, <2>5, <2>6 DEF Step
<1> QED
  BY <1>2, <1>3, <1>4 DEF Next

\* A message that was sent has reached every connection that was ready when it
\* was written exactly as often as the capabilities ask for, one that was
\* dropped has reached nobody, and no connection ever has more copies than it
\* is due: for any number of connections, accounts, workers and messages, in
\* any interleaving of the handlers and whatever else they do meanwhile.
THEOREM MessagesDelivered == Spec => []DeliveredExactly
<1>1. Inv => DeliveredExactly
  BY DEF Inv
<1> QED
  BY InitEstablishes, NextPreserves, <1>1, PTL DEF Spec

=============================================================================
