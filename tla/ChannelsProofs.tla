--------------------------- MODULE ChannelsProofs ---------------------------
(***************************************************************************)
(* Proofs about Channels, for any number of accounts, connections and      *)
(* channels, on any workers, under any RENAMEs and with handlers or not:   *)
(* the invariant Inv of Channels is inductive.                             *)
(*                                                                         *)
(* BaseInv is the part of it about what exists and who runs what; it is    *)
(* inductive by itself.  RestInv, about who lists whom, needs it.          *)
(***************************************************************************)
EXTENDS Channels, NaturalsInduction, WellFoundedInduction, TLAPS

-----------------------------------------------------------------------------
(* Lists of accounts                                                         *)

\* Every set of natural numbers that is not empty has a least element.
LEMMA LeastNat ==
    ASSUME NEW T \in SUBSET Nat, T # {}
    PROVE  \E n \in T : \A m \in T : n <= m
  <1> DEFINE less == {ss \in Nat \X Nat : ss[1] < ss[2]}
  <1>1. IsWellFoundedOn(less, Nat)
    BY NatLessThanWellFounded, Zenon DEF OpToRel
  <1>2. \A m, n \in Nat : m < n => <<m, n>> \in less
    OBVIOUS
  <1> HIDE DEF less
  <1>3. PICK n \in T : \A m \in T : ~ (<<m, n>> \in less)
    BY <1>1, WFMin
  <1>4. \A m \in T : ~ (m < n)
    BY <1>2, <1>3
  <1> QED
    BY <1>4

\* Induction up to a bound, for a set that holds 0 and is closed under successors.
LEMMA BoundedInduction ==
    ASSUME NEW m \in Nat, NEW T \in SUBSET (0 .. m), 0 \in T,
           \A n \in T : n < m => n + 1 \in T
    PROVE  T = 0 .. m
  <1> SUFFICES ASSUME T # 0 .. m
               PROVE  FALSE
    OBVIOUS
  <1> DEFINE missing == (0 .. m) \ T
  <1>1. missing \in SUBSET Nat /\ missing # {}
    <2>1. 0 .. m \in SUBSET Nat
      OBVIOUS
    <2> QED
      BY <2>1
  <1>2. PICK n \in missing : \A i \in missing : n <= i
    <2> HIDE DEF missing
    <2> QED
      BY <1>1, LeastNat
  <1>3. n \in Nat /\ n # 0 /\ n <= m
    BY <1>2
  <1>4. n - 1 \in T /\ n - 1 < m
    BY <1>2, <1>3
  <1>5. (n - 1) + 1 \in T
    BY <1>4
  <1> QED
    BY <1>2, <1>3, <1>5

\* The recursion in removeAll and its solution.
Removal(list, a, f) ==
    f = [i \in 0 .. Len(list) |->
            IF i = 0 THEN << >>
            ELSE IF list[i] = a THEN f[i - 1] ELSE Append(f[i - 1], list[i])]

\* There is a solution.
LEMMA RemovalExists ==
    ASSUME NEW list \in Seq(Accts), NEW a
    PROVE  \E f : Removal(list, a, f)
  <1> DEFINE Step(f, i) == IF i = 0 THEN << >>
                           ELSE IF list[i] = a THEN f[i - 1] ELSE Append(f[i - 1], list[i])
             good == {n \in 0 .. Len(list) : \E f : f = [i \in 0 .. n |-> Step(f, i)]}
  <1>1. Len(list) \in Nat /\ good \in SUBSET (0 .. Len(list))
    OBVIOUS
  <1>2. 0 \in good
    <2> DEFINE g == [i \in 0 .. 0 |-> << >>]
    <2>1. g = [i \in 0 .. 0 |-> Step(g, i)]
      OBVIOUS
    <2>2. \E f : f = [i \in 0 .. 0 |-> Step(f, i)]
      BY <2>1
    <2> QED
      BY <1>1, <2>2
  <1>3. ASSUME NEW n \in good, n < Len(list)
        PROVE  n + 1 \in good
    <2>1. PICK f : f = [i \in 0 .. n |-> Step(f, i)]
      OBVIOUS
    <2> DEFINE g == [i \in 0 .. n + 1 |-> IF i <= n THEN f[i] ELSE Step(f, i)]
    <2>2. n \in Nat /\ n + 1 \in 0 .. Len(list)
      BY <1>3
    <2>3. ASSUME NEW i \in 0 .. n + 1
          PROVE  g[i] = Step(g, i)
      <3>1. i # 0 => g[i - 1] = f[i - 1]
        BY <2>2
      <3>2. i <= n => f[i] = Step(f, i)
        <4>1. i <= n => i \in 0 .. n
          BY <2>2
        <4> QED
          BY <2>1, <4>1
      <3>3. g[i] = Step(f, i)
        BY <3>2
      <3> QED
        BY <3>1, <3>3
    <2>4. g = [i \in 0 .. n + 1 |-> Step(g, i)]
      BY <2>3
    <2> QED
      BY <2>2, <2>4
  <1>4. good = 0 .. Len(list)
    <2> HIDE DEF good
    <2> QED
      BY <1>1, <1>2, <1>3, BoundedInduction
  <1>5. Len(list) \in good
    BY <1>1, <1>4
  <1> QED
    BY <1>5 DEF Removal

\* Append leaves the elements that are there in their places.
LEMMA AppendAt ==
    ASSUME NEW S, NEW list \in Seq(S), NEW e \in S
    PROVE  \A i \in 1 .. Len(Append(list, e)) :
               \/ Append(list, e)[i] = e
               \/ i \in 1 .. Len(list) /\ Append(list, e)[i] = list[i]
  OBVIOUS

\* Append adds one element.
LEMMA AppendElements ==
    ASSUME NEW list \in Seq(Accts), NEW a \in Accts
    PROVE  Elements(Append(list, a)) = Elements(list) \cup {a}
  <1>1. DOMAIN list = 1 .. Len(list) /\ DOMAIN Append(list, a) = 1 .. Len(list) + 1
    OBVIOUS
  <1>2. \A i \in 1 .. Len(list) : Append(list, a)[i] = list[i]
    OBVIOUS
  <1>3. Append(list, a)[Len(list) + 1] = a /\ Len(list) \in Nat
    OBVIOUS
  <1> QED
    BY <1>1, <1>2, <1>3 DEF Elements

\* A list without repetitions keeps that, and loses the account and nobody else.
LEMMA RemoveAll ==
    ASSUME NEW list \in Seq(Accts), NEW a
    PROVE  /\ removeAll(list, a) \in Seq(Accts)
           /\ Elements(removeAll(list, a)) = Elements(list) \ {a}
           /\ (\A i, j \in 1 .. Len(list) : list[i] = list[j] => i = j) =>
                 \A i, j \in 1 .. Len(removeAll(list, a)) :
                     removeAll(list, a)[i] = removeAll(list, a)[j] => i = j
  <1> DEFINE kept == CHOOSE f : Removal(list, a, f)
             once == \A i, j \in 1 .. Len(list) : list[i] = list[j] => i = j
             Fine(n) == /\ kept[n] \in Seq(Accts)
                        /\ Elements(kept[n]) = {list[i] : i \in 1 .. n} \ {a}
                        /\ once => \A i, j \in 1 .. Len(kept[n]) :
                                       kept[n][i] = kept[n][j] => i = j
             good == {n \in 0 .. Len(list) : Fine(n)}
  <1>1. removeAll(list, a) = kept[Len(list)]
    BY DEF removeAll, Removal
  <1>2. kept = [i \in 0 .. Len(list) |->
                   IF i = 0 THEN << >>
                   ELSE IF list[i] = a THEN kept[i - 1] ELSE Append(kept[i - 1], list[i])]
    <2>1. Removal(list, a, kept)
      BY RemovalExists, Zenon
    <2> HIDE DEF kept
    <2> QED
      BY <2>1 DEF Removal
  <1> HIDE DEF kept
  <1>3. Len(list) \in Nat
    OBVIOUS
  <1>4. Fine(0)
    <2>1. kept[0] = << >>
      BY <1>2, <1>3
    <2> QED
      BY <2>1 DEF Elements
  <1>5. ASSUME NEW n \in 0 .. Len(list), n < Len(list), Fine(n)
        PROVE  Fine(n + 1)
    <2>1. n + 1 \in 1 .. Len(list) /\ n \in Nat /\ list[n + 1] \in Accts
      BY <1>5
    <2>2. kept[n + 1] = IF list[n + 1] = a THEN kept[n] ELSE Append(kept[n], list[n + 1])
      <3>1. n + 1 \in 0 .. Len(list) /\ n + 1 # 0 /\ (n + 1) - 1 = n
        BY <2>1
      <3> QED
        BY <1>2, <3>1
    <2>3. {list[i] : i \in 1 .. n + 1} = {list[i] : i \in 1 .. n} \cup {list[n + 1]}
      BY <2>1
    <2>4. CASE list[n + 1] = a
      BY <1>5, <2>2, <2>3, <2>4
    <2>5. CASE list[n + 1] # a
      <3>1. kept[n + 1] = Append(kept[n], list[n + 1])
        BY <2>2, <2>5
      <3>2. kept[n + 1] \in Seq(Accts)
        BY <1>5, <2>1, <3>1
      <3>3. Elements(kept[n + 1]) = Elements(kept[n]) \cup {list[n + 1]}
        BY <1>5, <2>1, <3>1, AppendElements
      <3>4. Elements(kept[n + 1]) = {list[i] : i \in 1 .. n + 1} \ {a}
        BY <1>5, <2>3, <2>5, <3>3
      <3>5. once => list[n + 1] \notin Elements(kept[n])
        <4>1. once => list[n + 1] \notin {list[i] : i \in 1 .. n}
          BY <2>1, <1>3
        <4> QED
          BY <1>5, <4>1
      <3>6. once => \A i, j \in 1 .. Len(kept[n + 1]) : kept[n + 1][i] = kept[n + 1][j] => i = j
        BY <1>5, <2>1, <3>1, <3>5 DEF Elements
      <3> QED
        BY <3>2, <3>4, <3>6
    <2> QED
      BY <2>4, <2>5
  <1> HIDE DEF Fine
  <1>6. good = 0 .. Len(list)
    <2>1. good \in SUBSET (0 .. Len(list)) /\ 0 \in good
      BY <1>3, <1>4
    <2>2. \A n \in good : n < Len(list) => n + 1 \in good
      BY <1>3, <1>5
    <2> HIDE DEF good
    <2> QED
      BY <1>3, <2>1, <2>2, BoundedInduction
  <1>7. Fine(Len(list))
    BY <1>3, <1>6
  <1>8. Elements(list) = {list[i] : i \in 1 .. Len(list)}
    BY DEF Elements
  <1> QED
    BY <1>1, <1>7, <1>8 DEF Fine

\* AddMember keeps a list free of repetitions and puts the account in.
LEMMA AddMemberFacts ==
    ASSUME NEW list \in Seq(Accts), NEW a \in Accts
    PROVE  /\ AddMember(list, a) \in Seq(Accts)
           /\ Elements(AddMember(list, a)) = Elements(list) \cup {a}
           /\ (\A i, j \in 1 .. Len(list) : list[i] = list[j] => i = j) =>
                 \A i, j \in 1 .. Len(AddMember(list, a)) :
                     AddMember(list, a)[i] = AddMember(list, a)[j] => i = j
  <1>1. CASE a \in Elements(list)
    BY <1>1 DEF AddMember
  <1>2. CASE a \notin Elements(list)
    <2>1. AddMember(list, a) = Append(list, a)
      BY <1>2 DEF AddMember
    <2> QED
      BY <1>2, <2>1 DEF Elements
  <1> QED
    BY <1>1, <1>2
-----------------------------------------------------------------------------
(* What exists, who runs what, and the lists of members                      *)

\* The first half of Inv.
BaseInv == TypeOK /\ NamedInv /\ HandlerInv /\ ListedInv /\ MutexInv /\ MembersOnce

\* What the steps need to know about the constants.
LEMMA Constants ==
    /\ AcctOf \in [Conns -> Accts]
    /\ Renames \subseteq Names \X Names
    /\ Hooked \in BOOLEAN /\ MaxCommands \in Nat
    /\ Null \notin Chans /\ Null \notin Names
    /\ Absent \notin Chans /\ Absent # Null
  BY ChannelsAssumption

\* What Finish does, without a choice of where it goes on.
Ends(c) ==
    /\ pc' = [pc EXCEPT ![c] = "idle"] \/ pc' = [pc EXCEPT ![c] = "rejoin"]
    /\ arg' = [arg EXCEPT ![c] = Null]
    /\ chan' = [chan EXCEPT ![c] = Null]
    /\ ptr' = [ptr EXCEPT ![c] = Null]

\* The channels loaded from the database satisfy the invariant.
LEMMA InitBase ==
    ASSUME Init
    PROVE  BaseInv
  <1> USE ChannelsAssumption
  <1>1. \A n \in Names : registry[n] # Null =>
            registry[n] \in LoadedChans /\ LoadedName[registry[n]] = n
    BY DEF Init
  <1>2. TypeOK
    <2>1. registry \in [Names -> Chans \cup {Null}]
      <3>1. \A n \in Names : registry[n] \in Chans \cup {Null}
        BY <1>1
      <3>2. registry = [n \in Names |-> registry[n]]
        BY DEF Init
      <3> QED
        BY <3>1, <3>2
    <2>2. accChans \in [Accts -> [Names -> Chans \cup {Null, Absent}]]
      BY <2>1 DEF Init
    <2>3. name \in [Chans -> Names \cup {Null}]
      BY DEF Init
    <2>4. members \in [Chans -> Seq(Accts)]
      BY DEF Init
    <2>5. connMembers \in [Conns -> [Chans \cup {Null} -> SUBSET Accts]]
      BY DEF Init
    <2>6. inbox \in [Conns -> Seq(Chans \X Accts)]
      BY DEF Init
    <2>7. /\ connChans \in [Conns -> [Names -> Chans \cup {Null}]]
          /\ conns \in [Accts -> SUBSET Conns]
      BY DEF Init
    <2>8. /\ todo \in [Conns -> SUBSET Names]
          /\ open \in [Conns -> {"new", "open", "gone"}]
          /\ pc \in [Conns -> Steps]
      BY DEF Init, Steps
    <2>9. /\ arg \in [Conns -> Names \cup {Null}]
          /\ chan \in [Conns -> Chans \cup {Null}]
          /\ ptr \in [Conns -> Chans \cup {Null}]
      BY DEF Init
    <2>10. crashed \in BOOLEAN
      BY DEF Init
    <2>11. commands \in 0 .. MaxCommands
      BY DEF Init
    <2>12. touched \subseteq Conns /\ former \in [Chans -> SUBSET Names] /\ overtaken \subseteq Accts \X Chans
      BY DEF Init
    <2> QED
      BY <2>1, <2>2, <2>3, <2>4, <2>5, <2>6, <2>7, <2>8, <2>9, <2>10, <2>11, <2>12 DEF TypeOK
  <1>3. NamedInv
    <2>1. \A n \in Names : registry[n] # Null => Named(registry[n])
      BY <1>1 DEF Init, Named
    <2>2. \A a \in Accts, n \in Names : accChans[a][n] \in Chans => Named(accChans[a][n])
      <3>1. \A a \in Accts, n \in Names : accChans[a][n] \in {registry[n], Absent}
        BY DEF Init
      <3> QED
        BY <2>1, <3>1
    <2> QED
      BY <2>1, <2>2 DEF NamedInv, Init
  <1>4. HandlerInv /\ ListedInv /\ MutexInv
    BY DEF Init, HandlerInv, ListedInv, MutexInv
  <1>5. MembersOnce
    BY DEF Init, MembersOnce
  <1> QED
    BY <1>2, <1>3, <1>4, <1>5 DEF BaseInv

\* A connection is attached: what it has to join are channels its account has.
LEMMA AttachBase ==
    ASSUME BaseInv, NEW c \in Conns, Attach(c)
    PROVE  BaseInv'
  <1> USE Constants DEF BaseInv, chanVars, connVars, localVars, history, Attach, WorkerIdle, Goto
  <1>1. TypeOK'
    <2>1. open' \in [Conns -> {"new", "open", "gone"}]
      BY DEF TypeOK
    <2>2. conns' \in [Accts -> SUBSET Conns]
      BY DEF TypeOK
    <2>3. todo' \in [Conns -> SUBSET Names]
      BY DEF TypeOK, Saved
    <2>4. pc' \in [Conns -> Steps]
      BY DEF TypeOK, Steps
    <2> QED
      BY <2>1, <2>2, <2>3, <2>4 DEF TypeOK
  <1>2. NamedInv'
    <2>1. \A n \in todo'[c] : accChans[AcctOf[c]][n] # Absent
      BY DEF TypeOK, Saved
    <2>2. \A d \in Conns : d # c => todo'[d] = todo[d]
      BY DEF TypeOK
    <2>3. UNCHANGED <<registry, name, members, accChans, connChans, inbox>>
      OBVIOUS
    <2> HIDE DEF Attach
    <2> QED
      BY <2>1, <2>2, <2>3 DEF NamedInv, Named
  <1>3. HandlerInv'
    BY DEF TypeOK, NamedInv, HandlerInv, Named
  <1>4. ListedInv'
    <2>1. /\ conns[AcctOf[c]] \cup {c} = conns'[AcctOf[c]]
          /\ \A a \in Accts : a # AcctOf[c] => conns'[a] = conns[a]
      BY DEF TypeOK
    <2>2. open'[c] = "open" /\ \A d \in Conns : d # c => open'[d] = open[d] /\ pc'[d] = pc[d]
      BY DEF TypeOK
    <2> QED
      BY <2>1, <2>2 DEF ListedInv
  <1>5. MutexInv'
    BY DEF TypeOK, MutexInv, Steps
  <1>6. MembersOnce'
    BY DEF TypeOK, MembersOnce
  <1> QED
    BY <1>1, <1>2, <1>3, <1>4, <1>5, <1>6

\* The names still to come are in the account's map.
LEMMA ResumeBase ==
    ASSUME BaseInv, NEW c \in Conns, Resume(c)
    PROVE  BaseInv'
  <1> USE Constants DEF BaseInv, chanVars, connVars, history
  <1>1. PICK left \in SUBSET Saved(AcctOf[c]) : todo' = [todo EXCEPT ![c] = left]
    BY DEF Resume
  <1>2. UNCHANGED <<chanVars, accChans, conns, connVars, inbox, pc, arg, chan, ptr, crashed,
                    history, commands>> /\ touched' \subseteq touched
    BY DEF Resume
  <1>3. left \subseteq Names /\ \A n \in left : accChans[AcctOf[c]][n] # Absent
    BY DEF Saved
  <1>4. TypeOK'
    <2>1. todo' \in [Conns -> SUBSET Names]
      BY <1>1, <1>3 DEF TypeOK
    <2> QED
      BY <1>2, <2>1 DEF TypeOK
  <1>5. NamedInv'
    <2>1. \A d \in Conns : todo'[d] = IF d = c THEN left ELSE todo[d]
      BY <1>1 DEF TypeOK
    <2> QED
      BY <1>2, <1>3, <2>1 DEF NamedInv, Named
  <1>6. HandlerInv' /\ ListedInv' /\ MutexInv' /\ MembersOnce'
    BY <1>2 DEF HandlerInv, ListedInv, MutexInv, MembersOnce, Named
  <1> QED
    BY <1>4, <1>5, <1>6

\* One turn of the loop over the channels of the account.
LEMMA RejoinBase ==
    ASSUME BaseInv, NEW c \in Conns, Rejoin(c)
    PROVE  BaseInv'
  <1> USE Constants DEF BaseInv, chanVars, connVars, localVars, history, Rejoin, At, Goto
  <1>0. PICK n \in todo[c] :
            \/ crashed' = TRUE /\ UNCHANGED <<pc, chan, ptr, todo>>
            \/ /\ accChans[AcctOf[c]][n] # Null
               /\ chan' = [chan EXCEPT ![c] = accChans[AcctOf[c]][n]]
               /\ ptr' = [ptr EXCEPT ![c] = registry[name[accChans[AcctOf[c]][n]]]]
               /\ todo' = [todo EXCEPT ![c] = todo[c] \ {n}]
               /\ pc' = [pc EXCEPT ![c] = "join"]
               /\ UNCHANGED crashed
    BY DEF TypeOK
  <1> DEFINE k == accChans[AcctOf[c]][n]
  <1>a. /\ pc[c] = "rejoin"
        /\ UNCHANGED <<registry, name, members, accChans, conns, open, connChans, connMembers, inbox,
                       arg, touched, former, overtaken, commands>>
    OBVIOUS
  <1>b. k # Null => Named(k) /\ (registry[name[k]] # Null => Named(registry[name[k]]))
    <2>1. n \in Names /\ k # Absent /\ k \in Chans \cup {Null, Absent}
      BY DEF NamedInv, TypeOK
    <2>2. k # Null => Named(k)
      BY <2>1 DEF NamedInv
    <2> HIDE DEF Rejoin
    <2> QED
      BY <2>2 DEF NamedInv, Named
  <1> HIDE DEF Rejoin
  <1>1. TypeOK'
    <2>1. crashed' \in BOOLEAN
      BY <1>0 DEF TypeOK
    <2>2. pc' \in [Conns -> Steps]
      BY <1>0 DEF TypeOK, Steps
    <2>3. chan' \in [Conns -> Chans \cup {Null}]
      BY <1>0, <1>a, <1>b DEF TypeOK, Named
    <2>4. ptr' \in [Conns -> Chans \cup {Null}]
      BY <1>0, <1>a, <1>b DEF TypeOK, Named
    <2>5. todo' \in [Conns -> SUBSET Names]
      <3>1. todo[c] \ {n} \in SUBSET Names
        BY DEF TypeOK
      <3> QED
        BY <1>0, <3>1 DEF TypeOK
    <2> QED
      BY <1>a, <2>1, <2>2, <2>3, <2>4, <2>5 DEF TypeOK
  <1>2. NamedInv'
    <2>1. ASSUME NEW d \in Conns
          PROVE  todo'[d] \subseteq todo[d]
      <3>1. todo' = todo \/ todo' = [todo EXCEPT ![c] = todo[c] \ {n}]
        BY <1>0
      <3>2. todo \in [Conns -> SUBSET Names]
        BY DEF TypeOK
      <3> HIDE DEF BaseInv
      <3> QED
        BY <3>1, <3>2
    <2> QED
      BY <1>a, <2>1 DEF NamedInv, Named
  <1>3. HandlerInv'
    <2>1. \A d \in Conns : d # c => pc'[d] = pc[d] /\ chan'[d] = chan[d] /\ ptr'[d] = ptr[d]
      BY <1>0 DEF TypeOK
    <2>2. \/ pc'[c] = "rejoin"
          \/ pc'[c] = "join" /\ k # Null /\ chan'[c] = k /\ ptr'[c] = registry[name[k]]
      BY <1>0, <1>a DEF TypeOK
    <2> QED
      BY <1>a, <1>b, <2>1, <2>2 DEF HandlerInv, Named
  <1>4. ListedInv'
    BY <1>0, <1>a DEF TypeOK, ListedInv
  <1>5. MutexInv'
    BY <1>0, <1>a DEF TypeOK, MutexInv
  <1>6. MembersOnce'
    BY <1>a DEF MembersOnce
  <1> QED
    BY <1>1, <1>2, <1>3, <1>4, <1>5, <1>6

\* The loop is over.
LEMMA ReadyBase ==
    ASSUME BaseInv, NEW c \in Conns, Ready(c)
    PROVE  BaseInv'
  <1> USE DEF BaseInv, chanVars, connVars, localVars, history, Ready, At, Goto
  <1>1. TypeOK'
    <2>1. pc' \in [Conns -> Steps]
      BY DEF TypeOK, Steps
    <2> QED
      BY <2>1 DEF TypeOK
  <1>2. NamedInv' /\ MembersOnce'
    BY DEF NamedInv, MembersOnce, Named
  <1>3. HandlerInv'
    BY DEF TypeOK, HandlerInv, Named
  <1>4. ListedInv' /\ MutexInv'
    BY DEF TypeOK, ListedInv, MutexInv
  <1> QED
    BY <1>1, <1>2, <1>3, <1>4

\* A freed connection is in no list any more.
LEMMA DisconnectBase ==
    ASSUME BaseInv, NEW c \in Conns, Disconnect(c)
    PROVE  BaseInv'
  <1> USE Constants DEF BaseInv, chanVars, connVars, localVars, history, Disconnect, MayHandle, WorkerIdle
  <1>1. TypeOK'
    <2>1. open' \in [Conns -> {"new", "open", "gone"}]
      BY DEF TypeOK
    <2>2. conns' \in [Accts -> SUBSET Conns]
      BY DEF TypeOK
    <2>3. inbox' \in [Conns -> Seq(Chans \X Accts)]
      BY DEF TypeOK
    <2>4. connChans' \in [Conns -> [Names -> Chans \cup {Null}]]
      BY DEF TypeOK
    <2>5. connMembers' \in [Conns -> [Chans \cup {Null} -> SUBSET Accts]]
      BY DEF TypeOK
    <2> QED
      BY <2>1, <2>2, <2>3, <2>4, <2>5 DEF TypeOK
  <1>2. NamedInv'
    <2>1. /\ \A d \in Conns, m \in Names : connChans'[d][m] \in {connChans[d][m], Null}
          /\ \A d \in Conns : inbox'[d] \in {inbox[d], << >>}
      BY DEF TypeOK
    <2>2. UNCHANGED <<registry, name, members, accChans, todo>> /\ NamedInv
      OBVIOUS
    <2> HIDE DEF Disconnect, BaseInv
    <2>3. \A d \in Conns : \A i \in 1 .. Len(inbox'[d]) : Named(inbox'[d][i][1])
      BY <2>1, <2>2 DEF NamedInv
    <2> QED
      BY <2>1, <2>2, <2>3 DEF NamedInv, Named
  <1>3. HandlerInv'
    BY DEF TypeOK, NamedInv, HandlerInv, Named
  <1>4. ListedInv'
    <2>1. /\ conns'[AcctOf[c]] = conns[AcctOf[c]] \ {c}
          /\ \A a \in Accts : a # AcctOf[c] => conns'[a] = conns[a]
      BY DEF TypeOK
    <2>2. /\ open'[c] = "gone"
          /\ \A d \in Conns : d # c => open'[d] = open[d] /\ connChans'[d] = connChans[d]
      BY DEF TypeOK
    <2>3. pc[c] = "idle" /\ \A m \in Names : connChans'[c][m] = Null
      BY DEF TypeOK
    <2> QED
      BY <2>1, <2>2, <2>3 DEF ListedInv
  <1>5. MutexInv'
    BY DEF TypeOK, MutexInv, Steps
  <1>6. MembersOnce'
    BY DEF TypeOK, MembersOnce
  <1> QED
    BY <1>1, <1>2, <1>3, <1>4, <1>5, <1>6

\* A JOIN looks up the channel.
LEMMA HandleJoinBase ==
    ASSUME BaseInv, NEW c \in Conns, NEW n \in Names, HandleJoin(c, n)
    PROVE  BaseInv'
  <1> USE Constants DEF BaseInv, chanVars, connVars, localVars, history, HandleJoin, Command, MayHandle,
          WorkerIdle, Goto
  <1>1. TypeOK'
    <2>1. arg' \in [Conns -> Names \cup {Null}]
      BY DEF TypeOK
    <2>2. chan' \in [Conns -> Chans \cup {Null}]
      BY DEF TypeOK
    <2>3. pc' \in [Conns -> Steps]
      BY DEF TypeOK, Steps
    <2>4. commands' \in 0 .. MaxCommands
      BY DEF TypeOK
    <2> QED
      BY <2>1, <2>2, <2>3, <2>4 DEF TypeOK
  <1>2. NamedInv'
    BY DEF TypeOK, NamedInv, HandlerInv, Named, Steps
  <1>3. HandlerInv'
    BY DEF TypeOK, NamedInv, HandlerInv, Named
  <1>4. ListedInv'
    BY DEF TypeOK, ListedInv, Steps
  <1>5. MutexInv'
    BY DEF TypeOK, MutexInv, Steps
  <1>6. MembersOnce'
    BY DEF TypeOK, MembersOnce
  <1> QED
    BY <1>1, <1>2, <1>3, <1>4, <1>5, <1>6

\* A channel that did not exist, and had no members, exists.
LEMMA JoinCreateBase ==
    ASSUME BaseInv, NEW c \in Conns, JoinCreate(c)
    PROVE  BaseInv'
  <1> USE Constants DEF BaseInv, chanVars, connVars, localVars, history, JoinCreate, At, Goto
  <1>0. PICK k \in Chans :
            /\ name[k] = Null
            /\ name' = [name EXCEPT ![k] = arg[c]]
            /\ registry' = [registry EXCEPT ![arg[c]] = k]
            /\ chan' = [chan EXCEPT ![c] = k]
    OBVIOUS
  <1>a. /\ pc[c] = "create" /\ arg[c] \in Names /\ pc' = [pc EXCEPT ![c] = "enter"]
        /\ UNCHANGED <<members, accChans, conns, open, connChans, connMembers, inbox, arg,
                       ptr, todo, touched, crashed,
                                          former, overtaken, commands>>
    BY DEF HandlerInv
  <1> HIDE DEF JoinCreate
  <1>b. /\ name'[k] \in Names
        /\ \A l \in Chans : l # k => name'[l] = name[l]
        /\ \A l : Named(l) => l \in Chans /\ name'[l] \in Names
    BY <1>0, <1>a DEF TypeOK, Named
  <1>1. TypeOK'
    <2>1. name' \in [Chans -> Names \cup {Null}]
      BY <1>0, <1>a DEF TypeOK
    <2>2. registry' \in [Names -> Chans \cup {Null}]
      BY <1>0, <1>a DEF TypeOK
    <2>3. chan' \in [Conns -> Chans \cup {Null}]
      BY <1>0, <1>a DEF TypeOK
    <2>4. pc' \in [Conns -> Steps]
      BY <1>a DEF TypeOK, Steps
    <2> QED
      BY <1>0, <1>a, <2>1, <2>2, <2>3, <2>4 DEF TypeOK
  <1>2. NamedInv'
    <2>1. \A m \in Names : registry'[m] \in {registry[m], k}
      BY <1>0, <1>a DEF TypeOK
    <2>2. NamedInv
      OBVIOUS
    <2> HIDE DEF BaseInv
    <2>3. \A m \in Names :
              registry'[m] # Null => registry'[m] \in Chans /\ name'[registry'[m]] \in Names
      BY <1>b, <2>1, <2>2 DEF NamedInv
    <2>4. \A l \in Chans : name'[l] = Null => members[l] = << >>
      BY <1>b, <2>2 DEF NamedInv
    <2> QED
      BY <1>a, <1>b, <2>2, <2>3, <2>4 DEF NamedInv, Named
  <1>3. HandlerInv'
    <2>1. \A d \in Conns \ {c} :
              pc'[d] = pc[d] /\ arg'[d] = arg[d] /\ chan'[d] = chan[d] /\ ptr'[d] = ptr[d]
      BY <1>0, <1>a DEF TypeOK
    <2>2. pc'[c] = "enter" /\ chan'[c] = k
      BY <1>0, <1>a DEF TypeOK
    <2>3. HandlerInv
      OBVIOUS
    <2> HIDE DEF BaseInv
    <2> QED
      BY <1>b, <2>1, <2>2, <2>3 DEF HandlerInv, Named
  <1>4. ListedInv'
    BY <1>a DEF TypeOK, ListedInv
  <1>5. MutexInv'
    BY <1>a DEF TypeOK, MutexInv
  <1>6. MembersOnce'
    BY <1>a DEF MembersOnce
  <1> QED
    BY <1>1, <1>2, <1>3, <1>4, <1>5, <1>6

\* chan_ptr is a channel that exists, or null.
LEMMA JoinEnterBase ==
    ASSUME BaseInv, NEW c \in Conns, JoinEnter(c)
    PROVE  BaseInv'
  <1> USE Constants DEF BaseInv, chanVars, connVars, localVars, history, JoinEnter, At, Goto, Finish
  <1>0. /\ pc[c] = "enter" /\ UNCHANGED <<registry, name, members, accChans, conns, open,
                                          connChans, connMembers, inbox, todo, touched, crashed,
                                          former, overtaken, commands>>
        /\ \/ /\ ptr' = [ptr EXCEPT ![c] = registry[name[chan[c]]]]
              /\ pc' = [pc EXCEPT ![c] = "join"]
              /\ UNCHANGED <<arg, chan>>
           \/ Ends(c)
    BY DEF Ends
  <1> HIDE DEF JoinEnter
  <1>1. TypeOK'
    <2>1. ptr' \in [Conns -> Chans \cup {Null}]
      BY <1>0 DEF TypeOK, Ends, HandlerInv, Named
    <2>2. pc' \in [Conns -> Steps]
      <3>1. {"idle", "rejoin", "join", "cast"} \subseteq Steps
        BY DEF Steps
      <3> QED
        BY <1>0, <3>1 DEF TypeOK, Ends
    <2>3. arg' \in [Conns -> Names \cup {Null}]
      BY <1>0 DEF TypeOK, Ends
    <2>4. chan' \in [Conns -> Chans \cup {Null}]
      BY <1>0 DEF TypeOK, Ends
    <2> QED
      BY <1>0, <2>1, <2>2, <2>3, <2>4 DEF TypeOK
  <1>2. NamedInv'
    BY <1>0 DEF TypeOK, Ends, NamedInv, Named
  <1>3. HandlerInv'
    <2>1. \A d \in Conns \ {c} :
              pc'[d] = pc[d] /\ arg'[d] = arg[d] /\ chan'[d] = chan[d] /\ ptr'[d] = ptr[d]
      BY <1>0 DEF TypeOK, Ends
    <2>2. \/ pc'[c] \in {"idle", "rejoin"}
          \/ pc'[c] = "join" /\ chan'[c] = chan[c] /\ ptr'[c] = registry[name[chan[c]]]
      BY <1>0 DEF TypeOK, Ends
    <2>3. Named(chan[c]) /\ (registry[name[chan[c]]] # Null => Named(registry[name[chan[c]]]))
      BY <1>0 DEF HandlerInv, NamedInv, Named
    <2> QED
      BY <1>0, <2>1, <2>2, <2>3 DEF HandlerInv, Named
  <1>4. ListedInv'
    BY <1>0 DEF TypeOK, Ends, ListedInv
  <1>5. MutexInv'
    BY <1>0 DEF TypeOK, Ends, MutexInv
  <1>6. MembersOnce'
    BY <1>0 DEF TypeOK, Ends, MembersOnce
  <1> QED
    BY <1>1, <1>2, <1>3, <1>4, <1>5, <1>6

\* The account is added if it is not there, and its connections are told.
LEMMA JoinApplyBase ==
    ASSUME BaseInv, NEW c \in Conns, JoinApply(c)
    PROVE  BaseInv'
  <1> USE Constants DEF BaseInv, chanVars, connVars, localVars, history, JoinApply, At, Goto, Finish
  <1>0. /\ Named(chan[c]) /\ AcctOf[c] \in Accts
        /\ members[chan[c]] \in Seq(Accts)
        /\ ptr[c] # Null => Named(ptr[c])
    BY DEF TypeOK, HandlerInv, Named
  <1>a. /\ AddMember(members[chan[c]], AcctOf[c]) \in Seq(Accts)
        /\ Elements(AddMember(members[chan[c]], AcctOf[c])) \in SUBSET Accts
    <2> HIDE DEF JoinApply, BaseInv
    <2> QED
      BY <1>0, AddMemberFacts DEF Elements

  <1>1. TypeOK'
    <2>1. members' \in [Chans -> Seq(Accts)]
      BY <1>a DEF TypeOK
    <2>2. accChans' \in [Accts -> [Names -> Chans \cup {Null, Absent}]]
      BY <1>0 DEF TypeOK, Remember, Named
    <2>3. connChans' \in [Conns -> [Names -> Chans \cup {Null}]]
      BY <1>0 DEF TypeOK, Named
    <2>4. connMembers' \in [Conns -> [Chans \cup {Null} -> SUBSET Accts]]
      <3>1. ASSUME NEW d \in Conns
            PROVE  connMembers'[d] \in [Chans \cup {Null} -> SUBSET Accts]
        <4>1. connMembers[d] \in [Chans \cup {Null} -> SUBSET Accts] /\ chan[c] \in Chans
          BY <1>0 DEF TypeOK, Named
        <4>2. \E new \in SUBSET Accts : connMembers'[d] = [connMembers[d] EXCEPT ![chan[c]] = connMembers[d][chan[c]] \cup new]
          <5>1. connMembers'[d] \in {[connMembers[d] EXCEPT ![chan[c]] = connMembers[d][chan[c]] \cup Elements(AddMember(members[chan[c]], AcctOf[c]))],
                                  [connMembers[d] EXCEPT ![chan[c]] = connMembers[d][chan[c]] \cup {AcctOf[c]}], connMembers[d]}
            BY DEF TypeOK
          <5>2. connMembers[d] = [connMembers[d] EXCEPT ![chan[c]] = connMembers[d][chan[c]] \cup {}]
            BY <4>1
          <5> HIDE DEF JoinApply, BaseInv
          <5> QED
            BY <1>0, <1>a, <5>1, <5>2
        <4> HIDE DEF JoinApply, BaseInv
        <4> QED
          BY <4>1, <4>2
      <3>2. connMembers' = [d \in Conns |-> connMembers'[d]]
        OBVIOUS
      <3> HIDE DEF JoinApply, BaseInv
      <3> QED
        BY <3>1, <3>2
    <2>5. pc' \in [Conns -> Steps]
      BY DEF TypeOK, Steps
    <2>6. arg' \in [Conns -> Names \cup {Null}]
      BY DEF TypeOK
    <2>7. chan' \in [Conns -> Chans \cup {Null}]
      BY DEF TypeOK
    <2>8. ptr' \in [Conns -> Chans \cup {Null}]
      BY DEF TypeOK
    <2>9. touched' \subseteq Conns
      BY DEF TypeOK
    <2>10. overtaken' \subseteq Accts \X Chans
      BY <1>0 DEF TypeOK, Named
    <2>11. commands' \in 0 .. MaxCommands /\ crashed' \in BOOLEAN /\ former' \in [Chans -> SUBSET Names]
      BY DEF TypeOK
    <2>12. /\ registry' \in [Names -> Chans \cup {Null}]
           /\ name' \in [Chans -> Names \cup {Null}]
           /\ conns' \in [Accts -> SUBSET Conns]
           /\ open' \in [Conns -> {"new", "open", "gone"}]
           /\ inbox' \in [Conns -> Seq(Chans \X Accts)]
           /\ todo' \in [Conns -> SUBSET Names]
      BY DEF TypeOK
    <2> HIDE DEF JoinApply, BaseInv
    <2> QED
      BY <2>1, <2>2, <2>3, <2>4, <2>5, <2>6, <2>7, <2>8, <2>9, <2>10, <2>11, <2>12 DEF TypeOK
  <1>2. NamedInv'
    <2>1. \A a \in Accts, m \in Names : accChans'[a][m] \in {accChans[a][m], ptr[c]}
      BY <1>0 DEF TypeOK, Remember, Named
    <2>2. \A d \in Conns, m \in Names : connChans'[d][m] \in {connChans[d][m], chan[c]}
      BY <1>0 DEF TypeOK, Named
    <2>3. \A k \in Chans : name[k] = Null => members'[k] = members[k]
      BY <1>0 DEF TypeOK, Named
    <2>4. UNCHANGED <<registry, name, inbox, todo>>
      OBVIOUS
    <2>5. NamedInv
      OBVIOUS
    <2> HIDE DEF JoinApply, BaseInv
    <2>6. \A a \in Accts, m \in Names : accChans'[a][m] \in Chans => Named(accChans'[a][m])
      BY <1>0, <2>1, <2>5 DEF NamedInv
    <2>7. \A d \in Conns, m \in Names : connChans'[d][m] # Null => Named(connChans'[d][m])
      BY <1>0, <2>2, <2>5 DEF NamedInv
    <2>8. ASSUME NEW d \in Conns, NEW n \in todo[d]
          PROVE  accChans'[AcctOf[d]][n] # Absent
      <3>1. n \in Names /\ AcctOf[d] \in Accts /\ ptr[c] # Absent
        BY DEF BaseInv, TypeOK
      <3> QED
        BY <2>1, <2>5, <3>1 DEF NamedInv
    <2> QED
      BY <2>3, <2>4, <2>5, <2>6, <2>7, <2>8 DEF NamedInv, Named
  <1>3. HandlerInv'
    BY DEF TypeOK, NamedInv, HandlerInv, Named
  <1>4. ListedInv'
    <2>1. \A d \in Conns : d \notin conns[AcctOf[c]] => connChans'[d] = connChans[d]
      BY DEF TypeOK
    <2>2. \A d \in Conns : d # c => pc'[d] = pc[d]
      BY DEF TypeOK
    <2>3. pc[c] # "idle" /\ AcctOf[c] \in Accts
      BY DEF TypeOK
    <2> QED
      BY <2>1, <2>2, <2>3 DEF ListedInv
  <1>5. MutexInv'
    BY DEF TypeOK, MutexInv, Steps
  <1>6. MembersOnce'
    <2>1. /\ members'[chan[c]] = AddMember(members[chan[c]], AcctOf[c])
          /\ \A k \in Chans : k # chan[c] => members'[k] = members[k]
      BY <1>0 DEF TypeOK, Named
    <2>2. chan[c] \in Chans /\ MembersOnce
      BY <1>0 DEF Named
    <2> HIDE DEF JoinApply, BaseInv
    <2>3. \A i, j \in 1 .. Len(members[chan[c]]) :
              members[chan[c]][i] = members[chan[c]][j] => i = j
      BY <2>2 DEF MembersOnce
    <2> DEFINE new == AddMember(members[chan[c]], AcctOf[c])
    <2>4. \A i, j \in 1 .. Len(new) : new[i] = new[j] => i = j
      BY <1>0, <2>3, AddMemberFacts
    <2> HIDE DEF new
    <2> QED
      BY <2>1, <2>2, <2>4 DEF MembersOnce, new
  <1> QED
    BY <1>1, <1>2, <1>3, <1>4, <1>5, <1>6

\* A PART looks up the channel.
LEMMA HandlePartBase ==
    ASSUME BaseInv, NEW c \in Conns, NEW n \in Names, HandlePart(c, n)
    PROVE  BaseInv'
  <1> USE Constants DEF BaseInv, chanVars, connVars, localVars, history, HandlePart, Command, MayHandle,
          WorkerIdle, Goto
  <1>1. TypeOK'
    <2>1. chan' \in [Conns -> Chans \cup {Null}]
      BY DEF TypeOK
    <2>2. pc' \in [Conns -> Steps]
      BY DEF TypeOK, Steps
    <2>3. commands' \in 0 .. MaxCommands
      BY DEF TypeOK
    <2> QED
      BY <2>1, <2>2, <2>3 DEF TypeOK
  <1>2. NamedInv'
    BY DEF TypeOK, NamedInv, HandlerInv, Named, Steps
  <1>3. HandlerInv'
    BY DEF TypeOK, NamedInv, HandlerInv, Named
  <1>4. ListedInv'
    BY DEF TypeOK, ListedInv, Steps
  <1>5. MutexInv'
    BY DEF TypeOK, MutexInv, Steps
  <1>6. MembersOnce'
    BY DEF TypeOK, MembersOnce
  <1> QED
    BY <1>1, <1>2, <1>3, <1>4, <1>5, <1>6

\* The member is found, or the PART ends.
LEMMA PartCheckBase ==
    ASSUME BaseInv, NEW c \in Conns, PartCheck(c)
    PROVE  BaseInv'
  <1> USE Constants DEF BaseInv, chanVars, connVars, localVars, history, PartCheck, At, Goto, Finish
  <1>0. /\ pc[c] = "part" /\ UNCHANGED <<registry, name, members, accChans, conns, open,
                                         connChans, connMembers, inbox, todo, touched, crashed,
                                          former, overtaken, commands>>
        /\ \/ pc' = [pc EXCEPT ![c] = "cast"] /\ UNCHANGED <<arg, chan, ptr>>
           \/ Ends(c)
    BY DEF Ends
  <1> HIDE DEF PartCheck
  <1>1. TypeOK'
    <2>1. pc' \in [Conns -> Steps]
      <3>1. {"idle", "rejoin", "join", "cast"} \subseteq Steps
        BY DEF Steps
      <3> QED
        BY <1>0, <3>1 DEF TypeOK, Ends
    <2>2. arg' \in [Conns -> Names \cup {Null}]
      BY <1>0 DEF TypeOK, Ends
    <2>3. chan' \in [Conns -> Chans \cup {Null}]
      BY <1>0 DEF TypeOK, Ends
    <2>4. ptr' \in [Conns -> Chans \cup {Null}]
      BY <1>0 DEF TypeOK, Ends
    <2> QED
      BY <1>0, <2>1, <2>2, <2>3, <2>4 DEF TypeOK
  <1>2. NamedInv'
    BY <1>0 DEF TypeOK, Ends, NamedInv, Named
  <1>3. HandlerInv'
    <2>1. \A d \in Conns \ {c} :
              pc'[d] = pc[d] /\ arg'[d] = arg[d] /\ chan'[d] = chan[d] /\ ptr'[d] = ptr[d]
      BY <1>0 DEF TypeOK, Ends
    <2>2. \/ pc'[c] \in {"idle", "rejoin"}
          \/ pc'[c] = "cast" /\ chan'[c] = chan[c]
      BY <1>0 DEF TypeOK, Ends
    <2>3. Named(chan[c])
      BY <1>0 DEF HandlerInv
    <2> QED
      BY <1>0, <2>1, <2>2, <2>3 DEF HandlerInv, Named
  <1>4. ListedInv'
    BY <1>0 DEF TypeOK, Ends, ListedInv
  <1>5. MutexInv'
    BY <1>0 DEF TypeOK, Ends, MutexInv
  <1>6. MembersOnce'
    BY <1>0 DEF TypeOK, Ends, MembersOnce
  <1> QED
    BY <1>1, <1>2, <1>3, <1>4, <1>5, <1>6

\* Every queued call is about a channel that exists.
LEMMA PartBroadcastBase ==
    ASSUME BaseInv, NEW c \in Conns, PartBroadcast(c)
    PROVE  BaseInv'
  <1> USE Constants DEF BaseInv, chanVars, connVars, localVars, history, PartBroadcast, At, Goto
  <1>1. TypeOK'
    <2>1. inbox' \in [Conns -> Seq(Chans \X Accts)]
      <3>1. <<chan[c], AcctOf[c]>> \in Chans \X Accts
        BY DEF HandlerInv, Named
      <3> QED
        BY <3>1 DEF TypeOK
    <2>2. pc' \in [Conns -> Steps]
      BY DEF TypeOK, Steps
    <2> QED
      BY <2>1, <2>2 DEF TypeOK
  <1>2. NamedInv'
    <2>1. /\ Named(chan[c])
          /\ inbox \in [Conns -> Seq(Chans \X Accts)] /\ <<chan[c], AcctOf[c]>> \in Chans \X Accts
      BY DEF TypeOK, HandlerInv, Named
    <2>2. UNCHANGED <<registry, name, members, accChans, connChans, todo>> /\ NamedInv
      OBVIOUS
    <2>3. \A d \in Conns : inbox'[d] \in {inbox[d], Append(inbox[d], <<chan[c], AcctOf[c]>>)}
      OBVIOUS
    <2> HIDE DEF PartBroadcast, BaseInv
    <2>4. ASSUME NEW d \in Conns, NEW i \in 1 .. Len(inbox'[d])
          PROVE  Named(inbox'[d][i][1])
      <3> DEFINE part == <<chan[c], AcctOf[c]>>
      <3>1. inbox'[d][i] = part \/ (i \in 1 .. Len(inbox[d]) /\ inbox'[d][i] = inbox[d][i])
        <4>1. /\ inbox[d] \in Seq(Chans \X Accts)
              /\ part \in Chans \X Accts /\ inbox'[d] \in {inbox[d], Append(inbox[d], part)}
          BY <2>1, <2>3
        <4> HIDE DEF part, BaseInv, PartBroadcast
        <4>2. CASE inbox'[d] = inbox[d]
          BY <4>2
        <4>3. CASE inbox'[d] = Append(inbox[d], part)
          BY <4>1, <4>3, AppendAt
        <4> QED
          BY <4>1, <4>2, <4>3
      <3> QED
        BY <2>1, <2>2, <3>1 DEF NamedInv
    <2> QED
      BY <2>2, <2>4 DEF NamedInv, Named
  <1>3. HandlerInv'
    BY DEF TypeOK, NamedInv, HandlerInv, Named
  <1>4. ListedInv'
    BY DEF TypeOK, ListedInv, Steps
  <1>5. MutexInv'
    BY DEF TypeOK, MutexInv, Steps
  <1>6. MembersOnce'
    BY DEF TypeOK, MembersOnce
  <1> QED
    BY <1>1, <1>2, <1>3, <1>4, <1>5, <1>6

\* The account is taken out of the list.
LEMMA PartDropBase ==
    ASSUME BaseInv, NEW c \in Conns, PartDrop(c)
    PROVE  BaseInv'
  <1> USE Constants DEF BaseInv, chanVars, connVars, localVars, history, PartDrop, At, Goto, Finish
  <1>0. Named(chan[c]) /\ members[chan[c]] \in Seq(Accts)
    BY DEF TypeOK, HandlerInv, Named
  <1>1. TypeOK'
    <2>1. members' \in [Chans -> Seq(Accts)]
      <3>1. removeAll(members[chan[c]], AcctOf[c]) \in Seq(Accts)
        BY RemoveAll DEF TypeOK, HandlerInv, Named
      <3> QED
        BY <3>1 DEF TypeOK
    <2>2. pc' \in [Conns -> Steps]
      BY DEF TypeOK, Steps
    <2>3. arg' \in [Conns -> Names \cup {Null}]
      BY DEF TypeOK
    <2>4. chan' \in [Conns -> Chans \cup {Null}]
      BY DEF TypeOK
    <2>5. ptr' \in [Conns -> Chans \cup {Null}]
      BY DEF TypeOK
    <2> QED
      BY <2>1, <2>2, <2>3, <2>4, <2>5 DEF TypeOK
  <1>2. NamedInv'
    <2>1. \A k \in Chans : name[k] = Null => members'[k] = members[k]
      BY <1>0 DEF TypeOK, Named
    <2>2. UNCHANGED <<registry, name, accChans, connChans, inbox, todo>> /\ NamedInv
      OBVIOUS
    <2> HIDE DEF PartDrop, BaseInv
    <2> QED
      BY <2>1, <2>2 DEF NamedInv, Named
  <1>3. HandlerInv'
    BY DEF TypeOK, NamedInv, HandlerInv, Named
  <1>4. ListedInv'
    BY DEF TypeOK, ListedInv, Steps
  <1>5. MutexInv'
    BY DEF TypeOK, MutexInv, Steps
  <1>6. MembersOnce'
    <2>1. /\ members'[chan[c]] = removeAll(members[chan[c]], AcctOf[c])
          /\ \A k \in Chans : k # chan[c] => members'[k] = members[k]
      BY <1>0 DEF TypeOK, Named
    <2>2. chan[c] \in Chans /\ MembersOnce
      BY <1>0 DEF Named
    <2> HIDE DEF PartDrop, BaseInv
    <2>3. \A i, j \in 1 .. Len(members[chan[c]]) :
              members[chan[c]][i] = members[chan[c]][j] => i = j
      BY <2>2 DEF MembersOnce
    <2> DEFINE new == removeAll(members[chan[c]], AcctOf[c])
    <2>4. \A i, j \in 1 .. Len(new) : new[i] = new[j] => i = j
      BY <1>0, <2>3, RemoveAll
    <2> HIDE DEF new
    <2> QED
      BY <2>1, <2>2, <2>4 DEF MembersOnce, new
  <1> QED
    BY <1>1, <1>2, <1>3, <1>4, <1>5, <1>6

\* A queued call clears what the connection has.
LEMMA ChannelPartBase ==
    ASSUME BaseInv, NEW c \in Conns, ChannelPart(c)
    PROVE  BaseInv'
  <1> USE Constants DEF BaseInv, chanVars, connVars, localVars, history, ChannelPart, MayHandle, WorkerIdle
  <1>0. inbox[c] \in Seq(Chans \X Accts) /\ inbox[c] # << >> /\ inbox'[c] = Tail(inbox[c])
    BY DEF TypeOK
  <1>a. Head(inbox[c]) \in Chans \X Accts /\ Named(Head(inbox[c])[1])
    <2>1. /\ Head(inbox[c]) = inbox[c][1]
          /\ 1 \in 1 .. Len(inbox[c]) /\ Head(inbox[c]) \in Chans \X Accts
      BY <1>0
    <2> HIDE DEF ChannelPart
    <2> QED
      BY <2>1 DEF NamedInv
  <1>b. PICK k \in Chans : /\ name[k] \in Names
                           /\ connChans' \in {connChans, [connChans EXCEPT ![c] = [connChans[c] EXCEPT ![name[k]] = Null]]}
                           /\ connMembers' \in {connMembers, [connMembers EXCEPT ![c] = [connMembers[c] EXCEPT ![k] = {}]]}
    <2>1. /\ connChans' \in {connChans, [connChans EXCEPT ![c] = [connChans[c] EXCEPT ![name[Head(inbox[c])[1]]] = Null]]}
          /\ connMembers' \in {connMembers, [connMembers EXCEPT ![c] = [connMembers[c] EXCEPT ![Head(inbox[c])[1]] = {}]]}
      BY DEF WithoutChannel
    <2> HIDE DEF ChannelPart, BaseInv
    <2> QED
      BY <1>a, <2>1 DEF Named
  <1>c. /\ UNCHANGED <<registry, name, members, accChans, conns, open, pc, todo>>
        /\ \A d \in Conns : d # c => inbox'[d] = inbox[d]
    BY DEF TypeOK
  <1>d. \A d \in Conns, m \in Names : connChans'[d][m] \in {connChans[d][m], Null}
    <2> HIDE DEF ChannelPart
    <2>1. connChans \in [Conns -> [Names -> Chans \cup {Null}]]
      BY DEF TypeOK
    <2> HIDE DEF BaseInv
    <2>2. CASE connChans' = connChans
      BY <2>1, <2>2
    <2>3. CASE connChans' = [connChans EXCEPT ![c] = [connChans[c] EXCEPT ![name[k]] = Null]]
      <3>1. \A d \in Conns : d # c => connChans'[d] = connChans[d]
        BY <2>1, <2>3
      <3>2. connChans'[c] = [connChans[c] EXCEPT ![name[k]] = Null]
        BY <2>1, <2>3
      <3>3. \A m \in Names : connChans'[c][m] \in {connChans[c][m], Null}
        BY <2>1, <3>2
      <3> QED
        BY <3>1, <3>3
    <2> QED
      BY <1>b, <2>2, <2>3
  <1>1. TypeOK'
    <2>1. inbox' \in [Conns -> Seq(Chans \X Accts)]
      BY DEF TypeOK
    <2>2. connMembers' \in [Conns -> [Chans \cup {Null} -> SUBSET Accts]]
      <3>1. connMembers \in [Conns -> [Chans \cup {Null} -> SUBSET Accts]]
        BY DEF TypeOK
      <3> HIDE DEF ChannelPart, BaseInv
      <3>2. [connMembers[c] EXCEPT ![k] = {}] \in [Chans \cup {Null} -> SUBSET Accts]
        BY <3>1
      <3> QED
        BY <1>b, <3>1, <3>2
    <2>3. connChans' \in [Conns -> [Names -> Chans \cup {Null}]]
      <3>1. connChans \in [Conns -> [Names -> Chans \cup {Null}]]
        BY DEF TypeOK
      <3> HIDE DEF ChannelPart, BaseInv
      <3> DEFINE map == [connChans[c] EXCEPT ![name[k]] = Null]
      <3>2. map \in [Names -> Chans \cup {Null}]
        BY <3>1
      <3>3. connChans' \in {connChans, [connChans EXCEPT ![c] = map]}
        BY <1>b
      <3> HIDE DEF map
      <3> QED
        BY <3>1, <3>2, <3>3
    <2> QED
      BY <2>1, <2>2, <2>3 DEF TypeOK
  <1>2. NamedInv'
    <2> HIDE DEF ChannelPart
    <2>1. \A i \in 1 .. Len(inbox'[c]) :
              i + 1 \in 1 .. Len(inbox[c]) /\ inbox'[c][i] = inbox[c][i + 1]
      BY <1>0
    <2>2. NamedInv
      OBVIOUS
    <2> HIDE DEF BaseInv
    <2>3. \A i \in 1 .. Len(inbox'[c]) : Named(inbox'[c][i][1])
      BY <2>1, <2>2 DEF NamedInv
    <2>4. \A d \in Conns, m \in Names : connChans'[d][m] # Null => Named(connChans'[d][m])
      BY <1>d, <2>2 DEF NamedInv
    <2>5. \A d \in Conns : \A i \in 1 .. Len(inbox'[d]) : Named(inbox'[d][i][1])
      BY <1>c, <2>2, <2>3 DEF NamedInv
    <2> QED
      BY <1>c, <2>2, <2>4, <2>5 DEF NamedInv, Named
  <1>3. HandlerInv'
    BY DEF TypeOK, NamedInv, HandlerInv, Named
  <1>4. ListedInv'
    <2> HIDE DEF ChannelPart
    <2> QED
      BY <1>c, <1>d DEF ListedInv
  <1>5. MutexInv'
    BY DEF TypeOK, MutexInv, Steps
  <1>6. MembersOnce'
    BY DEF TypeOK, MembersOnce
  <1> QED
    BY <1>1, <1>2, <1>3, <1>4, <1>5, <1>6

\* A RENAME finds its channel.
LEMMA HandleRenameBase ==
    ASSUME BaseInv, NEW c \in Conns, NEW r \in Renames, HandleRename(c, r[1], r[2])
    PROVE  BaseInv'
  <1> USE Constants DEF BaseInv, chanVars, connVars, localVars, history, HandleRename, Command,
          MayHandle, WorkerIdle, Goto
  <1>1. TypeOK'
    <2>1. chan' \in [Conns -> Chans \cup {Null}]
      BY DEF TypeOK, NamedInv, Named
    <2>2. arg' \in [Conns -> Names \cup {Null}]
      BY DEF TypeOK
    <2>3. pc' \in [Conns -> Steps]
      BY DEF TypeOK, Steps
    <2>4. commands' \in 0 .. MaxCommands
      BY DEF TypeOK
    <2> QED
      BY <2>1, <2>2, <2>3, <2>4 DEF TypeOK
  <1>2. NamedInv'
    BY DEF TypeOK, NamedInv, HandlerInv, Named, Steps
  <1>3. HandlerInv'
    BY DEF TypeOK, NamedInv, HandlerInv, Named
  <1>4. ListedInv'
    BY DEF TypeOK, ListedInv, Steps
  <1>5. MutexInv'
    BY DEF TypeOK, MutexInv, Steps
  <1>6. MembersOnce'
    BY DEF TypeOK, MembersOnce
  <1> QED
    BY <1>1, <1>2, <1>3, <1>4, <1>5, <1>6

\* A channel gets another name; it had one before.
LEMMA RenameApplyBase ==
    ASSUME BaseInv, NEW c \in Conns, RenameApply(c)
    PROVE  BaseInv'
  <1> USE Constants DEF BaseInv, history
  <1>0. PICK n \in Names : name' = [name EXCEPT ![chan[c]] = n]
    BY DEF RenameApply, NewName, HandlerInv, At
  <1>a. /\ pc[c] = "rename" /\ Ends(c) /\ former' = [former EXCEPT ![chan[c]] = @ \cup {name[chan[c]]}]
        /\ UNCHANGED <<registry, members, accChans, conns, open, connChans, connMembers, inbox, todo,
                       touched, crashed, overtaken, commands>>
    BY DEF RenameApply, At, Ends, Finish, Goto, connVars
  <1>b. chan[c] \in Chans /\ name[chan[c]] \in Names
    BY <1>a DEF HandlerInv, Named
  <1>c. \A l : Named(l) => l \in Chans /\ name'[l] \in Names
    BY <1>0 DEF TypeOK, Named
  <1>1. TypeOK'
    <2>1. name' \in [Chans -> Names \cup {Null}]
      BY <1>0 DEF TypeOK
    <2>2. former' \in [Chans -> SUBSET Names]
      BY <1>a, <1>b DEF TypeOK
    <2>3. /\ pc' \in [Conns -> Steps] /\ arg' \in [Conns -> Names \cup {Null}]
          /\ chan' \in [Conns -> Chans \cup {Null}] /\ ptr' \in [Conns -> Chans \cup {Null}]
      BY <1>a DEF TypeOK, Ends, Steps
    <2> QED
      BY <1>a, <2>1, <2>2, <2>3 DEF TypeOK
  <1>2. NamedInv'
    <2>1. \A l \in Chans : name'[l] = Null => name[l] = Null
      BY <1>0 DEF TypeOK
    <2> QED
      BY <1>a, <1>c, <2>1 DEF NamedInv, Named
  <1>3. HandlerInv'
    <2>1. pc'[c] \in {"idle", "rejoin"}
      BY <1>a DEF TypeOK, Ends
    <2>2. \A d \in Conns : d # c =>
              pc'[d] = pc[d] /\ arg'[d] = arg[d] /\ chan'[d] = chan[d] /\ ptr'[d] = ptr[d]
      BY <1>a DEF TypeOK, Ends
    <2> QED
      BY <1>c, <2>1, <2>2 DEF HandlerInv, Named
  <1>4. ListedInv'
    BY <1>a DEF TypeOK, Ends, ListedInv
  <1>5. MutexInv'
    BY <1>a DEF TypeOK, Ends, MutexInv
  <1>6. MembersOnce'
    BY <1>a DEF MembersOnce
  <1> QED
    BY <1>1, <1>2, <1>3, <1>4, <1>5, <1>6

\* A step that changes nothing.
LEMMA StutterBase ==
    ASSUME BaseInv, UNCHANGED vars
    PROVE  BaseInv'
  <1> USE DEF BaseInv, vars, chanVars, connVars, localVars, history
  <1>1. TypeOK'
    BY DEF TypeOK
  <1>2. NamedInv' /\ HandlerInv' /\ ListedInv'
    BY DEF NamedInv, HandlerInv, ListedInv, Named
  <1>3. MutexInv' /\ MembersOnce'
    BY DEF MutexInv, MembersOnce
  <1> QED
    BY <1>1, <1>2, <1>3

\* Every step keeps the invariant.
LEMMA NextBase ==
    ASSUME BaseInv, [Next]_vars
    PROVE  BaseInv'
  <1>1. CASE UNCHANGED vars
    BY <1>1, StutterBase
  <1>2. ASSUME NEW c \in Conns, Attach(c) \/ Disconnect(c) \/ ChannelPart(c)
        PROVE  BaseInv'
    BY <1>2, AttachBase, DisconnectBase, ChannelPartBase
  <1>3. ASSUME NEW c \in Conns, NEW n \in Names, HandleJoin(c, n) \/ HandlePart(c, n)
        PROVE  BaseInv'
    BY <1>3, HandleJoinBase, HandlePartBase
  <1>4. ASSUME NEW c \in Conns, NEW r \in Renames, HandleRename(c, r[1], r[2])
        PROVE  BaseInv'
    BY <1>4, HandleRenameBase
  <1>5. ASSUME NEW c \in Conns, Continue(c)
        PROVE  BaseInv'
    BY <1>5, ResumeBase, RejoinBase, ReadyBase, JoinCreateBase, JoinEnterBase, JoinApplyBase, PartCheckBase,
       PartBroadcastBase, PartDropBase, RenameApplyBase DEF Continue
  <1> QED
    BY <1>1, <1>2, <1>3, <1>4, <1>5 DEF Next
-----------------------------------------------------------------------------
(* Who lists whom                                                            *)

\* PartInv and PtrInv for one connection.
PartOk(c) ==
    \A d \in Conns :
        LET k == chan[c] IN
        /\ pc[c] = "drop" /\ AcctOf[d] = AcctOf[c]
        /\ <<AcctOf[c], k>> \notin overtaken
        /\ SteadyName(k) /\ connChans[d][name[k]] = k
        => Queued(d, k)

PtrOk(c) ==
    LET k == chan[c] IN
    pc[c] = "join" /\ registry[name[k]] = k /\ SteadyName(k) => ptr[c] = k

\* The second half of Inv.
RestInv == NamesInv /\ PartInv /\ PtrInv /\ ChannelsBacked /\ AlwaysOnline

\* Each is about one connection at a time.
LEMMA OneByOne ==
    /\ PartInv <=> \A c \in Conns : PartOk(c)
    /\ PtrInv <=> \A c \in Conns : PtrOk(c)
  BY DEF PartInv, PartOk, PtrInv, PtrOk

\* A step that leaves the channels, the accounts and the connections' maps
\* alone, and takes no call from a queue.
LEMMA QuietRest ==
    ASSUME BaseInv, RestInv, NEW c \in Conns, PartOk(c)', PtrOk(c)',
           UNCHANGED <<chanVars, accChans, connChans, history>>,
           \A d \in Conns : d # c => pc'[d] = pc[d] /\ chan'[d] = chan[d] /\ ptr'[d] = ptr[d],
           \A d \in Conns, k \in Chans : Queued(d, k) => Queued(d, k)'
    PROVE  RestInv'
  <1> USE DEF chanVars, history
  <1>1. NamesInv' /\ AlwaysOnline'
    BY DEF RestInv, NamesInv, AlwaysOnline, SteadyName
  <1>2. PartInv'
    <2> SUFFICES ASSUME NEW d \in Conns
                 PROVE  PartOk(d)'
      BY DEF PartInv, PartOk
    <2>1. CASE d = c
      BY <2>1
    <2>2. CASE d # c
      <3>1. PartOk(d) /\ pc'[d] = pc[d] /\ chan'[d] = chan[d]
        BY <2>2, OneByOne DEF RestInv
      <3>2. pc[d] = "drop" => chan[d] \in Chans
        BY DEF BaseInv, HandlerInv, Named
      <3> QED
        BY <3>1, <3>2 DEF PartOk, SteadyName
    <2> QED
      BY <2>1, <2>2
  <1>3. PtrInv'
    <2> SUFFICES ASSUME NEW d \in Conns, d # c
                 PROVE  PtrOk(d)'
      BY DEF PtrInv, PtrOk
    <2>1. PtrOk(d)
      BY OneByOne DEF RestInv
    <2> QED
      BY <2>1 DEF PtrOk, SteadyName
  <1>4. ChannelsBacked'
    BY DEF RestInv, ChannelsBacked, Stale, SteadyName
  <1> QED
    BY <1>1, <1>2, <1>3, <1>4 DEF RestInv

\* A new connection has to join what its account remembers.
LEMMA AttachRest ==
    ASSUME BaseInv, RestInv, NEW c \in Conns, Attach(c)
    PROVE  RestInv'
  <1> USE DEF BaseInv, chanVars, connVars, localVars, history, Attach, Command, MayHandle,
          WorkerIdle, At, Goto, Finish
  <1>1. UNCHANGED <<chanVars, accChans, connChans, history>>
    OBVIOUS
  <1>2. \A d \in Conns : d # c => pc'[d] = pc[d] /\ chan'[d] = chan[d] /\ ptr'[d] = ptr[d]
    BY DEF TypeOK
  <1>3. \A d \in Conns, k \in Chans : Queued(d, k) => Queued(d, k)'
    BY DEF Queued
  <1>4. PartOk(c)'
    BY DEF TypeOK, PartOk
  <1>5. PtrOk(c)'
    BY DEF TypeOK, PtrOk
  <1> HIDE DEF BaseInv, Attach
  <1> QED
    BY <1>1, <1>2, <1>3, <1>4, <1>5, QuietRest

\* The loop moves on, between two calls.
LEMMA ResumeRest ==
    ASSUME BaseInv, RestInv, NEW c \in Conns, Resume(c)
    PROVE  RestInv'
  <1> USE DEF BaseInv, chanVars, connVars, localVars, history, Resume, At
  <1>1. UNCHANGED <<chanVars, accChans, connChans, history, pc, chan, ptr, inbox>>
    OBVIOUS
  <1>2. pc[c] = "rejoin"
    OBVIOUS
  <1> HIDE DEF Resume
  <1>3. PartOk(c)' /\ PtrOk(c)'
    BY <1>1, <1>2 DEF PartOk, PtrOk
  <1>4. \A d \in Conns, k \in Chans : Queued(d, k) => Queued(d, k)'
    BY <1>1 DEF Queued
  <1> HIDE DEF BaseInv
  <1> QED
    BY <1>1, <1>3, <1>4, QuietRest

\* chan_ptr is what is registered.
LEMMA RejoinRest ==
    ASSUME BaseInv, RestInv, NEW c \in Conns, Rejoin(c)
    PROVE  RestInv'
  <1> USE DEF BaseInv, chanVars, connVars, localVars, history, Rejoin, Command, MayHandle,
          WorkerIdle, At, Goto, Finish
  <1>1. UNCHANGED <<chanVars, accChans, connChans, history>>
    OBVIOUS
  <1>2. \A d \in Conns : d # c => pc'[d] = pc[d] /\ chan'[d] = chan[d] /\ ptr'[d] = ptr[d]
    BY DEF TypeOK
  <1>3. \A d \in Conns, k \in Chans : Queued(d, k) => Queued(d, k)'
    BY DEF Queued
  <1>4. PartOk(c)'
    BY DEF TypeOK, PartOk
  <1>5. PtrOk(c)'
    BY DEF TypeOK, PtrOk
  <1> HIDE DEF BaseInv, Rejoin
  <1> QED
    BY <1>1, <1>2, <1>3, <1>4, <1>5, QuietRest

\* The loop is over.
LEMMA ReadyRest ==
    ASSUME BaseInv, RestInv, NEW c \in Conns, Ready(c)
    PROVE  RestInv'
  <1> USE DEF BaseInv, chanVars, connVars, localVars, history, Ready, Command, MayHandle,
          WorkerIdle, At, Goto, Finish
  <1>1. UNCHANGED <<chanVars, accChans, connChans, history>>
    OBVIOUS
  <1>2. \A d \in Conns : d # c => pc'[d] = pc[d] /\ chan'[d] = chan[d] /\ ptr'[d] = ptr[d]
    BY DEF TypeOK
  <1>3. \A d \in Conns, k \in Chans : Queued(d, k) => Queued(d, k)'
    BY DEF Queued
  <1>4. PartOk(c)'
    BY DEF TypeOK, PartOk
  <1>5. PtrOk(c)'
    BY DEF TypeOK, PtrOk
  <1> HIDE DEF BaseInv, Ready
  <1> QED
    BY <1>1, <1>2, <1>3, <1>4, <1>5, QuietRest

\* Only a lookup.
LEMMA HandleJoinRest ==
    ASSUME BaseInv, RestInv, NEW c \in Conns, NEW n \in Names, HandleJoin(c, n)
    PROVE  RestInv'
  <1> USE DEF BaseInv, chanVars, connVars, localVars, history, HandleJoin, Command, MayHandle,
          WorkerIdle, At, Goto, Finish
  <1>1. UNCHANGED <<chanVars, accChans, connChans, history>>
    OBVIOUS
  <1>2. \A d \in Conns : d # c => pc'[d] = pc[d] /\ chan'[d] = chan[d] /\ ptr'[d] = ptr[d]
    BY DEF TypeOK
  <1>3. \A d \in Conns, k \in Chans : Queued(d, k) => Queued(d, k)'
    BY DEF Queued
  <1>4. PartOk(c)'
    BY DEF TypeOK, PartOk
  <1>5. PtrOk(c)'
    BY DEF TypeOK, PtrOk
  <1> HIDE DEF BaseInv, HandleJoin
  <1> QED
    BY <1>1, <1>2, <1>3, <1>4, <1>5, QuietRest

\* chan_ptr is what is registered.
LEMMA JoinEnterRest ==
    ASSUME BaseInv, RestInv, NEW c \in Conns, JoinEnter(c)
    PROVE  RestInv'
  <1> USE DEF BaseInv, chanVars, connVars, localVars, history, JoinEnter, Command, MayHandle,
          WorkerIdle, At, Goto, Finish
  <1>1. UNCHANGED <<chanVars, accChans, connChans, history>>
    OBVIOUS
  <1>2. \A d \in Conns : d # c => pc'[d] = pc[d] /\ chan'[d] = chan[d] /\ ptr'[d] = ptr[d]
    BY DEF TypeOK
  <1>3. \A d \in Conns, k \in Chans : Queued(d, k) => Queued(d, k)'
    BY DEF Queued
  <1>4. PartOk(c)'
    BY DEF TypeOK, PartOk
  <1>5. PtrOk(c)'
    BY DEF TypeOK, PtrOk
  <1> HIDE DEF BaseInv, JoinEnter
  <1> QED
    BY <1>1, <1>2, <1>3, <1>4, <1>5, QuietRest

\* Only a lookup.
LEMMA HandlePartRest ==
    ASSUME BaseInv, RestInv, NEW c \in Conns, NEW n \in Names, HandlePart(c, n)
    PROVE  RestInv'
  <1> USE DEF BaseInv, chanVars, connVars, localVars, history, HandlePart, Command, MayHandle,
          WorkerIdle, At, Goto, Finish
  <1>1. UNCHANGED <<chanVars, accChans, connChans, history>>
    OBVIOUS
  <1>2. \A d \in Conns : d # c => pc'[d] = pc[d] /\ chan'[d] = chan[d] /\ ptr'[d] = ptr[d]
    BY DEF TypeOK
  <1>3. \A d \in Conns, k \in Chans : Queued(d, k) => Queued(d, k)'
    BY DEF Queued
  <1>4. PartOk(c)'
    BY DEF TypeOK, PartOk
  <1>5. PtrOk(c)'
    BY DEF TypeOK, PtrOk
  <1> HIDE DEF BaseInv, HandlePart
  <1> QED
    BY <1>1, <1>2, <1>3, <1>4, <1>5, QuietRest

\* Nobody is told yet.
LEMMA PartCheckRest ==
    ASSUME BaseInv, RestInv, NEW c \in Conns, PartCheck(c)
    PROVE  RestInv'
  <1> USE DEF BaseInv, chanVars, connVars, localVars, history, PartCheck, Command, MayHandle,
          WorkerIdle, At, Goto, Finish
  <1>1. UNCHANGED <<chanVars, accChans, connChans, history>>
    OBVIOUS
  <1>2. \A d \in Conns : d # c => pc'[d] = pc[d] /\ chan'[d] = chan[d] /\ ptr'[d] = ptr[d]
    BY DEF TypeOK
  <1>3. \A d \in Conns, k \in Chans : Queued(d, k) => Queued(d, k)'
    BY DEF Queued
  <1>4. PartOk(c)'
    BY DEF TypeOK, PartOk
  <1>5. PtrOk(c)'
    BY DEF TypeOK, PtrOk
  <1> HIDE DEF BaseInv, PartCheck
  <1> QED
    BY <1>1, <1>2, <1>3, <1>4, <1>5, QuietRest

\* Only a lookup.
LEMMA HandleRenameRest ==
    ASSUME BaseInv, RestInv, NEW c \in Conns, NEW r \in Renames, HandleRename(c, r[1], r[2])
    PROVE  RestInv'
  <1> USE DEF BaseInv, chanVars, connVars, localVars, history, HandleRename, Command, MayHandle,
          WorkerIdle, At, Goto, Finish
  <1>1. UNCHANGED <<chanVars, accChans, connChans, history>>
    OBVIOUS
  <1>2. \A d \in Conns : d # c => pc'[d] = pc[d] /\ chan'[d] = chan[d] /\ ptr'[d] = ptr[d]
    BY DEF TypeOK
  <1>3. \A d \in Conns, k \in Chans : Queued(d, k) => Queued(d, k)'
    BY DEF Queued
  <1>4. PartOk(c)'
    BY DEF TypeOK, PartOk
  <1>5. PtrOk(c)'
    BY DEF TypeOK, PtrOk
  <1> HIDE DEF BaseInv, HandleRename
  <1> QED
    BY <1>1, <1>2, <1>3, <1>4, <1>5, QuietRest

\* A connection of the account that lists the channel is one of a member, and told, or
\* was stale already.
LEMMA PartBroadcastRest ==
    ASSUME BaseInv, RestInv, NEW c \in Conns, PartBroadcast(c)
    PROVE  RestInv'
  <1> USE DEF BaseInv, chanVars, connVars, localVars, history, PartBroadcast, Command, MayHandle,
          WorkerIdle, At, Goto, Finish
  <1>1. UNCHANGED <<chanVars, accChans, connChans, history>>
    OBVIOUS
  <1>2. \A d \in Conns : d # c => pc'[d] = pc[d] /\ chan'[d] = chan[d] /\ ptr'[d] = ptr[d]
    BY DEF TypeOK
  <1>3. \A d \in Conns, k \in Chans : Queued(d, k) => Queued(d, k)'
    BY DEF Queued
  <1>4. PartOk(c)'
    <2>1. pc[c] = "cast" /\ Named(chan[c])
      BY DEF HandlerInv
    <2>2. ASSUME NEW d \in Conns, AcctOf[d] = AcctOf[c], SteadyName(chan[c]),
                 connChans[d][name[chan[c]]] = chan[c],
                 <<AcctOf[c], chan[c]>> \notin overtaken
          PROVE  Queued(d, chan[c])'
      <3>1. CASE AcctOf[c] \in Elements(members[chan[c]])
        <4>1. open[d] = "open" /\ d \in conns[AcctOf[c]]
          BY <2>1, <2>2, Constants DEF ListedInv, Named
        <4>2. d \in PartTargets(c)
          BY <3>1, <4>1 DEF PartTargets
        <4>3. inbox'[d] = Append(inbox[d], <<chan[c], AcctOf[d]>>)
          BY <2>2, <4>2
        <4>4. inbox[d] \in Seq(Chans \X Accts) /\ UNCHANGED chan
          BY DEF TypeOK
        <4> HIDE DEF PartBroadcast, BaseInv
        <4> DEFINE part == <<chan[c], AcctOf[d]>>
        <4>5. part \in Chans \X Accts
          BY <2>1, Constants DEF Named
        <4>6. \E i \in 1 .. Len(Append(inbox[d], part)) : Append(inbox[d], part)[i] = part
          <5> HIDE DEF part
          <5>1. Len(inbox[d]) + 1 \in 1 .. Len(Append(inbox[d], part))
            BY <4>4, <4>5
          <5> QED
            BY <4>4, <4>5, <5>1
        <4> QED
          BY <4>3, <4>4, <4>6 DEF Queued
      <3>2. CASE AcctOf[c] \notin Elements(members[chan[c]])
        <4>1. Stale(d, chan[c]) /\ chan[c] \in Chans
          BY <2>1, <2>2, <3>2 DEF Stale, Named
        <4>2. Queued(d, chan[c])
          BY <2>2, <4>1 DEF RestInv, ChannelsBacked
        <4>3. inbox[d] \in Seq(Chans \X Accts) /\ UNCHANGED chan
          BY DEF TypeOK
        <4>4. inbox'[d] \in {inbox[d], Append(inbox[d], <<chan[c], AcctOf[c]>>)}
          OBVIOUS
        <4>5. <<chan[c], AcctOf[c]>> \in Chans \X Accts
          BY <2>1, Constants DEF Named
        <4> DEFINE part == <<chan[c], AcctOf[c]>>
        <4> HIDE DEF PartBroadcast, BaseInv, part
        <4>6. \A i \in 1 .. Len(inbox[d]) : i \in 1 .. Len(inbox'[d]) /\ inbox'[d][i] = inbox[d][i]
          <5>1. CASE inbox'[d] = Append(inbox[d], part)
            BY <4>3, <4>5, <5>1 DEF part
          <5> QED
            BY <4>4, <5>1 DEF part
        <4> QED
          BY <4>2, <4>3, <4>6 DEF Queued
      <3> QED
        BY <3>1, <3>2
    <2>3. pc'[c] = "drop" /\ UNCHANGED <<chan, name, connChans, former, overtaken>>
      BY DEF TypeOK
    <2> HIDE DEF PartBroadcast, BaseInv
    <2> QED
      BY <2>2, <2>3 DEF PartOk, SteadyName
  <1>5. PtrOk(c)'
    BY DEF TypeOK, PtrOk
  <1> HIDE DEF BaseInv, PartBroadcast
  <1> QED
    BY <1>1, <1>2, <1>3, <1>4, <1>5, QuietRest

\* A freed connection has no channels and no queued calls.
LEMMA DisconnectRest ==
    ASSUME BaseInv, RestInv, NEW c \in Conns, Disconnect(c)
    PROVE  RestInv'
  <1>1. /\ UNCHANGED <<registry, name, members, accChans, pc, chan, ptr, former, overtaken>>
        /\ \A n \in Names : connChans'[c][n] = Null
        /\ \A d \in Conns : d # c => connChans'[d] = connChans[d] /\ inbox'[d] = inbox[d]
    BY DEF BaseInv, Disconnect, chanVars, localVars, history, TypeOK
  <1>2. \A d \in Conns, k \in Chans : d # c /\ Queued(d, k) => Queued(d, k)'
    BY <1>1 DEF Queued
  <1>3. \A k \in Chans, n \in Names : connChans'[c][n] # k
    BY <1>1, Constants
  <1>4. NamesInv' /\ AlwaysOnline'
    BY <1>1, <1>3 DEF RestInv, NamesInv, AlwaysOnline, SteadyName
  <1>5. PartInv'
    <2> SUFFICES ASSUME NEW d \in Conns
                 PROVE  PartOk(d)'
      BY DEF PartInv, PartOk
    <2>1. PartOk(d) /\ (pc[d] = "drop" => chan[d] \in Chans)
      BY OneByOne DEF RestInv, BaseInv, HandlerInv, Named
    <2> QED
      BY <1>1, <1>2, <1>3, <2>1 DEF PartOk, SteadyName
  <1>6. PtrInv'
    BY <1>1 DEF RestInv, PtrInv, SteadyName
  <1>7. ChannelsBacked'
    BY <1>1, <1>2, <1>3 DEF RestInv, ChannelsBacked, Stale, SteadyName
  <1> QED
    BY <1>4, <1>5, <1>6, <1>7 DEF RestInv

\* Nothing refers to a new channel but the registry, and it has no members.
LEMMA JoinCreateRest ==
    ASSUME BaseInv, RestInv, NEW c \in Conns, JoinCreate(c)
    PROVE  RestInv'
  <1>1. PICK k \in Chans :
            /\ name[k] = Null
            /\ name' = [name EXCEPT ![k] = arg[c]]
            /\ registry' = [registry EXCEPT ![arg[c]] = k]
            /\ chan' = [chan EXCEPT ![c] = k]
    BY DEF JoinCreate
  <1>2. /\ pc[c] = "create" /\ arg[c] \in Names /\ pc' = [pc EXCEPT ![c] = "enter"]
        /\ UNCHANGED <<members, accChans, connChans, inbox, ptr, former, overtaken>>
    BY DEF JoinCreate, At, Goto, connVars, history, BaseInv, HandlerInv
  <1>3. /\ name'[k] = arg[c] /\ registry'[arg[c]] = k
        /\ \A l \in Chans : l # k => name'[l] = name[l]
        /\ \A n \in Names : n # arg[c] => registry'[n] = registry[n]
    BY <1>1, <1>2 DEF BaseInv, TypeOK
  <1>4. /\ pc'[c] = "enter"
        /\ \A d \in Conns : d # c => pc'[d] = pc[d] /\ chan'[d] = chan[d]
    BY <1>1, <1>2 DEF BaseInv, TypeOK
  <1>5. \A l : Named(l) => l \in Chans /\ l # k /\ name'[l] = name[l]
    BY <1>1, <1>3, Constants DEF Named
  <1>6. \A a : a \notin Elements(members[k])
    BY <1>1 DEF BaseInv, NamedInv, Elements
  <1>7. \A d \in Conns, n \in Names : connChans[d][n] # k
    BY <1>5, Constants DEF BaseInv, NamedInv
  <1>8. \A n \in Names : registry[n] # k
    BY <1>5, Constants DEF BaseInv, NamedInv
  <1>9. \A l \in Chans \ {k} :
            /\ SteadyName(l)' <=> SteadyName(l)
            /\ SteadyName(l) => (registry'[name[l]] = l => registry[name[l]] = l)
    BY <1>2, <1>3 DEF SteadyName
  <1>10. NamesInv'
    <2> SUFFICES ASSUME NEW n \in Names, NEW l \in Chans,
                        registry'[n] = l \/ \E d \in Conns : connChans[d][n] = l
                 PROVE  n = name'[l] \/ n \in former[l]
      BY <1>2 DEF NamesInv
    <2>1. CASE l = k
      BY <1>2, <1>3, <1>7, <1>8, <2>1
    <2>2. CASE l # k
      <3>1. registry[n] = l \/ \E d \in Conns : connChans[d][n] = l
        BY <1>3, <2>2
      <3> QED
        BY <1>3, <2>2, <3>1 DEF RestInv, NamesInv
    <2> QED
      BY <2>1, <2>2
  <1>11. PartInv'
    <2> SUFFICES ASSUME NEW d \in Conns, pc'[d] = "drop"
                 PROVE  PartOk(d)'
      BY DEF PartInv, PartOk
    <2>1. d # c /\ pc[d] = "drop" /\ chan'[d] = chan[d] /\ Named(chan[d]) /\ PartOk(d)
      BY <1>4, OneByOne DEF RestInv, BaseInv, HandlerInv
    <2>2. \A e \in Conns : Queued(e, chan[d]) => Queued(e, chan[d])'
      BY <1>2, <2>1 DEF Queued
    <2> QED
      BY <1>2, <1>5, <1>9, <2>1, <2>2 DEF PartOk
  <1>12. PtrInv'
    <2> SUFFICES ASSUME NEW d \in Conns, pc'[d] = "join"
                 PROVE  PtrOk(d)'
      BY DEF PtrInv, PtrOk
    <2>1. d # c /\ pc[d] = "join" /\ chan'[d] = chan[d] /\ Named(chan[d]) /\ PtrOk(d)
      BY <1>4, OneByOne DEF RestInv, BaseInv, HandlerInv
    <2> QED
      BY <1>2, <1>5, <1>9, <2>1 DEF PtrOk
  <1>13. ChannelsBacked'
    <2>1. \A d \in Conns, l \in Chans : Queued(d, l) => Queued(d, l)'
      BY <1>2 DEF Queued
    <2>2. \A d \in Conns, l \in Chans : Stale(d, l)' => l # k
      BY <1>2, <1>7 DEF Stale, SteadyName
    <2>3. \A d \in Conns, l \in Chans : Stale(d, l)' => Stale(d, l)
      BY <1>2, <1>3, <1>9, <2>2 DEF Stale
    <2> QED
      BY <1>2, <2>1, <2>3 DEF RestInv, ChannelsBacked
  <1>14. AlwaysOnline'
    <2> SUFFICES ASSUME NEW a \in Accts, NEW l \in Chans, a \in Elements(members[l]),
                        registry'[name'[l]] = l, SteadyName(l)',
                        \A m \in Chans \ {l} : name'[l] \notin former[m] \cup {name'[m]}
                 PROVE  accChans[a][name'[l]] = l
      BY <1>2 DEF AlwaysOnline
    <2>1. l # k /\ name'[l] = name[l] /\ SteadyName(l) /\ registry[name[l]] = l
      BY <1>3, <1>6, <1>9
    <2>2. \A m \in Chans \ {l} : name[l] \notin former[m] \cup {name[m]}
      BY <1>1, <1>3, <2>1, Constants DEF SteadyName
    <2> QED
      BY <2>1, <2>2 DEF RestInv, AlwaysOnline
  <1> QED
    BY <1>10, <1>11, <1>12, <1>13, <1>14 DEF RestInv

\* A JOIN makes its account a member, whose connections may list the channel; a PART
\* of the account under way is overtaken.
LEMMA JoinApplyRest ==
    ASSUME BaseInv, RestInv, NEW c \in Conns, JoinApply(c)
    PROVE  RestInv'
  <1> DEFINE a == AcctOf[c]
             k == chan[c]
             p == ptr[c]
  <1>1. /\ pc[c] = "join" /\ Named(k) /\ k \in Chans /\ name[k] \in Names /\ a \in Accts
        /\ members[k] \in Seq(Accts)
    BY Constants DEF JoinApply, At, BaseInv, HandlerInv, Named, TypeOK
  <1>2. /\ UNCHANGED <<registry, name, inbox, former>>
        /\ \A d \in Conns : d # c => pc'[d] = pc[d] /\ chan'[d] = chan[d] /\ ptr'[d] = ptr[d]
        /\ pc'[c] \in {"idle", "rejoin"}
    BY DEF JoinApply, Finish, Goto, BaseInv, TypeOK
  <1>3. /\ members'[k] = AddMember(members[k], a)
        /\ \A l \in Chans : l # k => members'[l] = members[l]
    BY <1>1 DEF JoinApply, BaseInv, TypeOK
  <1>4. /\ accChans' = IF a \in Elements(members[k]) THEN accChans
                       ELSE [accChans EXCEPT ![a] = [accChans[a] EXCEPT ![name[k]] = p]]
        /\ accChans \in [Accts -> [Names -> Chans \cup {Null, Absent}]]
    BY DEF JoinApply, Remember, BaseInv, TypeOK
  <1>5. \A d \in Conns, n \in Names :
            \/ connChans'[d][n] = connChans[d][n]
            \/ AcctOf[d] = a /\ n = name[k] /\ connChans'[d][n] = k
    <2>1. \A d \in Conns, n \in Names :
            \/ connChans'[d][n] = connChans[d][n]
            \/ d \in conns[a] /\ n = name[k] /\ connChans'[d][n] = k
      BY <1>1 DEF JoinApply, BaseInv, TypeOK
    <2>2. \A d \in Conns : d \in conns[a] => AcctOf[d] = a
      BY <1>1 DEF BaseInv, ListedInv
    <2> QED
      BY <2>1, <2>2
  <1>6. /\ Elements(members'[k]) = Elements(members[k]) \cup {a}
        /\ \A l \in Chans : l # k => Elements(members'[l]) = Elements(members[l])
    BY <1>1, <1>3, AddMemberFacts
  <1>7. /\ Parting(a, k) => <<a, k>> \in overtaken'
        /\ \A b, l : <<b, l>> # <<a, k>> => (<<b, l>> \in overtaken' <=> <<b, l>> \in overtaken)
    BY DEF JoinApply
  <1>8. \A d \in Conns, l \in Chans : Queued(d, l)' <=> Queued(d, l)
    BY <1>2 DEF Queued
  <1>9. \A l \in Chans : SteadyName(l)' <=> SteadyName(l)
    BY <1>2 DEF SteadyName
  <1>10. NamesInv'
    BY <1>1, <1>2, <1>5 DEF RestInv, NamesInv
  <1>11. PartInv'
    <2> SUFFICES ASSUME NEW d \in Conns, pc'[d] = "drop"
                 PROVE  PartOk(d)'
      BY DEF PartInv, PartOk
    <2>1. d # c /\ pc[d] = "drop" /\ chan'[d] = chan[d] /\ chan[d] \in Chans /\ PartOk(d)
      BY <1>2, OneByOne DEF RestInv, BaseInv, HandlerInv, Named
    <2>2. CASE <<AcctOf[d], chan[d]>> = <<a, k>>
      <3>1. Parting(a, k)
        BY <2>1, <2>2 DEF Parting
      <3> QED
        BY <1>7, <2>1, <2>2, <3>1 DEF PartOk
    <2>3. CASE <<AcctOf[d], chan[d]>> # <<a, k>>
      <3> SUFFICES ASSUME NEW e \in Conns, AcctOf[e] = AcctOf[d],
                          <<AcctOf[d], chan[d]>> \notin overtaken',
                          SteadyName(chan[d]), connChans'[e][name[chan[d]]] = chan[d]
                   PROVE  Queued(e, chan[d])
        BY <1>2, <1>8, <1>9, <2>1 DEF PartOk
      <3>1. connChans[e][name[chan[d]]] = chan[d]
        BY <1>5, <2>3 DEF SteadyName
      <3> QED
        BY <1>7, <2>1, <2>3, <3>1 DEF PartOk
    <2> QED
      BY <2>2, <2>3
  <1>12. PtrInv'
    <2> SUFFICES ASSUME NEW d \in Conns, pc'[d] = "join"
                 PROVE  PtrOk(d)'
      BY DEF PtrInv, PtrOk
    <2>1. d # c /\ pc[d] = "join" /\ chan'[d] = chan[d] /\ ptr'[d] = ptr[d] /\ chan[d] \in Chans /\ PtrOk(d)
      BY <1>2, OneByOne DEF RestInv, BaseInv, HandlerInv, Named
    <2> QED
      BY <1>2, <1>9, <2>1 DEF PtrOk
  <1>13. ChannelsBacked'
    <2> SUFFICES ASSUME NEW d \in Conns, NEW l \in Chans, Stale(d, l)'
                 PROVE  Queued(d, l) \/ <<AcctOf[d], l>> \in overtaken'
      BY <1>8 DEF ChannelsBacked
    <2>1. <<AcctOf[d], l>> # <<a, k>>
      BY <1>6 DEF Stale
    <2>2. SteadyName(l) /\ connChans'[d][name[l]] = l
      BY <1>2, <1>9 DEF Stale
    <2>3. connChans[d][name[l]] = l
      BY <1>5, <2>1, <2>2 DEF SteadyName
    <2>4. AcctOf[d] \notin Elements(members[l])
      BY <1>6 DEF Stale
    <2>5. Stale(d, l)
      BY <2>2, <2>3, <2>4 DEF Stale
    <2> QED
      BY <1>7, <2>1, <2>5 DEF RestInv, ChannelsBacked
  <1>14. AlwaysOnline'
    <2> SUFFICES ASSUME NEW b \in Accts, NEW l \in Chans, b \in Elements(members'[l]),
                        registry[name[l]] = l, SteadyName(l),
                        \A m \in Chans \ {l} : name[l] \notin former[m] \cup {name[m]}
                 PROVE  accChans'[b][name[l]] = l
      BY <1>2, <1>9 DEF AlwaysOnline
    <2>1. CASE l = k /\ b = a /\ a \notin Elements(members[k])
      <3>1. p = k
        BY <1>1, <2>1, OneByOne DEF RestInv, PtrOk
      <3> QED
        BY <1>1, <1>4, <2>1, <3>1
    <2>2. CASE ~ (l = k /\ b = a /\ a \notin Elements(members[k]))
      <3>1. b \in Elements(members[l])
        BY <1>6, <2>2
      <3>2. accChans[b][name[l]] = l
        BY <3>1 DEF RestInv, AlwaysOnline
      <3>3. a \in Elements(members[k]) \/ b # a \/ name[l] # name[k]
        BY <1>1, <2>2
      <3> QED
        BY <1>1, <1>4, <3>2, <3>3 DEF SteadyName
    <2> QED
      BY <2>1, <2>2
  <1> QED
    BY <1>10, <1>11, <1>12, <1>13, <1>14 DEF RestInv

\* When the account is out of the list, the calls are on their way or a JOIN was.
LEMMA PartDropRest ==
    ASSUME BaseInv, RestInv, NEW c \in Conns, PartDrop(c)
    PROVE  RestInv'
  <1> DEFINE k == chan[c]
  <1>1. /\ pc[c] = "drop" /\ k \in Chans /\ members[k] \in Seq(Accts) /\ PartOk(c)
    BY OneByOne DEF PartDrop, At, RestInv, BaseInv, HandlerInv, Named, TypeOK
  <1>2. /\ UNCHANGED <<registry, name, accChans, connChans, inbox, former, overtaken>>
        /\ \A d \in Conns : d # c => pc'[d] = pc[d] /\ chan'[d] = chan[d] /\ ptr'[d] = ptr[d]
        /\ pc'[c] \in {"idle", "rejoin"}
    BY DEF PartDrop, Finish, Goto, BaseInv, TypeOK, connVars, history
  <1>3. /\ members'[k] = removeAll(members[k], AcctOf[c])
        /\ \A l \in Chans : l # k => members'[l] = members[l]
    BY <1>1 DEF PartDrop, BaseInv, TypeOK
  <1>4. /\ Elements(members'[k]) = Elements(members[k]) \ {AcctOf[c]}
        /\ \A l \in Chans : l # k => Elements(members'[l]) = Elements(members[l])
    BY <1>1, <1>3, RemoveAll
  <1>5. \A d \in Conns, l \in Chans : Queued(d, l)' <=> Queued(d, l)
    BY <1>2 DEF Queued
  <1>6. \A l \in Chans : SteadyName(l)' <=> SteadyName(l)
    BY <1>2 DEF SteadyName
  <1>7. NamesInv'
    BY <1>2 DEF RestInv, NamesInv
  <1>8. PartInv'
    <2> SUFFICES ASSUME NEW d \in Conns, pc'[d] = "drop"
                 PROVE  PartOk(d)'
      BY DEF PartInv, PartOk
    <2>1. pc[d] = "drop" /\ chan'[d] = chan[d] /\ chan[d] \in Chans /\ PartOk(d)
      BY <1>2, OneByOne DEF RestInv, BaseInv, HandlerInv, Named
    <2> QED
      BY <1>2, <1>5, <1>6, <2>1 DEF PartOk
  <1>9. PtrInv'
    <2> SUFFICES ASSUME NEW d \in Conns, pc'[d] = "join"
                 PROVE  PtrOk(d)'
      BY DEF PtrInv, PtrOk
    <2>1. pc[d] = "join" /\ chan'[d] = chan[d] /\ ptr'[d] = ptr[d] /\ chan[d] \in Chans /\ PtrOk(d)
      BY <1>2, OneByOne DEF RestInv, BaseInv, HandlerInv, Named
    <2> QED
      BY <1>2, <1>6, <2>1 DEF PtrOk
  <1>10. ChannelsBacked'
    <2> SUFFICES ASSUME NEW d \in Conns, NEW l \in Chans, Stale(d, l)'
                 PROVE  Queued(d, l) \/ <<AcctOf[d], l>> \in overtaken
      BY <1>2, <1>5 DEF ChannelsBacked
    <2>1. SteadyName(l) /\ connChans[d][name[l]] = l
      BY <1>2, <1>6 DEF Stale
    <2>2. CASE <<AcctOf[d], l>> = <<AcctOf[c], k>>
      BY <1>1, <2>1, <2>2 DEF PartOk
    <2>3. CASE <<AcctOf[d], l>> # <<AcctOf[c], k>>
      <3>1. Stale(d, l)
        BY <1>4, <2>1, <2>3 DEF Stale
      <3> QED
        BY <3>1 DEF RestInv, ChannelsBacked
    <2> QED
      BY <2>2, <2>3
  <1>11. AlwaysOnline'
    <2>1. \A l \in Chans : Elements(members'[l]) \subseteq Elements(members[l])
      BY <1>4
    <2> QED
      BY <1>2, <1>6, <2>1 DEF RestInv, AlwaysOnline
  <1> QED
    BY <1>7, <1>8, <1>9, <1>10, <1>11 DEF RestInv

\* The call clears the entry under the channel's name.
LEMMA ChannelPartRest ==
    ASSUME BaseInv, RestInv, NEW c \in Conns, ChannelPart(c)
    PROVE  RestInv'
  <1> DEFINE k == Head(inbox[c])[1]
             a == Head(inbox[c])[2]
  <1>1. /\ UNCHANGED <<registry, name, members, accChans, pc, chan, ptr, former, overtaken>>
        /\ inbox[c] \in Seq(Chans \X Accts) /\ inbox[c] # << >> /\ inbox'[c] = Tail(inbox[c])
        /\ \A d \in Conns : d # c => inbox'[d] = inbox[d]
    BY DEF ChannelPart, BaseInv, TypeOK, chanVars, localVars, history
  <1>2. Head(inbox[c]) \in Chans \X Accts /\ Head(inbox[c]) = inbox[c][1] /\ name[k] \in Names
    <2>1. Head(inbox[c]) = inbox[c][1] /\ 1 \in 1 .. Len(inbox[c]) /\ Head(inbox[c]) \in Chans \X Accts
      BY <1>1
    <2> QED
      BY <2>1 DEF BaseInv, NamedInv, Named
  <1>3. /\ \A d \in Conns : d # c => connChans'[d] = connChans[d]
        /\ \A n \in Names : connChans'[c][n] \in {connChans[c][n], Null}
        /\ a = AcctOf[c] => connChans'[c][name[k]] = Null
    <2>1. \/ a = AcctOf[c] /\ connChans' = [connChans EXCEPT ![c] = [connChans[c] EXCEPT ![name[k]] = Null]]
          \/ a # AcctOf[c] /\ connChans' = connChans
      BY DEF ChannelPart, WithoutChannel
    <2>2. connChans \in [Conns -> [Names -> Chans \cup {Null}]] /\ name[k] \in Names
      BY <1>2 DEF BaseInv, TypeOK
    <2> HIDE DEF k, a
    <2>3. connChans'[c] \in {connChans[c], [connChans[c] EXCEPT ![name[k]] = Null]}
      BY <2>1, <2>2
    <2> QED
      BY <2>1, <2>2, <2>3
  <1>4. \A d \in Conns, l \in Chans, n \in Names : connChans'[d][n] = l => connChans[d][n] = l
    BY <1>3, Constants
  <1>5. \A d \in Conns, l \in Chans :
            Queued(d, l) => (d = c /\ l = k /\ a = AcctOf[c]) \/ Queued(d, l)'
    <2> SUFFICES ASSUME NEW l \in Chans, NEW i \in 1 .. Len(inbox[c]),
                        inbox[c][i] = <<l, AcctOf[c]>>
                 PROVE  (l = k /\ a = AcctOf[c]) \/ Queued(c, l)'
      BY <1>1 DEF Queued
    <2>1. CASE i = 1
      BY <1>2, <2>1
    <2>2. CASE i # 1
      <3>1. i - 1 \in 1 .. Len(inbox'[c]) /\ inbox'[c][i - 1] = inbox[c][i]
        BY <1>1, <2>2
      <3> QED
        BY <3>1 DEF Queued
    <2> QED
      BY <2>1, <2>2
  <1>6. \A d \in Conns, l \in Chans :
            Queued(d, l) /\ connChans'[d][name[l]] = l => Queued(d, l)'
    <2>1. \A l \in Chans : Null # l
      BY Constants
    <2> QED
      BY <1>3, <1>5, <2>1
  <1>7. NamesInv' /\ AlwaysOnline' /\ PtrInv'
    BY <1>1, <1>4 DEF RestInv, NamesInv, AlwaysOnline, PtrInv, SteadyName
  <1>8. PartInv'
    <2> SUFFICES ASSUME NEW d \in Conns, pc[d] = "drop"
                 PROVE  PartOk(d)'
      BY <1>1 DEF PartInv, PartOk
    <2>1. PartOk(d) /\ chan[d] \in Chans
      BY OneByOne DEF RestInv, BaseInv, HandlerInv, Named
    <2> SUFFICES ASSUME NEW e \in Conns, AcctOf[e] = AcctOf[d],
                        <<AcctOf[d], chan[d]>> \notin overtaken,
                        SteadyName(chan[d]), connChans'[e][name[chan[d]]] = chan[d]
                 PROVE  Queued(e, chan[d])'
      BY <1>1 DEF PartOk, SteadyName, Queued
    <2>2. connChans[e][name[chan[d]]] = chan[d]
      BY <1>4, <2>1 DEF SteadyName
    <2> QED
      BY <1>1, <1>6, <2>1, <2>2 DEF PartOk
  <1>9. ChannelsBacked'
    <2> SUFFICES ASSUME NEW d \in Conns, NEW l \in Chans, Stale(d, l)'
                 PROVE  Queued(d, l)' \/ <<AcctOf[d], l>> \in overtaken
      BY <1>1 DEF ChannelsBacked
    <2>1. SteadyName(l) /\ connChans'[d][name[l]] = l /\ AcctOf[d] \notin Elements(members[l])
      BY <1>1 DEF Stale, SteadyName
    <2>2. Stale(d, l)
      BY <1>4, <2>1 DEF Stale, SteadyName
    <2> QED
      BY <1>6, <2>1, <2>2 DEF RestInv, ChannelsBacked
  <1> QED
    BY <1>7, <1>8, <1>9 DEF RestInv

\* The new name is one the channel has had, or one under which nothing knows it.
LEMMA RenameApplyRest ==
    ASSUME BaseInv, RestInv, NEW c \in Conns, RenameApply(c)
    PROVE  RestInv'
  <1> DEFINE k == chan[c]
  <1>1. PICK n \in Names : name' = [name EXCEPT ![k] = n]
    BY DEF RenameApply, NewName, BaseInv, HandlerInv, At
  <1>2. /\ UNCHANGED <<registry, members, accChans, connChans, inbox, overtaken>>
        /\ \A d \in Conns : d # c => pc'[d] = pc[d] /\ chan'[d] = chan[d] /\ ptr'[d] = ptr[d]
        /\ pc'[c] \in {"idle", "rejoin"} /\ k \in Chans
    BY DEF RenameApply, At, Finish, Goto, BaseInv, TypeOK, HandlerInv, Named, connVars
  <1>3. /\ name'[k] = n /\ \A l \in Chans : l # k => name'[l] = name[l]
        /\ former'[k] = former[k] \cup {name[k]}
        /\ \A l \in Chans : l # k => former'[l] = former[l]
    BY <1>1, <1>2 DEF RenameApply, BaseInv, TypeOK
  <1>4. name'[k] \in Names \ former'[k] => registry[n] # k /\ \A d \in Conns : connChans[d][n] # k
    BY <1>2, <1>3 DEF RestInv, NamesInv, SteadyName
  <1>5. \A l \in Chans \ {k} : SteadyName(l)' <=> SteadyName(l)
    BY <1>3 DEF SteadyName
  <1>6. \A d \in Conns, l \in Chans : Queued(d, l)' <=> Queued(d, l)
    BY <1>2 DEF Queued
  <1>7. NamesInv'
    <2> SUFFICES ASSUME NEW m \in Names, NEW l \in Chans,
                        registry[m] = l \/ \E d \in Conns : connChans[d][m] = l
                 PROVE  m = name'[l] \/ m \in former'[l]
      BY <1>2 DEF NamesInv
    <2>1. m = name[l] \/ m \in former[l]
      BY DEF RestInv, NamesInv
    <2> QED
      BY <1>3, <2>1
  <1>8. PartInv'
    <2> SUFFICES ASSUME NEW d \in Conns, pc'[d] = "drop"
                 PROVE  PartOk(d)'
      BY DEF PartInv, PartOk
    <2>1. d # c /\ pc[d] = "drop" /\ chan'[d] = chan[d] /\ chan[d] \in Chans /\ PartOk(d)
      BY <1>2, OneByOne DEF RestInv, BaseInv, HandlerInv, Named
    <2>2. CASE chan[d] = k
      BY <1>2, <1>3, <1>4, <2>1, <2>2 DEF PartOk, SteadyName
    <2>3. CASE chan[d] # k
      BY <1>2, <1>3, <1>5, <1>6, <2>1, <2>3 DEF PartOk
    <2> QED
      BY <2>2, <2>3
  <1>9. PtrInv'
    <2> SUFFICES ASSUME NEW d \in Conns, pc'[d] = "join"
                 PROVE  PtrOk(d)'
      BY DEF PtrInv, PtrOk
    <2>1. d # c /\ pc[d] = "join" /\ chan'[d] = chan[d] /\ ptr'[d] = ptr[d] /\ chan[d] \in Chans /\ PtrOk(d)
      BY <1>2, OneByOne DEF RestInv, BaseInv, HandlerInv, Named
    <2>2. CASE chan[d] = k
      BY <1>2, <1>3, <1>4, <2>1, <2>2 DEF PtrOk, SteadyName
    <2>3. CASE chan[d] # k
      BY <1>2, <1>3, <1>5, <2>1, <2>3 DEF PtrOk
    <2> QED
      BY <2>2, <2>3
  <1>10. ChannelsBacked'
    <2> SUFFICES ASSUME NEW d \in Conns, NEW l \in Chans, Stale(d, l)'
                 PROVE  Queued(d, l) \/ <<AcctOf[d], l>> \in overtaken
      BY <1>2, <1>6 DEF ChannelsBacked
    <2>1. l # k
      BY <1>2, <1>3, <1>4 DEF Stale, SteadyName
    <2>2. Stale(d, l)
      BY <1>2, <1>3, <1>5, <2>1 DEF Stale
    <2> QED
      BY <2>2 DEF RestInv, ChannelsBacked
  <1>11. AlwaysOnline'
    <2> SUFFICES ASSUME NEW a \in Accts, NEW l \in Chans, a \in Elements(members[l]),
                        registry[name'[l]] = l, SteadyName(l)',
                        \A m \in Chans \ {l} : name'[l] \notin former'[m] \cup {name'[m]}
                 PROVE  accChans[a][name'[l]] = l
      BY <1>2 DEF AlwaysOnline
    <2>1. l # k
      BY <1>3, <1>4 DEF SteadyName
    <2>2. name'[l] = name[l] /\ SteadyName(l)
      BY <1>3, <1>5, <2>1
    <2>3. \A m \in Chans \ {l} : name[l] \notin former[m] \cup {name[m]}
      BY <1>2, <1>3, <2>1, <2>2
    <2> QED
      BY <2>2, <2>3 DEF RestInv, AlwaysOnline
  <1> QED
    BY <1>7, <1>8, <1>9, <1>10, <1>11 DEF RestInv

-----------------------------------------------------------------------------
(* The theorems                                                              *)

\* The channels loaded from the database satisfy the invariant.
LEMMA InitInv ==
    ASSUME Init
    PROVE  BaseInv /\ RestInv
  <1>1. BaseInv
    BY InitBase
  <1>2. \A n \in Names : registry[n] # Null => name[registry[n]] = n
    BY ChannelsAssumption DEF Init
  <1>3. NamesInv
    BY <1>2, Constants DEF NamesInv, Init
  <1>4. PartInv /\ PtrInv /\ ChannelsBacked
    <2>1. \A c \in Conns, k \in Chans, n \in Names : connChans[c][n] # k
      BY Constants DEF Init
    <2> QED
      BY <2>1 DEF Init, PartInv, PtrInv, ChannelsBacked, Stale, SteadyName
  <1>5. AlwaysOnline
    <2>1. \A a \in Accts, n \in Names :
              registry[n] # Null /\ a \in Elements(members[registry[n]]) =>
                  accChans[a][n] = registry[n]
      BY DEF Init
    <2> QED
      BY <2>1, Constants DEF AlwaysOnline, SteadyName
  <1> QED
    BY <1>1, <1>3, <1>4, <1>5 DEF RestInv

\* Every step keeps the second half.
LEMMA NextRest ==
    ASSUME BaseInv, RestInv, [Next]_vars
    PROVE  RestInv'
  <1>1. CASE UNCHANGED vars
    <2> USE <1>1 DEF vars, chanVars, connVars, localVars, history
    <2>1. NamesInv' /\ AlwaysOnline'
      BY DEF RestInv, NamesInv, AlwaysOnline, SteadyName
    <2>2. PartInv' /\ PtrInv'
      BY DEF RestInv, PartInv, PtrInv, SteadyName, Queued
    <2>3. ChannelsBacked'
      BY DEF RestInv, ChannelsBacked, Stale, SteadyName, Queued
    <2> QED
      BY <2>1, <2>2, <2>3 DEF RestInv
  <1>2. ASSUME NEW c \in Conns, Attach(c) \/ Disconnect(c) \/ ChannelPart(c)
        PROVE  RestInv'
    BY <1>2, AttachRest, DisconnectRest, ChannelPartRest
  <1>3. ASSUME NEW c \in Conns, NEW n \in Names, HandleJoin(c, n) \/ HandlePart(c, n)
        PROVE  RestInv'
    BY <1>3, HandleJoinRest, HandlePartRest
  <1>4. ASSUME NEW c \in Conns, NEW r \in Renames, HandleRename(c, r[1], r[2])
        PROVE  RestInv'
    BY <1>4, HandleRenameRest
  <1>5. ASSUME NEW c \in Conns, Continue(c)
        PROVE  RestInv'
    BY <1>5, ResumeRest, RejoinRest, ReadyRest, JoinCreateRest, JoinEnterRest, JoinApplyRest,
       PartCheckRest, PartBroadcastRest, PartDropRest, RenameApplyRest DEF Continue
  <1> QED
    BY <1>1, <1>2, <1>3, <1>4, <1>5 DEF Next

\* The inductive invariant holds in every state of every behaviour.
LEMMA InvAlways == Spec => []Inv
  <1>1. Init => BaseInv /\ RestInv
    BY InitInv
  <1>2. BaseInv /\ RestInv /\ [Next]_vars => (BaseInv /\ RestInv)'
    BY NextBase, NextRest
  <1>3. BaseInv /\ RestInv => Inv
    BY DEF BaseInv, RestInv, Inv
  <1> QED
    BY <1>1, <1>2, <1>3, PTL DEF Spec

\* Every variable of the channel model keeps its type: in particular a handler
\* that joins, parts or renames works on a channel.
THEOREM ChannelsTyped == Spec => []TypeOK
  <1>1. Inv => TypeOK
    BY DEF Inv
  <1> QED
    BY <1>1, InvAlways, PTL

\* Channel::join: on any workers, whatever JOINs, PARTs, logins and RENAMEs
\* interleave, no account is listed twice in m_members.
THEOREM MembersListedOnce == Spec => []MembersOnce
  <1>1. Inv => MembersOnce
    BY DEF Inv
  <1> QED
    BY <1>1, InvAlways, PTL

\* PART: on any workers and under any RENAMEs, a connection that lists a channel under a
\* name it had not before belongs to a member, or the call that clears the entry is queued
\* to it, or the last JOIN of its account fell between broadcast and removal of a PART.
THEOREM ListedChannelsBacked == Spec => []ChannelsBacked
  <1>1. Inv => ChannelsBacked
    BY DEF Inv
  <1> QED
    BY <1>1, InvAlways, PTL

\* "Always online": on any workers, the membership of an account in a channel whose name
\* is its own is in Account::channels, from which the next connection gets it back.
THEOREM MembershipRemembered == Spec => []AlwaysOnline
  <1>1. Inv => AlwaysOnline
    BY DEF Inv
  <1> QED
    BY <1>1, InvAlways, PTL
=============================================================================
