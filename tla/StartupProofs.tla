---------------------------- MODULE StartupProofs ----------------------------
(***************************************************************************)
(* Proofs about the constructor of Ctx, for any preload files, any page    *)
(* size and any number of restarts and failing statements.  Inv is in      *)
(* Startup.                                                                *)
(***************************************************************************)
EXTENDS Startup, FiniteSetTheorems, TLAPS

Rest == ToSet(Tail(todo))

-----------------------------------------------------------------------------
(* Calls                                                                     *)

\* Calls of different kinds are different.
LEMMA CallOps ==
    /\ AdminCall.op = "admin"
    /\ \A s : /\ ServerCall(s).op = "server" /\ RoleCall(s).op = "role"
              /\ PermissionCall(s).op = "permission" /\ ServerMembersCall(s).op = "serverMembers"
    /\ \A n, s : AssignCall(n, s).op = "assign" /\ JoinCall(n, s).op = "join"
    /\ \A u : UserCall(u).op = "user"
    /\ \A c : ChannelCall(c).op = "channel"
    /\ \A c, s, n : MemberCall(c, s, n).op = "member"
    /\ \A o, l : ChannelPage(o, l).op = "channelPage"
    /\ \A c : ChannelMembersCall(c).op = "channelMembers"
    /\ \A o : AccountPage(o).op = "accountPage"
  BY DEF AdminCall, ServerCall, RoleCall, PermissionCall, ServerMembersCall, AssignCall,
         JoinCall, UserCall, ChannelCall, MemberCall, ChannelPage, ChannelMembersCall, AccountPage

\* Calls have the arguments they were made with.
LEMMA CallArguments ==
    /\ \A s : /\ ServerCall(s).s = s /\ RoleCall(s).s = s
              /\ PermissionCall(s).s = s /\ ServerMembersCall(s).s = s
    /\ \A n, s : /\ AssignCall(n, s).n = n /\ AssignCall(n, s).s = s
                 /\ JoinCall(n, s).n = n /\ JoinCall(n, s).s = s
    /\ \A u : UserCall(u).n = u.name /\ UserCall(u).s = u.server
    /\ \A c : /\ ChannelCall(c).c = c.name /\ ChannelCall(c).s = c.server
              /\ ChannelCall(c).list = c.members
    /\ \A c, s, n : /\ MemberCall(c, s, n).c = c /\ MemberCall(c, s, n).s = s
                    /\ MemberCall(c, s, n).n = n
    /\ \A o, l : ChannelPage(o, l).offset = o /\ ChannelPage(o, l).list = l
    /\ \A c : ChannelMembersCall(c).c = c
    /\ \A o : AccountPage(o).offset = o
  BY DEF AdminCall, ServerCall, RoleCall, PermissionCall, ServerMembersCall, AssignCall,
         JoinCall, UserCall, ChannelCall, MemberCall, ChannelPage, ChannelMembersCall, AccountPage

\* Calls with the same arguments only are the same.
LEMMA SameServer ==
    \A s, t : /\ ServerCall(s) = ServerCall(t) => s = t
              /\ RoleCall(s) = RoleCall(t) => s = t
              /\ PermissionCall(s) = PermissionCall(t) => s = t
  BY DEF ServerCall, RoleCall, PermissionCall

LEMMA SameAssign == \A m, n, s, t : AssignCall(m, s) = AssignCall(n, t) => m = n /\ s = t
  BY DEF AssignCall

LEMMA SameJoin == \A m, n, s, t : JoinCall(m, s) = JoinCall(n, t) => m = n /\ s = t
  BY DEF JoinCall

LEMMA SameChannel == \A b, c : ChannelMembersCall(b) = ChannelMembersCall(c) => b = c
  BY DEF ChannelMembersCall

LEMMA SameMember ==
    ASSUME NEW b, NEW c, NEW s, NEW t, NEW m, NEW n, MemberCall(b, s, m) = MemberCall(c, t, n)
    PROVE  b = c /\ s = t /\ m = n
  <1>1. /\ MemberCall(b, s, m).c = b /\ MemberCall(b, s, m).s = s /\ MemberCall(b, s, m).n = m
        /\ MemberCall(c, t, n).c = c /\ MemberCall(c, t, n).s = t /\ MemberCall(c, t, n).n = n
    BY DEF MemberCall
  <1> QED
    BY <1>1

\* The rank of a call is that of its kind.
LEMMA Ranks ==
    ASSUME NEW x
    PROVE  /\ x.op = "role" => Rank(x) = 0
           /\ x.op = "permission" => Rank(x) = 0
           /\ x.op = "assign" => Rank(x) = 0
           /\ x.op = "admin" => Rank(x) = 1
           /\ x.op = "join" => Rank(x) = 1
           /\ x.op = "serverMembers" => Rank(x) = 1
           /\ x.op = "server" => Rank(x) = 2
           /\ x.op = "user" => Rank(x) = 3
           /\ x.op = "channel" => Rank(x) = 4
           /\ x.op = "member" => Rank(x) = 4
           /\ x.op = "channelPage" => Rank(x) = 5
           /\ x.op = "channelMembers" => Rank(x) = 6
           /\ x.op = "accountPage" => Rank(x) = 7
  BY DEF Rank

\* What a call of the code is.
Kind(x) ==
    /\ x.op \in {"admin", "server", "role", "permission", "serverMembers", "assign",
                 "join", "user", "channel", "member", "channelPage", "channelMembers",
                 "accountPage"}
    /\ x.op \notin {"channelPage", "channelMembers", "accountPage"} => config # NoFile
    /\ x.op = "admin" => x = AdminCall
    /\ x.op = "server" => \E s \in ConfiguredServers(config) : x = ServerCall(s)
    /\ x.op = "role" => \E s \in ConfiguredServers(config) : x = RoleCall(s)
    /\ x.op = "permission" => \E s \in ConfiguredServers(config) : x = PermissionCall(s)
    /\ x.op = "serverMembers" => \E s \in ConfiguredServers(config) : x = ServerMembersCall(s)
    /\ x.op = "assign" => \E n \in Users, s \in ConfiguredServers(config) : x = AssignCall(n, s)
    /\ x.op = "join" => \E n \in Users, s \in ConfiguredServers(config) : x = JoinCall(n, s)
    /\ x.op = "user" => \E u \in ToSet(config.users) : x = UserCall(u)
    /\ x.op = "channel" => \E c \in ToSet(config.channels) : x = ChannelCall(c)
    /\ x.op = "member" => \E c \in Chans, s \in Servers, n \in Users : x = MemberCall(c, s, n)
    /\ x.op = "channelPage" => \E o \in Nat, l \in Seq(Chans) : x = ChannelPage(o, l)
    /\ x.op = "channelMembers" => \E c \in Chans : x = ChannelMembersCall(c)
    /\ x.op = "accountPage" => \E o \in Nat : x = AccountPage(o)

\* Every call that is owed is one of those the code makes.
LEMMA Kinds ==
    ASSUME StackInv, NEW x \in Owed
    PROVE  Kind(x)
  <1> USE DEF Kind
  <1>1. LoadCall(x) \/ (config # NoFile /\ PreloadCall(x))
    BY DEF StackInv
  <1>2. CASE LoadCall(x)
    BY <1>2, CallOps DEF LoadCall
  <1>3. CASE config # NoFile /\ PreloadCall(x)
    <2>1. ASSUME NEW s \in ConfiguredServers(config),
                 x \in {ServerCall(s), RoleCall(s), PermissionCall(s), ServerMembersCall(s)}
          PROVE  Kind(x)
      <3>1. CASE x = ServerCall(s)
        BY <1>3, <3>1, CallOps
      <3>2. CASE x = RoleCall(s)
        BY <1>3, <3>2, CallOps
      <3>3. CASE x = PermissionCall(s)
        BY <1>3, <3>3, CallOps
      <3>4. CASE x = ServerMembersCall(s)
        BY <1>3, <3>4, CallOps
      <3> QED
        BY <2>1, <3>1, <3>2, <3>3, <3>4
    <2>2. ASSUME NEW s \in ConfiguredServers(config), NEW n \in Users,
                 x \in {AssignCall(n, s), JoinCall(n, s)}
          PROVE  Kind(x)
      <3>1. CASE x = AssignCall(n, s)
        BY <1>3, <3>1, CallOps
      <3>2. CASE x = JoinCall(n, s)
        BY <1>3, <3>2, CallOps
      <3> QED
        BY <2>2, <3>1, <3>2
    <2>3. CASE x = AdminCall
      BY <1>3, <2>3, CallOps
    <2>4. CASE \E u \in ToSet(config.users) : x = UserCall(u)
      BY <1>3, <2>4, CallOps
    <2>5. CASE \E c \in ToSet(config.channels) : x = ChannelCall(c)
      BY <1>3, <2>5, CallOps
    <2>6. CASE \E c \in Chans, s \in Servers, n \in Users : x = MemberCall(c, s, n)
      BY <1>3, <2>6, CallOps
    <2> QED
      BY <1>3, <2>1, <2>2, <2>3, <2>4, <2>5, <2>6 DEF PreloadCall
  <1> QED
    BY <1>1, <1>2, <1>3

\* A call of the last two loops may stand only above later ones.
LEMMA AboveIf ==
    ASSUME NEW x, NEW y, Rank(x) <= Rank(y), Rank(x) <= 4
    PROVE  Above(x, y)
  BY DEF Above

-----------------------------------------------------------------------------
(* The stack                                                                 *)

\* The elements of two lists, one after the other.
LEMMA ConcatElements ==
    ASSUME NEW S, NEW s \in Seq(S), NEW t \in Seq(S)
    PROVE  ToSet(s \o t) = ToSet(s) \cup ToSet(t)
  <1>1. /\ Len(s) \in Nat /\ Len(t) \in Nat
        /\ DOMAIN s = 1 .. Len(s) /\ DOMAIN t = 1 .. Len(t)
        /\ DOMAIN (s \o t) = 1 .. Len(s) + Len(t)
        /\ \A i \in 1 .. Len(s) : (s \o t)[i] = s[i]
        /\ \A i \in 1 .. Len(t) : (s \o t)[Len(s) + i] = t[i]
    OBVIOUS
  <1>2. ASSUME NEW x \in ToSet(s \o t)
        PROVE  x \in ToSet(s) \cup ToSet(t)
    <2>1. PICK i \in 1 .. Len(s) + Len(t) : x = (s \o t)[i]
      BY <1>1 DEF ToSet
    <2>2. CASE i <= Len(s)
      BY <1>1, <2>1, <2>2 DEF ToSet
    <2>3. CASE i > Len(s)
      <3>1. i - Len(s) \in 1 .. Len(t) /\ i = Len(s) + (i - Len(s))
        BY <1>1, <2>3
      <3>2. x = t[i - Len(s)]
        BY <1>1, <2>1, <3>1
      <3> QED
        BY <1>1, <3>1, <3>2 DEF ToSet
    <2> QED
      BY <1>1, <2>2, <2>3
  <1>3. ASSUME NEW x \in ToSet(s)
        PROVE  x \in ToSet(s \o t)
    BY <1>1 DEF ToSet
  <1>4. ASSUME NEW x \in ToSet(t)
        PROVE  x \in ToSet(s \o t)
    <2>1. PICK i \in 1 .. Len(t) : x = t[i]
      BY <1>1 DEF ToSet
    <2>2. Len(s) + i \in 1 .. Len(s) + Len(t) /\ x = (s \o t)[Len(s) + i]
      BY <1>1, <2>1
    <2> QED
      BY <1>1, <2>2 DEF ToSet
  <1> QED
    BY <1>2, <1>3, <1>4

\* Two ordered lists, each element of the first above each of the second.
LEMMA ConcatOrdered ==
    ASSUME NEW S, NEW s \in Seq(S), NEW t \in Seq(S), Ordered(s), Ordered(t),
           \A x \in ToSet(s), y \in ToSet(t) : Above(x, y)
    PROVE  Ordered(s \o t)
  <1>1. /\ Len(s) \in Nat /\ Len(t) \in Nat
        /\ DOMAIN s = 1 .. Len(s) /\ DOMAIN t = 1 .. Len(t)
        /\ DOMAIN (s \o t) = 1 .. Len(s) + Len(t)
        /\ \A i \in 1 .. Len(s) : (s \o t)[i] = s[i]
        /\ \A i \in 1 .. Len(s) + Len(t) : i > Len(s) => (s \o t)[i] = t[i - Len(s)]
    OBVIOUS
  <1> SUFFICES ASSUME NEW i \in 1 .. Len(s) + Len(t), NEW j \in 1 .. Len(s) + Len(t), i < j
               PROVE  Above((s \o t)[i], (s \o t)[j])
    BY <1>1 DEF Ordered
  <1>2. CASE j <= Len(s)
    BY <1>1, <1>2 DEF Ordered
  <1>3. CASE i <= Len(s) /\ j > Len(s)
    <2>1. j - Len(s) \in 1 .. Len(t) /\ i \in 1 .. Len(s)
      BY <1>1, <1>3
    <2>2. s[i] \in ToSet(s) /\ t[j - Len(s)] \in ToSet(t)
      BY <1>1, <2>1 DEF ToSet
    <2> QED
      BY <1>1, <1>3, <2>1, <2>2
  <1>4. CASE i > Len(s)
    <2>1. /\ i - Len(s) \in 1 .. Len(t) /\ j - Len(s) \in 1 .. Len(t) /\ i - Len(s) < j - Len(s)
          /\ j > Len(s)
      BY <1>1, <1>4
    <2>2. Above(t[i - Len(s)], t[j - Len(s)])
      BY <1>1, <2>1 DEF Ordered
    <2> QED
      BY <1>1, <1>4, <2>1, <2>2
  <1> QED
    BY <1>1, <1>2, <1>3, <1>4

\* A list of one.
LEMMA Single ==
    ASSUME NEW x
    PROVE  ToSet(<<x>>) = {x} /\ Ordered(<<x>>) /\ <<x>> \in Seq(ToSet(<<x>>))
  BY DEF ToSet, Ordered

LEMMA Nothing == ToSet(<< >>) = {} /\ Ordered(<< >>) /\ << >> \in Seq(ToSet(<< >>))
  BY DEF ToSet, Ordered

\* What is on top of the stack, and what is below.
LEMMA Top ==
    ASSUME TypeOK, StackInv, todo # << >>
    PROVE  /\ Head(todo) \in Owed /\ Owed = {Head(todo)} \cup Rest
           /\ Tail(todo) \in Seq(Owed) /\ Ordered(Tail(todo))
           /\ \A y \in Rest : Above(Head(todo), y) /\ Rank(Head(todo)) <= Rank(y)
  <1>1. /\ Len(todo) \in Nat \ {0} /\ DOMAIN todo = 1 .. Len(todo)
        /\ Head(todo) = todo[1] /\ Tail(todo) \in Seq(Owed)
        /\ DOMAIN Tail(todo) = 1 .. Len(todo) - 1
        /\ \A k \in 1 .. Len(todo) - 1 : Tail(todo)[k] = todo[k + 1]
    BY DEF TypeOK, Owed
  <1>2. Head(todo) \in Owed
    BY <1>1 DEF Owed, ToSet
  <1>3. ASSUME NEW y \in Rest
        PROVE  y \in Owed /\ Above(Head(todo), y) /\ Rank(Head(todo)) <= Rank(y)
    <2>1. PICK k \in 1 .. Len(todo) - 1 : y = todo[k + 1]
      BY <1>1 DEF Rest, ToSet
    <2>2. k + 1 \in 1 .. Len(todo) /\ 1 \in 1 .. Len(todo) /\ 1 < k + 1
      BY <1>1
    <2>3. Above(todo[1], todo[k + 1])
      BY <1>1, <2>2 DEF StackInv, Ordered
    <2> QED
      BY <1>1, <2>1, <2>2, <2>3 DEF Owed, ToSet, Above
  <1>4. ASSUME NEW y \in Owed, y # Head(todo)
        PROVE  y \in Rest
    <2>1. PICK k \in 1 .. Len(todo) : y = todo[k]
      BY <1>1 DEF Owed, ToSet
    <2>2. k - 1 \in 1 .. Len(todo) - 1 /\ (k - 1) + 1 = k
      BY <1>1, <1>4, <2>1
    <2>3. Tail(todo)[k - 1] = y
      BY <1>1, <2>1, <2>2
    <2> QED
      BY <1>1, <2>2, <2>3 DEF Rest, ToSet
  <1>5. Ordered(Tail(todo))
    <2> SUFFICES ASSUME NEW i \in 1 .. Len(todo) - 1, NEW j \in 1 .. Len(todo) - 1, i < j
                 PROVE  Above(Tail(todo)[i], Tail(todo)[j])
      BY <1>1 DEF Ordered
    <2>1. i + 1 \in DOMAIN todo /\ j + 1 \in DOMAIN todo /\ i + 1 < j + 1
      BY <1>1
    <2>2. Above(todo[i + 1], todo[j + 1])
      BY <2>1 DEF StackInv, Ordered
    <2> QED
      BY <1>1, <2>2
  <1> QED
    BY <1>1, <1>2, <1>3, <1>4, <1>5

\* A call leaves others in its place: they are calls of the code, in order, and none
\* that belongs to a loop already left.
LEMMA Replaced ==
    ASSUME TypeOK, StackInv, up, todo # << >>,
           NEW calls, calls \in Seq(ToSet(calls)), Ordered(calls), Then(calls),
           UNCHANGED <<up, config>>,
           \A x \in ToSet(calls) :
               /\ LoadCall(x) \/ (config # NoFile /\ PreloadCall(x))
               /\ \A y \in Rest : Above(x, y)
               /\ Rank(x) <= 4 => Rank(Head(todo)) <= 4
    PROVE  Owed' = ToSet(calls) \cup Rest /\ todo' \in Seq(Owed') /\ StackInv'
  <1>1. /\ Head(todo) \in Owed /\ Owed = {Head(todo)} \cup Rest
        /\ Tail(todo) \in Seq(Owed) /\ Ordered(Tail(todo))
        /\ \A y \in Rest : Rank(Head(todo)) <= Rank(y)
    BY Top
  <1> DEFINE S == ToSet(calls) \cup Owed
  <1>2. calls \in Seq(S) /\ Tail(todo) \in Seq(S) /\ todo' = calls \o Tail(todo)
    BY <1>1 DEF Then
  <1>3. Owed' = ToSet(calls) \cup Rest
    <2>1. ToSet(calls \o Tail(todo)) = ToSet(calls) \cup Rest
      BY <1>2, ConcatElements DEF Rest
    <2> QED
      BY <1>2, <2>1 DEF Owed
  <1>4. todo' \in Seq(Owed')
    <2>1. todo' \in Seq(S)
      BY <1>2
    <2>2. \A i \in 1 .. Len(todo') : todo'[i] \in Owed'
      BY <2>1 DEF Owed, ToSet
    <2> QED
      BY <2>1, <2>2
  <1>5. Ordered(todo')
    <2>1. Ordered(calls \o Tail(todo))
      BY <1>1, <1>2, ConcatOrdered DEF Rest
    <2> QED
      BY <1>2, <2>1
  <1>6. \A x \in Owed' : LoadCall(x) \/ (config # NoFile /\ PreloadCall(x))
    BY <1>1, <1>3 DEF StackInv
  <1>7. Preloading' => ChannelPage(0, << >>) \in Owed'
    <2> SUFFICES ASSUME NEW x \in Owed', Rank(x) <= 4
                 PROVE  ChannelPage(0, << >>) \in Owed'
      BY DEF Preloading
    <2>1. Rank(Head(todo)) \in {0, 1, 2, 3, 4, 5, 6, 7}
      BY <1>1, Kinds, Ranks DEF Kind
    <2>2. Rank(Head(todo)) <= 4
      <3>1. CASE x \in Rest
        <4>1. x \in Owed
          BY <1>1, <3>1
        <4>2. Rank(x) \in {0, 1, 2, 3, 4, 5, 6, 7}
          BY <4>1, Kinds, Ranks DEF Kind
        <4> QED
          BY <1>1, <2>1, <3>1, <4>2
      <3> QED
        BY <1>3, <3>1
    <2>3. ChannelPage(0, << >>) \in Owed
      BY <1>1, <2>2 DEF StackInv, Preloading
    <2>4. Rank(ChannelPage(0, << >>)) = 5
      BY CallOps, Ranks
    <2> QED
      BY <1>1, <1>3, <2>1, <2>2, <2>3, <2>4
  <1>8. \A x : (PreloadCall(x) <=> PreloadCall(x)') /\ (LoadCall(x) <=> LoadCall(x)')
    BY DEF PreloadCall, LoadCall
  <1> QED
    BY <1>3, <1>4, <1>5, <1>6, <1>7, <1>8 DEF StackInv, Preloading

-----------------------------------------------------------------------------
(* Lists                                                                     *)

\* A function on 1 .. n is a list of its values.
LEMMA IsList ==
    ASSUME NEW n \in Nat, NEW f, f = [i \in 1 .. n |-> f[i]]
    PROVE  f \in Seq(ToSet(f)) /\ Len(f) = n /\ DOMAIN f = 1 .. n
  <1>1. DOMAIN f = 1 .. n
    OBVIOUS
  <1>2. \A i \in 1 .. n : f[i] \in ToSet(f)
    BY <1>1 DEF ToSet
  <1>3. f \in [1 .. n -> ToSet(f)]
    BY <1>1, <1>2
  <1> QED
    BY <1>1, <1>3

\* The elements of a list of S.
LEMMA ElementsOf ==
    ASSUME NEW S, NEW list \in Seq(S)
    PROVE  ToSet(list) \subseteq S
  BY DEF ToSet

\* Calls of one rank, none of them a reading of members or a page, are in order.
LEMMA OneRank ==
    ASSUME NEW calls, NEW r \in {0, 1, 2, 3, 4}, \A x \in ToSet(calls) : Rank(x) = r
    PROVE  Ordered(calls)
  BY DEF Ordered, Above, ToSet

\* The lists of calls that loops make.
LEMMA AssignCalls ==
    ASSUME NEW list \in Seq(Users), NEW s
    PROVE  LET calls == [i \in DOMAIN list |-> AssignCall(list[i], s)]
           IN  /\ ToSet(calls) = {AssignCall(n, s) : n \in ToSet(list)}
               /\ calls \in Seq(ToSet(calls)) /\ Ordered(calls)
  <1> DEFINE calls == [i \in DOMAIN list |-> AssignCall(list[i], s)]
  <1>1. DOMAIN list = 1 .. Len(list) /\ Len(list) \in Nat
    OBVIOUS
  <1>2. ToSet(calls) = {AssignCall(n, s) : n \in ToSet(list)}
    BY DEF ToSet
  <1>3. \A x \in ToSet(calls) : Rank(x) = 0
    BY <1>2, CallOps, Ranks
  <1>4. calls = [i \in 1 .. Len(list) |-> calls[i]]
    BY <1>1
  <1> HIDE DEF calls
  <1>5. calls \in Seq(ToSet(calls)) /\ Ordered(calls)
    BY <1>1, <1>3, <1>4, IsList, OneRank
  <1> QED
    BY <1>2, <1>5 DEF calls

LEMMA MemberCallsMade ==
    ASSUME NEW c, c.members \in Seq(Users), NEW calls, calls = MemberCalls(ChannelCall(c))
    PROVE  /\ ToSet(calls) = {MemberCall(c.name, c.server, n) : n \in ToSet(c.members)}
           /\ calls \in Seq(ToSet(calls)) /\ Ordered(calls)
  <1> DEFINE list == c.members
  <1>1. DOMAIN list = 1 .. Len(list) /\ Len(list) \in Nat
    OBVIOUS
  <1>2. calls = [i \in DOMAIN list |-> MemberCall(c.name, c.server, list[i])]
    BY CallArguments DEF MemberCalls
  <1>3. ToSet(calls) = {MemberCall(c.name, c.server, n) : n \in ToSet(list)}
    BY <1>2 DEF ToSet
  <1>4. \A x \in ToSet(calls) : Rank(x) = 4
    BY <1>3, CallOps, Ranks
  <1>5. calls = [i \in 1 .. Len(list) |-> calls[i]]
    BY <1>1, <1>2
  <1> QED
    BY <1>1, <1>3, <1>4, <1>5, IsList, OneRank

LEMMA MembersOfMade ==
    ASSUME NEW list \in Seq(Chans), NEW calls, calls = MembersOf(list)
    PROVE  /\ ToSet(calls) = {ChannelMembersCall(c) : c \in ToSet(list)}
           /\ calls \in Seq(ToSet(calls))
           /\ (\A i, j \in DOMAIN list : list[i] = list[j] => i = j) => Ordered(calls)
  <1>1. DOMAIN list = 1 .. Len(list) /\ Len(list) \in Nat
    OBVIOUS
  <1>2. calls = [i \in DOMAIN list |-> ChannelMembersCall(list[i])]
    BY DEF MembersOf
  <1>3. ToSet(calls) = {ChannelMembersCall(c) : c \in ToSet(list)}
    BY <1>2 DEF ToSet
  <1>4. \A x \in ToSet(calls) : Rank(x) = 6
    BY <1>3, CallOps, Ranks
  <1>5. calls = [i \in 1 .. Len(list) |-> calls[i]]
    BY <1>1, <1>2
  <1>6. calls \in Seq(ToSet(calls))
    BY <1>1, <1>5, IsList
  <1>7. ASSUME \A i, j \in DOMAIN list : list[i] = list[j] => i = j
        PROVE  Ordered(calls)
    <2> SUFFICES ASSUME NEW i \in DOMAIN calls, NEW j \in DOMAIN calls, i < j
                 PROVE  Above(calls[i], calls[j])
      BY DEF Ordered
    <2>1. i \in DOMAIN list /\ j \in DOMAIN list /\ i # j
      BY <1>1, <1>2
    <2>2. calls[i] # calls[j]
      <3>1. calls[i] = ChannelMembersCall(list[i]) /\ calls[j] = ChannelMembersCall(list[j])
        BY <1>2, <2>1
      <3>2. ChannelMembersCall(list[i]).c = list[i] /\ ChannelMembersCall(list[j]).c = list[j]
        BY CallArguments
      <3>3. list[i] # list[j]
        BY <1>7, <2>1
      <3> QED
        BY <3>1, <3>2, <3>3
    <2>3. calls[i] \in ToSet(calls) /\ calls[j] \in ToSet(calls)
      BY DEF ToSet
    <2> QED
      BY <1>4, <2>2, <2>3 DEF Above
  <1> QED
    BY <1>3, <1>6, <1>7

\* The elements of a list are finitely many.
LEMMA ListFinite ==
    ASSUME NEW S, NEW list \in Seq(S)
    PROVE  IsFiniteSet(ToSet(list))
  <1>1. list \in [1 .. Len(list) -> ToSet(list)] /\ Len(list) \in Nat
    BY DEF ToSet
  <1>2. \A x \in ToSet(list) : \E i \in 1 .. Len(list) : list[i] = x
    BY DEF ToSet
  <1>3. list \in Surjection(1 .. Len(list), ToSet(list))
    BY <1>1, <1>2 DEF Surjection
  <1>4. IsFiniteSet(1 .. Len(list))
    BY <1>1, FS_Interval
  <1> QED
    BY <1>3, <1>4, FS_Surjection

\* A finite set, listed: each element once.
LEMMA SetListed ==
    ASSUME NEW S, IsFiniteSet(S)
    PROVE  /\ SetToSeq(S) \in Seq(S) /\ ToSet(SetToSeq(S)) = S
           /\ Len(SetToSeq(S)) = Cardinality(S)
  <1>1. Cardinality(S) \in Nat /\ ExistsBijection(1 .. Cardinality(S), S)
    BY FS_CardinalityType
  <1>2. PICK g : g \in Bijection(1 .. Cardinality(S), S)
    BY <1>1 DEF ExistsBijection
  <1>3. g \in [1 .. Cardinality(S) -> S] /\ IsInjective(g)
    BY <1>2 DEF Bijection, Injection, Surjection, IsInjective
  <1>4. SetToSeq(S) \in [1 .. Cardinality(S) -> S] /\ IsInjective(SetToSeq(S))
    BY <1>3 DEF SetToSeq
  <1> DEFINE f == SetToSeq(S)
  <1>5. f \in Injection(1 .. Cardinality(S), S)
    BY <1>4 DEF Injection, IsInjective
  <1>6. IsFiniteSet(1 .. Cardinality(S)) /\ Cardinality(1 .. Cardinality(S)) = Cardinality(S)
    BY <1>1, FS_Interval
  <1>7. f \in Surjection(1 .. Cardinality(S), S)
    BY <1>5, <1>6, FS_Injection
  <1>8. \A x \in S : \E i \in 1 .. Cardinality(S) : f[i] = x
    BY <1>7 DEF Surjection
  <1> QED
    BY <1>1, <1>4, <1>8 DEF ToSet

\* The constants, and a preload file that was read.
LEMMA Constants ==
    /\ Admin \in Users /\ PageSize \in Nat \ {0}
    /\ (config \in Configs \cup {NoFile} /\ config # NoFile) =>
           /\ config.servers \in Seq(Servers)
           /\ config.users \in Seq([name : Users, server : Servers])
           /\ config.channels \in Seq([name : Chans, server : Servers, members : Seq(Users)])
           /\ ConfiguredServers(config) \subseteq Servers
           /\ KnownUsers(config) \subseteq Users
           /\ Admin \in KnownUsers(config)
           /\ \A u \in ToSet(config.users) :
                  u.name \in KnownUsers(config) /\ u.name \in Users /\ u.server \in Servers
           /\ \A c \in ToSet(config.channels) :
                  c.name \in Chans /\ c.server \in Servers /\ c.members \in Seq(Users)
  <1>1. Admin \in Users /\ PageSize \in Nat \ {0}
    BY StartupAssumption
  <1> SUFFICES ASSUME config \in Configs, config # NoFile
               PROVE  /\ config.servers \in Seq(Servers)
                      /\ config.users \in Seq([name : Users, server : Servers])
                      /\ config.channels \in Seq([name : Chans, server : Servers, members : Seq(Users)])
                      /\ ConfiguredServers(config) \subseteq Servers
                      /\ KnownUsers(config) \subseteq Users
                      /\ Admin \in KnownUsers(config)
                      /\ \A u \in ToSet(config.users) :
                             u.name \in KnownUsers(config) /\ u.name \in Users /\ u.server \in Servers
                      /\ \A c \in ToSet(config.channels) :
                             c.name \in Chans /\ c.server \in Servers /\ c.members \in Seq(Users)
    BY <1>1
  <1>2. /\ config.servers \in Seq(Servers)
        /\ config.users \in Seq([name : Users, server : Servers])
        /\ config.channels \in Seq([name : Chans, server : Servers, members : Seq(Users)])
    BY StartupAssumption DEF Config
  <1>3. ConfiguredServers(config) \subseteq Servers
    BY <1>2, ElementsOf DEF ConfiguredServers
  <1>4. ToSet(config.users) \subseteq [name : Users, server : Servers]
    BY <1>2, ElementsOf
  <1>5. ToSet(config.channels) \subseteq [name : Chans, server : Servers, members : Seq(Users)]
    BY <1>2, ElementsOf
  <1>6. \A c \in ToSet(config.channels) :
            c.name \in Chans /\ c.server \in Servers /\ c.members \in Seq(Users)
    BY <1>5
  <1>7. /\ KnownUsers(config) \subseteq Users /\ Admin \in KnownUsers(config)
        /\ \A u \in ToSet(config.users) :
               u.name \in KnownUsers(config) /\ u.name \in Users /\ u.server \in Servers
    BY <1>1, <1>4 DEF KnownUsers
  <1> QED
    BY <1>2, <1>3, <1>6, <1>7

-----------------------------------------------------------------------------
(* What each call does to the stack                                          *)

\* The call on top, and its rank against those below.
LEMMA OnTop ==
    ASSUME TypeOK, StackInv, NEW op, Calling(op)
    PROVE  /\ up /\ todo # << >> /\ Head(todo).op = op /\ Kind(Head(todo))
           /\ Head(todo) \in Owed /\ Owed = {Head(todo)} \cup Rest
           /\ \A y \in Rest : Kind(y) /\ Rank(Head(todo)) <= Rank(y) /\ Rank(y) \in 0 .. 7
  <1>1. up /\ todo # << >> /\ Head(todo).op = op
    BY DEF Calling
  <1>2. /\ Head(todo) \in Owed /\ Owed = {Head(todo)} \cup Rest
        /\ \A y \in Rest : Rank(Head(todo)) <= Rank(y)
    BY <1>1, Top
  <1>3. \A y \in Owed : Kind(y)
    BY Kinds
  <1>4. \A y \in Owed : Rank(y) \in 0 .. 7
    BY <1>3, Ranks DEF Kind
  <1> QED
    BY <1>1, <1>2, <1>3, <1>4

\* A call that leaves none.
LEMMA Returned ==
    ASSUME TypeOK, StackInv, up, todo # << >>, Return, UNCHANGED <<up, config>>
    PROVE  Owed' = Rest /\ todo' \in Seq(Owed') /\ StackInv'
  <1>1. Then(<< >>)
    BY DEF Return
  <1>2. Owed' = ToSet(<< >>) \cup Rest /\ todo' \in Seq(Owed') /\ StackInv'
    BY <1>1, Nothing, Replaced
  <1> QED
    BY <1>2, Nothing

\* A call that leaves one, of a loop not later than its own.
LEMMA LeavesOne ==
    ASSUME TypeOK, StackInv, up, todo # << >>, NEW x, Then(<<x>>), UNCHANGED <<up, config>>,
           config # NoFile, PreloadCall(x), Rank(x) \in 0 .. 4, Rank(Head(todo)) \in 0 .. 4,
           Rank(x) <= Rank(Head(todo))
    PROVE  Owed' = {x} \cup Rest /\ todo' \in Seq(Owed') /\ StackInv'
  <1>1. \A y \in Rest : Rank(Head(todo)) <= Rank(y) /\ Rank(y) \in 0 .. 7
    BY Top, Kinds, Ranks DEF Kind
  <1>2. \A y \in Rest : Above(x, y)
    BY <1>1, AboveIf
  <1>3. ToSet(<<x>>) = {x} /\ Ordered(<<x>>) /\ <<x>> \in Seq(ToSet(<<x>>))
    BY Single
  <1> DEFINE calls == <<x>>
  <1>4. /\ calls \in Seq(ToSet(calls)) /\ Ordered(calls) /\ Then(calls) /\ ToSet(calls) = {x}
        /\ \A z \in ToSet(calls) :
               /\ PreloadCall(z) /\ Rank(Head(todo)) <= 4
               /\ \A y \in Rest : Above(z, y)
    BY <1>2, <1>3
  <1> HIDE DEF calls
  <1> QED
    BY <1>4, Replaced

\* A list of calls of loops not later than its own.
LEMMA LeavesList ==
    ASSUME TypeOK, StackInv, up, todo # << >>,
           NEW calls, calls \in Seq(ToSet(calls)), Ordered(calls), Then(calls),
           UNCHANGED <<up, config>>, config # NoFile, Rank(Head(todo)) \in 0 .. 4,
           \A x \in ToSet(calls) :
               PreloadCall(x) /\ Rank(x) \in 0 .. 4 /\ Rank(x) <= Rank(Head(todo))
    PROVE  Owed' = ToSet(calls) \cup Rest /\ todo' \in Seq(Owed') /\ StackInv'
  <1>1. \A y \in Rest : Rank(Head(todo)) <= Rank(y) /\ Rank(y) \in 0 .. 7
    BY Top, Kinds, Ranks DEF Kind
  <1>2. \A x \in ToSet(calls), y \in Rest : Above(x, y)
    BY <1>1, AboveIf
  <1> QED
    BY <1>2, Replaced

\* The calls that load the caches.
LEMMA LoadOwed ==
    /\ ToSet(LoadCalls) = {ChannelPage(0, << >>), AccountPage(0)}
    /\ LoadCalls \in Seq(ToSet(LoadCalls)) /\ Ordered(LoadCalls)
    /\ \A x \in ToSet(LoadCalls) : LoadCall(x) /\ Rank(x) \in {5, 7}
  <1> DEFINE a == ChannelPage(0, << >>)
             b == AccountPage(0)
  <1>1. /\ LoadCalls = <<a, b>> /\ DOMAIN LoadCalls = 1 .. 2
        /\ LoadCalls[1] = a /\ LoadCalls[2] = b
    BY DEF LoadCalls
  <1>2. ToSet(LoadCalls) = {a, b}
    <2> HIDE DEF a, b
    <2> QED
      BY <1>1 DEF ToSet
  <1>3. Rank(a) = 5 /\ Rank(b) = 7
    BY CallOps, Ranks
  <1>4. Ordered(LoadCalls)
    <2>1. Above(a, b)
      BY <1>3 DEF Above
    <2> HIDE DEF a, b
    <2> QED
      BY <1>1, <2>1 DEF Ordered
  <1>5. LoadCalls \in Seq({a, b})
    <2> HIDE DEF a, b
    <2> QED
      BY <1>1
  <1>6. LoadCall(a) /\ LoadCall(b)
    <2>1. /\ a.op = "channelPage" /\ a.offset = 0 /\ a.list = << >>
          /\ b.op = "accountPage" /\ b.offset = 0
      BY DEF ChannelPage, AccountPage
    <2>2. a = ChannelPage(a.offset, a.list) /\ b = AccountPage(b.offset)
      BY <2>1 DEF ChannelPage, AccountPage
    <2>3. 0 \in Nat /\ << >> \in Seq(Chans)
      OBVIOUS
    <2> HIDE DEF a, b
    <2> QED
      BY <2>1, <2>2, <2>3 DEF LoadCall
  <1>7. /\ LoadCalls \in Seq(ToSet(LoadCalls))
        /\ \A x \in ToSet(LoadCalls) : LoadCall(x) /\ Rank(x) \in {5, 7}
    <2> HIDE DEF a, b
    <2> QED
      BY <1>2, <1>3, <1>5, <1>6
  <1> QED
    BY <1>2, <1>4, <1>7

StepSucceeds == UNCHANGED <<cleanStart, wounded>>
StepFails == cleanStart' = FALSE /\ wounded' = TRUE

\* The default admin.
LEMMA AdminEffect ==
    ASSUME TypeOK, StackInv, PreloadAdmin
    PROVE  /\ TypeOK' /\ StackInv'
           /\ Head(todo) = AdminCall /\ Owed = {AdminCall} \cup Rest /\ up /\ config # NoFile
           /\ \A y \in Rest : Rank(y) >= 1
           /\ \/ StepSucceeds /\ AccountGetOrCreate(Admin) /\ Owed' = Rest
              \/ /\ StepFails /\ UNCHANGED <<accounts, mAccounts>>
                 /\ Owed' = {ChannelPage(0, << >>), AccountPage(0)}
           /\ UNCHANGED <<servers, roles, perms, members, accRoles, channels, chanMembers,
                          mServers, mRoles, mServerAccts, mServerChans, mChannels, mMembers,
                          up, config, settled>>
  <1>1. /\ up /\ todo # << >> /\ Head(todo) = AdminCall /\ config # NoFile
        /\ Owed = {AdminCall} \cup Rest /\ Rank(Head(todo)) = 1
        /\ \A y \in Rest : Rank(y) >= 1
    <2>1. Calling("admin")
      BY DEF PreloadAdmin
    <2>2. /\ up /\ todo # << >> /\ Head(todo).op = "admin" /\ Kind(Head(todo))
          /\ Owed = {Head(todo)} \cup Rest
          /\ \A y \in Rest : Rank(Head(todo)) <= Rank(y) /\ Rank(y) \in 0 .. 7
      BY <2>1, OnTop
    <2> QED
      BY <2>2, Ranks DEF Kind
  <1>2. UNCHANGED <<servers, roles, perms, members, accRoles, channels, chanMembers,
                    mServers, mRoles, mServerAccts, mServerChans, mChannels, mMembers,
                    up, config, settled>>
    BY DEF PreloadAdmin
  <1>3. CASE StatementSucceeds /\ AccountGetOrCreate(Admin) /\ Return
    <2>1. Owed' = Rest /\ todo' \in Seq(Owed') /\ StackInv'
      BY <1>1, <1>2, <1>3, Returned
    <2>2. StepSucceeds
      BY <1>3 DEF StatementSucceeds, StepSucceeds, counters
    <2>3. accounts' \in Seq(Users) /\ mAccounts' \subseteq Users
      BY <1>3, Constants DEF AccountGetOrCreate, TypeOK
    <2>4. TypeOK'
      BY <1>2, <2>1, <2>2, <2>3 DEF TypeOK, Owed, StepSucceeds
    <2> QED
      BY <1>1, <1>2, <1>3, <2>1, <2>2, <2>4
  <1>4. CASE StatementFails /\ todo' = LoadCalls /\ UNCHANGED <<accounts, mAccounts>>
    <2>1. Owed' = {ChannelPage(0, << >>), AccountPage(0)} /\ todo' \in Seq(Owed')
      BY <1>4, LoadOwed DEF Owed
    <2>2. StackInv'
      <3>1. \A x \in Owed' : LoadCall(x)' /\ Rank(x) \in {5, 7}
        BY <1>4, LoadOwed DEF Owed, LoadCall
      <3>2. Ordered(todo') /\ ~Preloading'
        BY <1>4, <3>1, LoadOwed DEF Preloading
      <3> QED
        BY <1>1, <1>2, <3>1, <3>2 DEF StackInv
    <2>3. StepFails
      BY <1>4 DEF StatementFails, StepFails
    <2>4. TypeOK'
      BY <1>2, <1>4, <2>1, <2>3 DEF TypeOK, Owed, StepFails
    <2> QED
      BY <1>1, <1>2, <1>4, <2>1, <2>2, <2>3, <2>4
  <1> QED
    BY <1>3, <1>4 DEF PreloadAdmin

\* A server, its role and its first member.
LEMMA ServerEffect ==
    ASSUME TypeOK, StackInv, ServerGetOrCreate
    PROVE  /\ TypeOK' /\ StackInv' /\ up /\ config # NoFile
           /\ \E s \in ConfiguredServers(config) :
                  /\ Owed = {ServerCall(s)} \cup Rest
                  /\ \A y \in Rest : Rank(y) >= 2
                  /\ \/ /\ s \in mServers /\ Owed' = {JoinCall(Admin, s)} \cup Rest
                        /\ StepSucceeds /\ UNCHANGED <<servers, mServers>>
                     \/ /\ s \notin mServers /\ StepSucceeds
                        /\ servers' = servers \cup {s} /\ mServers' = mServers \cup {s}
                        /\ Owed' = {RoleCall(s), JoinCall(Admin, s), ServerMembersCall(s)} \cup Rest
                     \/ s \notin mServers /\ StepFails /\ Owed' = Rest /\ UNCHANGED <<servers, mServers>>
           /\ UNCHANGED <<accounts, roles, perms, members, accRoles, channels, chanMembers,
                          mAccounts, mRoles, mServerAccts, mServerChans, mChannels, mMembers,
                          up, config, settled>>
  <1>1. PICK s \in ConfiguredServers(config) :
            /\ up /\ todo # << >> /\ Head(todo) = ServerCall(s) /\ config # NoFile
            /\ Owed = {ServerCall(s)} \cup Rest /\ Rank(Head(todo)) = 2
            /\ \A y \in Rest : Rank(y) >= 2
    <2>1. Calling("server")
      BY DEF ServerGetOrCreate
    <2>2. /\ up /\ todo # << >> /\ Head(todo).op = "server" /\ Kind(Head(todo))
          /\ Owed = {Head(todo)} \cup Rest
          /\ \A y \in Rest : Rank(Head(todo)) <= Rank(y) /\ Rank(y) \in 0 .. 7
      BY <2>1, OnTop
    <2> QED
      BY <2>2, Ranks DEF Kind
  <1>2. UNCHANGED <<accounts, roles, perms, members, accRoles, channels, chanMembers,
                    mAccounts, mRoles, mServerAccts, mServerChans, mChannels, mMembers,
                    up, config, settled>>
    BY DEF ServerGetOrCreate
  <1>3. s \in Servers /\ Admin \in Users /\ Head(todo).s = s
    BY <1>1, Constants, CallArguments DEF TypeOK
  <1>4. /\ PreloadCall(JoinCall(Admin, s)) /\ PreloadCall(RoleCall(s))
        /\ PreloadCall(ServerMembersCall(s))
    BY <1>1, <1>3 DEF PreloadCall
  <1>5. Rank(JoinCall(Admin, s)) = 1 /\ Rank(RoleCall(s)) = 0 /\ Rank(ServerMembersCall(s)) = 1
    BY CallOps, Ranks
  <1>6. CASE s \in mServers /\ Then(<<JoinCall(Admin, s)>>) /\ UNCHANGED <<servers, mServers, counters>>
    <2>1. Owed' = {JoinCall(Admin, s)} \cup Rest /\ todo' \in Seq(Owed') /\ StackInv'
      BY <1>1, <1>2, <1>4, <1>5, <1>6, LeavesOne
    <2>2. StepSucceeds
      BY <1>6 DEF StepSucceeds, counters
    <2>3. TypeOK'
      BY <1>2, <1>6, <2>1, <2>2 DEF TypeOK, Owed, StepSucceeds
    <2> QED
      BY <1>1, <1>2, <1>6, <2>1, <2>2, <2>3
  <1>7. CASE /\ s \notin mServers /\ StatementSucceeds
             /\ servers' = servers \cup {s} /\ mServers' = mServers \cup {s}
             /\ Then(<<RoleCall(s), JoinCall(Admin, s), ServerMembersCall(s), JoinCall(Admin, s)>>)
    <2> DEFINE a == RoleCall(s)
               b == JoinCall(Admin, s)
               c == ServerMembersCall(s)
               calls == <<a, b, c, b>>
    <2>1. ToSet(calls) = {a, b, c} /\ calls \in Seq(ToSet(calls)) /\ Ordered(calls)
      <3>1. Above(a, b) /\ Above(a, c) /\ Above(b, c) /\ Above(b, b) /\ Above(c, b)
        BY <1>5 DEF Above
      <3> HIDE DEF a, b, c
      <3>2. /\ DOMAIN calls = 1 .. 4
            /\ calls[1] = a /\ calls[2] = b /\ calls[3] = c /\ calls[4] = b
        OBVIOUS
      <3>3. 1 .. 4 = {1, 2, 3, 4}
        OBVIOUS
      <3> HIDE DEF calls
      <3>4. ToSet(calls) = {a, b, c}
        BY <3>2, <3>3 DEF ToSet
      <3>5. Ordered(calls)
        BY <3>1, <3>2, <3>3 DEF Ordered
      <3> QED
        BY <3>4, <3>5 DEF calls
    <2>2. Owed' = {a, b, c} \cup Rest /\ todo' \in Seq(Owed') /\ StackInv'
      <3>1. \A x \in ToSet(calls) : PreloadCall(x) /\ Rank(x) \in 0 .. 4 /\ Rank(x) <= Rank(Head(todo))
        BY <1>1, <1>4, <1>5, <2>1
      <3>2. Then(calls)
        BY <1>7
      <3> HIDE DEF calls, a, b, c
      <3> QED
        BY <1>1, <1>2, <2>1, <3>1, <3>2, LeavesList
    <2>3. StepSucceeds
      BY <1>7 DEF StatementSucceeds, StepSucceeds, counters
    <2>4. TypeOK'
      BY <1>2, <1>3, <1>7, <2>2, <2>3 DEF TypeOK, Owed, StepSucceeds
    <2> QED
      BY <1>1, <1>2, <1>7, <2>2, <2>3, <2>4
  <1>8. CASE s \notin mServers /\ StatementFails /\ Return /\ UNCHANGED <<servers, mServers>>
    <2>1. Owed' = Rest /\ todo' \in Seq(Owed') /\ StackInv'
      BY <1>1, <1>2, <1>8, Returned
    <2>2. StepFails
      BY <1>8 DEF StatementFails, StepFails
    <2>3. TypeOK'
      BY <1>2, <1>8, <2>1, <2>2 DEF TypeOK, Owed, StepFails
    <2> QED
      BY <1>1, <1>2, <1>8, <2>1, <2>2, <2>3
  <1> QED
    BY <1>3, <1>6, <1>7, <1>8 DEF ServerGetOrCreate

\* The @everyone of a server.
LEMMA RoleEffect ==
    ASSUME TypeOK, StackInv, BackedInv, CreateRoleForServer
    PROVE  /\ TypeOK' /\ StackInv' /\ up /\ config # NoFile
           /\ \E s \in ConfiguredServers(config) :
                  /\ Owed = {RoleCall(s)} \cup Rest
                  /\ \/ /\ StepSucceeds /\ s \in roles /\ Owed' = Rest
                        /\ roles' = roles /\ mRoles' = mRoles \cup {s}
                     \/ /\ StepSucceeds /\ s \notin roles
                        /\ roles' = roles \cup {s} /\ mRoles' = mRoles \cup {s}
                        /\ \E N \in SUBSET Users :
                               Owed' = {PermissionCall(s)} \cup {AssignCall(n, s) : n \in N} \cup Rest
                     \/ /\ StepFails /\ Owed' = Rest /\ mRoles' = mRoles
                        /\ roles' = roles \/ (s \notin roles /\ roles' = roles \cup {s})
           /\ UNCHANGED <<accounts, servers, perms, members, accRoles, channels, chanMembers,
                          mAccounts, mServers, mServerAccts, mServerChans, mChannels, mMembers,
                          up, config, settled>>
  <1>1. PICK s \in ConfiguredServers(config) :
            /\ up /\ todo # << >> /\ Head(todo) = RoleCall(s) /\ config # NoFile
            /\ Owed = {RoleCall(s)} \cup Rest /\ Rank(Head(todo)) = 0
    <2>1. Calling("role")
      BY DEF CreateRoleForServer
    <2>2. /\ up /\ todo # << >> /\ Head(todo).op = "role" /\ Kind(Head(todo))
          /\ Owed = {Head(todo)} \cup Rest
      BY <2>1, OnTop
    <2> QED
      BY <2>2, Ranks DEF Kind
  <1>2. UNCHANGED <<accounts, servers, perms, members, accRoles, channels, chanMembers,
                    mAccounts, mServers, mServerAccts, mServerChans, mChannels, mMembers,
                    up, config, settled>>
    BY DEF CreateRoleForServer
  <1>3. s \in Servers /\ Head(todo).s = s
    BY <1>1, Constants, CallArguments DEF TypeOK
  <1>4. CASE RoleExists(s)
    <2>1. Owed' = Rest /\ todo' \in Seq(Owed') /\ StackInv'
      BY <1>1, <1>2, <1>4, Returned DEF RoleExists
    <2>2. StepSucceeds /\ s \in roles /\ roles' = roles /\ mRoles' = mRoles \cup {s}
      BY <1>4 DEF RoleExists, StatementSucceeds, StepSucceeds, counters
    <2>3. TypeOK'
      BY <1>2, <1>3, <2>1, <2>2 DEF TypeOK, Owed, StepSucceeds
    <2> QED
      BY <1>1, <1>2, <2>1, <2>2, <2>3
  <1>5. CASE /\ s \notin roles /\ StatementSucceeds
             /\ roles' = roles \cup {s} /\ mRoles' = mRoles \cup {s}
             /\ Then(<<PermissionCall(s)>>
                     \o LET accts == SetToSeq(mServerAccts[s])
                        IN  [i \in DOMAIN accts |-> AssignCall(accts[i], s)])
    <2> DEFINE N == mServerAccts[s]
               list == SetToSeq(N)
               p == PermissionCall(s)
               assigns == [i \in DOMAIN list |-> AssignCall(list[i], s)]
               calls == <<p>> \o assigns
               S == {p} \cup ToSet(assigns)
    <2>1. N \in SUBSET Users /\ IsFiniteSet(N)
      BY <1>3 DEF TypeOK, BackedInv
    <2>2. list \in Seq(Users) /\ ToSet(list) = N
      <3>1. list \in Seq(N) /\ ToSet(list) = N
        BY <2>1, SetListed
      <3> QED
        BY <2>1, <3>1
    <2>3. /\ ToSet(assigns) = {AssignCall(n, s) : n \in N}
          /\ assigns \in Seq(ToSet(assigns)) /\ Ordered(assigns)
      <3> HIDE DEF list
      <3>1. /\ ToSet(assigns) = {AssignCall(n, s) : n \in ToSet(list)}
            /\ assigns \in Seq(ToSet(assigns)) /\ Ordered(assigns)
        BY <2>2, AssignCalls
      <3> QED
        BY <2>2, <3>1
    <2>4. \A x \in S : PreloadCall(x) /\ Rank(x) = 0
      <3>1. PreloadCall(p) /\ Rank(p) = 0
        BY <1>1, CallOps, Ranks DEF PreloadCall
      <3>2. ASSUME NEW n \in N
            PROVE  PreloadCall(AssignCall(n, s)) /\ Rank(AssignCall(n, s)) = 0
        BY <1>1, <2>1, CallOps, Ranks DEF PreloadCall
      <3> HIDE DEF p, assigns, N
      <3> QED
        BY <2>3, <3>1, <3>2
    <2>5. ToSet(calls) = S /\ calls \in Seq(S) /\ Ordered(calls)
      <3>1. ToSet(<<p>>) = {p} /\ Ordered(<<p>>) /\ <<p>> \in Seq(S) /\ assigns \in Seq(S)
        <4> HIDE DEF p, assigns
        <4> QED
          BY <2>3, Single
      <3>2. \A x \in ToSet(<<p>>), y \in ToSet(assigns) : Above(x, y)
        <4> HIDE DEF p, assigns
        <4> QED
          BY <2>4, <3>1, AboveIf
      <3> HIDE DEF p, assigns, S
      <3> DEFINE one == <<p>>
      <3>3. calls = one \o assigns /\ calls \in Seq(S) /\ one \in Seq(S)
        BY <3>1
      <3>4. ToSet(one) = {p} /\ Ordered(one) /\ \A x \in ToSet(one), y \in ToSet(assigns) : Above(x, y)
        BY <3>1, <3>2
      <3> HIDE DEF one, calls
      <3>5. ToSet(calls) = ToSet(one) \cup ToSet(assigns)
        BY <3>1, <3>3, ConcatElements
      <3>6. Ordered(calls)
        BY <2>3, <3>1, <3>3, <3>4, ConcatOrdered
      <3> QED
        BY <3>3, <3>4, <3>5, <3>6 DEF S
    <2>6. Owed' = S \cup Rest /\ todo' \in Seq(Owed') /\ StackInv'
      <3>1. Then(calls)
        BY <1>5
      <3> HIDE DEF calls, S
      <3> QED
        BY <1>1, <1>2, <2>4, <2>5, <3>1, LeavesList
    <2>7. Owed' = {PermissionCall(s)} \cup {AssignCall(n, s) : n \in N} \cup Rest
      BY <2>3, <2>6
    <2>8. StepSucceeds
      BY <1>5 DEF StatementSucceeds, StepSucceeds, counters
    <2>9. TypeOK'
      <3> HIDE DEF S
      <3> QED
        BY <1>2, <1>3, <1>5, <2>6, <2>8 DEF TypeOK, Owed, StepSucceeds
    <2> QED
      <3> HIDE DEF S, N
      <3> QED
        BY <1>1, <1>2, <1>5, <2>1, <2>6, <2>7, <2>8, <2>9
  <1>6. CASE /\ StatementFails /\ Return /\ UNCHANGED mRoles
             /\ roles' = roles \/ (s \notin roles /\ roles' = roles \cup {s})
    <2>1. Owed' = Rest /\ todo' \in Seq(Owed') /\ StackInv'
      BY <1>1, <1>2, <1>6, Returned
    <2>2. StepFails
      BY <1>6 DEF StatementFails, StepFails
    <2>3. TypeOK'
      BY <1>2, <1>3, <1>6, <2>1, <2>2 DEF TypeOK, Owed, StepFails
    <2> QED
      BY <1>1, <1>2, <1>6, <2>1, <2>2, <2>3
  <1> QED
    BY <1>3, <1>4, <1>5, <1>6 DEF CreateRoleForServer, RoleCreated

\* Its permission.
LEMMA PermissionEffect ==
    ASSUME TypeOK, StackInv, PermissionGetOrCreate
    PROVE  /\ TypeOK' /\ StackInv' /\ up /\ config # NoFile
           /\ \E s \in ConfiguredServers(config) :
                  /\ Owed = {PermissionCall(s)} \cup Rest /\ Owed' = Rest
                  /\ \/ StepSucceeds /\ perms' = perms \cup {s}
                     \/ StepFails /\ perms' = perms
           /\ UNCHANGED <<accounts, servers, roles, members, accRoles, channels, chanMembers,
                          memory, up, config, settled>>
  <1>1. PICK s \in ConfiguredServers(config) :
            /\ up /\ todo # << >> /\ Head(todo) = PermissionCall(s) /\ config # NoFile
            /\ Owed = {PermissionCall(s)} \cup Rest
    <2>1. Calling("permission")
      BY DEF PermissionGetOrCreate
    <2>2. /\ up /\ todo # << >> /\ Head(todo).op = "permission" /\ Kind(Head(todo))
          /\ Owed = {Head(todo)} \cup Rest
      BY <2>1, OnTop
    <2> QED
      BY <2>2 DEF Kind
  <1>2. UNCHANGED <<accounts, servers, roles, members, accRoles, channels, chanMembers,
                    memory, up, config, settled>> /\ Return
    BY DEF PermissionGetOrCreate
  <1>3. s \in Servers /\ Head(todo).s = s
    BY <1>1, Constants, CallArguments DEF TypeOK
  <1>4. Owed' = Rest /\ todo' \in Seq(Owed') /\ StackInv'
    BY <1>1, <1>2, Returned
  <1>5. \/ StepSucceeds /\ perms' = perms \cup {s}
        \/ StepFails /\ perms' = perms
    BY <1>3 DEF PermissionGetOrCreate, StatementSucceeds, StatementFails, StepSucceeds, StepFails, counters
  <1>6. TypeOK'
    BY <1>2, <1>3, <1>4, <1>5 DEF TypeOK, Owed, StepSucceeds, StepFails, memory
  <1> QED
    BY <1>1, <1>2, <1>4, <1>5, <1>6

\* The role of a member.
LEMMA AssignEffect ==
    ASSUME TypeOK, StackInv, AssignRole
    PROVE  /\ TypeOK' /\ StackInv' /\ up /\ config # NoFile
           /\ \E n \in Users, s \in ConfiguredServers(config) :
                  /\ Owed = {AssignCall(n, s)} \cup Rest /\ Owed' = Rest
                  /\ \/ StepSucceeds /\ accRoles' = accRoles \cup {<<n, s>>}
                     \/ StepFails /\ accRoles' = accRoles
           /\ UNCHANGED <<accounts, servers, roles, perms, members, channels, chanMembers,
                          memory, up, config, settled>>
  <1>1. PICK n \in Users, s \in ConfiguredServers(config) :
            /\ up /\ todo # << >> /\ Head(todo) = AssignCall(n, s) /\ config # NoFile
            /\ Owed = {AssignCall(n, s)} \cup Rest
    <2>1. Calling("assign")
      BY DEF AssignRole
    <2>2. /\ up /\ todo # << >> /\ Head(todo).op = "assign" /\ Kind(Head(todo))
          /\ Owed = {Head(todo)} \cup Rest
      BY <2>1, OnTop
    <2> QED
      BY <2>2 DEF Kind
  <1>2. UNCHANGED <<accounts, servers, roles, perms, members, channels, chanMembers,
                    memory, up, config, settled>> /\ Return
    BY DEF AssignRole
  <1>3. s \in Servers /\ n \in Users /\ Head(todo).s = s /\ Head(todo).n = n
    <2>1. s \in Servers
      BY <1>1, Constants DEF TypeOK
    <2> QED
      BY <1>1, <2>1 DEF AssignCall, JoinCall
  <1>4. Owed' = Rest /\ todo' \in Seq(Owed') /\ StackInv'
    BY <1>1, <1>2, Returned
  <1>5. \/ StepSucceeds /\ accRoles' = accRoles \cup {<<n, s>>}
        \/ StepFails /\ accRoles' = accRoles
    BY <1>3 DEF AssignRole, StatementSucceeds, StatementFails, StepSucceeds, StepFails, counters
  <1>6. TypeOK'
    <2>1. accRoles' \subseteq Users \X Servers
      BY <1>3, <1>5 DEF TypeOK
    <2> QED
      BY <1>2, <1>4, <1>5, <2>1 DEF TypeOK, Owed, StepSucceeds, StepFails, memory
  <1> QED
    BY <1>1, <1>2, <1>4, <1>5, <1>6

\* A member of a server.
LEMMA JoinEffect ==
    ASSUME TypeOK, StackInv, ServerAddMember
    PROVE  /\ TypeOK' /\ StackInv' /\ up /\ config # NoFile
           /\ \E n \in Users, s \in ConfiguredServers(config) :
                  /\ Owed = {JoinCall(n, s)} \cup Rest
                  /\ \A y \in Rest : Rank(y) >= 1
                  /\ \/ /\ StepSucceeds /\ members' = members \cup {<<n, s>>}
                        /\ \/ (<<n, s>> \in members \/ s \notin mRoles) /\ Owed' = Rest
                           \/ /\ <<n, s>> \notin members /\ s \in mRoles
                              /\ Owed' = {AssignCall(n, s)} \cup Rest
                     \/ StepFails /\ members' = members /\ Owed' = Rest
                  /\ mServerAccts' = [mServerAccts EXCEPT ![s] = @ \cup {n}]
           /\ UNCHANGED <<accounts, servers, roles, perms, accRoles, channels, chanMembers,
                          mAccounts, mServers, mRoles, mServerChans, mChannels, mMembers,
                          up, config, settled>>
  <1>1. PICK n \in Users, s \in ConfiguredServers(config) :
            /\ up /\ todo # << >> /\ Head(todo) = JoinCall(n, s) /\ config # NoFile
            /\ Owed = {JoinCall(n, s)} \cup Rest /\ Rank(Head(todo)) = 1
            /\ \A y \in Rest : Rank(y) >= 1
    <2>1. Calling("join")
      BY DEF ServerAddMember
    <2>2. /\ up /\ todo # << >> /\ Head(todo).op = "join" /\ Kind(Head(todo))
          /\ Owed = {Head(todo)} \cup Rest
          /\ \A y \in Rest : Rank(Head(todo)) <= Rank(y) /\ Rank(y) \in 0 .. 7
      BY <2>1, OnTop
    <2> QED
      BY <2>2, Ranks DEF Kind
  <1>2. UNCHANGED <<accounts, servers, roles, perms, accRoles, channels, chanMembers,
                    mAccounts, mServers, mRoles, mServerChans, mChannels, mMembers,
                    up, config, settled>>
    BY DEF ServerAddMember
  <1>3. s \in Servers /\ n \in Users /\ Head(todo).s = s /\ Head(todo).n = n
    <2>1. s \in Servers
      BY <1>1, Constants DEF TypeOK
    <2> QED
      BY <1>1, <2>1 DEF AssignCall, JoinCall
  <1>4. mServerAccts' = [mServerAccts EXCEPT ![s] = @ \cup {n}]
    BY <1>3 DEF ServerAddMember
  <1>5. mServerAccts' \in [Servers -> SUBSET Users]
    BY <1>1, <1>3, <1>4 DEF TypeOK
  <1>6. CASE StatementSucceeds /\ members' = members \cup {<<n, s>>} /\ Return
             /\ (<<n, s>> \in members \/ s \notin mRoles)
    <2>1. Owed' = Rest /\ todo' \in Seq(Owed') /\ StackInv'
      BY <1>1, <1>2, <1>6, Returned
    <2>2. StepSucceeds
      BY <1>6 DEF StatementSucceeds, StepSucceeds, counters
    <2>3. TypeOK'
      BY <1>1, <1>2, <1>3, <1>5, <1>6, <2>1, <2>2 DEF TypeOK, Owed, StepSucceeds
    <2> QED
      BY <1>1, <1>2, <1>4, <1>6, <2>1, <2>2, <2>3
  <1>7. CASE /\ StatementSucceeds /\ members' = members \cup {<<n, s>>}
             /\ <<n, s>> \notin members /\ s \in mRoles /\ Then(<<AssignCall(n, s)>>)
    <2>1. PreloadCall(AssignCall(n, s)) /\ Rank(AssignCall(n, s)) = 0
      BY <1>1, CallOps, Ranks DEF PreloadCall
    <2>2. Owed' = {AssignCall(n, s)} \cup Rest /\ todo' \in Seq(Owed') /\ StackInv'
      BY <1>1, <1>2, <1>7, <2>1, LeavesOne
    <2>3. StepSucceeds
      BY <1>7 DEF StatementSucceeds, StepSucceeds, counters
    <2>4. TypeOK'
      BY <1>1, <1>2, <1>3, <1>5, <1>7, <2>2, <2>3 DEF TypeOK, Owed, StepSucceeds
    <2> QED
      BY <1>1, <1>2, <1>4, <1>7, <2>2, <2>3, <2>4
  <1>8. CASE StatementFails /\ Return /\ UNCHANGED members
    <2>1. Owed' = Rest /\ todo' \in Seq(Owed') /\ StackInv'
      BY <1>1, <1>2, <1>8, Returned
    <2>2. StepFails
      BY <1>8 DEF StatementFails, StepFails
    <2>3. TypeOK'
      BY <1>2, <1>5, <1>8, <2>1, <2>2 DEF TypeOK, Owed, StepFails
    <2> QED
      BY <1>1, <1>2, <1>4, <1>8, <2>1, <2>2, <2>3
  <1> QED
    BY <1>3, <1>6, <1>7, <1>8 DEF ServerAddMember, NewMemberCalls, Return

\* The members a server has already.
LEMMA ServerMembersEffect ==
    ASSUME TypeOK, StackInv, LoadServerMembers
    PROVE  /\ TypeOK' /\ StackInv' /\ up /\ config # NoFile
           /\ \E s \in ConfiguredServers(config) :
                  /\ Owed = {ServerMembersCall(s)} \cup Rest /\ Owed' = Rest
                  /\ \/ StepSucceeds /\ \E N \in SUBSET mAccounts :
                            mServerAccts' = [mServerAccts EXCEPT ![s] = @ \cup N]
                     \/ StepFails /\ mServerAccts' = mServerAccts
           /\ UNCHANGED <<tables, mAccounts, mServers, mRoles, mServerChans, mChannels, mMembers,
                          up, config, settled>>
  <1>1. PICK s \in ConfiguredServers(config) :
            /\ up /\ todo # << >> /\ Head(todo) = ServerMembersCall(s) /\ config # NoFile
            /\ Owed = {ServerMembersCall(s)} \cup Rest
    <2>1. Calling("serverMembers")
      BY DEF LoadServerMembers
    <2>2. /\ up /\ todo # << >> /\ Head(todo).op = "serverMembers" /\ Kind(Head(todo))
          /\ Owed = {Head(todo)} \cup Rest
      BY <2>1, OnTop
    <2> QED
      BY <2>2 DEF Kind
  <1>2. UNCHANGED <<tables, mAccounts, mServers, mRoles, mServerChans, mChannels, mMembers,
                    up, config, settled>> /\ Return
    BY DEF LoadServerMembers
  <1>3. s \in Servers /\ Head(todo).s = s
    BY <1>1, Constants, CallArguments DEF TypeOK
  <1>4. Owed' = Rest /\ todo' \in Seq(Owed') /\ StackInv'
    BY <1>1, <1>2, Returned
  <1>5. \/ StepSucceeds /\ \E N \in SUBSET mAccounts :
                mServerAccts' = [mServerAccts EXCEPT ![s] = @ \cup N]
        \/ StepFails /\ mServerAccts' = mServerAccts
    <2>1. {n \in mAccounts : <<n, s>> \in members} \in SUBSET mAccounts
      OBVIOUS
    <2>2. \/ /\ StatementSucceeds
             /\ mServerAccts' = [mServerAccts EXCEPT ![s] =
                                    @ \cup {n \in mAccounts : <<n, s>> \in members}]
          \/ StatementFails /\ mServerAccts' = mServerAccts
      BY <1>3 DEF LoadServerMembers
    <2> QED
      BY <2>1, <2>2 DEF StatementSucceeds, StatementFails, StepSucceeds, StepFails, counters
  <1>6. mServerAccts' \in [Servers -> SUBSET Users]
    <2>1. mServerAccts \in [Servers -> SUBSET Users] /\ mAccounts \subseteq Users
      BY DEF TypeOK
    <2>2. ASSUME NEW N \in SUBSET mAccounts
          PROVE  [mServerAccts EXCEPT ![s] = @ \cup N] \in [Servers -> SUBSET Users]
      BY <1>3, <2>1
    <2> QED
      BY <1>5, <2>1, <2>2
  <1>7. TypeOK'
    BY <1>2, <1>4, <1>5, <1>6 DEF TypeOK, Owed, StepSucceeds, StepFails, tables
  <1> QED
    BY <1>1, <1>2, <1>4, <1>5, <1>7

\* A user, and the server the user is put on.
LEMMA UserEffect ==
    ASSUME TypeOK, StackInv, BackedInv, PreloadUser
    PROVE  /\ TypeOK' /\ StackInv' /\ up /\ config # NoFile
           /\ \E u \in ToSet(config.users) :
                  /\ Owed = {UserCall(u)} \cup Rest
                  /\ \A y \in Rest : Rank(y) >= 3
                  /\ \/ /\ StepSucceeds /\ AccountGetOrCreate(u.name)
                        /\ \/ /\ u.server \in mServers
                              /\ Owed' = {JoinCall(u.name, u.server)} \cup Rest
                           \/ u.server \notin mServers /\ Owed' = Rest
                     \/ StepFails /\ Owed' = Rest /\ UNCHANGED <<accounts, mAccounts>>
           /\ UNCHANGED <<servers, roles, perms, members, accRoles, channels, chanMembers,
                          mServers, mRoles, mServerAccts, mServerChans, mChannels, mMembers,
                          up, config, settled>>
  <1>1. PICK u \in ToSet(config.users) :
            /\ up /\ todo # << >> /\ Head(todo) = UserCall(u) /\ config # NoFile
            /\ Owed = {UserCall(u)} \cup Rest /\ Rank(Head(todo)) = 3
            /\ \A y \in Rest : Rank(y) >= 3
    <2>1. Calling("user")
      BY DEF PreloadUser
    <2>2. /\ up /\ todo # << >> /\ Head(todo).op = "user" /\ Kind(Head(todo))
          /\ Owed = {Head(todo)} \cup Rest
          /\ \A y \in Rest : Rank(Head(todo)) <= Rank(y) /\ Rank(y) \in 0 .. 7
      BY <2>1, OnTop
    <2> QED
      BY <2>2, Ranks DEF Kind
  <1>2. UNCHANGED <<servers, roles, perms, members, accRoles, channels, chanMembers,
                    mServers, mRoles, mServerAccts, mServerChans, mChannels, mMembers,
                    up, config, settled>>
    BY DEF PreloadUser
  <1>3. /\ u.name \in Users /\ u.server \in Servers
        /\ Head(todo).n = u.name /\ Head(todo).s = u.server
    <2>1. u.name \in Users /\ u.server \in Servers
      BY <1>1, Constants DEF TypeOK
    <2> QED
      BY <1>1, <2>1 DEF UserCall
  <1>4. ASSUME AccountGetOrCreate(u.name)
        PROVE  accounts' \in Seq(Users) /\ mAccounts' \subseteq Users
    BY <1>3, <1>4 DEF AccountGetOrCreate, TypeOK
  <1>5. CASE StatementSucceeds /\ AccountGetOrCreate(u.name) /\ u.server \in mServers
             /\ Then(<<JoinCall(u.name, u.server)>>)
    <2> DEFINE x == JoinCall(u.name, u.server)
    <2>1. PreloadCall(x) /\ Rank(x) = 1
      <3>1. u.server \in ConfiguredServers(config)
        BY <1>5 DEF BackedInv
      <3>2. PreloadCall(x)
        BY <1>3, <3>1 DEF PreloadCall
      <3> QED
        BY <3>2, CallOps, Ranks
    <2>2. Owed' = {x} \cup Rest /\ todo' \in Seq(Owed') /\ StackInv'
      <3>1. Then(<<x>>)
        BY <1>5
      <3> HIDE DEF x
      <3> QED
        BY <1>1, <1>2, <2>1, <3>1, LeavesOne
    <2>3. StepSucceeds
      BY <1>5 DEF StatementSucceeds, StepSucceeds, counters
    <2>4. TypeOK'
      BY <1>2, <1>4, <1>5, <2>2, <2>3 DEF TypeOK, Owed, StepSucceeds
    <2> QED
      BY <1>1, <1>2, <1>5, <2>2, <2>3, <2>4
  <1>6. CASE StatementSucceeds /\ AccountGetOrCreate(u.name) /\ u.server \notin mServers /\ Return
    <2>1. Owed' = Rest /\ todo' \in Seq(Owed') /\ StackInv'
      BY <1>1, <1>2, <1>6, Returned
    <2>2. StepSucceeds
      BY <1>6 DEF StatementSucceeds, StepSucceeds, counters
    <2>3. TypeOK'
      BY <1>2, <1>4, <1>6, <2>1, <2>2 DEF TypeOK, Owed, StepSucceeds
    <2> QED
      BY <1>1, <1>2, <1>6, <2>1, <2>2, <2>3
  <1>7. CASE StatementFails /\ Return /\ UNCHANGED <<accounts, mAccounts>>
    <2>1. Owed' = Rest /\ todo' \in Seq(Owed') /\ StackInv'
      BY <1>1, <1>2, <1>7, Returned
    <2>2. StepFails
      BY <1>7 DEF StatementFails, StepFails
    <2>3. TypeOK'
      BY <1>2, <1>7, <2>1, <2>2 DEF TypeOK, Owed, StepFails
    <2> QED
      BY <1>1, <1>2, <1>7, <2>1, <2>2, <2>3
  <1> QED
    BY <1>3, <1>5, <1>6, <1>7 DEF PreloadUser, Return

\* A channel, and who is put into it.
LEMMA ChannelEffect ==
    ASSUME TypeOK, StackInv, PreloadChannel
    PROVE  /\ TypeOK' /\ StackInv' /\ up /\ config # NoFile
           /\ \E c \in ToSet(config.channels) :
                  /\ Owed = {ChannelCall(c)} \cup Rest
                  /\ \A y \in Rest : Rank(y) >= 4
                  /\ \/ /\ StepSucceeds
                        /\ ChannelFound(c.name) \/ c.server \in mServers
                        /\ channels' = IF ChannelFound(c.name) THEN channels
                                       ELSE Append(channels, [name |-> c.name, server |-> c.server])
                        /\ mChannels' = mChannels \cup {c.name}
                        /\ Owed' = {MemberCall(c.name, c.server, n) : n \in ToSet(c.members)} \cup Rest
                     \/ /\ StepSucceeds /\ ~ChannelFound(c.name) /\ c.server \notin mServers
                        /\ Owed' = Rest /\ UNCHANGED <<channels, mChannels>>
                     \/ StepFails /\ Owed' = Rest /\ UNCHANGED <<channels, mChannels>>
           /\ UNCHANGED <<accounts, servers, roles, perms, members, accRoles, chanMembers,
                          mAccounts, mServers, mRoles, mServerAccts, mMembers, up, config, settled>>
  <1>1. PICK c \in ToSet(config.channels) :
            /\ up /\ todo # << >> /\ Head(todo) = ChannelCall(c) /\ config # NoFile
            /\ Owed = {ChannelCall(c)} \cup Rest /\ Rank(Head(todo)) = 4
            /\ \A y \in Rest : Rank(y) >= 4
    <2>1. Calling("channel")
      BY DEF PreloadChannel
    <2>2. /\ up /\ todo # << >> /\ Head(todo).op = "channel" /\ Kind(Head(todo))
          /\ Owed = {Head(todo)} \cup Rest
          /\ \A y \in Rest : Rank(Head(todo)) <= Rank(y) /\ Rank(y) \in 0 .. 7
      BY <2>1, OnTop
    <2> QED
      BY <2>2, Ranks DEF Kind
  <1>2. UNCHANGED <<accounts, servers, roles, perms, members, accRoles, chanMembers,
                    mAccounts, mServers, mRoles, mServerAccts, mMembers, up, config, settled>>
    BY DEF PreloadChannel
  <1>3. /\ c.name \in Chans /\ c.server \in Servers /\ c.members \in Seq(Users)
        /\ Head(todo).c = c.name /\ Head(todo).s = c.server
    <2>1. c.name \in Chans /\ c.server \in Servers /\ c.members \in Seq(Users)
      BY <1>1, Constants DEF TypeOK
    <2> QED
      BY <1>1, <2>1 DEF ChannelCall
  <1>4. CASE /\ StatementSucceeds
             /\ ChannelFound(c.name) \/ c.server \in mServers
             /\ channels' = IF ChannelFound(c.name) THEN channels
                            ELSE Append(channels, [name |-> c.name, server |-> c.server])
             /\ mChannels' = mChannels \cup {c.name}
             /\ mServerChans' = IF c.server \in mServers
                                THEN [mServerChans EXCEPT ![c.server] = @ \cup {c.name}]
                                ELSE mServerChans
             /\ Then(MemberCalls(Head(todo)))
    <2> DEFINE calls == MemberCalls(ChannelCall(c))
    <2>1. /\ ToSet(calls) = {MemberCall(c.name, c.server, n) : n \in ToSet(c.members)}
          /\ calls \in Seq(ToSet(calls)) /\ Ordered(calls) /\ Then(calls)
      <3>1. Then(calls)
        BY <1>1, <1>4
      <3>2. calls = MemberCalls(ChannelCall(c))
        OBVIOUS
      <3> HIDE DEF calls
      <3> QED
        BY <1>3, <3>1, <3>2, MemberCallsMade
    <2>2. \A x \in ToSet(calls) : PreloadCall(x) /\ Rank(x) = 4
      <3>1. ToSet(c.members) \subseteq Users
        BY <1>3, ElementsOf
      <3>2. ASSUME NEW n \in ToSet(c.members)
            PROVE  PreloadCall(MemberCall(c.name, c.server, n)) /\ Rank(MemberCall(c.name, c.server, n)) = 4
        BY <1>3, <3>1, CallOps, Ranks DEF PreloadCall
      <3> HIDE DEF calls
      <3> QED
        BY <2>1, <3>2
    <2>3. Owed' = ToSet(calls) \cup Rest /\ todo' \in Seq(Owed') /\ StackInv'
      <3> HIDE DEF calls
      <3> QED
        BY <1>1, <1>2, <2>1, <2>2, LeavesList
    <2>4. StepSucceeds
      BY <1>4 DEF StatementSucceeds, StepSucceeds, counters
    <2>5. channels' \in Seq([name : Chans, server : Servers])
      <3> DEFINE S == [name : Chans, server : Servers]
                 row == [name |-> c.name, server |-> c.server]
      <3>1. row \in S /\ channels \in Seq(S)
        BY <1>3 DEF TypeOK
      <3>2. channels' = channels \/ channels' = Append(channels, row)
        BY <1>4
      <3> HIDE DEF S, row
      <3>3. channels' \in Seq(S)
        BY <3>1, <3>2
      <3> QED
        BY <3>3 DEF S
    <2>6. mServerChans' \in [Servers -> SUBSET Chans]
      BY <1>3, <1>4 DEF TypeOK
    <2>7. TypeOK'
      <3> HIDE DEF calls
      <3> QED
        BY <1>2, <1>3, <1>4, <2>3, <2>4, <2>5, <2>6 DEF TypeOK, Owed, StepSucceeds
    <2>8. Owed' = {MemberCall(c.name, c.server, n) : n \in ToSet(c.members)} \cup Rest
      BY <2>1, <2>3
    <2> QED
      BY <1>1, <1>2, <1>4, <2>3, <2>4, <2>7, <2>8
  <1>5. CASE /\ StatementSucceeds /\ ~ChannelFound(c.name) /\ c.server \notin mServers
             /\ Return /\ UNCHANGED <<channels, mChannels, mServerChans>>
    <2>1. Owed' = Rest /\ todo' \in Seq(Owed') /\ StackInv'
      BY <1>1, <1>2, <1>5, Returned
    <2>2. StepSucceeds
      BY <1>5 DEF StatementSucceeds, StepSucceeds, counters
    <2>3. TypeOK'
      BY <1>2, <1>5, <2>1, <2>2 DEF TypeOK, Owed, StepSucceeds
    <2> QED
      BY <1>1, <1>2, <1>5, <2>1, <2>2, <2>3
  <1>6. CASE StatementFails /\ Return /\ UNCHANGED <<channels, mChannels, mServerChans>>
    <2>1. Owed' = Rest /\ todo' \in Seq(Owed') /\ StackInv'
      BY <1>1, <1>2, <1>6, Returned
    <2>2. StepFails
      BY <1>6 DEF StatementFails, StepFails
    <2>3. TypeOK'
      BY <1>2, <1>6, <2>1, <2>2 DEF TypeOK, Owed, StepFails
    <2> QED
      BY <1>1, <1>2, <1>6, <2>1, <2>2, <2>3
  <1> QED
    BY <1>3, <1>4, <1>5, <1>6 DEF PreloadChannel

\* A member of a channel.
LEMMA MemberEffect ==
    ASSUME TypeOK, StackInv, PreloadMember
    PROVE  /\ TypeOK' /\ StackInv' /\ up /\ config # NoFile
           /\ \E c \in Chans, s \in Servers, n \in Users :
                  /\ Owed = {MemberCall(c, s, n)} \cup Rest /\ Owed' = Rest
                  /\ \A y \in Rest : Rank(y) >= 4
                  /\ \/ n \notin mAccounts /\ StepSucceeds /\ chanMembers' = chanMembers
                     \/ n \in mAccounts /\ StepSucceeds /\ chanMembers' = chanMembers \cup {<<n, c>>}
                     \/ StepFails /\ chanMembers' = chanMembers
                  /\ mServerAccts' \in {mServerAccts, [mServerAccts EXCEPT ![s] = @ \cup {n}]}
           /\ UNCHANGED <<accounts, servers, roles, perms, members, accRoles, channels,
                          mAccounts, mServers, mRoles, mServerChans, mChannels, mMembers,
                          up, config, settled>>
  <1>1. PICK c \in Chans, s \in Servers, n \in Users :
            /\ up /\ todo # << >> /\ Head(todo) = MemberCall(c, s, n) /\ config # NoFile
            /\ Owed = {MemberCall(c, s, n)} \cup Rest
            /\ \A y \in Rest : Rank(y) >= 4
    <2>1. Calling("member")
      BY DEF PreloadMember
    <2>2. /\ up /\ todo # << >> /\ Head(todo).op = "member" /\ Kind(Head(todo))
          /\ Owed = {Head(todo)} \cup Rest
          /\ \A y \in Rest : Rank(Head(todo)) <= Rank(y) /\ Rank(y) \in 0 .. 7
      BY <2>1, OnTop
    <2> QED
      BY <2>2, Ranks DEF Kind
  <1>2. UNCHANGED <<accounts, servers, roles, perms, members, accRoles, channels,
                    mAccounts, mServers, mRoles, mServerChans, mChannels, mMembers,
                    up, config, settled>> /\ Return
    BY DEF PreloadMember
  <1>3. Head(todo).c = c /\ Head(todo).s = s /\ Head(todo).n = n
    BY <1>1 DEF MemberCall
  <1>4. Owed' = Rest /\ todo' \in Seq(Owed') /\ StackInv'
    BY <1>1, <1>2, Returned
  <1>5. /\ \/ n \notin mAccounts /\ StepSucceeds /\ chanMembers' = chanMembers
           \/ n \in mAccounts /\ StepSucceeds /\ chanMembers' = chanMembers \cup {<<n, c>>}
           \/ StepFails /\ chanMembers' = chanMembers
        /\ mServerAccts' \in {mServerAccts, [mServerAccts EXCEPT ![s] = @ \cup {n}]}
    BY <1>3 DEF PreloadMember, StatementSucceeds, StatementFails, StepSucceeds, StepFails, counters
  <1>6. chanMembers' \subseteq Users \X Chans
    BY <1>1, <1>5 DEF TypeOK
  <1>7. mServerAccts' \in [Servers -> SUBSET Users]
    <2>1. mServerAccts \in [Servers -> SUBSET Users]
      BY DEF TypeOK
    <2>2. [mServerAccts EXCEPT ![s] = @ \cup {n}] \in [Servers -> SUBSET Users]
      BY <1>1, <2>1
    <2> QED
      BY <1>5, <2>1, <2>2
  <1>8. TypeOK'
    BY <1>2, <1>4, <1>5, <1>6, <1>7 DEF TypeOK, Owed, StepSucceeds, StepFails
  <1> QED
    BY <1>1, <1>2, <1>4, <1>5, <1>8

-----------------------------------------------------------------------------
(* Pages                                                                     *)

LEMMA MinOfTwo ==
    ASSUME NEW a \in Nat, NEW b \in Nat
    PROVE  Min({a, b}) = IF a <= b THEN a ELSE b
  <1> DEFINE m == IF a <= b THEN a ELSE b
  <1>1. m \in {a, b} /\ \A y \in {a, b} : m <= y
    OBVIOUS
  <1>2. \A x \in {a, b} : (\A y \in {a, b} : x <= y) => x = m
    OBVIOUS
  <1> HIDE DEF m
  <1>3. (CHOOSE x \in {a, b} : \A y \in {a, b} : x <= y) = m
    BY <1>1, <1>2
  <1> QED
    BY <1>3 DEF Min, m

\* A page holds the rows after the offset; one that is not full is the last.
LEMMA PageRead ==
    ASSUME NEW S, NEW table \in Seq(S), NEW o \in Nat, o <= Len(table),
           NEW rows, rows = Page(table, o)
    PROVE  /\ rows \in Seq(S) /\ Len(rows) \in Nat /\ o + Len(rows) <= Len(table)
           /\ \A k \in 1 .. Len(rows) : rows[k] = table[o + k]
           /\ IF MorePages(rows) THEN Len(rows) = PageSize ELSE o + Len(rows) = Len(table)
  <1> DEFINE n == Len(table)
             m == Min({o + PageSize, n})
  <1>1. PageSize \in Nat \ {0} /\ n \in Nat /\ DOMAIN table = 1 .. n
    BY StartupAssumption
  <1>2. m = IF o + PageSize <= n THEN o + PageSize ELSE n
    BY <1>1, MinOfTwo
  <1>3. m \in Nat /\ o <= m /\ m <= n
    BY <1>1, <1>2
  <1>4. rows = SubSeq(table, o + 1, m)
    BY DEF Page
  <1> HIDE DEF m, n
  <1>5. rows = [i \in 1 .. m - o |-> table[o + i]] /\ rows \in Seq(S) /\ Len(rows) = m - o
    <2>1. rows = [i \in 1 .. (m - (o + 1) + 1) |-> table[i + (o + 1) - 1]]
      BY <1>1, <1>3, <1>4 DEF n
    <2>2. m - (o + 1) + 1 = m - o /\ \A i \in 1 .. m - o : i + (o + 1) - 1 = o + i
      BY <1>3
    <2>3. rows = [i \in 1 .. m - o |-> table[o + i]]
      BY <2>1, <2>2
    <2>4. \A i \in 1 .. m - o : o + i \in 1 .. n
      BY <1>1, <1>3
    <2>5. \A i \in 1 .. m - o : table[o + i] \in S
      BY <1>1, <2>4
    <2>6. m - o \in Nat
      BY <1>3
    <2> QED
      BY <2>3, <2>5, <2>6
  <1>6. \A k \in 1 .. Len(rows) : rows[k] = table[o + k]
    BY <1>5
  <1>7. Len(rows) \in Nat /\ o + Len(rows) = m
    BY <1>3, <1>5
  <1>8. IF MorePages(rows) THEN Len(rows) = PageSize ELSE o + Len(rows) = n
    BY <1>1, <1>2, <1>3, <1>5, <1>7 DEF MorePages
  <1> QED
    BY <1>3, <1>5, <1>6, <1>7, <1>8 DEF n

\* A page of accounts.
LEMMA AccountPageEffect ==
    ASSUME TypeOK, StackInv, BackedInv, PagesInv, LoadAccounts
    PROVE  /\ TypeOK' /\ StackInv' /\ up
           /\ \E o \in Nat :
                  /\ Owed = {AccountPage(o)} \cup Rest
                  /\ \A y \in Rest : Rank(y) = 7
                  /\ \/ /\ StepSucceeds
                        /\ \/ /\ Owed' = {AccountPage(o + PageSize)} \cup Rest
                              /\ \A k \in 1 .. o + PageSize :
                                     k \in DOMAIN accounts /\ accounts[k] \in mAccounts'
                           \/ Owed' = Rest /\ ToSet(accounts) \subseteq mAccounts'
                     \/ StepFails /\ Owed' = Rest /\ mAccounts' = mAccounts
           /\ mAccounts \subseteq mAccounts' /\ mAccounts' \subseteq ToSet(accounts)
           /\ UNCHANGED <<tables, mServers, mRoles, mServerAccts, mServerChans, mChannels, mMembers,
                          up, config, settled>>
  <1>1. PICK o \in Nat :
            /\ up /\ todo # << >> /\ Head(todo) = AccountPage(o)
            /\ Owed = {AccountPage(o)} \cup Rest /\ Rank(Head(todo)) = 7
            /\ \A y \in Rest : Rank(y) = 7
    <2>1. Calling("accountPage")
      BY DEF LoadAccounts
    <2>2. /\ up /\ todo # << >> /\ Head(todo).op = "accountPage" /\ Kind(Head(todo))
          /\ Owed = {Head(todo)} \cup Rest
          /\ \A y \in Rest : Rank(Head(todo)) <= Rank(y) /\ Rank(y) \in 0 .. 7
      BY <2>1, OnTop
    <2>3. Rank(Head(todo)) = 7
      BY <2>2, Ranks
    <2>4. \A y \in Rest : Rank(y) = 7
      BY <2>2, <2>3
    <2> QED
      BY <2>2, <2>3, <2>4 DEF Kind
  <1>2. UNCHANGED <<tables, mServers, mRoles, mServerAccts, mServerChans, mChannels, mMembers,
                    up, config, settled>>
    BY DEF LoadAccounts
  <1> DEFINE n == Len(accounts)
             rows == Page(accounts, o)
  <1>3. Head(todo).offset = o /\ AccountPage(o).op = "accountPage" /\ AccountPage(o).offset = o
    BY <1>1 DEF AccountPage
  <1>4. accounts \in Seq(Users) /\ n \in Nat /\ DOMAIN accounts = 1 .. n
    BY DEF TypeOK
  <1>5. \A k \in 1 .. o : k \in 1 .. n /\ accounts[k] \in mAccounts
    BY <1>1, <1>3, <1>4 DEF PagesInv
  <1>6. o <= n
    <2>1. CASE o = 0
      BY <1>4, <2>1
    <2>2. CASE o # 0
      <3>1. o \in 1 .. o
        BY <2>2
      <3>2. o \in 1 .. n
        BY <1>5, <3>1
      <3> QED
        BY <1>4, <3>2
    <2> QED
      BY <2>1, <2>2
  <1>7. /\ rows \in Seq(Users) /\ Len(rows) \in Nat /\ o + Len(rows) <= n
        /\ \A k \in 1 .. Len(rows) : rows[k] = accounts[o + k]
        /\ IF MorePages(rows) THEN Len(rows) = PageSize ELSE o + Len(rows) = n
    <2>1. rows = Page(accounts, o)
      OBVIOUS
    <2>2. accounts \in Seq(Users) /\ o <= Len(accounts)
      BY <1>4, <1>6
    <2> HIDE DEF rows
    <2>3. /\ rows \in Seq(Users) /\ Len(rows) \in Nat /\ o + Len(rows) <= Len(accounts)
          /\ \A k \in 1 .. Len(rows) : rows[k] = accounts[o + k]
          /\ IF MorePages(rows) THEN Len(rows) = PageSize ELSE o + Len(rows) = Len(accounts)
      BY ONLY <2>1, <2>2, PageRead
    <2> QED
      BY <2>3
  <1>8. \/ /\ StatementSucceeds /\ mAccounts' = mAccounts \cup ToSet(rows)
           /\ \/ MorePages(rows) /\ Then(<<AccountPage(o + PageSize)>>)
              \/ ~MorePages(rows) /\ Return
        \/ StatementFails /\ Return /\ UNCHANGED mAccounts
    <2>1. \/ /\ StatementSucceeds /\ mAccounts' = mAccounts \cup ToSet(rows)
             /\ Then(IF MorePages(rows) THEN <<AccountPage(NextOffset(o))>> ELSE << >>)
          \/ StatementFails /\ Return /\ UNCHANGED mAccounts
      BY <1>3 DEF LoadAccounts
    <2> HIDE DEF rows
    <2>2. CASE MorePages(rows)
      BY <2>1, <2>2 DEF NextOffset
    <2>3. CASE ~MorePages(rows)
      BY <2>1, <2>3 DEF Return
    <2> QED
      BY <2>2, <2>3
  <1>9. PageSize \in Nat \ {0} /\ o + PageSize \in Nat
    BY StartupAssumption
  <1> DEFINE p == Len(rows)
  <1> HIDE DEF rows, n, p
  <1>10. p \in Nat /\ n \in Nat /\ o + p <= n
    BY <1>4, <1>7 DEF p
  <1>11. DOMAIN accounts = 1 .. n /\ DOMAIN rows = 1 .. p /\ \A k \in 1 .. p : rows[k] = accounts[o + k]
    BY <1>4, <1>7 DEF p
  <1>12. ToSet(rows) \subseteq ToSet(accounts) /\ ToSet(rows) \subseteq Users
    <2>1. ToSet(rows) \subseteq Users
      BY <1>7, ElementsOf
    <2>2. ASSUME NEW x \in ToSet(rows)
          PROVE  x \in ToSet(accounts)
      <3>1. PICK k \in 1 .. p : x = rows[k]
        BY <1>11 DEF ToSet
      <3>2. o + k \in 1 .. n
        BY <1>10
      <3> QED
        BY <1>11, <3>1, <3>2 DEF ToSet
    <2> QED
      BY <2>1, <2>2
  <1>13. mAccounts \subseteq mAccounts' /\ mAccounts' \subseteq ToSet(accounts) /\ mAccounts' \subseteq Users
    BY <1>8, <1>12 DEF BackedInv, TypeOK
  <1>14. ASSUME mAccounts' = mAccounts \cup ToSet(rows)
         PROVE  \A k \in 1 .. o + p : k \in 1 .. n /\ accounts[k] \in mAccounts'
    <2> TAKE k \in 1 .. o + p
    <2>1. k \in 1 .. n
      BY <1>10
    <2>2. CASE k <= o
      <3>1. k \in 1 .. o
        BY <1>10, <2>2
      <3> QED
        BY <1>5, <1>13, <2>1, <3>1
    <2>3. CASE k > o
      <3>1. k - o \in 1 .. p /\ o + (k - o) = k
        BY <1>10, <2>3
      <3>2. accounts[k] = rows[k - o] /\ rows[k - o] \in ToSet(rows)
        BY <1>11, <3>1 DEF ToSet
      <3> QED
        BY <1>14, <2>1, <3>2
    <2> QED
      BY <1>10, <2>2, <2>3
  <1>15. CASE /\ StatementSucceeds /\ mAccounts' = mAccounts \cup ToSet(rows)
              /\ MorePages(rows) /\ Then(<<AccountPage(o + PageSize)>>)
    <2> DEFINE x == AccountPage(o + PageSize)
               calls == <<x>>
    <2>1. LoadCall(x) /\ Rank(x) = 7
      BY <1>9, CallOps, Ranks DEF LoadCall, AccountPage
    <2>2. \A y \in Rest : Above(x, y)
      BY <1>1, <2>1 DEF Above
    <2>3. Then(calls)
      BY <1>15
    <2> HIDE DEF x
    <2>4. ToSet(calls) = {x} /\ Ordered(calls) /\ calls \in Seq(ToSet(calls))
      BY Single
    <2>5. \A z \in ToSet(calls) : /\ LoadCall(z) /\ \A y \in Rest : Above(z, y)
                                  /\ Rank(z) <= 4 => Rank(Head(todo)) <= 4
      BY <2>1, <2>2, <2>4
    <2> HIDE DEF calls
    <2>6. Owed' = {x} \cup Rest /\ todo' \in Seq(Owed') /\ StackInv'
      BY <1>1, <1>2, <2>3, <2>4, <2>5, Replaced
    <2>7. StepSucceeds
      BY <1>15 DEF StatementSucceeds, StepSucceeds, counters
    <2>8. TypeOK'
      BY <1>2, <1>13, <2>6, <2>7 DEF TypeOK, Owed, StepSucceeds, tables
    <2>9. \A k \in 1 .. o + PageSize : k \in DOMAIN accounts /\ accounts[k] \in mAccounts'
      <3>1. p = PageSize
        BY <1>7, <1>15 DEF p
      <3> QED
        BY <1>14, <1>15, <1>11, <3>1
    <2> QED
      BY <1>1, <1>2, <1>13, <2>6, <2>7, <2>8, <2>9 DEF x
  <1>16. CASE /\ StatementSucceeds /\ mAccounts' = mAccounts \cup ToSet(rows)
              /\ ~MorePages(rows) /\ Return
    <2>1. Owed' = Rest /\ todo' \in Seq(Owed') /\ StackInv'
      BY <1>1, <1>2, <1>16, Returned
    <2>2. StepSucceeds
      BY <1>16 DEF StatementSucceeds, StepSucceeds, counters
    <2>3. TypeOK'
      BY <1>2, <1>13, <2>1, <2>2 DEF TypeOK, Owed, StepSucceeds, tables
    <2>4. ToSet(accounts) \subseteq mAccounts'
      <3>1. o + p = n
        BY <1>7, <1>16 DEF p
      <3>2. \A k \in 1 .. n : accounts[k] \in mAccounts'
        BY <1>14, <1>16, <3>1
      <3> QED
        BY <1>11, <3>2 DEF ToSet
    <2> QED
      BY <1>1, <1>2, <1>13, <2>1, <2>2, <2>3, <2>4
  <1>17. CASE StatementFails /\ Return /\ UNCHANGED mAccounts
    <2>1. Owed' = Rest /\ todo' \in Seq(Owed') /\ StackInv'
      BY <1>1, <1>2, <1>17, Returned
    <2>2. StepFails
      BY <1>17 DEF StatementFails, StepFails
    <2>3. TypeOK'
      BY <1>2, <1>13, <2>1, <2>2 DEF TypeOK, Owed, StepFails, tables
    <2> QED
      BY <1>1, <1>2, <1>13, <1>17, <2>1, <2>2, <2>3
  <1> QED
    BY <1>8, <1>15, <1>16, <1>17

\* The members of a channel.
LEMMA ChannelMembersEffect ==
    ASSUME TypeOK, StackInv, BackedInv, PagesInv, LoadChannelMembers
    PROVE  /\ TypeOK' /\ StackInv' /\ up
           /\ \E c \in Chans :
                  /\ Owed = {ChannelMembersCall(c)} \cup Rest
                  /\ Owed' = Rest /\ ChannelMembersCall(c) \notin Rest
                  /\ \A y \in Rest : Rank(y) \in {6, 7}
                  /\ \/ StepSucceeds /\ MembersListed(c)'
                     \/ StepFails /\ mMembers'[c] = mMembers[c]
                  /\ \A d \in Chans \ {c} : mMembers'[d] = mMembers[d]
           /\ mAccounts \subseteq mAccounts' /\ mAccounts' \subseteq ToSet(accounts)
           /\ UNCHANGED <<tables, mServers, mRoles, mServerAccts, mServerChans, mChannels,
                          up, config, settled>>
  <1>1. PICK c \in Chans :
            /\ up /\ todo # << >> /\ Head(todo) = ChannelMembersCall(c)
            /\ Owed = {ChannelMembersCall(c)} \cup Rest /\ Head(todo) \notin Rest
            /\ \A y \in Rest : Rank(y) \in {6, 7}
    <2>1. Calling("channelMembers")
      BY DEF LoadChannelMembers
    <2>2. /\ up /\ todo # << >> /\ Head(todo).op = "channelMembers" /\ Kind(Head(todo))
          /\ Owed = {Head(todo)} \cup Rest
          /\ \A y \in Rest : Rank(Head(todo)) <= Rank(y) /\ Rank(y) \in 0 .. 7
      BY <2>1, OnTop
    <2>3. Rank(Head(todo)) = 6
      BY <2>2, Ranks
    <2>4. \A y \in Rest : Rank(y) \in {6, 7}
      BY <2>2, <2>3
    <2>5. Head(todo) \notin Rest
      BY <2>2, <2>3, Top DEF Above
    <2> QED
      BY <2>2, <2>4, <2>5 DEF Kind
  <1>2. UNCHANGED <<tables, mServers, mRoles, mServerAccts, mServerChans, mChannels,
                    up, config, settled>> /\ Return
    BY DEF LoadChannelMembers
  <1> DEFINE found == {n \in ToSet(accounts) : <<n, c>> \in chanMembers}
             listed == {n \in Users : <<n, c>> \in chanMembers}
             list == SetToSeq(found)
  <1>3. Head(todo).c = c
    BY <1>1 DEF ChannelMembersCall
  <1>4. ToSet(accounts) \subseteq Users /\ IsFiniteSet(found) /\ found = listed
    <2>1. ToSet(accounts) \subseteq Users /\ IsFiniteSet(ToSet(accounts))
      BY ElementsOf, ListFinite DEF TypeOK
    <2>2. IsFiniteSet(found)
      BY <2>1, FS_Subset
    <2>3. listed \subseteq found
      BY DEF BackedInv
    <2> QED
      BY <2>1, <2>2, <2>3
  <1>5. list \in Seq(Users) /\ ToSet(list) = listed /\ Len(list) = Cardinality(listed)
    <2> HIDE DEF found, listed
    <2>1. list \in Seq(found) /\ ToSet(list) = found /\ Len(list) = Cardinality(found)
      BY <1>4, SetListed
    <2>2. found \subseteq Users
      BY <1>4 DEF found
    <2> QED
      BY <1>4, <2>1, <2>2
  <1>6. mMembers[c] = << >>
    BY <1>1 DEF PagesInv
  <1>7. Owed' = Rest /\ todo' \in Seq(Owed') /\ StackInv'
    BY <1>1, <1>2, Returned
  <1>8. \/ /\ StatementSucceeds /\ mAccounts' = mAccounts \cup found
           /\ mMembers' = [mMembers EXCEPT ![c] = @ \o list]
        \/ StatementFails /\ UNCHANGED <<mAccounts, mMembers>>
    BY <1>3 DEF LoadChannelMembers
  <1>9. mAccounts \subseteq mAccounts' /\ mAccounts' \subseteq ToSet(accounts) /\ mAccounts' \subseteq Users
    BY <1>4, <1>8 DEF BackedInv
  <1> HIDE DEF found, list
  <1>10. CASE /\ StatementSucceeds /\ mMembers' = [mMembers EXCEPT ![c] = @ \o list]
    <2>1. mMembers \in [Chans -> Seq(Users)]
      BY DEF TypeOK
    <2>2. mMembers[c] \o list = list
      BY <1>5, <1>6
    <2>3. /\ mMembers' \in [Chans -> Seq(Users)] /\ mMembers'[c] = list
          /\ \A d \in Chans \ {c} : mMembers'[d] = mMembers[d]
      BY <1>1, <1>5, <1>10, <2>1, <2>2
    <2>4. StepSucceeds
      BY <1>10 DEF StatementSucceeds, StepSucceeds, counters
    <2>5. MembersListed(c)'
      <3>1. chanMembers' = chanMembers
        BY <1>2 DEF tables
      <3> QED
        BY <1>5, <2>3, <3>1 DEF MembersListed
    <2>6. TypeOK'
      BY <1>2, <1>7, <1>9, <2>3, <2>4 DEF TypeOK, Owed, StepSucceeds, tables
    <2> QED
      BY <1>1, <1>2, <1>7, <1>9, <2>3, <2>4, <2>5, <2>6
  <1>11. CASE StatementFails /\ UNCHANGED <<mAccounts, mMembers>>
    <2>1. StepFails
      BY <1>11 DEF StatementFails, StepFails
    <2>2. TypeOK'
      BY <1>2, <1>7, <1>9, <1>11, <2>1 DEF TypeOK, Owed, StepFails, tables
    <2> QED
      BY <1>1, <1>2, <1>7, <1>9, <1>11, <2>1, <2>2
  <1> QED
    BY <1>8, <1>10, <1>11

\* One list after another.
LEMMA Concat ==
    ASSUME NEW S, NEW s \in Seq(S), NEW u \in Seq(S), NEW list, list = s \o u
    PROVE  /\ list \in Seq(S) /\ Len(list) = Len(s) + Len(u)
           /\ \A k \in 1 .. Len(s) : list[k] = s[k]
           /\ \A k \in 1 .. Len(s) + Len(u) : k > Len(s) => list[k] = u[k - Len(s)]
  OBVIOUS

ChannelRows == [name : Chans, server : Servers]

\* Is list the list of the names of the first rows?
FirstNames(list) ==
    Len(list) \in Nat /\ \A k \in 1 .. Len(list) : k \in DOMAIN channels /\ channels[k].name = list[k]
NamesIn(rows) == [i \in DOMAIN rows |-> rows[i].name]

\* The names read so far are those of the first rows.
LEMMA NamesRead ==
    ASSUME channels \in Seq(ChannelRows),
           NEW l \in Seq(Chans), FirstNames(l),
           NEW rows, rows = Page(channels, Len(l)), NEW list, list = l \o NamesIn(rows)
    PROVE  /\ list \in Seq(Chans) /\ FirstNames(list)
           /\ IF MorePages(rows) THEN Len(list) = Len(l) + PageSize ELSE Len(list) = Len(channels)
  <1> DEFINE o == Len(l)
             n == Len(channels)
             p == Len(rows)
             names == [i \in DOMAIN rows |-> rows[i].name]
  <1>0. \A k \in 1 .. o : k \in DOMAIN channels /\ channels[k].name = l[k]
    BY DEF FirstNames
  <1>1. channels \in Seq(ChannelRows) /\ n \in Nat /\ DOMAIN channels = 1 .. n /\ o \in Nat
    OBVIOUS
  <1>2. o <= n
    <2>1. CASE o = 0
      BY <1>1, <2>1
    <2>2. CASE o # 0
      <3>1. o \in 1 .. n
        BY <1>0, <1>1, <2>2
      <3> QED
        BY <1>1, <3>1
    <2> QED
      BY <2>1, <2>2
  <1>3. /\ rows \in Seq(ChannelRows) /\ p \in Nat /\ o + p <= n
        /\ \A k \in 1 .. p : rows[k] = channels[o + k]
        /\ IF MorePages(rows) THEN p = PageSize ELSE o + p = n
    <2>1. o <= Len(channels) /\ channels \in Seq(ChannelRows) /\ rows = Page(channels, o) /\ o \in Nat
      BY <1>1, <1>2
    <2> HIDE DEF o
    <2>2. /\ rows \in Seq(ChannelRows) /\ Len(rows) \in Nat /\ o + Len(rows) <= Len(channels)
          /\ \A k \in 1 .. Len(rows) : rows[k] = channels[o + k]
          /\ IF MorePages(rows) THEN Len(rows) = PageSize ELSE o + Len(rows) = Len(channels)
      BY ONLY <2>1, PageRead
    <2> QED
      BY <2>2
  <1>4. DOMAIN rows = 1 .. p /\ \A k \in 1 .. p : rows[k].name \in Chans
    <2>1. DOMAIN rows = 1 .. p /\ \A k \in 1 .. p : rows[k] \in ChannelRows
      BY <1>3
    <2> QED
      BY <2>1 DEF ChannelRows
  <1>5. names \in Seq(Chans) /\ Len(names) = p /\ \A k \in 1 .. p : names[k] = channels[o + k].name
    <2>1. names = [i \in 1 .. p |-> rows[i].name]
      BY <1>4
    <2>2. p \in Nat
      BY <1>3
    <2> HIDE DEF p, names
    <2>3. names \in Seq(Chans) /\ Len(names) = p
      BY <1>4, <2>1, <2>2
    <2> QED
      BY <1>3, <2>1, <2>3
  <1>6. list = l \o names
    BY DEF NamesIn
  <1>7. /\ list \in Seq(Chans) /\ Len(list) = o + p
        /\ \A k \in 1 .. o : list[k] = l[k]
        /\ \A k \in 1 .. o + p : k > o => list[k] = names[k - o]
    <2>1. l \in Seq(Chans) /\ names \in Seq(Chans) /\ list = l \o names
      BY <1>5, <1>6
    <2>2. /\ list \in Seq(Chans) /\ Len(list) = Len(l) + Len(names)
          /\ \A k \in 1 .. Len(l) : list[k] = l[k]
          /\ \A k \in 1 .. Len(l) + Len(names) : k > Len(l) => list[k] = names[k - Len(l)]
      BY ONLY <2>1, Concat
    <2>3. Len(l) = o /\ Len(names) = p
      BY <1>5
    <2> QED
      BY <2>2, <2>3
  <1> HIDE DEF names, p, n, o
  <1>8. ASSUME NEW k \in 1 .. o + p
        PROVE  k \in 1 .. n /\ channels[k].name = list[k]
    <2>1. p \in Nat /\ n \in Nat /\ o \in Nat /\ o + p <= n
      BY <1>1, <1>3
    <2>2. k \in 1 .. n
      BY <2>1
    <2>3. CASE k <= o
      <3>1. k \in 1 .. o
        BY <2>1, <2>3
      <3>2. channels[k].name = l[k]
        BY <1>0, <3>1
      <3> QED
        BY <1>7, <2>2, <3>1, <3>2
    <2>4. CASE k > o
      <3>1. k - o \in 1 .. p /\ o + (k - o) = k
        BY <2>1, <2>4
      <3>2. channels[k].name = names[k - o]
        BY <1>5, <3>1
      <3> QED
        BY <1>7, <2>2, <2>4, <3>2
    <2>5. k <= o \/ k > o
      BY <2>1
    <2> QED
      BY <2>3, <2>4, <2>5
  <1>9. IF MorePages(rows) THEN Len(list) = o + PageSize ELSE Len(list) = n
    BY <1>3, <1>7
  <1>10. Len(list) \in Nat
    BY <1>1, <1>3, <1>7
  <1> QED
    BY <1>1, <1>7, <1>8, <1>9, <1>10 DEF n, o, FirstNames

\* A page of channels.
LEMMA ChannelPageEffect ==
    ASSUME TypeOK, StackInv, BackedInv, PagesInv, LoadChannels
    PROVE  /\ TypeOK' /\ StackInv' /\ up
           /\ \E o \in Nat, l \in Seq(Chans) :
                  /\ Owed = {ChannelPage(o, l)} \cup Rest
                  /\ \A y \in Rest : Rank(y) = 7
                  /\ \/ /\ StepSucceeds
                        /\ \E list \in Seq(Chans) :
                               /\ Len(list) \in Nat
                               /\ \A k \in 1 .. Len(list) :
                                      k \in DOMAIN channels /\ channels[k].name = list[k]
                               /\ mChannels' = mChannels \cup ToSet(list)
                               /\ \/ Owed' = {ChannelPage(Len(list), list)} \cup Rest
                                  \/ /\ Owed' = {ChannelMembersCall(c) : c \in ToSet(list)} \cup Rest
                                     /\ ToSet(list) = ChannelNames
                     \/ /\ StepFails /\ mChannels' = mChannels
                        /\ Owed' = {ChannelMembersCall(c) : c \in ToSet(l)} \cup Rest
           /\ UNCHANGED <<tables, mAccounts, mServers, mRoles, mServerAccts, mServerChans, mMembers,
                          up, config, settled>>
  <1>1. PICK o \in Nat, l \in Seq(Chans) :
            /\ up /\ todo # << >> /\ Head(todo) = ChannelPage(o, l)
            /\ Owed = {ChannelPage(o, l)} \cup Rest
            /\ \A y \in Rest : Rank(y) = 7
    <2>1. Calling("channelPage")
      BY DEF LoadChannels
    <2>2. /\ up /\ todo # << >> /\ Head(todo).op = "channelPage" /\ Kind(Head(todo))
          /\ Owed = {Head(todo)} \cup Rest
      BY <2>1, OnTop
    <2>3. Rank(Head(todo)) = 5
      BY <2>2, Ranks
    <2>4. \A y \in Rest : Rank(y) = 7
      BY <2>2, <2>3, Top DEF Above
    <2> QED
      BY <2>2, <2>4 DEF Kind
  <1>2. UNCHANGED <<tables, mAccounts, mServers, mRoles, mServerAccts, mServerChans, mMembers,
                    up, config, settled>>
    BY DEF LoadChannels
  <1> DEFINE rows == Page(channels, o)
             list == l \o [i \in DOMAIN rows |-> rows[i].name]
             n == Len(channels)
  <1>3. /\ Head(todo).offset = o /\ Head(todo).list = l
        /\ ChannelPage(o, l).op = "channelPage" /\ ChannelPage(o, l).offset = o
        /\ ChannelPage(o, l).list = l
    BY <1>1 DEF ChannelPage
  <1>4. Len(l) = o /\ \A k \in 1 .. o : k \in DOMAIN channels /\ channels[k].name = l[k]
    BY <1>1, <1>3 DEF PagesInv
  <1>5. /\ channels \in Seq([name : Chans, server : Servers]) /\ n \in Nat
        /\ DOMAIN channels = 1 .. n
    BY DEF TypeOK
  <1>6. \/ /\ StatementSucceeds /\ mChannels' = mChannels \cup ToSet(list)
           /\ Then(IF MorePages(rows) THEN <<ChannelPage(NextOffset(o), list)>> ELSE MembersOf(list))
        \/ StatementFails /\ Then(MembersOf(l)) /\ UNCHANGED mChannels
    BY <1>3 DEF LoadChannels
  <1>7. /\ list \in Seq(Chans) /\ Len(list) \in Nat
        /\ \A k \in 1 .. Len(list) : k \in DOMAIN channels /\ channels[k].name = list[k]
        /\ IF MorePages(rows) THEN Len(list) = o + PageSize ELSE Len(list) = n
    <2>1. rows = Page(channels, Len(l)) /\ list = l \o NamesIn(rows)
      BY <1>4 DEF NamesIn
    <2>2. channels \in Seq(ChannelRows) /\ l \in Seq(Chans) /\ FirstNames(l)
      BY <1>4, <1>5 DEF ChannelRows, FirstNames
    <2> HIDE DEF rows, list
    <2>3. /\ list \in Seq(Chans) /\ FirstNames(list)
          /\ IF MorePages(rows) THEN Len(list) = Len(l) + PageSize ELSE Len(list) = Len(channels)
      BY ONLY <2>1, <2>2, NamesRead
    <2> QED
      BY <1>4, <2>3 DEF FirstNames
  <1> HIDE DEF rows, list, n
  <1>8. ASSUME NEW some \in Seq(Chans),
               \A k \in DOMAIN some : k \in DOMAIN channels /\ channels[k].name = some[k],
               Then(MembersOf(some))
        PROVE  /\ Owed' = {ChannelMembersCall(c) : c \in ToSet(some)} \cup Rest
               /\ todo' \in Seq(Owed') /\ StackInv'
    <2> DEFINE calls == MembersOf(some)
    <2>1. calls = MembersOf(some) /\ Then(calls)
      BY <1>8
    <2> HIDE DEF calls
    <2>2. \A i, j \in DOMAIN some : some[i] = some[j] => i = j
      BY <1>8 DEF BackedInv
    <2>3. /\ ToSet(calls) = {ChannelMembersCall(c) : c \in ToSet(some)}
          /\ calls \in Seq(ToSet(calls)) /\ Ordered(calls)
      BY <2>1, <2>2, MembersOfMade
    <2>4. ASSUME NEW z \in ToSet(calls)
          PROVE  /\ LoadCall(z) /\ Rank(z) = 6 /\ \A y \in Rest : Above(z, y)
      <3>1. ToSet(some) \subseteq Chans
        BY ElementsOf
      <3>2. PICK c \in Chans : z = ChannelMembersCall(c)
        BY <2>3, <3>1
      <3>3. z.op = "channelMembers" /\ z.c = c
        BY <3>2 DEF ChannelMembersCall
      <3>4. LoadCall(z)
        BY <3>2, <3>3 DEF LoadCall
      <3>5. Rank(z) = 6
        BY <3>3, Ranks
      <3>6. \A y \in Rest : Above(z, y)
        BY <1>1, <3>5 DEF Above
      <3> QED
        BY <3>4, <3>5, <3>6
    <2>5. \A z \in ToSet(calls) : Rank(z) <= 4 => Rank(Head(todo)) <= 4
      BY <2>4
    <2> QED
      BY <1>1, <1>2, <2>1, <2>3, <2>4, <2>5, Replaced
  <1>9. DOMAIN l = 1 .. o /\ DOMAIN list = 1 .. Len(list)
    BY <1>4, <1>7
  <1>10. mChannels' \subseteq Chans
    <2>1. ToSet(list) \subseteq Chans
      BY <1>7, ElementsOf
    <2> QED
      BY <1>6, <2>1 DEF TypeOK
  <1>11. PageSize \in Nat \ {0} /\ o + PageSize \in Nat
    BY StartupAssumption
  <1>12. CASE /\ StatementSucceeds /\ mChannels' = mChannels \cup ToSet(list)
              /\ MorePages(rows) /\ Then(<<ChannelPage(NextOffset(o), list)>>)
    <2> DEFINE x == ChannelPage(Len(list), list)
               calls == <<x>>
    <2>1. LoadCall(x) /\ Rank(x) = 5
      BY <1>7, CallOps, Ranks DEF LoadCall, ChannelPage
    <2>2. \A y \in Rest : Above(x, y)
      BY <1>1, <2>1 DEF Above
    <2>3. Then(calls)
      BY <1>7, <1>12 DEF NextOffset
    <2> HIDE DEF x
    <2>4. ToSet(calls) = {x} /\ Ordered(calls) /\ calls \in Seq(ToSet(calls))
      BY Single
    <2>5. Rank(Head(todo)) = 5
      BY <1>1, CallOps, Ranks
    <2>6. \A z \in ToSet(calls) : /\ LoadCall(z) /\ \A y \in Rest : Above(z, y)
                                  /\ Rank(z) <= 4 => Rank(Head(todo)) <= 4
      BY <2>1, <2>2, <2>4, <2>5
    <2> HIDE DEF calls
    <2>7. Owed' = {x} \cup Rest /\ todo' \in Seq(Owed') /\ StackInv'
      BY <1>1, <1>2, <2>3, <2>4, <2>6, Replaced
    <2>8. StepSucceeds
      BY <1>12 DEF StatementSucceeds, StepSucceeds, counters
    <2>9. TypeOK'
      BY <1>2, <1>10, <2>7, <2>8 DEF TypeOK, Owed, StepSucceeds, tables
    <2> QED
      BY <1>1, <1>2, <1>7, <1>12, <2>7, <2>8, <2>9 DEF x
  <1>13. CASE /\ StatementSucceeds /\ mChannels' = mChannels \cup ToSet(list)
              /\ ~MorePages(rows) /\ Then(MembersOf(list))
    <2>1. /\ Owed' = {ChannelMembersCall(c) : c \in ToSet(list)} \cup Rest
          /\ todo' \in Seq(Owed') /\ StackInv'
      BY <1>7, <1>8, <1>9, <1>13
    <2>2. StepSucceeds
      BY <1>13 DEF StatementSucceeds, StepSucceeds, counters
    <2>3. TypeOK'
      BY <1>2, <1>10, <2>1, <2>2 DEF TypeOK, Owed, StepSucceeds, tables
    <2>4. ToSet(list) = ChannelNames
      <3>1. Len(list) = n
        BY <1>7, <1>13
      <3>2. DOMAIN list = DOMAIN channels /\ \A k \in DOMAIN list : list[k] = channels[k].name
        BY <1>5, <1>7, <1>9, <3>1
      <3> QED
        BY <3>2 DEF ToSet, ChannelNames
    <2> QED
      BY <1>1, <1>2, <1>7, <1>13, <2>1, <2>2, <2>3, <2>4
  <1>14. CASE StatementFails /\ Then(MembersOf(l)) /\ UNCHANGED mChannels
    <2>1. /\ Owed' = {ChannelMembersCall(c) : c \in ToSet(l)} \cup Rest
          /\ todo' \in Seq(Owed') /\ StackInv'
      BY <1>4, <1>8, <1>9, <1>14
    <2>2. StepFails
      BY <1>14 DEF StatementFails, StepFails
    <2>3. TypeOK'
      BY <1>2, <1>10, <2>1, <2>2 DEF TypeOK, Owed, StepFails, tables
    <2> QED
      BY <1>1, <1>2, <1>14, <2>1, <2>2, <2>3
  <1>15. \/ MorePages(rows) /\ (IF MorePages(rows) THEN <<ChannelPage(NextOffset(o), list)>>
                                ELSE MembersOf(list)) = <<ChannelPage(NextOffset(o), list)>>
         \/ ~MorePages(rows) /\ (IF MorePages(rows) THEN <<ChannelPage(NextOffset(o), list)>>
                                 ELSE MembersOf(list)) = MembersOf(list)
    OBVIOUS
  <1> QED
    BY <1>6, <1>12, <1>13, <1>14, <1>15

\* The process ends.
LEMMA StopEffect ==
    ASSUME TypeOK, StackInv, Stop
    PROVE  /\ TypeOK' /\ StackInv' /\ ~up' /\ Owed' = {}
           /\ mAccounts' = {} /\ mServers' = {} /\ mRoles' = {} /\ mChannels' = {}
           /\ \A s \in Servers : mServerAccts'[s] = {}
           /\ \A c \in Chans : mMembers'[c] = << >>
           /\ wounded' = (wounded \/ todo # << >>)
           /\ UNCHANGED <<tables, config, settled, cleanStart>>
  <1>1. Owed' = {} /\ todo' \in Seq(Owed') /\ Ordered(todo')
    BY Nothing DEF Stop, Owed, ToSet, Ordered
  <1>2. /\ mServerAccts' \in [Servers -> SUBSET Users] /\ mServerChans' \in [Servers -> SUBSET Chans]
        /\ mMembers' \in [Chans -> Seq(Users)] /\ \A c \in Chans : mMembers'[c] = << >>
        /\ \A s \in Servers : mServerAccts'[s] = {}
    <2>1. << >> \in Seq(Users)
      OBVIOUS
    <2> QED
      BY <2>1 DEF Stop
  <1>3. TypeOK'
    BY <1>1, <1>2 DEF TypeOK, Stop, Owed, tables
  <1>4. StackInv'
    BY <1>1, <1>2 DEF StackInv, Preloading, Stop
  <1> QED
    BY <1>1, <1>2, <1>3, <1>4 DEF Stop

\* Two ordered lists of calls, the first of earlier loops.
LEMMA LoopsInOrder ==
    ASSUME NEW s, NEW u, s \in Seq(ToSet(s)), u \in Seq(ToSet(u)), Ordered(s), Ordered(u),
           NEW r \in 0 .. 4, \A x \in ToSet(s) : Rank(x) \in 0 .. r,
           \A y \in ToSet(u) : Rank(y) \in r .. 7,
           NEW list, list = s \o u
    PROVE  list \in Seq(ToSet(list)) /\ Ordered(list) /\ ToSet(list) = ToSet(s) \cup ToSet(u)
  <1> DEFINE S == ToSet(s) \cup ToSet(u)
  <1>1. s \in Seq(S) /\ u \in Seq(S)
    OBVIOUS
  <1>2. \A x \in ToSet(s), y \in ToSet(u) : Above(x, y)
    BY AboveIf
  <1> HIDE DEF S
  <1>3. list \in Seq(S) /\ ToSet(list) = ToSet(s) \cup ToSet(u) /\ Ordered(list)
    BY <1>1, <1>2, ConcatElements, ConcatOrdered
  <1> QED
    BY <1>3 DEF S

\* The calls of a preload file.
LEMMA PreloadOwed ==
    ASSUME NEW conf \in Configs, conf # NoFile, NEW calls, calls = PreloadCalls(conf) \o LoadCalls
    PROVE  /\ calls \in Seq(ToSet(calls)) /\ Ordered(calls)
           /\ ToSet(calls) = {AdminCall} \cup {ServerCall(s) : s \in ConfiguredServers(conf)}
                                 \cup {UserCall(u) : u \in ToSet(conf.users)}
                                 \cup {ChannelCall(c) : c \in ToSet(conf.channels)}
                                 \cup {ChannelPage(0, << >>), AccountPage(0)}
  <1> DEFINE a == <<AdminCall>>
             b == [i \in DOMAIN conf.servers |-> ServerCall(conf.servers[i])]
             c == [i \in DOMAIN conf.users |-> UserCall(conf.users[i])]
             d == [i \in DOMAIN conf.channels |-> ChannelCall(conf.channels[i])]
  <1>1. /\ conf.servers \in Seq(Servers)
        /\ conf.users \in Seq([name : Users, server : Servers])
        /\ conf.channels \in Seq([name : Chans, server : Servers, members : Seq(Users)])
    BY StartupAssumption DEF Config
  <1>2. a \in Seq(ToSet(a)) /\ Ordered(a) /\ ToSet(a) = {AdminCall} /\ \A x \in ToSet(a) : Rank(x) = 1
    <2>1. Rank(AdminCall) = 1
      BY CallOps, Ranks
    <2> QED
      BY <2>1, Single
  <1>3. /\ b \in Seq(ToSet(b)) /\ Ordered(b) /\ \A x \in ToSet(b) : Rank(x) = 2
        /\ ToSet(b) = {ServerCall(s) : s \in ConfiguredServers(conf)}
    <2> DEFINE list == conf.servers
    <2>1. DOMAIN list = 1 .. Len(list) /\ Len(list) \in Nat
      BY <1>1
    <2>2. ToSet(b) = {ServerCall(s) : s \in ToSet(list)}
      BY DEF ToSet
    <2>3. \A x \in ToSet(b) : Rank(x) = 2
      BY <2>2, CallOps, Ranks
    <2>4. b = [i \in 1 .. Len(list) |-> b[i]]
      BY <2>1
    <2> HIDE DEF b
    <2>5. b \in Seq(ToSet(b)) /\ Ordered(b)
      BY <2>1, <2>3, <2>4, IsList, OneRank
    <2> QED
      BY <2>2, <2>3, <2>5 DEF ConfiguredServers
  <1>4. /\ c \in Seq(ToSet(c)) /\ Ordered(c) /\ \A x \in ToSet(c) : Rank(x) = 3
        /\ ToSet(c) = {UserCall(u) : u \in ToSet(conf.users)}
    <2> DEFINE list == conf.users
    <2>1. DOMAIN list = 1 .. Len(list) /\ Len(list) \in Nat
      BY <1>1
    <2>2. ToSet(c) = {UserCall(s) : s \in ToSet(list)}
      BY DEF ToSet
    <2>3. \A x \in ToSet(c) : Rank(x) = 3
      BY <2>2, CallOps, Ranks
    <2>4. c = [i \in 1 .. Len(list) |-> c[i]]
      BY <2>1
    <2> HIDE DEF c
    <2>5. c \in Seq(ToSet(c)) /\ Ordered(c)
      BY <2>1, <2>3, <2>4, IsList, OneRank
    <2> QED
      BY <2>2, <2>3, <2>5
  <1>5. /\ d \in Seq(ToSet(d)) /\ Ordered(d) /\ \A x \in ToSet(d) : Rank(x) = 4
        /\ ToSet(d) = {ChannelCall(e) : e \in ToSet(conf.channels)}
    <2> DEFINE list == conf.channels
    <2>1. DOMAIN list = 1 .. Len(list) /\ Len(list) \in Nat
      BY <1>1
    <2>2. ToSet(d) = {ChannelCall(s) : s \in ToSet(list)}
      BY DEF ToSet
    <2>3. \A x \in ToSet(d) : Rank(x) = 4
      BY <2>2, CallOps, Ranks
    <2>4. d = [i \in 1 .. Len(list) |-> d[i]]
      BY <2>1
    <2> HIDE DEF d
    <2>5. d \in Seq(ToSet(d)) /\ Ordered(d)
      BY <2>1, <2>3, <2>4, IsList, OneRank
    <2> QED
      BY <2>2, <2>3, <2>5
  <1>6. /\ LoadCalls \in Seq(ToSet(LoadCalls)) /\ Ordered(LoadCalls)
        /\ \A x \in ToSet(LoadCalls) : Rank(x) \in {5, 7}
        /\ ToSet(LoadCalls) = {ChannelPage(0, << >>), AccountPage(0)}
    BY LoadOwed
  <1>7. calls = a \o b \o c \o d \o LoadCalls
    BY DEF PreloadCalls
  <1> DEFINE ab == a \o b
             abc == ab \o c
             abcd == abc \o d
  <1> HIDE DEF a, b, c, d
  <1>8. ab \in Seq(ToSet(ab)) /\ Ordered(ab) /\ ToSet(ab) = ToSet(a) \cup ToSet(b)
    <2>1. \A x \in ToSet(a) : Rank(x) \in 0 .. 2
      BY <1>2
    <2>2. \A x \in ToSet(b) : Rank(x) \in 2 .. 7
      BY <1>3
    <2> QED
      BY <1>2, <1>3, <2>1, <2>2, 2 \in 0 .. 4, LoopsInOrder
  <1>9. abc \in Seq(ToSet(abc)) /\ Ordered(abc) /\ ToSet(abc) = ToSet(ab) \cup ToSet(c)
    <2>1. \A x \in ToSet(ab) : Rank(x) \in 0 .. 3
      BY <1>2, <1>3, <1>8
    <2>2. \A x \in ToSet(c) : Rank(x) \in 3 .. 7
      BY <1>4
    <2> HIDE DEF ab
    <2> QED
      BY <1>4, <1>8, <2>1, <2>2, 3 \in 0 .. 4, LoopsInOrder
  <1>10. abcd \in Seq(ToSet(abcd)) /\ Ordered(abcd) /\ ToSet(abcd) = ToSet(abc) \cup ToSet(d)
    <2>1. \A x \in ToSet(abc) : Rank(x) \in 0 .. 4
      BY <1>2, <1>3, <1>4, <1>8, <1>9
    <2>2. \A x \in ToSet(d) : Rank(x) \in 4 .. 7
      BY <1>5
    <2> HIDE DEF abc
    <2> QED
      BY <1>5, <1>9, <2>1, <2>2, 4 \in 0 .. 4, LoopsInOrder
  <1>11. calls \in Seq(ToSet(calls)) /\ Ordered(calls) /\ ToSet(calls) = ToSet(abcd) \cup ToSet(LoadCalls)
    <2>1. \A x \in ToSet(abcd) : Rank(x) \in 0 .. 4
      BY <1>2, <1>3, <1>4, <1>5, <1>8, <1>9, <1>10
    <2>2. \A x \in ToSet(LoadCalls) : Rank(x) \in 4 .. 7
      BY <1>6
    <2>3. calls = abcd \o LoadCalls
      BY <1>7
    <2> HIDE DEF abcd
    <2> QED
      BY <1>6, <1>10, <2>1, <2>2, <2>3, 4 \in 0 .. 4, LoopsInOrder
  <1> HIDE DEF ab, abc, abcd
  <1> QED
    BY <1>2, <1>3, <1>4, <1>5, <1>6, <1>8, <1>9, <1>10, <1>11

\* The constructor begins: memory is empty, and everything is to be done.
LEMMA StartEffect ==
    ASSUME TypeOK, StackInv, Start
    PROVE  /\ TypeOK' /\ StackInv'
           /\ ~up /\ up' /\ cleanStart'
           /\ mAccounts = {} /\ mServers = {} /\ mRoles = {} /\ mChannels = {}
           /\ \A c \in Chans : mMembers[c] = << >>
           /\ settled' => config' # NoFile /\ InTables(config)'
           /\ Owed = {}
           /\ Owed' = {ChannelPage(0, << >>), AccountPage(0)} \cup
                  IF config' = NoFile THEN {}
                  ELSE {AdminCall} \cup {ServerCall(s) : s \in ConfiguredServers(config')}
                           \cup {UserCall(u) : u \in ToSet(config'.users)}
                           \cup {ChannelCall(c) : c \in ToSet(config'.channels)}
           /\ UNCHANGED <<tables, memory, wounded>>
  <1>1. PICK conf \in Configs :
            /\ config' = conf /\ settled' \in BOOLEAN
            /\ settled' => conf # NoFile /\ InTables(conf)
            /\ todo' = IF conf = NoFile THEN LoadCalls ELSE PreloadCalls(conf) \o LoadCalls
    BY DEF Start
  <1>2. /\ ~up /\ up' = TRUE /\ cleanStart' = TRUE /\ UNCHANGED <<tables, memory, wounded>>
        /\ settled' \in BOOLEAN
    BY <1>1 DEF Start
  <1>3. /\ todo = << >> /\ mAccounts = {} /\ mServers = {} /\ mRoles = {} /\ mChannels = {}
        /\ \A c \in Chans : mMembers[c] = << >>
    BY <1>2 DEF StackInv
  <1>4. Owed = {}
    BY <1>3, Nothing DEF Owed
  <1>5. settled' => config' # NoFile /\ InTables(config)'
    <2>1. ChannelNames' = ChannelNames
      BY <1>2 DEF ChannelNames, tables
    <2>2. InTables(conf) => InTables(config)'
      BY <1>1, <1>2, <2>1 DEF InTables, UsersInTables, ChannelInTables, tables
    <2> QED
      BY <1>1, <2>2
  <1>6. CASE conf = NoFile
    <2>1. /\ todo' \in Seq(Owed') /\ Ordered(todo') /\ Owed' = {ChannelPage(0, << >>), AccountPage(0)}
          /\ \A x \in Owed' : LoadCall(x)' /\ Rank(x) \in {5, 7}
      BY <1>1, <1>6, LoadOwed DEF Owed, LoadCall
    <2>2. TypeOK'
      BY <1>1, <1>2, <2>1 DEF TypeOK, Owed, tables, memory
    <2>3. StackInv'
      BY <1>2, <2>1 DEF StackInv, Preloading
    <2> QED
      BY <1>1, <1>2, <1>3, <1>4, <1>6, <1>5, <2>1, <2>2, <2>3
  <1>7. CASE conf # NoFile
    <2> DEFINE P == {AdminCall} \cup {ServerCall(s) : s \in ConfiguredServers(conf)}
                        \cup {UserCall(u) : u \in ToSet(conf.users)}
                        \cup {ChannelCall(c) : c \in ToSet(conf.channels)}
    <2>1. /\ todo' \in Seq(Owed') /\ Ordered(todo')
          /\ Owed' = P \cup {ChannelPage(0, << >>), AccountPage(0)}
      BY <1>1, <1>7, PreloadOwed DEF Owed
    <2>2. ASSUME NEW x \in P
          PROVE  PreloadCall(x)'
      BY <1>1 DEF PreloadCall
    <2>3. \A x \in {ChannelPage(0, << >>), AccountPage(0)} : LoadCall(x)'
      BY LoadOwed DEF LoadCall
    <2>4. TypeOK'
      <3> HIDE DEF P
      <3> QED
        BY <1>1, <1>2, <2>1 DEF TypeOK, Owed, tables, memory
    <2>5. StackInv'
      <3> HIDE DEF P
      <3> QED
        BY <1>1, <1>2, <1>7, <2>1, <2>2, <2>3 DEF StackInv, Preloading
    <2> QED
      <3>1. P = {AdminCall} \cup {ServerCall(s) : s \in ConfiguredServers(config')}
                    \cup {UserCall(u) : u \in ToSet(config'.users)}
                    \cup {ChannelCall(c) : c \in ToSet(config'.channels)}
        BY <1>1
      <3> HIDE DEF P
      <3> QED
        BY <1>1, <1>2, <1>3, <1>4, <1>7, <1>5, <2>1, <2>4, <2>5, <3>1
  <1> QED
    BY <1>6, <1>7

\* A step that changes nothing.
LEMMA Stutter ==
    ASSUME UNCHANGED vars
    PROVE  /\ UNCHANGED <<tables, memory, up, config, todo, settled, cleanStart, wounded>>
           /\ Owed' = Owed
  BY DEF vars, counters, Owed

-----------------------------------------------------------------------------
(* What is in memory is in the tables                                        *)

Added(s, x) == Append(s, x)

\* A row more at the end.
LEMMA Appended ==
    ASSUME NEW S, NEW s \in Seq(S), NEW x \in S, NEW list, list = Added(s, x)
    PROVE  /\ DOMAIN s \subseteq DOMAIN list /\ \A k \in DOMAIN s : list[k] = s[k]
           /\ Len(s) + 1 \in DOMAIN list /\ list[Len(s) + 1] = x
           /\ \A k \in DOMAIN list : k \in DOMAIN s \/ k = Len(s) + 1
           /\ ToSet(list) = ToSet(s) \cup {x}
  <1>1. /\ DOMAIN s = 1 .. Len(s) /\ DOMAIN list = 1 .. Len(s) + 1 /\ Len(s) \in Nat
        /\ \A k \in 1 .. Len(s) : list[k] = s[k]
        /\ list[Len(s) + 1] = x
    BY DEF Added
  <1>2. /\ DOMAIN s \subseteq DOMAIN list /\ Len(s) + 1 \in DOMAIN list
        /\ \A k \in DOMAIN list : k \in DOMAIN s \/ k = Len(s) + 1
    BY <1>1
  <1> QED
    BY <1>1, <1>2 DEF ToSet

\* An account that is found or made is in the table and cached.
LEMMA AccountMade ==
    ASSUME TypeOK, BackedInv, NEW n \in Users, AccountGetOrCreate(n)
    PROVE  /\ ToSet(accounts') = ToSet(accounts) \cup {n} /\ mAccounts' = mAccounts \cup {n}
           /\ n \in ToSet(accounts) => accounts' = accounts
           /\ \A k \in DOMAIN accounts : k \in DOMAIN accounts' /\ accounts'[k] = accounts[k]
  <1>1. accounts \in Seq(Users) /\ mAccounts \subseteq ToSet(accounts)
    BY DEF TypeOK, BackedInv
  <1>2. /\ accounts' = IF n \in ToSet(accounts) THEN accounts ELSE Append(accounts, n)
        /\ mAccounts' = mAccounts \cup {n}
    BY <1>1 DEF AccountGetOrCreate
  <1>3. CASE n \in ToSet(accounts)
    BY <1>2, <1>3
  <1>4. CASE n \notin ToSet(accounts)
    <2>1. accounts \in Seq(Users) /\ accounts' = Append(accounts, n)
      BY <1>1, <1>2, <1>4
    <2>2. /\ DOMAIN accounts \subseteq DOMAIN accounts'
          /\ \A k \in DOMAIN accounts : accounts'[k] = accounts[k]
          /\ ToSet(accounts') = ToSet(accounts) \cup {n}
      <3> DEFINE list == accounts'
      <3>1. list = Added(accounts, n)
        BY <2>1 DEF Added
      <3> HIDE DEF list
      <3>2. accounts \in Seq(Users) /\ n \in Users
        BY <1>1
      <3>3. /\ DOMAIN accounts \subseteq DOMAIN list /\ \A k \in DOMAIN accounts : list[k] = accounts[k]
            /\ Len(accounts) + 1 \in DOMAIN list /\ list[Len(accounts) + 1] = n
            /\ \A k \in DOMAIN list : k \in DOMAIN accounts \/ k = Len(accounts) + 1
            /\ ToSet(list) = ToSet(accounts) \cup {n}
        BY ONLY <3>1, <3>2, Appended
      <3> QED
        BY <3>3 DEF list
    <2> QED
      BY <1>2, <1>4, <2>2
  <1> QED
    BY <1>3, <1>4

\* So is a channel, and no other has its name.
LEMMA ChannelMade ==
    ASSUME TypeOK, BackedInv, NEW c \in Chans, NEW s \in Servers,
           channels' = IF ChannelFound(c) THEN channels
                       ELSE Append(channels, [name |-> c, server |-> s])
    PROVE  /\ ChannelNames' = ChannelNames \cup {c}
           /\ c \in ChannelNames => channels' = channels
           /\ \A k \in DOMAIN channels : k \in DOMAIN channels' /\ channels'[k] = channels[k]
           /\ \A i, j \in DOMAIN channels' : channels'[i].name = channels'[j].name => i = j
  <1>1. /\ channels \in Seq(ChannelRows)
        /\ \A i, j \in DOMAIN channels : channels[i].name = channels[j].name => i = j
        /\ ChannelFound(c) <=> c \in ChannelNames
    BY DEF TypeOK, BackedInv, ChannelRows, ChannelFound
  <1>2. CASE c \in ChannelNames
    <2>1. channels' = channels
      BY <1>1, <1>2
    <2> QED
      BY <1>1, <1>2, <2>1 DEF ChannelNames
  <1>3. CASE c \notin ChannelNames
    <2> DEFINE row == [name |-> c, server |-> s]
               n == Len(channels) + 1
    <2>1. row \in ChannelRows /\ row.name = c /\ channels' = Added(channels, row)
      BY <1>1, <1>3 DEF ChannelRows, Added
    <2> HIDE DEF row
    <2>2. /\ DOMAIN channels \subseteq DOMAIN channels'
          /\ \A k \in DOMAIN channels : channels'[k] = channels[k]
          /\ n \in DOMAIN channels' /\ channels'[n] = row
          /\ \A k \in DOMAIN channels' : k \in DOMAIN channels \/ k = n
      BY <1>1, <2>1, Appended
    <2>3. \A k \in DOMAIN channels : channels[k].name # c
      BY <1>3 DEF ChannelNames
    <2> HIDE DEF n
    <2>4. \A i, j \in DOMAIN channels' : channels'[i].name = channels'[j].name => i = j
      BY <1>1, <2>1, <2>2, <2>3
    <2>5. ChannelNames' = ChannelNames \cup {c}
      <3>1. ChannelNames' = {channels'[i].name : i \in DOMAIN channels'}
        BY DEF ChannelNames
      <3>2. ASSUME NEW x \in ChannelNames'
            PROVE  x \in ChannelNames \cup {c}
        BY <2>1, <2>2, <3>1 DEF ChannelNames
      <3>3. ASSUME NEW x \in ChannelNames
            PROVE  x \in ChannelNames'
        BY <2>2, <3>1 DEF ChannelNames
      <3>4. c \in ChannelNames'
        BY <2>1, <2>2, <3>1
      <3> QED
        BY <3>2, <3>3, <3>4
    <2> QED
      BY <1>3, <2>2, <2>4, <2>5
  <1> QED
    BY <1>2, <1>3

\* A step that owes no new member of a server or channel, forgets nothing in the tables,
\* and caches what is in them.
LEMMA BackedStep ==
    ASSUME BackedInv,
           ToSet(accounts) \subseteq ToSet(accounts'), mAccounts' \subseteq ToSet(accounts'),
           ChannelNames \subseteq ChannelNames', mChannels' \subseteq ChannelNames',
           roles \subseteq roles', mRoles' \subseteq roles',
           mServers \subseteq mServers',
           mServers' # {} => config' # NoFile /\ mServers' \subseteq ConfiguredServers(config'),
           \A s \in Servers : IsFiniteSet(mServerAccts'[s]),
           \A n \in Users, s \in Servers : JoinCall(n, s) \in Owed' =>
               JoinCall(n, s) \in Owed \/ s \in mServers',
           \A c \in Chans, s \in Servers, n \in Users : MemberCall(c, s, n) \in Owed' =>
               MemberCall(c, s, n) \in Owed \/ c \in ChannelNames',
           \A i, j \in DOMAIN channels' : channels'[i].name = channels'[j].name => i = j,
           \A m \in chanMembers' \ chanMembers : m[1] \in ToSet(accounts') /\ m[2] \in ChannelNames'
    PROVE  BackedInv'
  <1>1. \A m \in chanMembers' : m[1] \in ToSet(accounts') /\ m[2] \in ChannelNames'
    BY DEF BackedInv
  <1>2. \A n \in Users, s \in Servers : JoinCall(n, s) \in Owed' => s \in mServers'
    BY DEF BackedInv
  <1>3. \A c \in Chans, s \in Servers, n \in Users :
            MemberCall(c, s, n) \in Owed' => c \in ChannelNames'
    BY DEF BackedInv
  <1> QED
    BY <1>1, <1>2, <1>3 DEF BackedInv

\* The same when tables and memory of these parts stay as they are.
LEMMA BackedFrame ==
    ASSUME BackedInv,
           UNCHANGED <<accounts, channels, chanMembers, roles, config, mAccounts, mChannels,
                       mRoles, mServers, mServerAccts>>,
           \A n \in Users, s \in Servers : JoinCall(n, s) \in Owed' =>
               JoinCall(n, s) \in Owed \/ s \in mServers,
           \A c \in Chans, s \in Servers, n \in Users : MemberCall(c, s, n) \in Owed' =>
               MemberCall(c, s, n) \in Owed
    PROVE  BackedInv'
  <1>1. ChannelNames' = ChannelNames
    BY DEF ChannelNames
  <1>2. ConfiguredServers(config') = ConfiguredServers(config)
    OBVIOUS
  <1>3. \A n \in Users, s \in Servers : JoinCall(n, s) \in Owed' => s \in mServers
    BY DEF BackedInv
  <1>4. \A c \in Chans, s \in Servers, n \in Users :
            MemberCall(c, s, n) \in Owed' => c \in ChannelNames
    BY DEF BackedInv
  <1> QED
    BY <1>1, <1>2, <1>3, <1>4 DEF BackedInv

\* What is backed stays so, whatever the step.
LEMMA BackedNext ==
    ASSUME TypeOK, StackInv, BackedInv, PagesInv, [Next]_vars
    PROVE  BackedInv'
  <1>1. CASE Start
    <2>1. /\ mServers' = {} /\ UNCHANGED <<tables, memory>> /\ mServers = {}
          /\ \A x \in Owed' : x.op \notin {"join", "member"}
      BY <1>1, StartEffect, CallOps DEF memory
    <2>2. /\ \A n \in Users, s \in Servers : JoinCall(n, s) \notin Owed'
          /\ \A c \in Chans, s \in Servers, n \in Users : MemberCall(c, s, n) \notin Owed'
      BY <2>1, CallOps
    <2> QED
      BY <2>1, <2>2 DEF BackedInv, tables, memory, ChannelNames
  <1>2. CASE Stop
    <2>1. /\ Owed' = {} /\ UNCHANGED tables
          /\ mAccounts' = {} /\ mServers' = {} /\ mRoles' = {} /\ mChannels' = {}
          /\ \A s \in Servers : mServerAccts'[s] = {}
      BY <1>2, StopEffect
    <2>2. IsFiniteSet({})
      BY FS_EmptySet
    <2> QED
      BY <2>1, <2>2 DEF BackedInv, tables, ChannelNames
  <1>3. CASE PreloadAdmin
    <2>1. /\ UNCHANGED <<channels, chanMembers, roles, config, mChannels, mRoles, mServers, mServerAccts>>
          /\ \/ AccountGetOrCreate(Admin) /\ Owed' \subseteq Owed
             \/ UNCHANGED <<accounts, mAccounts>> /\ Owed' = {ChannelPage(0, << >>), AccountPage(0)}
      BY <1>3, AdminEffect
    <2>2. /\ \A n \in Users, s \in Servers : JoinCall(n, s) \in Owed' => JoinCall(n, s) \in Owed
          /\ \A c \in Chans, s \in Servers, n \in Users :
                 MemberCall(c, s, n) \in Owed' => MemberCall(c, s, n) \in Owed
      BY <2>1, CallOps
    <2>3. ToSet(accounts) \subseteq ToSet(accounts') /\ mAccounts' \subseteq ToSet(accounts')
      BY <2>1, AccountMade, Constants DEF BackedInv
    <2>4. ChannelNames' = ChannelNames
      BY <2>1 DEF ChannelNames
    <2>5. mServers' # {} => config' # NoFile /\ mServers' \subseteq ConfiguredServers(config')
      BY <2>1 DEF BackedInv
    <2> QED
      BY <2>1, <2>2, <2>3, <2>4, <2>5, BackedStep DEF BackedInv
  <1>4. CASE ServerGetOrCreate
    <2>1. PICK s \in ConfiguredServers(config) :
              \/ /\ s \in mServers /\ Owed' = {JoinCall(Admin, s)} \cup Rest /\ mServers' = mServers
              \/ /\ mServers' = mServers \cup {s}
                 /\ Owed' = {RoleCall(s), JoinCall(Admin, s), ServerMembersCall(s)} \cup Rest
              \/ Owed' = Rest /\ mServers' = mServers
      BY <1>4, ServerEffect
    <2>2. /\ UNCHANGED <<accounts, channels, chanMembers, roles, config, mAccounts, mChannels,
                         mRoles, mServerAccts>>
          /\ config # NoFile /\ Rest \subseteq Owed
      BY <1>4, ServerEffect
    <2>3. \A n \in Users, t \in Servers : JoinCall(n, t) \in Owed' => JoinCall(n, t) \in Owed \/ t \in mServers'
      <3> TAKE n \in Users, t \in Servers
      <3>1. /\ JoinCall(n, t) = JoinCall(Admin, s) => t = s
            /\ JoinCall(n, t) # RoleCall(s) /\ JoinCall(n, t) # ServerMembersCall(s)
        BY CallOps, SameJoin
      <3> QED
        BY <2>1, <2>2, <3>1
    <2>4. \A c \in Chans, t \in Servers, n \in Users :
              MemberCall(c, t, n) \in Owed' => MemberCall(c, t, n) \in Owed
      BY <2>1, <2>2, CallOps
    <2>5. mServers \subseteq mServers' /\ mServers' \subseteq ConfiguredServers(config') /\ config' # NoFile
      BY <2>1, <2>2 DEF BackedInv
    <2>6. ChannelNames' = ChannelNames
      BY <2>2 DEF ChannelNames
    <2> QED
      BY <2>2, <2>3, <2>4, <2>5, <2>6, BackedStep DEF BackedInv
  <1>5. CASE CreateRoleForServer
    <2>1. PICK s \in ConfiguredServers(config) :
              /\ roles \subseteq roles'
              /\ mRoles' = mRoles \/ (mRoles' = mRoles \cup {s} /\ s \in roles')
              /\ \/ Owed' = Rest
                 \/ \E N \in SUBSET Users :
                        Owed' = {PermissionCall(s)} \cup {AssignCall(n, s) : n \in N} \cup Rest
      BY <1>5, RoleEffect
    <2>2. /\ UNCHANGED <<accounts, channels, chanMembers, config, mAccounts, mChannels,
                         mServers, mServerAccts>>
          /\ Rest \subseteq Owed
      BY <1>5, RoleEffect
    <2>3. \A x \in Owed' : x \in Owed \/ x.op \in {"permission", "assign"}
      BY <2>1, <2>2, CallOps
    <2>4. /\ \A n \in Users, t \in Servers : JoinCall(n, t) \in Owed' => JoinCall(n, t) \in Owed
          /\ \A c \in Chans, t \in Servers, n \in Users :
                 MemberCall(c, t, n) \in Owed' => MemberCall(c, t, n) \in Owed
      BY <2>3, CallOps
    <2>5. ChannelNames' = ChannelNames
      BY <2>2 DEF ChannelNames
    <2>6. mRoles' \subseteq roles'
      BY <2>1 DEF BackedInv
    <2> QED
      BY <2>1, <2>2, <2>4, <2>5, <2>6, BackedStep DEF BackedInv
  <1>6. CASE PermissionGetOrCreate
    <2>1. /\ UNCHANGED <<accounts, channels, chanMembers, roles, config, memory>>
          /\ Owed' \subseteq Owed
      BY <1>6, PermissionEffect
    <2> QED
      BY <2>1, BackedFrame DEF memory
  <1>7. CASE AssignRole
    <2>1. /\ UNCHANGED <<accounts, channels, chanMembers, roles, config, memory>>
          /\ Owed' \subseteq Owed
      BY <1>7, AssignEffect
    <2> QED
      BY <2>1, BackedFrame DEF memory
  <1>8. CASE ServerAddMember
    <2>1. PICK n \in Users, s \in ConfiguredServers(config) :
              /\ Owed' = Rest \/ Owed' = {AssignCall(n, s)} \cup Rest
              /\ mServerAccts' = [mServerAccts EXCEPT ![s] = @ \cup {n}]
      BY <1>8, JoinEffect
    <2>2. /\ UNCHANGED <<accounts, roles, channels, chanMembers, config, mAccounts, mServers,
                         mRoles, mChannels>>
          /\ Rest \subseteq Owed
      BY <1>8, JoinEffect
    <2>3. \A x \in Owed' : x \in Owed \/ x.op = "assign"
      BY <2>1, <2>2, CallOps
    <2>4. /\ \A m \in Users, t \in Servers : JoinCall(m, t) \in Owed' => JoinCall(m, t) \in Owed
          /\ \A c \in Chans, t \in Servers, m \in Users :
                 MemberCall(c, t, m) \in Owed' => MemberCall(c, t, m) \in Owed
      BY <2>3, CallOps
    <2>5. \A t \in Servers : IsFiniteSet(mServerAccts'[t])
      <3> TAKE t \in Servers
      <3>1. IsFiniteSet(mServerAccts[t]) /\ IsFiniteSet(mServerAccts[t] \cup {n})
        BY FS_AddElement DEF BackedInv
      <3>2. mServerAccts'[t] \in {mServerAccts[t], mServerAccts[t] \cup {n}}
        BY <2>1 DEF TypeOK
      <3> QED
        BY <3>1, <3>2
    <2>6. ChannelNames' = ChannelNames
      BY <2>2 DEF ChannelNames
    <2> QED
      BY <2>2, <2>4, <2>5, <2>6, BackedStep DEF BackedInv
  <1>9. CASE LoadServerMembers
    <2>1. PICK s \in ConfiguredServers(config) :
              \/ \E N \in SUBSET mAccounts : mServerAccts' = [mServerAccts EXCEPT ![s] = @ \cup N]
              \/ mServerAccts' = mServerAccts
      BY <1>9, ServerMembersEffect
    <2>2. /\ UNCHANGED <<accounts, roles, channels, chanMembers, config, mAccounts, mServers,
                         mRoles, mChannels>>
          /\ Owed' \subseteq Owed
      BY <1>9, ServerMembersEffect DEF tables
    <2>3. \A t \in Servers : IsFiniteSet(mServerAccts'[t])
      <3> TAKE t \in Servers
      <3>1. IsFiniteSet(mAccounts)
        BY ListFinite, FS_Subset DEF TypeOK, BackedInv
      <3>2. \A N \in SUBSET mAccounts : IsFiniteSet(mServerAccts[t] \cup N)
        BY <3>1, FS_Subset, FS_Union DEF BackedInv
      <3>3. \/ mServerAccts'[t] = mServerAccts[t]
            \/ \E N \in SUBSET mAccounts : mServerAccts'[t] = mServerAccts[t] \cup N
        BY <2>1 DEF TypeOK
      <3> QED
        BY <3>2, <3>3 DEF BackedInv
    <2>4. ChannelNames' = ChannelNames
      BY <2>2 DEF ChannelNames
    <2> QED
      BY <2>2, <2>3, <2>4, BackedStep DEF BackedInv
  <1>10. CASE PreloadUser
    <2>1. PICK u \in ToSet(config.users) :
              \/ /\ AccountGetOrCreate(u.name)
                 /\ \/ /\ u.server \in mServers
                       /\ Owed' = {JoinCall(u.name, u.server)} \cup Rest
                    \/ Owed' = Rest
              \/ Owed' = Rest /\ UNCHANGED <<accounts, mAccounts>>
      BY <1>10, UserEffect
    <2>2. /\ UNCHANGED <<roles, channels, chanMembers, config, mServers, mServerAccts,
                         mRoles, mChannels>>
          /\ Rest \subseteq Owed /\ config # NoFile
      BY <1>10, UserEffect
    <2>3. u.name \in Users
      BY <2>2, Constants DEF TypeOK
    <2>4. ToSet(accounts) \subseteq ToSet(accounts') /\ mAccounts' \subseteq ToSet(accounts')
      BY <2>1, <2>3, AccountMade DEF BackedInv
    <2>5. \A n \in Users, t \in Servers : JoinCall(n, t) \in Owed' => JoinCall(n, t) \in Owed \/ t \in mServers'
      <3> TAKE n \in Users, t \in Servers
      <3>1. JoinCall(n, t) = JoinCall(u.name, u.server) => t = u.server
        BY SameJoin
      <3> QED
        BY <2>1, <2>2, <3>1
    <2>6. \A c \in Chans, t \in Servers, n \in Users :
              MemberCall(c, t, n) \in Owed' => MemberCall(c, t, n) \in Owed
      BY <2>1, <2>2, CallOps
    <2>7. ChannelNames' = ChannelNames
      BY <2>2 DEF ChannelNames
    <2> QED
      BY <2>2, <2>4, <2>5, <2>6, <2>7, BackedStep DEF BackedInv
  <1>11. CASE PreloadChannel
    <2>1. PICK c \in ToSet(config.channels) :
              \/ /\ channels' = IF ChannelFound(c.name) THEN channels
                                ELSE Append(channels, [name |-> c.name, server |-> c.server])
                 /\ mChannels' = mChannels \cup {c.name}
                 /\ Owed' = {MemberCall(c.name, c.server, n) : n \in ToSet(c.members)} \cup Rest
              \/ Owed' = Rest /\ UNCHANGED <<channels, mChannels>>
      BY <1>11, ChannelEffect
    <2>2. /\ UNCHANGED <<accounts, roles, chanMembers, config, mAccounts, mServers, mServerAccts, mRoles>>
          /\ Rest \subseteq Owed /\ config # NoFile
      BY <1>11, ChannelEffect
    <2>3. c.name \in Chans /\ c.server \in Servers
      BY <2>2, Constants DEF TypeOK
    <2>4. CASE Owed' = Rest /\ UNCHANGED <<channels, mChannels>>
      BY <2>2, <2>4, BackedFrame
    <2>5. CASE /\ channels' = IF ChannelFound(c.name) THEN channels
                              ELSE Append(channels, [name |-> c.name, server |-> c.server])
               /\ mChannels' = mChannels \cup {c.name}
               /\ Owed' = {MemberCall(c.name, c.server, n) : n \in ToSet(c.members)} \cup Rest
      <3>1. /\ ChannelNames' = ChannelNames \cup {c.name}
            /\ \A i, j \in DOMAIN channels' : channels'[i].name = channels'[j].name => i = j
        BY <2>3, <2>5, ChannelMade
      <3>2. \A n \in Users, t \in Servers : JoinCall(n, t) \in Owed' => JoinCall(n, t) \in Owed
        BY <2>2, <2>5, CallOps
      <3>3. \A d \in Chans, t \in Servers, n \in Users :
                MemberCall(d, t, n) \in Owed' => MemberCall(d, t, n) \in Owed \/ d \in ChannelNames'
        <4> TAKE d \in Chans, t \in Servers, n \in Users
        <4>1. \A m : MemberCall(d, t, n) = MemberCall(c.name, c.server, m) => d = c.name
          BY SameMember
        <4> QED
          BY <2>2, <2>5, <3>1, <4>1
      <3>4. mChannels' \subseteq ChannelNames'
        BY <2>5, <3>1 DEF BackedInv
      <3> QED
        BY <2>2, <3>1, <3>2, <3>3, <3>4, BackedStep DEF BackedInv
    <2> QED
      BY <2>1, <2>4, <2>5
  <1>12. CASE PreloadMember
    <2>1. PICK c \in Chans, s \in Servers, n \in Users :
              /\ Owed = {MemberCall(c, s, n)} \cup Rest /\ Owed' = Rest
              /\ chanMembers' = chanMembers \/ (n \in mAccounts /\ chanMembers' = chanMembers \cup {<<n, c>>})
              /\ mServerAccts' \in {mServerAccts, [mServerAccts EXCEPT ![s] = @ \cup {n}]}
      BY <1>12, MemberEffect
    <2>2. UNCHANGED <<accounts, roles, channels, config, mAccounts, mServers, mRoles, mChannels>>
      BY <1>12, MemberEffect
    <2>3. n \in mAccounts => n \in ToSet(accounts)
      BY DEF BackedInv
    <2>4. c \in ChannelNames
      BY <2>1 DEF BackedInv
    <2>5. \A t \in Servers : IsFiniteSet(mServerAccts'[t])
      <3> TAKE t \in Servers
      <3>1. IsFiniteSet(mServerAccts[t]) /\ IsFiniteSet(mServerAccts[t] \cup {n})
        BY FS_AddElement DEF BackedInv
      <3>2. mServerAccts'[t] \in {mServerAccts[t], mServerAccts[t] \cup {n}}
        BY <2>1 DEF TypeOK
      <3> QED
        BY <3>1, <3>2
    <2>6. ChannelNames' = ChannelNames
      BY <2>2 DEF ChannelNames
    <2>7. \A m \in chanMembers' \ chanMembers : m[1] \in ToSet(accounts') /\ m[2] \in ChannelNames'
      BY <2>1, <2>2, <2>3, <2>4, <2>6
    <2> QED
      BY <2>1, <2>2, <2>5, <2>6, <2>7, BackedStep DEF BackedInv
  <1>13. CASE LoadChannels
    <2>1. /\ UNCHANGED <<tables, config, mAccounts, mServers, mServerAccts, mRoles>>
          /\ \A x \in Owed' : x \in Owed \/ x.op \in {"channelPage", "channelMembers"}
          /\ mChannels' = mChannels \/ \E list \in Seq(Chans) :
                 /\ \A k \in 1 .. Len(list) : k \in DOMAIN channels /\ channels[k].name = list[k]
                 /\ mChannels' = mChannels \cup ToSet(list)
      <3>1. /\ UNCHANGED <<tables, config, mAccounts, mServers, mServerAccts, mRoles>>
            /\ mChannels' = mChannels \/ \E list \in Seq(Chans) :
                   /\ \A k \in 1 .. Len(list) : k \in DOMAIN channels /\ channels[k].name = list[k]
                   /\ mChannels' = mChannels \cup ToSet(list)
        BY <1>13, ChannelPageEffect
      <3>2. \E A, B : /\ Owed' = A \cup B /\ B \subseteq Owed
                      /\ \/ \E o, l : A = {ChannelPage(o, l)}
                         \/ \E l : A = {ChannelMembersCall(c) : c \in l}
        BY <1>13, ChannelPageEffect
      <3>3. \A x \in Owed' : x \in Owed \/ x.op \in {"channelPage", "channelMembers"}
        BY <3>2, CallOps
      <3> QED
        BY <3>1, <3>3
    <2>2. /\ \A m \in Users, t \in Servers : JoinCall(m, t) \in Owed' => JoinCall(m, t) \in Owed
          /\ \A c \in Chans, t \in Servers, m \in Users :
                 MemberCall(c, t, m) \in Owed' => MemberCall(c, t, m) \in Owed
      BY <2>1, CallOps
    <2>3. ChannelNames' = ChannelNames
      BY <2>1 DEF ChannelNames, tables
    <2>4. mChannels' \subseteq ChannelNames
      <3>1. ASSUME NEW list \in Seq(Chans),
                   \A k \in 1 .. Len(list) : k \in DOMAIN channels /\ channels[k].name = list[k]
            PROVE  ToSet(list) \subseteq ChannelNames
        BY <3>1 DEF ToSet, ChannelNames
      <3> QED
        BY <2>1, <3>1 DEF BackedInv
    <2> QED
      BY <2>1, <2>2, <2>3, <2>4, BackedStep DEF BackedInv, tables
  <1>14. CASE LoadChannelMembers
    <2>1. /\ UNCHANGED <<tables, config, mServers, mServerAccts, mRoles, mChannels>>
          /\ Owed' \subseteq Owed /\ mAccounts' \subseteq ToSet(accounts)
      BY <1>14, ChannelMembersEffect
    <2>2. ChannelNames' = ChannelNames
      BY <2>1 DEF ChannelNames, tables
    <2> QED
      BY <2>1, <2>2, BackedStep DEF BackedInv, tables
  <1>15. CASE LoadAccounts
    <2>1. /\ UNCHANGED <<tables, config, mServers, mServerAccts, mRoles, mChannels>>
          /\ mAccounts' \subseteq ToSet(accounts)
          /\ \E o : Owed' = {AccountPage(o)} \cup Rest \/ Owed' = Rest
          /\ Rest \subseteq Owed
      BY <1>15, AccountPageEffect
    <2>2. /\ \A m \in Users, t \in Servers : JoinCall(m, t) \in Owed' => JoinCall(m, t) \in Owed
          /\ \A c \in Chans, t \in Servers, m \in Users :
                 MemberCall(c, t, m) \in Owed' => MemberCall(c, t, m) \in Owed
      BY <2>1, CallOps
    <2>3. ChannelNames' = ChannelNames
      BY <2>1 DEF ChannelNames, tables
    <2> QED
      BY <2>1, <2>2, <2>3, BackedStep DEF BackedInv, tables
  <1>16. CASE UNCHANGED vars
    BY <1>16, Stutter, BackedFrame DEF tables, memory
  <1> QED
    BY <1>1, <1>2, <1>3, <1>4, <1>5, <1>6, <1>7, <1>8, <1>9, <1>10, <1>11, <1>12, <1>13, <1>14, <1>15,
       <1>16 DEF Next, Preload, Load

-----------------------------------------------------------------------------
(* Roles, permissions and their holders                                      *)

\* A step that is not about them.
LEMMA EveryoneKept ==
    ASSUME TypeOK, EveryoneInv, wounded' \/ (wounded' = wounded /\ Rest \subseteq Owed'),
           UNCHANGED <<roles, members, mServers, mRoles, perms, accRoles>>,
           \A x \in Owed : x \in Rest \/ x.op \notin {"role", "permission", "assign"}
    PROVE  EveryoneInv'
  <1> SUFFICES ASSUME ~wounded'
               PROVE  EveryoneInv'
    BY DEF EveryoneInv
  <1>1. /\ \A s : RoleCall(s) \in Owed => RoleCall(s) \in Owed'
        /\ \A s : PermissionCall(s) \in Owed => PermissionCall(s) \in Owed'
    BY CallOps
  <1>2. \A m \in members : AssignCall(m[1], m[2]) \in Owed => AssignCall(m[1], m[2]) \in Owed'
    BY CallOps
  <1> QED
    BY <1>1, <1>2 DEF EveryoneInv

\* A server, its @everyone, its permission row and its holders come one after the other.
LEMMA EveryoneNext ==
    ASSUME TypeOK, StackInv, BackedInv, PagesInv, EveryoneInv, [Next]_vars
    PROVE  EveryoneInv'
  <1> USE DEF StepSucceeds, StepFails
  <1>1. CASE Start
    <2>1. /\ UNCHANGED <<tables, wounded>> /\ mServers' = {} /\ Owed = {}
      BY <1>1, StartEffect DEF memory
    <2> QED
      BY <2>1 DEF EveryoneInv, tables
  <1>2. CASE Stop
    <2>1. /\ UNCHANGED tables /\ mServers' = {} /\ wounded' = (wounded \/ todo # << >>)
      BY <1>2, StopEffect
    <2>2. ~wounded' => ~wounded /\ Owed = {}
      BY <2>1, Nothing DEF Owed
    <2> QED
      BY <2>1, <2>2 DEF EveryoneInv, tables
  <1>3. CASE PreloadAdmin
    <2>1. /\ wounded' \/ (wounded' = wounded /\ Owed' = Rest)
          /\ Owed = {AdminCall} \cup Rest
          /\ UNCHANGED <<roles, members, mServers, mRoles, perms, accRoles>>
      BY <1>3, AdminEffect
    <2> QED
      BY <2>1, CallOps, EveryoneKept
  <1>4. CASE ServerGetOrCreate
    <2>1. PICK s \in ConfiguredServers(config) :
              /\ Owed = {ServerCall(s)} \cup Rest
              /\ \/ wounded' = wounded /\ Owed' = {JoinCall(Admin, s)} \cup Rest /\ mServers' = mServers
                 \/ /\ wounded' = wounded /\ mServers' = mServers \cup {s}
                    /\ Owed' = {RoleCall(s), JoinCall(Admin, s), ServerMembersCall(s)} \cup Rest
                 \/ wounded'
      BY <1>4, ServerEffect
    <2>2. UNCHANGED <<roles, members, mRoles, perms, accRoles>>
      BY <1>4, ServerEffect
    <2>3. /\ \A t : RoleCall(t) \in Owed => RoleCall(t) \in Rest
          /\ \A t : PermissionCall(t) \in Owed => PermissionCall(t) \in Rest
          /\ \A n, t : AssignCall(n, t) \in Owed => AssignCall(n, t) \in Rest
      BY <2>1, CallOps
    <2>4. CASE wounded'
      BY <2>4 DEF EveryoneInv
    <2>5. CASE wounded' = wounded /\ Owed' = {JoinCall(Admin, s)} \cup Rest /\ mServers' = mServers
      BY <2>2, <2>3, <2>5 DEF EveryoneInv
    <2>6. CASE /\ wounded' = wounded /\ mServers' = mServers \cup {s}
               /\ Owed' = {RoleCall(s), JoinCall(Admin, s), ServerMembersCall(s)} \cup Rest
      BY <2>2, <2>3, <2>6 DEF EveryoneInv
    <2> QED
      BY <2>1, <2>4, <2>5, <2>6
  <1>5. CASE CreateRoleForServer
    <2>1. PICK s \in ConfiguredServers(config) :
              /\ Owed = {RoleCall(s)} \cup Rest
              /\ \/ /\ wounded' = wounded /\ Owed' = Rest
                    /\ roles' = roles /\ mRoles' = mRoles \cup {s}
                 \/ /\ wounded' = wounded
                    /\ roles' = roles \cup {s} /\ mRoles' = mRoles \cup {s}
                    /\ \E N \in SUBSET Users :
                           Owed' = {PermissionCall(s)} \cup {AssignCall(n, s) : n \in N} \cup Rest
                 \/ wounded'
      BY <1>5, RoleEffect
    <2>2. UNCHANGED <<members, mServers, perms, accRoles>>
      BY <1>5, RoleEffect
    <2>3. /\ \A t : RoleCall(t) \in Owed => RoleCall(t) \in Rest \/ t = s
          /\ \A t : PermissionCall(t) \in Owed => PermissionCall(t) \in Rest
          /\ \A n, t : AssignCall(n, t) \in Owed => AssignCall(n, t) \in Rest
      BY <2>1, CallOps, SameServer
    <2>4. CASE wounded'
      BY <2>4 DEF EveryoneInv
    <2>5. CASE /\ wounded' = wounded /\ Owed' = Rest
               /\ roles' = roles /\ mRoles' = mRoles \cup {s}
      BY <2>2, <2>3, <2>5 DEF EveryoneInv
    <2>6. CASE /\ wounded' = wounded
               /\ roles' = roles \cup {s} /\ mRoles' = mRoles \cup {s}
               /\ Rest \subseteq Owed' /\ PermissionCall(s) \in Owed'
      BY <2>2, <2>3, <2>6 DEF EveryoneInv
    <2> QED
      BY <2>1, <2>4, <2>5, <2>6
  <1>6. CASE PermissionGetOrCreate
    <2>1. PICK s \in ConfiguredServers(config) :
              /\ Owed = {PermissionCall(s)} \cup Rest /\ Owed' = Rest
              /\ (wounded' = wounded /\ perms' = perms \cup {s}) \/ wounded'
      BY <1>6, PermissionEffect
    <2>2. UNCHANGED <<roles, members, mServers, mRoles, accRoles>>
      BY <1>6, PermissionEffect DEF memory
    <2>3. /\ \A t : RoleCall(t) \in Owed => RoleCall(t) \in Rest
          /\ \A t : PermissionCall(t) \in Owed => PermissionCall(t) \in Rest \/ t = s
          /\ \A n, t : AssignCall(n, t) \in Owed => AssignCall(n, t) \in Rest
      BY <2>1, CallOps, SameServer
    <2> QED
      BY <2>1, <2>2, <2>3 DEF EveryoneInv
  <1>7. CASE AssignRole
    <2>1. PICK n \in Users, s \in ConfiguredServers(config) :
              /\ Owed = {AssignCall(n, s)} \cup Rest /\ Owed' = Rest
              /\ (wounded' = wounded /\ accRoles' = accRoles \cup {<<n, s>>}) \/ wounded'
      BY <1>7, AssignEffect
    <2>2. UNCHANGED <<roles, members, mServers, mRoles, perms>>
      BY <1>7, AssignEffect DEF memory
    <2>3. /\ \A t : RoleCall(t) \in Owed => RoleCall(t) \in Rest
          /\ \A t : PermissionCall(t) \in Owed => PermissionCall(t) \in Rest
          /\ \A m, t : AssignCall(m, t) \in Owed => AssignCall(m, t) \in Rest \/ (m = n /\ t = s)
      <3>1. /\ \A t : RoleCall(t) # AssignCall(n, s)
            /\ \A t : PermissionCall(t) # AssignCall(n, s)
        BY CallOps
      <3> QED
        BY <2>1, <3>1, SameAssign
    <2>4. \A m \in members : m = <<m[1], m[2]>>
      BY DEF TypeOK
    <2>5. CASE wounded'
      BY <2>5 DEF EveryoneInv
    <2>6. CASE wounded' = wounded /\ accRoles' = accRoles \cup {<<n, s>>} /\ ~wounded
      <3>1. ASSUME NEW m \in members
            PROVE  m[2] \in roles /\ (m \in accRoles' \/ AssignCall(m[1], m[2]) \in Owed')
        <4>1. m[2] \in roles /\ (m \in accRoles \/ AssignCall(m[1], m[2]) \in Owed)
          BY <2>6 DEF EveryoneInv
        <4>2. CASE m[1] = n /\ m[2] = s
          BY <2>4, <2>6, <4>1, <4>2
        <4>3. CASE ~(m[1] = n /\ m[2] = s)
          BY <2>1, <2>3, <2>6, <4>1, <4>3
        <4> QED
          BY <4>2, <4>3
      <3> QED
        BY <2>1, <2>2, <2>3, <2>6, <3>1 DEF EveryoneInv
    <2> QED
      BY <2>1, <2>5, <2>6 DEF EveryoneInv
  <1>8. CASE ServerAddMember
    <2>1. PICK n \in Users, s \in ConfiguredServers(config) :
              /\ Owed = {JoinCall(n, s)} \cup Rest
              /\ \A y \in Rest : Rank(y) >= 1
              /\ \/ /\ wounded' = wounded /\ members' = members \cup {<<n, s>>}
                    /\ \/ (<<n, s>> \in members \/ s \notin mRoles) /\ Owed' = Rest
                       \/ s \in mRoles /\ Owed' = {AssignCall(n, s)} \cup Rest
                 \/ wounded'
      BY <1>8, JoinEffect
    <2>2. /\ UNCHANGED <<roles, mServers, mRoles, perms, accRoles>> /\ config # NoFile
      BY <1>8, JoinEffect
    <2>3. /\ \A t : RoleCall(t) \notin Owed
          /\ \A t : PermissionCall(t) \notin Owed
          /\ \A m, t : AssignCall(m, t) \notin Owed
      <3>1. ASSUME NEW x \in Owed
            PROVE  x.op \notin {"role", "permission", "assign"}
        BY <2>1, Ranks, CallOps
      <3> QED
        BY <3>1, CallOps
    <2>4. CASE wounded'
      BY <2>4 DEF EveryoneInv
    <2>5. CASE ~wounded' /\ wounded' = wounded /\ members' = members \cup {<<n, s>>}
      <3>1. s \in mRoles /\ s \in roles
        <4>1. s \in Servers
          BY <2>2, Constants DEF TypeOK
        <4>2. s \in mServers
          BY <2>1, <4>1 DEF BackedInv
        <4> QED
          BY <2>3, <2>5, <4>2 DEF EveryoneInv, BackedInv
      <3>2. \A m \in members : m[2] \in roles /\ m \in accRoles
        BY <2>3, <2>5 DEF EveryoneInv
      <3>3. <<n, s>> \in members \/ AssignCall(n, s) \in Owed'
        BY <2>1, <2>5, <3>1
      <3>4. <<n, s>>[1] = n /\ <<n, s>>[2] = s
        OBVIOUS
      <3>5. \A m \in members' :
                m[2] \in roles' /\ (m \in accRoles' \/ AssignCall(m[1], m[2]) \in Owed')
        BY <2>2, <2>5, <3>1, <3>2, <3>3, <3>4
      <3>6. (\A t \in mServers : t \in mRoles) /\ (\A t \in roles : t \in perms)
        BY <2>3, <2>5 DEF EveryoneInv
      <3> QED
        BY <2>2, <3>5, <3>6 DEF EveryoneInv
    <2> QED
      BY <2>1, <2>4, <2>5
  <1>9. CASE LoadServerMembers
    <2>1. /\ \E s : Owed = {ServerMembersCall(s)} \cup Rest
          /\ Owed' = Rest /\ (wounded' \/ wounded' = wounded)
          /\ UNCHANGED <<roles, members, mServers, mRoles, perms, accRoles>>
      BY <1>9, ServerMembersEffect DEF tables
    <2> QED
      BY <2>1, CallOps, EveryoneKept
  <1>10. CASE PreloadUser
    <2>1. /\ \E u : Owed = {UserCall(u)} \cup Rest
          /\ Rest \subseteq Owed' /\ (wounded' \/ wounded' = wounded)
          /\ UNCHANGED <<roles, members, mServers, mRoles, perms, accRoles>>
      BY <1>10, UserEffect
    <2> QED
      BY <2>1, CallOps, EveryoneKept
  <1>11. CASE PreloadChannel
    <2>1. /\ \E c : Owed = {ChannelCall(c)} \cup Rest
          /\ Rest \subseteq Owed' /\ (wounded' \/ wounded' = wounded)
          /\ UNCHANGED <<roles, members, mServers, mRoles, perms, accRoles>>
      BY <1>11, ChannelEffect
    <2> QED
      BY <2>1, CallOps, EveryoneKept
  <1>12. CASE PreloadMember
    <2>1. /\ \E c, s, n : Owed = {MemberCall(c, s, n)} \cup Rest
          /\ Owed' = Rest /\ (wounded' \/ wounded' = wounded)
          /\ UNCHANGED <<roles, members, mServers, mRoles, perms, accRoles>>
      BY <1>12, MemberEffect
    <2> QED
      BY <2>1, CallOps, EveryoneKept
  <1>13. CASE LoadChannels
    <2>1. /\ \E o, l : Owed = {ChannelPage(o, l)} \cup Rest
          /\ Rest \subseteq Owed' /\ (wounded' \/ wounded' = wounded)
          /\ UNCHANGED <<roles, members, mServers, mRoles, perms, accRoles>>
      BY <1>13, ChannelPageEffect DEF tables
    <2> QED
      BY <2>1, CallOps, EveryoneKept
  <1>14. CASE LoadChannelMembers
    <2>1. /\ \E c : Owed = {ChannelMembersCall(c)} \cup Rest
          /\ Owed' = Rest /\ (wounded' \/ wounded' = wounded)
          /\ UNCHANGED <<roles, members, mServers, mRoles, perms, accRoles>>
      BY <1>14, ChannelMembersEffect DEF tables
    <2> QED
      BY <2>1, CallOps, EveryoneKept
  <1>15. CASE LoadAccounts
    <2>1. /\ \E o : Owed = {AccountPage(o)} \cup Rest
          /\ Rest \subseteq Owed' /\ (wounded' \/ wounded' = wounded)
          /\ UNCHANGED <<roles, members, mServers, mRoles, perms, accRoles>>
      BY <1>15, AccountPageEffect DEF tables
    <2> QED
      BY <2>1, CallOps, EveryoneKept
  <1>16. CASE UNCHANGED vars
    BY <1>16, Stutter DEF EveryoneInv, tables, memory
  <1> QED
    BY <1>1, <1>2, <1>3, <1>4, <1>5, <1>6, <1>7, <1>8, <1>9, <1>10, <1>11, <1>12, <1>13, <1>14, <1>15,
       <1>16 DEF Next, Preload, Load

-----------------------------------------------------------------------------
(* A start that finds its configuration                                      *)

\* The configuration stays in tables that stay.
LEMMA StillInTables ==
    ASSUME UNCHANGED <<tables, config>>
    PROVE  InTables(config) <=> InTables(config)'
  <1>1. ChannelNames' = ChannelNames
    BY DEF ChannelNames, tables
  <1> QED
    BY <1>1 DEF InTables, UsersInTables, ChannelInTables, tables

\* A settled start whose step writes nothing and owes no new writes.
LEMMA SettledStep ==
    ASSUME SettledInv, settled, UNCHANGED <<tables, config>>,
           \A x \in Owed' : x \in Owed \/ x.op \notin {"permission", "assign"},
           \A n \in Users, s \in Servers : JoinCall(n, s) \in Owed' =>
               JoinCall(n, s) \in Owed \/ <<n, s>> \in members,
           \A c \in Chans, s \in Servers, n \in KnownUsers(config) : MemberCall(c, s, n) \in Owed' =>
               MemberCall(c, s, n) \in Owed \/ <<n, c>> \in chanMembers,
           Preloading' => mAccounts' \subseteq KnownUsers(config)
    PROVE  SettledInv'
  <1>1. config' # NoFile /\ InTables(config)'
    BY StillInTables DEF SettledInv
  <1>2. KnownUsers(config') = KnownUsers(config) /\ members' = members /\ chanMembers' = chanMembers
    BY DEF tables
  <1>3. \A x \in Owed' : x.op \notin {"permission", "assign"}
    BY DEF SettledInv
  <1>4. \A n \in Users, s \in Servers : JoinCall(n, s) \in Owed' => <<n, s>> \in members
    BY DEF SettledInv
  <1>5. \A c \in Chans, s \in Servers, n \in KnownUsers(config) :
            MemberCall(c, s, n) \in Owed' => <<n, c>> \in chanMembers
    BY DEF SettledInv
  <1> QED
    BY <1>1, <1>2, <1>3, <1>4, <1>5 DEF SettledInv

\* The same when no call about members is made.
LEMMA SettledKept ==
    ASSUME SettledInv, settled, UNCHANGED <<tables, config>>,
           \A x \in Owed' : x \in Owed \/ x.op \notin {"permission", "assign", "join", "member"},
           Preloading' => mAccounts' \subseteq KnownUsers(config)
    PROVE  SettledInv'
  <1>1. \A n \in Users, s \in Servers : JoinCall(n, s) \in Owed' => JoinCall(n, s) \in Owed
    BY CallOps
  <1>2. \A c \in Chans, s \in Servers, n \in KnownUsers(config) :
            MemberCall(c, s, n) \in Owed' => MemberCall(c, s, n) \in Owed
    BY CallOps
  <1>3. \A x \in Owed' : x \in Owed \/ x.op \notin {"permission", "assign"}
    OBVIOUS
  <1> QED
    BY <1>1, <1>2, <1>3, SettledStep

\* A settled start writes nothing, and never comes to owe a write.
LEMMA SettledNext ==
    ASSUME TypeOK, StackInv, BackedInv, PagesInv, SettledInv, [Next]_vars
    PROVE  SettledInv' /\ (settled => UNCHANGED tables)
  <1>1. CASE Start
    <2>1. /\ UNCHANGED tables /\ mAccounts' = {}
          /\ settled' => config' # NoFile /\ InTables(config)'
          /\ \A x \in Owed' : x.op \in {"admin", "server", "user", "channel", "channelPage", "accountPage"}
      BY <1>1, StartEffect, CallOps DEF memory
    <2>2. /\ \A n \in Users, s \in Servers : JoinCall(n, s) \notin Owed'
          /\ \A c \in Chans, s \in Servers, n \in KnownUsers(config') : MemberCall(c, s, n) \notin Owed'
      BY <2>1, CallOps
    <2> QED
      BY <2>1, <2>2 DEF SettledInv
  <1>2. CASE Stop
    <2>1. /\ Owed' = {} /\ UNCHANGED <<tables, config, settled>>
      BY <1>2, StopEffect
    <2> QED
      <3>1. ~Preloading'
        BY <2>1 DEF Preloading
      <3>2. settled => SettledInv'
        BY <2>1, <3>1, SettledKept
      <3> QED
        BY <2>1, <3>2 DEF SettledInv
  <1>3. CASE settled /\ Preload
    <2> SUFFICES SettledInv' /\ UNCHANGED tables
      OBVIOUS
    <2>1. /\ config # NoFile /\ config \in Configs \cup {NoFile}
          /\ KnownUsers(config) \subseteq ToSet(accounts)
          /\ \A s \in ConfiguredServers(config) : s \in servers \cap roles /\ <<Admin, s>> \in members
          /\ \A u \in ToSet(config.users) :
                 u.server \in ConfiguredServers(config) => <<u.name, u.server>> \in members
          /\ \A c \in ToSet(config.channels) :
                 \/ ChannelInTables(c, config)
                 \/ c.name \notin ChannelNames /\ c.server \notin ConfiguredServers(config)
      BY <1>3 DEF SettledInv, InTables, UsersInTables, TypeOK
    <2>2. mServers \subseteq ConfiguredServers(config)
      BY DEF BackedInv
    <2>3. ASSUME NEW h \in Owed, Rank(h) <= 4
          PROVE  mAccounts \subseteq KnownUsers(config)
      BY <1>3, <2>3 DEF SettledInv, Preloading
    <2>4. CASE PreloadAdmin
      <3>1. /\ Owed = {AdminCall} \cup Rest
            /\ \/ AccountGetOrCreate(Admin) /\ Owed' = Rest
               \/ UNCHANGED <<accounts, mAccounts>> /\ Owed' = {ChannelPage(0, << >>), AccountPage(0)}
            /\ UNCHANGED <<servers, roles, perms, members, accRoles, channels, chanMembers, config, settled>>
        BY <2>4, AdminEffect
      <3>2. Admin \in KnownUsers(config)
        BY DEF KnownUsers
      <3>3. accounts' = accounts /\ mAccounts' \subseteq mAccounts \cup {Admin}
        BY <2>1, <3>1, <3>2, AccountMade, Constants
      <3>4. mAccounts \subseteq KnownUsers(config)
        BY <2>3, <3>1, CallOps, Ranks
      <3>5. \A x \in Owed' : x \in Owed \/ x.op \notin {"permission", "assign", "join", "member"}
        BY <3>1, CallOps
      <3>6. UNCHANGED tables
        BY <3>1, <3>3 DEF tables
      <3> QED
        BY <1>3, <3>1, <3>2, <3>3, <3>4, <3>5, <3>6, SettledKept
    <2>5. CASE ServerGetOrCreate
      <3>1. PICK s \in ConfiguredServers(config) :
                /\ Owed = {ServerCall(s)} \cup Rest
                /\ servers' = servers \/ servers' = servers \cup {s}
                /\ Owed' \subseteq {RoleCall(s), JoinCall(Admin, s), ServerMembersCall(s)} \cup Rest
        BY <2>5, ServerEffect
      <3>2. /\ UNCHANGED <<accounts, roles, perms, members, accRoles, channels, chanMembers, config,
                           settled, mAccounts>>
        BY <2>5, ServerEffect
      <3>3. UNCHANGED tables
        BY <2>1, <3>1, <3>2 DEF tables
      <3>4. mAccounts \subseteq KnownUsers(config)
        BY <2>3, <3>1, CallOps, Ranks
      <3>5. \A n \in Users, t \in Servers : JoinCall(n, t) \in Owed' =>
                JoinCall(n, t) \in Owed \/ <<n, t>> \in members
        <4> TAKE n \in Users, t \in Servers
        <4>1. /\ JoinCall(n, t) # RoleCall(s) /\ JoinCall(n, t) # ServerMembersCall(s)
              /\ JoinCall(n, t) = JoinCall(Admin, s) => n = Admin /\ t = s
          BY CallOps, SameJoin
        <4> QED
          BY <2>1, <3>1, <4>1
      <3>6. \A c \in Chans, t \in Servers, n \in KnownUsers(config) :
                MemberCall(c, t, n) \in Owed' => MemberCall(c, t, n) \in Owed
        BY <3>1, CallOps
      <3>7. \A x \in Owed' : x \in Owed \/ x.op \notin {"permission", "assign"}
        BY <3>1, CallOps
      <3> QED
        BY <1>3, <3>2, <3>3, <3>4, <3>5, <3>6, <3>7, SettledStep
    <2>6. CASE CreateRoleForServer
      <3>1. PICK s \in ConfiguredServers(config) :
                /\ Owed = {RoleCall(s)} \cup Rest
                /\ (roles' = roles /\ Owed' = Rest) \/ s \notin roles
        BY <2>6, RoleEffect
      <3>2. UNCHANGED <<accounts, servers, perms, members, accRoles, channels, chanMembers, config,
                        settled, mAccounts>>
        BY <2>6, RoleEffect
      <3>3. UNCHANGED tables /\ Owed' = Rest
        BY <2>1, <3>1, <3>2 DEF tables
      <3>4. mAccounts \subseteq KnownUsers(config)
        BY <2>3, <3>1, CallOps, Ranks
      <3>5. \A x \in Owed' : x \in Owed
        BY <3>1, <3>3
      <3> QED
        BY <1>3, <3>2, <3>3, <3>4, <3>5, SettledKept
    <2>7. CASE PermissionGetOrCreate
      <3>1. \E s : PermissionCall(s) \in Owed
        BY <2>7, PermissionEffect
      <3> QED
        BY <1>3, <3>1, CallOps DEF SettledInv
    <2>8. CASE AssignRole
      <3>1. \E n, s : AssignCall(n, s) \in Owed
        BY <2>8, AssignEffect
      <3> QED
        BY <1>3, <3>1, CallOps DEF SettledInv
    <2>9. CASE ServerAddMember
      <3>1. PICK n \in Users, s \in ConfiguredServers(config) :
                /\ Owed = {JoinCall(n, s)} \cup Rest
                /\ \/ members' = members \cup {<<n, s>>} /\ (Owed' = Rest \/ <<n, s>> \notin members)
                   \/ members' = members /\ Owed' = Rest
        BY <2>9, JoinEffect
      <3>2. UNCHANGED <<accounts, servers, roles, perms, accRoles, channels, chanMembers, config,
                        settled, mAccounts>>
        BY <2>9, JoinEffect
      <3>3. <<n, s>> \in members
        <4>1. s \in Servers
          BY <2>1, Constants
        <4> QED
          BY <1>3, <3>1, <4>1 DEF SettledInv
      <3>4. UNCHANGED tables /\ Owed' = Rest
        BY <3>1, <3>2, <3>3 DEF tables
      <3>5. mAccounts \subseteq KnownUsers(config)
        BY <2>3, <3>1, CallOps, Ranks
      <3>6. \A x \in Owed' : x \in Owed
        BY <3>1, <3>4
      <3> QED
        BY <1>3, <3>2, <3>4, <3>5, <3>6, SettledKept
    <2>10. CASE LoadServerMembers
      <3>1. /\ \E s : Owed = {ServerMembersCall(s)} \cup Rest
            /\ Owed' = Rest /\ UNCHANGED <<tables, config, settled, mAccounts>>
        BY <2>10, ServerMembersEffect
      <3>2. mAccounts \subseteq KnownUsers(config)
        BY <2>3, <3>1, CallOps, Ranks
      <3>3. \A x \in Owed' : x \in Owed
        BY <3>1
      <3> QED
        BY <1>3, <3>1, <3>2, <3>3, SettledKept
    <2>11. CASE PreloadUser
      <3>1. PICK u \in ToSet(config.users) :
                /\ Owed = {UserCall(u)} \cup Rest
                /\ AccountGetOrCreate(u.name) \/ UNCHANGED <<accounts, mAccounts>>
                /\ \/ u.server \in mServers /\ Owed' = {JoinCall(u.name, u.server)} \cup Rest
                   \/ Owed' = Rest
        BY <2>11, UserEffect
      <3>2. UNCHANGED <<servers, roles, perms, members, accRoles, channels, chanMembers, config, settled>>
        BY <2>11, UserEffect
      <3>3. u.name \in KnownUsers(config) /\ u.name \in Users
        BY <2>1, Constants
      <3>4. accounts' = accounts /\ mAccounts' \subseteq mAccounts \cup {u.name}
        BY <2>1, <3>1, <3>3, AccountMade
      <3>5. mAccounts \subseteq KnownUsers(config)
        BY <2>3, <3>1, CallOps, Ranks
      <3>6. \A n \in Users, t \in Servers : JoinCall(n, t) \in Owed' =>
                JoinCall(n, t) \in Owed \/ <<n, t>> \in members
        <4> TAKE n \in Users, t \in Servers
        <4>1. JoinCall(n, t) = JoinCall(u.name, u.server) => n = u.name /\ t = u.server
          BY SameJoin
        <4> QED
          BY <2>1, <2>2, <3>1, <4>1
      <3>7. \A c \in Chans, t \in Servers, n \in KnownUsers(config) :
                MemberCall(c, t, n) \in Owed' => MemberCall(c, t, n) \in Owed
        BY <3>1, CallOps
      <3>8. \A x \in Owed' : x \in Owed \/ x.op \notin {"permission", "assign"}
        BY <3>1, CallOps
      <3>9. UNCHANGED tables
        BY <3>2, <3>4 DEF tables
      <3> QED
        BY <1>3, <3>2, <3>3, <3>4, <3>5, <3>6, <3>7, <3>8, <3>9, SettledStep
    <2>12. CASE PreloadChannel
      <3>1. PICK c \in ToSet(config.channels) :
                /\ Owed = {ChannelCall(c)} \cup Rest
                /\ \/ /\ ChannelFound(c.name) \/ c.server \in mServers
                      /\ channels' = IF ChannelFound(c.name) THEN channels
                                     ELSE Append(channels, [name |-> c.name, server |-> c.server])
                      /\ Owed' = {MemberCall(c.name, c.server, n) : n \in ToSet(c.members)} \cup Rest
                   \/ Owed' = Rest /\ channels' = channels
        BY <2>12, ChannelEffect
      <3>2. UNCHANGED <<accounts, servers, roles, perms, members, accRoles, chanMembers, config, settled,
                        mAccounts>>
        BY <2>12, ChannelEffect
      <3>3. mAccounts \subseteq KnownUsers(config)
        BY <2>3, <3>1, CallOps, Ranks
      <3>4. CASE Owed' = Rest /\ channels' = channels
        <4>1. \A x \in Owed' : x \in Owed
          BY <3>1, <3>4
        <4>2. UNCHANGED tables
          BY <3>2, <3>4 DEF tables
        <4> QED
          BY <1>3, <3>2, <3>3, <4>1, <4>2, SettledKept
      <3>5. CASE /\ ChannelFound(c.name) \/ c.server \in mServers
                 /\ channels' = IF ChannelFound(c.name) THEN channels
                                ELSE Append(channels, [name |-> c.name, server |-> c.server])
                 /\ Owed' = {MemberCall(c.name, c.server, n) : n \in ToSet(c.members)} \cup Rest
        <4>1. ChannelInTables(c, config)
          BY <2>1, <2>2, <3>5 DEF ChannelFound, BackedInv
        <4>2. channels' = channels
          BY <3>5, <4>1 DEF ChannelFound, ChannelInTables
        <4>3. UNCHANGED tables
          BY <3>2, <4>2 DEF tables
        <4>4. \A d \in Chans, t \in Servers, n \in KnownUsers(config) : MemberCall(d, t, n) \in Owed' =>
                  MemberCall(d, t, n) \in Owed \/ <<n, d>> \in chanMembers
          <5> SUFFICES ASSUME NEW d \in Chans, NEW t \in Servers, NEW n \in KnownUsers(config),
                              NEW m \in ToSet(c.members), MemberCall(d, t, n) = MemberCall(c.name, c.server, m)
                       PROVE  <<n, d>> \in chanMembers
            BY <3>1, <3>5
          <5>1. d = c.name /\ n = m
            BY SameMember
          <5> QED
            BY <4>1, <5>1 DEF ChannelInTables
        <4>5. \A n \in Users, t \in Servers : JoinCall(n, t) \in Owed' => JoinCall(n, t) \in Owed
          BY <3>1, <3>5, CallOps
        <4>6. \A x \in Owed' : x \in Owed \/ x.op \notin {"permission", "assign"}
          BY <3>1, <3>5, CallOps
        <4> QED
          BY <1>3, <3>2, <3>3, <4>3, <4>4, <4>5, <4>6, SettledStep
      <3> QED
        BY <3>1, <3>4, <3>5
    <2>13. CASE PreloadMember
      <3>1. PICK c \in Chans, s \in Servers, n \in Users :
                /\ Owed = {MemberCall(c, s, n)} \cup Rest /\ Owed' = Rest
                /\ \/ chanMembers' = chanMembers
                   \/ n \in mAccounts /\ chanMembers' = chanMembers \cup {<<n, c>>}
        BY <2>13, MemberEffect
      <3>2. UNCHANGED <<accounts, servers, roles, perms, members, accRoles, channels, config, settled,
                        mAccounts>>
        BY <2>13, MemberEffect
      <3>3. mAccounts \subseteq KnownUsers(config)
        BY <2>3, <3>1, CallOps, Ranks
      <3>4. n \in mAccounts => <<n, c>> \in chanMembers
        BY <1>3, <3>1, <3>3 DEF SettledInv
      <3>5. UNCHANGED tables
        BY <3>1, <3>2, <3>4 DEF tables
      <3>6. \A x \in Owed' : x \in Owed
        BY <3>1
      <3> QED
        BY <1>3, <3>1, <3>2, <3>3, <3>5, <3>6, SettledKept
    <2> QED
      BY <1>3, <2>4, <2>5, <2>6, <2>7, <2>8, <2>9, <2>10, <2>11, <2>12, <2>13 DEF Preload
  <1>4. CASE Load
    <2>1. /\ UNCHANGED <<tables, config, settled>>
          /\ \A x \in Owed' : (x \in Owed \/ x.op \notin {"permission", "assign", "join", "member"})
                             /\ Rank(x) \in {5, 6, 7}
      <3>1. CASE LoadChannels
        <4>1. PICK o \in Nat, l \in Seq(Chans), list \in Seq(Chans) :
                  /\ Owed = {ChannelPage(o, l)} \cup Rest /\ \A y \in Rest : Rank(y) = 7
                  /\ \/ Owed' = {ChannelPage(Len(list), list)} \cup Rest
                     \/ Owed' = {ChannelMembersCall(c) : c \in ToSet(list)} \cup Rest
          BY <3>1, ChannelPageEffect
        <4>2. \A x \in Owed' : \/ x \in Rest
                               \/ x.op = "channelPage" /\ Rank(x) = 5
                               \/ x.op = "channelMembers" /\ Rank(x) = 6
          BY <4>1, CallOps, Ranks
        <4>3. UNCHANGED <<tables, config, settled>>
          BY <3>1, ChannelPageEffect
        <4> QED
          BY <4>1, <4>2, <4>3
      <3>2. CASE LoadChannelMembers
        BY <3>2, ChannelMembersEffect
      <3>3. CASE LoadAccounts
        <4>1. PICK o : /\ Owed = {AccountPage(o)} \cup Rest /\ \A y \in Rest : Rank(y) = 7
                       /\ Owed' = {AccountPage(o + PageSize)} \cup Rest \/ Owed' = Rest
          BY <3>3, AccountPageEffect
        <4>2. /\ AccountPage(o + PageSize).op = "accountPage" /\ Rank(AccountPage(o + PageSize)) = 7
          BY CallOps, Ranks
        <4> QED
          BY <3>3, <4>1, <4>2, AccountPageEffect
      <3> QED
        BY <1>4, <3>1, <3>2, <3>3 DEF Load
    <2>2. ~Preloading'
      BY <2>1 DEF Preloading
    <2>3. settled => SettledInv'
      BY <2>1, <2>2, SettledKept
    <2> QED
      BY <2>1, <2>3 DEF SettledInv
  <1>5. CASE UNCHANGED vars
    <2>1. UNCHANGED <<tables, memory, config, settled>> /\ Owed' = Owed
      BY <1>5, Stutter
    <2>2. Preloading' = Preloading
      BY <2>1 DEF Preloading
    <2>3. settled => SettledInv'
      BY <2>1, <2>2, SettledKept DEF SettledInv, memory
    <2> QED
      BY <2>1, <2>3 DEF SettledInv
  <1>6. CASE ~settled /\ Preload
    <2>1. settled' = settled
      BY <1>6 DEF Preload, PreloadAdmin, ServerGetOrCreate, CreateRoleForServer, PermissionGetOrCreate,
                  AssignRole, ServerAddMember, LoadServerMembers, PreloadUser, PreloadChannel, PreloadMember
    <2> QED
      BY <1>6, <2>1 DEF SettledInv
  <1> QED
    BY <1>1, <1>2, <1>3, <1>4, <1>5, <1>6 DEF Next


-----------------------------------------------------------------------------
(* How far the tables are read                                               *)

\* Pages have the arguments they were asked for with.
LEMMA ChannelPageOf ==
    ASSUME NEW o, NEW l, NEW x, x = ChannelPage(o, l)
    PROVE  x.offset = o /\ x.list = l
  BY DEF ChannelPage

LEMMA AccountPageOf ==
    ASSUME NEW o, NEW x, x = AccountPage(o)
    PROVE  x.offset = o
  BY DEF AccountPage

\* Before the lists of members are read, tables may grow at their end.
LEMMA PagesPreload ==
    ASSUME TypeOK, PagesInv, UNCHANGED mMembers, NEW z \in Owed, Rank(z) <= 5,
           \A k \in DOMAIN accounts : k \in DOMAIN accounts' /\ accounts'[k] = accounts[k],
           \A k \in DOMAIN channels : k \in DOMAIN channels' /\ channels'[k] = channels[k],
           mAccounts \subseteq mAccounts',
           \A x \in Owed' : x.op \in {"accountPage", "channelPage"} =>
               x \in Owed \/ x = ChannelPage(0, << >>) \/ x = AccountPage(0)
    PROVE  PagesInv'
  <1>1. \A c \in Chans : mMembers'[c] = << >>
    BY DEF PagesInv
  <1>2. ASSUME NEW x \in Owed', x.op = "accountPage", NEW k \in 1 .. x.offset
        PROVE  k \in DOMAIN accounts' /\ accounts'[k] \in mAccounts'
    <2>1. x # ChannelPage(0, << >>)
      BY <1>2, CallOps
    <2>2. x # AccountPage(0)
      BY AccountPageOf
    <2>3. x \in Owed
      BY <1>2, <2>1, <2>2
    <2>4. k \in DOMAIN accounts /\ accounts[k] \in mAccounts
      BY <1>2, <2>3 DEF PagesInv
    <2> QED
      BY <2>4
  <1>3. ASSUME NEW x \in Owed', x.op = "channelPage"
        PROVE  /\ Len(x.list) = x.offset
               /\ \A k \in 1 .. x.offset : k \in DOMAIN channels' /\ channels'[k].name = x.list[k]
    <2>1. CASE x = ChannelPage(0, << >>)
      <3>1. x.offset = 0 /\ x.list = << >>
        BY <2>1, ChannelPageOf
      <3> QED
        BY <3>1
    <2>2. CASE x \in Owed
      <3>1. /\ Len(x.list) = x.offset
            /\ \A k \in 1 .. x.offset : k \in DOMAIN channels /\ channels[k].name = x.list[k]
        BY <1>3, <2>2 DEF PagesInv
      <3> QED
        BY <3>1
    <2>3. x # AccountPage(0)
      BY <1>3, CallOps
    <2> QED
      BY <1>3, <2>1, <2>2, <2>3
  <1> QED
    BY <1>1, <1>2, <1>3 DEF PagesInv

\* The tables do not change, and no page is asked for.
LEMMA PagesFrame ==
    ASSUME TypeOK, PagesInv, UNCHANGED <<accounts, channels, mAccounts, mMembers>>,
           NEW z \in Owed, Rank(z) \in 0 .. 4,
           \A x \in Owed' : x \in Owed \/ x.op \notin {"accountPage", "channelPage"}
    PROVE  PagesInv'
  <1>1. Rank(z) <= 5
    OBVIOUS
  <1> QED
    BY <1>1, PagesPreload

\* What is read stays read, whatever the step.
LEMMA PagesNext ==
    ASSUME TypeOK, StackInv, BackedInv, PagesInv, [Next]_vars
    PROVE  PagesInv'
  <1>1. CASE Start
    <2>1. /\ UNCHANGED <<tables, memory>> /\ \A c \in Chans : mMembers[c] = << >>
          /\ \A x \in Owed' : /\ x.op = "accountPage" => x = AccountPage(0)
                              /\ x.op = "channelPage" => x = ChannelPage(0, << >>)
      BY <1>1, StartEffect, CallOps
    <2>2. \A c \in Chans : mMembers'[c] = << >>
      BY <2>1 DEF memory
    <2>3. ASSUME NEW x \in Owed', x.op = "accountPage"
          PROVE  x.offset = 0
      BY <2>1, <2>3, AccountPageOf
    <2>4. ASSUME NEW x \in Owed', x.op = "channelPage"
          PROVE  x.offset = 0 /\ Len(x.list) = 0
      <3>1. x.offset = 0 /\ x.list = << >>
        BY <2>1, <2>4, ChannelPageOf
      <3> QED
        BY <3>1
    <2> QED
      BY <2>2, <2>3, <2>4 DEF PagesInv
  <1>2. CASE Stop
    BY <1>2, StopEffect DEF PagesInv
  <1>3. CASE PreloadAdmin
    <2>1. /\ UNCHANGED <<channels, mMembers>>
          /\ \/ AccountGetOrCreate(Admin) /\ Owed' = Rest
             \/ UNCHANGED <<accounts, mAccounts>> /\ Owed' = {ChannelPage(0, << >>), AccountPage(0)}
          /\ Owed = {AdminCall} \cup Rest
      BY <1>3, AdminEffect
    <2>2. /\ \A k \in DOMAIN accounts : k \in DOMAIN accounts' /\ accounts'[k] = accounts[k]
          /\ mAccounts \subseteq mAccounts'
      BY <2>1, AccountMade, Constants
    <2>3. AdminCall \in Owed /\ Rank(AdminCall) = 1
      BY <2>1, CallOps, Ranks
    <2> QED
      BY <2>1, <2>2, <2>3, PagesPreload
  <1>4. CASE ServerGetOrCreate
    <2>1. PICK s \in ConfiguredServers(config) :
              /\ Owed = {ServerCall(s)} \cup Rest
              /\ Owed' \subseteq {JoinCall(Admin, s), RoleCall(s), ServerMembersCall(s)} \cup Rest
              /\ UNCHANGED <<accounts, channels, mAccounts, mMembers>>
      BY <1>4, ServerEffect
    <2>2. Rank(ServerCall(s)) = 2
      BY CallOps, Ranks
    <2> QED
      BY <2>1, <2>2, CallOps, PagesFrame
  <1>5. CASE CreateRoleForServer
    <2>1. PICK s \in ConfiguredServers(config) :
              /\ Owed = {RoleCall(s)} \cup Rest
              /\ \A x \in Owed' : x \in Rest \/ x = PermissionCall(s) \/ \E n \in Users : x = AssignCall(n, s)
              /\ UNCHANGED <<accounts, channels, mAccounts, mMembers>>
      BY <1>5, RoleEffect
    <2>2. Rank(RoleCall(s)) = 0
      BY CallOps, Ranks
    <2> QED
      BY <2>1, <2>2, CallOps, PagesFrame
  <1>6. CASE PermissionGetOrCreate
    <2>1. PICK s \in ConfiguredServers(config) :
              /\ Owed = {PermissionCall(s)} \cup Rest /\ Owed' = Rest
              /\ UNCHANGED <<accounts, channels, mAccounts, mMembers>>
      BY <1>6, PermissionEffect DEF memory
    <2>2. Rank(PermissionCall(s)) = 0
      BY CallOps, Ranks
    <2> QED
      BY <2>1, <2>2, PagesFrame
  <1>7. CASE AssignRole
    <2>1. PICK n \in Users, s \in ConfiguredServers(config) :
              /\ Owed = {AssignCall(n, s)} \cup Rest /\ Owed' = Rest
              /\ UNCHANGED <<accounts, channels, mAccounts, mMembers>>
      BY <1>7, AssignEffect DEF memory
    <2>2. Rank(AssignCall(n, s)) = 0
      BY CallOps, Ranks
    <2> QED
      BY <2>1, <2>2, PagesFrame
  <1>8. CASE ServerAddMember
    <2>1. PICK n \in Users, s \in ConfiguredServers(config) :
              /\ Owed = {JoinCall(n, s)} \cup Rest /\ Owed' \subseteq {AssignCall(n, s)} \cup Rest
              /\ UNCHANGED <<accounts, channels, mAccounts, mMembers>>
      BY <1>8, JoinEffect
    <2>2. Rank(JoinCall(n, s)) = 1
      BY CallOps, Ranks
    <2> QED
      BY <2>1, <2>2, CallOps, PagesFrame
  <1>9. CASE LoadServerMembers
    <2>1. PICK s \in ConfiguredServers(config) :
              /\ Owed = {ServerMembersCall(s)} \cup Rest /\ Owed' = Rest
              /\ UNCHANGED <<accounts, channels, mAccounts, mMembers>>
      BY <1>9, ServerMembersEffect DEF tables
    <2>2. Rank(ServerMembersCall(s)) = 1
      BY CallOps, Ranks
    <2> QED
      BY <2>1, <2>2, PagesFrame
  <1>10. CASE PreloadUser
    <2>1. PICK u \in ToSet(config.users) :
              /\ Owed = {UserCall(u)} \cup Rest
              /\ Owed' \subseteq {JoinCall(u.name, u.server)} \cup Rest
              /\ AccountGetOrCreate(u.name) \/ UNCHANGED <<accounts, mAccounts>>
              /\ UNCHANGED <<channels, mMembers>> /\ config # NoFile
      BY <1>10, UserEffect
    <2>2. u.name \in Users
      BY <2>1, Constants DEF TypeOK
    <2>3. /\ \A k \in DOMAIN accounts : k \in DOMAIN accounts' /\ accounts'[k] = accounts[k]
          /\ mAccounts \subseteq mAccounts'
      BY <2>1, <2>2, AccountMade
    <2>4. Rank(UserCall(u)) = 3
      BY CallOps, Ranks
    <2> QED
      BY <2>1, <2>3, <2>4, CallOps, PagesPreload
  <1>11. CASE PreloadChannel
    <2>1. PICK c \in ToSet(config.channels) :
              /\ Owed = {ChannelCall(c)} \cup Rest
              /\ \/ Owed' = {MemberCall(c.name, c.server, n) : n \in ToSet(c.members)} \cup Rest
                 \/ Owed' = Rest
              /\ \/ channels' = IF ChannelFound(c.name) THEN channels
                                ELSE Append(channels, [name |-> c.name, server |-> c.server])
                 \/ channels' = channels
              /\ UNCHANGED <<accounts, mAccounts, mMembers>> /\ config # NoFile
      BY <1>11, ChannelEffect
    <2>2. c.name \in Chans /\ c.server \in Servers
      BY <2>1, Constants DEF TypeOK
    <2>3. \A k \in DOMAIN channels : k \in DOMAIN channels' /\ channels'[k] = channels[k]
      BY <2>1, <2>2, ChannelMade
    <2>4. Rank(ChannelCall(c)) = 4
      BY CallOps, Ranks
    <2>5. \A x \in Owed' : x.op \in {"accountPage", "channelPage"} => x \in Owed
      BY <2>1, CallOps
    <2> QED
      BY <2>1, <2>3, <2>4, <2>5, PagesPreload
  <1>12. CASE PreloadMember
    <2>1. PICK c \in Chans, s \in Servers, n \in Users :
              /\ Owed = {MemberCall(c, s, n)} \cup Rest /\ Owed' = Rest
              /\ UNCHANGED <<accounts, channels, mAccounts, mMembers>>
      BY <1>12, MemberEffect
    <2>2. Rank(MemberCall(c, s, n)) = 4
      BY CallOps, Ranks
    <2> QED
      BY <2>1, <2>2, PagesFrame
  <1>13. CASE LoadChannels
    <2>1. PICK o \in Nat, l \in Seq(Chans) :
              /\ Owed = {ChannelPage(o, l)} \cup Rest
              /\ \A y \in Rest : Rank(y) = 7
              /\ \/ \E list \in Seq(Chans) :
                        /\ Len(list) \in Nat
                        /\ \A k \in 1 .. Len(list) :
                               k \in DOMAIN channels /\ channels[k].name = list[k]
                        /\ \/ Owed' = {ChannelPage(Len(list), list)} \cup Rest
                           \/ Owed' = {ChannelMembersCall(c) : c \in ToSet(list)} \cup Rest
                 \/ Owed' = {ChannelMembersCall(c) : c \in ToSet(l)} \cup Rest
      BY <1>13, ChannelPageEffect
    <2>2. UNCHANGED <<accounts, channels, mAccounts, mMembers>>
      BY <1>13, ChannelPageEffect DEF tables
    <2>3. \A c \in Chans : mMembers'[c] = << >>
      <3>1. ChannelPage(o, l) \in Owed /\ Rank(ChannelPage(o, l)) = 5
        BY <2>1, CallOps, Ranks
      <3> QED
        BY <2>2, <3>1 DEF PagesInv
    <2>4. ASSUME NEW x \in Owed', x.op = "accountPage"
          PROVE  \A k \in 1 .. x.offset : k \in DOMAIN accounts' /\ accounts'[k] \in mAccounts'
      <3>1. x \in Owed
        BY <2>1, <2>4, CallOps
      <3> QED
        BY <2>2, <2>4, <3>1 DEF PagesInv
    <2>5. ASSUME NEW x \in Owed', x.op = "channelPage"
          PROVE  /\ Len(x.list) = x.offset
                 /\ \A k \in 1 .. x.offset : k \in DOMAIN channels' /\ channels'[k].name = x.list[k]
      <3>1. x \notin Rest
        <4>1. Rank(x) = 5
          BY <2>5, Ranks
        <4> QED
          BY <2>1, <4>1
      <3>2. PICK list \in Seq(Chans) :
                /\ \A k \in 1 .. Len(list) : k \in DOMAIN channels /\ channels[k].name = list[k]
                /\ x = ChannelPage(Len(list), list)
        BY <2>1, <2>5, <3>1, CallOps
      <3>3. x.offset = Len(list) /\ x.list = list
        BY <3>2, ChannelPageOf
      <3> QED
        BY <2>2, <3>2, <3>3
    <2> QED
      BY <2>3, <2>4, <2>5 DEF PagesInv
  <1>14. CASE LoadChannelMembers
    <2>1. PICK c \in Chans :
              /\ Owed = {ChannelMembersCall(c)} \cup Rest
              /\ Owed' = Rest /\ ChannelMembersCall(c) \notin Rest
              /\ \A y \in Rest : Rank(y) \in {6, 7}
              /\ MembersListed(c)' \/ mMembers'[c] = mMembers[c]
              /\ \A d \in Chans \ {c} : mMembers'[d] = mMembers[d]
      BY <1>14, ChannelMembersEffect
    <2>2. UNCHANGED <<accounts, channels, chanMembers>> /\ mAccounts \subseteq mAccounts'
      BY <1>14, ChannelMembersEffect DEF tables
    <2>3. \A x \in Owed' : x.op # "channelPage" /\ ~(Rank(x) <= 5)
      BY <2>1, Ranks
    <2>4. ASSUME NEW d \in Chans
          PROVE  /\ ChannelMembersCall(d) \in Owed' => mMembers'[d] = << >>
                 /\ mMembers'[d] = << >> \/ MembersListed(d)'
      <3>1. CASE d = c
        BY <2>1, <3>1 DEF PagesInv
      <3>2. CASE d # c
        BY <2>1, <2>2, <3>2 DEF PagesInv, MembersListed
      <3> QED
        BY <3>1, <3>2
    <2>5. \A x \in Owed' : x.op = "accountPage" =>
              \A k \in 1 .. x.offset : k \in DOMAIN accounts' /\ accounts'[k] \in mAccounts'
      BY <2>1, <2>2 DEF PagesInv
    <2> QED
      BY <2>3, <2>4, <2>5 DEF PagesInv
  <1>15. CASE LoadAccounts
    <2>1. PICK o \in Nat :
              /\ Owed = {AccountPage(o)} \cup Rest
              /\ \A y \in Rest : Rank(y) = 7
              /\ \/ /\ Owed' = {AccountPage(o + PageSize)} \cup Rest
                    /\ \A k \in 1 .. o + PageSize :
                           k \in DOMAIN accounts /\ accounts[k] \in mAccounts'
                 \/ Owed' = Rest
      BY <1>15, AccountPageEffect
    <2>2. UNCHANGED <<accounts, channels, chanMembers, mMembers>> /\ mAccounts \subseteq mAccounts'
      BY <1>15, AccountPageEffect DEF tables
    <2>3. \A x \in Owed' : Rank(x) = 7
      BY <2>1, CallOps, Ranks
    <2>4. \A x \in Owed' : x.op # "channelPage" /\ x.op # "channelMembers" /\ ~(Rank(x) <= 5)
      BY <2>3, Ranks
    <2>5. \A c \in Chans : ChannelMembersCall(c) \notin Owed'
      BY <2>4, CallOps
    <2>6. ASSUME NEW x \in Owed', x.op = "accountPage"
          PROVE  \A k \in 1 .. x.offset : k \in DOMAIN accounts' /\ accounts'[k] \in mAccounts'
      <3>1. CASE x \in Owed
        BY <2>2, <2>6, <3>1 DEF PagesInv
      <3>2. CASE x \notin Owed
        <4>1. /\ x = AccountPage(o + PageSize)
              /\ \A k \in 1 .. o + PageSize : k \in DOMAIN accounts /\ accounts[k] \in mAccounts'
          BY <2>1, <3>2
        <4>2. x.offset = o + PageSize
          BY <4>1, AccountPageOf
        <4> QED
          BY <2>2, <4>1, <4>2
      <3> QED
        BY <3>1, <3>2
    <2>7. \A c \in Chans : mMembers'[c] = << >> \/ MembersListed(c)'
      BY <2>2 DEF PagesInv, MembersListed
    <2> QED
      BY <2>4, <2>5, <2>6, <2>7 DEF PagesInv
  <1>16. CASE UNCHANGED vars
    BY <1>16, Stutter DEF PagesInv, MembersListed, tables, memory
  <1> QED
    BY <1>1, <1>2, <1>3, <1>4, <1>5, <1>6, <1>7, <1>8, <1>9, <1>10, <1>11, <1>12, <1>13, <1>14, <1>15,
       <1>16 DEF Next, Preload, Load

-----------------------------------------------------------------------------
(* What is read when a start ends                                            *)

\* While the preload file is applied, the reading of both tables is still to come.
LEMMA LoadedPreload ==
    ASSUME TypeOK, StackInv, LoadedInv, up,
           NEW z, Owed = {z} \cup Rest, Rank(z) \in 0 .. 4, z.op # "accountPage",
           ~cleanStart' \/ (cleanStart' = cleanStart /\ Rest \subseteq Owed'),
           ToSet(accounts') \subseteq ToSet(accounts) \cup mAccounts', mAccounts \subseteq mAccounts'
    PROVE  LoadedInv'
  <1>1. CASE ~cleanStart'
    BY <1>1 DEF LoadedInv
  <1>2. CASE cleanStart' = cleanStart /\ Rest \subseteq Owed'
    <2>1. ChannelPage(0, << >>) \in Owed /\ Rank(ChannelPage(0, << >>)) = 5
      BY CallOps, Ranks DEF StackInv, Preloading
    <2>2. ChannelPage(0, << >>) \in Owed'
      BY <1>2, <2>1
    <2>3. \E x \in Owed' : x.op = "channelPage"
      BY <2>2, CallOps
    <2>4. cleanStart =>
              ToSet(accounts') \subseteq mAccounts' \/ \E x \in Owed' : x.op = "accountPage"
      BY <1>2 DEF LoadedInv
    <2> QED
      BY <1>2, <2>3, <2>4 DEF LoadedInv
  <1> QED
    BY <1>1, <1>2

\* The same for a call that touches neither the table nor the cache of accounts.
LEMMA LoadedFrame ==
    ASSUME TypeOK, StackInv, LoadedInv, up,
           NEW z, Owed = {z} \cup Rest, Rank(z) \in 0 .. 4,
           ~cleanStart' \/ (cleanStart' = cleanStart /\ Rest \subseteq Owed'),
           UNCHANGED <<accounts, mAccounts>>
    PROVE  LoadedInv'
  <1>1. z.op # "accountPage"
    BY Ranks
  <1> QED
    BY <1>1, LoadedPreload

\* A step that succeeds leaves cleanStart, one that fails sets it to FALSE.
LEMMA Steps == (StepSucceeds => cleanStart' = cleanStart) /\ (StepFails => ~cleanStart')
  BY DEF StepSucceeds, StepFails

\* A clean start reads what there is, whatever the step.
LEMMA LoadedNext ==
    ASSUME TypeOK, StackInv, BackedInv, PagesInv, LoadedInv, [Next]_vars
    PROVE  LoadedInv'
  <1>1. CASE Start
    <2>1. ChannelPage(0, << >>) \in Owed' /\ AccountPage(0) \in Owed'
      BY <1>1, StartEffect
    <2> QED
      BY <2>1, CallOps DEF LoadedInv
  <1>2. CASE Stop
    BY <1>2, StopEffect DEF LoadedInv
  <1>3. CASE PreloadAdmin
    <2>1. /\ up /\ Owed = {AdminCall} \cup Rest
          /\ \/ ~cleanStart'
             \/ cleanStart' = cleanStart /\ Owed' = Rest /\ AccountGetOrCreate(Admin)
      BY <1>3, AdminEffect, Steps
    <2>2. Rank(AdminCall) = 1 /\ AdminCall.op # "accountPage"
      BY CallOps, Ranks
    <2>3. CASE ~cleanStart'
      BY <2>3 DEF LoadedInv
    <2>4. CASE cleanStart' = cleanStart /\ Owed' = Rest /\ AccountGetOrCreate(Admin)
      <3>1. /\ ToSet(accounts') \subseteq ToSet(accounts) \cup mAccounts'
            /\ mAccounts \subseteq mAccounts'
        BY <2>4, AccountMade, Constants
      <3> QED
        BY <2>1, <2>2, <2>4, <3>1, LoadedPreload
    <2> QED
      BY <2>1, <2>3, <2>4
  <1>4. CASE ServerGetOrCreate
    <2>1. PICK s \in ConfiguredServers(config) :
              /\ up /\ Owed = {ServerCall(s)} \cup Rest /\ Rest \subseteq Owed'
              /\ UNCHANGED <<accounts, mAccounts>> /\ (~cleanStart' \/ cleanStart' = cleanStart)
      BY <1>4, ServerEffect, Steps DEF StepSucceeds
    <2>2. Rank(ServerCall(s)) = 2
      BY CallOps, Ranks
    <2> QED
      BY <2>1, <2>2, LoadedFrame
  <1>5. CASE CreateRoleForServer
    <2>1. PICK s \in ConfiguredServers(config) :
              /\ up /\ Owed = {RoleCall(s)} \cup Rest /\ Rest \subseteq Owed'
              /\ UNCHANGED <<accounts, mAccounts>> /\ (~cleanStart' \/ cleanStart' = cleanStart)
      BY <1>5, RoleEffect, Steps
    <2>2. Rank(RoleCall(s)) = 0
      BY CallOps, Ranks
    <2> QED
      BY <2>1, <2>2, LoadedFrame
  <1>6. CASE PermissionGetOrCreate
    <2>1. PICK s \in ConfiguredServers(config) :
              /\ up /\ Owed = {PermissionCall(s)} \cup Rest /\ Owed' = Rest
              /\ UNCHANGED <<accounts, mAccounts>> /\ (~cleanStart' \/ cleanStart' = cleanStart)
      BY <1>6, PermissionEffect, Steps DEF memory
    <2>2. Rank(PermissionCall(s)) = 0
      BY CallOps, Ranks
    <2> QED
      BY <2>1, <2>2, LoadedFrame
  <1>7. CASE AssignRole
    <2>1. PICK n \in Users, s \in ConfiguredServers(config) :
              /\ up /\ Owed = {AssignCall(n, s)} \cup Rest /\ Owed' = Rest
              /\ UNCHANGED <<accounts, mAccounts>> /\ (~cleanStart' \/ cleanStart' = cleanStart)
      BY <1>7, AssignEffect, Steps DEF memory
    <2>2. Rank(AssignCall(n, s)) = 0
      BY CallOps, Ranks
    <2> QED
      BY <2>1, <2>2, LoadedFrame
  <1>8. CASE ServerAddMember
    <2>1. PICK n \in Users, s \in ConfiguredServers(config) :
              /\ up /\ Owed = {JoinCall(n, s)} \cup Rest /\ Rest \subseteq Owed'
              /\ UNCHANGED <<accounts, mAccounts>> /\ (~cleanStart' \/ cleanStart' = cleanStart)
      BY <1>8, JoinEffect, Steps
    <2>2. Rank(JoinCall(n, s)) = 1
      BY CallOps, Ranks
    <2> QED
      BY <2>1, <2>2, LoadedFrame
  <1>9. CASE LoadServerMembers
    <2>1. PICK s \in ConfiguredServers(config) :
              /\ up /\ Owed = {ServerMembersCall(s)} \cup Rest /\ Owed' = Rest
              /\ UNCHANGED <<accounts, mAccounts>> /\ (~cleanStart' \/ cleanStart' = cleanStart)
      BY <1>9, ServerMembersEffect, Steps DEF tables
    <2>2. Rank(ServerMembersCall(s)) = 1
      BY CallOps, Ranks
    <2> QED
      BY <2>1, <2>2, LoadedFrame
  <1>10. CASE PreloadUser
    <2>1. PICK u \in ToSet(config.users) :
              /\ up /\ Owed = {UserCall(u)} \cup Rest /\ Rest \subseteq Owed' /\ config # NoFile
              /\ ~cleanStart' \/ (cleanStart' = cleanStart /\ AccountGetOrCreate(u.name))
      BY <1>10, UserEffect, Steps
    <2>2. Rank(UserCall(u)) = 3 /\ UserCall(u).op # "accountPage"
      BY CallOps, Ranks
    <2>3. CASE ~cleanStart'
      BY <2>3 DEF LoadedInv
    <2>4. CASE cleanStart' = cleanStart /\ AccountGetOrCreate(u.name)
      <3>1. u.name \in Users
        BY <2>1, Constants DEF TypeOK
      <3>2. /\ ToSet(accounts') \subseteq ToSet(accounts) \cup mAccounts'
            /\ mAccounts \subseteq mAccounts'
        BY <2>4, <3>1, AccountMade
      <3> QED
        BY <2>1, <2>2, <2>4, <3>2, LoadedPreload
    <2> QED
      BY <2>1, <2>3, <2>4
  <1>11. CASE PreloadChannel
    <2>1. PICK c \in ToSet(config.channels) :
              /\ up /\ Owed = {ChannelCall(c)} \cup Rest /\ Rest \subseteq Owed'
              /\ UNCHANGED <<accounts, mAccounts>> /\ (~cleanStart' \/ cleanStart' = cleanStart)
      BY <1>11, ChannelEffect, Steps
    <2>2. Rank(ChannelCall(c)) = 4
      BY CallOps, Ranks
    <2> QED
      BY <2>1, <2>2, LoadedFrame
  <1>12. CASE PreloadMember
    <2>1. PICK c \in Chans, s \in Servers, n \in Users :
              /\ up /\ Owed = {MemberCall(c, s, n)} \cup Rest /\ Owed' = Rest
              /\ UNCHANGED <<accounts, mAccounts>> /\ (~cleanStart' \/ cleanStart' = cleanStart)
      BY <1>12, MemberEffect, Steps
    <2>2. Rank(MemberCall(c, s, n)) = 4
      BY CallOps, Ranks
    <2> QED
      BY <2>1, <2>2, LoadedFrame
  <1>13. CASE LoadChannels
    <2>1. PICK o \in Nat, l \in Seq(Chans) :
              /\ up /\ Owed = {ChannelPage(o, l)} \cup Rest /\ Rest \subseteq Owed'
              /\ \/ /\ cleanStart' = cleanStart
                    /\ \E list \in Seq(Chans) :
                           /\ mChannels' = mChannels \cup ToSet(list)
                           /\ \/ ChannelPage(Len(list), list) \in Owed'
                              \/ /\ \A c \in ToSet(list) : ChannelMembersCall(c) \in Owed'
                                 /\ ToSet(list) = ChannelNames
                 \/ ~cleanStart'
      BY <1>13, ChannelPageEffect, Steps
    <2>2. UNCHANGED <<accounts, channels, chanMembers, mAccounts, mMembers>>
      BY <1>13, ChannelPageEffect DEF tables
    <2>3. CASE ~cleanStart'
      BY <2>3 DEF LoadedInv
    <2>4. CASE cleanStart' = cleanStart /\ cleanStart
      <3>1. ToSet(accounts') \subseteq mAccounts' \/ \E x \in Owed' : x.op = "accountPage"
        BY <2>1, <2>2, <2>4, CallOps DEF LoadedInv
      <3>2. CASE \E x \in Owed' : x.op = "channelPage"
        BY <3>1, <3>2 DEF LoadedInv
      <3>3. CASE /\ ChannelNames \subseteq mChannels'
                 /\ \A c \in ChannelNames : ChannelMembersCall(c) \in Owed'
        <4>1. ASSUME NEW c \in Chans \ ChannelNames
              PROVE  MembersListed(c)'
          <5>1. mMembers[c] = << >>
            <6>1. ChannelPage(o, l) \in Owed /\ Rank(ChannelPage(o, l)) = 5
              BY <2>1, CallOps, Ranks
            <6> QED
              BY <6>1 DEF PagesInv
          <5>2. {n \in Users : <<n, c>> \in chanMembers} = {}
            <6> SUFFICES ASSUME NEW n \in Users, <<n, c>> \in chanMembers
                         PROVE  FALSE
              OBVIOUS
            <6>1. <<n, c>>[2] \in ChannelNames
              BY DEF BackedInv
            <6> QED
              BY <4>1, <6>1
          <5>3. ToSet(mMembers[c]) = {} /\ Len(mMembers[c]) = 0 /\ Cardinality({}) = 0
            BY <5>1, Nothing, FS_EmptySet
          <5> QED
            BY <2>2, <5>2, <5>3 DEF MembersListed
        <4>2. ChannelNames' = ChannelNames
          BY <2>2 DEF ChannelNames
        <4> QED
          BY <3>1, <3>3, <4>1, <4>2 DEF LoadedInv
      <3> QED
        BY <2>1, <2>4, <3>2, <3>3, CallOps
    <2> QED
      BY <2>1, <2>3, <2>4
  <1>14. CASE LoadChannelMembers
    <2>1. PICK c \in Chans :
              /\ up /\ Owed = {ChannelMembersCall(c)} \cup Rest /\ Owed' = Rest
              /\ ~cleanStart' \/ (cleanStart' = cleanStart /\ MembersListed(c)')
              /\ \A d \in Chans \ {c} : mMembers'[d] = mMembers[d]
      BY <1>14, ChannelMembersEffect, Steps
    <2>2. UNCHANGED <<accounts, channels, chanMembers, mChannels>> /\ mAccounts \subseteq mAccounts'
      BY <1>14, ChannelMembersEffect DEF tables
    <2>3. CASE ~cleanStart'
      BY <2>3 DEF LoadedInv
    <2>4. CASE cleanStart' = cleanStart /\ cleanStart /\ MembersListed(c)'
      <3>1. /\ (\E x \in Owed : x.op = "channelPage") => \E x \in Owed' : x.op = "channelPage"
            /\ (\E x \in Owed : x.op = "accountPage") => \E x \in Owed' : x.op = "accountPage"
        BY <2>1, CallOps
      <3>2. /\ ToSet(accounts') \subseteq mAccounts' \/ \E x \in Owed' : x.op = "accountPage"
            /\ ChannelNames' \subseteq mChannels' \/ \E x \in Owed' : x.op = "channelPage"
        BY <2>1, <2>2, <2>4, <3>1 DEF LoadedInv, ChannelNames
      <3>3. ASSUME NEW d \in Chans \ {c}
            PROVE  MembersListed(d)' \/ ChannelMembersCall(d) \in Owed' \/ \E x \in Owed' : x.op = "channelPage"
        <4>1. ChannelMembersCall(d) \in Owed => ChannelMembersCall(d) \in Owed'
          BY <2>1, SameChannel
        <4>2. MembersListed(d) => MembersListed(d)'
          BY <2>1, <2>2 DEF MembersListed
        <4> QED
          BY <2>1, <2>4, <3>1, <4>1, <4>2 DEF LoadedInv
      <3> QED
        BY <2>4, <3>2, <3>3 DEF LoadedInv
    <2> QED
      BY <2>1, <2>3, <2>4 DEF TypeOK
  <1>15. CASE LoadAccounts
    <2>1. PICK o \in Nat :
              /\ up /\ Owed = {AccountPage(o)} \cup Rest /\ Rest \subseteq Owed'
              /\ \/ /\ cleanStart' = cleanStart
                    /\ \/ AccountPage(o + PageSize) \in Owed'
                       \/ ToSet(accounts) \subseteq mAccounts'
                 \/ ~cleanStart'
      BY <1>15, AccountPageEffect, Steps
    <2>2. UNCHANGED <<accounts, channels, chanMembers, mChannels, mMembers>>
      BY <1>15, AccountPageEffect DEF tables
    <2>3. CASE ~cleanStart'
      BY <2>3 DEF LoadedInv
    <2>4. CASE /\ cleanStart' = cleanStart /\ cleanStart
               /\ AccountPage(o + PageSize) \in Owed' \/ ToSet(accounts) \subseteq mAccounts'
      <3>1. ToSet(accounts') \subseteq mAccounts' \/ \E x \in Owed' : x.op = "accountPage"
        BY <2>2, <2>4, CallOps
      <3>2. /\ (\E x \in Owed : x.op = "channelPage") => \E x \in Owed' : x.op = "channelPage"
            /\ \A c : ChannelMembersCall(c) \in Owed => ChannelMembersCall(c) \in Owed'
        BY <2>1, CallOps
      <3>3. \A c \in Chans : MembersListed(c) => MembersListed(c)'
        BY <2>2 DEF MembersListed
      <3>4. ChannelNames' = ChannelNames
        BY <2>2 DEF ChannelNames
      <3> QED
        BY <2>1, <2>2, <2>4, <3>1, <3>2, <3>3, <3>4 DEF LoadedInv
    <2> QED
      BY <2>1, <2>3, <2>4
  <1>16. CASE UNCHANGED vars
    BY <1>16, Stutter DEF LoadedInv, MembersListed, ChannelNames, tables, memory
  <1> QED
    BY <1>1, <1>2, <1>3, <1>4, <1>5, <1>6, <1>7, <1>8, <1>9, <1>10, <1>11, <1>12, <1>13, <1>14, <1>15,
       <1>16 DEF Next, Preload, Load

-----------------------------------------------------------------------------
(* What the preload file asks for                                            *)

\* Calls for the same entry.
LEMMA SameUser ==
    ASSUME NEW u, NEW v, UserCall(u) = UserCall(v)
    PROVE  u.name = v.name /\ u.server = v.server
  <1>1. /\ UserCall(u).n = u.name /\ UserCall(u).s = u.server
        /\ UserCall(v).n = v.name /\ UserCall(v).s = v.server
    BY DEF UserCall
  <1> QED
    BY <1>1

LEMMA SameEntry ==
    ASSUME NEW b, NEW c, ChannelCall(b) = ChannelCall(c)
    PROVE  b.name = c.name /\ b.server = c.server /\ b.members = c.members
  <1>1. /\ ChannelCall(b).c = b.name /\ ChannelCall(b).s = b.server /\ ChannelCall(b).list = b.members
        /\ ChannelCall(c).c = c.name /\ ChannelCall(c).s = c.server /\ ChannelCall(c).list = c.members
    BY DEF ChannelCall
  <1> QED
    BY <1>1

\* What is to be done of a user, a server and a channel of the file that was owed.
UserDone(u) ==
    /\ u.name \in mAccounts'
    /\ u.server \in ConfiguredServers(config) =>
           <<u.name, u.server>> \in members' \/ JoinCall(u.name, u.server) \in Owed'
ServerDone(s) == s \in mServers' /\ JoinCall(Admin, s) \in Owed'
ChannelDone(c) ==
    \/ Lost(c, config)'
    \/ /\ c.name \in ChannelNames'
       /\ \A n \in ToSet(c.members) : MemberCall(c.name, c.server, n) \in Owed'

\* A step of a clean start loses no call: what was owed is owed or done.
LEMMA AppliedStep ==
    ASSUME TypeOK, AppliedInv, up, cleanStart, config # NoFile, UNCHANGED config,
           mAccounts \subseteq mAccounts', mServers \subseteq mServers', servers \subseteq servers',
           roles \subseteq roles', members \subseteq members', chanMembers \subseteq chanMembers',
           ChannelNames \subseteq ChannelNames',
           AdminCall \in Owed => AdminCall \in Owed' \/ Admin \in mAccounts',
           \A u \in ToSet(config.users) : UserCall(u) \in Owed => UserCall(u) \in Owed' \/ UserDone(u),
           \A s \in ConfiguredServers(config) :
               ServerCall(s) \in Owed => ServerCall(s) \in Owed' \/ ServerDone(s),
           \A s \in Servers, n \in Users :
               JoinCall(n, s) \in Owed => JoinCall(n, s) \in Owed' \/ <<n, s>> \in members',
           \A s \in mServers : RoleCall(s) \in Owed => RoleCall(s) \in Owed' \/ s \in roles',
           \A s \in mServers' \ mServers : s \in servers' /\ RoleCall(s) \in Owed',
           \A c \in ToSet(config.channels) :
               ChannelCall(c) \in Owed => ChannelCall(c) \in Owed' \/ ChannelDone(c),
           \A c \in Chans, s \in Servers, n \in KnownUsers(config) :
               MemberCall(c, s, n) \in Owed => MemberCall(c, s, n) \in Owed' \/ <<n, c>> \in chanMembers',
           \A c \in ToSet(config.channels) : Lost(c, config) => Lost(c, config)'
    PROVE  AppliedInv'
  <1>1. /\ ConfiguredServers(config) \subseteq Servers /\ Admin \in Users
        /\ \A u \in ToSet(config.users) : u.name \in Users /\ u.server \in Servers
        /\ \A c \in ToSet(config.channels) : c.name \in Chans /\ c.server \in Servers
    BY Constants DEF TypeOK
  <1>2. ASSUME NEW n \in KnownUsers(config)
        PROVE  \/ n \in mAccounts'
               \/ n = Admin /\ AdminCall \in Owed'
               \/ \E u \in ToSet(config.users) : u.name = n /\ UserCall(u) \in Owed'
    <2>1. CASE n \in mAccounts
      BY <2>1
    <2>2. CASE n = Admin /\ AdminCall \in Owed
      BY <2>2
    <2>3. CASE \E u \in ToSet(config.users) : u.name = n /\ UserCall(u) \in Owed
      BY <2>3 DEF UserDone
    <2> QED
      BY <2>1, <2>2, <2>3 DEF AppliedInv
  <1>3. ASSUME NEW s \in ConfiguredServers(config)
        PROVE  /\ s \in mServers' \/ ServerCall(s) \in Owed'
               /\ <<Admin, s>> \in members' \/ ServerCall(s) \in Owed' \/ JoinCall(Admin, s) \in Owed'
    <2>1. /\ s \in mServers \/ ServerCall(s) \in Owed
          /\ <<Admin, s>> \in members \/ ServerCall(s) \in Owed \/ JoinCall(Admin, s) \in Owed
      BY DEF AppliedInv
    <2>2. ServerCall(s) \in Owed => ServerCall(s) \in Owed' \/ ServerDone(s)
      OBVIOUS
    <2>3. JoinCall(Admin, s) \in Owed => JoinCall(Admin, s) \in Owed' \/ <<Admin, s>> \in members'
      BY <1>1
    <2> QED
      BY <2>1, <2>2, <2>3 DEF ServerDone
  <1>4. ASSUME NEW s \in mServers'
        PROVE  s \in servers' /\ (s \in roles' \/ RoleCall(s) \in Owed')
    BY DEF AppliedInv
  <1>5. ASSUME NEW u \in ToSet(config.users), u.server \in ConfiguredServers(config)
        PROVE  \/ <<u.name, u.server>> \in members'
               \/ UserCall(u) \in Owed' \/ JoinCall(u.name, u.server) \in Owed'
    <2>1. \/ <<u.name, u.server>> \in members
          \/ UserCall(u) \in Owed \/ JoinCall(u.name, u.server) \in Owed
      BY <1>5 DEF AppliedInv
    <2>2. JoinCall(u.name, u.server) \in Owed =>
              JoinCall(u.name, u.server) \in Owed' \/ <<u.name, u.server>> \in members'
      BY <1>1
    <2>3. UserCall(u) \in Owed => UserCall(u) \in Owed' \/ UserDone(u)
      OBVIOUS
    <2> QED
      BY <1>5, <2>1, <2>2, <2>3 DEF UserDone
  <1>6. ASSUME NEW c \in ToSet(config.channels)
        PROVE  \/ ChannelCall(c) \in Owed'
               \/ Lost(c, config)'
               \/ /\ c.name \in ChannelNames'
                  /\ \A n \in ToSet(c.members) \cap KnownUsers(config) :
                         <<n, c.name>> \in chanMembers' \/ MemberCall(c.name, c.server, n) \in Owed'
    <2>1. CASE ChannelCall(c) \in Owed
      BY <2>1 DEF ChannelDone
    <2>2. CASE Lost(c, config)
      BY <2>2
    <2>3. CASE /\ c.name \in ChannelNames
               /\ \A n \in ToSet(c.members) \cap KnownUsers(config) :
                      <<n, c.name>> \in chanMembers \/ MemberCall(c.name, c.server, n) \in Owed
      <3> SUFFICES ASSUME NEW n \in ToSet(c.members) \cap KnownUsers(config)
                   PROVE  <<n, c.name>> \in chanMembers' \/ MemberCall(c.name, c.server, n) \in Owed'
        BY <2>3
      <3>1. MemberCall(c.name, c.server, n) \in Owed =>
                MemberCall(c.name, c.server, n) \in Owed' \/ <<n, c.name>> \in chanMembers'
        BY <1>1
      <3> QED
        BY <2>3, <3>1
    <2> QED
      BY <2>1, <2>2, <2>3 DEF AppliedInv
  <1> QED
    BY <1>2, <1>3, <1>4, <1>5, <1>6 DEF AppliedInv

\* Channels lost stay lost as long as the table of channels is the same.
LEMMA StillLost ==
    ASSUME UNCHANGED <<channels, config>>, NEW c, Lost(c, config)
    PROVE  Lost(c, config)'
  BY DEF Lost, ChannelNames, ConfiguredServers

\* A call that applies nothing itself.
LEMMA AppliedFrame ==
    ASSUME TypeOK, AppliedInv, cleanStart' => cleanStart,
           UNCHANGED <<up, config, servers, roles, members, channels, chanMembers, mServers>>,
           mAccounts \subseteq mAccounts',
           \A x \in Owed : x \in Owed' \/
               x.op \notin {"admin", "user", "server", "join", "role", "channel", "member"}
    PROVE  AppliedInv'
  <1> SUFFICES ASSUME up', cleanStart', config' # NoFile
               PROVE  AppliedInv'
    BY DEF AppliedInv
  <1>1. /\ AdminCall \in Owed => AdminCall \in Owed'
        /\ \A u : UserCall(u) \in Owed => UserCall(u) \in Owed'
        /\ \A s : ServerCall(s) \in Owed => ServerCall(s) \in Owed'
        /\ \A n, s : JoinCall(n, s) \in Owed => JoinCall(n, s) \in Owed'
        /\ \A s : RoleCall(s) \in Owed => RoleCall(s) \in Owed'
        /\ \A c : ChannelCall(c) \in Owed => ChannelCall(c) \in Owed'
        /\ \A c, s, n : MemberCall(c, s, n) \in Owed => MemberCall(c, s, n) \in Owed'
    BY CallOps
  <1>2. ChannelNames' = ChannelNames
    BY DEF ChannelNames
  <1>3. \A c \in ToSet(config.channels) : Lost(c, config) => Lost(c, config)'
    BY StillLost
  <1> QED
    BY <1>1, <1>2, <1>3, AppliedStep

\* What the file asks for is done or owed, whatever the step.
LEMMA AppliedNext ==
    ASSUME TypeOK, StackInv, BackedInv, PagesInv, AppliedInv, [Next]_vars
    PROVE  AppliedInv'
  <1> SUFFICES ASSUME up', cleanStart', config' # NoFile
               PROVE  AppliedInv'
    BY DEF AppliedInv
  <1>1. CASE Start
    <2>1. /\ mServers' = {} /\ AdminCall \in Owed'
          /\ \A s \in ConfiguredServers(config') : ServerCall(s) \in Owed'
          /\ \A u \in ToSet(config'.users) : UserCall(u) \in Owed'
          /\ \A c \in ToSet(config'.channels) : ChannelCall(c) \in Owed'
      BY <1>1, StartEffect DEF memory
    <2>2. ASSUME NEW n \in KnownUsers(config')
          PROVE  n = Admin \/ \E u \in ToSet(config'.users) : u.name = n
      BY DEF KnownUsers
    <2> QED
      BY <2>1, <2>2 DEF AppliedInv
  <1>2. CASE Stop
    BY <1>2, StopEffect
  <1>3. CASE PreloadAdmin
    <2>1. /\ up /\ cleanStart /\ config # NoFile /\ AccountGetOrCreate(Admin)
          /\ Owed = {AdminCall} \cup Rest /\ Owed' = Rest
      BY <1>3, AdminEffect, Steps
    <2>2. UNCHANGED <<servers, roles, members, channels, chanMembers, mServers, config>>
      BY <1>3, AdminEffect
    <2>3. mAccounts \subseteq mAccounts' /\ Admin \in mAccounts'
      BY <2>1, AccountMade, Constants
    <2>4. /\ \A u : UserCall(u) \in Owed => UserCall(u) \in Owed'
          /\ \A s : ServerCall(s) \in Owed => ServerCall(s) \in Owed'
          /\ \A n, s : JoinCall(n, s) \in Owed => JoinCall(n, s) \in Owed'
          /\ \A s : RoleCall(s) \in Owed => RoleCall(s) \in Owed'
          /\ \A c : ChannelCall(c) \in Owed => ChannelCall(c) \in Owed'
          /\ \A c, s, n : MemberCall(c, s, n) \in Owed => MemberCall(c, s, n) \in Owed'
      BY <2>1, CallOps
    <2>5. ChannelNames' = ChannelNames
      BY <2>2 DEF ChannelNames
    <2>6. \A c \in ToSet(config.channels) : Lost(c, config) => Lost(c, config)'
      BY <2>2, StillLost
    <2> QED
      BY <2>1, <2>2, <2>3, <2>4, <2>5, <2>6, AppliedStep
  <1>4. CASE ServerGetOrCreate
    <2>1. PICK s \in ConfiguredServers(config) :
              /\ up /\ cleanStart /\ config # NoFile
              /\ Owed = {ServerCall(s)} \cup Rest /\ Rest \subseteq Owed'
              /\ JoinCall(Admin, s) \in Owed'
              /\ \/ s \in mServers /\ UNCHANGED <<servers, mServers>>
                 \/ /\ servers' = servers \cup {s} /\ mServers' = mServers \cup {s}
                    /\ RoleCall(s) \in Owed'
      BY <1>4, ServerEffect, Steps
    <2>2. UNCHANGED <<roles, members, channels, chanMembers, mAccounts, config>>
      BY <1>4, ServerEffect
    <2>3. /\ AdminCall \in Owed => AdminCall \in Owed'
          /\ \A u : UserCall(u) \in Owed => UserCall(u) \in Owed'
          /\ \A t : ServerCall(t) \in Owed => ServerCall(t) \in Owed' \/ t = s
          /\ \A n, t : JoinCall(n, t) \in Owed => JoinCall(n, t) \in Owed'
          /\ \A t : RoleCall(t) \in Owed => RoleCall(t) \in Owed'
          /\ \A c : ChannelCall(c) \in Owed => ChannelCall(c) \in Owed'
          /\ \A c, t, n : MemberCall(c, t, n) \in Owed => MemberCall(c, t, n) \in Owed'
      BY <2>1, CallOps, SameServer
    <2>4. ServerDone(s)
      BY <2>1 DEF ServerDone
    <2>5. ChannelNames' = ChannelNames
      BY <2>2 DEF ChannelNames
    <2>6. \A c \in ToSet(config.channels) : Lost(c, config) => Lost(c, config)'
      BY <2>2, StillLost
    <2>7. /\ servers \subseteq servers' /\ mServers \subseteq mServers'
          /\ \A t \in mServers' \ mServers : t \in servers' /\ RoleCall(t) \in Owed'
      BY <2>1
    <2> QED
      BY <2>1, <2>2, <2>3, <2>4, <2>5, <2>6, <2>7, AppliedStep
  <1>5. CASE CreateRoleForServer
    <2>1. PICK s \in ConfiguredServers(config) :
              /\ up /\ cleanStart /\ config # NoFile
              /\ Owed = {RoleCall(s)} \cup Rest /\ Rest \subseteq Owed'
              /\ roles \subseteq roles' /\ s \in roles'
      BY <1>5, RoleEffect, Steps
    <2>2. UNCHANGED <<servers, members, channels, chanMembers, mServers, mAccounts, config>>
      BY <1>5, RoleEffect
    <2>3. /\ AdminCall \in Owed => AdminCall \in Owed'
          /\ \A u : UserCall(u) \in Owed => UserCall(u) \in Owed'
          /\ \A t : ServerCall(t) \in Owed => ServerCall(t) \in Owed'
          /\ \A n, t : JoinCall(n, t) \in Owed => JoinCall(n, t) \in Owed'
          /\ \A t : RoleCall(t) \in Owed => RoleCall(t) \in Owed' \/ t = s
          /\ \A c : ChannelCall(c) \in Owed => ChannelCall(c) \in Owed'
          /\ \A c, t, n : MemberCall(c, t, n) \in Owed => MemberCall(c, t, n) \in Owed'
      BY <2>1, CallOps, SameServer
    <2>4. ChannelNames' = ChannelNames
      BY <2>2 DEF ChannelNames
    <2>5. \A c \in ToSet(config.channels) : Lost(c, config) => Lost(c, config)'
      BY <2>2, StillLost
    <2> QED
      BY <2>1, <2>2, <2>3, <2>4, <2>5, AppliedStep
  <1>6. CASE PermissionGetOrCreate
    <2>1. /\ \E s : Owed = {PermissionCall(s)} \cup Rest
          /\ Owed' = Rest /\ (cleanStart' => cleanStart) /\ up
          /\ UNCHANGED <<up, config, servers, roles, members, channels, chanMembers, mServers, mAccounts>>
      BY <1>6, PermissionEffect, Steps DEF memory
    <2> QED
      BY <2>1, CallOps, AppliedFrame
  <1>7. CASE AssignRole
    <2>1. /\ \E n, s : Owed = {AssignCall(n, s)} \cup Rest
          /\ Owed' = Rest /\ (cleanStart' => cleanStart) /\ up
          /\ UNCHANGED <<up, config, servers, roles, members, channels, chanMembers, mServers, mAccounts>>
      BY <1>7, AssignEffect, Steps DEF memory
    <2> QED
      BY <2>1, CallOps, AppliedFrame
  <1>8. CASE ServerAddMember
    <2>1. PICK n \in Users, s \in ConfiguredServers(config) :
              /\ up /\ cleanStart /\ config # NoFile
              /\ Owed = {JoinCall(n, s)} \cup Rest /\ Rest \subseteq Owed'
              /\ members' = members \cup {<<n, s>>}
      BY <1>8, JoinEffect, Steps
    <2>2. UNCHANGED <<servers, roles, channels, chanMembers, mServers, mAccounts, config>>
      BY <1>8, JoinEffect
    <2>3. /\ AdminCall \in Owed => AdminCall \in Owed'
          /\ \A u : UserCall(u) \in Owed => UserCall(u) \in Owed'
          /\ \A t : ServerCall(t) \in Owed => ServerCall(t) \in Owed'
          /\ \A t : RoleCall(t) \in Owed => RoleCall(t) \in Owed'
          /\ \A c : ChannelCall(c) \in Owed => ChannelCall(c) \in Owed'
          /\ \A c, t, m : MemberCall(c, t, m) \in Owed => MemberCall(c, t, m) \in Owed'
      BY <2>1, CallOps
    <2>4. \A t, m : JoinCall(m, t) \in Owed => JoinCall(m, t) \in Owed' \/ <<m, t>> \in members'
      BY <2>1, SameJoin
    <2>5. ChannelNames' = ChannelNames
      BY <2>2 DEF ChannelNames
    <2>6. \A c \in ToSet(config.channels) : Lost(c, config) => Lost(c, config)'
      BY <2>2, StillLost
    <2> QED
      BY <2>1, <2>2, <2>3, <2>4, <2>5, <2>6, AppliedStep
  <1>9. CASE LoadServerMembers
    <2>1. /\ \E s : Owed = {ServerMembersCall(s)} \cup Rest
          /\ Owed' = Rest /\ (cleanStart' => cleanStart) /\ up
          /\ UNCHANGED <<up, config, servers, roles, members, channels, chanMembers, mServers, mAccounts>>
      BY <1>9, ServerMembersEffect, Steps DEF tables
    <2> QED
      BY <2>1, CallOps, AppliedFrame
  <1>10. CASE PreloadUser
    <2>1. PICK u \in ToSet(config.users) :
              /\ up /\ cleanStart /\ config # NoFile /\ AccountGetOrCreate(u.name)
              /\ Owed = {UserCall(u)} \cup Rest /\ Rest \subseteq Owed'
              /\ \A y \in Rest : Rank(y) >= 3
              /\ JoinCall(u.name, u.server) \in Owed' \/ u.server \notin mServers
      BY <1>10, UserEffect, Steps
    <2>2. UNCHANGED <<servers, roles, members, channels, chanMembers, mServers, config>>
      BY <1>10, UserEffect
    <2>3. u.name \in Users
      BY <2>1, Constants DEF TypeOK
    <2>4. mAccounts \subseteq mAccounts' /\ u.name \in mAccounts'
      BY <2>1, <2>3, AccountMade
    <2>5. ASSUME u.server \in ConfiguredServers(config), u.server \notin mServers
          PROVE  FALSE
      <3>1. ServerCall(u.server) \in Owed
        BY <2>1, <2>5 DEF AppliedInv
      <3>2. Rank(ServerCall(u.server)) = 2 /\ Rank(UserCall(u)) = 3
        BY CallOps, Ranks
      <3> QED
        BY <2>1, <3>1, <3>2
    <2>6. UserDone(u)
      BY <2>1, <2>4, <2>5 DEF UserDone
    <2>7. /\ AdminCall \in Owed => AdminCall \in Owed'
          /\ \A s : ServerCall(s) \in Owed => ServerCall(s) \in Owed'
          /\ \A n, s : JoinCall(n, s) \in Owed => JoinCall(n, s) \in Owed'
          /\ \A s : RoleCall(s) \in Owed => RoleCall(s) \in Owed'
          /\ \A c : ChannelCall(c) \in Owed => ChannelCall(c) \in Owed'
          /\ \A c, s, n : MemberCall(c, s, n) \in Owed => MemberCall(c, s, n) \in Owed'
      BY <2>1, CallOps
    <2>8. ASSUME NEW v \in ToSet(config.users), UserCall(v) \in Owed
          PROVE  UserCall(v) \in Owed' \/ UserDone(v)
      <3>1. CASE UserCall(v) \in Rest
        BY <2>1, <3>1
      <3>2. CASE UserCall(v) = UserCall(u)
        <4>1. v.name = u.name /\ v.server = u.server
          BY <3>2, SameUser
        <4> QED
          BY <2>6, <4>1 DEF UserDone
      <3> QED
        BY <2>1, <2>8, <3>1, <3>2
    <2>9. ChannelNames' = ChannelNames
      BY <2>2 DEF ChannelNames
    <2>10. \A c \in ToSet(config.channels) : Lost(c, config) => Lost(c, config)'
      BY <2>2, StillLost
    <2> QED
      BY <2>1, <2>2, <2>4, <2>7, <2>8, <2>9, <2>10, AppliedStep
  <1>11. CASE PreloadChannel
    <2>1. PICK c \in ToSet(config.channels) :
              /\ up /\ cleanStart /\ config # NoFile
              /\ Owed = {ChannelCall(c)} \cup Rest /\ Rest \subseteq Owed'
              /\ \A y \in Rest : Rank(y) >= 4
              /\ \/ /\ ChannelFound(c.name) \/ c.server \in mServers
                    /\ channels' = IF ChannelFound(c.name) THEN channels
                                   ELSE Append(channels, [name |-> c.name, server |-> c.server])
                    /\ \A n \in ToSet(c.members) : MemberCall(c.name, c.server, n) \in Owed'
                 \/ ~ChannelFound(c.name) /\ c.server \notin mServers /\ channels' = channels
      BY <1>11, ChannelEffect, Steps
    <2>2. UNCHANGED <<servers, roles, members, chanMembers, mServers, mAccounts, config>>
      BY <1>11, ChannelEffect
    <2>3. c.name \in Chans /\ c.server \in Servers
      BY <2>1, Constants DEF TypeOK
    <2>4. mServers = ConfiguredServers(config)
      <3>1. ASSUME NEW s \in ConfiguredServers(config), s \notin mServers
            PROVE  FALSE
        <4>1. ServerCall(s) \in Owed
          BY <2>1, <3>1 DEF AppliedInv
        <4>2. Rank(ServerCall(s)) = 2 /\ Rank(ChannelCall(c)) = 4
          BY CallOps, Ranks
        <4> QED
          BY <2>1, <4>1, <4>2
      <3> QED
        BY <3>1 DEF BackedInv
    <2>5. \/ ChannelNames' = ChannelNames /\ c.name \in ChannelNames
          \/ /\ ChannelNames' = ChannelNames \cup {c.name}
             /\ c.server \in ConfiguredServers(config)
          \/ /\ ChannelNames' = ChannelNames /\ c.name \notin ChannelNames
             /\ c.server \notin ConfiguredServers(config)
      <3>1. CASE ~ChannelFound(c.name) /\ c.server \notin mServers /\ channels' = channels
        BY <2>4, <3>1 DEF ChannelNames, ChannelFound
      <3>2. CASE channels' = IF ChannelFound(c.name) THEN channels
                             ELSE Append(channels, [name |-> c.name, server |-> c.server])
        <4>1. ChannelNames' = ChannelNames \cup {c.name}
          BY <2>3, <3>2, ChannelMade
        <4>2. ChannelFound(c.name) => c.name \in ChannelNames
          BY DEF ChannelFound, BackedInv
        <4>3. ChannelFound(c.name) => channels' = channels
          BY <3>2
        <4> QED
          BY <2>1, <2>4, <3>2, <4>1, <4>2, <4>3
      <3> QED
        BY <2>1, <3>1, <3>2
    <2>6. ASSUME NEW d \in ToSet(config.channels), Lost(d, config)
          PROVE  Lost(d, config)'
      BY <2>1, <2>2, <2>5, <2>6 DEF Lost, ConfiguredServers
    <2>7. ChannelDone(c)
      <3>1. CASE c.name \notin ChannelNames /\ c.server \notin mServers
        <4>1. ~ChannelFound(c.name) /\ ChannelNames' = ChannelNames
          BY <2>4, <2>5, <3>1 DEF ChannelFound, BackedInv
        <4> QED
          BY <2>2, <2>4, <3>1, <4>1 DEF ChannelDone, Lost, ConfiguredServers
      <3>2. CASE c.name \in ChannelNames \/ c.server \in mServers
        <4>1. ChannelFound(c.name) \/ c.server \in mServers
          BY <3>2 DEF ChannelFound
        <4>2. \A n \in ToSet(c.members) : MemberCall(c.name, c.server, n) \in Owed'
          BY <2>1, <4>1
        <4>3. c.name \in ChannelNames'
          BY <2>4, <2>5, <3>2
        <4> QED
          BY <4>2, <4>3 DEF ChannelDone
      <3> QED
        BY <3>1, <3>2
    <2>8. /\ AdminCall \in Owed => AdminCall \in Owed'
          /\ \A u : UserCall(u) \in Owed => UserCall(u) \in Owed'
          /\ \A s : ServerCall(s) \in Owed => ServerCall(s) \in Owed'
          /\ \A n, s : JoinCall(n, s) \in Owed => JoinCall(n, s) \in Owed'
          /\ \A s : RoleCall(s) \in Owed => RoleCall(s) \in Owed'
          /\ \A d, s, n : MemberCall(d, s, n) \in Owed => MemberCall(d, s, n) \in Owed'
      BY <2>1, CallOps
    <2>9. ASSUME NEW d \in ToSet(config.channels), ChannelCall(d) \in Owed
          PROVE  ChannelCall(d) \in Owed' \/ ChannelDone(d)
      <3>1. CASE ChannelCall(d) \in Rest
        BY <2>1, <3>1
      <3>2. CASE ChannelCall(d) = ChannelCall(c)
        <4>1. d.name = c.name /\ d.server = c.server /\ d.members = c.members
          BY <3>2, SameEntry
        <4> QED
          BY <2>7, <4>1 DEF ChannelDone, Lost
      <3> QED
        BY <2>1, <2>9, <3>1, <3>2
    <2>10. ChannelNames \subseteq ChannelNames'
      BY <2>5
    <2> QED
      BY <2>1, <2>2, <2>6, <2>8, <2>9, <2>10, AppliedStep
  <1>12. CASE PreloadMember
    <2>1. PICK c \in Chans, s \in Servers, n \in Users :
              /\ up /\ cleanStart /\ config # NoFile
              /\ Owed = {MemberCall(c, s, n)} \cup Rest /\ Owed' = Rest
              /\ \A y \in Rest : Rank(y) >= 4
              /\ \/ n \notin mAccounts /\ chanMembers' = chanMembers
                 \/ chanMembers' = chanMembers \cup {<<n, c>>}
      BY <1>12, MemberEffect, Steps
    <2>2. UNCHANGED <<servers, roles, members, channels, mServers, mAccounts, config>>
      BY <1>12, MemberEffect
    <2>3. KnownUsers(config) \subseteq mAccounts
      <3> SUFFICES ASSUME NEW m \in KnownUsers(config), m \notin mAccounts
                   PROVE  FALSE
        OBVIOUS
      <3>1. \A x \in Owed : x.op # "admin" /\ x.op # "user"
        BY <2>1, CallOps, Ranks
      <3>2. AdminCall \in Owed \/ \E u : UserCall(u) \in Owed
        BY <2>1 DEF AppliedInv
      <3> QED
        BY <3>1, <3>2, CallOps
    <2>4. ASSUME NEW d \in Chans, NEW t \in Servers, NEW m \in KnownUsers(config),
                 MemberCall(d, t, m) \in Owed
          PROVE  MemberCall(d, t, m) \in Owed' \/ <<m, d>> \in chanMembers'
      <3>1. CASE MemberCall(d, t, m) \in Rest
        BY <2>1, <3>1
      <3>2. CASE MemberCall(d, t, m) = MemberCall(c, s, n)
        <4>1. d = c /\ m = n
          BY <3>2, SameMember
        <4> QED
          BY <2>1, <2>3, <4>1
      <3> QED
        BY <2>1, <2>4, <3>1, <3>2
    <2>5. /\ AdminCall \in Owed => AdminCall \in Owed'
          /\ \A u : UserCall(u) \in Owed => UserCall(u) \in Owed'
          /\ \A t : ServerCall(t) \in Owed => ServerCall(t) \in Owed'
          /\ \A m, t : JoinCall(m, t) \in Owed => JoinCall(m, t) \in Owed'
          /\ \A t : RoleCall(t) \in Owed => RoleCall(t) \in Owed'
          /\ \A d : ChannelCall(d) \in Owed => ChannelCall(d) \in Owed'
      BY <2>1, CallOps
    <2>6. ChannelNames' = ChannelNames /\ chanMembers \subseteq chanMembers'
      BY <2>1, <2>2 DEF ChannelNames
    <2>7. \A d \in ToSet(config.channels) : Lost(d, config) => Lost(d, config)'
      BY <2>2, StillLost
    <2> QED
      BY <2>1, <2>2, <2>4, <2>5, <2>6, <2>7, AppliedStep
  <1>13. CASE LoadChannels
    <2>1. /\ \E o, l : Owed = {ChannelPage(o, l)} \cup Rest
          /\ Rest \subseteq Owed' /\ (cleanStart' => cleanStart) /\ up
          /\ UNCHANGED <<up, config, servers, roles, members, channels, chanMembers, mServers, mAccounts>>
      BY <1>13, ChannelPageEffect, Steps DEF tables
    <2> QED
      BY <2>1, CallOps, AppliedFrame
  <1>14. CASE LoadChannelMembers
    <2>1. /\ \E c : Owed = {ChannelMembersCall(c)} \cup Rest
          /\ Owed' = Rest /\ (cleanStart' => cleanStart) /\ up /\ mAccounts \subseteq mAccounts'
          /\ UNCHANGED <<up, config, servers, roles, members, channels, chanMembers, mServers>>
      BY <1>14, ChannelMembersEffect, Steps DEF tables
    <2> QED
      BY <2>1, CallOps, AppliedFrame
  <1>15. CASE LoadAccounts
    <2>1. /\ \E o : Owed = {AccountPage(o)} \cup Rest
          /\ Rest \subseteq Owed' /\ (cleanStart' => cleanStart) /\ up /\ mAccounts \subseteq mAccounts'
          /\ UNCHANGED <<up, config, servers, roles, members, channels, chanMembers, mServers>>
      BY <1>15, AccountPageEffect, Steps DEF tables
    <2> QED
      BY <2>1, CallOps, AppliedFrame
  <1>16. CASE UNCHANGED vars
    BY <1>16, Stutter, AppliedFrame DEF tables, memory
  <1> QED
    BY <1>1, <1>2, <1>3, <1>4, <1>5, <1>6, <1>7, <1>8, <1>9, <1>10, <1>11, <1>12, <1>13, <1>14, <1>15,
       <1>16 DEF Next, Preload, Load

-----------------------------------------------------------------------------
(* The theorems                                                              *)

LEMMA InitInv ==
    ASSUME Init
    PROVE  Inv
  <1>1. /\ todo = << >> /\ Owed = {} /\ ~up /\ config = NoFile /\ ~settled
        /\ todo \in Seq(ToSet(todo)) /\ Ordered(todo)
    BY Nothing DEF Init, Owed
  <1>2. \A c \in Chans : mMembers[c] = << >>
    BY DEF Init
  <1>3. TypeOK
    <2>1. /\ accounts \in Seq(Users) /\ channels \in Seq([name : Chans, server : Servers])
          /\ mServerAccts \in [Servers -> SUBSET Users]
          /\ mServerChans \in [Servers -> SUBSET Chans]
          /\ mMembers \in [Chans -> Seq(Users)]
      BY DEF Init
    <2> QED
      BY <1>1, <2>1 DEF Init, TypeOK
  <1>4. StackInv
    BY <1>1, <1>2 DEF Init, StackInv, Preloading
  <1>5. BackedInv
    <2>1. \A s \in Servers : IsFiniteSet(mServerAccts[s])
      BY FS_EmptySet DEF Init
    <2> QED
      BY <1>1, <2>1 DEF Init, BackedInv, ChannelNames
  <1>6. PagesInv
    BY <1>1, <1>2 DEF PagesInv
  <1>7. AppliedInv /\ LoadedInv /\ EveryoneInv /\ SettledInv
    BY <1>1 DEF Init, AppliedInv, LoadedInv, EveryoneInv, SettledInv
  <1> QED
    BY <1>3, <1>4, <1>5, <1>6, <1>7 DEF Inv

\* Types and the order of the stack, whatever the step.
LEMMA StackNext ==
    ASSUME TypeOK, StackInv, BackedInv, PagesInv, [Next]_vars
    PROVE  TypeOK' /\ StackInv'
  <1>1. CASE UNCHANGED vars
    <2>1. /\ UNCHANGED <<tables, memory, up, config, todo, settled, cleanStart, wounded>>
          /\ Owed' = Owed
      BY <1>1, Stutter
    <2>2. TypeOK'
      BY <2>1 DEF TypeOK, tables, memory
    <2>3. StackInv'
      BY <2>1 DEF StackInv, Preloading, PreloadCall, LoadCall, memory
    <2> QED
      BY <2>2, <2>3
  <1>2. CASE Start \/ Stop
    BY <1>2, StartEffect, StopEffect
  <1>3. CASE PreloadAdmin \/ ServerGetOrCreate \/ CreateRoleForServer
    BY <1>3, AdminEffect, ServerEffect, RoleEffect
  <1>4. CASE PermissionGetOrCreate \/ AssignRole \/ ServerAddMember \/ LoadServerMembers
    BY <1>4, PermissionEffect, AssignEffect, JoinEffect, ServerMembersEffect
  <1>5. CASE PreloadUser \/ PreloadChannel \/ PreloadMember
    BY <1>5, UserEffect, ChannelEffect, MemberEffect
  <1>6. CASE LoadChannels \/ LoadChannelMembers \/ LoadAccounts
    BY <1>6, ChannelPageEffect, ChannelMembersEffect, AccountPageEffect
  <1> QED
    BY <1>1, <1>2, <1>3, <1>4, <1>5, <1>6 DEF Next, Preload, Load

LEMMA NextInv ==
    ASSUME Inv, [Next]_vars
    PROVE  Inv' /\ (settled => UNCHANGED tables)
  BY StackNext, BackedNext, AppliedNext, PagesNext, LoadedNext, EveryoneNext, SettledNext DEF Inv

\* Everything Inv says holds in every state: how the calls of the constructor stand
\* on each other, and what each of its loops has done and still owes.
THEOREM Invariance == Spec => []Inv
  <1>1. Init => Inv
    BY InitInv
  <1>2. Inv /\ [Next]_vars => Inv'
    BY NextInv
  <1> QED
    BY <1>1, <1>2, PTL DEF Spec

\* A start none of whose statements failed has put into the tables all that its
\* preload file asks for, for any file, whatever earlier starts with whatever files
\* did before they were killed or failed; only a channel entry whose server is not
\* in the file may be left out.
THEOREM PreloadApplied == Spec => []ConfigApplied
  <1>1. Inv => ConfigApplied
    <2> SUFFICES ASSUME Inv, Running, cleanStart, config # NoFile
                 PROVE  /\ UsersInTables(config)
                        /\ \A c \in ToSet(config.channels) :
                               ChannelInTables(c, config) \/ Lost(c, config)
      BY DEF ConfigApplied
    <2>1. up /\ Owed = {}
      BY Nothing DEF Running, Owed
    <2>2. UsersInTables(config)
      <3>1. KnownUsers(config) \subseteq ToSet(accounts)
        BY <2>1 DEF Inv, AppliedInv, BackedInv
      <3>2. \A s \in ConfiguredServers(config) :
                s \in servers \cap roles /\ <<Admin, s>> \in members
        BY <2>1 DEF Inv, AppliedInv
      <3>3. \A u \in ToSet(config.users) :
                u.server \in ConfiguredServers(config) => <<u.name, u.server>> \in members
        BY <2>1 DEF Inv, AppliedInv
      <3> QED
        BY <3>1, <3>2, <3>3 DEF UsersInTables
    <2>3. ASSUME NEW c \in ToSet(config.channels)
          PROVE  ChannelInTables(c, config) \/ Lost(c, config)
      BY <2>1 DEF Inv, AppliedInv, ChannelInTables
    <2> QED
      BY <2>2, <2>3
  <1> QED
    BY Invariance, <1>1, PTL

\* After such a start the caches of accounts and channels are exactly the tables,
\* for tables of any length and pages of any size, and each channel lists each of its
\* members once.
THEOREM TablesCached == Spec => []CachesMatch
  <1>1. Inv => CachesMatch
    <2> SUFFICES ASSUME Inv, Running, cleanStart
                 PROVE  /\ mAccounts = ToSet(accounts)
                        /\ mChannels = ChannelNames
                        /\ \A c \in Chans : MembersListed(c)
      BY DEF CachesMatch, MembersListed
    <2>1. up /\ Owed = {}
      BY Nothing DEF Running, Owed
    <2> QED
      BY <2>1 DEF Inv, LoadedInv, BackedInv
  <1> QED
    BY Invariance, <1>1, PTL

\* As long as no start was cut short and no statement has failed, whoever is a member
\* of a server holds its @everyone, and the role has its permissions, however often
\* the process was started and with whatever preload files.
THEOREM MembersHoldEveryone == Spec => []EveryoneHolds
  <1>1. Inv => EveryoneHolds
    <2> SUFFICES ASSUME Inv, Running, ~wounded, NEW m \in members
                 PROVE  m[2] \in roles \cap perms /\ m \in accRoles
      BY DEF EveryoneHolds
    <2>1. Owed = {}
      BY Nothing DEF Running, Owed
    <2> QED
      BY <2>1 DEF Inv, EveryoneInv
  <1> QED
    BY Invariance, <1>1, PTL

\* A start that finds what its preload file asks for in the tables, and nothing
\* half-made, writes no row of any table, at no point of it and whichever statements
\* fail.
THEOREM RestartWritesNothing == Spec => StartIdempotent
  <1>1. Inv /\ [Next]_vars => [settled => UNCHANGED tables]_vars
    BY NextInv
  <1> QED
    BY Invariance, <1>1, PTL DEF Spec, StartIdempotent

=============================================================================
