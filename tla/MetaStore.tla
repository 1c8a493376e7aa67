------------------------------ MODULE MetaStore ------------------------------
(***************************************************************************)
(* What METADATA promises its users while the server runs: one store of    *)
(* values and subscribers for each account and channel.  The first request *)
(* opens a store, with whatever was saved; from then on every request      *)
(* takes effect and is answered in one step.                               *)
(*                                                                         *)
(* Of two kinds of store nothing is promised: one that a restart has       *)
(* closed (what it opens with is not said here), and a broken one.         *)
(***************************************************************************)
CONSTANTS
    Accts,      \* accounts that send METADATA
    Targets,    \* accounts and channels that have metadata
    Owner,      \* the account a target is, or Nobody for a channel
    Keys, Vals,
    Unset,      \* no value
    Empty,      \* the empty value a reply to CLEAR shows
    Silent,     \* a reply that says nothing of a key
    Nobody,
    Closed, Broken  \* instead of a store's values

VARIABLES
    store,      \* the value of each key of each target
    subscribed, \* who subscribed to each key of each target
    answer      \* the last reply to each account

vars == <<store, subscribed, answer>>

NoReply == [told |-> [k \in Keys |-> Silent], subs |-> {}, failed |-> FALSE]
Tell(k, v) == [NoReply EXCEPT !.told[k] = v]
TellAll(map) == [NoReply EXCEPT !.told = map]
Confirm(keys) == [NoReply EXCEPT !.subs = keys]
Refuse == [NoReply EXCEPT !.failed = TRUE]

NoSubs == [k \in Keys |-> {}]
AllClosed == [t \in Targets |-> Closed]

Init ==
    /\ store = AllClosed
    /\ subscribed = [t \in Targets |-> NoSubs]
    /\ answer = [a \in Accts |-> NoReply]

Reply(a, r) == answer' = [answer EXCEPT ![a] = r]

\* The account sends a request and waits.
Ask(a) == Reply(a, NoReply) /\ UNCHANGED <<store, subscribed>>

Open(t) ==
    /\ store[t] = Closed
    /\ \E values \in [Keys -> Vals \cup {Unset}], who \in [Keys -> SUBSET Accts] :
          /\ store' = [store EXCEPT ![t] = values]
          /\ subscribed' = [subscribed EXCEPT ![t] = who]
    /\ UNCHANGED answer

\* A request of a, or its handling, meets another's.
Break(a, t) ==
    /\ store' = [store EXCEPT ![t] = Broken]
    /\ subscribed' = [subscribed EXCEPT ![t] = NoSubs]
    /\ Reply(a, NoReply) \/ UNCHANGED answer

Answers(t) == store[t] \notin {Closed, Broken}
MayWrite(a, t) == Owner[t] \in {Nobody, a}

Set(a, t, k, v) ==
    /\ Answers(t) /\ MayWrite(a, t)
    /\ store' = [store EXCEPT ![t][k] = v]
    /\ Reply(a, Tell(k, v))
    /\ UNCHANGED subscribed

Clear(a, t, k) ==
    /\ Answers(t) /\ MayWrite(a, t)
    /\ store' = [store EXCEPT ![t][k] = Unset]
    /\ Reply(a, Tell(k, Empty))
    /\ UNCHANGED subscribed

Forbid(a, t) ==
    /\ Answers(t) /\ ~MayWrite(a, t)
    /\ Reply(a, Refuse)
    /\ UNCHANGED <<store, subscribed>>

Get(a, t, k) ==
    /\ Answers(t)
    /\ Reply(a, Tell(k, store[t][k]))
    /\ UNCHANGED <<store, subscribed>>

List(a, t) ==
    /\ Answers(t)
    /\ Reply(a, TellAll([k \in Keys |-> IF store[t][k] = Unset THEN Silent ELSE store[t][k]]))
    /\ UNCHANGED <<store, subscribed>>

Subscribe(a, t, k) ==
    /\ Answers(t)
    /\ subscribed' = [subscribed EXCEPT ![t][k] = @ \cup {a}]
    /\ Reply(a, Confirm({k}))
    /\ UNCHANGED store

Unsubscribe(a, t, k) ==
    /\ Answers(t)
    /\ subscribed' = [subscribed EXCEPT ![t][k] = @ \ {a}]
    /\ Reply(a, Confirm({k}))
    /\ UNCHANGED store

Subscriptions(a, t) ==
    /\ Answers(t)
    /\ Reply(a, Confirm({k \in Keys : a \in subscribed[t][k]}))
    /\ UNCHANGED <<store, subscribed>>

\* A request about a broken store is answered somehow.
Whatever(a, t) ==
    /\ store[t] = Broken
    /\ Reply(a, answer'[a])
    /\ UNCHANGED <<store, subscribed>>

Restart ==
    /\ store' = AllClosed
    /\ subscribed' = [t \in Targets |-> NoSubs]
    /\ answer' = [a \in Accts |-> NoReply]

Next ==
    \/ Restart
    \/ \E t \in Targets : Open(t)
    \/ \E a \in Accts : Ask(a)
    \/ \E a \in Accts, t \in Targets :
           \/ Break(a, t) \/ Whatever(a, t)
           \/ Forbid(a, t) \/ List(a, t) \/ Subscriptions(a, t)
           \/ \E k \in Keys :
                  \/ Clear(a, t, k) \/ Get(a, t, k)
                  \/ Subscribe(a, t, k) \/ Unsubscribe(a, t, k)
                  \/ \E v \in Vals : Set(a, t, k, v)

Spec == Init /\ [][Next]_vars
=============================================================================
