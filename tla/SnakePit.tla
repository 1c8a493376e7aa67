------------------------------ MODULE SnakePit ------------------------------
(***************************************************************************)
(* The pool of Python interpreters behind the server's events.             *)
(*                                                                         *)
(* Every interpreter (Snake) lives in a thread of its own that takes jobs  *)
(* from its event loop.  A worker that has an event asks whether a module  *)
(* handles it, picks an interpreter, posts the call there and waits.       *)
(* Modules are enabled on one interpreter after the other by the caller's  *)
(* own thread, and listed in m_modules, from which the sets of active      *)
(* events are computed.  Nothing in the repository calls enableModule,     *)
(* disableModule, refreshModulesAll or restart: Admins stand for whatever  *)
(* thread does.                                                            *)
(*                                                                         *)
(* A handler may give an account another nick, which is written back by    *)
(* Account::setNick in the interpreter's own thread: that thread then      *)
(* sends NICK_CHANGE and waits like a worker, with its interpreter's lock. *)
(*                                                                         *)
(* External: CPython and Qt's queued calls.  A change made while handlers  *)
(* run uses the same thread state from another thread; here it falls       *)
(* between two handlers, the best that CPython may make of it.             *)
(***************************************************************************)
EXTENDS Integers, Sequences, Functions

CONSTANTS
    Count,          \* m_thread_count
    ModuleOrder,    \* the module classes, in the order their handlers were defined
    Exclusive,      \* those whose mode is EXCLUSIVE
    Handles,        \* the events each module handles
    NickChange,     \* the event of Account::setNick
    Untyped,        \* the events whose class is not in PyTypeRegistry
    Callers,        \* workers that send events
    Admins,         \* threads that enable, disable, refresh, restart
    Nobody,
    Does,           \* what a handler may do to its event
    MayFail,        \* whether an interpreter may fail to start
    MaxCalls, MaxChanges \* bounds

Modules == Range(ModuleOrder)
Events == UNION {Handles[m] : m \in Modules}
Snakes == 0..(Count - 1)
Askers == Callers \cup Snakes

ASSUME SnakePitAssumption ==
    /\ Count \in Nat \ {0}
    /\ ModuleOrder \in Seq(Modules) /\ IsInjective(ModuleOrder)
    /\ Exclusive \subseteq Modules /\ DOMAIN Handles = Modules
    /\ MayFail \in BOOLEAN
    /\ Does \subseteq {"pass", "edit", "tag", "cancel", "rename", "nothing", "raise", "loop"}
    /\ MaxCalls \in Nat /\ MaxChanges \in Nat
    /\ Callers \cap Snakes = {} /\ Nobody \notin Askers
    /\ {"main", Nobody} \cap Admins = {} /\ Nobody # "main"

VARIABLES
    state,      \* of each interpreter: "starting", "ready" or "failed"
    enabled,    \* the modules enabled in each interpreter
    signals,    \* started(true) signals the main thread has not handled yet
    m_started_counter,
    listed, table,  \* m_modules: whether it is filled, and the modules it says are enabled
    m_activeEvents, m_activeExclusiveEvents,
    refreshing,     \* who holds mtx_refresh
    mtx_interpreter, \* the holder of each
    next_index,
    call,       \* what each worker, or interpreter in setNick, is doing
    task,       \* what each admin is doing
    settled,    \* history: what the last undisturbed change made of each module
    calls, changes, \* how many there were
    aborted     \* the process has ended

snakes == <<state, enabled, signals>>
modules == <<m_started_counter, listed, table, m_activeEvents, m_activeExclusiveEvents, refreshing>>
locks == <<mtx_interpreter, next_index>>
vars == <<snakes, modules, locks, call, task, settled, calls, changes, aborted>>

\* What the callers pass, as far as a handler can change it.
Sent == [text |-> "sent", tags |-> {"sent"}, cancelled |-> FALSE]

\* A caller: where it is, its event, whether nothing changed meanwhile, the
\* interpreter, the last handler and the modules whose handlers ran, what these did,
\* and the answer.  mtx_interpreter lets one call at a time into an interpreter's
\* event loop.
Idle == [at |-> "idle", event |-> Nobody, calm |-> FALSE, target |-> 0, last |-> 0, ran |-> {},
         dids |-> {}, answer |-> [valid |-> TRUE, event |-> Sent]]

\* A change: what and of which module, the next interpreter, whether all said yes, what
\* a refresh was told, and whether it has met no other change.
Resting == [op |-> "none", mod |-> Nobody, next |-> 0, ok |-> TRUE, list |-> {}, filled |-> FALSE,
            alone |-> TRUE]
Busy(a) == task[a].op # "none"

Init ==
    /\ state = [i \in Snakes |-> "starting"]
    /\ enabled = [i \in Snakes |-> {}]
    /\ signals = 0
    /\ m_started_counter = 0
    /\ listed = FALSE /\ table = {}
    /\ m_activeEvents = {} /\ m_activeExclusiveEvents = {}
    /\ refreshing = Nobody
    /\ mtx_interpreter = [i \in Snakes |-> Nobody]
    /\ next_index = 0
    /\ call = [c \in Askers |-> Idle]
    /\ task = [a \in Admins |-> Resting]
    /\ settled = [m \in Modules |-> "off"]
    /\ calls = 0 /\ changes = 0
    /\ aborted = FALSE

----------------------------------------------------------------------------
(* Interpreters                                                            *)

\* start: scripts are run and the modules they register are disabled.  When sys
\* or the snake module cannot be had the thread keeps the interpreter to itself.
start(i) ==
    /\ state[i] = "starting"
    /\ \/ /\ state' = [state EXCEPT ![i] = "ready"]
          /\ signals' = signals + 1
       \/ /\ MayFail
          /\ state' = [state EXCEPT ![i] = "failed"]
          /\ UNCHANGED signals
    /\ UNCHANGED <<enabled, modules, locks, call, task, settled, calls, changes, aborted>>

\* PyObjectToQVariant asks PyLong_Check first, and a Python bool is a Python int.
PyObjectToQVariant(flag) == [type |-> "number", value |-> IF flag THEN 1 ELSE 0]

\* QJsonValue::toBool of anything but a JSON bool is false.
create_from_json(json) == json.type = "bool" /\ json.value = 1

\* listModules, the modules it lists as enabled: because of the two conversions, none.
ListModules(i) == {m \in Modules : create_from_json(PyObjectToQVariant(m \in enabled[i]))}

ActiveOf(tab) == UNION {Handles[m] : m \in tab}

----------------------------------------------------------------------------
(* The main thread                                                         *)

\* Python runs in an interpreter for others while the interpreter's own thread is not in
\* setNick, which keeps its lock.
Lets(i) == state[i] # "failed" /\ call[i].at = "idle"

\* onSnakesReady: every signal from the last interpreter's on lists the modules
\* of the first one, under mtx_refresh.
onSnakesReady ==
    /\ signals > 0 /\ refreshing = Nobody
    /\ signals' = signals - 1
    /\ m_started_counter' = m_started_counter + 1
    /\ IF m_started_counter + 1 < Count
       THEN UNCHANGED <<listed, table, m_activeEvents, refreshing>>
       ELSE /\ Lets(0)
            /\ listed' = TRUE
            /\ table' = ListModules(0)
            /\ m_activeEvents' = ActiveOf(table')
            /\ refreshing' = "main"
    /\ UNCHANGED <<state, enabled, m_activeExclusiveEvents, locks, call, task, settled, calls,
                   changes, aborted>>

\* The two sets are written one after the other; readers do not take mtx_refresh.
calcExclusive(who) ==
    /\ refreshing = who
    /\ refreshing' = Nobody
    /\ m_activeExclusiveEvents' = ActiveOf(table \cap Exclusive)

StoreExclusive ==
    /\ calcExclusive("main")
    /\ UNCHANGED <<snakes, m_started_counter, listed, table, m_activeEvents, locks, call, task,
                   settled, calls, changes, aborted>>

----------------------------------------------------------------------------
(* Enabling, disabling, refreshing, restarting                             *)

\* History.  Changes that overlap and concern the same module leave it unsure what
\* has become of the module.
Concerns(p, m) == p.op \in {"enable", "disable"} /\ p.mod = m
Conflict(p, q) == \E m \in Modules : Concerns(p, m) /\ Concerns(q, m)

\* A change begins; the calls under way are disturbed by it.
Begin(a, new) ==
    LET rivals == {b \in Admins : Conflict(task[b], new)} IN
    /\ ~Busy(a) /\ changes < MaxChanges
    /\ changes' = changes + 1
    /\ task' = [b \in Admins |->
           IF b = a THEN [new EXCEPT !.alone = rivals = {}]
           ELSE IF b \in rivals THEN [task[b] EXCEPT !.alone = FALSE] ELSE task[b]]
    /\ settled' = [m \in Modules |-> IF Concerns(new, m) THEN "unsure" ELSE settled[m]]
    /\ call' = [c \in Askers |-> [call[c] EXCEPT !.calm = FALSE]]
    /\ UNCHANGED <<snakes, modules, locks, calls, aborted>>

enableModule(a, m) == Begin(a, [Resting EXCEPT !.op = "enable", !.mod = m])
disableModule(a, m) == Begin(a, [Resting EXCEPT !.op = "disable", !.mod = m])

\* Mutant of Switched: the module is enabled in the interpreters and never disabled.
SwitchedOn(op, set, m) == set \cup {m}

\* Snake::enableModule and Snake::disableModule.
Switched(op, set, m) == IF op = "enable" THEN set \cup {m} ELSE set \ {m}

\* One interpreter after the other.  One that is starting may have no interp_ yet
\* and says no; a failed one never lets go of its interpreter.
EachSnake(a) ==
    LET t == task[a] i == t.next IN
    /\ t.op \in {"enable", "disable"} /\ i < Count
    /\ Lets(i)
    /\ enabled' = [enabled EXCEPT ![i] =
           IF state[i] = "ready" THEN Switched(t.op, @, t.mod) ELSE @]
    /\ task' = [task EXCEPT ![a].next = i + 1, ![a].ok = @ /\ state[i] = "ready"]
    /\ UNCHANGED <<state, signals, modules, locks, call, settled, calls, changes, aborted>>

\* Then m_modules and the active events, under mtx_refresh.
StoreEnabled(a) ==
    LET t == task[a] IN
    /\ t.op \in {"enable", "disable"} /\ t.next = Count
    /\ refreshing = Nobody
    /\ refreshing' = a
    /\ table' = IF listed THEN Switched(t.op, table, t.mod) ELSE table
    /\ m_activeEvents' = ActiveOf(table')
    /\ UNCHANGED <<snakes, m_started_counter, listed, m_activeExclusiveEvents, locks, call, task,
                   settled, calls, changes, aborted>>

\* refreshModulesAll lists before it takes mtx_refresh.
refreshModulesAll(a) ==
    /\ Lets(0)
    /\ Begin(a, [Resting EXCEPT !.op = "refresh", !.list = ListModules(0),
                                !.filled = state[0] = "ready"])

StoreRefreshed(a) ==
    LET t == task[a] IN
    /\ t.op = "refresh" /\ refreshing = Nobody
    /\ refreshing' = a
    /\ listed' = t.filled /\ table' = t.list
    /\ m_activeEvents' = ActiveOf(table')
    /\ UNCHANGED <<snakes, m_started_counter, m_activeExclusiveEvents, locks, call, task,
                   settled, calls, changes, aborted>>

\* The end of a change, and what it settled.
Ended(a) ==
    LET t == task[a] IN
    /\ task' = [task EXCEPT ![a] = Resting]
    /\ settled' = [m \in Modules |->
           IF ~Concerns(t, m) \/ ~t.alone THEN settled[m]
           ELSE IF ~t.ok THEN "unsure" ELSE IF t.op = "enable" THEN "on" ELSE "off"]

Return(a) ==
    /\ calcExclusive(a)
    /\ Ended(a)
    /\ UNCHANGED <<snakes, m_started_counter, listed, table, m_activeEvents, locks, call, calls,
                   changes, aborted>>

\* restart invokes "restart" by name on every interpreter, but Snake::restart is neither
\* a slot nor Q_INVOKABLE: the calls fail, and only the counter starts again.
restart(a) ==
    /\ ~Busy(a) /\ changes < MaxChanges
    /\ changes' = changes + 1
    /\ m_started_counter' = 0
    /\ UNCHANGED <<snakes, listed, table, m_activeEvents, m_activeExclusiveEvents, refreshing,
                   locks, call, task, settled, calls, aborted>>

\* A thread whose start failed still has its thread state attached, and CPython ends
\* the process when a call attaches it again.
Abort(i) ==
    /\ state[i] = "failed"
    /\ \E c \in Askers : call[c].at = "wait" /\ call[c].target = i
    /\ aborted' = TRUE
    /\ UNCHANGED <<snakes, modules, locks, call, task, settled, calls, changes>>

----------------------------------------------------------------------------
(* An event and its way through Python                                     *)

\* convertVariantToPyAccordingToType converts a map when its type hint is a dict, which
\* Dict[str, Any] is not: the handler gets the default, an empty one.
TagsToPy(tags) == {}

\* eventToPyHandle: the dataclass is a copy that has not been cancelled.
eventToPyHandle(e) == [text |-> e.text, tags |-> TagsToPy(e.tags), cancelled |-> FALSE, dirty |-> {}]

\* Of an event whose class is not registered the handler gets None instead: it has
\* nothing to return, or raises.
DoesTo(ev) == IF ev \in Untyped THEN {"nothing", "raise"} ELSE Does

\* What the handlers do to it, one after the other.  Assignments to members are noted
\* in _dirty.
Handled(py, dids) ==
    [text |-> IF "edit" \in dids THEN "edited" ELSE py.text,
     tags |-> IF "tag" \in dids THEN py.tags \cup {"added"} ELSE py.tags,
     cancelled |-> "cancel" \in dids \/ py.cancelled,
     dirty |-> {f \in {"text", "cancelled"} :
                   (f = "text" /\ "edit" \in dids) \/ (f = "cancelled" /\ "cancel" \in dids)}]

\* updateGadgetFromPyDataclass: dirty members and all dictionaries are written back.
updateGadget(e, py) ==
    [text |-> IF "text" \in py.dirty THEN py.text ELSE e.text,
     tags |-> py.tags,
     cancelled |-> IF "cancelled" \in py.dirty THEN py.cancelled ELSE e.cancelled]

\* QIRC.call goes through the enabled handlers and stops at the first that returns
\* nothing, or raises.  Nothing stops one that does not return: no code reads
\* _qirc_timeout.
Enough(did) == did \in {"nothing", "raise", "loop"}
Listening(i, ev) ==
    {k \in DOMAIN ModuleOrder : ModuleOrder[k] \in enabled[i] /\ ev \in Handles[ModuleOrder[k]]}

\* executeFunction: an exception gives no result at all; an event that some handler
\* returned is written back; otherwise it is returned as it was sent.
Answer(dids) ==
    [valid |-> "raise" \notin dids,
     event |-> IF dids = {} \/ \E did \in dids : Enough(did) THEN Sent
               ELSE updateGadget(Sent, Handled(eventToPyHandle(Sent), dids))]

\* No change is under way, and m_modules says of every module what is true.
Quiet == \A a \in Admins : ~Busy(a)
MainIdle == signals = 0 /\ refreshing # "main"
Calm == /\ Quiet /\ MainIdle
        /\ \A m \in Modules : settled[m] = IF m \in table THEN "on" ELSE "off"

\* hasEventHandler, by a caller that has an event; without a handler it goes on.
hasEventHandler(c, ev) ==
    /\ call[c].at = "idle" /\ calls < MaxCalls
    /\ ev \in m_activeEvents
    /\ call' = [call EXCEPT ![c] = [Idle EXCEPT !.at = "pick", !.event = ev, !.calm = Calm]]
    /\ calls' = calls + 1
    /\ UNCHANGED <<snakes, modules, locks, task, settled, changes, aborted>>

\* Mutant of Pinned: exclusive events go round as well.
NeverPinned(ev) == FALSE

Pinned(ev) == ev \in m_activeExclusiveEvents

\* callFunctionList: the first interpreter for an exclusive event, round robin for
\* the others, under mtx_snake.
Pick(c) ==
    LET ev == call[c].event IN
    /\ call[c].at = "pick"
    /\ call' = [call EXCEPT ![c].at = "post", ![c].target = IF Pinned(ev) THEN 0 ELSE next_index]
    /\ next_index' = IF Pinned(ev) THEN next_index ELSE (next_index + 1) % Count
    /\ UNCHANGED <<snakes, modules, mtx_interpreter, task, settled, calls, changes, aborted>>

\* Then mtx_interpreter, and the call is posted.
Post(c) ==
    LET i == call[c].target IN
    /\ call[c].at = "post" /\ mtx_interpreter[i] = Nobody
    /\ mtx_interpreter' = [mtx_interpreter EXCEPT ![i] = c]
    /\ call' = [call EXCEPT ![c].at = "wait"]
    /\ UNCHANGED <<snakes, modules, next_index, task, settled, calls, changes, aborted>>

\* The handlers that an interpreter has still to look at for a call.
Left(c) == {k \in Listening(call[c].target, call[c].event) : call[c].last < k}

\* QIRC.call runs the next of them.
RunHandler(c) ==
    /\ call[c].at = "wait" /\ state[call[c].target] = "ready"
    /\ \A did \in call[c].dids : ~Enough(did)
    /\ \E k \in Left(c), did \in DoesTo(call[c].event) :
          /\ \A l \in Left(c) : k <= l
          /\ call' = [call EXCEPT ![c].last = k, ![c].ran = @ \cup {ModuleOrder[k]},
                                  ![c].dids = @ \cup {did}]
    /\ UNCHANGED <<snakes, modules, locks, task, settled, calls, changes, aborted>>

\* The event is written back; a nick by setNick, which asks the handlers of NICK_CHANGE.
Renames(dids) == "rename" \in dids /\ \A did \in dids : ~Enough(did)

executeFunction(c) ==
    LET i == call[c].target dids == call[c].dids IN
    /\ call[c].at = "wait" /\ state[i] = "ready"
    /\ Left(c) = {} \/ \E did \in dids : Enough(did)
    /\ "loop" \notin dids
    /\ IF Renames(dids) /\ NickChange \in m_activeEvents
       THEN call' = [call EXCEPT ![c].at = "renaming", ![c].answer = Answer(dids),
                                 ![i] = [Idle EXCEPT !.at = "pick", !.event = NickChange, !.calm = Calm]]
       ELSE call' = [call EXCEPT ![c].at = "done", ![c].answer = Answer(dids)]
    /\ UNCHANGED <<snakes, modules, locks, task, settled, calls, changes, aborted>>

\* Mutant of Unlocked: mtx_interpreter is kept after the call.
KeptLocked(i) == mtx_interpreter

Unlocked(i) == [mtx_interpreter EXCEPT ![i] = Nobody]

\* The caller has its answer; an interpreter goes on with the call it was running.
Answered(c) ==
    /\ call[c].at = "done"
    /\ call' = [d \in Askers |->
           IF d = c THEN Idle
           ELSE IF call[d].at = "renaming" /\ call[d].target = c THEN [call[d] EXCEPT !.at = "done"]
           ELSE call[d]]
    /\ mtx_interpreter' = Unlocked(call[c].target)
    /\ UNCHANGED <<snakes, modules, next_index, task, settled, calls, changes, aborted>>

----------------------------------------------------------------------------
Main == onSnakesReady \/ StoreExclusive
Runs(c) == RunHandler(c) \/ executeFunction(c)
Snake(i) == start(i) \/ Abort(i) \/ \E c \in Askers : call[c].target = i /\ Runs(c)
Caller(c) == Pick(c) \/ Post(c) \/ Answered(c)
Admin(a) == EachSnake(a) \/ StoreEnabled(a) \/ StoreRefreshed(a) \/ Return(a)
Change(a) == (\E m \in Modules : enableModule(a, m) \/ disableModule(a, m))
             \/ refreshModulesAll(a) \/ restart(a)

Next ==
    /\ ~aborted
    /\ \/ Main
       \/ \E i \in Snakes : Snake(i)
       \/ \E c \in Askers : Caller(c)
       \/ \E c \in Callers, ev \in Events : hasEventHandler(c, ev)
       \/ \E a \in Admins : Admin(a) \/ Change(a)

\* Event loops run, callers and admins go on with what they began.  Nobody has to
\* send an event or to ask for a change.
Spec == /\ Init /\ [][Next]_vars
        /\ WF_vars(~aborted /\ Main)
        /\ \A i \in Snakes : WF_vars(~aborted /\ Snake(i))
        /\ \A c \in Askers : WF_vars(~aborted /\ Caller(c))
        /\ \A a \in Admins : WF_vars(~aborted /\ Admin(a))

----------------------------------------------------------------------------
(* Properties                                                              *)

\* When nothing is under way, a module whose last change was undisturbed is enabled
\* in all interpreters or in none, as that change wanted; and m_modules never says
\* that it is enabled when it is not (SnakePit::enableModule, disableModule,
\* refreshModulesAll, onSnakesReady and the restart that restarts nothing, in whatever
\* order, also while handlers run).
TableHonest ==
    Quiet /\ MainIdle /\ ~aborted =>
        \A m \in Modules : settled[m] # "unsure" =>
            /\ \A i \in Snakes : state[i] = "ready" => (m \in enabled[i] <=> settled[m] = "on")
            /\ m \in table => settled[m] = "on"

\* What a call should find and bring back: it has met an enabled handler, an exclusive
\* module's only in interpreter 0, and what the handlers did to the event arrived, if
\* all of them returned it.
Heard(r) ==
    LET dids == r.dids result == r.answer IN
    /\ r.ran # {}
    /\ r.target # 0 => r.ran \cap Exclusive = {}
    /\ result.valid <=> "raise" \notin dids
    /\ (\A did \in dids : ~Enough(did)) =>
          /\ result.event.cancelled <=> "cancel" \in dids
          /\ result.event.text = IF "edit" \in dids THEN "edited" ELSE "sent"
          /\ "added" \in result.event.tags <=> "tag" \in dids

\* A call asked for and answered while no change was under way and m_modules was right
\* has been heard, also one that an interpreter makes for a handler and one whose
\* handlers made such a call (callFunctionList, executeFunction, Account::setNick).
\* (The tags an event was sent with do not come back: TagsToPy.)
CalmCallsHeard ==
    \A c \in Askers : (call[c].at = "done" /\ call[c].calm) => Heard(call[c])

\* Interpreters whose threads wait for each other, or for themselves: each of them is in
\* setNick and has picked one of them.
Stuck ==
    \E S \in SUBSET Snakes \ {{}} :
        \A i \in S : call[i].at \in {"post", "wait", "renaming"} /\ call[i].target \in S

\* A handler that does not return.
Loops(c) == call[c].at = "wait" /\ "loop" \in call[c].dids

\* A caller that waits for Python gets its answer, whatever is enabled or refreshed
\* meanwhile and however many wait for mtx_interpreter, unless a handler does not return
\* or handlers that change nicks have closed a circle of interpreters.  (An interpreter
\* that failed to start ends the process when it is used.)
CallsReturn ==
    \A c \in Callers :
        call[c].at # "idle" ~> (call[c].at = "idle" \/ aborted \/ Stuck \/ \E d \in Askers : Loops(d))

----------------------------------------------------------------------------
(* Why they hold                                                           *)

Replies == [valid : BOOLEAN,
            event : [text : {"sent", "edited"}, tags : SUBSET {"sent", "added"}, cancelled : BOOLEAN]]
CallStates == [at : {"idle", "pick", "post", "wait", "renaming", "done"},
               event : Events \cup {NickChange, Nobody},
               calm : BOOLEAN, target : Snakes, last : Nat, ran : SUBSET Modules,
               dids : SUBSET (Does \cup {"nothing", "raise"}), answer : Replies]
TaskStates == [op : {"none", "enable", "disable", "refresh"},
               mod : Modules \cup {Nobody}, next : 0..Count, ok : BOOLEAN,
               list : SUBSET Modules, filled : BOOLEAN, alone : BOOLEAN]

TypeOK ==
    /\ state \in [Snakes -> {"starting", "ready", "failed"}]
    /\ enabled \in [Snakes -> SUBSET Modules]
    /\ signals \in Nat /\ m_started_counter \in Nat
    /\ listed \in BOOLEAN /\ table \subseteq Modules
    /\ refreshing \in Admins \cup {"main", Nobody}
    /\ next_index \in Snakes
    /\ call \in [Askers -> CallStates]
    /\ task \in [Admins -> TaskStates]
    /\ settled \in [Modules -> {"on", "off", "unsure"}]

\* A change knows whether another one interferes, has a module if its kind has one,
\* and leaves the modules it concerns unsettled; a refresh was told of no module.
ChangeInv ==
    \A a \in Admins :
        /\ \A b \in Admins \ {a} : Conflict(task[a], task[b]) => ~task[a].alone
        /\ \A m \in Modules : Concerns(task[a], m) => settled[m] = "unsure"
        /\ task[a].op \in {"enable", "disable"} => task[a].mod \in Modules
        /\ task[a].list = {}

\* What an undisturbed change has done so far.
ProgressInv ==
    \A a \in Admins : task[a].alone => \A i \in Snakes : i < task[a].next =>
        /\ (task[a].op = "enable" /\ task[a].ok) => state[i] = "ready" /\ task[a].mod \in enabled[i]
        /\ task[a].op = "disable" => task[a].mod \notin enabled[i]

\* What the interpreters and m_modules have.
SettledInv ==
    /\ \A i \in Snakes : state[i] # "ready" => enabled[i] = {}
    /\ \A m \in Modules, i \in Snakes :
          /\ settled[m] = "on" => state[i] = "ready" /\ m \in enabled[i]
          /\ settled[m] = "off" => m \notin enabled[i]
    /\ \A m \in table : listed /\ settled[m] # "off"

\* Who holds mtx_refresh has been to all interpreters.
HolderInv ==
    \A a \in Admins : refreshing = a =>
        /\ task[a].op \in {"enable", "disable", "refresh"}
        /\ task[a].op # "refresh" => task[a].next = Count
        /\ task[a].op = "disable" => task[a].mod \notin table

\* The sets of active events are those of m_modules.
ActiveInv ==
    /\ m_activeEvents = ActiveOf(table)
    /\ refreshing = Nobody => m_activeExclusiveEvents = ActiveOf(table \cap Exclusive)

\* While a call is calm, nothing changes and everything is known.
Steady(r) ==
    (r.at # "idle" /\ r.calm) =>
        /\ Quiet /\ signals = 0 /\ refreshing = Nobody
        /\ \A m \in Modules : settled[m] = IF m \in table THEN "on" ELSE "off"
        /\ r.event \in m_activeEvents
        /\ (r.at # "pick" /\ r.target # 0) => r.event \notin m_activeExclusiveEvents

CalmInv == \A c \in Askers : Steady(call[c])

\* What a call has met so far; and it has been heard as soon as there is an answer.
Met(r) ==
    /\ r.at \in {"pick", "post"} => r.ran = {}
    /\ r.ran = {} => r.last = 0
    /\ r.ran # {} <=> r.dids # {}
    /\ (r.at = "wait" /\ r.calm /\ r.target # 0) => r.ran \cap Exclusive = {}
    /\ (r.at \in {"renaming", "done"} /\ r.calm) => Heard(r)

RunInv == \A c \in Askers : Met(call[c])

Inv == TypeOK /\ ChangeInv /\ ProgressInv /\ SettledInv /\ HolderInv /\ ActiveInv /\ CalmInv /\ RunInv
=============================================================================
