--------------------------- MODULE SnakePitProofs ---------------------------
(***************************************************************************)
(* Proofs about the pool of Python interpreters: m_modules is honest, and  *)
(* calls that nothing disturbs are heard.  Inv is in SnakePit.             *)
(*                                                                         *)
(* What makes the two hold is spread over threads: a change alone knows    *)
(* what it has done so far (ProgressInv), provided it is alone             *)
(* (ChangeInv); m_modules follows under mtx_refresh (HolderInv); and a     *)
(* call is calm only while all of these rest (CalmInv), so that the        *)
(* handlers it meets one by one are those of m_modules (RunInv).           *)
(***************************************************************************)
EXTENDS SnakePit, TLAPS

\* The constants.
LEMMA Constants ==
    /\ Count \in Nat /\ Count > 0 /\ 0 \in Snakes
    /\ \A i \in Snakes : i \in Nat /\ i < Count /\ i + 1 \in 0..Count
    /\ \A n \in 0..Count : n # Count => n \in Snakes
    /\ Snakes \subseteq Askers /\ Callers \subseteq Askers
    /\ \A a \in Admins : a # "main" /\ a # Nobody
    /\ Nobody # "main"
  BY SnakePitAssumption DEF Snakes, Askers

\* listModules reports no module as enabled.
LEMMA NoneListed == \A i : ListModules(i) = {}
  BY DEF ListModules, create_from_json, PyObjectToQVariant

\* Without modules no event is active.
LEMMA NoneActive == ActiveOf({}) = {}
  BY DEF ActiveOf

\* An idle caller, and no change.
LEMMA IdleCall ==
    /\ Idle \in CallStates /\ Idle.at = "idle" /\ ~Idle.calm
    /\ Idle.ran = {} /\ Idle.last = 0 /\ Idle.dids = {}
  BY Constants DEF Idle, CallStates, Replies, Sent

LEMMA RestingTask ==
    /\ Resting \in TaskStates
    /\ Resting.op = "none" /\ Resting.list = {} /\ Resting.next = 0
  BY Constants DEF Resting, TaskStates

-----------------------------------------------------------------------------
(* The initial state                                                         *)

\* Nothing is enabled and nobody waits.
LEMMA InitInv ==
    ASSUME Init
    PROVE  Inv
  <1> USE Constants, SnakePitAssumption DEF Init
  <1>1. TypeOK
    BY IdleCall, RestingTask DEF TypeOK
  <1>2. ChangeInv /\ ProgressInv
    BY RestingTask DEF ChangeInv, ProgressInv, Conflict, Concerns
  <1>3. SettledInv /\ HolderInv
    BY RestingTask DEF SettledInv, HolderInv
  <1>4. ActiveInv
    BY NoneActive DEF ActiveInv, ActiveOf
  <1>5. CalmInv /\ RunInv
    BY IdleCall DEF CalmInv, RunInv, Steady, Met
  <1> QED
    BY <1>1, <1>2, <1>3, <1>4, <1>5 DEF Inv

-----------------------------------------------------------------------------
(* What the parts of the invariant say of one caller, change or interpreter  *)

\* The fields of the tasks.
LEMMA Tasks ==
    ASSUME TypeOK, NEW a \in Admins
    PROVE  /\ task[a].op \in {"none", "enable", "disable", "refresh"}
           /\ task[a].next \in 0..Count /\ task[a].next \in Nat
           /\ task[a].ok \in BOOLEAN /\ task[a].alone \in BOOLEAN /\ task[a].filled \in BOOLEAN
           /\ task[a].list \subseteq Modules /\ task[a].mod \in Modules \cup {Nobody}
  BY Constants DEF TypeOK, TaskStates

\* While a call is calm no change and no signal is under way, and the interpreters
\* have what m_modules says.
LEMMA CalmKnows ==
    ASSUME Inv, NEW c \in Askers, call[c].at # "idle", call[c].calm
    PROVE  /\ \A a \in Admins : ~Busy(a)
           /\ signals = 0 /\ refreshing = Nobody
           /\ \A i \in Snakes : state[i] = "ready" /\ enabled[i] = table
  <1>1. /\ Quiet /\ signals = 0 /\ refreshing = Nobody
        /\ \A m \in Modules : settled[m] = IF m \in table THEN "on" ELSE "off"
        /\ call[c].event \in ActiveOf(table)
    BY DEF Inv, CalmInv, Steady, ActiveInv
  <1>2. table \subseteq Modules /\ \A i \in Snakes : enabled[i] \subseteq Modules
    BY DEF Inv, TypeOK
  <1>3. PICK m \in table : call[c].event \in Handles[m]
    BY <1>1 DEF ActiveOf
  <1>4. \A i \in Snakes : state[i] = "ready"
    BY <1>1, <1>2, <1>3 DEF Inv, SettledInv
  <1>5. ASSUME NEW i \in Snakes PROVE enabled[i] = table
    BY <1>1, <1>2 DEF Inv, SettledInv
  <1> QED
    BY <1>1, <1>4, <1>5 DEF Quiet

\* A step that the callers do not take part in, and that something else is under way
\* for, is taken only when no call is calm.
LEMMA Disturbed ==
    ASSUME Inv, call' = call,
           \/ \E a \in Admins : Busy(a)
           \/ signals # 0 \/ refreshing # Nobody
           \/ \E i \in Snakes : state[i] # "ready"
    PROVE  CalmInv' /\ RunInv'
  <1>1. \A c \in Askers : ~(call[c].at # "idle" /\ call[c].calm)
    BY CalmKnows
  <1>2. CalmInv'
    BY <1>1 DEF CalmInv, Steady
  <1>3. RunInv'
    BY DEF Inv, RunInv, Met, Heard
  <1> QED
    BY <1>2, <1>3

-----------------------------------------------------------------------------
(* The main thread and the interpreters                                      *)

\* An interpreter starts, or fails to.
LEMMA StartInv ==
    ASSUME Inv, NEW i \in Snakes, start(i)
    PROVE  Inv'
  <1> USE Constants
  <1>1. /\ state[i] = "starting" /\ state' \in [Snakes -> {"starting", "ready", "failed"}]
        /\ \A j \in Snakes : j # i => state'[j] = state[j]
        /\ signals' \in Nat
        /\ UNCHANGED <<enabled, m_started_counter, listed, table, m_activeEvents, m_activeExclusiveEvents,
                       refreshing, next_index, call, task, settled>>
    <2>1. state \in [Snakes -> {"starting", "ready", "failed"}] /\ signals \in Nat
      BY DEF Inv, TypeOK
    <2>2. UNCHANGED <<enabled, m_started_counter, listed, table, m_activeEvents, m_activeExclusiveEvents,
                      refreshing, next_index, call, task, settled>>
      BY DEF start, modules, locks
    <2>3. state[i] = "starting"
      BY DEF start
    <2>4. CASE state' = [state EXCEPT ![i] = "ready"] /\ signals' = signals + 1
      BY <2>1, <2>2, <2>3, <2>4
    <2>5. CASE state' = [state EXCEPT ![i] = "failed"] /\ signals' = signals
      BY <2>1, <2>2, <2>3, <2>5
    <2> QED
      BY <2>4, <2>5 DEF start
  <1>2. TypeOK'
    BY <1>1 DEF Inv, TypeOK
  <1>3. ChangeInv' /\ ActiveInv' /\ HolderInv'
    BY <1>1 DEF Inv, ChangeInv, ActiveInv, HolderInv
  <1>4. ProgressInv'
    BY <1>1 DEF Inv, ProgressInv
  <1>5. SettledInv'
    BY <1>1 DEF Inv, SettledInv
  <1>6. CalmInv' /\ RunInv'
    BY <1>1, Disturbed
  <1> QED
    BY <1>2, <1>3, <1>4, <1>5, <1>6 DEF Inv

\* A signal is handled: from the last one on the list of modules, which is empty,
\* becomes m_modules.
LEMMA OnSnakesReadyInv ==
    ASSUME Inv, onSnakesReady
    PROVE  Inv'
  <1> USE Constants
  <1>1. /\ signals \in Nat /\ signals > 0 /\ refreshing = Nobody
        /\ signals' \in Nat /\ m_started_counter' \in Nat
        /\ UNCHANGED <<state, enabled, m_activeExclusiveEvents, next_index, call, task, settled>>
    BY DEF onSnakesReady, Inv, TypeOK, locks
  <1>2. \/ UNCHANGED <<listed, table, m_activeEvents, refreshing>>
        \/ /\ listed' = TRUE /\ table' = {}
           /\ m_activeEvents' = ActiveOf(table') /\ refreshing' = "main"
    BY NoneListed DEF onSnakesReady
  <1>3. TypeOK'
    <2>1. listed' \in BOOLEAN /\ table' \subseteq Modules /\ refreshing' \in Admins \cup {"main", Nobody}
      BY <1>2 DEF Inv, TypeOK
    <2> QED
      BY <1>1, <2>1 DEF Inv, TypeOK
  <1>4. ChangeInv' /\ ProgressInv'
    BY <1>1 DEF Inv, ChangeInv, ProgressInv
  <1>5. SettledInv' /\ HolderInv'
    BY <1>1, <1>2 DEF Inv, SettledInv, HolderInv
  <1>6. ActiveInv'
    BY <1>1, <1>2 DEF Inv, ActiveInv
  <1>7. CalmInv' /\ RunInv'
    BY <1>1, Disturbed
  <1> QED
    BY <1>3, <1>4, <1>5, <1>6, <1>7 DEF Inv

\* The end of calcActiveEvents, by the main thread.
LEMMA StoreExclusiveInv ==
    ASSUME Inv, StoreExclusive
    PROVE  Inv'
  <1> USE Constants
  <1>1. /\ refreshing = "main" /\ refreshing' = Nobody
        /\ m_activeExclusiveEvents' = ActiveOf(table \cap Exclusive)
        /\ UNCHANGED <<state, enabled, signals, m_started_counter, listed, table, m_activeEvents,
                       next_index, call, task, settled>>
    BY DEF StoreExclusive, calcExclusive, snakes, locks
  <1>2. TypeOK'
    BY <1>1 DEF Inv, TypeOK
  <1>3. ChangeInv' /\ ProgressInv' /\ SettledInv' /\ HolderInv'
    BY <1>1 DEF Inv, ChangeInv, ProgressInv, SettledInv, HolderInv
  <1>4. ActiveInv'
    BY <1>1 DEF Inv, ActiveInv
  <1>5. CalmInv' /\ RunInv'
    BY <1>1, Disturbed
  <1> QED
    BY <1>2, <1>3, <1>4, <1>5 DEF Inv

\* The process ends, or nothing happens, or restart sets the counter back.
LEMMA UnchangedInv ==
    ASSUME Inv, m_started_counter' \in Nat,
           UNCHANGED <<snakes, listed, table, m_activeEvents, m_activeExclusiveEvents, refreshing, locks,
                       call, task, settled>>
    PROVE  Inv'
  <1> USE DEF Inv, snakes, locks
  <1>1. TypeOK' /\ ChangeInv' /\ ProgressInv' /\ SettledInv' /\ HolderInv' /\ ActiveInv'
    BY DEF TypeOK, ChangeInv, ProgressInv, SettledInv, HolderInv, ActiveInv
  <1>2. CalmInv' /\ RunInv'
    BY DEF CalmInv, Steady, RunInv, Met, Heard, Quiet, Busy
  <1> QED
    BY <1>1, <1>2

-----------------------------------------------------------------------------
(* Changes                                                                   *)

\* The beginning of a change: what it concerns is unsure from now on, the changes in
\* its way know of it, and no call is calm.
LEMMA BeginInv ==
    ASSUME Inv, NEW a \in Admins, NEW new \in TaskStates, Begin(a, new),
           new.op \in {"enable", "disable", "refresh"}, new.next = 0, new.list = {},
           new.op \in {"enable", "disable"} => new.mod \in Modules
    PROVE  Inv'
  <1> USE Constants
  <1>1. /\ task[a].op = "none"
        /\ UNCHANGED <<state, enabled, signals, m_started_counter, listed, table, m_activeEvents,
                       m_activeExclusiveEvents, refreshing, next_index>>
    BY DEF Begin, Busy, snakes, modules, locks
  <1>2. /\ task \in [Admins -> TaskStates] /\ call \in [Askers -> CallStates]
        /\ settled \in [Modules -> {"on", "off", "unsure"}] /\ TypeOK
    BY DEF Inv, TypeOK
  <1>3. PICK r \in BOOLEAN : /\ task'[a] = [new EXCEPT !.alone = r]
                             /\ r => \A b \in Admins : ~Conflict(task[b], new)
    BY DEF Begin
  <1>4. /\ task'[a].op = new.op /\ task'[a].mod = new.mod /\ task'[a].next = 0 /\ task'[a].list = {}
        /\ task'[a].alone => \A b \in Admins : ~Conflict(task[b], new)
        /\ task'[a] \in TaskStates
    BY <1>3 DEF TaskStates
  <1>5. ASSUME NEW b \in Admins, b # a
        PROVE  /\ task'[b] \in TaskStates
               /\ task'[b].op = task[b].op /\ task'[b].mod = task[b].mod /\ task'[b].next = task[b].next
               /\ task'[b].ok = task[b].ok /\ task'[b].list = task[b].list
               /\ task'[b].alone => task[b].alone /\ ~Conflict(task[b], new)
    <2>1. task[b] \in TaskStates
      BY <1>2
    <2>2. \/ task'[b] = [task[b] EXCEPT !.alone = FALSE]
          \/ task'[b] = task[b] /\ ~Conflict(task[b], new)
      BY <1>5 DEF Begin
    <2>3. CASE task'[b] = [task[b] EXCEPT !.alone = FALSE]
      BY <2>1, <2>3 DEF TaskStates
    <2>4. CASE task'[b] = task[b] /\ ~Conflict(task[b], new)
      BY <2>1, <2>4
    <2> QED
      BY <2>2, <2>3, <2>4
  <1>6. task' \in [Admins -> TaskStates]
    <2>1. \A b \in Admins : task'[b] \in TaskStates
      BY <1>4, <1>5
    <2>2. DOMAIN task' = Admins /\ task' = [b \in Admins |-> task'[b]]
      BY DEF Begin
    <2> QED
      BY <2>1, <2>2
  <1>7. /\ settled' \in [Modules -> {"on", "off", "unsure"}]
        /\ \A m \in Modules : settled'[m] = settled[m] \/ settled'[m] = "unsure"
        /\ \A m \in Modules : Concerns(new, m) => settled'[m] = "unsure"
    BY <1>2 DEF Begin
  <1>8. /\ call' \in [Askers -> CallStates]
        /\ \A c \in Askers : call'[c] = [call[c] EXCEPT !.calm = FALSE]
        /\ \A c \in Askers : /\ call'[c].at = call[c].at /\ call'[c].ran = call[c].ran
                             /\ call'[c].dids = call[c].dids /\ call'[c].last = call[c].last
                             /\ call'[c].calm = FALSE
    <2>1. call' = [c \in Askers |-> [call[c] EXCEPT !.calm = FALSE]]
      BY DEF Begin
    <2>2. ASSUME NEW c \in Askers
          PROVE  /\ call'[c] \in CallStates
                 /\ call'[c].at = call[c].at /\ call'[c].ran = call[c].ran
                 /\ call'[c].dids = call[c].dids /\ call'[c].last = call[c].last
                 /\ call'[c].calm = FALSE
      <3>1. call[c] \in CallStates /\ call'[c] = [call[c] EXCEPT !.calm = FALSE]
        BY <1>2, <2>1
      <3> QED
        BY <3>1 DEF CallStates
    <2> QED
      BY <2>1, <2>2
  <1>9. TypeOK'
    BY <1>1, <1>2, <1>6, <1>7, <1>8 DEF TypeOK
  <1>12. ChangeInv'
    <2>1. ASSUME NEW b \in Admins, NEW d \in Admins, b # d, Conflict(task'[b], task'[d])
          PROVE  ~task'[b].alone
      <3>1. CASE b = a
        <4>1. Conflict(task[d], new)
          BY <1>4, <1>5, <2>1, <3>1 DEF Conflict, Concerns
        <4> QED
          BY <1>4, <3>1, <4>1
      <3>2. CASE d = a
        <4>1. Conflict(task[b], new)
          BY <1>4, <1>5, <2>1, <3>2 DEF Conflict, Concerns
        <4> QED
          BY <1>5, <2>1, <3>2, <4>1
      <3>3. CASE b # a /\ d # a
        <4>1. Conflict(task[b], task[d])
          BY <1>5, <2>1, <3>3 DEF Conflict, Concerns
        <4> QED
          BY <1>5, <2>1, <3>3, <4>1 DEF Inv, ChangeInv
      <3> QED
        BY <3>1, <3>2, <3>3
    <2>2. ASSUME NEW b \in Admins, NEW m \in Modules, Concerns(task'[b], m)
          PROVE  settled'[m] = "unsure"
      <3>1. CASE b = a
        <4>1. Concerns(new, m)
          BY <1>4, <2>2, <3>1 DEF Concerns
        <4> QED
          BY <1>7, <4>1
      <3>2. CASE b # a
        <4>1. Concerns(task[b], m)
          BY <1>5, <2>2, <3>2 DEF Concerns
        <4> QED
          BY <1>7, <4>1 DEF Inv, ChangeInv
      <3> QED
        BY <3>1, <3>2
    <2>3. ASSUME NEW b \in Admins
          PROVE  /\ task'[b].op \in {"enable", "disable"} => task'[b].mod \in Modules
                 /\ task'[b].list = {}
      BY <1>4, <1>5 DEF Inv, ChangeInv
    <2> QED
      BY <2>1, <2>2, <2>3 DEF ChangeInv
  <1>13. ProgressInv'
    <2>1. ASSUME NEW b \in Admins, task'[b].alone, NEW i \in Snakes, i < task'[b].next
          PROVE  b # a
      BY <1>4, <2>1
    <2> QED
      BY <1>1, <1>5, <2>1 DEF Inv, ProgressInv
  <1>14. SettledInv'
    BY <1>1, <1>2, <1>7 DEF Inv, SettledInv, TypeOK
  <1>17. HolderInv'
    <2>1. refreshing # a
      BY <1>1 DEF Inv, HolderInv
    <2> QED
      BY <1>1, <1>5, <2>1 DEF Inv, HolderInv
  <1>18. ActiveInv'
    BY <1>1 DEF Inv, ActiveInv
  <1>19. CalmInv' /\ RunInv'
    BY <1>8 DEF CalmInv, Steady, Inv, RunInv, Met
  <1> QED
    BY <1>9, <1>12, <1>13, <1>14, <1>17, <1>18, <1>19 DEF Inv

\* enableModule, disableModule, refreshModulesAll, restart.
LEMMA ChangeStepInv ==
    ASSUME Inv, NEW a \in Admins, Change(a)
    PROVE  Inv'
  <1> USE Constants
  <1>1. ASSUME NEW m \in Modules, NEW op \in {"enable", "disable"},
               Begin(a, [Resting EXCEPT !.op = op, !.mod = m])
        PROVE  Inv'
    <2> DEFINE new == [Resting EXCEPT !.op = op, !.mod = m]
    <2>1. new \in TaskStates /\ new.op = op /\ new.mod = m /\ new.next = 0 /\ new.list = {}
      BY RestingTask DEF TaskStates
    <2>2. Begin(a, new)
      BY <1>1
    <2> HIDE DEF new
    <2> QED
      BY <2>1, <2>2, BeginInv
  <1>2. CASE refreshModulesAll(a)
    <2> DEFINE new == [Resting EXCEPT !.op = "refresh", !.list = ListModules(0),
                                      !.filled = state[0] = "ready"]
    <2>1. new \in TaskStates /\ new.op = "refresh" /\ new.next = 0 /\ new.list = {}
      BY NoneListed, RestingTask DEF TaskStates
    <2>2. Begin(a, new)
      BY <1>2 DEF refreshModulesAll
    <2> HIDE DEF new
    <2> QED
      BY <2>1, <2>2, BeginInv
  <1>3. CASE restart(a)
    BY <1>3, UnchangedInv DEF restart
  <1>4. ASSUME NEW m \in Modules, enableModule(a, m)
        PROVE  Inv'
    BY <1>1, <1>4 DEF enableModule
  <1>5. ASSUME NEW m \in Modules, disableModule(a, m)
        PROVE  Inv'
    BY <1>1, <1>5 DEF disableModule
  <1> QED
    BY <1>2, <1>3, <1>4, <1>5 DEF Change

\* One interpreter is told.  It has the module or not, as the change wants, unless it
\* says no.
LEMMA EachSnakeInv ==
    ASSUME Inv, NEW a \in Admins, EachSnake(a)
    PROVE  Inv'
  <1> USE Constants
  <1>1. PICK i, m : i = task[a].next /\ m = task[a].mod
    OBVIOUS
  <1>2. /\ task[a].op \in {"enable", "disable"} /\ i < Count
        /\ UNCHANGED <<state, signals, m_started_counter, listed, table, m_activeEvents,
                       m_activeExclusiveEvents, refreshing, next_index, call, settled>>
        /\ task' = [task EXCEPT ![a].next = i + 1, ![a].ok = @ /\ state[i] = "ready"]
    BY <1>1 DEF EachSnake, modules, locks
  <1>3. /\ task \in [Admins -> TaskStates] /\ enabled \in [Snakes -> SUBSET Modules] /\ TypeOK
        /\ i \in Snakes /\ m \in Modules
    BY <1>1, <1>2, Tasks DEF Inv, TypeOK, ChangeInv
  <1>4. /\ enabled' = [enabled EXCEPT ![i] = IF state[i] = "ready" THEN Switched(task[a].op, @, m) ELSE @]
    BY <1>1 DEF EachSnake
  <1>5. /\ task'[a] \in TaskStates
        /\ task'[a].op = task[a].op /\ task'[a].mod = m /\ task'[a].next = i + 1
        /\ task'[a].list = task[a].list /\ task'[a].alone = task[a].alone
        /\ task'[a].ok => task[a].ok /\ state[i] = "ready"
        /\ \A b \in Admins : b # a => task'[b] = task[b]
        /\ task' \in [Admins -> TaskStates]
    <2>1. task[a] \in TaskStates
      BY <1>3
    <2>2. PICK r \in BOOLEAN : /\ task'[a] = [task[a] EXCEPT !.next = i + 1, !.ok = r]
                               /\ r => task[a].ok /\ state[i] = "ready"
      <3>1. task'[a] = [task[a] EXCEPT !.next = i + 1, !.ok = task[a].ok /\ state[i] = "ready"]
        BY <1>2, <1>3
      <3> QED
        BY <3>1
    <2>3. /\ task'[a] \in TaskStates
          /\ task'[a].op = task[a].op /\ task'[a].mod = m /\ task'[a].next = i + 1
          /\ task'[a].list = task[a].list /\ task'[a].alone = task[a].alone
          /\ task'[a].ok => task[a].ok /\ state[i] = "ready"
      <3>1. i + 1 \in 0..Count
        BY <1>3
      <3>2. task'[a] \in TaskStates
        BY <2>1, <2>2, <3>1 DEF TaskStates
      <3> QED
        BY <1>1, <2>1, <2>2, <3>2 DEF TaskStates
    <2> QED
      BY <1>2, <1>3, <2>3
  <1>6. /\ \A j \in Snakes : j # i => enabled'[j] = enabled[j]
        /\ \A n \in Modules : n # m => (n \in enabled'[i] <=> n \in enabled[i])
        /\ state[i] # "ready" => enabled'[i] = enabled[i]
        /\ (state[i] = "ready" /\ task[a].op = "enable") => m \in enabled'[i]
        /\ (state[i] = "ready" /\ task[a].op = "disable") => m \notin enabled'[i]
        /\ enabled' \in [Snakes -> SUBSET Modules]
    <2>1. \/ state[i] # "ready" /\ enabled' = enabled
          \/ /\ state[i] = "ready" /\ task[a].op = "enable"
             /\ enabled' = [enabled EXCEPT ![i] = @ \cup {m}]
          \/ /\ state[i] = "ready" /\ task[a].op = "disable"
             /\ enabled' = [enabled EXCEPT ![i] = @ \ {m}]
      BY <1>2, <1>3, <1>4 DEF Switched
    <2> QED
      BY <1>3, <2>1
  <1>7. TypeOK'
    BY <1>2, <1>5, <1>6 DEF Inv, TypeOK
  <1>10. ChangeInv'
    BY <1>1, <1>2, <1>5 DEF Inv, ChangeInv, Conflict, Concerns
  <1>11. ProgressInv'
    <2>1. ASSUME NEW b \in Admins, task'[b].alone, NEW j \in Snakes, j < task'[b].next
          PROVE  /\ (task'[b].op = "enable" /\ task'[b].ok) => state'[j] = "ready" /\ task'[b].mod \in enabled'[j]
                 /\ task'[b].op = "disable" => task'[b].mod \notin enabled'[j]
      <3>1. CASE b = a /\ j = i
        <4>1. state[i] # "ready" => enabled'[i] = {}
          BY <1>3, <1>6 DEF Inv, SettledInv
        <4> QED
          BY <1>2, <1>5, <1>6, <3>1, <4>1
      <3>2. CASE b = a /\ j # i
        <4>1. j < i
          BY <1>3, <1>5, <2>1, <3>2
        <4> QED
          BY <1>1, <1>2, <1>5, <1>6, <2>1, <3>2, <4>1 DEF Inv, ProgressInv
      <3>3. CASE b # a
        <4>1. task'[b] = task[b] /\ ~Conflict(task[b], task[a])
          BY <1>5, <2>1, <3>3 DEF Inv, ChangeInv
        <4>2. task[b].op \in {"enable", "disable"} => task[b].mod # m /\ task[b].mod \in Modules
          BY <1>1, <1>2, <1>3, <4>1 DEF Conflict, Concerns, Inv, ChangeInv
        <4> QED
          BY <1>2, <1>6, <2>1, <4>1, <4>2 DEF Inv, ProgressInv
      <3> QED
        BY <3>1, <3>2, <3>3
    <2> QED
      BY <2>1 DEF ProgressInv
  <1>12. SettledInv'
    <2>1. settled[m] = "unsure"
      BY <1>1, <1>2, <1>3 DEF Inv, ChangeInv, Concerns
    <2>2. ASSUME NEW n \in Modules, settled[n] # "unsure", NEW j \in Snakes
          PROVE  n \in enabled'[j] <=> n \in enabled[j]
      BY <1>6, <2>1, <2>2
    <2> QED
      BY <1>2, <1>6, <2>2 DEF Inv, SettledInv
  <1>15. HolderInv'
    <2>1. refreshing # a
      BY <1>1, <1>2 DEF Inv, HolderInv
    <2> QED
      BY <1>2, <1>5, <2>1 DEF Inv, HolderInv
  <1>16. ActiveInv'
    BY <1>2 DEF Inv, ActiveInv
  <1>17. CalmInv' /\ RunInv'
    BY <1>2, Disturbed DEF Busy
  <1> QED
    BY <1>7, <1>10, <1>11, <1>12, <1>15, <1>16, <1>17 DEF Inv

\* m_modules follows: the module is unsure, so what is off stays as it was.
LEMMA StoreEnabledInv ==
    ASSUME Inv, NEW a \in Admins, StoreEnabled(a)
    PROVE  Inv'
  <1> USE Constants
  <1>1. PICK m : m = task[a].mod
    OBVIOUS
  <1>2. /\ task[a].op \in {"enable", "disable"} /\ task[a].next = Count
        /\ refreshing' = a
        /\ m_activeEvents' = ActiveOf(table')
        /\ UNCHANGED <<state, enabled, signals, m_started_counter, listed,
                       m_activeExclusiveEvents, next_index, call, task, settled>>
    BY DEF StoreEnabled, snakes, locks
  <1>3. m \in Modules /\ table \subseteq Modules /\ settled[m] = "unsure"
    BY <1>1, <1>2 DEF Inv, TypeOK, ChangeInv, Concerns
  <1>4. \/ ~listed /\ table' = table /\ table = {}
        \/ listed /\ task[a].op = "enable" /\ table' = table \cup {m}
        \/ listed /\ task[a].op = "disable" /\ table' = table \ {m}
    BY <1>1, <1>2 DEF StoreEnabled, Switched, Inv, SettledInv
  <1>5. TypeOK'
    <2>1. table' \subseteq Modules
      BY <1>3, <1>4
    <2> QED
      BY <1>2, <2>1 DEF Inv, TypeOK
  <1>6. ChangeInv' /\ ProgressInv'
    BY <1>2 DEF Inv, ChangeInv, ProgressInv
  <1>7. SettledInv'
    BY <1>2, <1>3, <1>4 DEF Inv, SettledInv
  <1>9. HolderInv'
    BY <1>1, <1>2, <1>4 DEF HolderInv
  <1>10. ActiveInv'
    BY <1>2 DEF ActiveInv
  <1>11. CalmInv' /\ RunInv'
    BY <1>2, Disturbed DEF Busy
  <1> QED
    BY <1>5, <1>6, <1>7, <1>9, <1>10, <1>11 DEF Inv

\* After a refresh m_modules has nothing enabled.
LEMMA StoreRefreshedInv ==
    ASSUME Inv, NEW a \in Admins, StoreRefreshed(a)
    PROVE  Inv'
  <1> USE Constants
  <1>1. /\ task[a].op = "refresh" /\ refreshing' = a
        /\ listed' = task[a].filled /\ table' = task[a].list
        /\ m_activeEvents' = ActiveOf(table')
        /\ UNCHANGED <<state, enabled, signals, m_started_counter,
                       m_activeExclusiveEvents, next_index, call, task, settled>>
    BY DEF StoreRefreshed, snakes, locks
  <1>2. table' = {} /\ listed' \in BOOLEAN
    BY <1>1, Tasks DEF Inv, ChangeInv
  <1>3. TypeOK'
    BY <1>1, <1>2 DEF Inv, TypeOK
  <1>4. ChangeInv' /\ ProgressInv'
    BY <1>1 DEF Inv, ChangeInv, ProgressInv
  <1>5. SettledInv'
    BY <1>1, <1>2 DEF Inv, SettledInv
  <1>7. HolderInv'
    BY <1>1 DEF HolderInv
  <1>8. ActiveInv'
    BY <1>1 DEF ActiveInv
  <1>9. CalmInv' /\ RunInv'
    BY <1>1, Disturbed DEF Busy
  <1> QED
    BY <1>3, <1>4, <1>5, <1>7, <1>8, <1>9 DEF Inv

\* What the end of a change settles.
LEMMA Settles ==
    ASSUME Inv, NEW a \in Admins, Ended(a), task[a].op \in {"enable", "disable", "refresh"}
    PROVE  /\ task'[a] = Resting /\ \A b \in Admins : b # a => task'[b] = task[b]
           /\ task' \in [Admins -> TaskStates]
           /\ settled' \in [Modules -> {"on", "off", "unsure"}]
           /\ \A m \in Modules :
                \/ settled'[m] = settled[m]
                \/ Concerns(task[a], m) /\ settled'[m] = "unsure"
                \/ /\ Concerns(task[a], m) /\ task[a].alone
                   /\ \/ task[a].op = "enable" /\ task[a].ok /\ settled'[m] = "on"
                      \/ task[a].op = "disable" /\ settled'[m] = "off"
  <1>1. task \in [Admins -> TaskStates] /\ settled \in [Modules -> {"on", "off", "unsure"}] /\ TypeOK
    BY DEF Inv, TypeOK
  <1>2. /\ task' = [task EXCEPT ![a] = Resting]
        /\ DOMAIN settled' = Modules /\ settled' = [m \in Modules |-> settled'[m]]
    BY DEF Ended
  <1>3. ASSUME NEW m \in Modules
        PROVE  \/ settled'[m] = settled[m]
               \/ Concerns(task[a], m) /\ settled'[m] = "unsure"
               \/ /\ Concerns(task[a], m) /\ task[a].alone
                  /\ \/ task[a].op = "enable" /\ task[a].ok /\ settled'[m] = "on"
                     \/ task[a].op = "disable" /\ settled'[m] = "off"
    <2>1. CASE ~Concerns(task[a], m) \/ ~task[a].alone
      BY <2>1 DEF Ended
    <2>2. CASE Concerns(task[a], m) /\ task[a].alone
      <3>1. settled'[m] = IF ~task[a].ok THEN "unsure" ELSE IF task[a].op = "enable" THEN "on" ELSE "off"
        BY <2>2 DEF Ended
      <3> QED
        BY <2>2, <3>1 DEF Concerns
    <2> QED
      BY <2>1, <2>2
  <1>4. \A m \in Modules : settled'[m] \in {"on", "off", "unsure"}
    BY <1>1, <1>3
  <1> QED
    BY <1>1, <1>2, <1>3, <1>4, RestingTask

\* The parts of the invariant that the end of a change leaves to its kind are what
\* it settled and the list of active events.
LEMMA EndedInv ==
    ASSUME Inv, NEW a \in Admins, Ended(a),
           task[a].op \in {"enable", "disable", "refresh"}, task[a].next = Count \/ task[a].op = "refresh",
           UNCHANGED <<state, enabled, signals, m_started_counter, listed, table, m_activeEvents,
                       next_index, call>>,
           refreshing = a, refreshing' = Nobody
    PROVE  /\ TypeOK' /\ ChangeInv' /\ ProgressInv' /\ SettledInv' /\ HolderInv' /\ CalmInv' /\ RunInv'
  <1> USE Constants, RestingTask
  <1>1. /\ task'[a] = Resting /\ \A b \in Admins : b # a => task'[b] = task[b]
        /\ task' \in [Admins -> TaskStates]
        /\ settled' \in [Modules -> {"on", "off", "unsure"}]
    BY Settles
  <1>2. \A m \in Modules :
          \/ settled'[m] = settled[m]
          \/ Concerns(task[a], m) /\ settled'[m] = "unsure"
          \/ /\ Concerns(task[a], m) /\ task[a].alone
             /\ \/ task[a].op = "enable" /\ task[a].ok /\ settled'[m] = "on"
                \/ task[a].op = "disable" /\ settled'[m] = "off"
    BY Settles
  <1>3. TypeOK'
    <2>1. refreshing' \in Admins \cup {"main", Nobody}
      BY DEF Inv, TypeOK
    <2> QED
      BY <1>1, <2>1 DEF Inv, TypeOK
  <1>6. ChangeInv'
    <2>1. ASSUME NEW b \in Admins, NEW d \in Admins, b # d, Conflict(task'[b], task'[d])
          PROVE  ~task'[b].alone
      <3>1. b # a /\ d # a
        BY <1>1, <2>1 DEF Conflict, Concerns
      <3> QED
        BY <1>1, <2>1, <3>1 DEF Inv, ChangeInv
    <2>2. ASSUME NEW b \in Admins, NEW m \in Modules, Concerns(task'[b], m)
          PROVE  settled'[m] = "unsure"
      <3>1. b # a /\ task'[b] = task[b] /\ settled[m] = "unsure"
        BY <1>1, <2>2 DEF Concerns, Inv, ChangeInv
      <3>2. CASE Concerns(task[a], m)
        <4>1. Conflict(task[a], task[b])
          BY <2>2, <3>1, <3>2 DEF Conflict, Concerns
        <4> QED
          BY <1>2, <3>1, <4>1 DEF Inv, ChangeInv
      <3>3. CASE ~Concerns(task[a], m)
        BY <1>2, <3>1, <3>3
      <3> QED
        BY <3>2, <3>3
    <2>3. ASSUME NEW b \in Admins
          PROVE  /\ task'[b].op \in {"enable", "disable"} => task'[b].mod \in Modules
                 /\ task'[b].list = {}
      BY <1>1 DEF Inv, ChangeInv
    <2> QED
      BY <2>1, <2>2, <2>3 DEF ChangeInv
  <1>7. ProgressInv'
    BY <1>1 DEF Inv, ProgressInv
  <1>8. SettledInv'
    <2>1. ASSUME NEW m \in Modules, NEW i \in Snakes, settled'[m] # settled[m], settled'[m] # "unsure"
          PROVE  /\ settled'[m] = "on" => state[i] = "ready" /\ m \in enabled[i]
                 /\ settled'[m] = "off" => m \notin enabled[i]
      <3>1. /\ Concerns(task[a], m) /\ task[a].alone
            /\ \/ task[a].op = "enable" /\ task[a].ok /\ settled'[m] = "on"
               \/ task[a].op = "disable" /\ settled'[m] = "off"
        BY <1>2, <2>1
      <3>2. i < task[a].next
        BY <3>1 DEF Concerns
      <3> QED
        BY <3>1, <3>2 DEF Concerns, Inv, ProgressInv
    <2>2. ASSUME NEW m \in table
          PROVE  listed /\ settled'[m] # "off"
      <3>1. m \in Modules /\ listed /\ settled[m] # "off"
        BY DEF Inv, TypeOK, SettledInv
      <3>2. ~(task[a].op = "disable" /\ Concerns(task[a], m))
        BY DEF Inv, HolderInv, Concerns
      <3> QED
        BY <1>2, <3>1, <3>2
    <2> QED
      BY <2>1, <2>2 DEF Inv, SettledInv
  <1>11. HolderInv'
    <2>1. ASSUME NEW b \in Admins, refreshing' = b
          PROVE  b # a /\ refreshing = b
      BY <2>1 DEF Inv, HolderInv
    <2> QED
      BY <1>1, <2>1 DEF Inv, HolderInv
  <1>12. CalmInv' /\ RunInv'
    BY Disturbed DEF Busy
  <1> QED
    BY <1>3, <1>6, <1>7, <1>8, <1>11, <1>12

\* enableModule, disableModule or refreshModulesAll returns.
LEMMA ReturnInv ==
    ASSUME Inv, NEW a \in Admins, Return(a)
    PROVE  Inv'
  <1> USE Constants
  <1>1. /\ refreshing = a /\ refreshing' = Nobody /\ Ended(a)
        /\ m_activeExclusiveEvents' = ActiveOf(table \cap Exclusive)
        /\ UNCHANGED <<state, enabled, signals, m_started_counter, listed, table, m_activeEvents,
                       next_index, call>>
    BY DEF Return, calcExclusive, snakes, locks
  <1>2. task[a].op \in {"enable", "disable", "refresh"} /\ (task[a].next = Count \/ task[a].op = "refresh")
    BY <1>1 DEF Inv, HolderInv
  <1>3. ActiveInv'
    BY <1>1 DEF Inv, ActiveInv
  <1> QED
    BY <1>1, <1>2, <1>3, EndedInv DEF Inv

-----------------------------------------------------------------------------
(* Calls                                                                     *)

\* What comes back of an event, from what the handlers did to it.
LEMMA AnswerSays ==
    ASSUME NEW dids
    PROVE  /\ Answer(dids) \in Replies
           /\ Answer(dids).valid <=> "raise" \notin dids
           /\ (dids # {} /\ \A did \in dids : ~Enough(did)) =>
                /\ Answer(dids).event.cancelled <=> "cancel" \in dids
                /\ Answer(dids).event.text = IF "edit" \in dids THEN "edited" ELSE "sent"
                /\ "added" \in Answer(dids).event.tags <=> "tag" \in dids
  <1> DEFINE py == Handled(eventToPyHandle(Sent), dids)
             back == updateGadget(Sent, py)
  <1>1. /\ py.text = IF "edit" \in dids THEN "edited" ELSE "sent"
        /\ py.tags = IF "tag" \in dids THEN {"added"} ELSE {}
        /\ py.cancelled <=> "cancel" \in dids
        /\ py.cancelled \in BOOLEAN
        /\ "text" \in py.dirty <=> "edit" \in dids
        /\ "cancelled" \in py.dirty <=> "cancel" \in dids
    BY DEF Handled, eventToPyHandle, TagsToPy, Sent
  <1> HIDE DEF py
  <1>2. /\ back = [text |-> back.text, tags |-> back.tags, cancelled |-> back.cancelled]
        /\ back.text = IF "edit" \in dids THEN "edited" ELSE "sent"
        /\ back.tags = py.tags
        /\ back.cancelled <=> "cancel" \in dids
        /\ back.cancelled \in BOOLEAN
    BY <1>1 DEF updateGadget, Sent
  <1>3. back \in [text : {"sent", "edited"}, tags : SUBSET {"sent", "added"}, cancelled : BOOLEAN]
    <2>1. back.text \in {"sent", "edited"} /\ back.tags \in SUBSET {"sent", "added"}
      BY <1>1, <1>2
    <2> HIDE DEF back
    <2> QED
      BY <1>2, <2>1
  <1>4. Sent \in [text : {"sent", "edited"}, tags : SUBSET {"sent", "added"}, cancelled : BOOLEAN]
    BY DEF Sent
  <1>5. /\ Answer(dids) = [valid |-> "raise" \notin dids, event |-> Answer(dids).event]
        /\ Answer(dids).valid <=> "raise" \notin dids
        /\ Answer(dids).event = Sent \/ Answer(dids).event = back
        /\ (dids # {} /\ \A did \in dids : ~Enough(did)) => Answer(dids).event = back
    BY DEF Answer, py
  <1> HIDE DEF back
  <1>6. Answer(dids) \in Replies
    <2>1. PICK r \in BOOLEAN, e \in [text : {"sent", "edited"}, tags : SUBSET {"sent", "added"},
                                    cancelled : BOOLEAN] : Answer(dids) = [valid |-> r, event |-> e]
      BY <1>3, <1>4, <1>5
    <2> QED
      BY <2>1 DEF Replies
  <1> QED
    BY <1>1, <1>2, <1>5, <1>6

\* A step that concerns only the records of some calls keeps the invariant if each
\* record that changes is steady and has met what it should.
LEMMA CallFrame ==
    ASSUME Inv, call' \in [Askers -> CallStates], next_index' \in Snakes,
           UNCHANGED <<state, enabled, signals, m_started_counter, listed, table, m_activeEvents,
                       m_activeExclusiveEvents, refreshing, task, settled>>,
           \A d \in Askers : call'[d] = call[d] \/ (Steady(call'[d]) /\ Met(call'[d]))
    PROVE  Inv'
  <1>1. TypeOK' /\ ChangeInv' /\ ProgressInv' /\ SettledInv' /\ HolderInv' /\ ActiveInv'
    BY DEF Inv, TypeOK, ChangeInv, ProgressInv, SettledInv, HolderInv, ActiveInv
  <1>2. \A d \in Askers : Steady(call'[d]) /\ Met(call'[d])
    BY DEF Inv, CalmInv, RunInv
  <1>3. CalmInv'
    BY <1>2 DEF CalmInv, Steady, Quiet, Busy
  <1>4. RunInv'
    BY <1>2 DEF RunInv, Met, Heard
  <1> QED
    BY <1>1, <1>3, <1>4 DEF Inv

\* What is calm at its beginning has nothing under way.
LEMMA NewCall ==
    ASSUME Inv, NEW ev \in Events \cup {NickChange}, ev \in m_activeEvents, NEW r \in BOOLEAN, r => Calm
    PROVE  LET new == [Idle EXCEPT !.at = "pick", !.event = ev, !.calm = r]
           IN  new \in CallStates /\ Steady(new) /\ Met(new)
  <1> DEFINE new == [Idle EXCEPT !.at = "pick", !.event = ev, !.calm = r]
  <1>1. /\ new \in CallStates /\ new.at = "pick" /\ new.event = ev /\ new.calm = r
        /\ new.ran = {} /\ new.dids = {} /\ new.last = 0
    BY IdleCall DEF CallStates
  <1> HIDE DEF new
  <1>2. r => Quiet /\ signals = 0 /\ refreshing = Nobody
    <2>1. r => Quiet /\ signals = 0 /\ refreshing # "main"
      BY DEF Calm, MainIdle
    <2> QED
      BY <2>1 DEF Quiet, Busy, Inv, HolderInv, TypeOK
  <1>3. Steady(new)
    BY <1>1, <1>2 DEF Steady, Calm
  <1>4. Met(new)
    BY <1>1 DEF Met
  <1> QED
    BY <1>1, <1>3, <1>4 DEF new

\* An event has a handler, as far as m_modules knows.
LEMMA HasEventHandlerInv ==
    ASSUME Inv, NEW c \in Callers, NEW ev \in Events, hasEventHandler(c, ev)
    PROVE  Inv'
  <1> USE Constants
  <1>1. /\ ev \in m_activeEvents
        /\ UNCHANGED <<state, enabled, signals, m_started_counter, listed, table, m_activeEvents,
                       m_activeExclusiveEvents, refreshing, next_index, task, settled>>
    BY DEF hasEventHandler, snakes, modules, locks
  <1>2. call \in [Askers -> CallStates] /\ next_index \in Snakes /\ c \in Askers
    BY DEF Inv, TypeOK
  <1>3. PICK r \in BOOLEAN : /\ call' = [call EXCEPT ![c] = [Idle EXCEPT !.at = "pick", !.event = ev, !.calm = r]]
                             /\ r => Calm
    <2>1. Calm \in BOOLEAN
      BY DEF Calm
    <2> QED
      BY <2>1 DEF hasEventHandler
  <1>4. PICK new : /\ new = [Idle EXCEPT !.at = "pick", !.event = ev, !.calm = r]
                   /\ new \in CallStates /\ Steady(new) /\ Met(new)
    BY <1>1, <1>3, NewCall
  <1>5. call' \in [Askers -> CallStates] /\ call'[c] = new /\ \A d \in Askers : d # c => call'[d] = call[d]
    BY <1>2, <1>3, <1>4
  <1> QED
    BY <1>1, <1>2, <1>4, <1>5, CallFrame

\* An interpreter is chosen: the first, if the event is exclusive.
LEMMA PickInv ==
    ASSUME Inv, NEW c \in Askers, Pick(c)
    PROVE  Inv'
  <1> USE Constants
  <1>1. /\ call[c].at = "pick"
        /\ UNCHANGED <<state, enabled, signals, m_started_counter, listed, table, m_activeEvents,
                       m_activeExclusiveEvents, refreshing, task, settled>>
    BY DEF Pick, snakes, modules
  <1>2. call \in [Askers -> CallStates] /\ call[c] \in CallStates /\ next_index \in Snakes
    BY DEF Inv, TypeOK
  <1>3. PICK i \in Snakes : /\ call' = [call EXCEPT ![c].at = "post", ![c].target = i]
                            /\ i # 0 => call[c].event \notin m_activeExclusiveEvents
    BY <1>2 DEF Pick, Pinned
  <1>4a. PICK new : new = [call[c] EXCEPT !.at = "post", !.target = i]
    OBVIOUS
  <1>4. /\ new \in CallStates
        /\ new.at = "post" /\ new.target = i
        /\ new.event = call[c].event /\ new.calm = call[c].calm
        /\ new.ran = call[c].ran /\ new.last = call[c].last /\ new.dids = call[c].dids
    <2>1. new \in CallStates
      BY <1>4a, <1>2 DEF CallStates
    <2> QED
      BY <1>4a, <2>1, <1>2 DEF CallStates
  <1>5. call' \in [Askers -> CallStates] /\ call'[c] = new /\ \A d \in Askers : d # c => call'[d] = call[d]
    BY <1>2, <1>3, <1>4a, <1>4
  <1>6. next_index' \in Snakes
    <2>1. next_index' = next_index \/ next_index' = (next_index + 1) % Count
      BY DEF Pick
    <2>2. (next_index + 1) % Count \in 0 .. (Count - 1)
      BY <1>2 DEF Snakes
    <2> QED
      BY <1>2, <2>1, <2>2 DEF Snakes
  <1>7. Steady(new)
    BY <1>1, <1>3, <1>4 DEF Inv, CalmInv, Steady
  <1>8. Met(new)
    BY <1>1, <1>4 DEF Inv, RunInv, Met
  <1> QED
    BY <1>1, <1>5, <1>6, <1>7, <1>8, CallFrame

\* The call is posted.
LEMMA PostInv ==
    ASSUME Inv, NEW c \in Askers, Post(c)
    PROVE  Inv'
  <1> USE Constants
  <1>1. /\ call[c].at = "post" /\ call' = [call EXCEPT ![c].at = "wait"]
        /\ UNCHANGED <<state, enabled, signals, m_started_counter, listed, table, m_activeEvents,
                       m_activeExclusiveEvents, refreshing, next_index, task, settled>>
    BY DEF Post, snakes, modules
  <1>2. call \in [Askers -> CallStates] /\ call[c] \in CallStates /\ next_index \in Snakes
    BY DEF Inv, TypeOK
  <1>3a. PICK new : new = [call[c] EXCEPT !.at = "wait"]
    OBVIOUS
  <1>3. /\ new \in CallStates
        /\ new.at = "wait" /\ new.target = call[c].target
        /\ new.event = call[c].event /\ new.calm = call[c].calm
        /\ new.ran = call[c].ran /\ new.last = call[c].last /\ new.dids = call[c].dids
    <2>1. new \in CallStates
      BY <1>3a, <1>2 DEF CallStates
    <2> QED
      BY <1>3a, <2>1, <1>2 DEF CallStates
  <1>4. call' \in [Askers -> CallStates] /\ call'[c] = new /\ \A d \in Askers : d # c => call'[d] = call[d]
    BY <1>1, <1>2, <1>3a, <1>3
  <1>5. Steady(new)
    BY <1>1, <1>3 DEF Inv, CalmInv, Steady
  <1>6. Met(new)
    BY <1>1, <1>3 DEF Inv, RunInv, Met
  <1> QED
    BY <1>1, <1>2, <1>4, <1>5, <1>6, CallFrame

\* The caller has its answer and is idle again; if it is an interpreter, the call that
\* it was running is done.
LEMMA AnsweredInv ==
    ASSUME Inv, NEW c \in Askers, Answered(c)
    PROVE  Inv'
  <1> USE Constants
  <1>1. /\ call' = [d \in Askers |->
             IF d = c THEN Idle
             ELSE IF call[d].at = "renaming" /\ call[d].target = c THEN [call[d] EXCEPT !.at = "done"]
             ELSE call[d]]
        /\ UNCHANGED <<state, enabled, signals, m_started_counter, listed, table, m_activeEvents,
                       m_activeExclusiveEvents, refreshing, next_index, task, settled>>
    BY DEF Answered, snakes, modules
  <1>2. call \in [Askers -> CallStates] /\ next_index \in Snakes
    BY DEF Inv, TypeOK
  <1>3. ASSUME NEW d \in Askers
        PROVE  /\ call'[d] \in CallStates
               /\ call'[d] = call[d] \/ (Steady(call'[d]) /\ Met(call'[d]))
    <2>1. CASE d = c
      BY <1>1, <2>1, IdleCall DEF Steady, Met
    <2>2. CASE d # c /\ call[d].at = "renaming" /\ call[d].target = c
      <3>1. call[d] \in CallStates
        BY <1>2
      <3>2a. PICK new : new = [call[d] EXCEPT !.at = "done"]
        OBVIOUS
      <3>2. /\ new \in CallStates
            /\ new.at = "done" /\ new.target = call[d].target
            /\ new.event = call[d].event /\ new.calm = call[d].calm
            /\ new.ran = call[d].ran /\ new.last = call[d].last /\ new.dids = call[d].dids
            /\ new.answer = call[d].answer
        <4>1. new \in CallStates
          BY <3>2a, <3>1 DEF CallStates
        <4> QED
          BY <3>2a, <4>1, <3>1 DEF CallStates
      <3>3. call'[d] = new
        BY <1>1, <2>2, <3>2a, <3>2
      <3>4. Steady(new)
        BY <2>2, <3>2 DEF Inv, CalmInv, Steady
      <3>5. Met(new)
        BY <2>2, <3>2 DEF Inv, RunInv, Met, Heard
      <3> QED
        BY <3>2, <3>3, <3>4, <3>5
    <2>3. CASE d # c /\ ~(call[d].at = "renaming" /\ call[d].target = c)
      BY <1>1, <1>2, <2>3
    <2> QED
      BY <2>1, <2>2, <2>3
  <1>4. call' \in [Askers -> CallStates]
    BY <1>1, <1>3
  <1> QED
    BY <1>1, <1>2, <1>3, <1>4, CallFrame

\* What a calm call meets in its interpreter: a module that handles the event, and no
\* exclusive one unless the interpreter is the first.
LEMMA CalmHears ==
    ASSUME Inv, NEW c \in Askers, call[c].at = "wait", call[c].calm
    PROVE  /\ Listening(call[c].target, call[c].event) # {}
           /\ call[c].target # 0 =>
                \A k \in Listening(call[c].target, call[c].event) : ModuleOrder[k] \notin Exclusive
  <1>0. PICK i \in Snakes : i = call[c].target
    BY DEF Inv, TypeOK, CallStates
  <1>1. enabled[i] = table
    BY CalmKnows
  <1>2. /\ call[c].event \in ActiveOf(table) /\ table \subseteq Modules
        /\ i # 0 => call[c].event \notin ActiveOf(table \cap Exclusive)
    BY <1>0 DEF Inv, CalmInv, Steady, ActiveInv, TypeOK
  <1>3. PICK m \in table : call[c].event \in Handles[m]
    BY <1>2 DEF ActiveOf
  <1>4. PICK k \in DOMAIN ModuleOrder : ModuleOrder[k] = m
    BY <1>2, <1>3 DEF Modules, Range
  <1>5. k \in Listening(i, call[c].event)
    BY <1>1, <1>3, <1>4 DEF Listening
  <1>6. ASSUME i # 0, NEW l \in Listening(i, call[c].event), ModuleOrder[l] \in Exclusive
        PROVE  FALSE
    <2>1. ModuleOrder[l] \in table \cap Exclusive /\ call[c].event \in Handles[ModuleOrder[l]]
      BY <1>1, <1>6 DEF Listening
    <2> QED
      BY <1>2, <1>6, <2>1 DEF ActiveOf
  <1> QED
    BY <1>0, <1>5, <1>6

\* The next handler runs.
LEMMA RunHandlerInv ==
    ASSUME Inv, NEW c \in Askers, RunHandler(c)
    PROVE  Inv'
  <1> USE Constants
  <1>1. /\ call[c].at = "wait"
        /\ UNCHANGED <<state, enabled, signals, m_started_counter, listed, table, m_activeEvents,
                       m_activeExclusiveEvents, refreshing, next_index, task, settled>>
    BY DEF RunHandler, snakes, modules, locks
  <1>2. call \in [Askers -> CallStates] /\ call[c] \in CallStates /\ next_index \in Snakes
    BY DEF Inv, TypeOK
  <1>3. PICK k \in Left(c), did \in DoesTo(call[c].event) :
          call' = [call EXCEPT ![c].last = k, ![c].ran = @ \cup {ModuleOrder[k]},
                               ![c].dids = @ \cup {did}]
    BY DEF RunHandler
  <1>4. /\ k \in Listening(call[c].target, call[c].event) /\ k \in Nat /\ ModuleOrder[k] \in Modules
        /\ did \in Does \cup {"nothing", "raise"}
    <2>1. k \in DOMAIN ModuleOrder /\ k \in Listening(call[c].target, call[c].event)
      BY DEF Left, Listening
    <2>2. ModuleOrder \in Seq(Modules)
      BY SnakePitAssumption
    <2> QED
      BY <2>1, <2>2 DEF DoesTo
  <1>5. PICK mods, dids : mods = call[c].ran \cup {ModuleOrder[k]} /\ dids = call[c].dids \cup {did}
    OBVIOUS
  <1>6. mods \subseteq Modules /\ mods # {} /\ dids \subseteq Does \cup {"nothing", "raise"} /\ dids # {}
    BY <1>2, <1>4, <1>5 DEF CallStates
  <1>7a. PICK new : new = [call[c] EXCEPT !.last = k, !.ran = mods, !.dids = dids]
    OBVIOUS
  <1>7. /\ new \in CallStates
        /\ new.at = call[c].at /\ new.target = call[c].target
        /\ new.event = call[c].event /\ new.calm = call[c].calm
        /\ new.ran = mods /\ new.dids = dids
    <2>1. new \in CallStates
      BY <1>7a, <1>2, <1>4, <1>6 DEF CallStates
    <2> QED
      BY <1>7a, <2>1, <1>2 DEF CallStates
  <1>8. call' \in [Askers -> CallStates] /\ call'[c] = new /\ \A d \in Askers : d # c => call'[d] = call[d]
    BY <1>2, <1>3, <1>5, <1>7a, <1>7
  <1>9. Steady(new)
    BY <1>1, <1>7 DEF Inv, CalmInv, Steady
  <1>10. Met(new)
    <2>1. (call[c].calm /\ call[c].target # 0) => mods \cap Exclusive = {}
      BY <1>1, <1>4, <1>5, CalmHears DEF Inv, RunInv, Met
    <2> QED
      BY <1>1, <1>6, <1>7, <2>1 DEF Met
  <1> QED
    BY <1>1, <1>2, <1>8, <1>9, <1>10, CallFrame

\* The answer: at once, or when the interpreter is back from setNick.
LEMMA ExecuteFunctionInv ==
    ASSUME Inv, NEW c \in Askers, executeFunction(c)
    PROVE  Inv'
  <1> USE Constants
  <1>1. /\ call[c].at = "wait"
        /\ UNCHANGED <<state, enabled, signals, m_started_counter, listed, table, m_activeEvents,
                       m_activeExclusiveEvents, refreshing, next_index, task, settled>>
    BY DEF executeFunction, snakes, modules, locks
  <1>2. /\ call \in [Askers -> CallStates] /\ call[c] \in CallStates /\ next_index \in Snakes
        /\ call[c].target \in Askers
    BY DEF Inv, TypeOK, CallStates
  <1>3. PICK dids : dids = call[c].dids
    OBVIOUS
  <1>4. /\ Answer(dids) \in Replies
        /\ Answer(dids).valid <=> "raise" \notin dids
        /\ (dids # {} /\ \A did \in dids : ~Enough(did)) =>
             /\ Answer(dids).event.cancelled <=> "cancel" \in dids
             /\ Answer(dids).event.text = IF "edit" \in dids THEN "edited" ELSE "sent"
             /\ "added" \in Answer(dids).event.tags <=> "tag" \in dids
    BY AnswerSays
  <1>5. call[c].calm => call[c].ran # {}
    <2>1. SUFFICES ASSUME call[c].calm, call[c].ran = {}
                   PROVE  FALSE
      OBVIOUS
    <2>2. Listening(call[c].target, call[c].event) # {}
      BY <1>1, <2>1, CalmHears
    <2>3. call[c].last = 0
      BY <2>1 DEF Inv, RunInv, Met
    <2>4. \A k \in DOMAIN ModuleOrder : k \in Nat /\ 0 < k
      <3>1. ModuleOrder \in Seq(Modules)
        BY SnakePitAssumption
      <3> QED
        BY <3>1
    <2>5. Left(c) # {}
      BY <2>2, <2>3, <2>4 DEF Left, Listening
    <2>6. call[c].dids # {}
      BY <2>5 DEF executeFunction
    <2>7. call[c].ran # {}
      BY <2>6 DEF Inv, RunInv, Met
    <2> QED
      BY <2>1, <2>7
  <1>6. ASSUME NEW at \in {"renaming", "done"}
        PROVE  LET new == [call[c] EXCEPT !.at = at, !.answer = Answer(dids)]
               IN  new \in CallStates /\ Steady(new) /\ Met(new)
    <2>1a. PICK new : new = [call[c] EXCEPT !.at = at, !.answer = Answer(dids)]
      OBVIOUS
    <2>1. /\ new \in CallStates
          /\ new.at = at /\ new.target = call[c].target
          /\ new.event = call[c].event /\ new.calm = call[c].calm
          /\ new.ran = call[c].ran /\ new.last = call[c].last /\ new.dids = dids
          /\ new.answer = Answer(dids)
      <3>1. new \in CallStates
        BY <2>1a, <1>2, <1>4 DEF CallStates
      <3> QED
        BY <2>1a, <3>1, <1>2, <1>3 DEF CallStates
    <2>2. Steady(new)
      BY <1>1, <2>1 DEF Inv, CalmInv, Steady
    <2>3. /\ call[c].ran = {} => call[c].last = 0
          /\ call[c].ran # {} <=> dids # {}
          /\ (call[c].calm /\ call[c].target # 0) => call[c].ran \cap Exclusive = {}
      BY <1>1, <1>3 DEF Inv, RunInv, Met
    <2>4. new.calm => Heard(new)
      BY <1>4, <1>5, <2>1, <2>3 DEF Heard
    <2>5. Met(new)
      BY <2>1, <2>3, <2>4 DEF Met
    <2> QED
      BY <2>1a, <2>1, <2>2, <2>5
  <1>7. CASE Renames(dids) /\ NickChange \in m_activeEvents
    <2>1. PICK r \in BOOLEAN : /\ call' = [call EXCEPT ![c].at = "renaming", ![c].answer = Answer(dids),
                                  ![call[c].target] = [Idle EXCEPT !.at = "pick", !.event = NickChange, !.calm = r]]
                               /\ r => Calm
      <3>1. Calm \in BOOLEAN
        BY DEF Calm
      <3> QED
        BY <1>3, <1>7, <3>1 DEF executeFunction
    <2>2. PICK new : /\ new = [Idle EXCEPT !.at = "pick", !.event = NickChange, !.calm = r]
                     /\ new \in CallStates /\ Steady(new) /\ Met(new)
      BY <1>7, <2>1, NewCall
    <2>3. PICK old : /\ old = [call[c] EXCEPT !.at = "renaming", !.answer = Answer(dids)]
                     /\ old \in CallStates /\ Steady(old) /\ Met(old)
      BY <1>6
    <2>4. /\ call' \in [Askers -> CallStates]
          /\ \A d \in Askers : call'[d] = call[d] \/ call'[d] = new \/ call'[d] = old
      BY <1>2, <2>1, <2>2, <2>3
    <2> QED
      BY <1>1, <1>2, <2>2, <2>3, <2>4, CallFrame
  <1>8. CASE ~(Renames(dids) /\ NickChange \in m_activeEvents)
    <2>1. call' = [call EXCEPT ![c].at = "done", ![c].answer = Answer(dids)]
      BY <1>3, <1>8 DEF executeFunction
    <2>2. PICK old : /\ old = [call[c] EXCEPT !.at = "done", !.answer = Answer(dids)]
                     /\ old \in CallStates /\ Steady(old) /\ Met(old)
      BY <1>6
    <2>3. /\ call' \in [Askers -> CallStates]
          /\ \A d \in Askers : call'[d] = call[d] \/ call'[d] = old
      BY <1>2, <2>1, <2>2
    <2> QED
      BY <1>1, <1>2, <2>2, <2>3, CallFrame
  <1> QED
    BY <1>7, <1>8

-----------------------------------------------------------------------------
(* The theorems                                                              *)

\* Every step keeps the invariant.
LEMMA NextInv ==
    ASSUME Inv, [Next]_vars
    PROVE  Inv'
  <1>0. m_started_counter \in Nat
    BY DEF Inv, TypeOK
  <1>1. CASE UNCHANGED vars
    BY <1>0, <1>1, UnchangedInv DEF vars, modules
  <1>2. CASE Main
    BY <1>2, OnSnakesReadyInv, StoreExclusiveInv DEF Main
  <1>3. ASSUME NEW i \in Snakes, Snake(i)
        PROVE  Inv'
    <2>1. CASE Abort(i)
      BY <1>0, <2>1, UnchangedInv DEF Abort, modules
    <2> QED
      BY <1>3, <2>1, StartInv, RunHandlerInv, ExecuteFunctionInv DEF Snake, Runs
  <1>4. ASSUME NEW c \in Askers, Caller(c)
        PROVE  Inv'
    BY <1>4, PickInv, PostInv, AnsweredInv DEF Caller
  <1>5. ASSUME NEW c \in Callers, NEW ev \in Events, hasEventHandler(c, ev)
        PROVE  Inv'
    BY <1>5, HasEventHandlerInv
  <1>6. ASSUME NEW a \in Admins, Admin(a)
        PROVE  Inv'
    BY <1>6, EachSnakeInv, StoreEnabledInv, StoreRefreshedInv, ReturnInv DEF Admin
  <1>7. ASSUME NEW a \in Admins, Change(a)
        PROVE  Inv'
    BY <1>7, ChangeStepInv
  <1> QED
    BY <1>1, <1>2, <1>3, <1>4, <1>5, <1>6, <1>7 DEF Next

\* The invariant holds in every reachable state.
LEMMA Invariance == Spec => []Inv
  BY InitInv, NextInv, PTL DEF Spec

\* enableModule, disableModule, refreshModulesAll, restart and onSnakesReady, by any
\* number of threads, on any number of interpreters and while handlers run: when nothing
\* is under way, a module whose last change was undisturbed is enabled in all
\* interpreters or in none, and m_modules never says that it is enabled when it is not.
THEOREM TableIsHonest == Spec => []TableHonest
  <1>1. Inv => TableHonest
    <2> SUFFICES ASSUME Inv, NEW m \in Modules, settled[m] # "unsure"
                 PROVE  /\ \A i \in Snakes : state[i] = "ready" => (m \in enabled[i] <=> settled[m] = "on")
                        /\ m \in table => settled[m] = "on"
      BY DEF TableHonest
    <2>1. settled[m] \in {"on", "off"}
      BY DEF Inv, TypeOK
    <2> QED
      BY <2>1 DEF Inv, SettledInv
  <1> QED
    BY <1>1, Invariance, PTL

\* callFunctionList, executeFunction and the calls of setNick, for any modules, events and
\* callers: a call that no change disturbs meets an enabled handler, an exclusive module's
\* only in interpreter 0, and what the handlers did to the event comes back.
THEOREM CallsHeard == Spec => []CalmCallsHeard
  <1>1. Inv => CalmCallsHeard
    BY DEF Inv, RunInv, Met, CalmCallsHeard
  <1> QED
    BY <1>1, Invariance, PTL

=============================================================================
