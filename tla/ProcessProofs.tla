--------------------------- MODULE ProcessProofs ----------------------------
(***************************************************************************)
(* The processes the program keeps: the GUI's tray menu and its hand-over  *)
(* to a successor, for any number of toggles and of launches; the plugin   *)
(* processes of a start and their records, for any number of attempts and  *)
(* of crashes; and the yamux hop of the galoshes plugin, for any number of *)
(* sessions, associations and connections.                                 *)
(***************************************************************************)
EXTENDS PluginStart, Galoshes, Gui, FiniteSetTheorems, TLAPS

-----------------------------------------------------------------------------
(* The tray and the hand-over.                                             *)

Stages == {"idle", "send", "running", "stopped", "failed", "denied", "confirm", "ending", "freed"}
Asks == [at : Stages, enable : BOOLEAN, attended : BOOLEAN]

\* The menu is current, or a repaint is owed: by the queue, by the watcher or
\* by a guard between freeing the slot and asking for it.
TrayIInv ==
  /\ toggle \in [GuiTasks -> Asks] /\ queued \in BOOLEAN /\ changed \in BOOLEAN
  /\ TrayUpToDate

\* A commit keeps the menu current or marks the snapshot as changed.
LEMMA CommitOwes ==
  ASSUME TrayIInv, NEW new, Commit(new), UNCHANGED <<target, queued, shown>>,
         toggle' \in [GuiTasks -> Asks],
         \A t \in GuiTasks : toggle'[t].at # "freed" => toggle[t].at # "freed"
  PROVE  TrayIInv'
  BY Zenon DEF TrayIInv, TrayUpToDate, Commit, Menu

\* What neither touches the snapshot nor the slot leaves the menu as it was.
LEMMA QuietKeeps ==
  ASSUME TrayIInv, UNCHANGED <<snap, changed, target, queued, shown>>,
         toggle' \in [GuiTasks -> Asks],
         \A t \in GuiTasks : toggle'[t].at # "freed" => toggle[t].at # "freed"
  PROVE  TrayIInv'
  BY DEF TrayIInv, TrayUpToDate, Menu

\* A toggle that moves on, but not past its repaint, hides none that is owed.
LEMMA MovesOn ==
  ASSUME TrayIInv, NEW t \in GuiTasks, NEW at \in Stages, ToggleIsAt(t, at),
         toggle[t].at # "freed"
  PROVE  /\ toggle' \in [GuiTasks -> Asks]
         /\ \A u \in GuiTasks : toggle'[u].at # "freed" => toggle[u].at # "freed"
  BY Zenon DEF TrayIInv, ToggleIsAt, NoToggle, Asks

\* A status observed, or not, keeps the menu current or marks the change.
LEMMA StatusOwes ==
  ASSUME TrayIInv, StatusSeen, UNCHANGED <<target, queued, shown>>,
         toggle' \in [GuiTasks -> Asks],
         \A t \in GuiTasks : toggle'[t].at # "freed" => toggle[t].at # "freed"
  PROVE  TrayIInv'
<1>1. CASE \E new : Commit(new)
  BY <1>1, CommitOwes
<1>2. CASE UNCHANGED <<snap, changed>>
  BY <1>2, QuietKeeps
<1> QED BY <1>1, <1>2 DEF StatusSeen

\* Every step of the tray preserves it.
LEMMA TrayStep == TrayIInv /\ [TrayNext]_trayVars => TrayIInv'
<1> SUFFICES ASSUME TrayIInv, [TrayNext]_trayVars PROVE TrayIInv'
  OBVIOUS
<1> toggle \in [GuiTasks -> Asks]
  BY DEF TrayIInv
<1>1. CASE UNCHANGED trayVars
  BY <1>1 DEF trayVars, TrayIInv, TrayUpToDate, Menu
<1>2. CASE BridgeMoves
  BY <1>2, QuietKeeps DEF BridgeMoves
<1>3. CASE Reconciles
  BY <1>3, StatusOwes DEF Reconciles
<1>4. CASE ChangesLockdown
  BY Zenon, <1>4 DEF ChangesLockdown, Rebuild, Commit, TrayIInv, TrayUpToDate
<1>5. CASE Syncs
  BY Zenon, <1>5 DEF Syncs, Rebuild, TrayIInv, TrayUpToDate
<1>6. CASE Paints
  BY Zenon, <1>6 DEF Paints, Menu, TrayIInv, TrayUpToDate
<1>7. ASSUME NEW t \in GuiTasks, ToggleBegins(t) PROVE TrayIInv'
  <2> PICK enable \in BOOLEAN, attended \in BOOLEAN :
         \/ /\ toggle' = [toggle EXCEPT ![t] = [at |-> "send", enable |-> enable, attended |-> attended]]
            /\ Rebuild /\ UNCHANGED changed
         \/ UNCHANGED <<target, toggle, queued, snap, changed, shown>>
    BY <1>7 DEF ToggleBegins
  <2>1. CASE /\ toggle' = [toggle EXCEPT ![t] = [at |-> "send", enable |-> enable, attended |-> attended]]
             /\ Rebuild /\ UNCHANGED changed
    BY <2>1 DEF Rebuild, TrayIInv, TrayUpToDate, Asks, Stages
  <2>2. CASE UNCHANGED <<target, toggle, queued, snap, changed, shown>>
    BY <2>2, QuietKeeps
  <2> QED BY <2>1, <2>2
<1>8. ASSUME NEW t \in GuiTasks, ToggleSends(t) PROVE TrayIInv'
  <2>1. /\ toggle' \in [GuiTasks -> Asks]
        /\ \A u \in GuiTasks : toggle'[u].at # "freed" => toggle[u].at # "freed"
    <3>1. toggle[t].at # "freed"
      BY <1>8 DEF ToggleSends
    <3>2. CASE \E at \in Stages : ToggleIsAt(t, at)
      BY <3>1, <3>2, MovesOn
    <3>3. CASE toggle' = [toggle EXCEPT ![t].at = "denied"]
      BY <3>1, <3>3 DEF Asks, Stages
    <3> QED BY <1>8, <3>2, <3>3 DEF ToggleSends, Stages
  <2>2. UNCHANGED <<target, queued, shown>>
    BY <1>8 DEF ToggleSends
  <2>3. CASE \E new : Commit(new)
    BY <2>1, <2>2, <2>3, CommitOwes
  <2>4. CASE UNCHANGED <<snap, changed>>
    BY <2>1, <2>2, <2>4, QuietKeeps
  <2> QED BY <1>8, <2>3, <2>4 DEF ToggleSends
<1>9. ASSUME NEW t \in GuiTasks, Elevates(t) PROVE TrayIInv'
  <2>1. \E at \in Stages : ToggleIsAt(t, at)
    BY <1>9 DEF Elevates, Stages
  <2>2. toggle[t].at # "freed" /\ UNCHANGED <<snap, changed, target, queued, shown>>
    BY <1>9 DEF Elevates
  <2> QED BY <2>1, <2>2, MovesOn, QuietKeeps
<1>10. ASSUME NEW t \in GuiTasks, ToggleConfirms(t) PROVE TrayIInv'
  <2>1. \E at \in Stages : ToggleIsAt(t, at)
    BY <1>10 DEF ToggleConfirms, Stages
  <2>2. toggle[t].at # "freed" /\ StatusSeen /\ UNCHANGED <<target, queued, shown>>
    BY <1>10 DEF ToggleConfirms
  <2> QED BY <2>1, <2>2, MovesOn, StatusOwes
<1>11. ASSUME NEW t \in GuiTasks, ToggleEnds(t) PROVE TrayIInv'
  <2>1. \E at \in Stages : ToggleIsAt(t, at)
    BY <1>11 DEF ToggleEnds, Stages
  <2>2. toggle[t].at # "freed" /\ UNCHANGED <<target, queued, shown>>
    BY <1>11 DEF ToggleEnds
  <2>3. CASE StatusSeen
    BY <2>1, <2>2, <2>3, MovesOn, StatusOwes
  <2>4. CASE UNCHANGED <<snap, changed>>
    BY <2>1, <2>2, <2>4, MovesOn, QuietKeeps
  <2> QED BY <1>11, <2>3, <2>4 DEF ToggleEnds
<1>12. ASSUME NEW t \in GuiTasks, GuardFrees(t) PROVE TrayIInv'
  BY Zenon, <1>12 DEF GuardFrees, ToggleIsAt, NoToggle, TrayIInv, TrayUpToDate, Asks, Stages
<1>13. ASSUME NEW t \in GuiTasks, GuardRepaints(t) PROVE TrayIInv'
  BY <1>13 DEF GuardRepaints, Rebuild, NoToggle, TrayIInv, TrayUpToDate, Asks, Stages
<1> QED
  BY <1>1, <1>2, <1>3, <1>4, <1>5, <1>6, <1>7, <1>8, <1>9, <1>10, <1>11, <1>12, <1>13 DEF TrayNext

\* Whatever toggles, status reads and commands run at once, a menu that is
\* out of date has a repaint on its way (rebuild_tray_menu, TransitionGuard).
THEOREM TrayAlwaysCurrent == TraySpec => []TrayUpToDate
<1>1. ASSUME TrayInit PROVE TrayIInv
  <2>1. toggle \in [GuiTasks -> Asks] /\ queued \in BOOLEAN /\ changed \in BOOLEAN
    BY Zenon, <1>1 DEF TrayInit, NoToggle, Asks, Stages
  <2>2. shown = Menu
    BY <1>1 DEF TrayInit, Menu
  <2> QED BY <2>1, <2>2 DEF TrayIInv, TrayUpToDate
<1>2. TrayIInv => TrayUpToDate
  BY ZenonT(40) DEF TrayIInv
<1> QED BY <1>1, <1>2, TrayStep, PTL DEF TraySpec

-----------------------------------------------------------------------------
(* The hand-over.                                                          *)

Heirs == [at : {"none", "spawned", "dead", "waiting", "launching", "up", "left"},
          ready : BOOLEAN, sure : BOOLEAN]

\* A successor that said READY and could assess its predecessor waits as long
\* as that one runs; the one whose READY was read is one of these.
HealIInv ==
  /\ heir \in [Launches -> Heirs]
  /\ \A l \in Launches : IF heir[l].at \in {"none", "spawned", "dead"}
                         THEN heir[l].sure /\ ~heir[l].ready ELSE heir[l].ready
  /\ gui \in {"up", "exits"} =>
       \A l \in Launches : heir[l].ready /\ heir[l].sure => heir[l].at = "waiting"
  /\ HandedOver

\* Every step of the relaunch preserves it.
LEMMA HealStep == HealIInv /\ [HealNext]_healVars => HealIInv'
<1> SUFFICES ASSUME HealIInv, [HealNext]_healVars PROVE HealIInv'
  OBVIOUS
<1> USE DEF HealIInv, HandedOver
<1>1. CASE UNCHANGED healVars
  BY <1>1 DEF healVars
<1>2. CASE UpdateMoves \/ Trigger \/ Quits \/ Exits
  BY <1>2 DEF UpdateMoves, Trigger, Quits, Exits
<1>3. CASE Spawns
  BY <1>3 DEF Spawns, Heirs
<1>4. ASSUME NEW l \in Launches, ReadsReady(l) PROVE HealIInv'
  BY <1>4 DEF ReadsReady
<1>5. ASSUME NEW l \in Launches, Handshakes(l) PROVE HealIInv'
  BY <1>5 DEF Handshakes, Heirs
<1>6. ASSUME NEW l \in Launches, WaitReturns(l) PROVE HealIInv'
  BY <1>6 DEF WaitReturns, Heirs
<1>7. ASSUME NEW l \in Launches, Launched(l) PROVE HealIInv'
  <2> PICK at \in {"up", "left"} :
         /\ heir' = [heir EXCEPT ![l].at = at]
         /\ at = "left" => gui \in {"up", "exits"} \/ \E m \in Launches : heir[m].at = "up"
    BY Zenon, <1>7 DEF Launched
  <2>1. gui' = gui /\ heir[l].at = "launching" /\ heir' \in [Launches -> Heirs]
    BY <1>7 DEF Launched, Heirs
  <2>2. /\ heir'[l].at = at /\ heir'[l].ready = heir[l].ready /\ heir'[l].sure = heir[l].sure
        /\ \A m \in Launches \ {l} : heir'[m] = heir[m]
    BY DEF Heirs
  <2>3. gui \in {"up", "exits"} => ~ (heir[l].ready /\ heir[l].sure)
    BY <2>1
  <2>4. HandedOver'
    <3>1. CASE at = "up"
      BY <2>1, <2>2, <3>1
    <3>2. CASE at = "left" /\ \E m \in Launches : heir[m].at = "up"
      BY <2>1, <2>2, <3>2
    <3>3. CASE at = "left" /\ gui = "exits"
      BY <2>1, <2>2, <2>3, <3>3 DEF Heirs
    <3> QED BY <2>1, <3>1, <3>2, <3>3
  <2> QED BY <2>1, <2>2, <2>3, <2>4
<1>8. ASSUME NEW l \in Launches, HeirDies(l) PROVE HealIInv'
  BY <1>8 DEF HeirDies, Heirs
<1> QED BY <1>1, <1>2, <1>3, <1>4, <1>5, <1>6, <1>7, <1>8 DEF HealNext

\* However often the GUI tries to replace itself, one that exits for it has a
\* successor waiting, launching or up (spawn_successor, handshake_then_wait).
THEOREM AlwaysHandedOver == HealSpec => []HandedOver
<1>1. HealInit => HealIInv
  BY DEF HealInit, HealIInv, HandedOver, Heirs
<1>2. HealIInv => HandedOver
  BY DEF HealIInv
<1> QED BY <1>1, <1>2, HealStep, PTL DEF HealSpec

-----------------------------------------------------------------------------
(* The start of a chain and the record of its processes.                   *)

Verdicts == {"none", "ready", "conflict", "fatal", "closed"}

Lives == [pc : {"boot", "serving", "down"}, crashes : Nat]
Starts == [pc : {"idle", "probe", "wait", "up", "reap"}, cur : Nat, first : Nat, cancel : BOOLEAN]
Files == [form : {"absent", "obsolete", "current", "damaged"}, pids : SUBSET Attempts]
Reaps == [pc : {"none", "load", "kill", "clear", "done"}, seen : SUBSET Attempts,
          todo : SUBSET Attempts, all : BOOLEAN]

\* What the values of the variables can be.
PluginTypeOK ==
  /\ life \in Lives /\ start \in Starts
  /\ task \in [Attempts -> {"none", "run", "spawned", "up", "over", "lost"}]
  /\ said \in [Attempts -> Verdicts]
  /\ proc \in [Attempts -> {"none", "alive", "gone"}]
  /\ pfile \in Files /\ reap \in Reaps
  /\ dropped \subseteq Nat /\ excused \subseteq Attempts

Recorded == IF pfile.form = "current" THEN pfile.pids ELSE {}

\* A child that lives has a runner that spawned it, in this life or an earlier
\* one; only the runners of this life run.
LivesInv ==
  /\ \A a \in Attempts : proc[a] = "alive" => task[a] \in {"spawned", "up", "lost"}
  /\ life.pc # "serving" =>
       start.pc = "idle" /\ \A a \in Attempts : task[a] \in {"none", "over", "lost"}
  /\ \A a \in pfile.pids \cup reap.seen : task[a] \in {"up", "over", "lost"}
  /\ life.pc = "down" => reap.pc = "none"
  /\ life.pc = "boot" => reap.pc # "none"

\* Past the write of its record, a child that nothing excuses is recorded.
RecordInv ==
  \A a \in Attempts : proc[a] = "alive" /\ task[a] \in {"up", "lost"} /\ a \notin excused => a \in Recorded

\* A reap ends with every record it has read accounted for; at boot, no other
\* record comes in between.
ReapInv ==
  /\ reap.pc = "load" => reap.seen = {}
  /\ reap.pc = "clear" => \A a \in reap.seen : proc[a] = "alive" => a \in excused
  /\ reap.pc = "kill" /\ life.pc = "boot" => reap.seen = Recorded
  /\ reap.pc \in {"clear", "done"} /\ life.pc = "boot" =>
       \A a \in Attempts : task[a] = "lost" /\ proc[a] = "alive" => a \in excused

\* Attempts are used in order; a runner that reported anything but readiness is
\* over; and of the attempts of a start only the one in hand can still run.
OrderInv ==
  /\ \E k \in 0 .. MaxAttempts : \A a \in Attempts : task[a] = "none" <=> a > k
  /\ \A a \in Attempts : said[a] \in {"conflict", "fatal", "closed"} => task[a] = "over"
  /\ start.pc # "idle" => \A a \in Attempts : a >= start.first /\ (start.pc = "probe" \/ a # start.cur)
                                                => task[a] \in {"none", "over"}

PluginIInv == PluginTypeOK /\ LivesInv /\ RecordInv /\ ReapInv /\ OrderInv /\ StraysReaped

\* One kill of a reap.
KilledOrNot(a) ==
  \/ reap' = [reap EXCEPT !.todo = @ \ {a}] /\ proc' = [proc EXCEPT ![a] = "gone"]
  \/ reap' = [reap EXCEPT !.todo = @ \ {a}, !.all = FALSE] /\ UNCHANGED proc

\* The attempts made are the first ones: the next is the least not made.
LEMMA FreshLeast ==
  ASSUME PluginTypeOK, OrderInv, Untried # {}
  PROVE  Fresh \in Untried /\ \A b \in Untried : Fresh <= b
<1> PICK k \in 0 .. MaxAttempts : \A a \in Attempts : task[a] = "none" <=> a > k
  BY DEF OrderInv
<1>1. k + 1 \in Untried /\ \A b \in Untried : k + 1 <= b
  BY PluginStartAssumption DEF Untried, Attempts
<1> QED BY <1>1, Zenon DEF Fresh

\* The initial states: no child, and a file that records none.
LEMMA PluginInitIInv == PluginInit => PluginIInv
<1> SUFFICES ASSUME PluginInit PROVE PluginIInv
  OBVIOUS
<1>1. PluginTypeOK
  <2>1. life \in Lives /\ start \in Starts /\ dropped \subseteq Nat /\ excused \subseteq Attempts
    BY DEF PluginInit, Idle, Lives, Starts
  <2>2. pfile \in Files /\ reap \in Reaps
    <3>1. Absent \in Files /\ [form |-> "obsolete", pids |-> {}] \in Files
      BY DEF Absent, Files
    <3>2. [NoReap EXCEPT !.pc = "load"] \in Reaps
      BY Zenon DEF NoReap, Reaps
    <3> QED BY <3>1, <3>2 DEF PluginInit
  <2>3. /\ task \in [Attempts -> {"none", "run", "spawned", "up", "over", "lost"}]
        /\ said \in [Attempts -> Verdicts] /\ proc \in [Attempts -> {"none", "alive", "gone"}]
    BY DEF PluginInit, Verdicts
  <2> QED BY <2>1, <2>2, <2>3 DEF PluginTypeOK
<1>2. LivesInv /\ RecordInv /\ ReapInv /\ StraysReaped
  BY DEF PluginInit, LivesInv, RecordInv, ReapInv, StraysReaped, Idle, NoReap, Absent
<1>3. OrderInv
  BY SMTT(40), PluginStartAssumption DEF PluginInit, OrderInv, Idle, Attempts
<1> QED BY <1>1, <1>2, <1>3 DEF PluginIInv

\* The type invariant is preserved by every step.
LEMMA PluginTypeStep == PluginTypeOK /\ OrderInv /\ [PluginNext]_startVars => PluginTypeOK'
<1> SUFFICES ASSUME PluginTypeOK, OrderInv, [PluginNext]_startVars PROVE PluginTypeOK'
  OBVIOUS
<1> USE DEF PluginTypeOK
<1> Attempts \subseteq Nat
  BY PluginStartAssumption DEF Attempts
<1> Idle \in Starts /\ NoReap \in Reaps /\ [NoReap EXCEPT !.pc = "load"] \in Reaps /\ Absent \in Files
  BY Zenon DEF Idle, Starts, NoReap, Reaps, Absent, Files
<1>1. CASE UNCHANGED startVars
  BY <1>1 DEF startVars
<1>2. CASE StartChain
  <2>1. [Idle EXCEPT !.pc = "probe", !.first = Fresh] \in Starts
    BY Zenon, <1>2, FreshLeast DEF StartChain, Idle, Starts, Untried
  <2> QED BY <1>2, <2>1 DEF StartChain
<1>3. CASE CancelStart
  BY Zenon, <1>3 DEF CancelStart, Starts
<1>4. CASE StopChain
  BY <1>4 DEF StopChain, Starts
<1>5. CASE BindEphemeral
  <2>1. Untried # {} => Fresh \in Attempts
    BY FreshLeast DEF Untried
  <2>2. start' \in Starts
    BY Zenon, <1>5, <2>1 DEF BindEphemeral, Starts
  <2>3. task' \in [Attempts -> {"none", "run", "spawned", "up", "over", "lost"}]
    BY <1>5, <2>1 DEF BindEphemeral
  <2> QED BY <1>5, <2>2, <2>3 DEF BindEphemeral
<1>6. CASE AwaitReady
  <2>1. start' \in Starts
    BY <1>6 DEF AwaitReady, Starts
  <2>2. dropped' \subseteq Nat
    BY <1>6 DEF AwaitReady, Starts
  <2> QED BY <1>6, <2>1, <2>2 DEF AwaitReady
<1>7. CASE ReapOver
  <2>1. life' \in Lives
    BY <1>7 DEF ReapOver, Lives
  <2>2. start' \in Starts /\ dropped' \subseteq Nat
    BY <1>7 DEF ReapOver, Starts
  <2> QED BY <1>7, <2>1, <2>2 DEF ReapOver
<1>8. CASE ReapLoad
  <2>1. CASE pfile.form = "current"
    BY Zenon, <1>8, <2>1 DEF ReapLoad, Reaps, Files
  <2>2. CASE pfile.form = "obsolete"
    BY <1>8, <2>2 DEF ReapLoad, Reaps
  <2>3. CASE pfile.form \notin {"current", "obsolete"}
    BY <1>8, <2>3 DEF ReapLoad, Reaps
  <2> QED BY <2>1, <2>2, <2>3
<1>9. CASE ReapKill
  <2> PICK a \in reap.todo : KilledOrNot(a)
    BY Zenon, <1>9 DEF ReapKill, KilledOrNot
  <2>1. reap' \in Reaps
    <3>1. [reap EXCEPT !.todo = @ \ {a}] \in Reaps
      BY DEF Reaps
    <3>2. [reap EXCEPT !.todo = @ \ {a}, !.all = FALSE] \in Reaps
      BY Zenon DEF Reaps
    <3> QED BY Zenon, <3>1, <3>2 DEF KilledOrNot
  <2>2. proc' \in [Attempts -> {"none", "alive", "gone"}]
    BY DEF KilledOrNot, Reaps
  <2> QED BY <1>9, <2>1, <2>2 DEF ReapKill
<1>10. CASE ReapAccount
  BY <1>10 DEF ReapAccount, Refused, Reaps
<1>11. CASE ReapClear
  <2>1. reap' \in Reaps
    BY <1>11 DEF ReapClear, Reaps
  <2>2. excused' \subseteq Attempts /\ pfile' \in Files
    BY <1>11 DEF ReapClear, LostRecords, Files
  <2> QED BY <1>11, <2>1, <2>2 DEF ReapClear
<1>12. CASE CrashBridge
  <2>1. life' \in Lives
    BY <1>12 DEF CrashBridge, Lives
  <2>2. /\ task' \in [Attempts -> {"none", "run", "spawned", "up", "over", "lost"}]
        /\ proc' \in [Attempts -> {"none", "alive", "gone"}] /\ said' \in [Attempts -> Verdicts]
    BY <1>12 DEF CrashBridge, Verdicts
  <2> QED BY <1>12, <2>1, <2>2 DEF CrashBridge, Unrecordable
<1>13. CASE DamageFile
  BY <1>13 DEF DamageFile, Files
<1>14. CASE RestartBridge
  BY <1>14 DEF RestartBridge, Lives
<1>15. ASSUME NEW a \in Attempts, SpawnChild(a) PROVE PluginTypeOK'
  BY <1>15 DEF SpawnChild
<1>16. ASSUME NEW a \in Attempts, RecordPid(a) PROVE PluginTypeOK'
  <2>1. Appended(a) \in Files
    BY DEF Appended, Files
  <2> QED BY <1>16, <2>1 DEF RecordPid
<1>17. ASSUME NEW a \in Attempts, SayUp(a) PROVE PluginTypeOK'
  BY <1>17 DEF SayUp, Verdicts
<1>18. ASSUME NEW a \in Attempts, RunnerEnds(a) PROVE PluginTypeOK'
  BY <1>18 DEF RunnerEnds, Verdicts
<1>19. ASSUME NEW a \in Attempts, RunnerDropped(a) PROVE PluginTypeOK'
  BY <1>19 DEF RunnerDropped
<1> QED
  BY Zenon, <1>1, <1>2, <1>3, <1>4, <1>5, <1>6, <1>7, <1>8, <1>9, <1>10,
     <1>11, <1>12, <1>13, <1>14, <1>15, <1>16, <1>17, <1>18, <1>19 DEF PluginNext

\* Every step preserves the rest of it.
LEMMA PluginStep == PluginIInv /\ [PluginNext]_startVars => PluginIInv'
<1> SUFFICES ASSUME PluginIInv, [PluginNext]_startVars PROVE PluginIInv'
  OBVIOUS
<1> PluginTypeOK /\ LivesInv /\ RecordInv /\ ReapInv /\ OrderInv /\ StraysReaped
  BY DEF PluginIInv
<1> PluginTypeOK'
  BY PluginTypeStep
<1> USE DEF PluginTypeOK, Lives, Starts, Files, Reaps, Recorded
<1> SUFFICES LivesInv' /\ RecordInv' /\ ReapInv' /\ OrderInv' /\ StraysReaped'
  BY Zenon DEF PluginIInv
<1>1. CASE UNCHANGED startVars
  BY <1>1 DEF startVars, LivesInv, RecordInv, ReapInv, OrderInv, StraysReaped
<1>2. CASE StartChain
  <2>1. LivesInv'
    BY Zenon, <1>2, FreshLeast DEF StartChain, Idle, Untried, LivesInv
  <2>2. RecordInv'
    BY <1>2, FreshLeast DEF StartChain, Idle, Untried, RecordInv, LivesInv
  <2>3. ReapInv'
    BY <1>2 DEF StartChain, Idle, ReapInv, LivesInv
  <2>4. OrderInv'
    <3>1. Fresh \in Untried
      BY <1>2, FreshLeast DEF StartChain
    <3>2. \A a \in Attempts : a >= Fresh => task[a] = "none"
      BY <3>1, PluginStartAssumption DEF OrderInv, Untried, Attempts
    <3> QED BY <1>2, <3>2 DEF StartChain, Idle, OrderInv
  <2>5. StraysReaped'
    BY <1>2 DEF StartChain, Idle, StraysReaped, LivesInv
  <2> QED BY Zenon, <2>1, <2>2, <2>3, <2>4, <2>5
<1>3. CASE CancelStart
  <2>1. LivesInv'
    BY <1>3 DEF CancelStart, LivesInv
  <2>2. RecordInv'
    BY <1>3 DEF CancelStart, RecordInv, LivesInv
  <2>3. ReapInv'
    BY <1>3 DEF CancelStart, ReapInv, LivesInv
  <2>4. OrderInv'
    BY <1>3 DEF CancelStart, OrderInv, LivesInv
  <2>5. StraysReaped'
    BY <1>3 DEF CancelStart, StraysReaped, LivesInv
  <2> QED BY <2>1, <2>2, <2>3, <2>4, <2>5
<1>4. CASE StopChain
  <2>1. LivesInv'
    BY <1>4 DEF StopChain, NoReap, LivesInv
  <2>2. RecordInv'
    BY <1>4 DEF StopChain, NoReap, RecordInv, LivesInv
  <2>3. ReapInv'
    BY <1>4 DEF StopChain, NoReap, ReapInv, LivesInv
  <2>4. OrderInv'
    BY <1>4 DEF StopChain, NoReap, OrderInv, LivesInv
  <2>5. StraysReaped'
    BY <1>4 DEF StopChain, NoReap, StraysReaped, LivesInv
  <2> QED BY <2>1, <2>2, <2>3, <2>4, <2>5
<1>5. CASE BindEphemeral
  <2>1. LivesInv'
    BY <1>5, FreshLeast DEF BindEphemeral, Idle, Untried, LivesInv
  <2>2. RecordInv'
    BY <1>5, FreshLeast DEF BindEphemeral, Idle, Untried, RecordInv, LivesInv
  <2>3. ReapInv'
    BY <1>5 DEF BindEphemeral, Idle, ReapInv, LivesInv
  <2>4. OrderInv'
    <3>1. CASE start' = Idle /\ UNCHANGED task
      BY <1>5, <3>1 DEF BindEphemeral, Idle, OrderInv
    <3>2. CASE /\ Untried # {} /\ start' = [start EXCEPT !.pc = "wait", !.cur = Fresh]
               /\ task' = [task EXCEPT ![Fresh] = "run"]
      <4>1. Fresh \in Attempts /\ task[Fresh] = "none" /\ \A b \in Untried : Fresh <= b
        BY <3>2, FreshLeast DEF Untried
      <4>2. \A a \in Attempts : task'[a] = "none" <=> a > Fresh
        BY <3>2, <4>1, PluginStartAssumption DEF OrderInv, Untried, Attempts
      <4>3. Fresh \in 0 .. MaxAttempts
        BY <4>1, PluginStartAssumption DEF Attempts
      <4>4. said' = said /\ said[Fresh] \notin {"conflict", "fatal", "closed"}
        BY <1>5, <4>1 DEF BindEphemeral, OrderInv
      <4>5. start'.pc = "wait" /\ start'.cur = Fresh /\ start'.first = start.first /\ start.pc = "probe"
        BY <1>5, <3>2 DEF BindEphemeral
      <4> QED BY <3>2, <4>1, <4>2, <4>3, <4>4, <4>5 DEF OrderInv
    <3> QED BY <1>5, <3>1, <3>2 DEF BindEphemeral
  <2>5. StraysReaped'
    BY <1>5 DEF BindEphemeral, Idle, StraysReaped, LivesInv
  <2> QED BY Zenon, <2>1, <2>2, <2>3, <2>4, <2>5
<1>6. CASE AwaitReady
  <2>1. LivesInv'
    BY <1>6 DEF AwaitReady, Idle, LivesInv
  <2>2. RecordInv'
    BY <1>6 DEF AwaitReady, Idle, RecordInv, LivesInv
  <2>3. ReapInv'
    BY <1>6 DEF AwaitReady, Idle, ReapInv, LivesInv
  <2>4. OrderInv'
    BY <1>6 DEF AwaitReady, Idle, OrderInv, LivesInv
  <2>5. StraysReaped'
    BY <1>6 DEF AwaitReady, Idle, StraysReaped, LivesInv
  <2> QED BY <2>1, <2>2, <2>3, <2>4, <2>5
<1>7. CASE ReapOver
  <2>1. LivesInv'
    BY <1>7 DEF ReapOver, Idle, NoReap, LivesInv
  <2>2. RecordInv'
    BY <1>7 DEF ReapOver, Idle, NoReap, RecordInv, LivesInv
  <2>3. ReapInv'
    BY <1>7 DEF ReapOver, Idle, NoReap, ReapInv, LivesInv
  <2>4. OrderInv'
    BY <1>7 DEF ReapOver, Idle, NoReap, OrderInv, LivesInv
  <2>5. StraysReaped'
    BY <1>7 DEF ReapOver, Idle, NoReap, StraysReaped, LivesInv, ReapInv
  <2> QED BY <2>1, <2>2, <2>3, <2>4, <2>5
<1>8. CASE ReapLoad
  <2>1. LivesInv'
    BY <1>8 DEF ReapLoad, LivesInv
  <2>2. RecordInv'
    BY <1>8 DEF ReapLoad, RecordInv, LivesInv
  <2>3. ReapInv'
    <3>1. CASE pfile.form = "current"
      BY Zenon, <1>8, <3>1 DEF ReapLoad, ReapInv
    <3>2. CASE pfile.form = "obsolete"
      BY <1>8, <3>2 DEF ReapLoad, ReapInv, RecordInv
    <3>3. CASE pfile.form \notin {"current", "obsolete"}
      BY <1>8, <3>3 DEF ReapLoad, ReapInv, RecordInv
    <3> QED BY <3>1, <3>2, <3>3
  <2>4. OrderInv'
    BY <1>8 DEF ReapLoad, OrderInv, LivesInv
  <2>5. StraysReaped'
    BY <1>8 DEF ReapLoad, StraysReaped, LivesInv
  <2> QED BY <2>1, <2>2, <2>3, <2>4, <2>5
<1>9. CASE ReapKill
  <2> PICK a \in reap.todo : KilledOrNot(a)
    BY Zenon, <1>9 DEF ReapKill, KilledOrNot
  <2>1. LivesInv'
    <3>1. reap'.pc = reap.pc /\ reap'.seen = reap.seen
      BY ZenonT(40) DEF KilledOrNot
    <3>2. \A b \in Attempts : proc'[b] = "alive" => proc[b] = "alive"
      BY DEF KilledOrNot
    <3> QED BY <1>9, <3>1, <3>2 DEF ReapKill, LivesInv
  <2>2. RecordInv'
    BY <1>9 DEF ReapKill, RecordInv, LivesInv
  <2>3. ReapInv'
    BY ZenonT(40), <1>9 DEF ReapKill, KilledOrNot, ReapInv
  <2>4. OrderInv'
    BY <1>9 DEF ReapKill, OrderInv, LivesInv
  <2>5. StraysReaped'
    BY <1>9 DEF ReapKill, StraysReaped, LivesInv
  <2> QED BY <2>1, <2>2, <2>3, <2>4, <2>5
<1>10. CASE ReapAccount
  <2>1. LivesInv'
    BY <1>10 DEF ReapAccount, Refused, LivesInv
  <2>2. RecordInv'
    BY <1>10 DEF ReapAccount, Refused, RecordInv, LivesInv
  <2>3. ReapInv'
    BY <1>10 DEF ReapAccount, Refused, ReapInv, RecordInv
  <2>4. OrderInv'
    BY <1>10 DEF ReapAccount, Refused, OrderInv, LivesInv
  <2>5. StraysReaped'
    BY <1>10 DEF ReapAccount, Refused, StraysReaped, LivesInv
  <2> QED BY <2>1, <2>2, <2>3, <2>4, <2>5
<1>11. CASE ReapClear
  <2>1. LivesInv'
    BY <1>11 DEF ReapClear, LostRecords, Absent, LivesInv
  <2>2. RecordInv'
    BY <1>11 DEF ReapClear, LostRecords, Absent, RecordInv, ReapInv
  <2>3. ReapInv'
    BY <1>11 DEF ReapClear, LostRecords, Absent, ReapInv, LivesInv
  <2>4. OrderInv'
    BY <1>11 DEF ReapClear, LostRecords, Absent, OrderInv, LivesInv
  <2>5. StraysReaped'
    BY <1>11 DEF ReapClear, LostRecords, Absent, StraysReaped, LivesInv
  <2> QED BY <2>1, <2>2, <2>3, <2>4, <2>5
<1>12. CASE CrashBridge
  <2>1. LivesInv'
    BY <1>12 DEF CrashBridge, Idle, NoReap, Unrecordable, LivesInv
  <2>2. RecordInv'
    BY ZenonT(40), <1>12 DEF CrashBridge, Idle, NoReap, Unrecordable, RecordInv, LivesInv
  <2>3. ReapInv'
    BY Zenon, <1>12 DEF CrashBridge, Idle, NoReap, Unrecordable, ReapInv, LivesInv
  <2>4. OrderInv'
    BY Zenon, <1>12 DEF CrashBridge, Idle, NoReap, Unrecordable, OrderInv, LivesInv
  <2>5. StraysReaped'
    BY <1>12 DEF CrashBridge, Idle, NoReap, Unrecordable, StraysReaped, LivesInv
  <2> QED BY ZenonT(40), <2>1, <2>2, <2>3, <2>4, <2>5
<1>13. CASE DamageFile
  <2>1. LivesInv'
    BY Zenon, <1>13 DEF DamageFile, LivesInv
  <2>2. RecordInv'
    BY Zenon, <1>13 DEF DamageFile, RecordInv, LivesInv
  <2>3. ReapInv'
    BY Zenon, <1>13 DEF DamageFile, ReapInv, LivesInv
  <2>4. OrderInv'
    BY Zenon, <1>13 DEF DamageFile, OrderInv, LivesInv
  <2>5. StraysReaped'
    BY <1>13 DEF DamageFile, StraysReaped, LivesInv
  <2> QED BY Zenon, <2>1, <2>2, <2>3, <2>4, <2>5
<1>14. CASE RestartBridge
  <2>1. LivesInv'
    BY <1>14 DEF RestartBridge, NoReap, LivesInv
  <2>2. RecordInv'
    BY <1>14 DEF RestartBridge, NoReap, RecordInv, LivesInv
  <2>3. ReapInv'
    BY <1>14 DEF RestartBridge, NoReap, ReapInv, LivesInv
  <2>4. OrderInv'
    BY <1>14 DEF RestartBridge, NoReap, OrderInv, LivesInv
  <2>5. StraysReaped'
    BY Zenon, <1>14 DEF RestartBridge, NoReap, StraysReaped, LivesInv
  <2> QED BY Zenon, <2>1, <2>2, <2>3, <2>4, <2>5
<1>15. ASSUME NEW a \in Attempts, SpawnChild(a) PROVE LivesInv' /\ RecordInv' /\ ReapInv' /\ OrderInv' /\ StraysReaped'
  <2>1. LivesInv'
    BY <1>15 DEF SpawnChild, LivesInv
  <2>2. RecordInv'
    BY <1>15 DEF SpawnChild, RecordInv, LivesInv
  <2>3. ReapInv'
    BY Zenon, <1>15 DEF SpawnChild, ReapInv, LivesInv
  <2>4. OrderInv'
    BY <1>15 DEF SpawnChild, OrderInv, LivesInv
  <2>5. StraysReaped'
    BY <1>15 DEF SpawnChild, StraysReaped, LivesInv
  <2> QED BY Zenon, <2>1, <2>2, <2>3, <2>4, <2>5
<1>16. ASSUME NEW a \in Attempts, RecordPid(a) PROVE LivesInv' /\ RecordInv' /\ ReapInv' /\ OrderInv' /\ StraysReaped'
  <2>1. LivesInv'
    BY <1>16 DEF RecordPid, Appended, LivesInv
  <2>2. RecordInv'
    BY <1>16 DEF RecordPid, Appended, RecordInv, LivesInv
  <2>3. ReapInv'
    BY Zenon, <1>16 DEF RecordPid, Appended, ReapInv, LivesInv
  <2>4. OrderInv'
    BY <1>16 DEF RecordPid, Appended, OrderInv, LivesInv
  <2>5. StraysReaped'
    BY <1>16 DEF RecordPid, Appended, StraysReaped, LivesInv
  <2> QED BY Zenon, <2>1, <2>2, <2>3, <2>4, <2>5
<1>17. ASSUME NEW a \in Attempts, SayUp(a) PROVE LivesInv' /\ RecordInv' /\ ReapInv' /\ OrderInv' /\ StraysReaped'
  <2>1. LivesInv'
    BY Zenon, <1>17 DEF SayUp, LivesInv
  <2>2. RecordInv'
    BY Zenon, <1>17 DEF SayUp, RecordInv, LivesInv
  <2>3. ReapInv'
    BY Zenon, <1>17 DEF SayUp, ReapInv, LivesInv
  <2>4. OrderInv'
    BY ZenonT(40), <1>17 DEF SayUp, OrderInv, LivesInv
  <2>5. StraysReaped'
    BY <1>17 DEF SayUp, StraysReaped, LivesInv
  <2> QED BY Zenon, <2>1, <2>2, <2>3, <2>4, <2>5
<1>18. ASSUME NEW a \in Attempts, RunnerEnds(a) PROVE LivesInv' /\ RecordInv' /\ ReapInv' /\ OrderInv' /\ StraysReaped'
  <2>1. LivesInv'
    BY <1>18 DEF RunnerEnds, LivesInv
  <2>2. RecordInv'
    BY <1>18 DEF RunnerEnds, RecordInv, LivesInv
  <2>3. ReapInv'
    BY Zenon, <1>18 DEF RunnerEnds, ReapInv, LivesInv
  <2>4. OrderInv'
    BY <1>18 DEF RunnerEnds, OrderInv, LivesInv
  <2>5. StraysReaped'
    BY <1>18 DEF RunnerEnds, StraysReaped, LivesInv
  <2> QED BY Zenon, <2>1, <2>2, <2>3, <2>4, <2>5
<1>19. ASSUME NEW a \in Attempts, RunnerDropped(a) PROVE LivesInv' /\ RecordInv' /\ ReapInv' /\ OrderInv' /\ StraysReaped'
  <2>1. LivesInv'
    BY <1>19 DEF RunnerDropped, LivesInv
  <2>2. RecordInv'
    BY <1>19 DEF RunnerDropped, RecordInv, LivesInv
  <2>3. ReapInv'
    BY Zenon, <1>19 DEF RunnerDropped, ReapInv, LivesInv
  <2>4. OrderInv'
    BY <1>19 DEF RunnerDropped, OrderInv, LivesInv
  <2>5. StraysReaped'
    BY <1>19 DEF RunnerDropped, StraysReaped, LivesInv
  <2> QED BY Zenon, <2>1, <2>2, <2>3, <2>4, <2>5
<1> QED
  BY ZenonT(40), <1>1, <1>2, <1>3, <1>4, <1>5, <1>6, <1>7, <1>8, <1>9, <1>10,
     <1>11, <1>12, <1>13, <1>14, <1>15, <1>16, <1>17, <1>18, <1>19 DEF PluginNext

\* Every plugin process is accounted for, whatever ports are lost, whenever the
\* bridge dies and whichever records cannot be written: before it serves, the
\* reap has killed the recorded children of an earlier life, and a start has at
\* most one (reap_recorded_plugins, start_plugin_chain).
THEOREM PluginsAlwaysAccounted == PluginSpec => []PluginsAccounted
<1>1. ASSUME PluginIInv PROVE OneChild
  <2> DEFINE S == {a \in Attempts : a >= start.first /\ proc[a] = "alive" /\ task[a] # "lost"}
  <2> SUFFICES ASSUME start.pc # "idle" PROVE Cardinality(S) <= 1
    BY Zenon DEF OneChild
  <2>1. S \subseteq {start.cur}
    BY <1>1 DEF PluginIInv, OrderInv, LivesInv
  <2>2. S = {} \/ S = {start.cur}
    BY <2>1
  <2> HIDE DEF S
  <2>3. Cardinality({}) = 0 /\ Cardinality({start.cur}) = 1
    BY Zenon, FS_EmptySet, FS_Singleton
  <2> QED BY <2>2, <2>3
<1>2. PluginIInv => PluginsAccounted
  BY <1>1 DEF PluginIInv, PluginsAccounted
<1> QED BY PluginInitIInv, PluginStep, <1>2, PTL DEF PluginSpec

-----------------------------------------------------------------------------
(* The client of the yamux hop.                                            *)

ClientStates == [pc : {"bind", "connect", "session", "backoff", "over"}, sessions : Nat,
                 failures : Nat, productive : BOOLEAN]
Keepalives == [pc : {"none", "sleep", "probe"}, left : Nat, fresh : BOOLEAN]

\* The values of the client's records.
ClientTypeOK ==
  /\ client \in ClientStates
  /\ ka \in Keepalives
  /\ quiet \in Nat
  /\ table \in Gens \cup {0}
  /\ gens \in [next : Nat \ {0}, first : Nat \ {0}]
  /\ assoc \in [Gens -> [pc : {"none", "open", "run", "failed", "closed", "gone"}, queue : Nat]]
  /\ cleanups \subseteq Gens

\* How long a transport has been silent, by where its keepalive is: a sleep
\* that nothing was read in began within an interval of the last byte.
QuietOK ==
  /\ ka.pc = "none" <=> client.pc # "session"
  /\ ka.pc = "none" => quiet = 0
  /\ ka.pc = "sleep" =>
       /\ ka.left <= Interval
       /\ ka.fresh => quiet <= Interval - ka.left
       /\ ~ka.fresh => Interval - ka.left <= quiet /\ quiet <= Interval + Interval - ka.left
  /\ ka.pc = "probe" =>
       /\ ka.left <= Timeout
       /\ ka.fresh => quiet <= Timeout - ka.left
       /\ ~ka.fresh => Interval + Timeout - ka.left <= quiet /\ quiet <= Detect - ka.left

\* A generation not given out yet has no task, one whose cleanup is under way
\* is gone, and one that serves its peer is in the table.
AssocOK ==
  /\ \A g \in Gens : g >= gens.next => assoc[g].pc = "none"
  /\ \A g \in cleanups : assoc[g].pc = "gone"
  /\ ServingInTable

\* The inductive invariant of the client.
ClientIInv == ClientTypeOK /\ QuietOK /\ AssocOK

\* The judgement of a silent transport, in one step.
Judged ==
  /\ quiet' <= Detect
  /\ client.pc = "session" /\ client'.pc = "backoff" /\ link # "dead" => quiet >= Interval + Timeout

\* Fields of a client's record and of its keepalive's.
LEMMA ClientFields ==
  ASSUME NEW c \in ClientStates, NEW n \in Nat,
         NEW pc \in {"bind", "connect", "session", "backoff", "over"}
  PROVE  /\ [c EXCEPT !.pc = pc] \in ClientStates
         /\ [c EXCEPT !.productive = TRUE] \in ClientStates
         /\ [c EXCEPT !.pc = pc, !.sessions = n, !.productive = FALSE] \in ClientStates
         /\ [c EXCEPT !.pc = pc, !.productive = FALSE, !.failures = n] \in ClientStates
  BY Zenon DEF ClientStates

\* The same of the keepalive's record.
LEMMA KeepaliveFields ==
  ASSUME NEW k \in Keepalives, NEW n \in Nat
  PROVE  /\ NoKeepalive \in Keepalives
         /\ [pc |-> "sleep", left |-> n, fresh |-> FALSE] \in Keepalives
         /\ [k EXCEPT !.fresh = TRUE] \in Keepalives
         /\ [k EXCEPT !.left = n] \in Keepalives
         /\ [k EXCEPT !.pc = "probe", !.left = n] \in Keepalives
<1>1. NoKeepalive \in Keepalives
  BY DEF NoKeepalive, Keepalives
<1>2. [pc |-> "sleep", left |-> n, fresh |-> FALSE] \in Keepalives
  BY Zenon DEF Keepalives
<1>3. [k EXCEPT !.fresh = TRUE] \in Keepalives /\ [k EXCEPT !.left = n] \in Keepalives
  BY Zenon DEF Keepalives
<1>4. [k EXCEPT !.pc = "probe", !.left = n] \in Keepalives
  BY Zenon DEF Keepalives
<1> QED BY <1>1, <1>2, <1>3, <1>4

\* The end of a session.
LEMMA EndSessionTypes ==
  ASSUME ClientTypeOK, NEW pc \in {"backoff", "over"}, EndSession(pc)
  PROVE  ClientTypeOK'
<1> DEFINE f == IF pc = "over" \/ client.productive THEN 0
                ELSE IF client.failures < 2 THEN client.failures + 1 ELSE client.failures
<1>1. f \in Nat
  <2>1. client.failures \in Nat
    BY DEF ClientTypeOK, ClientStates
  <2> QED BY <2>1
<1>2. client' = [client EXCEPT !.pc = pc, !.productive = FALSE, !.failures = f]
  BY DEF EndSession
<1> HIDE DEF f
<1>3. client' \in ClientStates
  BY <1>1, <1>2, ClientFields, Zenon DEF ClientTypeOK
<1>4. ka' \in Keepalives
  BY Zenon, KeepaliveFields DEF EndSession, ClientTypeOK
<1> QED BY <1>3, <1>4 DEF EndSession, ClientTypeOK

\* A client that has bound nothing yet has neither a silence nor a task.
LEMMA ClientInitIInv == GaloshesInit => ClientIInv
<1> SUFFICES ASSUME GaloshesInit PROVE ClientIInv
  BY Zenon
<1>1. ClientTypeOK
  BY DEF GaloshesInit, ClientTypeOK, ClientStates, Keepalives, NoKeepalive, NoTask
<1>2. QuietOK
  BY Zenon DEF GaloshesInit, QuietOK, NoKeepalive
<1>3. AssocOK
  BY DEF GaloshesInit, AssocOK, ServingInTable, ThisSession, NoTask
<1> QED BY <1>1, <1>2, <1>3 DEF ClientIInv

\* Every step of the client keeps the values of its records.
LEMMA ClientTypes ==
  ASSUME ClientIInv, GaloshesNext
  PROVE  ClientTypeOK'
<1> USE GaloshesAssumption DEF ClientIInv, ClientTypeOK
<1>1. CASE BindLocal
  <2>1. client' \in ClientStates
    BY Zenon, <1>1, ClientFields DEF BindLocal
  <2> QED BY <1>1, <2>1 DEF BindLocal
<1>2. CASE Connected
  <2>1. client.sessions + 1 \in Nat /\ Interval \in Nat
    BY DEF ClientStates
  <2>2. client' \in ClientStates /\ ka' \in Keepalives
    BY Zenon, <1>2, <2>1, ClientFields, KeepaliveFields DEF Connected
  <2> QED BY <1>2, <2>2 DEF Connected
<1>3. CASE ClientCancelled
  BY Zenon, <1>3, EndSessionTypes DEF ClientCancelled
<1>4. CASE TransportDied
  BY <1>4, EndSessionTypes DEF TransportDied
<1>5. CASE BackedOff
  <2>1. client' \in ClientStates
    BY Zenon, <1>5, ClientFields DEF BackedOff
  <2> QED BY <1>5, <2>1 DEF BackedOff
<1>6. CASE LinkFails
  BY <1>6 DEF LinkFails
<1>7. CASE Inbound
  <2>1. client' \in ClientStates /\ ka' \in Keepalives
    BY Zenon, <1>7, ClientFields, KeepaliveFields DEF Inbound
  <2> QED BY <1>7, <2>1 DEF Inbound
<1>8. CASE Tick
  <2>1. ka.left - 1 \in Nat
    BY <1>8 DEF Tick, Keepalives
  <2>2. ka' \in Keepalives
    BY Zenon, <1>8, <2>1, KeepaliveFields DEF Tick
  <2> QED BY <1>8, <2>2 DEF Tick
<1>9. CASE Wake
  <2>1. Interval \in Nat /\ Timeout \in Nat
    OBVIOUS
  <2>2. CASE ka.fresh
    BY Zenon, <1>9, <2>1, <2>2, KeepaliveFields DEF Wake
  <2>3. CASE ~ka.fresh
    BY Zenon, <1>9, <2>1, <2>3, KeepaliveFields DEF Wake
  <2> QED BY <2>2, <2>3
<1>10. CASE Probed
  <2>1. CASE ka.fresh
    <3>1. ka' \in Keepalives /\ UNCHANGED <<client, link, quiet, table, gens, assoc, cleanups>>
      BY ZenonT(40), <1>10, <2>1, KeepaliveFields DEF Probed
    <3> QED BY <3>1
  <2>2. CASE ~ka.fresh
    BY Zenon, <1>10, <2>2, EndSessionTypes DEF Probed
  <2> QED BY Zenon, <2>1, <2>2
<1>11. CASE Datagram
  <2>1. CASE table # 0 /\ Receiving(table)
    <3>1. table \in Gens /\ UNCHANGED <<table, gens>>
          /\ assoc' = [assoc EXCEPT ![table].queue = IF @ < QueueCap THEN @ + 1 ELSE @]
      BY <1>11, <2>1 DEF Datagram
    <3>2. assoc' \in [Gens -> [pc : {"none", "open", "run", "failed", "closed", "gone"}, queue : Nat]]
      BY <3>1
    <3> QED BY <1>11, <3>1, <3>2 DEF Datagram
  <2>2. CASE ~(table # 0 /\ Receiving(table))
    <3>1. /\ gens.next \in Gens /\ table' = gens.next /\ gens' = [gens EXCEPT !.next = @ + 1]
          /\ assoc' = [assoc EXCEPT ![gens.next] = [pc |-> "open", queue |-> 1]]
      BY <1>11, <2>2 DEF Datagram, Gens
    <3> QED BY <1>11, <3>1 DEF Datagram
  <2> QED BY <2>1, <2>2
<1>12. ASSUME NEW g \in Gens, OpenAssoc(g) \/ RelayBack(g) \/ CloseAssoc(g) \/ SayOver(g) \/ DropEntry(g)
      PROVE  ClientTypeOK'
  <2>1. CASE OpenAssoc(g)
    BY <2>1 DEF OpenAssoc, ThisSession, SetAssoc
  <2>2. CASE RelayBack(g)
    BY <2>2 DEF RelayBack
  <2>3. CASE CloseAssoc(g)
    BY Zenon, <2>3 DEF CloseAssoc, SetAssoc
  <2>4. CASE SayOver(g)
    BY Zenon, <2>4 DEF SayOver, SetAssoc, ThisSession
  <2>5. CASE DropEntry(g)
    BY <2>5 DEF DropEntry
  <2> QED BY Zenon, <1>12, <2>1, <2>2, <2>3, <2>4, <2>5
<1> QED
  BY ZenonT(40), <1>1, <1>2, <1>3, <1>4, <1>5, <1>6, <1>7, <1>8, <1>9, <1>10, <1>11, <1>12 DEF GaloshesNext

\* Every step keeps what the keepalive knows of the silence, and a session is
\* given up on a link that is not dead only after it was silent for long enough.
LEMMA ClientQuiet ==
  ASSUME ClientIInv, GaloshesNext
  PROVE  QuietOK' /\ Judged
<1> USE GaloshesAssumption DEF ClientIInv, ClientTypeOK, ClientStates, Keepalives, QuietOK, Judged, Detect
<1>1. CASE BindLocal
  BY <1>1 DEF BindLocal
<1>2. CASE Connected
  BY <1>2 DEF Connected
<1>3. CASE ClientCancelled
  BY <1>3 DEF ClientCancelled, EndSession, NoKeepalive
<1>4. CASE TransportDied
  BY <1>4 DEF TransportDied, EndSession, NoKeepalive
<1>5. CASE BackedOff
  BY <1>5 DEF BackedOff
<1>6. CASE LinkFails
  BY <1>6 DEF LinkFails
<1>7. CASE Inbound
  BY <1>7 DEF Inbound
<1>8. CASE Tick
  BY <1>8 DEF Tick
<1>9. CASE Wake
  BY <1>9 DEF Wake
<1>10. CASE Probed
  <2>1. CASE ka.fresh
    <3>1. ka' = [pc |-> "sleep", left |-> Interval, fresh |-> FALSE] /\ UNCHANGED <<client, quiet>>
      BY Zenon, <1>10, <2>1 DEF Probed
    <3> QED BY <1>10, <2>1, <3>1 DEF Probed
  <2>2. CASE ~ka.fresh
    <3>1. ka.pc = "probe" /\ ka.left = 0 /\ ka' = NoKeepalive /\ quiet' = 0 /\ client'.pc = "backoff"
      BY Zenon, <1>10, <2>2 DEF Probed, EndSession
    <3> QED BY <2>2, <3>1 DEF NoKeepalive
  <2> QED BY Zenon, <2>1, <2>2
<1>11. CASE Datagram
  BY <1>11 DEF Datagram, Receiving
<1>12. ASSUME NEW g \in Gens, OpenAssoc(g) \/ RelayBack(g) \/ CloseAssoc(g) \/ SayOver(g) \/ DropEntry(g)
      PROVE  QuietOK' /\ Judged
  <2>1. CASE OpenAssoc(g)
    BY <2>1 DEF OpenAssoc, ThisSession, SetAssoc
  <2>2. CASE RelayBack(g)
    BY <2>2 DEF RelayBack
  <2>3. CASE CloseAssoc(g)
    BY <2>3 DEF CloseAssoc, SetAssoc
  <2>4. CASE SayOver(g)
    BY <2>4 DEF SayOver, SetAssoc, ThisSession
  <2>5. CASE DropEntry(g)
    BY <2>5 DEF DropEntry
  <2> QED BY Zenon, <1>12, <2>1, <2>2, <2>3, <2>4, <2>5
<1> QED
  BY ZenonT(40), <1>1, <1>2, <1>3, <1>4, <1>5, <1>6, <1>7, <1>8, <1>9, <1>10, <1>11, <1>12 DEF GaloshesNext

\* Every step keeps the table in line with the tasks: a cleanup takes out the
\* entry of its own generation only.
LEMMA ClientAssoc ==
  ASSUME ClientIInv, GaloshesNext
  PROVE  AssocOK'
<1> USE GaloshesAssumption DEF ClientIInv, ClientTypeOK, ClientStates, AssocOK, ServingInTable, ThisSession, Gens
<1>1. CASE BindLocal
  BY <1>1 DEF BindLocal
<1>2. CASE Connected
  BY Zenon, <1>2 DEF Connected
<1>3. CASE ClientCancelled
  BY <1>3 DEF ClientCancelled, EndSession, NoKeepalive
<1>4. CASE TransportDied
  BY Zenon, <1>4 DEF TransportDied, EndSession, NoKeepalive
<1>5. CASE BackedOff
  BY <1>5 DEF BackedOff
<1>6. CASE LinkFails
  BY <1>6 DEF LinkFails
<1>7. CASE Inbound
  BY <1>7 DEF Inbound
<1>8. CASE Tick
  BY <1>8 DEF Tick
<1>9. CASE Wake
  BY <1>9 DEF Wake
<1>10. CASE Probed
  BY ZenonT(40), <1>10 DEF Probed, EndSession, NoKeepalive
<1>11. CASE Datagram
  <2>1. CASE table # 0 /\ Receiving(table)
    <3>1. UNCHANGED <<client, table, gens, cleanups>>
          /\ assoc' = [assoc EXCEPT ![table].queue = IF @ < QueueCap THEN @ + 1 ELSE @]
      BY <1>11, <2>1 DEF Datagram
    <3>2. \A g \in Gens : assoc'[g].pc = assoc[g].pc
      BY ZenonT(40), <3>1
    <3> QED BY <3>1, <3>2
  <2>2. CASE ~(table # 0 /\ Receiving(table))
    <3>1. /\ gens.next \in Gens /\ table' = gens.next /\ gens'.next = gens.next + 1
          /\ gens'.first = gens.first /\ UNCHANGED <<client, cleanups>>
          /\ \A g \in Gens : assoc'[g].pc = IF g = gens.next THEN "open" ELSE assoc[g].pc
      BY <1>11, <2>2 DEF Datagram
    <3>2. \A g \in Gens : ThisSession(g) => assoc[g].pc \notin {"open", "run"}
      BY <1>11, <2>2 DEF Datagram, Receiving
    <3>3. ServingInTable'
      BY Zenon, <3>1, <3>2
    <3>4. ASSUME NEW g \in cleanups' PROVE assoc'[g].pc = "gone"
      <4>1. g \in Gens /\ assoc[g].pc = "gone"
        BY Zenon, <3>1
      <4>2. g # gens.next
        BY <3>1, <4>1
      <4> QED BY Zenon, <3>1, <4>1, <4>2
    <3>5. \A g \in Gens : g >= gens'.next => assoc'[g].pc = "none"
      <4>1. \A g \in Gens : g >= gens.next + 1 => g >= gens.next /\ g # gens.next
        BY SMTT(40)
      <4> QED BY <3>1, <4>1
    <3> QED BY <3>3, <3>4, <3>5
  <2> QED BY <2>1, <2>2
<1>12. ASSUME NEW g \in Gens, OpenAssoc(g) \/ RelayBack(g) \/ CloseAssoc(g) \/ SayOver(g) \/ DropEntry(g)
      PROVE  AssocOK'
  <2>1. CASE OpenAssoc(g)
    BY Zenon, <2>1 DEF OpenAssoc, ThisSession, SetAssoc
  <2>2. CASE RelayBack(g)
    BY Zenon, <2>2 DEF RelayBack
  <2>3. CASE CloseAssoc(g)
    BY Zenon, <2>3 DEF CloseAssoc, SetAssoc
  <2>4. CASE SayOver(g)
    BY Zenon, <2>4 DEF SayOver, SetAssoc, ThisSession
  <2>5. CASE DropEntry(g)
    BY Zenon, <2>5 DEF DropEntry
  <2> QED BY <1>12, <2>1, <2>2, <2>3, <2>4, <2>5
<1> QED
  BY ZenonT(40), <1>1, <1>2, <1>3, <1>4, <1>5, <1>6, <1>7, <1>8, <1>9, <1>10, <1>11, <1>12 DEF GaloshesNext

\* Steps that change nothing here.
LEMMA ClientStutter ==
  ASSUME ClientIInv, UNCHANGED clientVars
  PROVE  ClientIInv'
  BY Zenon DEF clientVars, ClientIInv, ClientTypeOK, QuietOK, AssocOK, ServingInTable, ThisSession

-----------------------------------------------------------------------------
(* Its server.                                                             *)

\* Whose driver runs is served; a connection whose driver panicked says so at
\* its end, to a server that fails of it and of nothing else.
ServerIInv ==
  /\ acceptor \in [pc : {"bind", "refused", "accept", "drain", "over"}, cancelled : BOOLEAN,
                   child : BOOLEAN, fatal : BOOLEAN]
  /\ conn \in [Conns -> {"none", "serving", "done", "panic", "joined"}]
  /\ yamux \in [Conns -> {"none", "running", "ended", "panic"}]
  /\ panicked \subseteq Conns
  /\ \A c \in Conns :
       /\ yamux[c] \in {"running", "panic"} => conn[c] = "serving"
       /\ yamux[c] = "panic" \/ conn[c] = "panic" => c \in panicked
       /\ c \in panicked => yamux[c] = "panic" \/ conn[c] = "panic" \/ (conn[c] = "joined" /\ acceptor.fatal)
  /\ acceptor.fatal => panicked # {}
  /\ acceptor.pc = "over" => \A c \in Conns : conn[c] \in {"none", "joined"}

\* A server that has bound nothing serves nobody.
LEMMA ServerInitIInv == ServerInit => ServerIInv
  BY DEF ServerInit, ServerIInv

\* Every step of the server, of a driver and of a connection keeps it.
LEMMA ServerStep ==
  ASSUME ServerIInv, ServerNext
  PROVE  ServerIInv'
<1> USE DEF ServerIInv
<1>1. CASE ServerBind
  BY <1>1 DEF ServerBind
<1>2. CASE ServerShutdown
  BY Zenon, <1>2 DEF ServerShutdown
<1>3. CASE StopAccepting
  BY <1>3 DEF StopAccepting
<1>4. CASE ServerReturns
  BY <1>4 DEF ServerReturns
<1>5. ASSUME NEW c \in Conns, Accept(c) \/ DriverStops(c) \/ WindDown(c) \/ JoinNext(c)
      PROVE  ServerIInv'
  <2>1. CASE Accept(c)
    BY Zenon, <2>1 DEF Accept
  <2>2. CASE DriverStops(c)
    BY Zenon, <2>2 DEF DriverStops
  <2>3. CASE WindDown(c)
    BY <2>3 DEF WindDown
  <2>4. CASE JoinNext(c)
    BY Zenon, <2>4 DEF JoinNext
  <2> QED BY ZenonT(40), <1>5, <2>1, <2>2, <2>3, <2>4
<1> QED BY Zenon, <1>1, <1>2, <1>3, <1>4, <1>5 DEF ServerNext

\* The yamux hop keeps its link: a silent transport is judged within the
\* keepalive's bound and not before (keepalive_cycle), an association that serves
\* its peer is the one in the table whatever cleanup is still under way
\* (run_client_session), and a server that returned left no connection running and
\* failed if a driver panicked (run_server).
THEOREM LinkAlwaysKept == GaloshesSpec => LinkKept
<1>1. ClientIInv /\ [GaloshesNext]_clientVars => ClientIInv'
  BY ClientTypes, ClientQuiet, ClientAssoc, ClientStutter DEF ClientIInv
<1>2. ClientIInv /\ [GaloshesNext]_clientVars =>
        [/\ quiet' <= Detect
         /\ client.pc = "session" /\ client'.pc = "backoff" /\ link # "dead" => quiet >= Interval + Timeout]_clientVars
  BY Zenon, ClientQuiet DEF Judged
<1>3. ClientIInv' => ServingInTable'
  BY DEF ClientIInv, AssocOK
<1>4. ServerIInv /\ [ServerNext]_serverVars => ServerIInv'
  <2>1. ServerIInv /\ UNCHANGED serverVars => ServerIInv'
    BY DEF ServerIInv, serverVars
  <2> QED BY Zenon, <2>1, ServerStep
<1>5. ServerIInv' => NothingLeftRunning'
  <2>1. ServerIInv => NothingLeftRunning
    BY DEF ServerIInv, NothingLeftRunning
  <2> QED BY <2>1, PTL
<1> QED
  BY ClientInitIInv, ServerInitIInv, <1>1, <1>2, <1>3, <1>4, <1>5, PTL
  DEF GaloshesSpec, LinkKept, SilenceJudged

=============================================================================
