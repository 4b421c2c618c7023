----------------------------- MODULE PluginStart -----------------------------
(***************************************************************************)
(* The bridge's side of a plugin chain: start_plugin_chain tries ports     *)
(* until the chain comes up, every child is recorded in bridge-plugins.json*)
(* as soon as it is spawned, and the next boot, or the stop of the         *)
(* session, kills what is recorded and removes the file.                   *)
(*                                                                         *)
(* An attempt is a task of its own: dropping it cancels and aborts it, and *)
(* nobody waits.  Of the chain this module uses what ChainPromise says: a  *)
(* verdict other than ready comes when the child is down.  The spawn and   *)
(* the write of the record are one poll of that task: an abort cannot come *)
(* between them, a crash or another thread can.                            *)
(***************************************************************************)
EXTENDS Naturals, FiniteSets

CONSTANTS MaxAttempts,   \* bound: attempts, over all starts
          MaxCrashes     \* bound: crashes of the bridge

ASSUME PluginStartAssumption == MaxAttempts \in Nat \ {0} /\ MaxCrashes \in Nat

VARIABLES life,       \* the bridge: "boot", "serving" or "down", and the crashes so far
          start,      \* the session's slot: pc, the attempt in hand, its first attempt, the start's token
          task,       \* task[a]: where attempt a's runner is
          dropped,    \* the attempts whose ChainTask was dropped
          said,       \* said[a]: the verdict the runner has sent
          proc,       \* proc[a]: attempt a's child
          pfile,      \* bridge-plugins.json
          reap,       \* the reap in progress
          excused     \* the children no record could keep: see Unrecordable, LostRecords

startVars == <<life, start, task, dropped, said, proc, pfile, reap, excused>>

Attempts == 1 .. MaxAttempts
Idle == [pc |-> "idle", cur |-> 0, first |-> 0, cancel |-> FALSE]
NoReap == [pc |-> "none", seen |-> {}, todo |-> {}, all |-> TRUE]
Absent == [form |-> "absent", pids |-> {}]
Untried == {a \in Attempts : task[a] = "none"}
Fresh == CHOOSE a \in Untried : \A b \in Untried : a <= b

PluginInit ==
  /\ life = [pc |-> "boot", crashes |-> 0] /\ start = Idle
  /\ task = [a \in Attempts |-> "none"] /\ said = [a \in Attempts |-> "none"]
  /\ proc = [a \in Attempts |-> "none"] /\ dropped = {} /\ excused = {}
  /\ pfile \in {Absent, [form |-> "obsolete", pids |-> {}]}
  /\ reap = [NoReap EXCEPT !.pc = "load"]

-----------------------------------------------------------------------------
(* start_plugin_chain, spawn_plugin_runner_at.                             *)

StartChain ==
  /\ life.pc = "serving" /\ start.pc = "idle" /\ Untried # {}
  /\ start' = [Idle EXCEPT !.pc = "probe", !.first = Fresh]
  /\ UNCHANGED <<life, task, dropped, said, proc, pfile, reap, excused>>

CancelStart ==
  /\ start.pc \in {"probe", "wait"} /\ ~start.cancel
  /\ start' = [start EXCEPT !.cancel = TRUE]
  /\ UNCHANGED <<life, task, dropped, said, proc, pfile, reap, excused>>

\* bind_ephemeral_once: a free port, then the runner's task; any error but a race ends the start.
BindEphemeral ==
  /\ start.pc = "probe" /\ life.pc = "serving"
  /\ \/ /\ Untried # {}
        /\ start' = [start EXCEPT !.pc = "wait", !.cur = Fresh] /\ task' = [task EXCEPT ![Fresh] = "run"]
     \/ start' = Idle /\ UNCHANGED task
  /\ UNCHANGED <<life, dropped, said, proc, pfile, reap, excused>>

\* The wait for readiness, in this order: the token, the verdict, the timeout.
\* A port race is tried again on another port, whatever else drops the attempt.
AwaitReady ==
  /\ start.pc = "wait" /\ life.pc = "serving"
  /\ LET v == IF start.cancel THEN "cancelled" ELSE said[start.cur]
     IN \/ v = "ready" /\ start' = [start EXCEPT !.pc = "up"] /\ UNCHANGED dropped
        \/ v = "conflict" /\ start' = [start EXCEPT !.pc = "probe"] /\ dropped' = dropped \cup {start.cur}
        \/ v \in {"none", "fatal", "closed", "cancelled"} /\ start' = Idle /\ dropped' = dropped \cup {start.cur}
  /\ UNCHANGED <<life, task, said, proc, pfile, reap, excused>>

-----------------------------------------------------------------------------
(* The runner's task.                                                      *)

SpawnChild(a) ==
  /\ task[a] = "run"
  /\ task' = [task EXCEPT ![a] = "spawned"] /\ proc' = [proc EXCEPT ![a] = "alive"]
  /\ UNCHANGED <<life, start, dropped, said, pfile, reap, excused>>

\* append_record: read, push, store under the file's own lock; what is not a current file is replaced.
Appended(a) == [form |-> "current", pids |-> IF pfile.form = "current" THEN pfile.pids \cup {a} ELSE {a}]

\* record_plugin_pid.  The child's identity cannot be read, or the file cannot be written: it is only logged.
RecordPid(a) ==
  /\ task[a] = "spawned"
  /\ task' = [task EXCEPT ![a] = "up"]
  /\ \/ pfile' = Appended(a) /\ UNCHANGED excused
     \/ excused' = excused \cup {a} /\ UNCHANGED pfile
  /\ UNCHANGED <<life, start, dropped, said, proc, reap>>

SayUp(a) ==
  /\ task[a] = "up" /\ a \notin dropped /\ said[a] = "none"
  /\ said' = [said EXCEPT ![a] = "ready"]
  /\ UNCHANGED <<life, start, task, dropped, proc, pfile, reap, excused>>

MutRunnerEnds(a) ==
  /\ task[a] = "up" /\ said[a] = "none"
  /\ said' = [said EXCEPT ![a] = "conflict"]
  /\ UNCHANGED <<life, start, task, dropped, proc, pfile, reap, excused>>
\* The chain ends, of itself: the verdict follows the child.
RunnerEnds(a) ==
  /\ task[a] \in {"run", "up"} /\ a \notin dropped
  /\ task' = [task EXCEPT ![a] = "over"] /\ proc' = [proc EXCEPT ![a] = "gone"]
  /\ \E v \in {"conflict", "fatal", "closed"} : said' = [said EXCEPT ![a] = IF @ = "none" THEN v ELSE @]
  /\ UNCHANGED <<life, start, dropped, pfile, reap, excused>>

\* The runtime drops an aborted task between two polls, and the child with it.
RunnerDropped(a) ==
  /\ a \in dropped /\ task[a] \in {"run", "up"}
  /\ task' = [task EXCEPT ![a] = "over"] /\ proc' = [proc EXCEPT ![a] = "gone"]
  /\ UNCHANGED <<life, start, dropped, said, pfile, reap, excused>>

\* A child the reap killed ends its runner too, see RunnerEnds.

-----------------------------------------------------------------------------
(* reap_recorded_plugins: at boot, and as a session stops.                 *)

StopChain ==
  /\ life.pc = "serving" /\ start.pc = "up"
  /\ start' = [start EXCEPT !.pc = "reap"] /\ reap' = [NoReap EXCEPT !.pc = "load"]
  /\ UNCHANGED <<life, task, dropped, said, proc, pfile, excused>>

\* After the reap the stop drops the chain; the boot goes on to serve.
ReapOver ==
  /\ reap.pc = "done" /\ reap' = NoReap
  /\ IF life.pc = "boot" THEN life' = [life EXCEPT !.pc = "serving"] /\ UNCHANGED <<start, dropped>>
     ELSE start' = Idle /\ dropped' = dropped \cup {start.cur} /\ UNCHANGED life
  /\ UNCHANGED <<task, said, proc, pfile, excused>>

\* reap_loaded_with: a file this build cannot judge is left, one of an older schema is removed.
ReapLoad ==
  /\ reap.pc = "load"
  /\ reap' = CASE pfile.form = "current" -> [reap EXCEPT !.pc = "kill", !.seen = pfile.pids, !.todo = pfile.pids]
               [] pfile.form = "obsolete" -> [reap EXCEPT !.pc = "clear"]
               [] OTHER -> [reap EXCEPT !.pc = "done"]
  /\ UNCHANGED <<life, start, task, dropped, said, proc, pfile, excused>>

\* The kill of a recorded process: of that process or of none.  One that fails leaves the file.
ReapKill ==
  /\ reap.pc = "kill" /\ reap.todo # {}
  /\ \E a \in reap.todo :
       \/ reap' = [reap EXCEPT !.todo = @ \ {a}] /\ proc' = [proc EXCEPT ![a] = "gone"]
       \/ reap' = [reap EXCEPT !.todo = @ \ {a}, !.all = FALSE] /\ UNCHANGED proc
  /\ UNCHANGED <<life, start, task, dropped, said, pfile, excused>>

\* A restart still owed to a kill that failed is not a stray.
Refused == {a \in reap.seen : proc[a] = "alive"}
ReapAccount ==
  /\ reap.pc = "kill" /\ reap.todo = {}
  /\ reap' = [reap EXCEPT !.pc = IF reap.all THEN "clear" ELSE "done"]
  /\ excused' = excused \cup Refused
  /\ UNCHANGED <<life, start, task, dropped, said, proc, pfile>>

\* clear: whatever the file holds by now goes.  A failed removal is logged.
LostRecords == pfile.pids \ reap.seen
MutReapClear ==
  /\ reap.pc \in {"clear", "load"} /\ reap' = [reap EXCEPT !.pc = "done"] /\ pfile' = Absent
  /\ excused' = excused \cup (IF reap.pc = "clear" THEN LostRecords ELSE {})
  /\ UNCHANGED <<life, start, task, dropped, said, proc>>
ReapClear ==
  /\ reap.pc = "clear"
  /\ reap' = [reap EXCEPT !.pc = "done"]
  /\ \/ pfile' = Absent /\ excused' = excused \cup LostRecords
     \/ UNCHANGED <<pfile, excused>>
  /\ UNCHANGED <<life, start, task, dropped, said, proc>>

-----------------------------------------------------------------------------
(* The bridge's death.                                                     *)

\* Children survive it or go with it; a child spawned and not yet recorded is out of anyone's reach.
Unrecordable == {a \in Attempts : task[a] = "spawned"}
CrashBridge ==
  /\ life.pc # "down" /\ life.crashes < MaxCrashes
  /\ life' = [pc |-> "down", crashes |-> life.crashes + 1]
  /\ start' = Idle /\ reap' = NoReap /\ dropped' = {}
  /\ \E survivors \in SUBSET {a \in Attempts : proc[a] = "alive"} :
       proc' = [a \in Attempts |-> IF proc[a] = "alive" /\ a \notin survivors THEN "gone" ELSE proc[a]]
  /\ task' = [a \in Attempts |-> IF task[a] \in {"run", "spawned", "up"} THEN "lost" ELSE task[a]]
  /\ said' = [a \in Attempts |-> "none"]
  /\ excused' = excused \cup Unrecordable
  /\ UNCHANGED pfile

\* The file is damaged, or written by another version, while the bridge is down.
DamageFile ==
  /\ life.pc = "down" /\ pfile.form = "current"
  /\ pfile' = [form |-> "damaged", pids |-> {}] /\ excused' = excused \cup pfile.pids
  /\ UNCHANGED <<life, start, task, dropped, said, proc, reap>>

RestartBridge ==
  /\ life.pc = "down"
  /\ life' = [life EXCEPT !.pc = "boot"] /\ reap' = [NoReap EXCEPT !.pc = "load"]
  /\ UNCHANGED <<start, task, dropped, said, proc, pfile, excused>>

PluginNext ==
  \/ StartChain \/ CancelStart \/ BindEphemeral \/ AwaitReady \/ StopChain
  \/ ReapOver \/ ReapLoad \/ ReapKill \/ ReapAccount \/ ReapClear
  \/ CrashBridge \/ DamageFile \/ RestartBridge
  \/ \E a \in Attempts : SpawnChild(a) \/ RecordPid(a) \/ SayUp(a) \/ RunnerEnds(a) \/ RunnerDropped(a)

PluginSpec == PluginInit /\ [][PluginNext]_startVars

-----------------------------------------------------------------------------

\* A bridge that serves has no plugin process of an earlier life of it about,
\* unless no record could have kept it: it was never recorded, its record was
\* destroyed from outside, its kill failed, or the removal met a record the
\* reap had not read.  The records outlive every crash from the write on.
StraysReaped == life.pc = "serving" => \A a \in Attempts : task[a] = "lost" /\ proc[a] = "alive" => a \in excused

\* One start never has two children alive: a port conflict is reported, and
\* the next port tried, when the child that lost the port is down.
OneChild ==
  start.pc # "idle" => Cardinality({a \in Attempts : a >= start.first /\ proc[a] = "alive" /\ task[a] # "lost"}) <= 1

\* Every plugin process is accounted for: those of an earlier life are reaped
\* before the bridge serves, and a start has one at a time
\* (reap_recorded_plugins, start_plugin_chain).
PluginsAccounted == StraysReaped /\ OneChild
=============================================================================
