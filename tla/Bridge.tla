------------------------------- MODULE Bridge -------------------------------
(***************************************************************************)
(* The life cycle of one bridge process and of the three records that      *)
(* outlive it:                                                             *)
(*                                                                         *)
(*   ipc.rs            the HTTP handlers, the start slot and its cancel    *)
(*   proxy_manager.rs  start_cancellable / stop_with / reload /            *)
(*                     check_health, always under the proxy lock           *)
(*   boot.rs, route_recovery.rs, reconciler.rs   the boot sequence         *)
(*   target.rs         bridge-target.json and bridge-startup.json          *)
(*   lockdown_state.rs bridge-lockdown.json                                *)
(*   cutover.rs        the out-of-process `bridge unlock` escape           *)
(*                                                                         *)
(* Handlers run concurrently.  All but the unblock escape take the proxy   *)
(* lock, so at most one job holds it (job); the others wait in queue with  *)
(* the unblock generation they read before asking for the lock.  A record  *)
(* write that must be ordered against an unblock runs in a blocking task   *)
(* under the intent_persist mutex; the task outlives the handler that      *)
(* spawned it.                                                             *)
(*                                                                         *)
(* Every start here is uncovered, as at each call site of the program: the *)
(* transient cover is the subject of module PfCover.                       *)
(***************************************************************************)
EXTENDS Decisions, FiniteSets

CONSTANTS
  SocksOnly,    \* the configs whose tunnel mode is SocksOnly
  Shape(_),     \* what reload compares: the config without its filters
  Ids,          \* attempt ids; NoId is the empty header
  NoId,
  Pf,           \* whether the cover's rules die with the OS (pf) or not (WFP)
  Environments  \* what may surround a bridge: the values of env, each with
                \*   configs, ids, pushes: what clients send with a start (a
                \*     push is an X-Hole-On-Startup header, None if absent)
                \*   reads: what a damaged bridge-lockdown.json reads as
                \*   quits: the shutdown events
                \*   queue, unblocks, faults, gone, crashes: bounds on the
                \*     requests that wait for the lock, the unblocks, the
                \*     failed calls, the clients that hang up, the crashes

(* What surrounds a bridge is made of the values its types name.           *)
ASSUME EnvironmentsAssumption ==
  \A e \in Environments :
    /\ e.configs \subseteq Configs /\ e.ids \subseteq Ids
    /\ e.pushes \subseteq Startups \cup {None}
    /\ e.reads \subseteq Intents /\ e.quits \subseteq Events
    /\ {e.queue, e.unblocks, e.faults, e.gone, e.crashes} \subseteq Nat

VARIABLES
  \* the records
  target, intent, pref,
  \* the standing cover as the OS would report it
  os,
  \* the process and its ProxyManager
  phase, quit, session, active, adopted, death,
  \* IpcState
  generation, slot, tok, armed,
  \* handlers: waiting for the lock, holding it, unblocking
  queue, job, upc,
  \* blocking tasks: the holder's own, and those whose handler is gone
  own, orphans, strays,
  \* history
  cancels, escaped, stopped, diverged, clean,
  \* budgets, and the environment of this behaviour
  faults, gone, crashes, env

records == <<target, intent, pref>>

manager == <<session, active, adopted, death>>

ipc == <<generation, slot, tok, armed>>

history == <<cancels, escaped, stopped, diverged>>

budgets == <<clean, faults, gone, crashes, env>>

vars == <<target, intent, pref, os, phase, quit, session, active, adopted,
          death, generation, slot, tok, armed, queue, job, upc, own, orphans,
          strays, cancels, escaped, stopped, diverged, clean, faults,
          gone, crashes, env>>

NoJob == [kind |-> "none", pc |-> "none"]

NoTask == [ok |-> FALSE, half |-> FALSE, idle |-> TRUE]

Requests ==
  [kind : {"start", "reload"}, cfg : Configs, id : Ids \cup {NoId},
   push : Startups \cup {None}, snap : Nat]

Tasks ==
  [cfg : Configs, push : Startups \cup {None}, snap : Nat, ok : BOOLEAN,
   half : BOOLEAN, idle : {FALSE}]

(* What the lock holder carries: the request it serves (a stop, a health   *)
(* teardown, the exit and the boot carry placeholders), its position, the  *)
(* cover it expects to install, the cover guard it owns, the event it      *)
(* stops with and the target that event left.                              *)
Jobs ==
  [kind : {"start", "reload", "stop", "health", "exit", "boot"},
   pc : {"decide", "resolve", "inner", "cover", "dns", "persist", "stop",
         "teardown", "release"},
   cfg : Configs \cup {None}, push : Startups \cup {None}, snap : Nat,
   expect : BOOLEAN, guard : BOOLEAN, ev : Events, tgt : Targets,
   last : BOOLEAN]

(* The sections of the process in which the socket is bound but not yet    *)
(* served.                                                                 *)
Booting == {"recover", "resolve", "boot"}

RecordsType ==
  /\ target \in Targets /\ intent \in Intents
  /\ pref \in [on_startup : Startups, candidate : Configs \cup {None}]

ManagerType ==
  /\ session \in [cfg : Configs, guard : BOOLEAN, alive : BOOLEAN] \cup {None}
  /\ active \in Configs \cup {None}
  /\ adopted \in BOOLEAN /\ death \in BOOLEAN

IpcType ==
  /\ generation \in Nat
  /\ slot \in Ids \cup {NoId, None} /\ tok \in BOOLEAN
  /\ armed \in Ids \cup {None}

HistoryType ==
  /\ cancels \subseteq Ids
  /\ escaped \in {"no", "pending", "yes"}
  /\ stopped \in BOOLEAN /\ diverged \in BOOLEAN

BudgetsType ==
  /\ clean \in BOOLEAN
  /\ faults \in 0..env.faults /\ gone \in 0..env.gone /\ crashes \in 0..env.crashes
  /\ env \in Environments

TypeOK ==
  /\ RecordsType /\ ManagerType /\ IpcType /\ HistoryType /\ BudgetsType
  /\ os \in {"Live", "Recorded", "Absent"}
  /\ phase \in {"down", "serve", "exit"} \cup Booting
  /\ quit \in Events \cup {None}
  /\ queue \subseteq Requests
  /\ job \in Jobs \cup {NoJob}
  /\ upc \in {"idle", "off", "intent", "candidate"}
  /\ own \in Tasks \cup {NoTask} /\ orphans \subseteq Tasks
  /\ strays \subseteq Events

-----------------------------------------------------------------------------
(* Environment: budgets and the outcomes of an OS call.                    *)

Spend ==
  /\ faults < env.faults
  /\ faults' = faults + 1
  /\ clean' = FALSE

Free == UNCHANGED <<faults, clean>>

(* One probe of the standing cover: the OS answers, or cannot be asked.    *)
Probe(p) ==
  \/ p = os /\ Free
  \/ p \in {"Unreachable", "Indeterminate"} /\ Spend

(* release_all_covers.  A failed one may have removed the rules, or only   *)
(* left their record, before it failed.                                    *)
ReleaseOk == os' = "Absent" /\ Free

ReleaseErr ==
  /\ os # "Absent"
  /\ os' \in {os, "Recorded"}
  /\ Spend

(* Dropping a cover guard disengages the cover, and can only warn.         *)
DropGuard(held) ==
  \/ ~held /\ UNCHANGED os /\ Free
  \/ held /\ os' = "Absent" /\ Free
  \/ held /\ os # "Absent" /\ UNCHANGED os /\ Spend

-----------------------------------------------------------------------------
(* Blocking tasks that write a start's records.                            *)

MutTaskAlwaysOk(r, ok) ==
  [cfg |-> r.cfg, push |-> r.push, snap |-> r.snap, ok |-> TRUE,
   half |-> FALSE, idle |-> FALSE]

(* What a settled request hands to its task.                               *)
Task(r, ok) ==
  [cfg |-> r.cfg, push |-> r.push, snap |-> r.snap, ok |-> ok,
   half |-> FALSE, idle |-> FALSE]

(* intent_persist is held by a task between its two writes and by an       *)
(* unblock between its first and its last.                                 *)
IntentPersistFree ==
  /\ ~own.half
  /\ \A t \in orphans : ~t.half
  /\ upc \notin {"intent", "candidate"}

MutNeverDeclined(t) == FALSE

Declined(t) == generation # t.snap

(* write_start_records, first half: the target.  A failed save abandons    *)
(* the second half.                                                        *)
WriteTarget(t, next) ==
  /\ IntentPersistFree /\ t.ok /\ ~t.half
  /\ \/ /\ ~Declined(t)
        /\ target' = t.cfg /\ diverged' = diverged /\ Free
        /\ next = [t EXCEPT !.half = TRUE]
     \/ /\ Declined(t)
        /\ UNCHANGED target /\ diverged' = TRUE /\ Free
        /\ next = [t EXCEPT !.half = TRUE]
     \/ /\ ~Declined(t)
        /\ UNCHANGED target /\ diverged' = TRUE /\ Spend
        /\ next = NoTask
  /\ UNCHANGED pref

(* Second half, or all there is of a failed start's: the preference.       *)
WritePref(t, next) ==
  /\ t.half \/ (~t.ok /\ ~t.idle /\ IntentPersistFree)
  /\ \/ /\ pref' = [on_startup |-> IF t.push = None THEN pref.on_startup
                                   ELSE t.push,
                    candidate |-> IF t.ok /\ ~Declined(t) THEN t.cfg
                                  ELSE pref.candidate]
        /\ Free
     \/ UNCHANGED pref /\ Spend
  /\ next = NoTask
  /\ UNCHANGED <<target, diverged>>

persist_after_start(t, next) == WriteTarget(t, next) \/ WritePref(t, next)

OwnTask ==
  /\ phase # "down"
  /\ persist_after_start(own, own')
  /\ UNCHANGED <<intent, os, phase, quit, manager, ipc, queue, job, upc,
                 orphans, strays, cancels, escaped, stopped,
                 gone, crashes, env>>

(* A task whose handler was dropped still runs to its end.                 *)
OrphanTask ==
  /\ phase # "down"
  /\ \E t \in orphans :
       \E next \in {NoTask, [t EXCEPT !.half = TRUE]} :
         /\ persist_after_start(t, next)
         /\ orphans' = (orphans \ {t}) \cup ({next} \ {NoTask})
  /\ UNCHANGED <<intent, os, phase, quit, manager, ipc, queue, job, upc,
                 own, strays, cancels, escaped, stopped,
                 gone, crashes, env>>

(* So does the session-event write of a dropped stop.                      *)
StrayEvent ==
  /\ phase # "down"
  /\ \E ev \in strays :
       /\ target' = apply(target, target_after(target, ev))
       /\ strays' = strays \ {ev}
       /\ diverged' = TRUE
  /\ UNCHANGED <<intent, pref, os, phase, quit, manager, ipc, queue, job, upc,
                 own, orphans, cancels, escaped, stopped,
                 budgets>>

-----------------------------------------------------------------------------
(* Handlers that need no lock, or only start_cancel's.                     *)

Serving == phase = "serve" /\ quit = None

(* An empty attempt id never matches and is never armed.                   *)
HasId(id) == id # NoId

(* handle_start.  A start that finds its own cancel armed consumes it; a   *)
(* start that finds the slot taken is refused and changes nothing; any     *)
(* other clears a stale arm, takes the slot, reads the generation and      *)
(* waits for the proxy lock.                                               *)
handle_start(id, cfg, push) ==
  /\ Serving
  /\ cancels' = cancels \ {id}
  /\ \/ /\ HasId(id) /\ armed = id
        /\ armed' = None
        /\ UNCHANGED <<slot, tok, queue, escaped>>
     \/ /\ ~(HasId(id) /\ armed = id)
        /\ slot = None
        /\ Cardinality(queue) < env.queue
        /\ armed' = None
        /\ slot' = id /\ tok' = FALSE
        /\ queue' = queue \cup {[kind |-> "start", cfg |-> cfg, id |-> id,
                                 push |-> push, snap |-> generation]}
        /\ escaped' = "no"
  /\ UNCHANGED <<records, os, phase, quit, manager, generation, job, upc, own,
                 orphans, strays, stopped, diverged, budgets>>

(* handle_reload, up to the lock.                                          *)
handle_reload(cfg) ==
  /\ Serving
  /\ Cardinality(queue) < env.queue
  /\ queue' = queue \cup {[kind |-> "reload", cfg |-> cfg, id |-> NoId,
                           push |-> None, snap |-> generation]}
  /\ escaped' = "no"
  /\ UNCHANGED <<records, os, phase, quit, manager, ipc, job, upc, own,
                 orphans, strays, cancels, stopped, diverged, budgets>>

MutNamesAny(id) == slot # None

(* Whether a cancel names the start in flight.                             *)
Names(id) == slot = id

(* handle_cancel.  One with no id does nothing.                            *)
handle_cancel(id) ==
  /\ Serving
  /\ HasId(id)
  /\ \/ Names(id) /\ tok' = TRUE /\ UNCHANGED armed
     \/ ~Names(id) /\ armed' = id /\ UNCHANGED tok
  /\ cancels' = cancels \cup {id}
  /\ UNCHANGED <<records, os, phase, quit, manager, generation, slot, queue,
                 job, upc, own, orphans, strays, escaped, stopped,
                 diverged, budgets>>

(* handle_unblock: release first; the three writes, in this order and      *)
(* under intent_persist, only once that succeeded.  A failed write         *)
(* abandons the rest.                                                      *)
handle_unblock ==
  /\ Serving
  /\ upc = "idle" /\ generation < env.unblocks
  /\ \/ ReleaseOk /\ upc' = "off"
     \/ ReleaseErr /\ UNCHANGED upc
  /\ UNCHANGED <<records, phase, quit, manager, ipc, queue, job, own, orphans,
                 strays, cancels, escaped, stopped, diverged, gone,
                 crashes, env>>

MutEscapeNeedsLock == upc = "off" /\ IntentPersistFree /\ job = NoJob

(* The release is done; the writes wait for intent_persist and for nothing *)
(* else.                                                                   *)
EscapeReady == upc = "off" /\ IntentPersistFree

UnblockOff ==
  /\ EscapeReady
  /\ \/ /\ target' = Off
        /\ generation' = generation + 1
        /\ escaped' = "pending" /\ diverged' = TRUE
        /\ upc' = "intent"
        /\ Free
     \/ /\ UNCHANGED <<target, generation, escaped, diverged>>
        /\ upc' = "idle"
        /\ Spend
  /\ UNCHANGED <<intent, pref, os, phase, quit, manager, slot, tok, armed,
                 queue, job, own, orphans, strays, cancels, stopped,
                 gone, crashes, env>>

UnblockIntent ==
  /\ upc = "intent"
  /\ \/ intent' = "Off" /\ upc' = "candidate" /\ Free
        /\ UNCHANGED escaped
     \/ UNCHANGED intent /\ upc' = "idle" /\ Spend /\ escaped' = "no"
  /\ UNCHANGED <<target, pref, os, phase, quit, manager, ipc, queue, job, own,
                 orphans, strays, cancels, stopped, diverged, gone, crashes, env>>

(* The startup preference without a config to connect to.                  *)
Cleared(p) == [p EXCEPT !.candidate = None]

UnblockCandidate ==
  /\ upc = "candidate" /\ upc' = "idle"
  /\ \/ /\ pref' = Cleared(pref) /\ Free
        /\ escaped' = IF escaped = "pending" THEN "yes" ELSE escaped
     \/ UNCHANGED pref /\ Spend /\ escaped' = "no"
  /\ UNCHANGED <<target, intent, os, phase, quit, manager, ipc, queue, job,
                 own, orphans, strays, cancels, stopped, diverged,
                 gone, crashes, env>>

UnblockStep == UnblockOff \/ UnblockIntent \/ UnblockCandidate

-----------------------------------------------------------------------------
(* Handlers that run whole under the lock.                                 *)

LockFree == Serving /\ job = NoJob

(* handle_lockdown, on: only the intent moves.                             *)
LockdownOn ==
  /\ LockFree
  /\ intent' = "On"
  /\ UNCHANGED <<target, pref, os, phase, quit, manager, ipc, queue, job, upc,
                 own, orphans, strays, history, budgets>>

(* handle_lockdown, off: turn_lockdown_off releases, drops the claim, and  *)
(* only then moves the intent.                                             *)
LockdownOff ==
  /\ LockFree
  /\ \/ ReleaseErr /\ UNCHANGED <<intent, adopted>>
     \/ ReleaseOk /\ adopted' = FALSE /\ intent' = "Off"
     \/ /\ os' = "Absent" /\ Spend
        /\ adopted' = FALSE /\ UNCHANGED intent
  /\ UNCHANGED <<target, pref, phase, quit, session, active, death, ipc, queue,
                 job, upc, own, orphans, strays, cancels, escaped,
                 stopped, diverged, gone, crashes, env>>

-----------------------------------------------------------------------------
(* The lock holder.  NewJob fills the placeholders.                        *)

NewJob(kind, pc, cfg, push, snap, ev, tgt) ==
  [kind |-> kind, pc |-> pc, cfg |-> cfg, push |-> push, snap |-> snap,
   expect |-> FALSE, guard |-> FALSE, ev |-> ev, tgt |-> tgt, last |-> FALSE]

StopJob(kind, ev) ==
  NewJob(kind, "stop", None, None, 0, ev, Unreadable)

Settling(kind) == NewJob(kind, "persist", None, None, 0, "Blipped", Unreadable)

(* A request gets the lock.  start: AlreadyRunning under a live session,   *)
(* and then only the pushed preference is recorded.  reload: a start when  *)
(* nothing is active, a hot swap when only the filters differ, otherwise a *)
(* Blipped stop and then a start.                                          *)
Acquire ==
  /\ LockFree
  /\ \E r \in queue :
       LET To(pc) == NewJob(r.kind, pc, r.cfg, r.push, r.snap, "Blipped",
                            Unreadable)
           Starts == r.kind = "start" \/ active = None
       IN /\ queue' = queue \ {r}
          /\ \/ /\ Starts /\ session = None
                /\ death' = FALSE
                /\ job' = To("resolve")
                /\ UNCHANGED <<active, own, session>>
             \/ /\ Starts /\ session # None
                /\ job' = Settling(r.kind)
                /\ own' = Task(r, FALSE)
                /\ UNCHANGED <<active, death, session>>
             \/ /\ ~Starts /\ Shape(active) = Shape(r.cfg)
                /\ active' = r.cfg
                /\ session' = IF session = None THEN None
                              ELSE [session EXCEPT !.cfg = r.cfg]
                /\ job' = Settling(r.kind)
                /\ own' = Task(r, TRUE)
                /\ UNCHANGED death
             \/ /\ ~Starts /\ Shape(active) # Shape(r.cfg)
                /\ job' = To("stop")
                /\ UNCHANGED <<active, death, own, session>>
  /\ stopped' = FALSE
  /\ UNCHANGED <<records, os, phase, quit, adopted, ipc, upc, orphans, strays,
                 cancels, escaped, diverged, budgets>>

handle_stop ==
  /\ LockFree
  /\ job' = StopJob("stop", "UserStopped")
  /\ UNCHANGED <<records, os, phase, quit, manager, ipc, queue, upc, own,
                 orphans, strays, history, budgets>>

(* handle_status and handle_metrics: check_health on a dead session names  *)
(* the death and tears the session down as given up.                       *)
check_health ==
  /\ LockFree
  /\ session # None /\ ~session.alive
  /\ death' = TRUE
  /\ job' = StopJob("health", "GaveUp")
  /\ UNCHANGED <<records, os, phase, quit, session, active, adopted, ipc,
                 queue, upc, own, orphans, strays, history, budgets>>

(* The proxy task or the plugin chain exits on its own.                    *)
SessionDies ==
  /\ session # None /\ session.alive
  /\ session' = [session EXCEPT !.alive = FALSE]
  /\ UNCHANGED <<records, os, phase, quit, active, adopted, death, ipc, queue,
                 job, upc, own, orphans, strays, history, budgets>>

-----------------------------------------------------------------------------
(* start_cancellable, from the lock to the session.                        *)

(* A start's own token, or for the boot start a child of the process-wide  *)
(* shutdown token.  A reload's is fresh.                                   *)
Cancelled ==
  \/ job.kind = "start" /\ tok
  \/ job.kind = "boot" /\ quit # None

MutSettleStart(ok) ==
  IF job.kind = "boot"
  THEN /\ UNCHANGED own
       /\ job' = IF ok THEN NoJob ELSE [job EXCEPT !.pc = "resolve"]
       /\ phase' = IF ok THEN "serve" ELSE phase
  ELSE /\ own' = Task(job, ok)
       /\ job' = Settling(job.kind)
       /\ UNCHANGED phase

(* A client's start or reload goes on to persist_after_start; the boot's   *)
(* to the cover release it still owes, if any, and then to serving.        *)
SettleStart(ok) ==
  IF job.kind = "boot"
  THEN /\ UNCHANGED own
       /\ job' = IF job.last THEN [job EXCEPT !.pc = "release", !.guard = FALSE]
                             ELSE NoJob
       /\ phase' = IF job.last THEN phase ELSE "serve"
  ELSE /\ own' = Task(job, ok)
       /\ job' = Settling(job.kind)
       /\ UNCHANGED phase

Commit(guard) ==
  /\ session' = [cfg |-> job.cfg, guard |-> guard, alive |-> TRUE]
  /\ active' = job.cfg
  /\ diverged' = FALSE
  /\ SettleStart(TRUE)

Goto(pc) == job' = [job EXCEPT !.pc = pc] /\ UNCHANGED <<own, phase>>

(* Private DoH.  What the kill switch expects is read once it answered.    *)
ResolveServer ==
  /\ job.pc = "resolve"
  /\ \/ SettleStart(FALSE)
     \/ /\ ~Cancelled
        /\ job' = [job EXCEPT !.pc = "inner",
                     !.expect = standing_cover_expected(intent, adopted)]
        /\ UNCHANGED <<own, phase>>
  /\ UNCHANGED <<records, os, quit, manager, ipc, queue, upc, orphans, strays,
                 history, budgets>>

MutStartTrusts == job.expect

(* The second read of the intent, before the install: only an Off counts.  *)
StillExpected == job.expect /\ intent # "Off"

(* Plugin chain, proxy, gateway, self test, TUN device, routes; then an    *)
(* Off overrides what was expected.                                        *)
StartInner ==
  /\ job.pc = "inner"
  /\ \/ /\ SettleStart(FALSE)
        /\ UNCHANGED <<session, active, diverged>>
     \/ /\ ~Cancelled /\ job.cfg \in SocksOnly
        /\ Commit(FALSE)
     \/ /\ ~Cancelled /\ job.cfg \notin SocksOnly
        /\ job' = [job EXCEPT !.pc = "cover", !.expect = StillExpected]
        /\ UNCHANGED <<own, phase, session, active, diverged>>
  /\ UNCHANGED <<records, os, quit, adopted, death, ipc, queue, upc, orphans,
                 strays, cancels, escaped, stopped, budgets>>

(* promote_adopted_claim, best effort, over Unset and Unreadable only.     *)
promote_adopted_claim ==
  \/ intent \in {"On", "Off"} /\ UNCHANGED intent /\ Free
  \/ intent \notin {"On", "Off"} /\ intent' = "On" /\ Free
  \/ intent \notin {"On", "Off"} /\ UNCHANGED intent /\ Spend

(* install_lockdown.  A failed install aborts the start, and may have      *)
(* taken down the cover it meant to replace.                               *)
InstallLockdown ==
  /\ job.pc = "cover"
  /\ \/ ~job.expect /\ Goto("dns") /\ UNCHANGED <<os, intent>> /\ Free
     \/ /\ job.expect
        /\ os' = "Live"
        /\ promote_adopted_claim
        /\ job' = [job EXCEPT !.pc = "dns", !.guard = TRUE]
        /\ UNCHANGED <<own, phase>>
     \/ /\ job.expect
        /\ os' \in {os, "Recorded", "Absent"}
        /\ Spend
        /\ SettleStart(FALSE)
        /\ UNCHANGED intent
  /\ UNCHANGED <<target, pref, quit, manager, ipc, queue, upc, orphans,
                 strays, cancels, escaped, stopped, diverged, gone,
                 crashes, env>>

(* Dns::apply.  A failure unwinds the cover guard with the routes.         *)
ApplyDns ==
  /\ job.pc = "dns"
  /\ \/ Commit(job.guard) /\ UNCHANGED os /\ Free
     \/ /\ DropGuard(job.guard)
        /\ SettleStart(FALSE)
        /\ UNCHANGED <<session, active, diverged>>
  /\ UNCHANGED <<records, quit, adopted, death, ipc, queue, upc, orphans,
                 strays, cancels, escaped, stopped, gone,
                 crashes, env>>

(* The handler waits for its task, holding the lock.                       *)
PersistDone == own = NoTask

MutFinishKeepsSlot ==
  /\ job.pc = "persist" /\ PersistDone
  /\ job' = NoJob
  /\ slot' = IF job.kind = "start" /\ session # None THEN None ELSE slot
  /\ UNCHANGED <<records, os, phase, quit, manager, generation, tok, armed,
                 queue, upc, own, orphans, strays, history, budgets>>

MutFinishDetaches ==
  /\ job.pc = "persist"
  /\ job' = NoJob
  /\ slot' = IF job.kind = "start" THEN None ELSE slot
  /\ tok' = FALSE
  /\ own' = NoTask /\ orphans' = orphans \cup ({own} \ {NoTask})
  /\ UNCHANGED <<records, os, phase, quit, manager, generation, armed,
                 queue, upc, strays, history, budgets>>

(* Then it lets go of the lock and, if it was a start, of the slot.        *)
FinishStart ==
  /\ job.pc = "persist" /\ PersistDone
  /\ job' = NoJob
  /\ slot' = IF job.kind = "start" THEN None ELSE slot
  /\ tok' = (tok /\ job.kind # "start")
  /\ UNCHANGED <<records, os, phase, quit, manager, generation, armed,
                 queue, upc, own, orphans, strays, history, budgets>>

-----------------------------------------------------------------------------
(* stop_with.                                                              *)

AfterStop(ok) ==
  IF job.kind = "reload"
  THEN IF ok
       THEN /\ job' = [job EXCEPT !.pc = "resolve", !.guard = FALSE]
            /\ UNCHANGED <<own, phase>>
       ELSE /\ own' = Task(job, FALSE)
            /\ job' = Settling(job.kind)
            /\ UNCHANGED phase
  ELSE job' = NoJob /\ UNCHANGED <<own, phase>>

(* persist_session_event moves the target before anything is torn down; a  *)
(* failed save goes by what is on disk, a panicked one by Unreadable.      *)
StopPersist ==
  /\ job.pc = "stop"
  /\ \E t \in Targets :
       /\ \/ /\ t = target_after(target, job.ev)
             /\ target' = apply(target, t)
             /\ UNCHANGED diverged /\ Free
          \/ /\ t \in {target, Unreadable}
             /\ UNCHANGED target
             /\ diverged' = TRUE /\ Spend
       /\ \/ /\ session = None
             /\ AfterStop(TRUE)
             /\ death' = (death /\ job.kind # "reload")
             /\ stopped' = (stopped \/ (job.kind = "stop" /\ target' = Off))
             /\ UNCHANGED session
          \/ /\ session # None
             /\ session' = None
             /\ job' = [job EXCEPT !.pc = "teardown", !.tgt = t,
                                   !.guard = session.guard]
             /\ UNCHANGED <<own, phase, stopped, death>>
  /\ UNCHANGED <<intent, pref, os, quit, active, adopted, ipc, queue,
                 upc, orphans, strays, cancels, escaped,
                 gone, crashes, env>>

(* DNS, engine, plugin, proxy and routes go down; then the cover's fate is *)
(* decided against the target the event left: disarm the guard and leave   *)
(* the rules, or release and, once confirmed, give up the claim.  Dropping *)
(* the guard after a failed release may still take the rules down.         *)
Teardown ==
  /\ job.pc = "teardown"
  /\ \E p \in Presences, ok \in BOOLEAN :
       LET disposition ==
             teardown_cover_disposition(
               job.ev, effective_lockdown_intent(intent, adopted), p, job.tgt)
       IN /\ \/ /\ disposition = "KeepEngaged" /\ Probe(p)
                /\ UNCHANGED <<os, adopted>>
             \/ /\ disposition = "ReleaseNow" /\ Probe(p)
                /\ os' = "Absent" /\ adopted' = FALSE
             \/ /\ disposition = "ReleaseNow" /\ p = os /\ os # "Absent"
                /\ os' \in {os, "Recorded", "Absent"}
                /\ Spend /\ UNCHANGED adopted
          /\ AfterStop(ok)
  /\ death' = (death /\ preserves_death_reason(job.ev))
  /\ active' = None
  /\ stopped' = (stopped \/ (job.kind = "stop" /\ target = Off))
  /\ UNCHANGED <<records, quit, session, ipc, queue, upc, orphans, strays,
                 cancels, escaped, diverged, gone, crashes, env>>

-----------------------------------------------------------------------------
(* A handler's future is dropped at an await: the client hung up, or the   *)
(* server is stopping.  What it owned unwinds; its blocking task, already  *)
(* running, does not.  Nothing takes the start slot back.                  *)

AtAwait ==
  /\ job.kind \in {"start", "reload", "stop", "health"}
  /\ job.pc \in {"resolve", "inner", "dns", "persist", "stop", "teardown"}

DropHandler ==
  /\ DropGuard(AtAwait /\ job.guard /\ job.pc \in {"dns", "teardown"})
  /\ orphans' = orphans \cup ({own} \ {NoTask})
  /\ own' = NoTask
  /\ strays' = IF AtAwait /\ job.pc = "stop" THEN strays \cup {job.ev}
                                             ELSE strays

ClientGone ==
  /\ phase = "serve"
  /\ gone < env.gone /\ gone' = gone + 1
  /\ \/ /\ AtAwait
        /\ DropHandler
        /\ job' = NoJob
        /\ UNCHANGED queue
     \/ /\ \E r \in queue : queue' = queue \ {r}
        /\ UNCHANGED <<os, job, own, orphans, strays>> /\ Free
  /\ UNCHANGED <<records, phase, quit, manager, ipc, upc, history, crashes, env>>

-----------------------------------------------------------------------------
(* The end of a process.                                                   *)

(* SIGTERM, Ctrl+C or an SCM stop; the update marker tells a cutover.      *)
Shutdown(ev) ==
  /\ phase \notin {"down", "exit"} /\ quit = None
  /\ quit' = ev
  /\ UNCHANGED <<records, os, phase, manager, ipc, queue, job, upc, own,
                 orphans, strays, history, budgets>>

(* The server returns, its connections are aborted, and the manager stops. *)
BeginExit ==
  /\ phase = "serve" /\ quit # None
  /\ job = NoJob \/ AtAwait
  /\ DropHandler
  /\ phase' = "exit"
  /\ queue' = {}
  /\ job' = StopJob("exit", quit)
  /\ UNCHANGED <<records, quit, manager, ipc, upc, history, gone, crashes, env>>

ProcessGone ==
  /\ phase' = "down" /\ quit' = None
  /\ session' = None /\ active' = None /\ adopted' = FALSE /\ death' = FALSE
  /\ generation' = 0 /\ slot' = None /\ tok' = FALSE /\ armed' = None
  /\ queue' = {} /\ job' = NoJob /\ upc' = "idle"
  /\ own' = NoTask /\ orphans' = {} /\ strays' = {} /\ cancels' = {}
  /\ UNCHANGED <<records, os, escaped, stopped, diverged,
                 clean, faults, gone, env>>

Exit == phase = "exit" /\ job = NoJob /\ ProcessGone /\ UNCHANGED crashes

Crash ==
  /\ phase # "down"
  /\ crashes < env.crashes /\ crashes' = crashes + 1
  /\ ProcessGone

(* While no bridge runs.  pf rules do not survive the OS; the record of    *)
(* them does.                                                              *)
Reboot ==
  /\ phase = "down"
  /\ Pf /\ os = "Live" /\ os' = "Recorded"
  /\ UNCHANGED <<records, phase, quit, manager, ipc, queue, job, upc, own,
                 orphans, strays, history, budgets>>

(* A record is damaged, or the state directory is wiped.                   *)
Damage ==
  /\ phase = "down"
  /\ Spend
  /\ \/ intent' \in env.reads /\ UNCHANGED <<target, pref>>
     \/ target' = Unreadable /\ UNCHANGED <<intent, pref>>
     \/ /\ target' = Off /\ intent' = "Unset"
        /\ pref' = [on_startup |-> "RestoreLastState", candidate |-> None]
  /\ UNCHANGED <<os, phase, quit, manager, ipc, queue, job, upc, own, orphans,
                 strays, history, gone, crashes, env>>

(* `hole bridge unlock`: refused while a bridge holds the liveness lock.   *)
(* Target, cover, candidate, intent, each only if the one before it went   *)
(* through: done counts the ones that did.                                 *)
unlock ==
  /\ phase = "down"
  /\ \E done \in 1..4 :
       /\ IF done = 4 THEN Free ELSE Spend
       /\ target' = Off
       /\ os' = IF done >= 2 THEN "Absent" ELSE os
       /\ pref' = IF done >= 3 THEN Cleared(pref) ELSE pref
       /\ intent' = IF done >= 4 THEN "Off" ELSE intent
       /\ escaped' = IF done = 4 THEN "yes" ELSE escaped
  /\ UNCHANGED <<phase, quit, manager, ipc, queue, job, upc, own, orphans,
                 strays, cancels, stopped, diverged, gone, crashes, env>>

-----------------------------------------------------------------------------
(* Boot: recover_then_reconcile, before the socket is served.              *)

Boot ==
  /\ phase = "down" /\ phase' = "recover"
  /\ clean' = TRUE /\ stopped' = FALSE
  /\ UNCHANGED <<records, os, quit, manager, ipc, queue, job, upc, own,
                 orphans, strays, cancels, escaped, diverged,
                 faults, gone, crashes, env>>

(* recover_and_record: repair the intent over a live cover, then adopt or  *)
(* sweep; the claim is recorded from the measurement.  A panicked recovery *)
(* leaves the claim false.                                                 *)
RecoverAndRecord ==
  /\ phase = "recover" /\ phase' = "resolve"
  /\ \E p \in Presences :
       LET sweep == decide_cover_recovery(intent, p) = "Sweep"
           repair == record_intent_on(intent, p)
       IN \/ /\ Probe(p)
             /\ intent' = IF repair THEN "On" ELSE intent
             /\ os' = IF sweep THEN "Absent" ELSE os
             /\ adopted' = adopts_live(intent, p)
          \/ /\ p = os /\ (sweep \/ repair) /\ Spend
             /\ os' = os /\ UNCHANGED intent
             /\ adopted' = adopts_live(intent, p)
          \/ /\ p = os /\ Spend
             /\ UNCHANGED <<os, intent>> /\ adopted' = FALSE
  /\ UNCHANGED <<target, pref, quit, session, active, death, ipc, queue, job,
                 upc, own, orphans, strays, history, gone, crashes, env>>

(* reconcile_once, first: the startup preference decides the target, and   *)
(* the decided target is saved before it is used.                          *)
ResolveStartup ==
  /\ phase = "resolve" /\ phase' = "boot"
  /\ \E t \in Targets :
       /\ \/ /\ t = resolve_startup_target(target, pref.on_startup,
                                           pref.candidate)
             /\ target' = apply(target, t) /\ Free
          \/ t \in {target, Unreadable} /\ UNCHANGED target /\ Spend
       /\ job' = NewJob("boot", "decide", None, None, 0, "Blipped", t)
  /\ UNCHANGED <<intent, pref, os, quit, manager, ipc, queue, upc, own,
                 orphans, strays, history, gone, crashes, env>>

(* reconcile_once, then: the two surfaces move in step_order.  Engaging is *)
(* left to the start.                                                      *)
ReconcileOnce ==
  /\ job.pc = "decide"
  /\ \E p \in Presences :
       LET cover == cover_step(effective_lockdown_intent(intent, adopted), p,
                               job.tgt)
           start == tunnel_step(session # None, job.tgt) = "Start"
       IN /\ Probe(p)
          /\ \/ /\ start
                /\ job' = [job EXCEPT !.pc = "resolve", !.cfg = job.tgt,
                                      !.last = CoverGoesLast(cover)]
                /\ UNCHANGED phase
             \/ /\ ~start /\ cover = "Release"
                /\ job' = [job EXCEPT !.pc = "release"]
                /\ UNCHANGED phase
             \/ /\ ~start /\ cover # "Release"
                /\ job' = NoJob /\ phase' = "serve"
  /\ UNCHANGED <<records, os, quit, manager, ipc, queue, upc, own, orphans,
                 strays, history, gone, crashes, env>>

ReleaseStray ==
  /\ job.pc = "release"
  /\ \/ ReleaseOk /\ adopted' = FALSE
     \/ ReleaseErr /\ UNCHANGED adopted
  /\ job' = NoJob /\ phase' = "serve"
  /\ UNCHANGED <<records, quit, session, active, death, ipc, queue, upc, own,
                 orphans, strays, cancels, escaped, stopped, diverged,
                 gone, crashes, env>>

-----------------------------------------------------------------------------
Init ==
  /\ target = Off /\ intent = "Unset"
  /\ pref = [on_startup |-> "RestoreLastState", candidate |-> None]
  /\ os = "Absent"
  /\ phase = "down" /\ quit = None
  /\ session = None /\ active = None /\ adopted = FALSE /\ death = FALSE
  /\ generation = 0 /\ slot = None /\ tok = FALSE /\ armed = None
  /\ queue = {} /\ job = NoJob /\ upc = "idle"
  /\ own = NoTask /\ orphans = {} /\ strays = {}
  /\ cancels = {} /\ escaped = "no" /\ stopped = FALSE
  /\ diverged = FALSE /\ clean = TRUE
  /\ faults = 0 /\ gone = 0 /\ crashes = 0 /\ env \in Environments

(* The steps of the lock holder, of the boot before it, and of the tasks.  *)
JobStep ==
  \/ ResolveServer \/ StartInner \/ InstallLockdown \/ ApplyDns \/ FinishStart
  \/ StopPersist \/ Teardown \/ ReconcileOnce \/ ReleaseStray

BootStep == RecoverAndRecord \/ ResolveStartup

TaskStep == OwnTask \/ OrphanTask \/ StrayEvent

ClientStep ==
  \/ \E id \in env.ids \cup {NoId}, cfg \in env.configs, push \in env.pushes :
       handle_start(id, cfg, push)
  \/ \E cfg \in env.configs : handle_reload(cfg)
  \/ \E id \in env.ids \cup {NoId} : handle_cancel(id)
  \/ handle_stop \/ check_health \/ handle_unblock
  \/ LockdownOn \/ LockdownOff

EnvStep ==
  \/ SessionDies \/ ClientGone \/ Crash \/ Reboot \/ Damage \/ unlock \/ Boot
  \/ \E ev \in env.quits : Shutdown(ev)

Next ==
  \/ ClientStep \/ Acquire \/ JobStep \/ TaskStep \/ UnblockStep \/ BootStep
  \/ BeginExit \/ Exit \/ EnvStep

Spec == Init /\ [][Next]_vars

(* The runtime drives the lock holder and the boot, and the holder's task  *)
(* gets the intent_persist mutex in its turn.                              *)
RuntimeFair ==
  WF_vars(JobStep) /\ WF_vars(BootStep) /\ WF_vars(Exit) /\ SF_vars(OwnTask)

(* The escape, with a lock holder that may hang for ever.  Strong fairness *)
(* is for the one step that competes for the intent_persist mutex.         *)
EscapeSpec ==
  /\ Spec
  /\ SF_vars(UnblockOff) /\ WF_vars(UnblockStep)
  /\ WF_vars(OwnTask) /\ WF_vars(OrphanTask)

-----------------------------------------------------------------------------
(* Properties.                                                             *)

(* Once an unblock (in process, or by `bridge unlock`) has gone through    *)
(* and no start or reload was asked for since, no record reconnects:       *)
(* neither the target nor the candidate AlwaysConnect falls back on holds  *)
(* a config, whatever start, reload, stop, crash or boot was under way.    *)
EscapeSticks ==
  escaped = "yes" => target \notin Configs /\ pref.candidate = None

(* At rest, a session the records did not diverge from (no unblock since,  *)
(* no failed write, no client that hung up) is the one a restart would     *)
(* restore, and its config is the one reload compares with: a start        *)
(* refused as AlreadyRunning has not written its own config over it.       *)
SessionIsRecorded ==
  /\ phase = "serve" /\ job = NoJob /\ own = NoTask
  /\ orphans = {} /\ strays = {} /\ gone = 0
  /\ session # None /\ ~diverged
  => target = session.cfg /\ active = session.cfg

(* A cancel reaches only the attempt it names: the token of the start in   *)
(* the slot is set only by a cancel that named it after it registered, and *)
(* a pending pre-arm only by one that no start of that id has met since.   *)
CancelScoped ==
  /\ tok /\ slot # None => slot \in cancels
  /\ armed # None => armed \in cancels

(* in_flight holds an attempt only while that attempt is in flight: it     *)
(* waits for the proxy lock or holds it.                                   *)
SlotNamesAStart ==
  slot # None => \/ \E r \in queue : r.kind = "start" /\ r.id = slot
                 \/ job.kind = "start"

(* The same of a bridge no client has hung up on: handle_start frees the   *)
(* slot on every path that runs to its end.                                *)
AttendedSlot == gone = 0 /\ phase = "serve" => SlotNamesAStart

(* A Stop that completed is not reverted, unless a client hung up on a     *)
(* start: until the next start or reload gets the lock, the persisted      *)
(* target stays Off, as handle_start waits for its records under the lock. *)
StopWins == stopped /\ phase = "serve" /\ gone = 0 => target = Off

(* The records are the ones the decisions left: an escape and a stop are   *)
(* final, and a session at rest is the one a restart would restore         *)
(* (handle_start, handle_stop, handle_unblock, the reload).                *)
RecordsFollow == EscapeSticks /\ SessionIsRecorded /\ StopWins

(* Attempts are told apart: a cancel reaches the one it names, and the     *)
(* slot names one in flight while no client hung up (StartCancelState).    *)
AttemptsScoped == CancelScoped /\ AttendedSlot

(* While the kill switch is on, by the record or by an adopted cover, no   *)
(* step of the boot or of the lock holder takes a live standing cover      *)
(* down, except for an event that decided Off or a start that fails after  *)
(* it began to install the cover.  A reload and a cutover keep it.  (A     *)
(* dropped handler's unwinding guard is not a step of the holder.)         *)
KillSwitchHolds ==
  [][ /\ os = "Live" /\ os' # "Live"
      /\ phase # "down" /\ gone' = gone /\ ~(phase = "serve" /\ phase' = "exit")
      /\ job' # job \/ phase' # phase
      /\ lockdown_enabled(intent, adopted)
      => /\ job # NoJob
         /\ \/ job.tgt = Off \/ job.ev = "UserStopped"
            \/ job.pc \in {"cover", "dns"} ]_vars

(* A boot without faults leaves the host as the records say: open when the *)
(* target is Off or the kill switch is off, covered when a TUN session is  *)
(* up and the kill switch is on.                                           *)
BootSettles ==
  [][ phase = "boot" /\ phase' = "serve" /\ clean'
      => /\ target' = Off \/ intent' = "Off" => os' = "Absent"
         /\ session' # None /\ intent' = "On" =>
              session'.cfg \in SocksOnly \/ os' = "Live" ]_vars

(* A start whose routes went in goes on to a standing cover only if the    *)
(* kill switch is not Off by then: an unblock that committed during the    *)
(* plugin, proxy and route work is not followed by a new block             *)
(* (start_inner's second read of the intent; an unblock between that read  *)
(* and the install is, and the code says so).                              *)
UnblockHeeded ==
  [][ job.pc = "inner" /\ job'.pc = "cover" /\ job'.expect
      => intent # "Off" ]_vars

(* The standing cover follows the kill switch: in every step of the lock   *)
(* holder, at the end of every boot without faults, and past an unblock    *)
(* during a start (start_cancellable, reconcile_once, start_inner).        *)
CoverFollows == KillSwitchHolds /\ BootSettles /\ UnblockHeeded

(* reconcile_once: the standing cover "still holds on failure" of a boot   *)
(* auto-connect under an armed kill switch.                                *)
BootFailureHolds ==
  [][ /\ phase = "boot" /\ job # NoJob /\ job.tgt \in Configs
      /\ os = "Live" /\ intent = "On"
      /\ session' = None
      => os' = "Live" ]_vars

(* The escape needs no proxy lock: once the covers are released its writes *)
(* come to an end even if the lock holder never lets go.                   *)
UnblockCompletes == upc # "idle" ~> upc = "idle"

(* Boot, shutdown and every job under the lock come to an end, given that  *)
(* the runtime drives them.                                                *)
Settles ==
  RuntimeFair =>
  ((job # NoJob \/ phase \notin {"down", "serve"})
     ~> (job = NoJob /\ phase \in {"down", "serve"}))
=============================================================================
