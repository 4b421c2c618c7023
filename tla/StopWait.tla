---- MODULE StopWait ----
(***************************************************************************)
(* The stop wait of the Windows service, `settle_stopped`: bring the       *)
(* service to STOPPED and wait until no process that carries its SID is    *)
(* left. It works against two parties it cannot lock out: the SCM, which   *)
(* may start the service again, names its process by an id that may be     *)
(* stale in the pending states, and notifies only of states a service      *)
(* enters; and the host, whose process ids are reused once no handle pins  *)
(* them. A service that is not there any more is waited out the same way   *)
(* (`wait_out_survivors`).                                                 *)
(*                                                                         *)
(* An instance is one process over its life: its number stands for its     *)
(* creation time, its pid may be that of an earlier one.                   *)
(***************************************************************************)
EXTENDS Naturals, FiniteSets

CONSTANTS
    Instances,  \* the processes that may come to life
    Pids,       \* process ids; 0 is none
    MaxStarts   \* starts the SCM still has queued or allows

ASSUME StopWaitAssumption ==
    /\ IsFiniteSet(Instances) /\ Instances \subseteq Nat \ {0} /\ 1 \in Instances
    /\ Pids \subseteq Nat \ {0} /\ 1 \in Pids
    /\ MaxStarts \in Nat

VARIABLES
    proc,       \* each instance: whose it is, its pid, its life
    scmState,   \* what the SCM says: the state and the id it reports
    own,        \* the instance behind it; 0 is none
    marked,     \* the service is marked for deletion
    w,          \* the wait: where it is, and where a look returns to
    reading,    \* the reading a look acts on
    candidate,  \* the process it opened
    look,       \* the state the last look read
    holds,      \* ProcessHolds.held: the origin of each held instance
    vanished,   \* ProcessHolds.vanished
    scanning,   \* the scan in progress: listed, still to probe, found
    armed,      \* the notification: the state it excludes, and if it fired
    unlisted,   \* instances started since the last listing
    unread      \* instances the last scan could not read
stopVars == <<proc, scmState, own, marked, w, reading, candidate, look,
              holds, vanished, scanning, armed, unlisted,
              unread>>
hostVars == <<proc, scmState, own, marked, unlisted>>
waitVars == <<w, reading, candidate, look, holds, vanished, scanning, armed,
              unread>>

-----------------------------------------------------------------------------
Alive(i) == proc[i].life = "alive"
IsService(i) == proc[i].whose = "service"

\* What a hold keeps: the handle pins the id of its process.
Pinned == DOMAIN holds \cup (IF candidate = 0 THEN {} ELSE {candidate})

\* The SCM's own starts of the service since the wait began.
Starts == Cardinality({i \in Instances : IsService(i) /\ proc[i].parent = 0}) - 1

\* The ids no live and no held process has.
FreePids == {p \in Pids : \A i \in Instances :
                             proc[i].pid = p => ~Alive(i) /\ i \notin Pinned}

\* Observed::reported_pid: what the id is worth in a state.
ReportedPid(st) ==
    CASE st = "Running" -> "Valid"
      [] st \in {"StartPending", "StopPending"} -> "MayBeInvalid"
      [] st = "Stopped" -> "Never"

\* Reading::process_to_hold; 0 is None.
ProcessToHold(r) == IF ReportedPid(r.st) # "Never" THEN r.pid ELSE 0

NoReading == [st |-> "Stopped", pid |-> 0, named |-> "Nothing"]
NoScan == [left |-> {}, found |-> "Nothing", gone |-> {}]
NotArmed == [from |-> "none", fired |-> FALSE]

\* The wait starts on a service that runs, starts, stops, or has stopped
\* with its process still there; the service may be marked for deletion,
\* by another tool's sc.exe delete, or be gone already.
StopWaitInit ==
    /\ proc = [i \in Instances |->
                 IF i = 1 THEN [whose |-> "service", pid |-> 1, life |-> "alive", parent |-> 0]
                 ELSE [whose |-> "nobody", pid |-> 0, life |-> "unborn", parent |-> 0]]
    /\ \E st \in {"Running", "StartPending", "StopPending", "Stopped"} :
         scmState = [st |-> st, pid |-> 1] /\ own = (IF st = "Stopped" THEN 0 ELSE 1)
    /\ marked \in BOOLEAN
    /\ w = [pc |-> "idle", to |-> "loop"]
    /\ reading = NoReading /\ candidate = 0 /\ look = "Stopped"
    /\ holds = <<>> /\ vanished = {} /\ scanning = NoScan /\ armed = NotArmed
    /\ unlisted = {} /\ unread = {}

-----------------------------------------------------------------------------
(* The host and the SCM.                                                   *)

\* A process comes to life under any id no live or held process has. A
\* foreign one matters here when it gets an id the service had.
Born(i, whose, p, parent) ==
    /\ proc[i].life = "unborn" /\ \A j \in Instances : j < i => proc[j].life # "unborn"
    /\ p \in FreePids
    /\ proc' = [proc EXCEPT ![i] = [whose |-> whose, pid |-> p, life |-> "alive",
                                      parent |-> parent]]

ForeignBorn ==
    /\ \E i \in Instances, p \in {proc[j].pid : j \in {j \in Instances : IsService(j)}} :
         Born(i, "other", p, 0)
    /\ UNCHANGED <<scmState, own, marked, unlisted, waitVars>>

\* The bridge starts a plugin, which inherits its token.
PluginBorn ==
    /\ own # 0 /\ Alive(own)
    /\ \E i \in Instances, p \in Pids : Born(i, "service", p, own)
    /\ UNCHANGED <<scmState, own, marked, unlisted, waitVars>>

\* NotifyServiceStatusChange fires when the service enters a state it was
\* armed for.
Enters(st) ==
    armed' = IF armed.from \notin {"none", st} THEN [armed EXCEPT !.fired = TRUE]
             ELSE armed

\* The id reported while the start is pending may be the one of before.
ScmStarts ==
    /\ scmState.st = "Stopped" /\ Starts < MaxStarts /\ ~marked
    /\ \E i \in Instances, p \in Pids :
         /\ Born(i, "service", p, 0)
         /\ own' = i /\ unlisted' = unlisted \cup {i}
         /\ scmState' \in {[st |-> "StartPending", pid |-> q] : q \in {p, scmState.pid}}
    /\ Enters("StartPending")
    /\ UNCHANGED <<marked, w, reading, candidate, look, holds, vanished, scanning,
                   unread>>

ScmRuns ==
    /\ scmState.st = "StartPending" /\ Alive(own)
    /\ scmState' = [st |-> "Running", pid |-> proc[own].pid]
    /\ Enters("Running")
    /\ UNCHANGED <<proc, own, marked, unlisted, w, reading, candidate,
                   look, holds, vanished, scanning, unread>>

\* A service stops by its own account, or fails to start; its process may
\* outlive the state. A running one is only stopped by its death here.
ScmStopped ==
    /\ \/ scmState.st \in {"StartPending", "StopPending"}
       \/ scmState.st = "Running" /\ ~Alive(own)
    /\ scmState' = [scmState EXCEPT !.st = "Stopped"] /\ own' = 0
    /\ Enters("Stopped")
    /\ UNCHANGED <<proc, marked, unlisted, w, reading, candidate, look,
                   holds, vanished, scanning, unread>>

ProcessExits ==
    /\ \E i \in Instances : Alive(i) /\ proc' = [proc EXCEPT ![i].life = "exited"]
    /\ UNCHANGED <<scmState, own, marked, unlisted, waitVars>>

-----------------------------------------------------------------------------
(* hold_current: read, open the named process, read again.                 *)
At(p) == w.pc = p
Goto(p) == w' = [w EXCEPT !.pc = p]
LookThen(to) == w' = [pc |-> "read", to |-> to]

\* The session is opened over the service, or finds that it is not there
\* any more (RetireSession::open_named).
Begin ==
    /\ At("idle")
    /\ \/ LookThen("loop")
       \/ w' = [pc |-> "list", to |-> "gone"] /\ marked /\ scmState.st = "Stopped"
    /\ UNCHANGED <<hostVars, reading, candidate, look, holds, vanished, scanning,
                   armed, unread>>

\* Origin::after_claim: only an id that is valid settles whose it is.
AfterClaim(origin, st) ==
    IF ReportedPid(st) = "Valid" THEN "Named" ELSE origin

HeldUnder(p) == {i \in DOMAIN holds : proc[i].pid = p}

\* ProcessHolds::held once it has one more.
HeldWith(i, origin) ==
    [j \in DOMAIN holds \cup {i} |-> IF j = i THEN origin ELSE holds[j]]

\* The top of hold_current's loop, on a reading just taken.
Consider(r) ==
    LET p == ProcessToHold(r)
        With(named) == reading' = [st |-> r.st, pid |-> p, named |-> named]
    IN /\ candidate' = 0
       /\ \/ p = 0 /\ Goto("fate") /\ With("Nothing") /\ UNCHANGED holds
          \/ p # 0 /\ HeldUnder(p) # {} /\ Goto("fate") /\ With("Held")
             /\ holds' = [i \in DOMAIN holds |->
                            IF proc[i].pid = p THEN AfterClaim(holds[i], r.st) ELSE holds[i]]
          \/ p # 0 /\ HeldUnder(p) = {} /\ Goto("open") /\ With("Nothing")
             /\ UNCHANGED holds

ReadService ==
    /\ At("read") /\ Consider(scmState)
    /\ UNCHANGED <<hostVars, look, vanished, scanning, armed, unread>>

MutOpens(i) == TRUE

\* open_process_where and opened_from_token_read: only a token with the
\* service's SID makes the process one of ours.
Opens(i) == IsService(i)

\* Basis::verdict on a refused open: an id that may be invalid and that
\* access is denied to is not ours; else the wait fails.
OpenNamed ==
    /\ At("open")
    /\ LET here == {i \in Instances : Alive(i) /\ proc[i].pid = reading.pid} IN
       \/ /\ here = {} /\ Goto("fate") /\ candidate' = 0
          /\ reading' = [reading EXCEPT !.named = "NoSuchProcess"]
       \/ /\ \E i \in here : candidate' = IF Opens(i) THEN i ELSE 0
          /\ Goto("confirm") /\ UNCHANGED reading
       \/ /\ here # {} /\ ReportedPid(reading.st) = "MayBeInvalid"
          /\ Goto("confirm") /\ candidate' = 0 /\ UNCHANGED reading
       \/ here # {} /\ Goto("failed") /\ candidate' = 0 /\ UNCHANGED reading
    /\ UNCHANGED <<hostVars, look, holds, vanished, scanning, armed, unread>>

\* Origin::first_held_on and after_claim, on both readings.
ClaimOf(first, again) ==
    IF "Valid" \in {ReportedPid(first), ReportedPid(again)} THEN "Named" ELSE "Claimed"

ConfirmNamed ==
    /\ At("confirm")
    /\ \/ ProcessToHold(scmState) # reading.pid /\ Consider(scmState)
       \/ /\ ProcessToHold(scmState) = reading.pid
          /\ reading' = [st |-> scmState.st, pid |-> reading.pid,
                         named |-> IF candidate = 0 THEN "NotTheService" ELSE "Held"]
          /\ candidate' = 0 /\ Goto("fate")
          /\ holds' = IF candidate = 0 THEN holds
                      ELSE HeldWith(candidate, ClaimOf(reading.st, scmState.st))
    /\ UNCHANGED <<hostVars, look, vanished, scanning, armed, unread>>

\* Named::fate and ProcessHolds::any_alive. An id that names no process, or
\* an exited one, tells of an exit only in a state where the id is valid.
Fate ==
    LET gone == IF ReportedPid(reading.st) = "Valid" THEN "Exited" ELSE "Unheld" IN
    CASE reading.named = "Held" ->
           IF \E i \in HeldUnder(reading.pid) : Alive(i) THEN "Alive" ELSE gone
      [] reading.named = "NoSuchProcess" -> gone
      [] reading.named \in {"Nothing", "NotTheService"} -> "Unheld"

HeldAlive == \E i \in DOMAIN holds : Alive(i)

\* Look::settle_step.
SettleStep(l) ==
    CASE l.st = "Running" -> IF l.fate = "Exited" THEN "AwaitChange" ELSE "SendStop"
      [] l.st \in {"StartPending", "StopPending"} -> "AwaitChange"
      [] l.st = "Stopped" -> IF l.alive THEN "AwaitHeldExit" ELSE "Quiescent"

\* Look::exit_wait: orphans are terminated only when the SCM says STOPPED.
ExitWait(l) == IF l.st = "Stopped" THEN "terminate" ELSE "onTheirOwn"

\* settle_stopped's dispatch on a look.
Dispatch(l) ==
    CASE SettleStep(l) = "Quiescent" -> [pc |-> "list", to |-> "rescan"]
      [] SettleStep(l) = "SendStop" ->
           IF l.fate = "Alive" THEN [pc |-> "stop", to |-> "held"]
           ELSE [pc |-> "arm", to |-> "stop"]
      [] SettleStep(l) = "AwaitHeldExit" -> [pc |-> "terminate", to |-> "loop"]
      [] SettleStep(l) = "AwaitChange" -> [pc |-> "arm", to |-> "change"]

\* Look::shows_its_processes_gone.
ShowsGone(l) == l.fate = "Exited" \/ (l.fate = "Unheld" /\ l.ever)

MutEndsTheWait(found) == found # "Alive"

\* ScanFinding::ends_the_wait.
EndsTheWait(found) == found = "Nothing"

MutConfirmedWait(l) == TRUE

\* Settle::await_change sleeps only if the look after the arm asks for the
\* same wait; without_arm's decisions are those after its scan.
ConfirmedWait(l) == SettleStep(l) = "AwaitChange" /\ l.st = armed.from

Looked(l) ==
    CASE w.to = "loop" -> Dispatch(l)
      [] w.to = "rescan" ->
           IF EndsTheWait(scanning.found) /\ SettleStep(l) = "Quiescent"
           THEN [pc |-> "settled", to |-> "loop"] ELSE Dispatch(l)
      [] w.to = "refusedStop" ->
           IF SettleStep(l) = "SendStop" THEN [pc |-> "failed", to |-> "loop"]
           ELSE Dispatch(l)
      [] w.to = "change" ->
           IF ConfirmedWait(l) THEN [pc |-> "sleep", to |-> "loop"] ELSE Dispatch(l)
      [] w.to = "noArm" ->
           IF l.alive THEN [pc |-> ExitWait(l), to |-> "loop"]
           ELSE IF SettleStep(l) = "Quiescent" \/ ~EndsTheWait(scanning.found)
                THEN Dispatch(l)
           ELSE IF ShowsGone(l) THEN [pc |-> "settled", to |-> "loop"]
           ELSE [pc |-> ExitWait(l), to |-> "loop"]

TakeFate ==
    /\ At("fate")
    /\ LET l == [st |-> reading.st, fate |-> Fate, alive |-> HeldAlive,
                 ever |-> DOMAIN holds # {}]
       IN /\ w' = Looked(l)
          /\ look' = IF Looked(l).pc = "arm" THEN l.st ELSE "Stopped"
          /\ armed' = IF Looked(l).pc = "sleep" THEN armed ELSE NotArmed
    /\ reading' = NoReading /\ scanning' = NoScan
    /\ UNCHANGED <<hostVars, candidate, holds, vanished, unread>>

-----------------------------------------------------------------------------
(* The waits.                                                              *)

\* arm_leaving: the notification fires at once when the service is already
\* in another state. A service marked for deletion refuses it, and is not
\* asked again; any other refusal fails the wait. The registration is
\* replaced, and the old one left to its callback.
Arm ==
    /\ At("arm")
    /\ \/ /\ ~marked
          /\ armed' = [from |-> look, fired |-> scmState.st # look]
          /\ w' = IF w.to = "stop" THEN [pc |-> "stop", to |-> "armed"]
                  ELSE [pc |-> "read", to |-> "change"]
       \/ /\ marked /\ UNCHANGED armed
          /\ w' = IF w.to = "stop" THEN [pc |-> "stop", to |-> "unarmed"]
                  ELSE [pc |-> "list", to |-> "noArm"]
       \/ ~marked /\ Goto("failed") /\ UNCHANGED armed
    /\ look' = "Stopped"
    /\ UNCHANGED <<hostVars, reading, candidate, holds, vanished, scanning, unread>>

\* Settle::stop after the arm: the control, which only a running service
\* takes, and the wait for what it does.
AfterStop ==
    CASE w.to = "held" -> [pc |-> "onTheirOwn", to |-> "loop"]
      [] w.to = "armed" -> [pc |-> "sleep", to |-> "loop"]
      [] w.to = "unarmed" -> [pc |-> "list", to |-> "noArm"]

ControlStop ==
    /\ At("stop")
    /\ \/ /\ scmState.st = "Running" /\ Alive(own)
          /\ scmState' = [scmState EXCEPT !.st = "StopPending"]
          /\ Enters("StopPending") /\ w' = AfterStop
       \/ LookThen("refusedStop") /\ UNCHANGED <<scmState, armed>>
    /\ UNCHANGED <<proc, own, marked, unlisted, reading, candidate, look,
                   holds, vanished, scanning, unread>>

\* await_callback: SleepEx until the callback has run.
Sleep ==
    /\ At("sleep") /\ armed.fired
    /\ armed' = NotArmed /\ LookThen("loop")
    /\ UNCHANGED <<hostVars, reading, candidate, look, holds, vanished, scanning,
                   unread>>

\* ProcessHolds::orphans, Origin::is_terminated_at_stopped.
Orphans == {i \in DOMAIN holds : holds[i] \in {"Claimed", "Scanned"}}

\* terminate_live: each orphan that has not exited; a refusal fails the
\* wait. Then the wait for every held process, without a bound.
TerminateOrphans ==
    /\ At("terminate")
    /\ LET left == {i \in Orphans : Alive(i)} IN
       \/ /\ proc' = [i \in Instances |->
                        IF i \in left THEN [proc[i] EXCEPT !.life = "exited"] ELSE proc[i]]
          /\ Goto("exits")
       \/ left # {} /\ Goto("failed") /\ UNCHANGED proc
    /\ UNCHANGED <<scmState, own, marked, unlisted, reading, candidate,
                   look, holds, vanished, scanning, armed, unread>>

\* wait_on_each; on their own, it returns after SCM_REQUERY_MILLIS too.
ExitsSeen ==
    /\ \/ At("exits") /\ ~HeldAlive
       \/ At("onTheirOwn")
    /\ IF w.to = "gone" THEN w' = [pc |-> "list", to |-> "gone"] ELSE LookThen("loop")
    /\ UNCHANGED <<hostVars, reading, candidate, look, holds, vanished, scanning,
                   armed, unread>>

-----------------------------------------------------------------------------
(* hold_scanned: every process of the host is listed, then each is probed. *)
(* One that has exited stays listed as long as a handle to it is open.     *)
List ==
    /\ At("list") /\ Goto("probe")
    /\ scanning' = [NoScan EXCEPT
         !.left = {i \in Instances : Alive(i) \/ i \in DOMAIN holds}]
    /\ unlisted' = {} /\ unread' = {}
    /\ UNCHANGED <<proc, scmState, own, marked, reading, candidate, look,
                   holds, vanished, armed>>

\* scan and gone_at_probe: an instance found gone counts as vanished unless
\* it was gone at the last scan too. The creation time tells it from
\* another process under its id.
NewlyGone(i) == i \notin vanished

Probe ==
    /\ At("probe") /\ scanning.left # {}
    /\ \E i \in scanning.left :
         LET rest == [scanning EXCEPT !.left = @ \ {i}] IN
         \/ /\ ~Alive(i)
            /\ scanning' = [rest EXCEPT !.gone = @ \cup {i},
                              !.found = IF @ = "Nothing" /\ NewlyGone(i) THEN "Vanished"
                                        ELSE @]
            /\ UNCHANGED <<holds, unread>>
         \/ Alive(i) /\ ~Opens(i) /\ scanning' = rest /\ UNCHANGED <<holds, unread>>
         \/ /\ Alive(i) /\ Opens(i)
            /\ scanning' = [rest EXCEPT !.found = "Alive"]
            /\ holds' = IF i \in DOMAIN holds THEN holds ELSE HeldWith(i, "Scanned")
            /\ UNCHANGED unread
         \/ /\ Alive(i) /\ scanning' = rest
            /\ unread' = unread \cup {i} /\ UNCHANGED holds
    /\ UNCHANGED <<hostVars, w, reading, candidate, look, vanished, armed>>

\* The end of a scan: a look follows, or, for a service that is gone, the
\* end or the wait for what was found.
Scanned ==
    /\ At("probe") /\ scanning.left = {}
    /\ vanished' = scanning.gone
    /\ w' = IF w.to # "gone" THEN [w EXCEPT !.pc = "read"]
            ELSE [w EXCEPT !.pc = IF EndsTheWait(scanning.found) THEN "settled"
                                  ELSE "terminate"]
    /\ UNCHANGED <<hostVars, reading, candidate, look, holds, scanning, armed,
                   unread>>

-----------------------------------------------------------------------------
Waits == \/ ReadService \/ OpenNamed \/ ConfirmNamed \/ TakeFate \/ Arm
         \/ ControlStop \/ Sleep \/ TerminateOrphans \/ ExitsSeen
         \/ List \/ Probe \/ Scanned

StopWaitNext ==
    \/ ForeignBorn \/ PluginBorn \/ ScmStarts \/ ScmRuns \/ ScmStopped \/ ProcessExits
    \/ Begin
    \/ ReadService \/ OpenNamed \/ ConfirmNamed \/ TakeFate \/ Arm
    \/ ControlStop \/ Sleep \/ TerminateOrphans \/ ExitsSeen
    \/ List \/ Probe \/ Scanned

StopWaitSpec == StopWaitInit /\ [][StopWaitNext]_stopVars

\* The SCM leaves its pending states and notices a dead service, and a
\* process whose service is not running ends by its own account.
ScmMoves == ScmStopped
StoppedExits ==
    /\ \E i \in Instances : /\ Alive(i) /\ IsService(i)
                            /\ ~(own = i /\ scmState.st = "Running")
                            /\ proc' = [proc EXCEPT ![i].life = "exited"]
    /\ UNCHANGED <<scmState, own, marked, unlisted, waitVars>>

-----------------------------------------------------------------------------
\* A stop wait that returns Ok leaves no process of the service behind,
\* plugins included: any that lives was started by the SCM after the last
\* scan listed the host's processes, or could not be read by it, or is a
\* child of such a one. Restarts, reused ids, a bridge that starts a plugin
\* and exits between the listing and its probe, and a service marked for
\* deletion included (settle_stopped, wait_out_survivors).
SettledMeansDown ==
    At("settled") =>
        \A i \in Instances :
            Alive(i) /\ IsService(i) => {i, proc[i].parent} \cap (unlisted \cup unread) # {}

\* Only an orphan is terminated: never a process that does not carry the
\* service's SID, whatever id it got, and never the process of an instance
\* the SCM is starting or running at that moment (terminate_live).
KillsOnlyOrphans ==
    [][At("terminate") =>
         \A i \in Instances :
            Alive(i) /\ proc'[i].life = "exited" /\ w' # w =>
                IsService(i) /\ ~(own = i /\ scmState.st \in {"StartPending", "Running"})]_stopVars

\* A stop wait takes down the service's processes, all of them and no others
\* (settle_stopped, terminate_live).
StopWaitTrue == KillsOnlyOrphans /\ [][SettledMeansDown']_stopVars

\* The stop wait ends: it never sleeps through the change it waits for, and
\* never scans again and again for the same exited process, provided the
\* SCM leaves its pending states and stopped processes exit
\* (Settle::await_change, Settle::stop, ProcessHolds::hold_scanned).
StopWaitEnds == (At("read") \/ At("list")) ~> (At("settled") \/ At("failed"))
====
