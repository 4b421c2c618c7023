------------------------------- MODULE Service -------------------------------
(***************************************************************************)
(* The HoleBridge service's registration on Windows: its start type, its   *)
(* failure actions, the record that tells Hole's own Disable from an       *)
(* administrator's, the change mark, and the elevated processes that       *)
(* change them under the start-type lock, one SCM or registry call at a    *)
(* time: the uninstall, the install, the enable, and the retirement that   *)
(* an update's cutover child begins with.  Any of them may be killed       *)
(* between two calls, and any call may fail.                               *)
(*                                                                         *)
(* The retirement is in here whole; what a cutover child does beside it    *)
(* is Cutover's.  The registry key of the service and its SCM entry are    *)
(* one record, svc; a deleted entry stays, going, while the GUI's status   *)
(* read or a change has it open.  An administrator's Disable takes no      *)
(* lock.  The start types a service of its own process never has (Other)   *)
(* are left out.                                                           *)
(***************************************************************************)
EXTENDS Naturals, FiniteSets

CONSTANTS Changers,      \* the elevated processes, 1 .. k
          Environments   \* the ones to consider, see MCCutover

VARIABLES env,      \* one of Environments
          svc,      \* the service's entry and key
          lock,     \* the start-type lock: who holds it, or Nobody
          proc,     \* the elevated processes
          bridge,   \* the service's process: instance n, and where it is
          disabler, \* history: who a Disabled start type is owed to
          reader,   \* the GUI's status read
          used      \* what has happened of what the environment bounds, and
                    \* history: what became of an administrator's choice

serviceVars == <<env, svc, lock, proc, bridge, disabler, reader, used>>

Nobody == 0
NoMark == [n |-> 0, by |-> Nobody, busy |-> FALSE]
StartTypes == {"Auto", "Demand", "Disabled"}
Unused == [op |-> "none", pc |-> "idle", phase |-> "none", observed |-> "Auto",
           ours |-> FALSE, made |-> FALSE, ok |-> TRUE, want |-> "Auto", image |-> 1]

Live(c) == c # Nobody /\ proc[c].pc \notin {"idle", "done", "dead"}
BridgeLives == bridge.st \in {"starting", "running", "serving"}
Go(c, pc) == proc' = [proc EXCEPT ![c].pc = pc]
\* A process that is over keeps nothing but what it was.
Over(c, pc) == [Unused EXCEPT !.op = proc[c].op, !.pc = pc]

NoFault == used' = used
Fault == used.faults < env.faults /\ used' = [used EXCEPT !.faults = @ + 1]

\* Whether the start type now written is Disabled on someone's account: a
\* write by Hole takes the Disable over only from nobody.
Owed(start) == IF start = "Disabled"
                 THEN (IF disabler = "none" THEN "hole" ELSE disabler)
                 ELSE (IF disabler = "admin" THEN "admin" ELSE "none")

-----------------------------------------------------------------------------
(* The lock and the change mark.                                           *)

Marked(c, busy) ==
  IF svc.registered THEN [svc EXCEPT !.mark = [n |-> @.n + 1, by |-> c, busy |-> busy]] ELSE svc

Begin(c, op) ==
  /\ proc[c].pc = "idle" /\ op \in env.ops
  /\ \A d \in Changers : d < c => proc[d].pc # "idle"
  /\ proc' = [proc EXCEPT ![c].pc = "lock", ![c].op = op]
  /\ UNCHANGED <<env, svc, lock, bridge, disabler, reader, used>>

\* The lock is waited for without a bound; a holder that died has let it go.
Acquire(c) ==
  /\ proc[c].pc = "lock" /\ lock = Nobody
  /\ lock' = c
  /\ svc' = Marked(c, TRUE)
  /\ proc' = [proc EXCEPT ![c].phase = "stop",
                          ![c].pc = CASE proc[c].op = "uninstall" -> "harden"
                                      [] proc[c].op = "install" -> "inspect"
                                      [] proc[c].op = "enable" -> "stamp"]
  /\ UNCHANGED <<env, bridge, disabler, reader, used>>

\* No entry is left whose start type anyone could be owed.
NoEntry(c) == lock = c /\ (svc.registered => svc.going)

\* The start type to register lives in the reinstall alone: one that ends
\* between its deregistration and its registration takes the choice with it.
ChoiceAfter(c) == IF NoEntry(c) /\ proc[c].op = "install" /\ used.choice = "stands"
                    THEN "forgotten" ELSE used.choice

\* Dropping the hold marks the change ended, then lets the lock go.
Release(c) ==
  /\ proc[c].pc = "end"
  /\ proc' = [proc EXCEPT ![c] = Over(c, "done")]
  /\ lock' = IF lock = c THEN Nobody ELSE lock
  /\ svc' = IF lock = c THEN Marked(c, FALSE) ELSE svc
  /\ disabler' = IF NoEntry(c) THEN "none" ELSE disabler
  /\ used' = [used EXCEPT !.choice = ChoiceAfter(c)]
  /\ UNCHANGED <<env, bridge, reader>>

-----------------------------------------------------------------------------
(* What was found, and what it calls for.                                  *)

RepairStep(record, start) ==
  CASE record /\ start = "Disabled" -> "ResetThenClear"
    [] record /\ start # "Disabled" -> "ClearRecordOnly"
    [] ~record /\ start = "Disabled" -> "LeaveDisabled"
    [] OTHER -> "Nothing"

DisabledBy(step) ==
  CASE step = "ResetThenClear" -> "interrupted"
    [] step = "LeaveDisabled" -> "elsewhere"
    [] OTHER -> "none"

Recorded == svc.record # Nobody
Found == RepairStep(Recorded, svc.start)

Ours(start, record) == ~ (start = "Disabled" /\ ~record)
\* Mutant: whose the Disable is is not asked.
MutRestoredAlways(p) == IF p.observed = "Disabled" THEN "Auto" ELSE p.observed

Restored(p) == IF p.ours /\ p.observed = "Disabled" THEN "Auto" ELSE p.observed

\* Where a process goes when its retirement is over.  An uninstall deletes only
\* what it stopped, and an install goes on whatever became of the stop and the
\* delete.
AfterRetire(p, ok) ==
  CASE p.op = "uninstall" /\ p.phase = "stop" /\ ok -> "next"
    [] p.op = "install" /\ p.phase = "stop" -> "next"
    [] p.op = "install" /\ p.phase = "delete" -> "register"
    [] p.op = "cutover" /\ ok -> "repair"
    [] p.op = "cutover" /\ ~ok -> "clearing"
    [] OTHER -> "end"

\* is_installed stands between the stop and the deregistration.
RetiredAs(c, ok) ==
  LET next == AfterRetire(proc[c], ok) IN
  [proc[c] EXCEPT !.phase = IF next = "next" THEN "delete" ELSE @,
                  !.pc = IF next # "next" THEN next
                         ELSE IF svc.registered THEN "harden" ELSE
                              AfterRetire([proc[c] EXCEPT !.phase = "delete"], ok)]

Retired(c, ok) == proc' = [proc EXCEPT ![c] = RetiredAs(c, ok)]

NoService == [registered |-> FALSE, going |-> FALSE, start |-> "Auto", restart |-> FALSE,
              record |-> Nobody, mark |-> NoMark]

\* Where a change has the entry open: a deleted entry goes, and its key with
\* the record and the mark, when the last one that has it open closes it.
Opened == {"record", "disable", "quiet", "settle", "away", "movein", "delete", "unkey",
           "restore", "back", "unrecord", "enable"}
Closed(s) == IF s.going /\ reader.pc = "idle" THEN NoService ELSE s

-----------------------------------------------------------------------------
(* The retirement: harden, settle, then delete or restore.                 *)

\* The processes with the service's token that outlive it, found by a scan.
Orphans(c) == {d \in Changers \ {c} : Live(d) /\ proc[d].op = "cutover"}

\* An entry that is not there leaves the processes that outlived it to be
\* waited out; a cutover finds no service to stop, which is its failure.
OpenAbsent(c) ==
  /\ proc[c].pc = "harden" /\ ~svc.registered
  /\ \/ proc[c].op = "cutover" /\ Retired(c, FALSE)
     \/ /\ proc[c].op # "cutover" /\ ~BridgeLives
        /\ Orphans(c) = {}
        /\ Retired(c, TRUE)
  /\ UNCHANGED <<env, svc, lock, bridge, disabler, reader, used>>

\* An entry marked for deletion answers so here or at the write of the start
\* type, and is then only stopped, through the open handle.
HardenReads(c) ==
  /\ proc[c].pc = "harden" /\ svc.registered
  /\ \/ svc.going /\ NoFault /\ Go(c, "settle") /\ UNCHANGED svc
     \/ /\ NoFault /\ UNCHANGED svc
        /\ LET ours == Ours(svc.start, Recorded) IN
           proc' = [proc EXCEPT ![c].observed = svc.start, ![c].ours = ours,
                                ![c].made = ours /\ ~Recorded,
                                ![c].pc = IF ours THEN "record" ELSE "disable"]
     \/ Fault /\ Retired(c, FALSE) /\ svc' = Closed(svc)
  /\ UNCHANGED <<env, lock, bridge, disabler, reader>>

\* Mutant: a record that could not be written is a warning.
MutHardenRecords(c) ==
  /\ proc[c].pc = "record"
  /\ \/ NoFault /\ svc' = [svc EXCEPT !.record = c]
     \/ Fault /\ UNCHANGED svc
  /\ Go(c, "disable")
  /\ UNCHANGED <<env, lock, bridge, disabler, reader>>

HardenRecords(c) ==
  /\ proc[c].pc = "record"
  /\ \/ NoFault /\ svc' = [svc EXCEPT !.record = c] /\ Go(c, "disable")
     \/ Fault /\ svc' = Closed(svc) /\ Retired(c, FALSE)
  /\ UNCHANGED <<env, lock, bridge, disabler, reader>>

\* A record made over none is cleared again, best effort.
Unrecorded(c) == {svc, [svc EXCEPT !.record = IF proc[c].made THEN Nobody ELSE @]}

\* Mutant: a start type that could not be written is a warning.
MutHardenDisables(c) ==
  /\ proc[c].pc = "disable"
  /\ \/ NoFault /\ svc' = [svc EXCEPT !.start = "Disabled"] /\ disabler' = Owed("Disabled")
     \/ Fault /\ UNCHANGED <<svc, disabler>>
  /\ Go(c, "quiet")
  /\ UNCHANGED <<env, lock, bridge, reader>>

HardenDisables(c) ==
  /\ proc[c].pc = "disable"
  /\ \/ /\ ~svc.going /\ NoFault
        /\ svc' = [svc EXCEPT !.start = "Disabled"]
        /\ disabler' = Owed("Disabled")
        /\ Go(c, "quiet")
     \/ /\ svc.going /\ NoFault
        /\ svc' \in Unrecorded(c)
        /\ Go(c, "settle")
        /\ UNCHANGED disabler
     \/ /\ Fault
        /\ svc' \in {Closed(s) : s \in Unrecorded(c)}
        /\ Retired(c, FALSE)
        /\ UNCHANGED disabler
  /\ UNCHANGED <<env, lock, bridge, reader>>

\* Turning restart-on-failure off may fail: the Disabled start type is what binds.
HardenQuiets(c) ==
  /\ proc[c].pc = "quiet"
  /\ \/ NoFault /\ svc' = [svc EXCEPT !.restart = FALSE]
     \/ Fault /\ UNCHANGED svc
  /\ Go(c, "settle")
  /\ UNCHANGED <<env, lock, bridge, disabler, reader>>

\* A RUNNING service is told to stop; one that starts is waited for.
SettleStops(c) ==
  /\ proc[c].pc = "settle" /\ bridge.st \in {"running", "serving"}
  /\ bridge' = [bridge EXCEPT !.st = "down"]
  /\ UNCHANGED <<env, svc, lock, proc, disabler, reader, used>>

\* An entry found marked is neither deleted nor restored once it is stopped;
\* an update swaps its images all the same.
OnlyStopped(c) == svc.going /\ proc[c].op # "cutover"

\* STOPPED, and the scan finds no process with the service's token: those that
\* outlived the bridge, a cutover child among them, are terminated.
Settles(c) ==
  /\ proc[c].pc = "settle" /\ ~BridgeLives /\ NoFault
  /\ svc' = IF OnlyStopped(c) THEN Closed(svc) ELSE svc
  /\ proc' = [d \in Changers |->
       IF d = c THEN IF OnlyStopped(c) THEN RetiredAs(c, TRUE)
                     ELSE [proc[c] EXCEPT !.pc = CASE proc[c].phase = "stop" -> "restore"
                                                   [] proc[c].phase = "delete" -> "delete"
                                                   [] proc[c].phase = "update" -> "away",
                                          !.ok = TRUE]
       ELSE IF d \in Orphans(c) THEN Over(d, "dead")
       ELSE proc[d]]
  /\ UNCHANGED <<env, lock, bridge, disabler, reader>>

\* The wait may fail at any look, the bridge still running or not.
SettleFails(c) ==
  /\ proc[c].pc = "settle" /\ Fault
  /\ IF OnlyStopped(c) THEN Retired(c, FALSE) /\ svc' = Closed(svc)
     ELSE proc' = [proc EXCEPT ![c].pc = "restore", ![c].ok = FALSE] /\ UNCHANGED svc
  /\ UNCHANGED <<env, lock, bridge, disabler, reader>>

\* DeleteService marks the entry; an uninstall's takes the choice with it.
Deletes(c) ==
  /\ proc[c].pc = "delete"
  /\ \/ /\ svc' = [svc EXCEPT !.going = TRUE] /\ Go(c, "unkey")
        /\ used' = [used EXCEPT !.choice = IF proc[c].op = "uninstall" THEN "none" ELSE @]
     \/ Fault /\ UNCHANGED svc /\ proc' = [proc EXCEPT ![c].pc = "restore", ![c].ok = FALSE]
  /\ UNCHANGED <<env, lock, bridge, disabler, reader>>

\* The record has served, and the entry is closed.
Deleted(c) ==
  /\ proc[c].pc = "unkey"
  /\ \/ NoFault /\ svc' = Closed([svc EXCEPT !.record = IF proc[c].ours THEN Nobody ELSE @])
     \/ proc[c].ours /\ Fault /\ svc' = Closed(svc)
  /\ Retired(c, TRUE)
  /\ UNCHANGED <<env, lock, bridge, disabler, reader>>

\* What was found marked was left as it was: there is nothing to put back.
RestoreRestart(c) ==
  /\ proc[c].pc = "restore"
  /\ IF svc.going THEN NoFault /\ svc' = Closed(svc) /\ Retired(c, proc[c].ok)
     ELSE /\ \/ NoFault /\ svc' = [svc EXCEPT !.restart = TRUE]
             \/ Fault /\ UNCHANGED svc
          /\ Go(c, "back")
  /\ UNCHANGED <<env, lock, bridge, disabler, reader>>

RestoreStart(c) ==
  /\ proc[c].pc = "back"
  /\ \/ /\ NoFault
        /\ svc' = [svc EXCEPT !.start = Restored(proc[c])]
        /\ disabler' = Owed(Restored(proc[c]))
        /\ IF proc[c].ours THEN Go(c, "unrecord") ELSE Retired(c, proc[c].ok)
     \/ Fault /\ Retired(c, proc[c].ok) /\ UNCHANGED <<svc, disabler>>
  /\ UNCHANGED <<env, lock, bridge, reader>>

RestoreRecord(c) ==
  /\ proc[c].pc = "unrecord"
  /\ \/ NoFault /\ svc' = [svc EXCEPT !.record = Nobody]
     \/ Fault /\ UNCHANGED svc
  /\ Retired(c, proc[c].ok)
  /\ UNCHANGED <<env, lock, bridge, disabler, reader>>

Retire(c) ==
  \/ OpenAbsent(c) \/ HardenReads(c) \/ HardenRecords(c) \/ HardenDisables(c) \/ HardenQuiets(c)
  \/ Settles(c) \/ SettleFails(c) \/ Deletes(c) \/ Deleted(c) \/ RestoreRestart(c) \/ RestoreStart(c) \/ RestoreRecord(c)

-----------------------------------------------------------------------------
(* The install, the repair and the enable.                                 *)

InstallStart(by) == IF by = "elsewhere" THEN "Disabled" ELSE "Auto"

\* The start type of the new registration is decided before anything changes.
Inspect(c) ==
  /\ proc[c].pc = "inspect"
  /\ \/ /\ NoFault
        /\ proc' = [proc EXCEPT
             ![c].want = IF svc.registered THEN InstallStart(DisabledBy(Found)) ELSE "Auto",
             ![c].pc = IF svc.registered THEN "harden" ELSE "register"]
     \/ Fault /\ Go(c, "end")
  /\ UNCHANGED <<env, svc, lock, bridge, disabler, reader>>

\* The new entry, marked as being changed.
Created(c, restart) ==
  /\ svc' = [registered |-> TRUE, going |-> FALSE, start |-> proc[c].want, restart |-> restart,
             record |-> Nobody, mark |-> [n |-> 1, by |-> c, busy |-> TRUE]]
  /\ disabler' = IF proc[c].want = "Disabled" /\ disabler # "admin" THEN "unsure"
                 ELSE Owed(proc[c].want)

\* An entry whose deregistration failed is still there, and is not created
\* again.  The configuration is required, restart-on-failure is not.
Register(c) ==
  /\ proc[c].pc = "register"
  /\ \/ ~svc.registered /\ NoFault /\ Created(c, TRUE) /\ Go(c, "repair")
     \/ ~svc.registered /\ Fault /\ Created(c, FALSE) /\ \E pc \in {"end", "repair"} : Go(c, pc)
     \/ /\ IF svc.registered THEN NoFault ELSE Fault
        /\ Go(c, "end") /\ UNCHANGED <<svc, disabler>>
  /\ UNCHANGED <<env, lock, bridge, reader>>

\* A failed repair ends an install, and fails a cutover.
Amiss(c) == IF proc[c].op = "cutover" THEN "clearing" ELSE "end"

Repair(c) ==
  /\ proc[c].pc = "repair"
  /\ \/ /\ NoFault
        /\ Go(c, CASE Found = "Nothing" -> "start"
                   [] Found = "ClearRecordOnly" -> "sweep"
                   [] Found = "ResetThenClear" -> "restamp"
                   [] Found = "LeaveDisabled" -> Amiss(c))
     \/ Fault /\ Go(c, Amiss(c))
  /\ UNCHANGED <<env, svc, lock, bridge, disabler, reader>>

RepairStamps(c) ==
  /\ proc[c].pc = "restamp"
  /\ \/ NoFault /\ svc' = [svc EXCEPT !.record = c]
     \/ Fault /\ UNCHANGED svc
  /\ Go(c, "reset")
  /\ UNCHANGED <<env, lock, bridge, disabler, reader>>

RepairResets(c) ==
  /\ proc[c].pc = "reset"
  /\ \/ /\ NoFault
        /\ svc' = [svc EXCEPT !.start = "Auto"] /\ disabler' = Owed("Auto")
        /\ Go(c, "sweep")
     \/ Fault /\ Go(c, Amiss(c)) /\ UNCHANGED <<svc, disabler>>
  /\ UNCHANGED <<env, lock, bridge, reader>>

RepairSweeps(c) ==
  /\ proc[c].pc = "sweep"
  /\ \/ NoFault /\ svc' = [svc EXCEPT !.record = Nobody]
     \/ Fault /\ UNCHANGED svc
  /\ Go(c, "start")
  /\ UNCHANGED <<env, lock, bridge, disabler, reader>>

\* made: a record this enable wrote over none, to be cleared if the write of
\* the start type fails.
EnableStamps(c) ==
  /\ proc[c].pc = "stamp"
  /\ \/ ~svc.registered /\ NoFault /\ Go(c, "end") /\ UNCHANGED svc
     \/ /\ svc.registered /\ NoFault
        /\ svc' = [svc EXCEPT !.record = c]
        /\ proc' = [proc EXCEPT ![c].pc = "enable", ![c].made = ~Recorded]
     \/ svc.registered /\ Fault /\ Go(c, "enable") /\ UNCHANGED svc
  /\ UNCHANGED <<env, lock, bridge, disabler, reader>>

EnableSets(c) ==
  /\ proc[c].pc = "enable"
  /\ \/ /\ ~svc.going /\ used' = [used EXCEPT !.choice = "none"]
        /\ svc' = [svc EXCEPT !.start = "Auto"] /\ disabler' = "none"
        /\ Go(c, "sweep")
     \/ /\ IF svc.going THEN NoFault ELSE Fault
        /\ Go(c, "end") /\ UNCHANGED disabler
        /\ svc' \in {Closed(s) : s \in Unrecorded(c)}
  /\ UNCHANGED <<env, lock, bridge, reader>>

\* StartService fails for a Disabled service and for one that runs.
CanStart == svc.registered /\ ~svc.going /\ svc.start # "Disabled" /\ ~BridgeLives
Launched == [bridge EXCEPT !.st = "starting", !.n = @ + 1]

StartService(c) ==
  /\ proc[c].pc = "start" /\ proc[c].op # "cutover"
  /\ \/ CanStart /\ NoFault /\ bridge' = Launched
     \/ ~CanStart /\ NoFault /\ UNCHANGED bridge
     \/ CanStart /\ Fault /\ UNCHANGED bridge
  /\ Go(c, "end")
  /\ UNCHANGED <<env, svc, lock, disabler, reader>>

Change(c) ==
  \/ \E op \in env.ops : Begin(c, op)
  \/ Acquire(c) \/ Release(c) \/ Inspect(c) \/ Register(c)
  \/ Repair(c) \/ RepairStamps(c) \/ RepairResets(c) \/ RepairSweeps(c)
  \/ EnableStamps(c) \/ EnableSets(c) \/ StartService(c)

-----------------------------------------------------------------------------
(* What happens around the changes.                                        *)

\* A killed process lets the lock and the entry go; its mark and record stay.
Killed(c) ==
  /\ Live(c) /\ used.crashes < env.crashes
  /\ used' = [used EXCEPT !.crashes = @ + 1, !.choice = ChoiceAfter(c)]
  /\ proc' = [proc EXCEPT ![c] = Over(c, "dead")]
  /\ lock' = IF lock = c THEN Nobody ELSE lock
  /\ svc' = IF proc[c].pc \in Opened THEN Closed(svc) ELSE svc
  /\ disabler' = IF NoEntry(c) THEN "none" ELSE disabler
  /\ UNCHANGED <<env, bridge, reader>>

\* A Disable is told from Hole's own while no record is there and no change is
\* past its look at the start type.
Telling ==
  /\ ~Recorded
  /\ \/ lock = Nobody
     \/ proc[lock].op = "install" /\ proc[lock].pc = "inspect"
     \/ proc[lock].op \in {"uninstall", "cutover"} /\ proc[lock].pc \in {"ensure", "harden"}

\* The service is set Disabled with the operating system's own tools.
AdminDisables ==
  /\ svc.registered /\ ~svc.going /\ svc.start # "Disabled" /\ used.admin < env.admin
  /\ used' = [used EXCEPT !.admin = @ + 1, !.choice = IF Telling THEN "stands" ELSE "none"]
  /\ svc' = [svc EXCEPT !.start = "Disabled"]
  /\ disabler' = IF Telling THEN "admin" ELSE "unsure"
  /\ UNCHANGED <<env, lock, proc, bridge, reader>>

\* The SCM restarts a service that failed, or anyone starts one that is down.
Starts ==
  /\ CanStart /\ used.boots < env.boots
  /\ bridge.st = "failed" => svc.restart
  /\ used' = [used EXCEPT !.boots = @ + 1]
  /\ bridge' = Launched
  /\ UNCHANGED <<env, svc, lock, proc, disabler, reader>>

-----------------------------------------------------------------------------
(* The GUI's status read, which takes no lock: mark, start type, record's  *)
(* changer, mark again.                                                    *)

MarkSeen == [raw |-> svc.mark,
             holder |-> IF ~svc.mark.busy THEN "none"
                        ELSE IF Live(svc.mark.by) THEN "running" ELSE "gone"]
ChangerSeen == IF ~Recorded THEN "none" ELSE IF Live(svc.record) THEN "running" ELSE "gone"

NotReading == [pc |-> "idle", mark |-> [raw |-> NoMark, holder |-> "none"], start |-> "Auto",
               changer |-> "none", owed |-> "none", says |-> "nothing"]

DisabledState(holder, changer, by) ==
  IF holder = "running" \/ changer = "running" THEN "inChange"
  ELSE IF by = "none" THEN "notDisabled" ELSE by

ReadMark ==
  /\ reader.pc = "idle" /\ svc.registered /\ used.reads < env.reads
  /\ used' = [used EXCEPT !.reads = @ + 1]
  /\ reader' = [NotReading EXCEPT !.pc = "start", !.mark = MarkSeen]
  /\ UNCHANGED <<env, svc, lock, proc, bridge, disabler>>

ReadStart ==
  /\ reader.pc = "start"
  /\ reader' = [reader EXCEPT !.pc = "changer", !.start = svc.start,
                              !.owed = IF svc.going THEN "unsure" ELSE disabler]
  /\ UNCHANGED <<env, svc, lock, proc, bridge, disabler, used>>

ReadChanger ==
  /\ reader.pc = "changer"
  /\ reader' = [reader EXCEPT !.pc = "again", !.changer = ChangerSeen]
  /\ UNCHANGED <<env, svc, lock, proc, bridge, disabler, used>>

\* Mutant: the mark is not read again.
MutReadAgain ==
  /\ reader.pc = "again"
  /\ reader' = [NotReading EXCEPT !.owed = reader.owed,
                  !.says = DisabledState(reader.mark.holder, reader.changer,
                             DisabledBy(RepairStep(reader.changer # "none", reader.start)))]
  /\ svc' = IF svc.going THEN NoService ELSE svc
  /\ UNCHANGED <<env, lock, proc, bridge, disabler, used>>

\* A mark that moved sends the read round again.  Ending it closes the entry.
ReadAgain ==
  /\ reader.pc = "again"
  /\ reader' = IF MarkSeen # reader.mark THEN [reader EXCEPT !.pc = "start", !.mark = MarkSeen]
               ELSE [NotReading EXCEPT !.owed = reader.owed,
                       !.says = DisabledState(reader.mark.holder, reader.changer,
                                  DisabledBy(RepairStep(reader.changer # "none", reader.start)))]
  /\ svc' = IF reader'.pc = "idle" /\ svc.going /\ \A c \in Changers : proc[c].pc \notin Opened
              THEN NoService ELSE svc
  /\ UNCHANGED <<env, lock, proc, bridge, disabler, used>>

Status == ReadMark \/ ReadStart \/ ReadChanger \/ ReadAgain

-----------------------------------------------------------------------------
ServiceInit ==
  /\ env \in Environments
  /\ \E start \in env.starts :
       /\ svc = [registered |-> TRUE, going |-> FALSE, start |-> start, restart |-> TRUE,
                 record |-> Nobody, mark |-> NoMark]
       /\ disabler = IF start = "Disabled" THEN "admin" ELSE "none"
       /\ bridge = [st |-> IF start = "Disabled" THEN "down" ELSE "serving", n |-> 1]
       /\ used = [admin |-> 0, crashes |-> 0, faults |-> 0, boots |-> 0, reads |-> 0,
                  choice |-> IF start = "Disabled" THEN "stands" ELSE "none"]
  /\ lock = Nobody
  /\ proc = [c \in Changers |-> Unused]
  /\ reader = NotReading

-----------------------------------------------------------------------------
(* The one promise of each part.                                           *)

\* A service that Hole disabled has its record, between any two calls of any
\* change and whatever call failed or process died: harden writes the record
\* before the start type, restore and repair clear it after.
OursHasRecord ==
  svc.registered /\ ~svc.going /\ svc.start = "Disabled" /\ disabler = "hole" => Recorded

\* A Disable an administrator set, while no change ran or before the one that
\* ran looked, survives retirements, updates and reinstalls, failing or killed
\* (Hardening::restored, InstallStart::for_disabled_by): only an enable and an
\* uninstall undo it.  Excepted is a reinstall that ends, killed or with its
\* registration failed, after it deregistered the service: the next install
\* registers Auto, although install_bridge_with says that the choice survives.
AdminChoiceSurvives ==
  /\ used.choice = "stands" /\ svc.registered
  /\ \A c \in Changers : proc[c].op = "enable" => proc[c].pc \in {"idle", "lock"}
  => svc.start = "Disabled"

\* Once a retirement has settled, no bridge runs until it lets the start type
\* go, restart-on-failure, other starters and failed calls notwithstanding.
StopIsFinal ==
  \A c \in Changers :
    \/ proc[c].pc \in {"delete", "unkey", "away", "movein"} /\ proc[c].op # "inline"
    \/ proc[c].pc \in {"restore", "back"} /\ proc[c].ok
    => ~BridgeLives

\* The status read blames an administrator only for a Disable that was an
\* administrator's when the start type was read, though it holds no lock.
StatusBlamesRightly ==
  reader.says = "elsewhere" => reader.owed \in {"admin", "unsure"}

\* The start type is always attributable: Hole's own Disable is on record,
\* an administrator's survives, a settled retirement is final, and the status
\* blames the right one (harden, restore, repair, the status read).
StartTypeAttributed ==
  OursHasRecord /\ AdminChoiceSurvives /\ StopIsFinal /\ StatusBlamesRightly
=============================================================================
