---------------------------- MODULE BridgeProofs ----------------------------
(***************************************************************************)
(* The bridge's records, attempts and standing cover, for every set of     *)
(* configs and attempt ids, any number of requests that wait, and any      *)
(* number of unblocks, failed calls, clients that hang up and crashes: the *)
(* inductive invariant, that each step keeps it, and what follows from it. *)
(***************************************************************************)
EXTENDS Bridge, TLAPS

-----------------------------------------------------------------------------
(* The inductive invariant.                                                *)

StartPlaces == {"resolve", "inner", "cover", "dns"}

\* Where each kind of lock holder may be.
Places(kind) ==
  CASE kind = "start" -> StartPlaces \cup {"persist"}
    [] kind = "reload" -> StartPlaces \cup {"persist", "stop", "teardown"}
    [] kind = "boot" -> StartPlaces \cup {"decide", "release"}
    [] OTHER -> {"stop", "teardown"}

\* Who may hold the lock in each section of the process.
Holders(ph) ==
  CASE ph = "serve" -> {"start", "reload", "stop", "health"}
    [] ph = "exit" -> {"exit"}
    [] ph = "boot" -> {"boot"}
    [] OTHER -> {}

\* A request under way: it still has a config and a generation to hand on.
Underway == job.kind \in {"start", "reload"} /\ job.pc # "persist"

JobOK ==
  /\ job # NoJob => job.kind \in Holders(phase) /\ job.pc \in Places(job.kind)
  /\ phase = "boot" => job # NoJob
  /\ Underway \/ job.pc \in StartPlaces => job.cfg \in Configs
  /\ own # NoTask => job.pc = "persist"

\* Before it serves, a process has no request, no unblock and no task.
Quiet == queue = {} /\ orphans = {} /\ strays = {} /\ upc = "idle" /\ slot = None

QuietOK ==
  /\ phase \notin {"serve", "exit"} => Quiet
  /\ phase \in {"down", "recover", "resolve"} => session = None

AttemptsOK ==
  /\ CancelScoped
  /\ armed # None => armed # slot
  /\ gone = 0 /\ phase # "exit" => SlotNamesAStart

\* The unblock generations that requests, holder and tasks carry.
Stamps ==
  {r.snap : r \in queue} \cup {t.snap : t \in orphans \cup ({own} \ {NoTask})}
    \cup (IF Underway THEN {job.snap} ELSE {})

\* An unblock wrote Off, and no start or reload was asked for since.
EscapeStands == \/ escaped = "yes"
                \/ escaped = "pending" /\ upc \in {"intent", "candidate"}

\* Nothing that was asked for before an unblock has its generation.
EscapeOK ==
  /\ Stamps \subseteq 0 .. generation
  /\ EscapeStands => target \notin Configs /\ generation \notin Stamps
  /\ escaped = "yes" => pref.candidate = None

\* The records of the session are written, or about to be.
SessionOK ==
  /\ session # None => active = session.cfg
  /\ own.ok /\ session # None => own.cfg = session.cfg
  /\ gone = 0 /\ phase # "exit" => orphans = {} /\ strays = {}
  /\ gone = 0 /\ phase # "exit" /\ session # None /\ ~diverged =>
       target = session.cfg \/ (own.ok /\ ~own.half)

StopOK ==
  /\ stopped /\ phase = "serve" => job.kind \notin {"start", "reload"}
  /\ stopped => phase \notin Booting
  /\ StopWins

\* What the boot decided, and what it owes the cover.
BootOK ==
  phase = "boot" =>
    /\ job.tgt \in Configs \/ clean => target = job.tgt
    /\ job.pc \in StartPlaces => job.cfg = job.tgt
    /\ job.pc = "decide" => ~job.last
    /\ job.pc = "release" \/ job.last =>
         job.tgt = Off \/ ~lockdown_enabled(intent, adopted)
    /\ session # None => job.pc = "release" /\ job.tgt \in Configs

CoverOK ==
  /\ phase \in {"resolve", "boot"} /\ clean /\ intent = "Off" => os = "Absent"
  /\ phase = "boot" /\ job.pc \in {"inner", "cover"} =>
       /\ job.expect => lockdown_enabled(intent, adopted)
       /\ intent = "On" => job.expect
  /\ phase = "boot" /\ job.pc = "dns" /\ intent = "On" => os = "Live"

BridgeInv ==
  /\ TypeOK /\ JobOK /\ QuietOK /\ AttemptsOK /\ EscapeOK /\ SessionOK /\ StopOK
  /\ BootOK /\ CoverOK

-----------------------------------------------------------------------------
(* Each conjunct speaks of a few variables only.                           *)

\* A type holds on as long as its variables stand.
LEMMA TypeFrames ==
  /\ RecordsType /\ records' = records => RecordsType'
  /\ ManagerType /\ manager' = manager => ManagerType'
  /\ IpcType /\ ipc' = ipc => IpcType'
  /\ HistoryType /\ history' = history => HistoryType'
  /\ BudgetsType /\ budgets' = budgets => BudgetsType'
<1>1. RecordsType /\ records' = records => RecordsType'
  BY DEF RecordsType, records
<1>2. ManagerType /\ manager' = manager => ManagerType'
  BY DEF ManagerType, manager
<1>3. IpcType /\ ipc' = ipc => IpcType'
  BY DEF IpcType, ipc
<1>4. HistoryType /\ history' = history => HistoryType'
  BY DEF HistoryType, history
<1>5. BudgetsType /\ budgets' = budgets => BudgetsType'
  BY DEF BudgetsType, budgets
<1> QED
  BY <1>1, <1>2, <1>3, <1>4, <1>5

\* JobOK is about the lock holder, its task and the section of the process.
LEMMA JobFrame == JobOK /\ UNCHANGED <<job, phase, own>> => JobOK'
  BY DEF JobOK, Underway

\* QuietOK is about what a process that does not serve must not have.
LEMMA QuietFrame ==
  QuietOK /\ UNCHANGED <<phase, queue, orphans, strays, upc, slot, session>> => QuietOK'
  BY DEF QuietOK, Quiet

\* AttemptsOK is about the start slot, its token and the armed cancel.
LEMMA AttemptsFrame ==
  AttemptsOK /\ UNCHANGED <<tok, slot, cancels, armed, gone, phase, queue, job>> => AttemptsOK'
  BY DEF AttemptsOK, CancelScoped, SlotNamesAStart

\* EscapeOK is about the generations and the two records an unblock clears.
LEMMA EscapeFrame ==
  EscapeOK /\ UNCHANGED <<queue, orphans, own, job, generation, escaped, upc, target, pref>>
    => EscapeOK'
  BY DEF EscapeOK, Stamps, EscapeStands, Underway

\* SessionOK is about the session and the target.
LEMMA SessionFrame ==
  SessionOK /\ UNCHANGED <<session, active, own, gone, phase, orphans, strays, diverged, target>>
    => SessionOK'
  BY DEF SessionOK

\* StopOK is about the target after a stop.
LEMMA StopFrame == StopOK /\ UNCHANGED <<stopped, phase, job, gone, target>> => StopOK'
  BY DEF StopOK, StopWins

\* BootOK and CoverOK are about a process that boots.
LEMMA BootFrame ==
  BootOK /\ UNCHANGED <<phase, job, clean, target, intent, adopted, session>> => BootOK'
  BY DEF BootOK

LEMMA CoverFrame ==
  CoverOK /\ UNCHANGED <<phase, clean, intent, os, job, adopted>> => CoverOK'
  BY DEF CoverOK

\* Outside the boot both hold whatever the step is.
LEMMA NotBooting == phase' \notin {"resolve", "boot"} => BootOK' /\ CoverOK'
  BY DEF BootOK, CoverOK

-----------------------------------------------------------------------------
(* Handlers that need no lock.                                             *)

\* A start takes the slot, or consumes the cancel armed for it.
LEMMA StartStep ==
  ASSUME BridgeInv, NEW id \in env.ids \cup {NoId}, NEW cfg \in env.configs,
         NEW push \in env.pushes, handle_start(id, cfg, push)
  PROVE  BridgeInv'
<1>0. /\ id \in Ids \cup {NoId} /\ cfg \in Configs /\ push \in Startups \cup {None}
      /\ generation \in Nat
  BY Zenon, EnvironmentsAssumption DEF BridgeInv, TypeOK, IpcType, BudgetsType
<1>1. TypeOK'
  <2>1. queue' \subseteq Requests
    BY <1>0 DEF BridgeInv, TypeOK, handle_start, Requests
  <2>2. slot' \in Ids \cup {NoId, None} /\ tok' \in BOOLEAN /\ armed' \in Ids \cup {None}
    BY <1>0, Zenon DEF BridgeInv, TypeOK, handle_start, IpcType
  <2>3. cancels' \subseteq Ids /\ escaped' \in {"no", "pending", "yes"}
    BY <1>0 DEF BridgeInv, TypeOK, handle_start, HistoryType
  <2> QED
    BY ZenonT(40), <2>1, <2>2, <2>3, TypeFrames
       DEF BridgeInv, TypeOK, handle_start, IpcType, HistoryType
<1>2. JobOK' /\ SessionOK' /\ StopOK' /\ BootOK' /\ CoverOK'
  BY JobFrame, SessionFrame, StopFrame, NotBooting
     DEF BridgeInv, handle_start, Serving, records, manager, budgets
<1>3. QuietOK'
  BY DEF QuietOK, handle_start, Serving
<1>4. AttemptsOK'
  <2>1. CancelScoped' /\ (armed # None => armed # slot)'
    BY DEF BridgeInv, AttemptsOK, CancelScoped, handle_start
  <2>2. CASE slot' = id /\ [kind |-> "start", cfg |-> cfg, id |-> id,
                           push |-> push, snap |-> generation] \in queue'
    BY <2>1, <2>2 DEF AttemptsOK, SlotNamesAStart
  <2>3. CASE UNCHANGED <<slot, queue>>
    BY <2>1, <2>3 DEF BridgeInv, AttemptsOK, SlotNamesAStart, handle_start, budgets
  <2> QED
    BY <2>2, <2>3 DEF handle_start
<1>5. EscapeOK'
  <2>1. Stamps' \subseteq Stamps \cup {generation}
    BY DEF Stamps, Underway, handle_start
  <2>2. escaped' = "no" \/ (Stamps' = Stamps /\ escaped' = escaped)
    BY DEF Stamps, Underway, handle_start
  <2> QED
    BY <1>0, <2>1, <2>2 DEF BridgeInv, EscapeOK, EscapeStands, handle_start, records
<1> QED
  BY <1>1, <1>2, <1>3, <1>4, <1>5 DEF BridgeInv

\* What a client may send, and the outcome of a call, keep their types.
LEMMA EnvValues ==
  TypeOK => /\ env.configs \subseteq Configs /\ env.ids \subseteq Ids
            /\ env.reads \subseteq Intents /\ env.quits \subseteq Events
            /\ env.faults \in Nat /\ env.gone \in Nat /\ env.crashes \in Nat
  BY EnvironmentsAssumption DEF TypeOK, BudgetsType

LEMMA BudgetType ==
  TypeOK /\ (Spend \/ Free) /\ env' = env => faults' \in 0 .. env'.faults /\ clean' \in BOOLEAN
<1>1. TypeOK => faults \in 0 .. env.faults /\ env.faults \in Nat /\ clean \in BOOLEAN
  BY EnvValues DEF TypeOK, BudgetsType
<1>2. TypeOK /\ (Spend \/ Free) /\ env' = env => faults' \in 0 .. env'.faults
  BY <1>1 DEF Spend, Free
<1>3. TypeOK /\ (Spend \/ Free) => clean' \in BOOLEAN
  BY <1>1, Zenon DEF Spend, Free
<1> QED
  BY <1>2, <1>3

\* The budgets after a call that failed, or did not.
LEMMA BudgetKept ==
  TypeOK /\ (Spend \/ Free) /\ UNCHANGED <<gone, crashes, env>> => BudgetsType'
  BY BudgetType DEF TypeOK, BudgetsType

\* A reload waits for the lock with the generation it read.
LEMMA ReloadStep ==
  ASSUME BridgeInv, NEW cfg \in env.configs, handle_reload(cfg)
  PROVE  BridgeInv'
<1>0. cfg \in Configs /\ generation \in Nat
  BY EnvValues DEF BridgeInv, TypeOK, IpcType
<1>1. TypeOK'
  <2>1. queue' \subseteq Requests
    BY <1>0 DEF BridgeInv, TypeOK, handle_reload, Requests
  <2> QED
    BY ZenonT(40), <2>1, TypeFrames DEF BridgeInv, TypeOK, handle_reload, HistoryType
<1>2. JobOK' /\ SessionOK' /\ StopOK' /\ BootOK' /\ CoverOK'
  BY JobFrame, SessionFrame, StopFrame, NotBooting, ZenonT(40)
     DEF BridgeInv, handle_reload, Serving, records, manager, budgets
<1>3. QuietOK'
  BY DEF QuietOK, handle_reload, Serving
<1>4. AttemptsOK'
  BY DEF BridgeInv, AttemptsOK, CancelScoped, SlotNamesAStart, handle_reload, Serving, ipc, budgets
<1>5. EscapeOK'
  <2>1. Stamps' \subseteq Stamps \cup {generation} /\ escaped' = "no" /\ generation' = generation
    BY DEF Stamps, Underway, handle_reload, ipc
  <2> QED
    BY <1>0, <2>1 DEF BridgeInv, EscapeOK, EscapeStands
<1> QED
  BY <1>1, <1>2, <1>3, <1>4, <1>5 DEF BridgeInv

\* A cancel sets the token of the start it names, or is armed for another.
LEMMA CancelStep ==
  ASSUME BridgeInv, NEW id \in env.ids \cup {NoId}, handle_cancel(id)
  PROVE  BridgeInv'
<1>0. id \in Ids
  BY Zenon, EnvValues DEF BridgeInv, handle_cancel, HasId
<1>1. TypeOK'
  <2>1. armed' \in Ids \cup {None} /\ tok' \in BOOLEAN /\ cancels' \subseteq Ids
    BY <1>0, Zenon DEF BridgeInv, TypeOK, handle_cancel, IpcType, HistoryType
  <2> QED
    BY <2>1, TypeFrames DEF BridgeInv, TypeOK, handle_cancel, IpcType, HistoryType
<1>2. /\ JobOK' /\ QuietOK' /\ EscapeOK' /\ SessionOK' /\ StopOK'
      /\ BootOK' /\ CoverOK'
  BY Zenon, JobFrame, QuietFrame, EscapeFrame, SessionFrame, StopFrame, NotBooting
     DEF BridgeInv, handle_cancel, Serving, records, manager, budgets
<1>3. AttemptsOK'
  BY DEF BridgeInv, AttemptsOK, CancelScoped, SlotNamesAStart, handle_cancel, Names, budgets
<1> QED
  BY Zenon, <1>1, <1>2, <1>3 DEF BridgeInv

\* An unblock releases the covers before it writes anything.
LEMMA UnblockStartStep ==
  ASSUME BridgeInv, handle_unblock
  PROVE  BridgeInv'
<1>0. phase = "serve" /\ phase' = phase
  BY Zenon DEF handle_unblock, Serving
<1>1. TypeOK'
  <2>1. Spend \/ Free
    BY DEF handle_unblock, ReleaseOk, ReleaseErr
  <2>2. os' \in {"Live", "Recorded", "Absent"} /\ upc' \in {"idle", "off"}
    BY DEF BridgeInv, TypeOK, handle_unblock, ReleaseOk, ReleaseErr
  <2> QED
    BY <2>1, <2>2, BudgetType, TypeFrames
       DEF BridgeInv, TypeOK, handle_unblock, HistoryType, BudgetsType
<1>2. JobOK' /\ AttemptsOK' /\ SessionOK' /\ StopOK' /\ BootOK' /\ CoverOK'
  BY <1>0, JobFrame, AttemptsFrame, SessionFrame, StopFrame, NotBooting
     DEF BridgeInv, handle_unblock, records, manager, ipc
<1>3. QuietOK'
  BY Zenon, <1>0 DEF QuietOK
<1>4. EscapeOK'
  BY DEF BridgeInv, EscapeOK, EscapeStands, Stamps, Underway, handle_unblock, records, ipc
<1> QED
  BY <1>1, <1>2, <1>3, <1>4 DEF BridgeInv

\* The write of Off makes every generation read before it an old one.
LEMMA UnblockOffStep ==
  ASSUME BridgeInv, UnblockOff
  PROVE  BridgeInv'
<1>0. phase \in {"serve", "exit"} /\ phase' = phase /\ generation \in Nat
  BY Zenon DEF BridgeInv, TypeOK, QuietOK, Quiet, UnblockOff, EscapeReady, IpcType
<1>1. TypeOK'
  <2>1. Spend \/ Free
    BY DEF UnblockOff
  <2>2. /\ target' \in Targets /\ generation' \in Nat /\ escaped' \in {"no", "pending", "yes"}
        /\ upc' \in {"idle", "intent"}
    BY <1>0 DEF BridgeInv, TypeOK, UnblockOff, Targets, RecordsType, IpcType, HistoryType
  <2>3. diverged' \in BOOLEAN
    BY Zenon DEF BridgeInv, TypeOK, UnblockOff, HistoryType
  <2> QED
    BY <2>1, <2>2, <2>3, BudgetType, TypeFrames
       DEF BridgeInv, TypeOK, UnblockOff, RecordsType, IpcType, HistoryType, BudgetsType
<1>2. JobOK' /\ AttemptsOK' /\ BootOK' /\ CoverOK'
  BY <1>0, JobFrame, AttemptsFrame, NotBooting DEF BridgeInv, UnblockOff
<1>3. QuietOK'
  BY <1>0 DEF QuietOK
<1>4. EscapeOK'
  <2>1. Stamps' = Stamps /\ pref' = pref
    BY DEF Stamps, Underway, UnblockOff
  <2>2. CASE generation' = generation + 1 /\ target' = Off /\ escaped' = "pending"
    BY <1>0, <2>1, <2>2, ConfigsAssumption DEF BridgeInv, EscapeOK, Off
  <2>3. CASE UNCHANGED <<generation, target, escaped>> /\ upc' = "idle"
    BY Zenon, <2>1, <2>3 DEF BridgeInv, EscapeOK, EscapeStands
  <2> QED
    BY <2>2, <2>3 DEF UnblockOff
<1>5. SessionOK' /\ StopOK'
  BY DEF BridgeInv, SessionOK, StopOK, StopWins, UnblockOff, manager
<1> QED
  BY <1>1, <1>2, <1>3, <1>4, <1>5 DEF BridgeInv

\* The two writes that follow it.
LEMMA UnblockIntentStep ==
  ASSUME BridgeInv, UnblockIntent
  PROVE  BridgeInv'
<1>0. phase \in {"serve", "exit"} /\ phase' = phase
  BY Zenon DEF BridgeInv, TypeOK, QuietOK, Quiet, UnblockIntent
<1>1. TypeOK'
  <2>1. Spend \/ Free
    BY DEF UnblockIntent
  <2>2. /\ intent' \in Intents /\ escaped' \in {"no", "pending", "yes"}
        /\ upc' \in {"idle", "candidate"}
    BY DEF BridgeInv, TypeOK, UnblockIntent, Intents, RecordsType, HistoryType
  <2> QED
    BY <2>1, <2>2, BudgetType, TypeFrames
       DEF BridgeInv, TypeOK, UnblockIntent, RecordsType, HistoryType, BudgetsType
<1>2. JobOK' /\ AttemptsOK' /\ SessionOK' /\ StopOK' /\ BootOK' /\ CoverOK'
  BY <1>0, JobFrame, AttemptsFrame, SessionFrame, StopFrame, NotBooting
     DEF BridgeInv, UnblockIntent, manager, ipc
<1>3. QuietOK'
  BY Zenon, <1>0 DEF QuietOK
<1>4. EscapeOK'
  BY DEF BridgeInv, EscapeOK, EscapeStands, Stamps, Underway, UnblockIntent, ipc
<1> QED
  BY <1>1, <1>2, <1>3, <1>4 DEF BridgeInv

LEMMA UnblockCandidateStep ==
  ASSUME BridgeInv, UnblockCandidate
  PROVE  BridgeInv'
<1>0. phase \in {"serve", "exit"} /\ phase' = phase
  BY Zenon DEF BridgeInv, TypeOK, QuietOK, Quiet, UnblockCandidate
<1>1. TypeOK'
  <2>1. Spend \/ Free
    BY DEF UnblockCandidate
  <2>2. /\ escaped' \in {"no", "pending", "yes"} /\ upc' = "idle"
        /\ pref' \in [on_startup : Startups, candidate : Configs \cup {None}]
    BY Zenon DEF BridgeInv, TypeOK, UnblockCandidate, Cleared, RecordsType, HistoryType
  <2> QED
    BY <2>1, <2>2, BudgetType, TypeFrames
       DEF BridgeInv, TypeOK, UnblockCandidate, RecordsType, HistoryType, BudgetsType
<1>2. JobOK' /\ AttemptsOK' /\ SessionOK' /\ StopOK' /\ BootOK' /\ CoverOK'
  BY <1>0, JobFrame, AttemptsFrame, SessionFrame, StopFrame, NotBooting
     DEF BridgeInv, UnblockCandidate, manager, ipc
<1>3. QuietOK'
  BY <1>0 DEF QuietOK
<1>4. EscapeOK'
  <2>1. Stamps' = Stamps /\ UNCHANGED <<target, generation>>
    BY DEF Stamps, Underway, UnblockCandidate, ipc
  <2>2. escaped' = "yes" => EscapeStands /\ pref'.candidate = None
    BY DEF BridgeInv, TypeOK, EscapeOK, EscapeStands, UnblockCandidate, Cleared,
           RecordsType, HistoryType
  <2> QED
    BY Zenon, <2>1, <2>2 DEF BridgeInv, EscapeOK, EscapeStands, UnblockCandidate
<1> QED
  BY <1>1, <1>2, <1>3, <1>4 DEF BridgeInv

\* The lockdown switch moves the intent, and turned off the cover too.
LEMMA LockdownStep ==
  ASSUME BridgeInv, LockdownOn \/ LockdownOff
  PROVE  BridgeInv'
<1>0. phase = "serve" /\ phase' = phase
  BY Zenon DEF LockdownOn, LockdownOff, LockFree, Serving
<1>1. TypeOK'
  <2>1. /\ intent' \in Intents /\ adopted' \in BOOLEAN /\ os' \in {"Live", "Recorded", "Absent"}
        /\ faults' \in 0 .. env'.faults /\ clean' \in BOOLEAN
    <3>1. CASE LockdownOn
      BY <3>1
         DEF BridgeInv, TypeOK, LockdownOn, Intents, manager, budgets, ManagerType,
             BudgetsType
    <3>2. CASE LockdownOff
      <4>1. Spend \/ Free
        BY <3>2 DEF LockdownOff, ReleaseOk, ReleaseErr
      <4> QED
        BY <3>2, <4>1, BudgetType, Zenon
           DEF BridgeInv, TypeOK, LockdownOff, Intents, ReleaseOk, ReleaseErr, RecordsType,
               ManagerType
    <3> QED
      BY Zenon, <3>1, <3>2
  <2>2. UNCHANGED <<target, pref, phase, quit, session, active, death, ipc, queue, job, upc, own,
                    orphans, strays, cancels, escaped, stopped, diverged, gone, crashes, env>>
    BY Zenon DEF LockdownOn, LockdownOff, manager, history, budgets
  <2> QED
    BY <2>1, <2>2, TypeFrames
       DEF BridgeInv, TypeOK, RecordsType, ManagerType, HistoryType, BudgetsType
<1>2. /\ JobOK' /\ QuietOK' /\ AttemptsOK' /\ EscapeOK' /\ SessionOK' /\ StopOK'
      /\ BootOK' /\ CoverOK'
  BY <1>0, JobFrame, QuietFrame, AttemptsFrame, EscapeFrame, SessionFrame, StopFrame, NotBooting
     DEF BridgeInv, LockdownOn, LockdownOff, manager, ipc, history, budgets
<1> QED
  BY <1>1, <1>2 DEF BridgeInv

-----------------------------------------------------------------------------
(* The lock holder's records.                                              *)

\* A task and the place it is not.
LEMMA NoTaskIsNone == NoTask \notin Tasks /\ ~NoTask.ok /\ ~NoTask.half /\ NoTask.idle
  BY Zenon DEF NoTask, Tasks

LEMMA NoJobIsNone ==
  NoJob \notin Jobs /\ NoJob.kind = "none" /\ NoJob.pc = "none"
  BY Zenon DEF NoJob, Jobs

\* A stop carries its event and nothing else.
LEMMA StopJobIs ==
  ASSUME NEW kind \in {"stop", "health", "exit"}, NEW ev \in Events
  PROVE  /\ StopJob(kind, ev) \in Jobs /\ StopJob(kind, ev).kind = kind
         /\ StopJob(kind, ev).pc = "stop"
  BY Zenon, ConfigsAssumption DEF StopJob, NewJob, Jobs, Targets

\* A settled request keeps the lock and has nothing left to hand on.
LEMMA SettlingIs ==
  ASSUME NEW kind \in {"start", "reload"}
  PROVE  /\ Settling(kind) \in Jobs /\ Settling(kind).kind = kind
         /\ Settling(kind).pc = "persist"
  BY Zenon DEF Settling, NewJob, Jobs, Targets, Events

\* The task of a request or of the holder that served it.
LEMMA TaskIs ==
  ASSUME NEW r, NEW ok \in BOOLEAN, r.cfg \in Configs, r.push \in Startups \cup {None},
         r.snap \in Nat
  PROVE  /\ Task(r, ok) \in Tasks /\ Task(r, ok).cfg = r.cfg /\ Task(r, ok).snap = r.snap
         /\ Task(r, ok).ok = ok /\ ~Task(r, ok).half
  BY DEF Task, Tasks

\* A free lock has no task behind it.
LEMMA FreeLock ==
  ASSUME BridgeInv, LockFree
  PROVE  /\ phase = "serve" /\ job = NoJob /\ job.kind = "none" /\ job.pc = "none"
         /\ own = NoTask /\ ~Underway
  BY NoJobIsNone DEF BridgeInv, JobOK, LockFree, Serving, Underway

\* A stop, or the teardown of a dead session, takes a free lock.
LEMMA StopTakesStep ==
  ASSUME BridgeInv, handle_stop \/ check_health
  PROVE  BridgeInv'
<1>0. LockFree /\ phase' = phase
  BY DEF handle_stop, check_health
<1>1. /\ job' \in Jobs /\ job'.kind \in {"stop", "health"} /\ job'.pc = "stop"
      /\ ~Underway'
  BY Zenon, StopJobIs DEF handle_stop, check_health, Underway, Events
<1>2. TypeOK'
  <2>1. death' \in BOOLEAN
    BY Zenon DEF BridgeInv, TypeOK, handle_stop, check_health, manager, ManagerType
  <2> QED
    BY <1>1, <2>1, TypeFrames DEF BridgeInv, TypeOK, handle_stop, check_health, ManagerType
<1>3. QuietOK' /\ SessionOK' /\ BootOK' /\ CoverOK'
  BY <1>0, FreeLock, QuietFrame, SessionFrame, NotBooting
     DEF BridgeInv, handle_stop, check_health, records, manager, ipc, history, budgets
<1>4. JobOK'
  BY Zenon, <1>0, <1>1, FreeLock DEF JobOK, Holders, Places, StartPlaces, handle_stop, check_health
<1>5. AttemptsOK'
  BY <1>0, FreeLock DEF BridgeInv, AttemptsOK, CancelScoped, SlotNamesAStart,
     handle_stop, check_health, ipc, history, budgets
<1>6. EscapeOK'
  <2>1. Stamps' = Stamps
    BY Zenon, <1>0, <1>1, FreeLock DEF Stamps, handle_stop, check_health
  <2> QED
    BY Zenon, <2>1 DEF BridgeInv, EscapeOK, EscapeStands, handle_stop, check_health, records, ipc, history
<1>7. StopOK'
  BY <1>0, <1>1 DEF BridgeInv, StopOK, StopWins, handle_stop, check_health, records, history, budgets
<1> QED
  BY Zenon, <1>2, <1>3, <1>4, <1>5, <1>6, <1>7 DEF BridgeInv

\* A session that dies keeps its config.
LEMMA DiesStep ==
  ASSUME BridgeInv, SessionDies
  PROVE  BridgeInv'
<1>0. /\ session' \in [cfg : Configs, guard : BOOLEAN, alive : BOOLEAN]
      /\ session'.cfg = session.cfg /\ session # None
  BY Zenon DEF BridgeInv, TypeOK, SessionDies, ManagerType
<1>1. TypeOK'
  BY <1>0, TypeFrames DEF BridgeInv, TypeOK, SessionDies, ManagerType
<1>2. JobOK' /\ AttemptsOK' /\ EscapeOK' /\ StopOK' /\ CoverOK'
  BY JobFrame, AttemptsFrame, EscapeFrame, StopFrame, CoverFrame
     DEF BridgeInv, SessionDies, records, ipc, history, budgets
<1>3. SessionOK'
  BY <1>0 DEF BridgeInv, SessionOK, SessionDies, records, history, budgets
<1>4. QuietOK' /\ BootOK'
  BY <1>0 DEF BridgeInv, QuietOK, Quiet, BootOK, SessionDies, records, ipc, budgets
<1> QED
  BY <1>1, <1>2, <1>3, <1>4 DEF BridgeInv

-----------------------------------------------------------------------------
(* The tasks that write a start's records.                                 *)

\* A task that writes keeps its stamp, or ends.
LEMMA TaskNext ==
  ASSUME NEW t \in Tasks, NEW next, persist_after_start(t, next)
  PROVE  \/ next = NoTask
         \/ /\ next \in Tasks /\ next.cfg = t.cfg /\ next.snap = t.snap /\ next.ok = t.ok
            /\ next.half
  BY Zenon DEF persist_after_start, WriteTarget, WritePref, Tasks

\* It has something to write.
LEMMA TaskBusy ==
  ASSUME NEW t, NEW next, persist_after_start(t, next)
  PROVE  t # NoTask
  BY NoTaskIsNone DEF persist_after_start, WriteTarget, WritePref

\* What it writes: never a config its stamp is too old for.
LEMMA TaskWrites ==
  ASSUME TypeOK, NEW t \in Tasks, NEW next, persist_after_start(t, next)
  PROVE  /\ target' \in Targets /\ diverged' \in BOOLEAN
         /\ pref' \in [on_startup : Startups, candidate : Configs \cup {None}]
         /\ Spend \/ Free
         /\ t.snap # generation => target' = target /\ pref'.candidate = pref.candidate
<1>1. target' \in Targets
  BY DEF TypeOK, Tasks, Targets, persist_after_start, WriteTarget, WritePref, RecordsType
<1>2. diverged' \in BOOLEAN
  BY Zenon DEF TypeOK, persist_after_start, WriteTarget, WritePref, HistoryType
<1>3. pref' \in [on_startup : Startups, candidate : Configs \cup {None}]
  BY DEF TypeOK, Tasks, persist_after_start, WriteTarget, WritePref, RecordsType
<1>4. Spend \/ Free
  BY DEF persist_after_start, WriteTarget, WritePref
<1>5. t.snap # generation => target' = target /\ pref'.candidate = pref.candidate
  BY DEF persist_after_start, WriteTarget, WritePref, Declined
<1> QED
  BY <1>1, <1>2, <1>3, <1>4, <1>5

\* The holder's own task writes the config of its session.
LEMMA OwnTaskStep ==
  ASSUME BridgeInv, OwnTask
  PROVE  BridgeInv'
<1>0. /\ own \in Tasks /\ own # NoTask /\ job.pc = "persist" /\ job # NoJob
      /\ phase = "serve" /\ phase' = phase /\ job.kind \in {"start", "reload"}
  <2>1. own \in Tasks /\ own # NoTask /\ job.pc = "persist" /\ job # NoJob /\ phase' = phase
    BY Zenon, TaskBusy, NoJobIsNone DEF BridgeInv, TypeOK, JobOK, OwnTask
  <2> QED
    BY Zenon, <2>1 DEF BridgeInv, TypeOK, JobOK, Holders, Places, StartPlaces, Booting, Jobs
<1>1. /\ target' \in Targets /\ diverged' \in BOOLEAN
      /\ pref' \in [on_startup : Startups, candidate : Configs \cup {None}]
      /\ Spend \/ Free
      /\ own.snap # generation => target' = target /\ pref'.candidate = pref.candidate
  BY <1>0, TaskWrites DEF BridgeInv, OwnTask
<1>2. \/ own' = NoTask
      \/ /\ own' \in Tasks /\ own'.cfg = own.cfg /\ own'.snap = own.snap /\ own'.ok = own.ok
         /\ own'.half
  BY Zenon, <1>0, TaskNext DEF OwnTask
<1>3. TypeOK'
  BY <1>1, <1>2, BudgetType, TypeFrames
     DEF BridgeInv, TypeOK, OwnTask, RecordsType, HistoryType, BudgetsType
<1>4. QuietOK' /\ AttemptsOK' /\ BootOK' /\ CoverOK'
  BY Zenon, <1>0, QuietFrame, AttemptsFrame, NotBooting DEF BridgeInv, OwnTask, manager, ipc
<1>5. JobOK' /\ StopOK'
  BY <1>0 DEF BridgeInv, JobOK, StopOK, StopWins, Underway, Booting, OwnTask
<1>6. EscapeOK'
  <2>1. own.snap \in Stamps
    BY Zenon, <1>0 DEF Stamps
  <2>2. Stamps' \subseteq Stamps
    BY Zenon, <1>2, <2>1 DEF Stamps, Underway, OwnTask
  <2> QED
    BY <1>1, <2>1, <2>2, Zenon DEF BridgeInv, EscapeOK, EscapeStands, OwnTask, ipc
<1>7. SessionOK'
  <2>1. CASE WriteTarget(own, own')
    BY <1>0, <1>2, <2>1, NoTaskIsNone, Zenon DEF BridgeInv, SessionOK, OwnTask, WriteTarget, manager
  <2>2. CASE WritePref(own, own')
    BY <1>0, <2>2, NoTaskIsNone DEF BridgeInv, SessionOK, OwnTask, WritePref, manager
  <2> QED
    BY <2>1, <2>2 DEF OwnTask, persist_after_start
<1> QED
  BY <1>3, <1>4, <1>5, <1>6, <1>7 DEF BridgeInv

\* A task without a handler may write a config, but not over an unblock.
LEMMA OrphanStep ==
  ASSUME BridgeInv, OrphanTask
  PROVE  BridgeInv'
<1> PICK t \in orphans : \E next \in {NoTask, [t EXCEPT !.half = TRUE]} :
      persist_after_start(t, next) /\ orphans' = (orphans \ {t}) \cup ({next} \ {NoTask})
  BY Zenon DEF OrphanTask
<1> PICK next \in {NoTask, [t EXCEPT !.half = TRUE]} :
      persist_after_start(t, next) /\ orphans' = (orphans \ {t}) \cup ({next} \ {NoTask})
  BY Zenon
<1>0. /\ t \in Tasks /\ phase \in {"serve", "exit"} /\ phase' = phase
      /\ ~(gone = 0 /\ phase # "exit") /\ gone' = gone
  BY DEF BridgeInv, TypeOK, Booting, QuietOK, Quiet, SessionOK, OrphanTask, BudgetsType
<1>1. /\ target' \in Targets /\ diverged' \in BOOLEAN
      /\ pref' \in [on_startup : Startups, candidate : Configs \cup {None}]
      /\ Spend \/ Free
      /\ t.snap # generation => target' = target /\ pref'.candidate = pref.candidate
  BY <1>0, TaskWrites DEF BridgeInv
<1>2. next = NoTask \/ (next \in Tasks /\ next.snap = t.snap)
  BY Zenon, <1>0, TaskNext
<1>3. TypeOK'
  <2>1. orphans' \subseteq Tasks
    BY <1>2 DEF BridgeInv, TypeOK
  <2> QED
    BY <1>1, <2>1, BudgetType, TypeFrames
       DEF BridgeInv, TypeOK, OrphanTask, RecordsType, HistoryType, BudgetsType
<1>4. JobOK' /\ AttemptsOK' /\ BootOK' /\ CoverOK'
  BY <1>0, JobFrame, AttemptsFrame, NotBooting DEF BridgeInv, OrphanTask, ipc
<1>5. QuietOK' /\ StopOK'
  BY <1>0 DEF BridgeInv, QuietOK, StopOK, StopWins, OrphanTask
<1>6. EscapeOK'
  <2>1. t.snap \in Stamps
    BY DEF Stamps
  <2>2. Stamps' \subseteq Stamps
    BY <1>2, <2>1 DEF Stamps, Underway, OrphanTask
  <2> QED
    BY <1>1, <2>1, <2>2 DEF BridgeInv, EscapeOK, EscapeStands, OrphanTask, ipc
<1>7. SessionOK'
  BY <1>0 DEF BridgeInv, SessionOK, OrphanTask, manager
<1> QED
  BY <1>3, <1>4, <1>5, <1>6, <1>7 DEF BridgeInv

\* No event writes a config where there was none.
LEMMA EventTarget ==
  ASSUME NEW t \in Targets, NEW ev
  PROVE  /\ target_after(t, ev) \in Targets
         /\ apply(t, target_after(t, ev)) \in {t, Off}
  BY DEF target_after, apply, Targets

LEMMA StrayStep ==
  ASSUME BridgeInv, StrayEvent
  PROVE  BridgeInv'
<1> PICK ev \in strays : target' = apply(target, target_after(target, ev))
  BY Zenon DEF StrayEvent
<1>0. /\ phase \in {"serve", "exit"} /\ phase' = phase
      /\ ~(gone = 0 /\ phase # "exit") /\ gone' = gone
  BY Zenon DEF BridgeInv, TypeOK, Booting, QuietOK, Quiet, SessionOK, StrayEvent, budgets,
         BudgetsType
<1>1. target' \in Targets /\ target' \in {target, Off}
  BY Zenon, EventTarget DEF BridgeInv, TypeOK, Targets, RecordsType
<1>2. TypeOK'
  <2>1. diverged' \in BOOLEAN
    BY Zenon DEF StrayEvent
  <2>2. strays' \subseteq Events
    BY Zenon DEF BridgeInv, TypeOK, StrayEvent
  <2> QED
    BY <1>1, <2>1, <2>2, TypeFrames
       DEF BridgeInv, TypeOK, StrayEvent, RecordsType, HistoryType
<1>3. JobOK' /\ AttemptsOK' /\ BootOK' /\ CoverOK'
  BY <1>0, JobFrame, AttemptsFrame, NotBooting DEF BridgeInv, StrayEvent, ipc
<1>4. QuietOK' /\ StopOK'
  BY Zenon, <1>0 DEF BridgeInv, QuietOK, StopOK, StopWins, StrayEvent
<1>5. EscapeOK'
  BY Zenon, <1>1, ConfigsAssumption
     DEF BridgeInv, EscapeOK, EscapeStands, Stamps, Underway, StrayEvent, ipc
<1>6. SessionOK'
  BY <1>0 DEF BridgeInv, SessionOK, StrayEvent, manager
<1> QED
  BY <1>2, <1>3, <1>4, <1>5, <1>6 DEF BridgeInv

-----------------------------------------------------------------------------
(* A request gets the lock.                                                *)

\* It goes on to a start or a stop with its config and its generation, or
\* settles at once with a task that has them.
LEMMA AcquireStep ==
  ASSUME BridgeInv, Acquire
  PROVE  BridgeInv'
<1> DEFINE Busy(r, pc) == NewJob(r.kind, pc, r.cfg, r.push, r.snap, "Blipped", Unreadable)
<1>0. PICK r \in queue :
        /\ queue' = queue \ {r}
        /\ \/ /\ job' = Busy(r, "resolve") /\ UNCHANGED <<active, own, session>>
              /\ death' = FALSE
           \/ /\ job' = Settling(r.kind) /\ own' = Task(r, FALSE)
              /\ UNCHANGED <<active, death, session>>
           \/ /\ active' = r.cfg
              /\ session' = IF session = None THEN None ELSE [session EXCEPT !.cfg = r.cfg]
              /\ job' = Settling(r.kind) /\ own' = Task(r, TRUE) /\ UNCHANGED death
           \/ /\ job' = Busy(r, "stop") /\ UNCHANGED <<active, death, own, session>>
              /\ r.kind = "reload"
  <2>1. \A r \in queue : r.kind \in {"start", "reload"}
    BY DEF BridgeInv, TypeOK, Requests
  <2> QED
    BY <2>1, Zenon DEF Acquire
<1>1. /\ r \in Requests /\ r.kind \in {"start", "reload"} /\ r.cfg \in Configs
      /\ r.push \in Startups \cup {None} /\ r.snap \in Nat
  BY DEF BridgeInv, TypeOK, Requests
<1>2. /\ LockFree /\ phase = "serve" /\ phase' = phase /\ job = NoJob /\ job.kind = "none"
      /\ own = NoTask /\ ~Underway
  BY FreeLock DEF Acquire
<1>3. \A pc \in {"resolve", "stop"} :
        /\ Busy(r, pc) \in Jobs /\ Busy(r, pc).kind = r.kind /\ Busy(r, pc).pc = pc
        /\ Busy(r, pc).cfg = r.cfg /\ Busy(r, pc).snap = r.snap
  BY <1>1, Zenon DEF NewJob, Jobs, Targets, Events
<1>4. \A ok \in BOOLEAN :
        /\ Task(r, ok) \in Tasks /\ Task(r, ok).cfg = r.cfg /\ Task(r, ok).snap = r.snap
        /\ Task(r, ok).ok = ok /\ ~Task(r, ok).half
  BY <1>1, TaskIs
<1>5. /\ Settling(r.kind) \in Jobs /\ Settling(r.kind).kind = r.kind
      /\ Settling(r.kind).pc = "persist"
  BY <1>1, SettlingIs
<1> HIDE DEF Busy
<1>6. \/ /\ job' \in Jobs /\ job'.kind = r.kind /\ job'.pc \in {"resolve", "stop"}
         /\ job'.cfg = r.cfg /\ job'.snap = r.snap /\ UNCHANGED <<own, active, session>>
         /\ job'.pc = "stop" => r.kind = "reload"
      \/ /\ job' \in Jobs /\ job'.kind = r.kind /\ job'.pc = "persist"
         /\ own' \in Tasks /\ own'.cfg = r.cfg /\ own'.snap = r.snap /\ ~own'.half
         /\ \/ ~own'.ok /\ UNCHANGED <<active, session>>
            \/ /\ own'.ok /\ active' = r.cfg
               /\ session' = IF session = None THEN None ELSE [session EXCEPT !.cfg = r.cfg]
  BY <1>0, <1>3, <1>4, <1>5, Zenon
<1>7. TypeOK'
  <2>1. job' \in Jobs /\ own' \in Tasks \cup {NoTask} /\ queue' \subseteq Requests
    BY <1>0, <1>2, <1>6 DEF BridgeInv, TypeOK
  <2>2. /\ active' \in Configs \cup {None}
        /\ session' \in [cfg : Configs, guard : BOOLEAN, alive : BOOLEAN] \cup {None}
    BY <1>1, <1>6 DEF BridgeInv, TypeOK, ManagerType
  <2>3. death' \in BOOLEAN /\ stopped' \in BOOLEAN
    BY <1>0, Zenon DEF BridgeInv, TypeOK, Acquire, ManagerType, HistoryType
  <2> QED
    BY ZenonT(40), <2>1, <2>2, <2>3, TypeFrames DEF BridgeInv, TypeOK, Acquire, ManagerType, HistoryType
<1>8. QuietOK' /\ BootOK' /\ CoverOK' /\ StopOK'
  <2>1. ~stopped'
    BY DEF Acquire
  <2> QED
    BY <1>2, <2>1, NotBooting DEF QuietOK, StopOK, StopWins
<1>9. JobOK'
  <2>1. job'.kind \in Holders(phase') /\ job'.pc \in Places(job'.kind)
    BY <1>1, <1>2, <1>6 DEF Holders, Places, StartPlaces
  <2>2. (Underway \/ job.pc \in StartPlaces => job.cfg \in Configs)'
    BY <1>1, <1>6 DEF Underway, StartPlaces
  <2>3. (own # NoTask => job.pc = "persist")'
    BY <1>2, <1>6
  <2>4. (phase = "boot" => job # NoJob)'
    BY <1>2
  <2> QED
    BY <2>1, <2>2, <2>3, <2>4 DEF JobOK
<1>10. AttemptsOK'
  <2>1. SlotNamesAStart /\ slot' = slot => SlotNamesAStart'
    BY <1>0, <1>2, <1>6 DEF SlotNamesAStart
  <2> QED
    BY <1>2, <2>1 DEF BridgeInv, AttemptsOK, CancelScoped, Acquire, ipc, budgets
<1>11. EscapeOK'
  <2>1. r.snap \in Stamps
    BY DEF Stamps
  <2>2. Stamps' \subseteq Stamps
    BY ZenonT(40), <1>0, <1>2, <1>6, <2>1 DEF Stamps, Underway, Acquire
  <2> QED
    BY <2>2 DEF BridgeInv, EscapeOK, EscapeStands, Acquire, records, ipc
<1>12. SessionOK'
  <2>1. session' # None /\ own'.ok => session'.cfg = own'.cfg /\ active' = own'.cfg
    BY <1>2, <1>6, NoTaskIsNone DEF BridgeInv, TypeOK, ManagerType
  <2>2. own'.ok \/ UNCHANGED <<session, active>>
    BY <1>6
  <2>3. own'.ok => ~own'.half
    BY <1>2, <1>6, NoTaskIsNone
  <2> QED
    BY Zenon, <1>2, <2>1, <2>2, <2>3, NoTaskIsNone
       DEF BridgeInv, SessionOK, Acquire, records, budgets
<1> QED
  BY <1>7, <1>8, <1>9, <1>10, <1>11, <1>12 DEF BridgeInv

-----------------------------------------------------------------------------
(* A start, from the lock to the session.                                  *)

\* A holder at one of a start's places serves a request, or is the boot's.
LEMMA StartHolder ==
  ASSUME BridgeInv, job.pc \in StartPlaces
  PROVE  /\ job \in Jobs /\ job.cfg \in Configs /\ own = NoTask
         /\ \/ job.kind = "boot" /\ phase = "boot"
            \/ job.kind \in {"start", "reload"} /\ phase = "serve" /\ Underway
<1>1. job \in Jobs /\ job.cfg \in Configs /\ own = NoTask
  BY NoJobIsNone DEF BridgeInv, TypeOK, JobOK, StartPlaces
<1>2. job.kind \in Holders(phase) /\ job.pc \in Places(job.kind)
  BY <1>1, NoJobIsNone DEF BridgeInv, JobOK
<1>3. \/ job.kind = "boot" /\ phase = "boot"
      \/ job.kind \in {"start", "reload"} /\ phase = "serve"
  BY Zenon, <1>1, <1>2 DEF BridgeInv, TypeOK, Booting, Holders, Places, StartPlaces, Jobs
<1> QED
  BY Zenon, <1>1, <1>3 DEF Underway, StartPlaces

\* The two ways a start ends, and what they leave.
LEMMA SettleIs ==
  ASSUME BridgeInv, job.pc \in StartPlaces, NEW ok \in BOOLEAN, SettleStart(ok)
  PROVE  \/ /\ job.kind = "boot" /\ phase = "boot" /\ own = NoTask /\ own' = own
            /\ \/ /\ job.last /\ phase' = phase
                  /\ job' \in Jobs /\ job'.kind = "boot" /\ job'.pc = "release"
                  /\ job'.tgt = job.tgt /\ job'.last = job.last
               \/ ~job.last /\ job' = NoJob /\ phase' = "serve"
         \/ /\ job.kind \in {"start", "reload"} /\ phase = "serve" /\ phase' = phase
            /\ job' \in Jobs /\ job'.kind = job.kind /\ job'.pc = "persist"
            /\ own' \in Tasks /\ own'.cfg = job.cfg /\ own'.snap = job.snap
            /\ own'.ok = ok /\ ~own'.half
<1>1. /\ job \in Jobs /\ job.cfg \in Configs /\ own = NoTask
      /\ job.push \in Startups \cup {None} /\ job.snap \in Nat
  BY Zenon, StartHolder DEF Jobs
<1>2. CASE job.kind = "boot"
  <2>1. CASE job.last
    <3>1. job' = [job EXCEPT !.pc = "release", !.guard = FALSE] /\ phase' = phase /\ own' = own
      BY <1>2, <2>1 DEF SettleStart
    <3>2. /\ job' \in Jobs /\ job'.kind = "boot" /\ job'.pc = "release"
          /\ job'.tgt = job.tgt /\ job'.last = job.last
      BY <1>1, <1>2, <3>1, Zenon DEF Jobs
    <3> QED
      BY <1>1, <1>2, <2>1, <3>1, <3>2, StartHolder, Zenon
  <2>2. CASE ~job.last
    BY Zenon, <1>1, <1>2, <2>2, StartHolder DEF SettleStart
  <2> QED
    BY <2>1, <2>2
<1>3. CASE job.kind # "boot"
  <2>1. job' = Settling(job.kind) /\ own' = Task(job, ok) /\ phase' = phase
    BY <1>3 DEF SettleStart
  <2>2. job.kind \in {"start", "reload"} /\ phase = "serve"
    BY <1>3, StartHolder
  <2> QED
    BY <1>1, <2>1, <2>2, TaskIs, SettlingIs
<1> QED
  BY <1>2, <1>3

\* The end of a start disturbs nothing but the session and what it wrote.
LEMMA SettleKeeps ==
  ASSUME BridgeInv, job.pc \in StartPlaces, NEW ok \in BOOLEAN, SettleStart(ok),
         UNCHANGED <<target, intent, pref, adopted, ipc, queue, upc, orphans, strays,
                     cancels, escaped, stopped, gone>>,
         clean' => clean /\ os' \in {os, "Absent"}
  PROVE  JobOK' /\ QuietOK' /\ AttemptsOK' /\ EscapeOK' /\ StopOK' /\ BootOK' /\ CoverOK'
<1> DEFINE boot == /\ job.kind = "boot" /\ phase = "boot" /\ own = NoTask /\ own' = own
                   /\ \/ /\ job.last /\ phase' = phase
                         /\ job' \in Jobs /\ job'.kind = "boot" /\ job'.pc = "release"
                         /\ job'.tgt = job.tgt /\ job'.last = job.last
                      \/ ~job.last /\ job' = NoJob /\ phase' = "serve"
           request == /\ job.kind \in {"start", "reload"} /\ phase = "serve" /\ phase' = phase
                      /\ job' \in Jobs /\ job'.kind = job.kind /\ job'.pc = "persist"
                      /\ own' \in Tasks /\ own'.cfg = job.cfg /\ own'.snap = job.snap
                      /\ own'.ok = ok /\ ~own'.half
<1>1. boot \/ request
  BY Zenon, SettleIs
<1>2. JobOK'
  <2>1. CASE boot
    BY <2>1, NoJobIsNone DEF JobOK, Holders, Places, StartPlaces, Underway
  <2>2. CASE request
    BY <2>2, NoJobIsNone DEF JobOK, Holders, Places, StartPlaces, Underway
  <2> QED
    BY <1>1, <2>1, <2>2
<1>3. QuietOK'
  BY <1>1, Zenon DEF BridgeInv, QuietOK, Quiet, ipc
<1>4. AttemptsOK'
  <2>1. SlotNamesAStart => SlotNamesAStart'
    BY Zenon, <1>1, NoJobIsNone DEF SlotNamesAStart, ipc
  <2>2. phase # "exit" /\ phase' # "exit"
    BY <1>1
  <2> QED
    BY Zenon, <2>1, <2>2 DEF BridgeInv, AttemptsOK, CancelScoped, ipc
<1>5. EscapeOK'
  <2>1. Stamps' \subseteq Stamps
    <3>1. CASE boot
      BY Zenon, <3>1, NoJobIsNone DEF Stamps, Underway
    <3>2. CASE request
      <4>1. job.snap \in Stamps
        BY Zenon, <3>2, StartHolder DEF Stamps, Underway, StartPlaces
      <4> QED
        BY Zenon, <3>2, <4>1 DEF Stamps, Underway
    <3> QED
      BY ZenonT(40), <1>1, <3>1, <3>2
  <2> QED
    BY <2>1, ZenonT(40) DEF BridgeInv, EscapeOK, EscapeStands, ipc
<1>6. StopOK'
  BY Zenon, <1>1, NoJobIsNone DEF BridgeInv, StopOK, StopWins, Booting
<1>7. BootOK'
  <2>1. CASE boot /\ job.last
    <3>1. /\ job.tgt \in Configs \/ clean => target = job.tgt
          /\ job.cfg = job.tgt /\ job.cfg \in Configs
          /\ job.tgt = Off \/ ~lockdown_enabled(intent, adopted)
      BY Zenon, <2>1, StartHolder DEF BridgeInv, BootOK
    <3> QED
      BY <2>1, <3>1, ZenonT(40) DEF BootOK, StartPlaces
  <2>2. CASE phase' = "serve"
    BY Zenon, <2>2, NotBooting
  <2> QED
    BY Zenon, <1>1, <2>1, <2>2
<1>8. CoverOK'
  <2>1. CASE boot /\ job.last
    BY <2>1 DEF BridgeInv, CoverOK
  <2>2. CASE phase' = "serve"
    BY <2>2, NotBooting
  <2> QED
    BY Zenon, <1>1, <2>1, <2>2
<1> QED
  BY Zenon, <1>2, <1>3, <1>4, <1>5, <1>6, <1>7, <1>8

\* A start that fails leaves the session's records alone.
LEMMA FailSession ==
  ASSUME BridgeInv, job.pc \in StartPlaces, SettleStart(FALSE),
         UNCHANGED <<session, active, gone, orphans, strays, diverged, target>>
  PROVE  SessionOK'
<1>1. own = NoTask /\ phase' # "exit" /\ phase # "exit" /\ (own' = own \/ ~own'.ok)
  BY SettleIs, StartHolder, ZenonT(40)
<1> QED
  BY <1>1, NoTaskIsNone, Zenon DEF BridgeInv, SessionOK

\* One that commits has written its record at boot, and is about to otherwise.
LEMMA CommitSession ==
  ASSUME BridgeInv, job.pc \in StartPlaces, NEW guard \in BOOLEAN, Commit(guard),
         UNCHANGED <<gone, orphans, strays, target>>
  PROVE  /\ SessionOK'
         /\ session' \in [cfg : Configs, guard : BOOLEAN, alive : BOOLEAN]
         /\ session'.cfg = job.cfg /\ active' \in Configs /\ diverged' \in BOOLEAN
<1>0. SettleStart(TRUE) /\ active' = job.cfg /\ job.cfg \in Configs
  BY StartHolder, Zenon DEF Commit
<1>1. /\ session' \in [cfg : Configs, guard : BOOLEAN, alive : BOOLEAN]
      /\ session'.cfg = job.cfg
  BY <1>0 DEF Commit
<1>2. phase # "exit" /\ phase' # "exit" /\ own = NoTask
  BY <1>0, SettleIs, StartHolder, Zenon
<1>3. \/ own'.ok /\ ~own'.half /\ own'.cfg = job.cfg
      \/ own' = NoTask /\ target = job.cfg
  <2>1. job.kind = "boot" => target = job.cfg
    BY StartHolder DEF BridgeInv, BootOK
  <2> QED
    BY <1>0, <2>1, SettleIs, ZenonT(40)
<1>4. diverged' \in BOOLEAN
  BY Zenon DEF Commit
<1> QED
  BY <1>0, <1>1, <1>2, <1>3, <1>4, NoTaskIsNone DEF BridgeInv, SessionOK

\* A start that goes on to its next place disturbs nothing but the cover.
LEMMA MoveKeeps ==
  ASSUME BridgeInv, job.pc \in StartPlaces,
         UNCHANGED <<own, phase, target, pref, ipc, queue, upc, orphans, strays, session,
                     active, cancels, escaped, stopped, diverged, gone>>,
         job' \in Jobs, job'.kind = job.kind, job'.pc \in StartPlaces,
         job'.cfg = job.cfg, job'.snap = job.snap
  PROVE  JobOK' /\ QuietOK' /\ AttemptsOK' /\ EscapeOK' /\ StopOK' /\ SessionOK'
<1>1. QuietOK' /\ SessionOK'
  BY QuietFrame, SessionFrame DEF BridgeInv, ipc
<1>2. JobOK'
  <2>1. job # NoJob /\ own = NoTask /\ job.cfg \in Configs
    BY StartHolder, NoJobIsNone
  <2>2. job.pc \in Places(job.kind) => job'.pc \in Places(job'.kind)
    BY Zenon DEF Places, StartPlaces
  <2> QED
    BY <2>1, <2>2, NoJobIsNone, Zenon DEF BridgeInv, JobOK
<1>3. AttemptsOK' /\ StopOK'
  BY DEF BridgeInv, AttemptsOK, CancelScoped, SlotNamesAStart, StopOK, StopWins, ipc
<1>4. EscapeOK'
  <2>1. Underway' = Underway
    BY DEF Underway, StartPlaces
  <2>2. Stamps' = Stamps
    BY ZenonT(40), <2>1 DEF Stamps
  <2> QED
    BY <2>2, ZenonT(40) DEF BridgeInv, EscapeOK, EscapeStands, ipc
<1> QED
  BY Zenon, <1>1, <1>2, <1>3, <1>4

\* The types of what the end of a start moves.
LEMMA SettleType ==
  ASSUME BridgeInv, job.pc \in StartPlaces, NEW ok \in BOOLEAN, SettleStart(ok)
  PROVE  /\ job' \in Jobs \cup {NoJob} /\ own' \in Tasks \cup {NoTask}
         /\ phase' \in {"serve", "boot"}
  BY SettleIs

\* The server is resolved; the kill switch's expectation is read.
LEMMA ResolveServerStep ==
  ASSUME BridgeInv, ResolveServer
  PROVE  BridgeInv'
<1>0. job.pc = "resolve" /\ job.pc \in StartPlaces
  BY DEF ResolveServer, StartPlaces
<1>1. CASE SettleStart(FALSE)
  <2>0. /\ job' \in Jobs \cup {NoJob} /\ own' \in Tasks \cup {NoTask}
        /\ phase' \in {"serve", "boot"}
    BY <1>0, <1>1, SettleType, Zenon
  <2>1. TypeOK'
    BY <2>0, TypeFrames DEF BridgeInv, TypeOK, Booting, ResolveServer, RecordsType
  <2>2. SessionOK'
    BY <1>0, <1>1, FailSession DEF ResolveServer, records, manager, history, budgets
  <2>3. JobOK' /\ QuietOK' /\ AttemptsOK' /\ EscapeOK' /\ StopOK' /\ BootOK' /\ CoverOK'
    BY <1>0, <1>1, SettleKeeps, Zenon DEF ResolveServer, records, manager, history, budgets
  <2> QED
    BY <2>1, <2>2, <2>3 DEF BridgeInv
<1>2. CASE /\ job' = [job EXCEPT !.pc = "inner",
                        !.expect = standing_cover_expected(intent, adopted)]
           /\ UNCHANGED <<own, phase>>
  <2>1. /\ job' \in Jobs /\ job'.kind = job.kind /\ job'.pc = "inner" /\ job'.cfg = job.cfg
        /\ job'.snap = job.snap /\ job'.tgt = job.tgt /\ job'.last = job.last
        /\ job'.expect = standing_cover_expected(intent, adopted)
    BY <1>0, <1>2, StartHolder, Zenon DEF Jobs, standing_cover_expected, installs_standing_cover
  <2>2. TypeOK'
    BY <1>2, <2>1, TypeFrames DEF BridgeInv, TypeOK, ResolveServer, RecordsType
  <2>3. JobOK' /\ QuietOK' /\ AttemptsOK' /\ EscapeOK' /\ StopOK' /\ SessionOK'
    BY <1>0, <1>2, <2>1, MoveKeeps
       DEF StartPlaces, ResolveServer, records, manager, history, budgets
  <2>4. BootOK'
    BY <1>0, <1>2, <2>1
       DEF BridgeInv, BootOK, StartPlaces, ResolveServer, records, manager, budgets
  <2>5. CoverOK'
    BY <1>0, <1>2, <2>1, Zenon
       DEF BridgeInv, CoverOK, ResolveServer, records, manager, budgets,
           standing_cover_expected, installs_standing_cover, lockdown_enabled, reads_armed
  <2> QED
    BY <2>2, <2>3, <2>4, <2>5 DEF BridgeInv
<1> QED
  BY <1>1, <1>2, Zenon DEF ResolveServer

\* The tunnel comes up; without a TUN device the start is done.
LEMMA StartInnerStep ==
  ASSUME BridgeInv, StartInner
  PROVE  BridgeInv'
<1>0. job.pc = "inner" /\ job.pc \in StartPlaces
  BY DEF StartInner, StartPlaces
<1>1. CASE SettleStart(FALSE) /\ UNCHANGED <<session, active, diverged>>
  <2>0. /\ job' \in Jobs \cup {NoJob} /\ own' \in Tasks \cup {NoTask}
        /\ phase' \in {"serve", "boot"}
    BY <1>0, <1>1, SettleType, Zenon
  <2>1. TypeOK'
    BY <1>1, <2>0, TypeFrames
       DEF BridgeInv, TypeOK, Booting, StartInner, ManagerType, HistoryType
  <2>2. SessionOK'
    BY <1>0, <1>1, FailSession DEF StartInner, records, budgets
  <2>3. JobOK' /\ QuietOK' /\ AttemptsOK' /\ EscapeOK' /\ StopOK' /\ BootOK' /\ CoverOK'
    BY <1>0, <1>1, SettleKeeps, Zenon DEF StartInner, records, budgets
  <2> QED
    BY <2>1, <2>2, <2>3 DEF BridgeInv
<1>2. CASE Commit(FALSE)
  <2>0. /\ SettleStart(TRUE) /\ SessionOK'
        /\ session' \in [cfg : Configs, guard : BOOLEAN, alive : BOOLEAN]
        /\ active' \in Configs /\ diverged' \in BOOLEAN
    BY <1>0, <1>2, CommitSession, Zenon DEF Commit, StartInner, records, budgets
  <2>1. /\ job' \in Jobs \cup {NoJob} /\ own' \in Tasks \cup {NoTask}
        /\ phase' \in {"serve", "boot"}
    BY <1>0, <2>0, SettleType, Zenon
  <2>2. TypeOK'
    BY <2>0, <2>1, TypeFrames
       DEF BridgeInv, TypeOK, Booting, StartInner, ManagerType, HistoryType
  <2>3. JobOK' /\ QuietOK' /\ AttemptsOK' /\ EscapeOK' /\ StopOK' /\ BootOK' /\ CoverOK'
    BY <1>0, <2>0, SettleKeeps, Zenon DEF StartInner, records, budgets
  <2> QED
    BY <2>0, <2>2, <2>3 DEF BridgeInv
<1>3. CASE /\ job' = [job EXCEPT !.pc = "cover", !.expect = StillExpected]
           /\ UNCHANGED <<own, phase, session, active, diverged>>
  <2>0. job \in Jobs /\ job.expect \in BOOLEAN
    BY <1>0, StartHolder DEF Jobs
  <2>1. /\ job' \in Jobs /\ job'.kind = job.kind /\ job'.pc = "cover" /\ job'.cfg = job.cfg
        /\ job'.snap = job.snap /\ job'.tgt = job.tgt /\ job'.last = job.last
        /\ job'.expect = (job.expect /\ intent # "Off")
    BY <1>3, <2>0, Zenon DEF Jobs, StillExpected
  <2>2. TypeOK'
    BY <1>3, <2>1, TypeFrames DEF BridgeInv, TypeOK, StartInner, ManagerType, HistoryType
  <2>3. JobOK' /\ QuietOK' /\ AttemptsOK' /\ EscapeOK' /\ StopOK' /\ SessionOK'
    BY <1>0, <1>3, <2>1, MoveKeeps DEF StartPlaces, StartInner, records, budgets
  <2>4. BootOK'
    BY <1>0, <1>3, <2>1 DEF BridgeInv, BootOK, StartPlaces, StartInner, records, budgets
  <2>5. CoverOK'
    BY <1>0, <1>3, <2>1, Zenon DEF BridgeInv, CoverOK, StartInner, records, budgets
  <2> QED
    BY Zenon, <2>2, <2>3, <2>4, <2>5 DEF BridgeInv
<1> QED
  BY <1>1, <1>2, <1>3, Zenon DEF StartInner

\* The standing cover goes up if it is expected.
LEMMA InstallLockdownStep ==
  ASSUME BridgeInv, InstallLockdown
  PROVE  BridgeInv'
<1>0. job.pc = "cover" /\ job.pc \in StartPlaces
  BY DEF InstallLockdown, StartPlaces
<1>1. CASE ~job.expect /\ Goto("dns") /\ UNCHANGED <<os, intent>> /\ Free
  <2>1. /\ job' \in Jobs /\ job'.kind = job.kind /\ job'.pc = "dns" /\ job'.cfg = job.cfg
        /\ job'.snap = job.snap /\ job'.tgt = job.tgt /\ job'.last = job.last
        /\ UNCHANGED <<own, phase>>
    BY <1>0, <1>1, StartHolder DEF Goto, Jobs
  <2>2. TypeOK'
    <3>1. RecordsType'
      BY <1>1, TypeFrames DEF BridgeInv, TypeOK, InstallLockdown, records
    <3>2. ManagerType' /\ IpcType' /\ HistoryType'
      BY TypeFrames DEF BridgeInv, TypeOK, InstallLockdown, history
    <3>3. BudgetsType'
      BY <1>1, BudgetKept DEF BridgeInv, TypeOK, InstallLockdown
    <3> QED
      BY Zenon, <1>1, <2>1, <3>1, <3>2, <3>3 DEF BridgeInv, TypeOK, InstallLockdown
  <2>3. JobOK' /\ QuietOK' /\ AttemptsOK' /\ EscapeOK' /\ StopOK' /\ SessionOK'
    BY <1>0, <2>1, MoveKeeps DEF StartPlaces, InstallLockdown, manager
  <2>4. BootOK'
    BY Zenon, <1>0, <1>1, <2>1 DEF BridgeInv, BootOK, StartPlaces, InstallLockdown, manager, Free
  <2>5. CoverOK'
    BY Zenon, <1>0, <1>1, <2>1 DEF BridgeInv, CoverOK, Free
  <2> QED
    BY <2>2, <2>3, <2>4, <2>5 DEF BridgeInv
<1>2. CASE /\ job.expect /\ os' = "Live" /\ promote_adopted_claim
           /\ job' = [job EXCEPT !.pc = "dns", !.guard = TRUE] /\ UNCHANGED <<own, phase>>
  <2>1. /\ job' \in Jobs /\ job'.kind = job.kind /\ job'.pc = "dns" /\ job'.cfg = job.cfg
        /\ job'.snap = job.snap /\ job'.tgt = job.tgt /\ job'.last = job.last
    BY <1>0, <1>2, StartHolder, Zenon DEF Jobs
  <2>2. /\ intent' \in Intents /\ (intent' = intent \/ (intent' = "On" /\ intent # "Off"))
        /\ Spend \/ Free
    BY <1>2 DEF BridgeInv, TypeOK, Intents, promote_adopted_claim, RecordsType
  <2>3. TypeOK'
    <3>1. RecordsType'
      BY <2>2 DEF BridgeInv, TypeOK, RecordsType, InstallLockdown
    <3>2. ManagerType' /\ IpcType' /\ HistoryType'
      BY TypeFrames DEF BridgeInv, TypeOK, InstallLockdown, history
    <3>3. BudgetsType'
      BY <2>2, BudgetKept DEF BridgeInv, TypeOK, InstallLockdown
    <3> QED
      BY Zenon, <1>2, <2>1, <3>1, <3>2, <3>3 DEF BridgeInv, TypeOK, InstallLockdown
  <2>4. JobOK' /\ QuietOK' /\ AttemptsOK' /\ EscapeOK' /\ StopOK' /\ SessionOK'
    BY <1>0, <1>2, <2>1, MoveKeeps DEF StartPlaces, InstallLockdown, manager
  <2>5. clean' => clean
    BY <2>2, Zenon DEF Spend, Free
  \* A boot that owes a release does not expect a cover.
  <2>6. phase = "boot" => ~job.last /\ intent # "Off"
    BY Zenon, <1>0, <1>2, StartHolder, ConfigsAssumption
       DEF BridgeInv, BootOK, CoverOK, StartPlaces, lockdown_enabled
  <2>7. BootOK'
    BY <1>0, <1>2, <2>1, <2>5, <2>6 DEF BridgeInv, BootOK, StartPlaces, InstallLockdown, manager
  <2>8. CoverOK'
    BY Zenon, <1>0, <1>2, <2>1, <2>2, <2>6, StartHolder DEF CoverOK
  <2> QED
    BY <2>3, <2>4, <2>7, <2>8 DEF BridgeInv
<1>3. CASE /\ os' \in {os, "Recorded", "Absent"} /\ Spend /\ SettleStart(FALSE)
           /\ UNCHANGED intent
  <2>0. /\ job' \in Jobs \cup {NoJob} /\ own' \in Tasks \cup {NoTask}
        /\ phase' \in {"serve", "boot"}
    BY <1>0, <1>3, SettleType, Zenon
  <2>1. TypeOK'
    BY <1>3, <2>0, BudgetType, TypeFrames
       DEF BridgeInv, TypeOK, Booting, InstallLockdown, RecordsType, HistoryType,
           BudgetsType
  <2>2. SessionOK'
    BY <1>0, <1>3, FailSession DEF InstallLockdown, manager
  <2>3. JobOK' /\ QuietOK' /\ AttemptsOK' /\ EscapeOK' /\ StopOK' /\ BootOK' /\ CoverOK'
    BY <1>0, <1>3, SettleKeeps, Zenon DEF InstallLockdown, manager, Spend
  <2> QED
    BY <2>1, <2>2, <2>3 DEF BridgeInv
<1> QED
  BY <1>1, <1>2, <1>3, Zenon DEF InstallLockdown

\* Dropping a guard leaves the cover as it is or takes it down.
LEMMA DropGuardIs ==
  ASSUME TypeOK, NEW held, DropGuard(held)
  PROVE  os' \in {os, "Absent"} /\ (Spend \/ Free) /\ (clean' => clean)
  BY DEF DropGuard, Spend, Free

\* DNS is applied and the session stands, or all is unwound.
LEMMA ApplyDnsStep ==
  ASSUME BridgeInv, ApplyDns
  PROVE  BridgeInv'
<1>0. job.pc = "dns" /\ job.pc \in StartPlaces
  BY DEF ApplyDns, StartPlaces
<1>1. CASE Commit(job.guard) /\ UNCHANGED os /\ Free
  <2>0. job.guard \in BOOLEAN
    BY <1>0, StartHolder DEF Jobs
  <2>1. /\ SettleStart(TRUE) /\ SessionOK'
        /\ session' \in [cfg : Configs, guard : BOOLEAN, alive : BOOLEAN]
        /\ active' \in Configs /\ diverged' \in BOOLEAN
    BY <1>0, <1>1, <2>0, CommitSession, Zenon DEF Commit, ApplyDns, records
  <2>2. /\ job' \in Jobs \cup {NoJob} /\ own' \in Tasks \cup {NoTask}
        /\ phase' \in {"serve", "boot"}
    BY <1>0, <2>1, SettleType, ZenonT(40)
  <2>3. TypeOK'
    <3>1. RecordsType' /\ IpcType'
      BY Zenon, TypeFrames DEF BridgeInv, TypeOK, ApplyDns
    <3>2. ManagerType' /\ HistoryType'
      BY Zenon, <2>1 DEF BridgeInv, TypeOK, ManagerType, HistoryType, ApplyDns
    <3>3. BudgetsType'
      BY <1>1, BudgetKept DEF BridgeInv, TypeOK, ApplyDns
    <3> QED
      BY Zenon, <1>1, <2>2, <3>1, <3>2, <3>3 DEF BridgeInv, TypeOK, Booting, ApplyDns
  <2>4. JobOK' /\ QuietOK' /\ AttemptsOK' /\ EscapeOK' /\ StopOK' /\ BootOK' /\ CoverOK'
    BY <1>0, <1>1, <2>1, SettleKeeps, Zenon DEF ApplyDns, records, Free
  <2> QED
    BY <2>1, <2>3, <2>4 DEF BridgeInv
<1>2. CASE /\ DropGuard(job.guard) /\ SettleStart(FALSE)
           /\ UNCHANGED <<session, active, diverged>>
  <2>0. os' \in {os, "Absent"} /\ (Spend \/ Free) /\ (clean' => clean)
    BY <1>2, DropGuardIs DEF BridgeInv
  <2>1. /\ job' \in Jobs \cup {NoJob} /\ own' \in Tasks \cup {NoTask}
        /\ phase' \in {"serve", "boot"}
    BY <1>0, <1>2, SettleType, ZenonT(40)
  <2>2. TypeOK'
    <3>1. RecordsType' /\ ManagerType' /\ IpcType' /\ HistoryType'
      BY Zenon, <1>2, TypeFrames DEF BridgeInv, TypeOK, ApplyDns, manager, history
    <3>2. BudgetsType'
      BY Zenon, <2>0, BudgetKept DEF BridgeInv, TypeOK, ApplyDns
    <3> QED
      BY Zenon, <2>0, <2>1, <3>1, <3>2 DEF BridgeInv, TypeOK, Booting, ApplyDns
  <2>3. SessionOK'
    BY <1>0, <1>2, FailSession DEF ApplyDns, records
  <2>4. JobOK' /\ QuietOK' /\ AttemptsOK' /\ EscapeOK' /\ StopOK' /\ BootOK' /\ CoverOK'
    BY <1>0, <1>2, <2>0, SettleKeeps, Zenon DEF ApplyDns, records
  <2> QED
    BY <2>2, <2>3, <2>4 DEF BridgeInv
<1> QED
  BY <1>1, <1>2, Zenon DEF ApplyDns

\* The handler lets go of the lock and of the slot once its task is done.
LEMMA FinishStartStep ==
  ASSUME BridgeInv, FinishStart
  PROVE  BridgeInv'
<1>0. /\ job.pc = "persist" /\ job # NoJob /\ job' = NoJob /\ phase = "serve" /\ phase' = phase
      /\ own = NoTask /\ own' = own /\ job.kind \in {"start", "reload"}
      /\ ~Underway /\ ~Underway'
  <2>1. job.pc = "persist" /\ job # NoJob /\ job' = NoJob /\ phase' = phase /\ own = NoTask
    BY NoJobIsNone DEF FinishStart, PersistDone
  <2>2. job.kind \in {"start", "reload"} /\ phase = "serve"
    BY Zenon, <2>1 DEF BridgeInv, TypeOK, JobOK, Holders, Places, StartPlaces, Booting, Jobs
  <2> QED
    BY Zenon, <2>1, <2>2, NoJobIsNone DEF Underway, FinishStart
<1>1. TypeOK'
  <2>1. slot' \in Ids \cup {NoId, None}
    BY Zenon DEF BridgeInv, TypeOK, FinishStart, IpcType
  <2>2. tok' \in BOOLEAN
    BY Zenon DEF FinishStart
  <2> QED
    BY Zenon, <1>0, <2>1, <2>2, TypeFrames DEF BridgeInv, TypeOK, FinishStart, IpcType
<1>2. JobOK' /\ QuietOK' /\ BootOK' /\ CoverOK'
  BY Zenon, <1>0, NotBooting, NoJobIsNone DEF JobOK, StartPlaces, QuietOK
<1>3. SessionOK'
  BY Zenon, <1>0, SessionFrame DEF BridgeInv, FinishStart, records, manager, history, budgets
<1>4. EscapeOK'
  <2>1. Stamps' = Stamps
    BY Zenon, <1>0 DEF Stamps, FinishStart
  <2> QED
    BY Zenon, <2>1 DEF BridgeInv, EscapeOK, EscapeStands, FinishStart, records, history
<1>5. AttemptsOK'
  <2>1. slot' \in {slot, None} /\ (tok' => tok) /\ (job.kind = "start" => slot' = None)
    BY Zenon DEF FinishStart
  <2>2. SlotNamesAStart => SlotNamesAStart'
    BY Zenon, <1>0, <2>1 DEF SlotNamesAStart, FinishStart
  <2> QED
    BY <1>0, <2>1, <2>2 DEF BridgeInv, AttemptsOK, CancelScoped, FinishStart, history, budgets
<1>6. StopOK'
  BY Zenon, <1>0, NoJobIsNone
     DEF BridgeInv, StopOK, StopWins, Booting, FinishStart, records, history, budgets
<1> QED
  BY Zenon, <1>1, <1>2, <1>3, <1>4, <1>5, <1>6 DEF BridgeInv


-----------------------------------------------------------------------------
(* stop_with.                                                              *)

\* A holder that stops a session serves a reload, a stop or a dead session,
\* or is the exit's.
LEMMA StopHolder ==
  ASSUME BridgeInv, job.pc \in {"stop", "teardown"}
  PROVE  /\ job \in Jobs /\ own = NoTask
         /\ \/ job.kind = "reload" /\ phase = "serve" /\ Underway /\ job.cfg \in Configs
            \/ job.kind \in {"stop", "health"} /\ phase = "serve" /\ ~Underway
            \/ job.kind = "exit" /\ phase = "exit" /\ ~Underway
<1>1. job \in Jobs /\ own = NoTask
  BY Zenon, NoJobIsNone DEF BridgeInv, TypeOK, JobOK
<1>2. job.kind \in Holders(phase) /\ job.pc \in Places(job.kind)
  BY <1>1, NoJobIsNone DEF BridgeInv, JobOK
<1>3. \/ job.kind \in {"reload", "stop", "health"} /\ phase = "serve"
      \/ job.kind = "exit" /\ phase = "exit"
  BY Zenon, <1>1, <1>2 DEF BridgeInv, TypeOK, Booting, Holders, Places, StartPlaces, Jobs
<1> QED
  BY Zenon, <1>1, <1>3 DEF BridgeInv, JobOK, Underway

\* What a stop leaves of its holder: it goes on, it settles, or it is done.
StopMoves ==
  /\ phase' = phase
  /\ \/ /\ job' \in Jobs /\ job'.kind = job.kind /\ job'.cfg = job.cfg /\ job'.snap = job.snap
        /\ \/ job'.pc = "teardown"
           \/ job.kind = "reload" /\ job'.pc = "resolve"
        /\ own' = own
     \/ /\ job.kind = "reload" /\ job' \in Jobs /\ job'.kind = job.kind /\ job'.pc = "persist"
        /\ own' \in Tasks /\ own'.snap = job.snap
     \/ job.kind # "reload" /\ job' = NoJob /\ own' = own

LEMMA AfterStopIs ==
  ASSUME BridgeInv, job.pc \in {"stop", "teardown"}, NEW ok, AfterStop(ok)
  PROVE  StopMoves /\ (job' # NoJob => job'.pc \in {"resolve", "persist"})
<1>1. job \in Jobs /\ (job.kind = "reload" => job.cfg \in Configs)
  BY StopHolder
<1>2. CASE job.kind = "reload" /\ ok
  <2>1. job' = [job EXCEPT !.pc = "resolve", !.guard = FALSE] /\ UNCHANGED <<own, phase>>
    BY <1>2 DEF AfterStop
  <2> QED
    BY <1>1, <1>2, <2>1, Zenon DEF StopMoves, Jobs
<1>3. CASE job.kind = "reload" /\ ~ok
  <2>1. job' = Settling(job.kind) /\ own' = Task(job, FALSE) /\ phase' = phase
    BY <1>3 DEF AfterStop
  <2>2. job.push \in Startups \cup {None} /\ job.snap \in Nat
    BY <1>1 DEF Jobs
  <2> QED
    BY <1>1, <1>3, <2>1, <2>2, SettlingIs, TaskIs, Zenon DEF StopMoves
<1>4. CASE job.kind # "reload"
  BY Zenon, <1>4 DEF AfterStop, StopMoves
<1> QED
  BY Zenon, <1>2, <1>3, <1>4

\* A stop moves the target to Off or not at all, and disturbs no attempt.
LEMMA StopKeeps ==
  ASSUME BridgeInv, job.pc \in {"stop", "teardown"}, StopMoves,
         UNCHANGED <<pref, ipc, queue, upc, orphans, strays, cancels, escaped, gone>>,
         target' \in {target, Off}, session' = None,
         stopped' => stopped \/ (job.kind = "stop" /\ target' = Off)
  PROVE  /\ JobOK' /\ QuietOK' /\ AttemptsOK' /\ EscapeOK' /\ SessionOK' /\ StopOK'
         /\ BootOK' /\ CoverOK'
<1>0. /\ phase \in {"serve", "exit"} /\ phase' = phase /\ own = NoTask /\ job # NoJob
      /\ job.kind \in {"reload", "stop", "health", "exit"}
  BY Zenon, StopHolder, NoJobIsNone DEF StopMoves
<1>1. JobOK'
  <2>1. CASE job' = NoJob /\ own' = own
    BY Zenon, <1>0, <2>1, NoJobIsNone DEF JobOK, Underway, StartPlaces
  <2>2. CASE job' # NoJob
    <3>1. job' \in Jobs /\ job'.kind = job.kind /\ job'.pc \in {"teardown", "resolve", "persist"}
          /\ (job'.pc = "teardown" \/ job.kind = "reload")
          /\ (job'.pc = "persist" \/ (own' = own /\ job'.cfg = job.cfg))
      BY Zenon, <2>2 DEF StopMoves
    <3>2. job'.kind \in Holders(phase') /\ job'.pc \in Places(job'.kind)
      <4>1. job.kind \in Holders(phase)
        BY <1>0 DEF BridgeInv, JobOK
      <4>2. job'.pc \in Places(job'.kind)
        BY Zenon, <1>0, <3>1 DEF Places, StartPlaces
      <4> QED
        BY Zenon, <1>0, <3>1, <4>1, <4>2
    <3>3. (Underway \/ job.pc \in StartPlaces => job.cfg \in Configs)'
      BY Zenon, <3>1, StopHolder DEF Underway, StartPlaces
    <3> QED
      BY Zenon, <1>0, <2>2, <3>1, <3>2, <3>3 DEF JobOK
  <2> QED
    BY Zenon, <1>0, <2>1, <2>2, NoJobIsNone DEF StopMoves
<1>2. QuietOK' /\ BootOK' /\ CoverOK'
  BY Zenon, <1>0, NotBooting DEF QuietOK
<1>3. AttemptsOK'
  <2>1. SlotNamesAStart => SlotNamesAStart'
    BY <1>0 DEF SlotNamesAStart, ipc
  <2> QED
    BY Zenon, <1>0, <2>1 DEF BridgeInv, AttemptsOK, CancelScoped, ipc
<1>4. EscapeOK'
  <2>1. Stamps' \subseteq Stamps
    <3>1. job.kind = "reload" => job.snap \in Stamps
      BY StopHolder, Zenon DEF Stamps
    <3> QED
      BY <1>0, <3>1, NoJobIsNone, ZenonT(40) DEF Stamps, Underway, StopMoves
  <2> QED
    BY <2>1, ConfigsAssumption, Zenon DEF BridgeInv, EscapeOK, EscapeStands, ipc
<1>5. SessionOK'
  BY Zenon, <1>0 DEF BridgeInv, SessionOK
<1>6. StopOK'
  <2>1. job' = NoJob \/ job'.kind = job.kind
    BY Zenon DEF StopMoves
  <2>2. job.kind = "stop" => job'.kind \notin {"start", "reload"}
    BY <2>1, NoJobIsNone
  <2>3. stopped /\ phase = "serve" => job'.kind \notin {"start", "reload"}
    BY <2>1, NoJobIsNone DEF BridgeInv, StopOK
  <2> QED
    BY <1>0, <2>2, <2>3 DEF BridgeInv, StopOK, StopWins, Booting
<1> QED
  BY Zenon, <1>1, <1>2, <1>3, <1>4, <1>5, <1>6

LEMMA StopPersistStep ==
  ASSUME BridgeInv, StopPersist
  PROVE  BridgeInv'
<1>0. job.pc \in {"stop", "teardown"} /\ job \in Jobs
  BY StopHolder DEF StopPersist
<1>1. PICK t \in Targets :
        /\ \/ /\ t = target_after(target, job.ev)
              /\ target' = apply(target, t)
              /\ UNCHANGED diverged /\ Free
           \/ /\ t \in {target, Unreadable}
              /\ UNCHANGED target
              /\ diverged' = TRUE /\ Spend
        /\ \/ /\ session = None
              /\ AfterStop(TRUE)
              /\ death' = (death /\ job.kind # "reload")
              /\ stopped' = (stopped \/ (job.kind = "stop" /\ target' = Off))
              /\ UNCHANGED session
           \/ /\ session # None
              /\ session' = None
              /\ job' = [job EXCEPT !.pc = "teardown", !.tgt = t, !.guard = session.guard]
              /\ UNCHANGED <<own, phase, stopped, death>>
  BY Zenon DEF StopPersist
<1>2. target' \in {target, Off} /\ target' \in Targets /\ (Spend \/ Free)
  BY <1>1, EventTarget DEF BridgeInv, TypeOK, Targets, RecordsType
<1>3. session' = None /\ (stopped' => stopped \/ (job.kind = "stop" /\ target' = Off))
  <2>1. session' = None
    BY <1>1, Zenon
  <2>2. stopped' => stopped \/ (job.kind = "stop" /\ target' = Off)
    BY <1>1, Zenon
  <2> QED
    BY <2>1, <2>2
<1>4. StopMoves /\ job' \in Jobs \cup {NoJob} /\ own' \in Tasks \cup {NoTask}
  <2>1. CASE AfterStop(TRUE)
    BY <1>0, <2>1, AfterStopIs, Zenon DEF BridgeInv, TypeOK, StopMoves
  <2>2. CASE /\ session # None /\ UNCHANGED <<own, phase>>
             /\ job' = [job EXCEPT !.pc = "teardown", !.tgt = t, !.guard = session.guard]
    <3>1. session.guard \in BOOLEAN
      BY <2>2 DEF BridgeInv, TypeOK, ManagerType
    <3>2. /\ job' \in Jobs /\ job'.kind = job.kind /\ job'.cfg = job.cfg
          /\ job'.snap = job.snap /\ job'.pc = "teardown"
      BY <1>0, <2>2, <3>1, Zenon DEF Jobs
    <3> QED
      BY <2>2, <3>2 DEF BridgeInv, TypeOK, StopMoves, ManagerType
  <2> QED
    BY <1>1, <2>1, <2>2, Zenon
<1>5. TypeOK'
  <2>1. diverged' \in BOOLEAN /\ death' \in BOOLEAN /\ stopped' \in BOOLEAN
    <3>1. diverged' \in BOOLEAN
      BY <1>1, Zenon DEF BridgeInv, TypeOK, HistoryType
    <3>2. death' \in BOOLEAN /\ stopped' \in BOOLEAN
      BY <1>1, Zenon DEF BridgeInv, TypeOK, ManagerType, HistoryType
    <3> QED
      BY <3>1, <3>2
  <2>2. phase' = phase
    BY <1>4 DEF StopMoves
  <2> QED
    <3>1. RecordsType'
      BY <1>2 DEF BridgeInv, TypeOK, RecordsType, StopPersist
    <3>2. ManagerType' /\ HistoryType'
      BY Zenon, <1>3, <2>1 DEF BridgeInv, TypeOK, ManagerType, HistoryType, StopPersist
    <3>3. IpcType'
      BY TypeFrames DEF BridgeInv, TypeOK, StopPersist
    <3>4. BudgetsType'
      BY BudgetKept DEF BridgeInv, TypeOK, StopPersist
    <3> QED
      BY Zenon, <1>4, <2>2, <3>1, <3>2, <3>3, <3>4 DEF BridgeInv, TypeOK, StopPersist
<1>6. /\ JobOK' /\ QuietOK' /\ AttemptsOK' /\ EscapeOK' /\ SessionOK' /\ StopOK'
      /\ BootOK' /\ CoverOK'
  BY <1>0, <1>2, <1>3, <1>4, StopKeeps DEF StopPersist
<1> QED
  BY <1>5, <1>6 DEF BridgeInv

\* The session is gone by the time its surfaces are torn down.
TornDown == job.pc = "teardown" => session = None

LEMMA TeardownStep ==
  ASSUME BridgeInv, TornDown, Teardown
  PROVE  BridgeInv'
<1>0. /\ job.pc \in {"stop", "teardown"} /\ job \in Jobs /\ session' = None
      /\ UNCHANGED <<target, session>> /\ (\E ok \in BOOLEAN : AfterStop(ok))
  BY StopHolder DEF Teardown, TornDown, records
<1>1. /\ os' \in {"Live", "Recorded", "Absent"} /\ (Spend \/ Free)
      /\ adopted' \in BOOLEAN
  <2>1. os' \in {"Live", "Recorded", "Absent"} /\ (Spend \/ Free)
    BY Zenon DEF BridgeInv, TypeOK, Teardown, Probe
  <2>2. adopted' \in BOOLEAN
    BY Zenon DEF BridgeInv, TypeOK, Teardown, ManagerType
  <2> QED
    BY <2>1, <2>2
<1>2. StopMoves /\ job' \in Jobs \cup {NoJob} /\ own' \in Tasks \cup {NoTask}
  BY <1>0, AfterStopIs, ZenonT(40) DEF BridgeInv, TypeOK, StopMoves
<1>3. stopped' = (stopped \/ (job.kind = "stop" /\ target = Off))
  BY DEF Teardown
<1>4. TypeOK'
  <2>1. death' \in BOOLEAN /\ stopped' \in BOOLEAN /\ active' = None /\ phase' = phase
    BY <1>2, Zenon DEF BridgeInv, TypeOK, Teardown, StopMoves, ManagerType, HistoryType
  <2> QED
    <3>1. RecordsType' /\ IpcType'
      BY Zenon, TypeFrames DEF BridgeInv, TypeOK, Teardown
    <3>2. ManagerType' /\ HistoryType'
      BY <1>0, <1>1, <2>1 DEF BridgeInv, TypeOK, ManagerType, HistoryType, Teardown
    <3>3. BudgetsType'
      BY Zenon, <1>1, BudgetKept DEF BridgeInv, TypeOK, Teardown
    <3> QED
      BY ZenonT(40), <1>1, <1>2, <2>1, <3>1, <3>2, <3>3 DEF BridgeInv, TypeOK, Teardown
<1>5. /\ JobOK' /\ QuietOK' /\ AttemptsOK' /\ EscapeOK' /\ SessionOK' /\ StopOK'
      /\ BootOK' /\ CoverOK'
  BY <1>0, <1>2, <1>3, StopKeeps, Zenon DEF Teardown, records
<1> QED
  BY Zenon, <1>4, <1>5 DEF BridgeInv

-----------------------------------------------------------------------------
(* Clients that hang up, and the end of a process.                         *)

\* A dropped handler's task outlives it, with the same stamp.
LEMMA DropIs ==
  ASSUME BridgeInv, DropHandler, job = NoJob \/ AtAwait
  PROVE  /\ own' = NoTask /\ orphans' \subseteq Tasks /\ strays' \subseteq Events
         /\ {t.snap : t \in orphans'} = {t.snap : t \in orphans \cup ({own} \ {NoTask})}
         /\ os' \in {os, "Absent"} /\ (Spend \/ Free)
<1>1. own' = NoTask /\ orphans' = orphans \cup ({own} \ {NoTask})
  BY DEF DropHandler
<1>2. orphans' \subseteq Tasks
  BY <1>1, Zenon DEF BridgeInv, TypeOK
<1>3. strays' \subseteq Events
  <2>1. AtAwait => job.ev \in Events
    BY NoJobIsNone, Zenon DEF BridgeInv, TypeOK, AtAwait, Jobs
  <2> QED
    BY <2>1, Zenon DEF BridgeInv, TypeOK, DropHandler
<1>4. os' \in {os, "Absent"} /\ (Spend \/ Free)
  BY Zenon, DropGuardIs DEF BridgeInv, DropHandler
<1> QED
  BY <1>1, <1>2, <1>3, <1>4

\* From here on a client has hung up.
LEMMA ClientGoneStep ==
  ASSUME BridgeInv, ClientGone
  PROVE  BridgeInv'
<1>0. /\ phase = "serve" /\ phase' = phase /\ gone' \in 0 .. env.gone /\ gone' # 0
      /\ gone \in Nat
  <2>1. TypeOK /\ BudgetsType
    BY Zenon DEF BridgeInv, TypeOK
  <2>2. gone \in 0 .. env.gone /\ env.gone \in Nat
    BY <2>1, EnvValues DEF BudgetsType
  <2>3. phase = "serve" /\ phase' = phase /\ gone < env.gone /\ gone' = gone + 1
    BY Zenon DEF ClientGone
  <2> QED
    BY <2>2, <2>3
<1>1. CASE AtAwait /\ DropHandler /\ job' = NoJob /\ UNCHANGED queue
  <2>0. /\ own' = NoTask /\ orphans' \subseteq Tasks /\ strays' \subseteq Events
        /\ {t.snap : t \in orphans'} = {t.snap : t \in orphans \cup ({own} \ {NoTask})}
        /\ os' \in {os, "Absent"} /\ (Spend \/ Free)
    BY <1>1, DropIs, Zenon
  <2>1. TypeOK'
    BY Zenon, <1>0, <1>1, <2>0, BudgetType, TypeFrames
       DEF BridgeInv, TypeOK, ClientGone, BudgetsType
  <2>2. JobOK' /\ QuietOK' /\ BootOK' /\ CoverOK'
    BY <1>0, <1>1, <2>0, NoJobIsNone, NotBooting, ZenonT(40) DEF JobOK, QuietOK, Underway, StartPlaces
  <2>3. AttemptsOK' /\ StopOK'
    BY <1>0, <1>1, NoJobIsNone
       DEF BridgeInv, AttemptsOK, CancelScoped, StopOK, StopWins, Booting, ClientGone, ipc, history
  <2>4. EscapeOK'
    <3>1. Stamps' \subseteq Stamps
      BY <1>1, <2>0, NoJobIsNone, ZenonT(40) DEF Stamps, Underway
    <3> QED
      BY <3>1, Zenon DEF BridgeInv, EscapeOK, EscapeStands, ClientGone, records, ipc, history
  <2>5. SessionOK'
    BY Zenon, <1>0, <2>0, NoTaskIsNone DEF BridgeInv, SessionOK, ClientGone, manager
  <2> QED
    BY <2>1, <2>2, <2>3, <2>4, <2>5 DEF BridgeInv
<1>2. CASE /\ \E r \in queue : queue' = queue \ {r}
           /\ UNCHANGED <<os, job, own, orphans, strays>> /\ Free
  <2>1. TypeOK'
    BY ZenonT(40), <1>0, <1>2, BudgetType, TypeFrames DEF BridgeInv, TypeOK, ClientGone, BudgetsType
  <2>2. JobOK' /\ QuietOK' /\ BootOK' /\ CoverOK'
    BY Zenon, <1>0, <1>2, JobFrame, NotBooting DEF BridgeInv, QuietOK, ClientGone
  <2>3. AttemptsOK' /\ StopOK'
    BY <1>0, <1>2
       DEF BridgeInv, AttemptsOK, CancelScoped, StopOK, StopWins, Booting, ClientGone, ipc, history
  <2>4. EscapeOK'
    <3>1. Stamps' \subseteq Stamps
      BY <1>2 DEF Stamps, Underway
    <3> QED
      BY <3>1, ZenonT(40) DEF BridgeInv, EscapeOK, EscapeStands, ClientGone, records, ipc, history
  <2>5. SessionOK'
    BY <1>0, <1>2, ZenonT(40) DEF BridgeInv, SessionOK, ClientGone, manager
  <2> QED
    BY <2>1, <2>2, <2>3, <2>4, <2>5 DEF BridgeInv
<1> QED
  BY <1>1, <1>2 DEF ClientGone

LEMMA ShutdownStep ==
  ASSUME BridgeInv, NEW ev \in env.quits, Shutdown(ev)
  PROVE  BridgeInv'
<1>1. TypeOK'
  <2>1. ev \in Events
    BY EnvValues DEF BridgeInv
  <2> QED
    BY Zenon, <2>1, TypeFrames DEF BridgeInv, TypeOK, Shutdown, RecordsType
<1>2. /\ JobOK' /\ QuietOK' /\ AttemptsOK' /\ EscapeOK' /\ SessionOK' /\ StopOK'
      /\ BootOK' /\ CoverOK'
  BY JobFrame, QuietFrame, AttemptsFrame, EscapeFrame, SessionFrame, StopFrame, BootFrame,
     CoverFrame, Zenon DEF BridgeInv, Shutdown, records, manager, ipc, history, budgets
<1> QED
  BY <1>1, <1>2 DEF BridgeInv

\* The exit drops the handlers and stops the session.
LEMMA BeginExitStep ==
  ASSUME BridgeInv, BeginExit
  PROVE  BridgeInv'
<1>0. /\ own' = NoTask /\ orphans' \subseteq Tasks /\ strays' \subseteq Events
      /\ {t.snap : t \in orphans'} = {t.snap : t \in orphans \cup ({own} \ {NoTask})}
      /\ os' \in {os, "Absent"} /\ (Spend \/ Free)
  BY DropIs, Zenon DEF BeginExit
<1>1. job' \in Jobs /\ job'.kind = "exit" /\ job'.pc = "stop" /\ phase' = "exit" /\ queue' = {}
  <2>1. quit \in Events
    BY DEF BridgeInv, TypeOK, BeginExit
  <2> QED
    BY Zenon, <2>1, StopJobIs DEF BeginExit
<1>2. TypeOK'
  BY Zenon, <1>0, <1>1, BudgetType, TypeFrames DEF BridgeInv, TypeOK, BeginExit, BudgetsType
<1>3. JobOK' /\ QuietOK' /\ BootOK' /\ CoverOK'
  BY Zenon, <1>0, <1>1, NotBooting DEF JobOK, QuietOK, Underway, StartPlaces, Holders, Places
<1>4. AttemptsOK' /\ StopOK'
  BY <1>1 DEF BridgeInv, AttemptsOK, CancelScoped, StopOK, StopWins, Booting, BeginExit, ipc, history
<1>5. EscapeOK'
  <2>1. Stamps' \subseteq Stamps
    BY <1>0, <1>1, Zenon DEF Stamps, Underway
  <2> QED
    BY <2>1, Zenon DEF BridgeInv, EscapeOK, EscapeStands, BeginExit, records, ipc, history
<1>6. SessionOK'
  BY <1>0, <1>1, NoTaskIsNone, Zenon DEF BridgeInv, SessionOK, BeginExit, manager
<1> QED
  BY <1>2, <1>3, <1>4, <1>5, <1>6 DEF BridgeInv

\* Nothing but the records and the cover outlives the process.
LEMMA GoneStep ==
  ASSUME BridgeInv, Exit \/ Crash
  PROVE  BridgeInv'
<1>0. ProcessGone /\ crashes' \in 0 .. env.crashes
  BY EnvValues DEF BridgeInv, TypeOK, Exit, Crash, BudgetsType
<1>1. TypeOK'
  BY <1>0, TypeFrames, ZenonT(40)
     DEF BridgeInv, TypeOK, ProcessGone, ManagerType, IpcType, HistoryType, BudgetsType
<1>2. JobOK' /\ QuietOK' /\ BootOK' /\ CoverOK'
  BY Zenon, <1>0, NoJobIsNone, NotBooting
     DEF JobOK, QuietOK, Quiet, Underway, StartPlaces, ProcessGone
<1>3. AttemptsOK' /\ StopOK' /\ SessionOK'
  BY Zenon, <1>0 DEF AttemptsOK, CancelScoped, SlotNamesAStart, StopOK, StopWins, Booting, SessionOK,
     ProcessGone
<1>4. EscapeOK'
  <2>1. Stamps' = {}
    BY Zenon, <1>0, NoJobIsNone DEF Stamps, Underway, ProcessGone
  <2> QED
    BY Zenon, <1>0, <2>1 DEF BridgeInv, EscapeOK, EscapeStands, ProcessGone, records
<1> QED
  BY Zenon, <1>1, <1>2, <1>3, <1>4 DEF BridgeInv

-----------------------------------------------------------------------------
(* While no process runs, and the boot.                                    *)

\* Before the boot decides there is nothing but the records and the cover.
LEMMA NothingRuns ==
  ASSUME BridgeInv, phase \in {"down", "recover", "resolve"}
  PROVE  /\ job = NoJob /\ own = NoTask /\ session = None /\ Stamps = {} /\ upc = "idle"
         /\ slot = None
<1>1. job = NoJob
  BY DEF BridgeInv, JobOK, Holders
<1>2. own = NoTask
  BY <1>1, NoJobIsNone DEF BridgeInv, JobOK
<1>3. session = None /\ Quiet
  BY DEF BridgeInv, QuietOK
<1> QED
  BY <1>1, <1>2, <1>3, NoJobIsNone DEF Quiet, Stamps, Underway

\* The host reboots, a record is damaged, or the escape is run without a bridge.
LEMMA OutsideStep ==
  ASSUME BridgeInv, Reboot \/ Damage \/ unlock
  PROVE  BridgeInv'
<1>0. /\ phase = "down"
      /\ UNCHANGED <<phase, quit, manager, ipc, queue, job, upc, own, orphans, strays, cancels,
                     stopped, diverged, gone, crashes, env>>
  BY Zenon DEF Reboot, Damage, unlock, history, budgets
<1>1. job = NoJob /\ own = NoTask /\ session = None /\ Stamps = {} /\ upc = "idle"
  BY <1>0, NothingRuns
<1>2. /\ target' \in {target, Unreadable, Off} /\ intent' \in Intents
      /\ pref' \in [on_startup : Startups, candidate : Configs \cup {None}]
      /\ pref'.candidate \in {pref.candidate, None}
      /\ escaped' \in {escaped, "yes"}
      /\ escaped' = escaped \/ (target' = Off /\ pref'.candidate = None)
  <2>1. CASE Reboot
    BY <2>1, Zenon DEF BridgeInv, TypeOK, Reboot, records, history, RecordsType
  <2>2. CASE Damage
    <3>1. /\ escaped' = escaped /\ env.reads \subseteq Intents
          /\ target \in Targets /\ intent \in Intents
          /\ pref \in [on_startup : Startups, candidate : Configs \cup {None}]
      BY ZenonT(40), <2>2, EnvValues DEF BridgeInv, TypeOK, RecordsType, Damage, history
    <3>2. CASE intent' \in env.reads /\ UNCHANGED <<target, pref>>
      BY ZenonT(40), <3>1, <3>2
    <3>3. CASE target' = Unreadable /\ UNCHANGED <<intent, pref>>
      BY Zenon, <3>1, <3>3
    <3>4. CASE /\ target' = Off /\ intent' = "Unset"
               /\ pref' = [on_startup |-> "RestoreLastState", candidate |-> None]
      BY Zenon, <3>1, <3>4 DEF Intents, Startups
    <3> QED
      BY <2>2, <3>2, <3>3, <3>4, ZenonT(40) DEF Damage
  <2>3. CASE unlock
    BY <2>3 DEF BridgeInv, TypeOK, unlock, Cleared, Intents, RecordsType
  <2> QED
    BY <2>1, <2>2, <2>3, Zenon
<1>3. TypeOK'
  <2>1. (Spend \/ Free) /\ os' \in {"Live", "Recorded", "Absent"}
    BY Zenon DEF BridgeInv, TypeOK, Reboot, Damage, unlock, budgets, Free
  <2> QED
    <3>1. RecordsType'
      BY Zenon, <1>2 DEF BridgeInv, TypeOK, RecordsType, Targets
    <3>2. ManagerType' /\ IpcType'
      BY Zenon, <1>0, TypeFrames DEF BridgeInv, TypeOK
    <3>3. HistoryType'
      BY Zenon, <1>0, <1>2 DEF BridgeInv, TypeOK, HistoryType
    <3>4. BudgetsType'
      BY <1>0, <2>1, BudgetKept DEF BridgeInv, TypeOK
    <3> QED
      BY Zenon, <1>0, <2>1, <3>1, <3>2, <3>3, <3>4 DEF BridgeInv, TypeOK
<1>4. JobOK' /\ QuietOK' /\ AttemptsOK' /\ BootOK' /\ CoverOK'
  BY Zenon, <1>0, JobFrame, QuietFrame, AttemptsFrame, NotBooting DEF BridgeInv, manager, ipc
<1>5. StopOK' /\ SessionOK'
  BY <1>0, <1>1, ZenonT(40) DEF BridgeInv, StopOK, StopWins, SessionOK, manager
<1>6. EscapeOK'
  <2>1. Stamps' = {}
    BY <1>0, <1>1, Zenon DEF Stamps, Underway
  <2> QED
    BY <1>0, <1>1, <1>2, <2>1, ConfigsAssumption DEF BridgeInv, EscapeOK, EscapeStands
<1> QED
  BY <1>3, <1>4, <1>5, <1>6 DEF BridgeInv

LEMMA BootStartStep ==
  ASSUME BridgeInv, Boot
  PROVE  BridgeInv'
<1>0. phase = "down" /\ phase' = "recover" /\ ~stopped'
  BY DEF Boot
<1>1. TypeOK'
  <2>1. clean' \in BOOLEAN /\ stopped' \in BOOLEAN
    BY Zenon DEF Boot
  <2> QED
    BY ZenonT(40), <1>0, <2>1, TypeFrames DEF BridgeInv, TypeOK, Booting, Boot, HistoryType, BudgetsType
<1>2. QuietOK' /\ BootOK' /\ CoverOK' /\ StopOK'
  BY Zenon, <1>0, NotBooting
     DEF BridgeInv, QuietOK, Quiet, StopOK, StopWins, Boot, manager, ipc
<1>3. JobOK'
  BY <1>0, NothingRuns, NoJobIsNone DEF JobOK, Underway, StartPlaces, Boot
<1>4. AttemptsOK' /\ SessionOK'
  BY <1>0, NothingRuns, ZenonT(40) DEF BridgeInv, AttemptsOK, CancelScoped, SlotNamesAStart, SessionOK,
     Boot, ipc, manager
<1>5. EscapeOK'
  BY Zenon, EscapeFrame DEF BridgeInv, Boot, records, ipc
<1> QED
  BY Zenon, <1>1, <1>2, <1>3, <1>4, <1>5 DEF BridgeInv

\* Recovery adopts a cover or, with the kill switch off, sweeps it.
LEMMA RecoverStep ==
  ASSUME BridgeInv, RecoverAndRecord
  PROVE  BridgeInv'
<1>0. phase = "recover" /\ phase' = "resolve"
  BY DEF RecoverAndRecord
<1>1. job = NoJob /\ own = NoTask /\ session = None /\ upc = "idle" /\ slot = None
  BY Zenon, <1>0, NothingRuns
<1>2. TypeOK'
  <2>1. os' \in {"Live", "Recorded", "Absent"} /\ intent' \in Intents /\ (Spend \/ Free)
    BY Zenon DEF BridgeInv, TypeOK, RecoverAndRecord, Probe, Intents, RecordsType
  <2>2. adopted' \in BOOLEAN
    <3>1. \A i, p : adopts_live(i, p) \in BOOLEAN
      BY Zenon DEF adopts_live
    <3> QED
      BY <3>1, Zenon DEF RecoverAndRecord
  <2> QED
    <3>1. RecordsType'
      BY <2>1 DEF BridgeInv, TypeOK, RecordsType, RecoverAndRecord
    <3>2. ManagerType'
      BY ZenonT(40), <2>2 DEF BridgeInv, TypeOK, ManagerType, RecoverAndRecord
    <3>3. IpcType' /\ HistoryType'
      BY Zenon, TypeFrames DEF BridgeInv, TypeOK, RecoverAndRecord
    <3>4. BudgetsType'
      BY <2>1, BudgetKept DEF BridgeInv, TypeOK, RecoverAndRecord
    <3> QED
      BY Zenon, <1>0, <2>1, <3>1, <3>2, <3>3, <3>4 DEF BridgeInv, TypeOK, Booting, RecoverAndRecord
<1>3. QuietOK' /\ StopOK'
  BY Zenon, <1>0 DEF BridgeInv, QuietOK, Quiet, StopOK, StopWins, Booting, RecoverAndRecord, ipc, history
<1>4. JobOK'
  BY <1>0, <1>1, NoJobIsNone DEF JobOK, Underway, StartPlaces, RecoverAndRecord
<1>5. AttemptsOK' /\ SessionOK' /\ BootOK'
  BY <1>0, <1>1, ZenonT(40) DEF BridgeInv, AttemptsOK, CancelScoped, SlotNamesAStart, SessionOK, BootOK,
     RecoverAndRecord, ipc, history
<1>6. EscapeOK'
  BY EscapeFrame DEF BridgeInv, RecoverAndRecord, ipc, history
<1>7. CoverOK'
  <2>1. ASSUME clean', intent' = "Off" PROVE os' = "Absent"
    <3>1. PICK p \in Presences :
            /\ p = os
            /\ intent' = IF record_intent_on(intent, p) THEN "On" ELSE intent
            /\ os' = IF decide_cover_recovery(intent, p) = "Sweep" THEN "Absent" ELSE os
      BY Zenon, <2>1 DEF RecoverAndRecord, Probe, Spend
    <3>2. intent = "Off" /\ os \in {"Live", "Recorded", "Absent"}
      BY <2>1, <3>1 DEF BridgeInv, TypeOK, RecordsType
    <3>3. os # "Absent" => decide_cover_recovery(intent, p) = "Sweep"
      BY Zenon, <3>1, <3>2 DEF decide_cover_recovery, Actionable
    <3> QED
      BY Zenon, <3>1, <3>2, <3>3
  <2> QED
    BY <1>0, <2>1 DEF CoverOK
<1> QED
  BY Zenon, <1>2, <1>3, <1>4, <1>5, <1>6, <1>7 DEF BridgeInv

\* The startup preference decides a target that the records hold.
LEMMA ResolveStartupStep ==
  ASSUME BridgeInv, ResolveStartup
  PROVE  BridgeInv'
<1>0. phase = "resolve" /\ phase' = "boot"
  BY DEF ResolveStartup
<1>1. job = NoJob /\ own = NoTask /\ session = None /\ Stamps = {} /\ upc = "idle" /\ slot = None
  BY Zenon, <1>0, NothingRuns
<1>2. PICK t \in Targets :
        /\ \/ /\ t = resolve_startup_target(target, pref.on_startup, pref.candidate)
              /\ target' = apply(target, t) /\ Free
           \/ t \in {target, Unreadable} /\ UNCHANGED target /\ Spend
        /\ job' = NewJob("boot", "decide", None, None, 0, "Blipped", t)
  BY Zenon DEF ResolveStartup
<1>3. /\ job' \in Jobs /\ job'.kind = "boot" /\ job'.pc = "decide" /\ job'.tgt = t /\ ~job'.last
      /\ ~Underway'
  BY Zenon, <1>2 DEF NewJob, Jobs, Events, Underway
<1>4. /\ target \in Targets /\ pref.on_startup \in Startups
      /\ pref.candidate \in Configs \cup {None}
  BY DEF BridgeInv, TypeOK, RecordsType
<1>5. resolve_startup_target(target, pref.on_startup, pref.candidate)
        \in {target, Off} \cup (IF pref.candidate = None THEN {} ELSE {pref.candidate})
  BY Zenon, <1>4 DEF resolve_startup_target, Startups
<1>6. target' \in Targets /\ (clean' => clean) /\ (Spend \/ Free)
  BY <1>2, <1>4 DEF apply, Spend, Free
<1>7. TypeOK'
  <2>1. RecordsType'
    BY Zenon, <1>6 DEF BridgeInv, TypeOK, RecordsType, ResolveStartup
  <2>2. ManagerType' /\ IpcType' /\ HistoryType'
    BY Zenon, TypeFrames DEF BridgeInv, TypeOK, ResolveStartup
  <2>3. BudgetsType'
    BY <1>6, BudgetKept DEF BridgeInv, TypeOK, ResolveStartup
  <2> QED
    BY Zenon, <1>0, <1>3, <2>1, <2>2, <2>3 DEF BridgeInv, TypeOK, Booting, ResolveStartup
<1>8. JobOK'
  BY Zenon, <1>0, <1>1, <1>3, NoJobIsNone DEF JobOK, Holders, Places, StartPlaces, ResolveStartup
<1>9. QuietOK' /\ StopOK' /\ AttemptsOK' /\ SessionOK'
  BY <1>0, <1>1, ZenonT(40)
     DEF BridgeInv, QuietOK, Quiet, StopOK, StopWins, Booting, AttemptsOK, CancelScoped,
         SlotNamesAStart, SessionOK, ResolveStartup, manager, ipc, history
<1>10. EscapeOK'
  <2>1. Stamps' = {}
    BY <1>1, <1>3, ZenonT(40) DEF Stamps, Underway, ResolveStartup
  <2>2. escaped = "yes" => target' \notin Configs
    BY Zenon, <1>2, <1>5, ConfigsAssumption DEF BridgeInv, EscapeOK, EscapeStands, apply
  <2> QED
    BY <1>1, <2>1, <2>2 DEF BridgeInv, EscapeOK, EscapeStands, ResolveStartup, ipc, history
<1>11. BootOK'
  <2>1. t \in Configs \/ clean' => target' = t
    <3>1. CASE Free
      BY <1>2, <1>4, <1>5, <3>1, ConfigsAssumption DEF apply, Off, Unreadable, Spend
    <3>2. CASE t \in {target, Unreadable} /\ UNCHANGED target /\ ~clean'
      BY Zenon, <3>2, ConfigsAssumption
    <3> QED
      BY Zenon, <1>2, <3>1, <3>2 DEF Spend
  <2> QED
    BY <1>1, <1>3, <2>1, Zenon DEF BootOK, StartPlaces, ResolveStartup, manager
<1>12. CoverOK'
  BY Zenon, <1>0, <1>3, <1>6 DEF BridgeInv, CoverOK, ResolveStartup
<1> QED
  BY Zenon, <1>7, <1>8, <1>9, <1>10, <1>11, <1>12 DEF BridgeInv

\* A holder at a place of the boot alone is the boot's.
LEMMA BootHolder ==
  ASSUME BridgeInv, job.pc \in {"decide", "release"}
  PROVE  job \in Jobs /\ job.kind = "boot" /\ phase = "boot" /\ own = NoTask /\ ~Underway
<1>1. job \in Jobs /\ own = NoTask
  BY NoJobIsNone, Zenon DEF BridgeInv, TypeOK, JobOK
<1>2. job.kind \in Holders(phase) /\ job.pc \in Places(job.kind)
  BY <1>1, NoJobIsNone DEF BridgeInv, JobOK
<1>3. job.kind = "boot" /\ phase = "boot"
  BY Zenon, <1>1, <1>2 DEF BridgeInv, TypeOK, Booting, Holders, Places, StartPlaces, Jobs
<1> QED
  BY <1>1, <1>3 DEF Underway

\* One step of the boot that moves only the holder and the cover.
LEMMA BootKeeps ==
  ASSUME BridgeInv, job.pc \in {"decide", "release"},
         UNCHANGED <<target, pref, session, active, ipc, queue, upc, own, orphans, strays,
                     cancels, escaped, stopped, diverged, gone>>,
         \/ job' = NoJob /\ phase' = "serve"
         \/ /\ job' \in Jobs /\ job'.kind = "boot" /\ phase' = phase
            /\ job'.pc \in {"resolve", "release"}
            /\ job'.pc = "resolve" => job'.cfg \in Configs /\ session = None
  PROVE  JobOK' /\ QuietOK' /\ AttemptsOK' /\ EscapeOK' /\ SessionOK' /\ StopOK'
<1>0. job.kind = "boot" /\ phase = "boot" /\ own = NoTask /\ ~Underway
  BY Zenon, BootHolder
<1>1. ~Underway' /\ (job' = NoJob \/ job'.kind = "boot")
  BY Zenon, NoJobIsNone DEF Underway
<1>2. JobOK'
  <2>1. CASE job' = NoJob /\ phase' = "serve"
    BY <1>0, <2>1, NoJobIsNone DEF JobOK, Underway, StartPlaces
  <2>2. CASE job'.kind = "boot" /\ job' \in Jobs
    BY Zenon, <1>0, <1>1, <2>2, NoJobIsNone DEF JobOK, Holders, Places, StartPlaces
  <2> QED
    BY Zenon, <2>1, <2>2
<1>3. QuietOK' /\ SessionOK' /\ StopOK'
  BY <1>0, <1>1, NoJobIsNone, ZenonT(40)
     DEF BridgeInv, QuietOK, Quiet, SessionOK, StopOK, StopWins, Booting, ipc
<1>4. AttemptsOK'
  <2>1. slot' = None
    BY Zenon, <1>0 DEF BridgeInv, QuietOK, Quiet, ipc
  <2> QED
    BY Zenon, <1>0, <2>1 DEF BridgeInv, AttemptsOK, CancelScoped, SlotNamesAStart, ipc
<1>5. EscapeOK'
  <2>1. Stamps' = Stamps
    BY Zenon, <1>0, <1>1 DEF Stamps
  <2> QED
    BY Zenon, <2>1 DEF BridgeInv, EscapeOK, EscapeStands, ipc
<1> QED
  BY Zenon, <1>2, <1>3, <1>4, <1>5

\* A release of the cover is decided for an Off target or a kill switch that is off.
LEMMA ReleaseDecided ==
  ASSUME NEW t \in Targets, NEW p, cover_step(effective_lockdown_intent(intent, adopted), p, t) = "Release"
  PROVE  t = Off \/ (t \in Configs /\ ~lockdown_enabled(intent, adopted))
<1>1. t = Off \/ (t \in Configs /\ ~reads_armed(effective_lockdown_intent(intent, adopted)))
  BY DEF cover_step, Targets
<1> QED
  BY <1>1 DEF lockdown_enabled, effective_lockdown_intent, reads_armed

\* What the boot's decision makes of the tunnel.
LEMMA StartDecided ==
  ASSUME NEW t \in Targets
  PROVE  tunnel_step(FALSE, t) = "Start" <=> t \in Configs
  BY Zenon, ConfigsAssumption DEF tunnel_step, Targets

LEMMA ReconcileStep ==
  ASSUME BridgeInv, ReconcileOnce
  PROVE  BridgeInv'
<1>0. job.pc = "decide" /\ job.pc \in {"decide", "release"}
  BY DEF ReconcileOnce
<1>1. /\ job \in Jobs /\ job.kind = "boot" /\ phase = "boot" /\ own = NoTask
      /\ job.tgt \in Targets /\ session = None /\ ~job.last
  BY <1>0, BootHolder, Zenon DEF BridgeInv, BootOK, Jobs
<1>2. PICK p \in Presences :
        LET cover == cover_step(effective_lockdown_intent(intent, adopted), p, job.tgt)
        IN /\ Probe(p)
           /\ \/ /\ job.tgt \in Configs
                 /\ job' = [job EXCEPT !.pc = "resolve", !.cfg = job.tgt,
                                       !.last = CoverGoesLast(cover)]
                 /\ UNCHANGED phase
              \/ /\ job.tgt \notin Configs /\ cover = "Release"
                 /\ job' = [job EXCEPT !.pc = "release"]
                 /\ UNCHANGED phase
              \/ job' = NoJob /\ phase' = "serve"
  <2>1. (session # None) = FALSE
    BY <1>1
  <2>2. tunnel_step(session # None, job.tgt) = "Start" <=> job.tgt \in Configs
    BY <1>1, <2>1, StartDecided, Zenon
  <2> QED
    BY <2>2, Zenon DEF ReconcileOnce
<1> DEFINE cover == cover_step(effective_lockdown_intent(intent, adopted), p, job.tgt)
<1>3. cover = "Release" => job.tgt = Off \/ (job.tgt \in Configs /\ ~lockdown_enabled(intent, adopted))
  BY <1>1, ReleaseDecided
<1>4. (Spend \/ Free) /\ (clean' => clean)
  BY <1>2 DEF Probe, Spend, Free
<1>5. CoverGoesLast(cover) \in BOOLEAN /\ (CoverGoesLast(cover) => cover = "Release")
  BY DEF CoverGoesLast
<1> HIDE DEF cover
<1>6. \/ /\ job' \in Jobs /\ job'.kind = "boot" /\ job'.pc = "resolve" /\ job'.cfg = job.tgt
         /\ job'.tgt = job.tgt /\ job.tgt \in Configs /\ (job'.last => cover = "Release")
         /\ phase' = phase
      \/ /\ job' \in Jobs /\ job'.kind = "boot" /\ job'.pc = "release" /\ job'.tgt = job.tgt
         /\ cover = "Release" /\ job.tgt \notin Configs /\ phase' = phase
      \/ job' = NoJob /\ phase' = "serve"
  <2>1. CASE /\ job.tgt \in Configs /\ UNCHANGED phase
             /\ job' = [job EXCEPT !.pc = "resolve", !.cfg = job.tgt,
                                   !.last = CoverGoesLast(cover)]
    <3>1. /\ job' \in Jobs /\ job'.kind = "boot" /\ job'.pc = "resolve" /\ job'.cfg = job.tgt
          /\ job'.tgt = job.tgt /\ job'.last = CoverGoesLast(cover)
      BY <1>1, <1>5, <2>1, Zenon DEF Jobs
    <3> QED
      BY <1>5, <2>1, <3>1
  <2>2. CASE /\ job.tgt \notin Configs /\ cover = "Release" /\ UNCHANGED phase
             /\ job' = [job EXCEPT !.pc = "release"]
    BY Zenon, <1>1, <2>2 DEF Jobs
  <2> QED
    BY <1>2, <2>1, <2>2 DEF cover
<1>7. TypeOK'
  BY Zenon, <1>4, <1>6, BudgetType, TypeFrames
     DEF BridgeInv, TypeOK, ReconcileOnce, IpcType, BudgetsType
<1>8. JobOK' /\ QuietOK' /\ AttemptsOK' /\ EscapeOK' /\ SessionOK' /\ StopOK'
  BY Zenon, <1>0, <1>1, <1>6, BootKeeps DEF ReconcileOnce, records, manager, history
<1>9. BootOK'
  BY Zenon, <1>1, <1>3, <1>4, <1>6, ConfigsAssumption
     DEF BridgeInv, BootOK, StartPlaces, ReconcileOnce, records, manager
<1>10. CoverOK'
  BY Zenon, <1>1, <1>4, <1>6 DEF BridgeInv, CoverOK, ReconcileOnce, records
<1> QED
  BY Zenon, <1>7, <1>8, <1>9, <1>10 DEF BridgeInv

LEMMA ReleaseStrayStep ==
  ASSUME BridgeInv, ReleaseStray
  PROVE  BridgeInv'
<1>0. job.pc \in {"decide", "release"} /\ job' = NoJob /\ phase' = "serve"
  BY Zenon DEF ReleaseStray
<1>1. TypeOK'
  <2>1. (Spend \/ Free) /\ os' \in {"Live", "Recorded", "Absent"}
    BY Zenon DEF BridgeInv, TypeOK, ReleaseStray, ReleaseOk, ReleaseErr
  <2>2. adopted' \in BOOLEAN
    BY ZenonT(40) DEF BridgeInv, TypeOK, ReleaseStray, ManagerType
  <2> QED
    <3>1. RecordsType' /\ IpcType' /\ HistoryType'
      BY Zenon, TypeFrames DEF BridgeInv, TypeOK, ReleaseStray, history
    <3>2. ManagerType'
      BY Zenon, <2>2 DEF BridgeInv, TypeOK, ManagerType, ReleaseStray
    <3>3. BudgetsType'
      BY <2>1, BudgetKept DEF BridgeInv, TypeOK, ReleaseStray
    <3> QED
      BY Zenon, <1>0, <2>1, <3>1, <3>2, <3>3 DEF BridgeInv, TypeOK, ReleaseStray
<1>2. JobOK' /\ QuietOK' /\ AttemptsOK' /\ EscapeOK' /\ SessionOK' /\ StopOK'
  BY <1>0, BootKeeps DEF ReleaseStray, records
<1>3. BootOK' /\ CoverOK'
  BY <1>0, NotBooting
<1> QED
  BY Zenon, <1>1, <1>2, <1>3 DEF BridgeInv

-----------------------------------------------------------------------------
(* Theorems.                                                               *)

LEMMA InitBridgeInv == Init => BridgeInv /\ TornDown
<1> SUFFICES ASSUME Init PROVE BridgeInv /\ TornDown
  BY Zenon
<1>1. TypeOK
  <2>1. env.faults \in Nat /\ env.gone \in Nat /\ env.crashes \in Nat
    BY EnvironmentsAssumption, Zenon DEF Init
  <2>2. /\ adopted \in BOOLEAN /\ death \in BOOLEAN /\ tok \in BOOLEAN /\ stopped \in BOOLEAN
        /\ diverged \in BOOLEAN /\ clean \in BOOLEAN
    BY Zenon DEF Init
  <2>3. pref \in [on_startup : Startups, candidate : Configs \cup {None}]
    BY DEF Init, Startups
  <2> QED
    BY <2>1, <2>2, <2>3
       DEF Init, TypeOK, Targets, Intents, RecordsType, ManagerType, IpcType, HistoryType,
           BudgetsType
<1>2. JobOK /\ QuietOK /\ AttemptsOK /\ SessionOK /\ StopOK /\ BootOK /\ CoverOK /\ TornDown
  BY NoJobIsNone, NoTaskIsNone, Zenon
     DEF Init, JobOK, Underway, StartPlaces, QuietOK, Quiet, AttemptsOK, CancelScoped,
         SlotNamesAStart, SessionOK, StopOK, StopWins, Booting, BootOK, CoverOK, TornDown
<1>3. EscapeOK
  BY NoJobIsNone, ZenonT(40) DEF Init, EscapeOK, EscapeStands, Stamps, Underway
<1> QED
  BY <1>1, <1>2, <1>3 DEF BridgeInv

\* Where a new holder is.
LEMMA NewJobPc ==
  ASSUME NEW kind, NEW pc, NEW cfg, NEW push, NEW snap, NEW ev, NEW tgt
  PROVE  NewJob(kind, pc, cfg, push, snap, ev, tgt).pc = pc
  BY DEF NewJob

\* Only StopPersist sends a holder to its teardown, and it ends the session.
LEMMA TornDownStep ==
  ASSUME BridgeInv, TornDown, [Next]_vars
  PROVE  TornDown'
<1>1. CASE UNCHANGED <<job, session>>
  BY <1>1 DEF TornDown
<1>2. CASE job' = NoJob \/ session' = None
  BY <1>2, NoJobIsNone DEF TornDown
<1>3. CASE job'.pc # "teardown"
  BY <1>3 DEF TornDown
<1>4. CASE SessionDies
  BY <1>4 DEF TornDown, SessionDies
<1>5. CASE ClientStep
  <2>1. CASE handle_stop \/ check_health
    <3>1. job' = StopJob("stop", "UserStopped") \/ job' = StopJob("health", "GaveUp")
      BY Zenon, <2>1 DEF handle_stop, check_health
    <3>2. job'.pc = "stop"
      BY <3>1, NewJobPc DEF StopJob
    <3> QED
      BY <1>3, <3>2
  <2> QED
    BY <1>1, <1>5, <2>1, ZenonT(40)
       DEF ClientStep, handle_start, handle_reload, handle_cancel, handle_unblock, LockdownOn,
           LockdownOff, manager
<1>6. CASE Acquire
  <2>1. PICK r \in queue :
          \/ job' = NewJob(r.kind, "resolve", r.cfg, r.push, r.snap, "Blipped", Unreadable)
          \/ job' = NewJob(r.kind, "stop", r.cfg, r.push, r.snap, "Blipped", Unreadable)
          \/ job' = Settling(r.kind)
    BY <1>6, Zenon DEF Acquire
  <2> QED
    BY <1>3, <2>1, NewJobPc DEF Settling
<1>7. CASE JobStep
  <2>1. ASSUME NEW ok \in BOOLEAN, SettleStart(ok), job.pc \in StartPlaces
        PROVE  job'.pc # "teardown"
    BY <2>1, SettleIs, NoJobIsNone, Zenon
  <2>2. CASE ResolveServer
    <3>1. CASE SettleStart(FALSE)
      BY <1>3, <2>1, <2>2, <3>1, Zenon DEF ResolveServer, StartPlaces
    <3>2. CASE job' = [job EXCEPT !.pc = "inner",
                         !.expect = standing_cover_expected(intent, adopted)]
      BY <1>3, <2>2, <3>2, StartHolder DEF ResolveServer, StartPlaces, Jobs
    <3> QED
      BY <2>2, <3>1, <3>2, Zenon DEF ResolveServer
  <2>3. CASE StartInner
    <3>1. CASE SettleStart(FALSE) \/ Commit(FALSE)
      BY <1>3, <2>1, <2>3, <3>1, Zenon DEF StartInner, StartPlaces, Commit
    <3>2. CASE job' = [job EXCEPT !.pc = "cover", !.expect = StillExpected]
      BY <1>3, <2>3, <3>2, StartHolder DEF StartInner, StartPlaces, Jobs
    <3> QED
      BY <2>3, <3>1, <3>2, Zenon DEF StartInner
  <2>4. CASE InstallLockdown
    <3>1. CASE SettleStart(FALSE)
      BY <1>3, <2>1, <2>4, <3>1, Zenon DEF InstallLockdown, StartPlaces
    <3>2. CASE Goto("dns") \/ job' = [job EXCEPT !.pc = "dns", !.guard = TRUE]
      BY <1>3, <2>4, <3>2, StartHolder, Zenon DEF InstallLockdown, StartPlaces, Jobs, Goto
    <3> QED
      BY <2>4, <3>1, <3>2, Zenon DEF InstallLockdown
  <2>5. CASE ApplyDns
    <3>1. SettleStart(TRUE) \/ SettleStart(FALSE)
      BY <2>5, Zenon DEF ApplyDns, Commit
    <3> QED
      BY <1>3, <2>1, <2>5, <3>1, Zenon DEF ApplyDns, StartPlaces
  <2>6. CASE FinishStart \/ StopPersist \/ ReleaseStray
    BY <1>2, <2>6, ZenonT(40) DEF FinishStart, StopPersist, ReleaseStray
  <2>7. CASE Teardown
    BY <1>2, <2>7 DEF Teardown, TornDown
  <2>8. CASE ReconcileOnce
    BY <1>2, <1>3, <2>8, BootHolder, Zenon DEF ReconcileOnce, Jobs
  <2> QED
    BY Zenon, <1>7, <2>2, <2>3, <2>4, <2>5, <2>6, <2>7, <2>8 DEF JobStep
<1>8. CASE TaskStep \/ UnblockStep
  <2>1. CASE TaskStep
    <3>1. UNCHANGED <<job, manager>>
      BY <2>1, Zenon DEF TaskStep, OwnTask, OrphanTask, StrayEvent
    <3> QED
      BY <1>1, <3>1 DEF manager
  <2>2. CASE UnblockStep
    <3>1. UNCHANGED <<job, manager>>
      BY <2>2, Zenon DEF UnblockStep, UnblockOff, UnblockIntent, UnblockCandidate
    <3> QED
      BY <1>1, <3>1 DEF manager
  <2> QED
    BY Zenon, <1>8, <2>1, <2>2
<1>9. CASE BootStep
  <2>1. CASE RecoverAndRecord
    BY <1>1, <2>1, Zenon DEF RecoverAndRecord
  <2>2. CASE ResolveStartup
    BY <1>3, <2>2, NewJobPc DEF ResolveStartup
  <2> QED
    BY <1>9, <2>1, <2>2 DEF BootStep
<1>10. CASE BeginExit \/ Exit
  <2>1. CASE BeginExit
    BY <1>3, <2>1, NewJobPc DEF BeginExit, StopJob
  <2>2. CASE Exit
    BY <1>2, <2>2, Zenon DEF Exit, ProcessGone
  <2> QED
    BY Zenon, <1>10, <2>1, <2>2
<1>11. CASE EnvStep
  BY <1>1, <1>2, <1>4, <1>11, ZenonT(40)
     DEF EnvStep, ClientGone, Crash, ProcessGone, Reboot, Damage, unlock, Boot, Shutdown, manager
<1>12. CASE UNCHANGED vars
  BY Zenon, <1>1, <1>12 DEF vars
<1> QED
  BY Zenon, <1>5, <1>6, <1>7, <1>8, <1>9, <1>10, <1>11, <1>12 DEF Next

LEMMA StutterStep ==
  ASSUME BridgeInv, UNCHANGED vars
  PROVE  BridgeInv'
<1>1. TypeOK'
  <2>1. UNCHANGED <<records, manager, ipc, history, budgets>>
    BY Zenon DEF vars, records, manager, ipc, history, budgets
  <2> QED
    BY <2>1, TypeFrames, Zenon DEF BridgeInv, TypeOK, vars
<1>2. /\ JobOK' /\ QuietOK' /\ AttemptsOK' /\ EscapeOK' /\ SessionOK' /\ StopOK'
      /\ BootOK' /\ CoverOK'
  BY ZenonT(40), JobFrame, QuietFrame, AttemptsFrame, EscapeFrame, SessionFrame, StopFrame, BootFrame,
     CoverFrame, Zenon DEF BridgeInv, vars
<1> QED
  BY <1>1, <1>2 DEF BridgeInv

LEMMA NextBridgeInv ==
  ASSUME BridgeInv, TornDown, [Next]_vars
  PROVE  BridgeInv' /\ TornDown'
<1> SUFFICES BridgeInv'
  BY TornDownStep
<1>1. CASE ClientStep
  BY <1>1, StartStep, ReloadStep, CancelStep, StopTakesStep, UnblockStartStep, LockdownStep, Zenon
     DEF ClientStep
<1>2. CASE Acquire
  BY <1>2, AcquireStep
<1>3. CASE JobStep
  BY Zenon, <1>3, ResolveServerStep, StartInnerStep, InstallLockdownStep, ApplyDnsStep,
     FinishStartStep, StopPersistStep, TeardownStep, ReconcileStep, ReleaseStrayStep DEF JobStep
<1>4. CASE TaskStep
  BY <1>4, OwnTaskStep, OrphanStep, StrayStep DEF TaskStep
<1>5. CASE UnblockStep
  BY <1>5, UnblockOffStep, UnblockIntentStep, UnblockCandidateStep DEF UnblockStep
<1>6. CASE BootStep
  BY <1>6, RecoverStep, ResolveStartupStep DEF BootStep
<1>7. CASE BeginExit \/ Exit
  BY Zenon, <1>7, BeginExitStep, GoneStep
<1>8. CASE EnvStep
  BY Zenon, <1>8, DiesStep, ClientGoneStep, GoneStep, OutsideStep, BootStartStep, ShutdownStep
     DEF EnvStep
<1> QED
  BY Zenon, <1>1, <1>2, <1>3, <1>4, <1>5, <1>6, <1>7, <1>8, StutterStep DEF Next

\* Every reachable state of the bridge satisfies the inductive invariant.
THEOREM BridgeInvHolds == Spec => [](BridgeInv /\ TornDown)
<1>1. Init => BridgeInv /\ TornDown
  BY InitBridgeInv
<1>2. (BridgeInv /\ TornDown) /\ [Next]_vars => (BridgeInv /\ TornDown)'
  BY NextBridgeInv
<1> QED
  BY <1>1, <1>2, PTL DEF Spec

\* The records are the ones the decisions left: no start, reload, stop, crash
\* or boot under way brings back what an unblock or a stop took away, and a
\* session at rest is the one a restart would restore (handle_start,
\* handle_stop, handle_unblock and the tasks they wait for).
THEOREM RecordsAlwaysFollow == Spec => []RecordsFollow
<1>1. BridgeInv => RecordsFollow
  <2>1. BridgeInv => EscapeSticks
    BY DEF BridgeInv, EscapeOK, EscapeStands, EscapeSticks
  <2>2. BridgeInv => SessionIsRecorded
    BY Zenon, NoTaskIsNone DEF BridgeInv, SessionOK, SessionIsRecorded
  <2>3. BridgeInv => StopWins
    BY DEF BridgeInv, StopOK
  <2> QED
    BY Zenon, <2>1, <2>2, <2>3 DEF RecordsFollow
<1> QED
  BY <1>1, BridgeInvHolds, PTL

\* A cancel reaches only the attempt it names, and the start slot names an
\* attempt in flight while no client has hung up (StartCancelState).
THEOREM AttemptsAlwaysScoped == Spec => []AttemptsScoped
<1>1. BridgeInv => AttemptsScoped
  BY Zenon DEF BridgeInv, AttemptsOK, AttemptsScoped, AttendedSlot
<1> QED
  BY <1>1, BridgeInvHolds, PTL

-----------------------------------------------------------------------------
(* The standing cover, step by step.                                       *)

\* What KillSwitchHolds asks of a step that takes a live cover down.
MayDrop ==
  /\ job # NoJob
  /\ \/ job.tgt = Off \/ job.ev = "UserStopped"
     \/ job.pc \in {"cover", "dns"}

\* A teardown drops the cover for a stop, or for a target that is Off.
LEMMA TeardownDrops ==
  ASSUME BridgeInv, Teardown, os' # os, lockdown_enabled(intent, adopted)
  PROVE  MayDrop
<1>1. job \in Jobs /\ job # NoJob
  BY Zenon, StopHolder, NoJobIsNone DEF Teardown
<1>2. PICK p \in Presences :
        teardown_cover_disposition(
          job.ev, effective_lockdown_intent(intent, adopted), p, job.tgt) = "ReleaseNow"
  BY Zenon DEF Teardown
<1>3. \/ job.ev = "UserStopped"
      \/ cover_step(effective_lockdown_intent(intent, adopted), p, job.tgt) = "Release"
  BY <1>2 DEF teardown_cover_disposition
<1>4. job.tgt \in Targets
  BY <1>1 DEF Jobs
<1> QED
  BY Zenon, <1>1, <1>3, <1>4, ReleaseDecided DEF MayDrop

\* The boot's release was decided for such a target.
LEMMA ReleaseDrops ==
  ASSUME BridgeInv, ReleaseStray, lockdown_enabled(intent, adopted)
  PROVE  MayDrop
  BY BootHolder, NoJobIsNone, Zenon DEF BridgeInv, BootOK, ReleaseStray, MayDrop

\* Recovery sweeps only with the kill switch off.
LEMMA RecoverDrops ==
  ASSUME RecoverAndRecord, os' # os
  PROVE  ~lockdown_enabled(intent, adopted)
<1>1. \E p \in Presences : decide_cover_recovery(intent, p) = "Sweep"
  BY DEF RecoverAndRecord
<1>2. intent = "Off"
  BY <1>1 DEF decide_cover_recovery
<1> QED
  BY Zenon, <1>2 DEF lockdown_enabled

\* A step of the lock holder or of the boot that takes a live cover down.
LEMMA DropStep ==
  ASSUME BridgeInv, [Next]_vars, os = "Live", os' # "Live", phase # "down", gone' = gone,
         ~(phase = "serve" /\ phase' = "exit"), job' # job \/ phase' # phase,
         lockdown_enabled(intent, adopted)
  PROVE  MayDrop
<1>1. CASE ClientStep
  BY <1>1, Zenon DEF ClientStep, handle_start, handle_reload, handle_cancel, handle_unblock, handle_stop,
     check_health, LockdownOn, LockdownOff
<1>2. CASE Acquire \/ TaskStep \/ UnblockStep
  BY <1>2, Zenon DEF Acquire, TaskStep, OwnTask, OrphanTask, StrayEvent, UnblockStep, UnblockOff,
     UnblockIntent, UnblockCandidate
<1>3. CASE JobStep
  <2>1. CASE InstallLockdown \/ ApplyDns
    BY <2>1, NoJobIsNone, Zenon DEF InstallLockdown, ApplyDns, MayDrop
  <2>2. CASE Teardown
    BY Zenon, <2>2, TeardownDrops
  <2>3. CASE ReleaseStray
    BY <2>3, ReleaseDrops
  <2>4. CASE ResolveServer \/ StartInner \/ FinishStart \/ StopPersist \/ ReconcileOnce
    BY <2>4, Zenon DEF ResolveServer, StartInner, FinishStart, StopPersist, ReconcileOnce
  <2> QED
    BY <1>3, <2>1, <2>2, <2>3, <2>4 DEF JobStep
<1>4. CASE BootStep
  BY Zenon, <1>4, RecoverDrops DEF BootStep, ResolveStartup
<1>5. CASE BeginExit \/ Exit
  BY Zenon, <1>5 DEF BeginExit, Exit, ProcessGone
<1>6. CASE EnvStep
  <2>1. gone \in 0 .. env.gone /\ env.gone \in Nat
    BY Zenon, EnvValues DEF BridgeInv, TypeOK, BudgetsType
  <2>2. gone + 1 # gone
    BY <2>1
  <2>3. ~ClientGone
    BY Zenon, <2>2 DEF ClientGone
  <2> QED
    BY ZenonT(40), <1>6, <2>3
       DEF EnvStep, SessionDies, Crash, ProcessGone, Reboot, Damage, unlock, Boot, Shutdown
<1>7. CASE UNCHANGED vars
  BY <1>7, Zenon DEF vars
<1> QED
  BY Zenon, <1>1, <1>2, <1>3, <1>4, <1>5, <1>6, <1>7 DEF Next

\* What BootSettles asks of a host at the end of a boot.
Settled ==
  /\ target = Off \/ intent = "Off" => os = "Absent"
  /\ session # None /\ intent = "On" => session.cfg \in SocksOnly \/ os = "Live"

\* A boot start that ends leaves the host as it decided.
LEMMA BootStartSettles ==
  ASSUME BridgeInv, phase = "boot", job.pc \in StartPlaces, clean, os' \in {os, "Absent"},
         UNCHANGED <<target, intent>>,
         session' # None /\ intent = "On" => session'.cfg \in SocksOnly \/ os' = "Live"
  PROVE  Settled'
<1>1. target = job.tgt /\ job.tgt \in Configs
  BY StartHolder, ZenonT(40) DEF BridgeInv, BootOK
<1>2. target # Off
  BY Zenon, <1>1, ConfigsAssumption
<1> QED
  BY <1>2 DEF BridgeInv, CoverOK, Settled

\* The last step of a boot that met no fault.
LEMMA BootEnds ==
  ASSUME BridgeInv, [Next]_vars, phase = "boot", phase' = "serve", clean'
  PROVE  Settled'
<1>0. job.pc \in StartPlaces => session = None
  BY Zenon DEF BridgeInv, BootOK, StartPlaces
<1>1. CASE ResolveServer
  BY <1>0, <1>1, BootStartSettles
     DEF ResolveServer, StartPlaces, records, manager, budgets
<1>2. CASE StartInner
  <2>1. CASE UNCHANGED session
    BY <1>0, <1>2, <2>1, BootStartSettles DEF StartInner, StartPlaces, records, budgets
  <2>2. CASE job.cfg \in SocksOnly /\ Commit(FALSE)
    <3>1. session'.cfg \in SocksOnly
      BY <2>2 DEF Commit
    <3> QED
      BY Zenon, <1>2, <3>1, BootStartSettles DEF StartInner, StartPlaces, records, budgets
  <2> QED
    BY <1>2, <2>1, <2>2, Zenon DEF StartInner
<1>3. CASE InstallLockdown
  BY <1>3 DEF InstallLockdown, Goto, Spend
<1>4. CASE ApplyDns
  <2>0. job.pc = "dns" /\ job.pc \in StartPlaces /\ UNCHANGED <<target, intent>>
    BY Zenon, <1>4 DEF ApplyDns, StartPlaces, records
  <2>1. CASE Commit(job.guard) /\ UNCHANGED os /\ Free
    <3>1. intent = "On" => os = "Live"
      BY <2>0 DEF BridgeInv, CoverOK
    <3>2. clean
      BY Zenon, <2>1 DEF Free
    <3> QED
      BY Zenon, <2>0, <2>1, <3>1, <3>2, BootStartSettles
  <2>2. CASE DropGuard(job.guard) /\ UNCHANGED session
    <3>1. os' \in {os, "Absent"} /\ clean
      BY Zenon, <2>2, DropGuardIs DEF BridgeInv
    <3> QED
      BY Zenon, <1>0, <2>0, <2>2, <3>1, BootStartSettles
  <2> QED
    BY <1>4, <2>1, <2>2, ZenonT(40) DEF ApplyDns
<1>5. CASE ReconcileOnce
  <2>0. job.pc = "decide" /\ session = None /\ job.tgt \in Targets
    BY <1>5, BootHolder DEF BridgeInv, BootOK, ReconcileOnce, Jobs
  <2>1. tunnel_step(session # None, job.tgt) = "Start" <=> job.tgt \in Configs
    <3>1. (session # None) = FALSE
      BY <2>0
    <3> QED
      BY <2>0, <3>1, StartDecided, Zenon
  <2>2. /\ cover_step(effective_lockdown_intent(intent, adopted), os, job.tgt) # "Release"
        /\ clean /\ UNCHANGED <<os, target, intent, session>>
    BY <1>5, <2>1, Zenon DEF ReconcileOnce, Probe, Free, Spend, records, manager
  <2>3. target = Off => os = "Absent"
    <3>1. target = job.tgt /\ os \in {"Live", "Recorded", "Absent"}
      BY <2>2, Zenon DEF BridgeInv, TypeOK, BootOK, RecordsType
    <3> QED
      BY Zenon, <2>2, <3>1, ConfigsAssumption DEF cover_step, Actionable, Off, Unreadable
  <2> QED
    BY Zenon, <2>0, <2>2, <2>3 DEF BridgeInv, CoverOK, Settled
<1>6. CASE ReleaseStray
  <2>1. os' = "Absent" /\ UNCHANGED <<session, intent>> /\ job.pc = "release"
    BY Zenon, <1>6 DEF ReleaseStray, ReleaseOk, ReleaseErr, Spend, records
  <2>2. session # None => intent # "On"
    BY Zenon, <2>1, ConfigsAssumption DEF BridgeInv, BootOK, lockdown_enabled, reads_armed
  <2> QED
    BY Zenon, <2>1, <2>2 DEF Settled
<1>7. CASE FinishStart \/ StopPersist \/ Teardown
  <2>1. job.pc \in {"stop", "teardown"} => phase # "boot"
    BY StopHolder
  <2> QED
    BY <1>7, <2>1, Zenon DEF FinishStart, StopPersist, Teardown
<1>8. CASE ClientStep
  BY <1>8, Zenon DEF ClientStep, handle_start, handle_reload, handle_cancel, handle_unblock, handle_stop,
     check_health, LockdownOn, LockdownOff
<1>9. CASE Acquire \/ TaskStep \/ UnblockStep
  BY <1>9 DEF Acquire, TaskStep, OwnTask, OrphanTask, StrayEvent, UnblockStep, UnblockOff,
     UnblockIntent, UnblockCandidate
<1>10. CASE BootStep \/ BeginExit \/ Exit
  BY <1>10, Zenon DEF BootStep, RecoverAndRecord, ResolveStartup, BeginExit, Exit, ProcessGone
<1>11. CASE EnvStep
  BY Zenon, <1>11 DEF EnvStep, SessionDies, ClientGone, Crash, ProcessGone, Reboot, Damage, unlock,
     Boot, Shutdown
<1>12. CASE UNCHANGED vars
  BY Zenon, <1>12 DEF vars
<1> QED
  BY Zenon, <1>1, <1>2, <1>3, <1>4, <1>5, <1>6, <1>7, <1>8, <1>9, <1>10, <1>11, <1>12
     DEF Next, JobStep

\* Only start_inner takes a job to the cover, and it has just read the intent.
LEMMA HeedStep ==
  ASSUME BridgeInv, [Next]_vars, job.pc = "inner", job'.pc = "cover", job'.expect
  PROVE  intent # "Off"
<1>0. job # NoJob /\ job' # NoJob /\ job' # job /\ ~LockFree
  BY Zenon, NoJobIsNone DEF LockFree
<1>1. CASE ClientStep
  BY Zenon, <1>0, <1>1 DEF ClientStep, handle_start, handle_reload, handle_cancel, handle_unblock,
     handle_stop, check_health, LockdownOn, LockdownOff
<1>2. CASE Acquire \/ TaskStep \/ UnblockStep
  BY Zenon, <1>0, <1>2 DEF Acquire, TaskStep, OwnTask, OrphanTask, StrayEvent, UnblockStep,
     UnblockOff, UnblockIntent, UnblockCandidate
<1>3. CASE JobStep
  <2>1. StartInner
    BY Zenon, <1>3 DEF JobStep, ResolveServer, InstallLockdown, ApplyDns, FinishStart, StopPersist,
       Teardown, ReconcileOnce, ReleaseStray
  <2>2. ~SettleStart(FALSE) /\ ~SettleStart(TRUE)
    BY Zenon, SettleIs, NoJobIsNone DEF StartPlaces
  <2>3. job' = [job EXCEPT !.pc = "cover", !.expect = StillExpected]
    BY Zenon, <2>1, <2>2 DEF StartInner, Commit
  <2>4. job \in Jobs
    BY StartHolder DEF StartPlaces
  <2> QED
    BY <2>3, <2>4 DEF Jobs, StillExpected
<1>4. CASE BootStep
  <2>1. CASE ResolveStartup
    <3>1. job'.pc = "decide"
      BY <2>1 DEF ResolveStartup, NewJob
    <3> QED
      BY <3>1
  <2> QED
    BY Zenon, <1>0, <1>4, <2>1 DEF BootStep, RecoverAndRecord
<1>5. CASE BeginExit \/ Exit
  <2>1. CASE BeginExit
    <3>1. job'.pc = "stop"
      BY <2>1 DEF BeginExit, StopJob, NewJob
    <3> QED
      BY <3>1
  <2> QED
    BY Zenon, <1>0, <1>5, <2>1 DEF Exit
<1>6. CASE EnvStep
  BY Zenon, <1>0, <1>6
     DEF EnvStep, SessionDies, ClientGone, Crash, ProcessGone, Reboot, Damage, unlock, Boot, Shutdown
<1>7. CASE UNCHANGED vars
  BY Zenon, <1>0, <1>7 DEF vars
<1> QED
  BY Zenon, <1>1, <1>2, <1>3, <1>4, <1>5, <1>6, <1>7 DEF Next

\* The standing cover follows the kill switch: no step of the lock holder or
\* of the boot takes a live one down while the switch is on, but for an event
\* that decided Off or a start that fails once it began to install it, a
\* boot without faults leaves the host as the records say, and a start heeds an
\* unblock of its time (start_cancellable, start_inner, stop_with,
\* reconcile_once).
THEOREM CoverAlwaysFollows == Spec => CoverFollows
<1> DEFINE Drop == /\ os = "Live" /\ os' # "Live"
                   /\ phase # "down" /\ gone' = gone /\ ~(phase = "serve" /\ phase' = "exit")
                   /\ job' # job \/ phase' # phase
                   /\ lockdown_enabled(intent, adopted)
                   => /\ job # NoJob
                      /\ \/ job.tgt = Off \/ job.ev = "UserStopped"
                         \/ job.pc \in {"cover", "dns"}
           End == phase = "boot" /\ phase' = "serve" /\ clean'
                  => /\ target' = Off \/ intent' = "Off" => os' = "Absent"
                     /\ session' # None /\ intent' = "On" =>
                          session'.cfg \in SocksOnly \/ os' = "Live"
           Heed == job.pc = "inner" /\ job'.pc = "cover" /\ job'.expect
                   => intent # "Off"
<1>1. BridgeInv /\ [Next]_vars => [Drop]_vars
  BY Zenon, DropStep DEF MayDrop
<1>2. BridgeInv /\ [Next]_vars => [End]_vars
  BY BootEnds DEF Settled
<1>3. BridgeInv /\ [Next]_vars => [Heed]_vars
  BY Zenon, HeedStep
<1> HIDE DEF Drop, End, Heed
<1>4. Spec => [][Drop]_vars /\ [][End]_vars /\ [][Heed]_vars
  BY <1>1, <1>2, <1>3, BridgeInvHolds, PTL DEF Spec
<1> QED
  BY Zenon, <1>4 DEF CoverFollows, KillSwitchHolds, BootSettles, UnblockHeeded, Drop, End, Heed

=============================================================================
