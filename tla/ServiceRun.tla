---- MODULE ServiceRun ----
(***************************************************************************)
(* The Windows service process: `run_service`, from the registration of    *)
(* its control handler to the Stopped it reports last, beside the SCM's    *)
(* dispatcher thread, which calls the handler, and the task that forwards  *)
(* a Stop to the runtime.                                                  *)
(*                                                                         *)
(* The two threads share a `StopProgress`: the phase reported last, behind *)
(* a mutex the teardown waits for and the handler only tries, and a slot   *)
(* that holds the outcome of the handler's own report until a thread that  *)
(* may log takes it. A report to the SCM is made with the mutex held.      *)
(***************************************************************************)
EXTENDS Naturals, FiniteSets, TLC

CONSTANTS
    MaxControls   \* Stop and Shutdown controls the SCM may deliver

ASSUME ServiceRunAssumption == MaxControls \in Nat \ {0}

VARIABLES
    main,      \* where `run_service` is
    phase,     \* the stop phase it is entering
    lastPhase, \* StopProgress.last; 0 is None
    guard,     \* the thread that holds the mutex of `last`
    slot,      \* StopProgress.stop_control
    ctl,       \* the dispatcher thread
    controls,  \* controls delivered so far
    oneshot,   \* the Stop channel: its sender is still here, or it was used
    forward,   \* the forwarding task
    cancelled, \* the runtime's shutdown token
    scm,       \* what the SCM has been told last: state and checkpoint
    held,      \* what the process holds that a successor needs
    failed     \* whether the run ended in an error
serviceVars == <<main, phase, lastPhase, guard, slot, ctl, controls, oneshot,
                 forward, cancelled, scm, held, failed>>

-----------------------------------------------------------------------------
(* StopPhase: the phases in the order of their checkpoints. *)
PhaseNames == <<"StopRequested", "AcquireProxy", "PersistTarget", "RestoreDns",
                "StopEngine", "ReapPlugins", "StopProxy", "TearDownRoutes",
                "SettleCover", "CloseEtw", "DropResources", "ShutdownRuntime">>

Checkpoint(name) == CHOOSE i \in DOMAIN PhaseNames : PhaseNames[i] = name

StopRequested == Checkpoint("StopRequested")

\* The phases `stop_with_progress` may announce, all but the first of them
\* only when there is something to do in them.
ProxyPhases == Checkpoint("PersistTarget") .. Checkpoint("SettleCover")

Pending(p) == [state |-> "StopPending", cp |-> p]
Told(s) == [state |-> s, cp |-> 0]

ServiceInit ==
    /\ main = "registering" /\ phase = 0 /\ lastPhase = 0 /\ guard = "free"
    /\ slot = "none" /\ ctl = "idle" /\ controls = 0
    /\ oneshot = "open" /\ forward = "unspawned" /\ cancelled = FALSE
    /\ scm = Told("StartPending") /\ held = {} /\ failed = FALSE

-----------------------------------------------------------------------------
(* StopControl::merge: a panicked report outranks one that came back, which *)
(* outranks none made.                                                      *)
Merge(was, new) ==
    LET Weight(o) == CASE o = "none" -> 0 [] o = "superseded" -> 1
                       [] o = "reported" -> 2 [] o = "panicked" -> 3
    IN IF Weight(new) > Weight(was) THEN new ELSE was

\* log_stop_control: what is in the slot is taken and logged.
Logged == slot' = "none"

-----------------------------------------------------------------------------
(* run_service up to the moment the server accepts requests.               *)

\* service_ctrl::register: the claim and RegisterServiceCtrlHandlerExW. When
\* it is refused `run_service` returns without a word to the SCM.
RegisterHandler ==
    /\ main = "registering"
    /\ \/ main' = "starting" /\ UNCHANGED failed
       \/ main' = "abandoned" /\ failed' = TRUE
    /\ UNCHANGED <<phase, lastPhase, guard, slot, ctl, controls, oneshot,
                   forward, cancelled, scm, held>>

\* StartPending, the runtime, the socket, and the liveness lock. An error
\* in the runtime drops what the block holds and goes to finish_stop.
StartRuntime ==
    /\ main = "starting"
    /\ \/ main' = "readying" /\ held' = {"runtime", "socket", "liveness", "proxy"}
          /\ UNCHANGED <<failed, phase>>
       \/ main' = "lock" /\ phase' = Checkpoint("ShutdownRuntime")
          /\ held' = {"runtime"} /\ failed' = TRUE
    /\ UNCHANGED <<lastPhase, guard, slot, ctl, controls, oneshot, forward,
                   cancelled, scm>>

\* sweep_marker_then_ready: Running is reported unless the cutover's marker
\* is still there, or the report itself is refused.
ReportRunning ==
    /\ main = "readying"
    /\ \/ main' = "repairs" /\ scm' = Told("Running")
          /\ UNCHANGED <<failed, phase, held>>
       \/ main' = "lock" /\ phase' = Checkpoint("ShutdownRuntime")
          /\ held' = {"runtime"} /\ failed' = TRUE /\ UNCHANGED scm
    /\ UNCHANGED <<lastPhase, guard, slot, ctl, controls, oneshot, forward,
                   cancelled>>

\* run_startup_steps up to forward_shutdown: the repairs and the DNS
\* recovery first, then the task that carries a Stop to the runtime.
ForwardShutdown ==
    /\ main = "repairs"
    /\ main' = "booting" /\ forward' = "waiting"
    /\ UNCHANGED <<phase, lastPhase, guard, slot, ctl, controls, oneshot,
                   cancelled, scm, held, failed>>

\* boot_sequence, the sweeps, the snapshots and the ETW consumer, which may
\* fail to start.
StartServing ==
    /\ main = "booting"
    /\ main' = "serving"
    /\ \/ held' = held \cup {"etw"}
       \/ UNCHANGED held
    /\ UNCHANGED <<phase, lastPhase, guard, slot, ctl, controls, oneshot,
                   forward, cancelled, scm, failed>>

\* server.run_until returns once the token is cancelled, or by an error of
\* its own; either way the service is torn down.
ServerEnds ==
    /\ main = "serving"
    /\ main' = "lock" /\ phase' = Checkpoint("AcquireProxy")
    /\ held' = held \ {"socket"}
    /\ UNCHANGED <<lastPhase, guard, slot, ctl, controls, oneshot, forward,
                   cancelled, scm, failed>>

-----------------------------------------------------------------------------
(* StopProgress::enter, on the teardown's thread, in three steps: the      *)
(* mutex, the report under it, and the log after it.                       *)
EnterLocks ==
    /\ main = "lock" /\ guard = "free"
    /\ guard' = "main" /\ main' = "report"
    /\ UNCHANGED <<phase, lastPhase, slot, ctl, controls, oneshot, forward,
                   cancelled, scm, held, failed>>

MutAdvances(p) == TRUE

\* report_if_advancing: only a later phase is reported; it counts as the
\* last one even when the SCM refuses the report.
Advances(p) == lastPhase < p

ReportIfAdvancing(p) ==
    IF Advances(p)
    THEN /\ lastPhase' = p
         /\ \/ scm' = Pending(p)
            \/ UNCHANGED scm
    ELSE UNCHANGED <<lastPhase, scm>>

EnterReports ==
    /\ main = "report"
    /\ ReportIfAdvancing(phase)
    /\ guard' = "free" /\ main' = "log"
    /\ UNCHANGED <<phase, slot, ctl, controls, oneshot, forward, cancelled,
                   held, failed>>

EnterLogs ==
    /\ main = "log"
    /\ Logged /\ main' = "work"
    /\ UNCHANGED <<phase, lastPhase, guard, ctl, controls, oneshot, forward,
                   cancelled, scm, held, failed>>

\* The work of a phase, and the next one. tear_down: the proxy's phases,
\* CloseEtw when there is a consumer, DropResources, then finish_stop.
NextPhase(p) ==
    CASE p < Checkpoint("SettleCover") ->
           {q \in ProxyPhases : q > p}
             \cup (IF "etw" \in held THEN {Checkpoint("CloseEtw")}
                   ELSE {Checkpoint("DropResources")})
      [] p = Checkpoint("SettleCover") ->
           IF "etw" \in held THEN {Checkpoint("CloseEtw")}
           ELSE {Checkpoint("DropResources")}
      [] p = Checkpoint("CloseEtw") -> {Checkpoint("DropResources")}
      [] p = Checkpoint("DropResources") -> {Checkpoint("ShutdownRuntime")}

\* What a phase lets go of. A request handler that still has the proxy
\* keeps it until the runtime is dropped.
Frees(p) ==
    CASE p = Checkpoint("CloseEtw") -> {{"etw"}}
      [] p = Checkpoint("DropResources") -> {{"liveness"}, {"liveness", "proxy"}}
      [] OTHER -> {{}}

PhaseWork ==
    /\ main = "work" /\ phase # Checkpoint("ShutdownRuntime")
    /\ \E gone \in Frees(phase) : held' = held \ gone
    /\ phase' \in NextPhase(phase)
    /\ main' = "lock"
    /\ UNCHANGED <<lastPhase, guard, slot, ctl, controls, oneshot, forward,
                   cancelled, scm, failed>>

MutDropRuntime ==
    /\ main = "work" /\ phase = Checkpoint("ShutdownRuntime")
    /\ held' = held \ {"runtime"}
    /\ forward' = IF forward = "waiting" THEN "dropped" ELSE forward
    /\ main' = "dropped"
    /\ UNCHANGED <<phase, lastPhase, guard, slot, ctl, controls, oneshot,
                   cancelled, scm, failed>>

\* finish_stop: the runtime is dropped, with every task left in it, and
\* only then is Stopped reported; a refused report is only logged.
DropRuntime ==
    /\ main = "work" /\ phase = Checkpoint("ShutdownRuntime")
    /\ held' = {}
    /\ forward' = IF forward = "waiting" THEN "dropped" ELSE forward
    /\ main' = "dropped"
    /\ UNCHANGED <<phase, lastPhase, guard, slot, ctl, controls, oneshot,
                   cancelled, scm, failed>>

ReportStopped ==
    /\ main = "dropped"
    /\ main' = "done"
    /\ \/ scm' = Told("Stopped")
       \/ UNCHANGED scm
    /\ UNCHANGED <<phase, lastPhase, guard, slot, ctl, controls, oneshot,
                   forward, cancelled, held, failed>>

-----------------------------------------------------------------------------
(* The dispatcher thread. The SCM sends a Stop or a Shutdown only to a     *)
(* service whose last status accepts them; it may be on its way while the  *)
(* service goes down by itself. Interrogate and unknown controls change    *)
(* nothing and are left out.                                               *)
ScmSends ==
    /\ ctl = "idle" /\ controls < MaxControls
    /\ scm.state = "Running" /\ main # "done"
    /\ ctl' = "sent" /\ controls' = controls + 1
    /\ UNCHANGED <<main, phase, lastPhase, guard, slot, oneshot, forward,
                   cancelled, scm, held, failed>>

\* report_stop_control: the mutex is only tried; when the teardown holds
\* it, a later phase is being reported.
HandlerTries ==
    /\ ctl = "sent" /\ main # "done"
    /\ \/ guard = "free" /\ guard' = "ctl" /\ ctl' = "report" /\ UNCHANGED slot
       \/ guard # "free" /\ slot' = Merge(slot, "superseded") /\ ctl' = "signal"
          /\ UNCHANGED guard
    /\ UNCHANGED <<main, phase, lastPhase, controls, oneshot, forward,
                   cancelled, scm, held, failed>>

\* As it would be if the handler gave the mutex back before it stores.
MutHandlerReports ==
    /\ ctl = "report"
    /\ \/ Advances(StopRequested) /\ ReportIfAdvancing(StopRequested)
          /\ ctl' \in {"reported", "panicked"}
       \/ ~Advances(StopRequested) /\ ctl' = "superseded"
          /\ UNCHANGED <<lastPhase, scm>>
    /\ guard' = "free"
    /\ UNCHANGED <<main, phase, slot, controls, oneshot, forward,
                   cancelled, held, failed>>

\* A report that panics is caught: the phase counts as reported and the
\* SCM may have been told or not.
HandlerReports ==
    /\ ctl = "report"
    /\ \/ Advances(StopRequested) /\ ReportIfAdvancing(StopRequested)
          /\ ctl' \in {"reported", "panicked"}
       \/ ~Advances(StopRequested) /\ ctl' = "superseded"
          /\ UNCHANGED <<lastPhase, scm>>
    /\ UNCHANGED <<main, phase, guard, slot, controls, oneshot, forward,
                   cancelled, held, failed>>

\* As it would be if a report that panicked ended the handler.
MutHandlerStores ==
    /\ ctl \in {"reported", "panicked", "superseded"}
    /\ slot' = Merge(slot, ctl)
    /\ ctl' = IF ctl = "panicked" THEN "idle" ELSE "signal"
    /\ guard' = IF guard = "ctl" THEN "free" ELSE guard
    /\ UNCHANGED <<main, phase, lastPhase, controls, oneshot, forward,
                   cancelled, scm, held, failed>>

\* The outcome is stored while the mutex is still held.
HandlerStores ==
    /\ ctl \in {"reported", "panicked", "superseded"}
    /\ slot' = Merge(slot, ctl) /\ ctl' = "signal"
    /\ guard' = IF guard = "ctl" THEN "free" ELSE guard
    /\ UNCHANGED <<main, phase, lastPhase, controls, oneshot, forward,
                   cancelled, scm, held, failed>>

\* request_stop and stop_control: the Stop is signalled whatever became of
\* the report; the channel's sender is used once.
HandlerSignals ==
    /\ ctl = "signal"
    /\ ctl' = "idle"
    /\ oneshot' = "sent"
    /\ UNCHANGED <<main, phase, lastPhase, guard, slot, controls, forward,
                   cancelled, scm, held, failed>>

\* forward_stop: the token first, then the log.
ForwardCancels ==
    /\ forward = "waiting" /\ oneshot = "sent" /\ "runtime" \in held
    /\ forward' = "logging" /\ cancelled' = TRUE
    /\ UNCHANGED <<main, phase, lastPhase, guard, slot, ctl, controls, oneshot,
                   scm, held, failed>>

ForwardLogs ==
    /\ forward = "logging"
    /\ forward' = "done" /\ Logged
    /\ UNCHANGED <<main, phase, lastPhase, guard, ctl, controls, oneshot,
                   cancelled, scm, held, failed>>

-----------------------------------------------------------------------------
Enter == EnterLocks \/ EnterReports \/ EnterLogs
TearDown == PhaseWork \/ DropRuntime \/ ReportStopped
Handle == HandlerTries \/ HandlerReports \/ HandlerStores \/ HandlerSignals

ServiceNext ==
    \/ RegisterHandler \/ StartRuntime \/ ReportRunning \/ ForwardShutdown
    \/ StartServing \/ ServerEnds
    \/ EnterLocks \/ EnterReports \/ EnterLogs
    \/ PhaseWork \/ DropRuntime \/ ReportStopped
    \/ ScmSends \/ HandlerTries \/ HandlerReports \/ HandlerStores
    \/ HandlerSignals \/ ForwardCancels \/ ForwardLogs

\* The threads run. The server is only sure to end once the token is
\* cancelled; the steps between Running and the server end, since each of
\* them is a blocking call the code joins.
ServerMustEnd == ServerEnds /\ cancelled
StartsUp == StartRuntime \/ ReportRunning \/ ForwardShutdown \/ StartServing

-----------------------------------------------------------------------------
\* What the SCM is told only ever moves forward: from StartPending to
\* Running, through StopPending with checkpoints that grow, to Stopped. The
\* handler's StopRequested, which races the teardown's first phases on
\* another thread, never sets the checkpoint back
\* (StopProgress::report_if_advancing).
StatusRank(s) ==
    CASE s.state = "StartPending" -> 0 [] s.state = "Running" -> 1
      [] s.state = "StopPending" -> 1 + s.cp [] s.state = "Stopped" -> 20
CheckpointsAdvance == [][scm' # scm => StatusRank(scm') > StatusRank(scm)]_serviceVars

\* By the time Stopped is reported, what became of the handler's report has
\* been logged: the slot holds neither a report nor a panic nobody read,
\* however the Stop raced the teardown (StopProgress::store_stop_control
\* and log_stop_control).
StopOutcomeLogged == main = "done" => slot \notin {"reported", "panicked"}

\* A successor can start when it reads Stopped: the socket, the liveness
\* lock, the ETW session, the proxy and the runtime are all gone, also when
\* a request still held the proxy or the start-up failed half way
\* (finish_stop).
StoppedIsClean == scm.state = "Stopped" => held = {} /\ forward # "waiting"

\* What the SCM reads of a stop is true and in order: the checkpoints grow,
\* the outcome of the handler's report is logged and Stopped comes last
\* (StopProgress, finish_stop).
StopReported == CheckpointsAdvance /\ [][StopOutcomeLogged' /\ StoppedIsClean']_serviceVars

\* A Stop the SCM sent ends the service: whatever the report of it did, and
\* also when it came while the start-up had not yet started to forward it
\* (request_stop, forward_shutdown).
StopEnds == (ctl = "sent") ~> (main = "done")

\* The service's three threads and the SCM, without the fairness StopEnds needs.
ServiceSpec == ServiceInit /\ [][ServiceNext]_serviceVars
====
