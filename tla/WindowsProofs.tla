--------------------------- MODULE WindowsProofs ----------------------------
(***************************************************************************)
(* The Windows service from both sides: what the bridge tells the SCM of a *)
(* stop, and the wait of whoever stops it, for any number of instances of  *)
(* the service, of processes and of orphans.                               *)
(***************************************************************************)
EXTENDS ServiceRun, StopWait, TLAPS

-----------------------------------------------------------------------------
(* The stop of the service.                                                *)

\* The checkpoints of the phases.
LEMMA Checkpoints ==
  /\ StopRequested = 1 /\ Checkpoint("AcquireProxy") = 2
  /\ ProxyPhases = 3 .. 9 /\ Checkpoint("SettleCover") = 9
  /\ Checkpoint("CloseEtw") = 10 /\ Checkpoint("DropResources") = 11
  /\ Checkpoint("ShutdownRuntime") = 12
<1>1. DOMAIN PhaseNames = 1 .. 12
  BY DEF PhaseNames
<1>2. Checkpoint("StopRequested") = 1
  BY <1>1 DEF Checkpoint, PhaseNames
<1>3. Checkpoint("AcquireProxy") = 2
  BY <1>1 DEF Checkpoint, PhaseNames
<1>4. Checkpoint("PersistTarget") = 3
  BY <1>1 DEF Checkpoint, PhaseNames
<1>5. Checkpoint("SettleCover") = 9
  BY <1>1 DEF Checkpoint, PhaseNames
<1>6. Checkpoint("CloseEtw") = 10
  BY <1>1 DEF Checkpoint, PhaseNames
<1>7. Checkpoint("DropResources") = 11
  BY <1>1 DEF Checkpoint, PhaseNames
<1>8. Checkpoint("ShutdownRuntime") = 12
  BY <1>1 DEF Checkpoint, PhaseNames
<1> QED
  BY <1>2, <1>3, <1>4, <1>5, <1>6, <1>7, <1>8 DEF StopRequested, ProxyPhases

\* Where the service's thread is before it reported Running, and after the
\* runtime is gone.
Early == {"registering", "starting", "readying"}
Ended == {"dropped", "done"}

\* The values of what the threads share.
ServiceTypeOK ==
  /\ phase \in 0 .. 12 /\ lastPhase \in 0 .. 12
  /\ slot \in {"none", "superseded", "reported", "panicked"}
  /\ scm \in [state : {"StartPending", "Running", "StopPending", "Stopped"}, cp : 0 .. 12]
  /\ main \in {"lock", "report", "log", "work"} => phase >= 1

\* A thread between the report and what it does next still has the mutex.
MutexOK ==
  /\ guard = "main" <=> main = "report"
  /\ ctl \in {"report", "reported", "panicked"} => guard = "ctl"

\* Past the teardown's first report the handler has nothing to report any
\* more, and past its first log nothing of it is left in the slot.
OutcomeOK ==
  /\ main \in {"log", "work"} \cup Ended => lastPhase >= 1 /\ ctl \notin {"reported", "panicked"}
  /\ main \in {"work"} \cup Ended => slot \notin {"reported", "panicked"}

\* What the SCM was told is what the service came to.
StatusOK ==
  /\ main \in Early => scm = Told("StartPending") /\ ctl = "idle"
  /\ scm.state = "StopPending" => scm.cp <= lastPhase
  /\ scm.state = "Stopped" => main = "done"
  /\ main \in Ended => held = {} /\ forward # "waiting"

\* The inductive invariant of the service.
ServiceIInv == ServiceTypeOK /\ MutexOK /\ OutcomeOK /\ StatusOK

\* A service that starts has told the SCM nothing but StartPending.
LEMMA ServiceInitIInv == ServiceInit => ServiceIInv
  BY DEF ServiceInit, ServiceIInv, ServiceTypeOK, MutexOK, OutcomeOK, StatusOK, Early, Ended, Told

\* A step forward in what the SCM is told.
Forward == scm' # scm => StatusRank(scm') > StatusRank(scm)

\* Every step of a thread keeps the invariant, and tells the SCM only what is
\* further on than what it was told before.
LEMMA ServiceStep ==
  ASSUME ServiceIInv, ServiceNext
  PROVE  ServiceIInv' /\ Forward
<1> USE DEF ServiceIInv, ServiceTypeOK, MutexOK, OutcomeOK, StatusOK, Early, Ended, Told, Forward
<1>1. CASE RegisterHandler
  BY <1>1 DEF RegisterHandler
<1>2. CASE StartRuntime
  BY <1>2, Checkpoints DEF StartRuntime
<1>3. CASE ReportRunning
  BY <1>3, Checkpoints DEF ReportRunning, StatusRank
<1>4. CASE ForwardShutdown
  BY <1>4 DEF ForwardShutdown
<1>5. CASE StartServing
  BY <1>5 DEF StartServing
<1>6. CASE ServerEnds
  BY <1>6, Checkpoints DEF ServerEnds
<1>7. CASE EnterLocks
  BY <1>7 DEF EnterLocks
<1>8. CASE EnterReports
  BY <1>8, Checkpoints DEF EnterReports, ReportIfAdvancing, Advances, Pending, StatusRank
<1>9. CASE EnterLogs
  BY <1>9 DEF EnterLogs, Logged
<1>10. CASE PhaseWork
  BY <1>10, Checkpoints DEF PhaseWork, NextPhase, Frees
<1>11. CASE DropRuntime
  BY <1>11 DEF DropRuntime
<1>12. CASE ReportStopped
  BY <1>12 DEF ReportStopped, StatusRank
<1>13. CASE ScmSends
  BY <1>13 DEF ScmSends
<1>14. CASE HandlerTries
  BY <1>14 DEF HandlerTries, Merge
<1>15. CASE HandlerReports
  BY <1>15, Checkpoints DEF HandlerReports, ReportIfAdvancing, Advances, Pending, StatusRank
<1>16. CASE HandlerStores
  BY <1>16 DEF HandlerStores, Merge
<1>17. CASE HandlerSignals
  BY <1>17 DEF HandlerSignals
<1>18. CASE ForwardCancels
  BY <1>18 DEF ForwardCancels
<1>19. CASE ForwardLogs
  BY <1>19 DEF ForwardLogs, Logged
<1> QED
  BY Zenon, <1>1, <1>2, <1>3, <1>4, <1>5, <1>6, <1>7, <1>8, <1>9, <1>10, <1>11, <1>12,
     <1>13, <1>14, <1>15, <1>16, <1>17, <1>18, <1>19
  DEF ServiceNext

\* Steps that change nothing here.
LEMMA ServiceStutter ==
  ASSUME ServiceIInv, UNCHANGED serviceVars
  PROVE  ServiceIInv'
  BY DEF serviceVars, ServiceIInv, ServiceTypeOK, MutexOK, OutcomeOK, StatusOK

\* What the SCM reads of a stop is true and in order, however its control
\* thread races the teardown: the checkpoints grow (StopProgress::
\* report_if_advancing), the outcome of the handler's report is logged
\* (log_stop_control), and Stopped comes when nothing is held any more
\* (finish_stop).
THEOREM StopAlwaysReported == ServiceSpec => StopReported
<1>1. ServiceIInv /\ [ServiceNext]_serviceVars => ServiceIInv'
  BY ServiceStep, ServiceStutter
<1>2. ServiceIInv /\ [ServiceNext]_serviceVars => [scm' # scm => StatusRank(scm') > StatusRank(scm)]_serviceVars
  BY ServiceStep DEF Forward
<1>3. ServiceIInv' => StopOutcomeLogged' /\ StoppedIsClean'
  BY DEF ServiceIInv, OutcomeOK, StatusOK, Ended, StopOutcomeLogged, StoppedIsClean
<1> QED
  BY ServiceInitIInv, <1>1, <1>2, <1>3, PTL DEF ServiceSpec, StopReported, CheckpointsAdvance

-----------------------------------------------------------------------------
(* The wait for a stop.                                                    *)

\* The states of the SCM, the steps of the wait and where they return.
ScmStates == {"Running", "StartPending", "StopPending", "Stopped"}
Looks == {"loop", "rescan", "refusedStop", "change", "noArm"}
Looking == {"read", "open", "confirm", "fate"}
Pcs == Looking \cup {"idle", "list", "probe", "arm", "stop", "terminate", "exits", "onTheirOwn",
                      "sleep", "settled", "failed"}
Tos == Looks \cup {"gone", "stop", "held", "armed", "unarmed"}
Names == {"Nothing", "Held", "NoSuchProcess", "NotTheService"}

\* The values of what the wait and the host keep.
StopHostType ==
  /\ proc \in [Instances -> [whose : {"service", "other", "nobody"}, pid : Nat,
                             life : {"unborn", "alive", "exited"}, parent : Nat]]
  /\ scmState \in [st : ScmStates, pid : Nat]
  /\ own \in Instances \cup {0}

StopWaitType ==
  /\ w \in [pc : Pcs, to : Tos]
  /\ reading \in [st : ScmStates, pid : Nat, named : Names]
  /\ scanning \in [left : SUBSET Instances, found : {"Nothing", "Alive", "Vanished"},
                   gone : SUBSET Instances]

\* Where a look, a scan or a wait comes from and returns to.
ToOK ==
  /\ w.pc \in Looking => w.to \in Looks
  /\ w.pc \in {"list", "probe"} => w.to \in {"rescan", "noArm", "gone"}
  /\ w.pc = "arm" => w.to \in {"stop", "change"}
  /\ w.pc = "stop" => w.to \in {"held", "armed", "unarmed"}
  /\ w.pc \in {"terminate", "exits", "onTheirOwn"} => w.to \in {"loop", "gone"}

\* The process of a service the SCM does not call stopped is its own start.
OwnOK ==
  /\ own # 0 => /\ own \in Instances /\ IsService(own)
                /\ proc[own].parent = 0 /\ proc[own].life # "unborn"
  /\ scmState.st = "Stopped" <=> own = 0

\* What the service's processes start are the service's.
ParentOK ==
  \A i \in Instances : IsService(i) =>
     /\ proc[i].life # "unborn"
     /\ proc[i].parent \in Instances => IsService(proc[i].parent)

\* What is held was opened: it carries the service's SID.
HeldOK ==
  \A i \in Pinned : i \in Instances /\ IsService(i) /\ proc[i].life # "unborn"

\* A service that is gone is not started again, and a STOPPED that was read
\* is older than any process the SCM started since: it holds none of those.
StoppedOK ==
  /\ w.to = "gone" => marked /\ scmState.st = "Stopped"
  /\ At("terminate") \/ (At("fate") /\ reading.st = "Stopped") => own \notin DOMAIN holds
  /\ w.pc \in {"open", "confirm"} => reading.st # "Stopped"

\* What was found gone has exited, and what waits to be probed is listed.
GoneOK ==
  /\ \A i \in vanished \cup scanning.gone : i \in Instances /\ proc[i].life = "exited"
  /\ \A i \in scanning.left : proc[i].life # "unborn"
  /\ ~At("probe") => scanning.left = {}

\* A live process of the service is still to be probed, was started since
\* the listing or could not be read; or that holds of the process that
\* started it, whose exit the scan has not seen.
Covered(i) ==
  \E j \in {i, proc[i].parent} :
     j \in unlisted \cup unread \/ (j \in scanning.left /\ j \notin vanished)

\* A scan that has found nothing so far, or found nothing at all.
ScanOK ==
  /\ unlisted \cup unread \subseteq Instances
  /\ /\ At("probe") \/ (w.pc \in Looking /\ w.to \in {"rescan", "noArm"})
     /\ scanning.found = "Nothing"
     => \A i \in Instances : Alive(i) /\ IsService(i) => Covered(i)

StopTypeOK == StopHostType /\ StopWaitType
StopIInv == StopTypeOK /\ ToOK /\ OwnOK /\ ParentOK /\ HeldOK /\ StoppedOK /\ GoneOK /\ ScanOK
            /\ SettledMeansDown

LEMMA StopInitIInv == StopWaitInit => StopIInv
<1> SUFFICES ASSUME StopWaitInit PROVE StopIInv
  OBVIOUS
<1> USE DEF StopWaitInit
<1>1. DOMAIN holds = {} /\ Pinned = {}
  BY DEF Pinned
<1>2. StopHostType
  BY StopWaitAssumption DEF StopHostType, ScmStates
<1>3. StopWaitType
  <2>1. w \in [pc : Pcs, to : Tos]
    BY DEF Pcs, Tos, Looks, Looking
  <2>2. reading \in [st : ScmStates, pid : Nat, named : Names]
    BY DEF ScmStates, NoReading, Names
  <2>3. scanning \in [left : SUBSET Instances, found : {"Nothing", "Alive", "Vanished"},
                      gone : SUBSET Instances]
    BY DEF NoScan
  <2> QED
    BY <2>1, <2>2, <2>3 DEF StopWaitType
<1>4. ToOK /\ StoppedOK
  BY <1>1 DEF ToOK, StoppedOK, Looking, At
<1>5. OwnOK /\ ParentOK
  BY StopWaitAssumption DEF OwnOK, ParentOK, IsService
<1>6. HeldOK /\ GoneOK
  BY <1>1 DEF HeldOK, GoneOK, NoScan
<1>7. ScanOK /\ SettledMeansDown
  BY DEF ScanOK, SettledMeansDown, At, Looking
<1> QED
  BY <1>2, <1>3, <1>4, <1>5, <1>6, <1>7 DEF StopIInv, StopTypeOK

-----------------------------------------------------------------------------
\* What no step of the host does: a process keeps its owner, its id and its
\* parent, and does not come back; one that is born is foreign, started by
\* the SCM, or a child of the live process of the service.
Grown ==
  \A i \in Instances :
    \/ /\ proc[i].life # "unborn" /\ proc'[i].life # "unborn"
       /\ proc'[i].whose = proc[i].whose /\ proc'[i].parent = proc[i].parent
       /\ proc'[i].life = "alive" => proc[i].life = "alive"
    \/ proc'[i] = proc[i]
    \/ /\ proc[i].life = "unborn" /\ proc'[i].life = "alive"
       /\ \/ proc'[i].whose = "other"
          \/ i \in unlisted' /\ proc'[i].parent = 0
          \/ own # 0 /\ Alive(own) /\ proc'[i].parent = own

\* A step of the host keeps what the wait relies on.
LEMMA HostKeeps ==
  ASSUME StopIInv, StopHostType', OwnOK', Grown,
         UNCHANGED <<w, reading, candidate, holds, vanished, scanning, unread, marked>>,
         unlisted \subseteq unlisted', unlisted' \subseteq Instances,
         own' \in {own, 0} \/ (own' \in Instances /\ proc[own'].life = "unborn"),
         marked /\ scmState.st = "Stopped" => scmState'.st = "Stopped"
  PROVE  StopIInv'
<1> USE DEF StopIInv
<1>1. StopTypeOK' /\ ToOK'
  BY DEF StopTypeOK, StopWaitType, ToOK
<1>2. Pinned' = Pinned
  BY DEF Pinned
<1>3. HeldOK'
  BY <1>2 DEF HeldOK, Grown, IsService, StopTypeOK, StopHostType
<1>4. 0 \notin Instances
  BY StopWaitAssumption
<1>5. StoppedOK'
  <2>1. DOMAIN holds \subseteq Pinned
    BY DEF Pinned
  <2>2. (own \notin DOMAIN holds) => own' \notin DOMAIN holds
    BY <2>1, <1>4 DEF HeldOK
  <2> QED
    BY <2>2 DEF StoppedOK, At
<1>6. GoneOK'
  BY DEF GoneOK, At, Grown, StopHostType, StopTypeOK, StopWaitType
<1>7. \A i \in Instances : Alive(i)' /\ IsService(i)' =>
         \/ Alive(i) /\ IsService(i) /\ proc'[i].parent = proc[i].parent
         \/ i \in unlisted'
         \/ own \in Instances /\ Alive(own) /\ IsService(own) /\ proc[own].parent = 0 /\ proc'[i].parent = own
  BY DEF Grown, Alive, IsService, OwnOK
<1>8. ScanOK'
  <2> SUFFICES ASSUME At("probe") \/ (w.pc \in Looking /\ w.to \in {"rescan", "noArm"}),
                      scanning.found = "Nothing",
                      NEW i \in Instances, Alive(i)', IsService(i)'
               PROVE  Covered(i)'
    BY DEF ScanOK, At
  <2>1. \A j \in Instances : Alive(j) /\ IsService(j) => Covered(j)
    BY DEF ScanOK
  <2>2. CASE Alive(i) /\ IsService(i) /\ proc'[i].parent = proc[i].parent
    BY <2>1, <2>2 DEF Covered
  <2>3. CASE i \in unlisted'
    BY <2>3 DEF Covered
  <2>4. CASE own \in Instances /\ Alive(own) /\ IsService(own) /\ proc[own].parent = 0 /\ proc'[i].parent = own
    <3>1. Covered(own)
      BY <2>1, <2>4
    <3>2. 0 \notin unlisted \cup unread \cup scanning.left
      BY <1>4 DEF ScanOK, StopTypeOK, StopWaitType
    <3>3. own \in unlisted \cup unread \/ (own \in scanning.left /\ own \notin vanished)
      BY <3>1, <3>2, <2>4 DEF Covered
    <3> QED
      BY <3>3, <2>4 DEF Covered
  <2> QED
    BY <1>7, <2>2, <2>3, <2>4
<1>9. SettledMeansDown'
  <2> SUFFICES ASSUME At("settled"), NEW i \in Instances, Alive(i)', IsService(i)'
               PROVE  {i, proc'[i].parent} \cap (unlisted' \cup unread) # {}
    BY DEF SettledMeansDown, At
  <2>1. \A j \in Instances : Alive(j) /\ IsService(j) =>
           {j, proc[j].parent} \cap (unlisted \cup unread) # {}
    BY DEF SettledMeansDown
  <2>2. CASE Alive(i) /\ IsService(i) /\ proc'[i].parent = proc[i].parent
    BY <2>1, <2>2
  <2>3. CASE i \in unlisted'
    BY <2>3
  <2>4. CASE own \in Instances /\ Alive(own) /\ IsService(own) /\ proc[own].parent = 0 /\ proc'[i].parent = own
    <3>1. {own, 0} \cap (unlisted \cup unread) # {}
      BY <2>1, <2>4
    <3>2. 0 \notin unlisted \cup unread
      BY <1>4 DEF ScanOK
    <3> QED
      BY <3>1, <3>2, <2>4
  <2> QED
    BY <1>7, <2>2, <2>3, <2>4
<1>10. ParentOK'
  <2> SUFFICES ASSUME NEW i \in Instances, IsService(i)'
               PROVE  /\ proc'[i].life # "unborn"
                      /\ proc'[i].parent \in Instances => IsService(proc[i].parent)'
    BY DEF ParentOK
  <2>1. \A j \in Instances : IsService(j) => IsService(j)'
    BY DEF Grown, ParentOK, IsService
  <2>2. CASE IsService(i) /\ proc'[i].parent = proc[i].parent /\ proc'[i].life # "unborn"
    BY <2>1, <2>2 DEF ParentOK, IsService
  <2>3. CASE proc'[i].life = "alive" /\ proc'[i].parent = 0
    BY <1>4, <2>3
  <2>4. CASE proc'[i].life = "alive" /\ own # 0 /\ proc'[i].parent = own
    BY <2>1, <2>4 DEF OwnOK, IsService
  <2> QED
    BY <2>2, <2>3, <2>4 DEF Grown, ParentOK, IsService
<1> QED
  BY <1>1, <1>3, <1>5, <1>6, <1>8, <1>9, <1>10

\* A birth leaves every other process as it is.
BornAs(i, whose, p, parent) ==
  /\ proc' \in [Instances -> [whose : {"service", "other", "nobody"}, pid : Nat,
                               life : {"unborn", "alive", "exited"}, parent : Nat]]
  /\ proc[i].life = "unborn"
  /\ proc'[i].whose = whose /\ proc'[i].life = "alive" /\ proc'[i].parent = parent
  /\ \A j \in Instances : j # i => proc'[j] = proc[j]

LEMMA BornType ==
  ASSUME StopTypeOK, NEW i \in Instances, NEW whose \in {"service", "other"}, NEW p \in Nat,
         NEW parent \in Nat, Born(i, whose, p, parent)
  PROVE  BornAs(i, whose, p, parent)
  BY DEF StopTypeOK, StopHostType, Born, BornAs

LEMMA HostStep ==
  ASSUME StopIInv,
         ForeignBorn \/ PluginBorn \/ ScmStarts \/ ScmRuns \/ ScmStopped \/ ProcessExits
  PROVE  StopIInv'
<1> USE DEF StopIInv
<1>0. Instances \subseteq Nat /\ 0 \notin Instances /\ Pids \subseteq Nat
  BY StopWaitAssumption
<1>1. CASE ForeignBorn
  <2>1. PICK i \in Instances, p \in Nat : Born(i, "other", p, 0)
    BY <1>1 DEF ForeignBorn, StopTypeOK, StopHostType
  <2>2. UNCHANGED <<scmState, own, marked, unlisted, waitVars>>
    BY <1>1 DEF ForeignBorn
  <2>a. BornAs(i, "other", p, 0)
    BY <2>1, BornType
  <2>3. StopHostType'
    BY <2>2, <2>a DEF BornAs, StopTypeOK, StopHostType
  <2>4. OwnOK'
    BY <2>2, <2>a DEF BornAs, OwnOK, IsService
  <2>5. Grown
    BY Zenon, <2>a DEF BornAs, Grown
  <2> QED
    BY <2>2, <2>3, <2>4, <2>5, HostKeeps DEF waitVars, ScanOK
<1>2. CASE PluginBorn
  <2>1. PICK i \in Instances, p \in Pids : Born(i, "service", p, own)
    BY <1>2 DEF PluginBorn
  <2>2. UNCHANGED <<scmState, own, marked, unlisted, waitVars>> /\ own # 0 /\ Alive(own) /\ own \in Nat
    BY <1>2, <1>0 DEF PluginBorn, OwnOK
  <2>a. BornAs(i, "service", p, own)
    BY <1>0, <2>1, <2>2, BornType
  <2>3. StopHostType'
    BY <1>0, <2>2, <2>a DEF BornAs, StopTypeOK, StopHostType
  <2>4. OwnOK'
    BY <1>0, <2>2, <2>a DEF BornAs, OwnOK, IsService
  <2>5. Grown
    BY Zenon, <1>0, <2>2, <2>a DEF BornAs, Grown
  <2> QED
    BY <2>2, <2>3, <2>4, <2>5, HostKeeps DEF waitVars, ScanOK
<1>3. CASE ScmStarts
  <2>1. PICK i \in Instances, p \in Pids :
           /\ Born(i, "service", p, 0)
           /\ own' = i /\ unlisted' = unlisted \cup {i}
           /\ scmState' \in {[st |-> "StartPending", pid |-> q] : q \in {p, scmState.pid}}
    BY <1>3 DEF ScmStarts
  <2>2. UNCHANGED <<marked, w, reading, candidate, holds, vanished, scanning, unread>> /\ ~marked
    BY <1>3 DEF ScmStarts
  <2>a. BornAs(i, "service", p, 0)
    BY <1>0, <2>1, BornType
  <2>b. PICK q \in {p, scmState.pid} : scmState' = [st |-> "StartPending", pid |-> q]
    BY <2>1
  <2>3. StopHostType' /\ scmState'.st = "StartPending"
    BY <1>0, <2>1, <2>2, <2>b, <2>a DEF BornAs, StopTypeOK, StopHostType, ScmStates
  <2>4. OwnOK'
    BY <1>0, <2>1, <2>3, <2>a DEF BornAs, OwnOK, IsService
  <2>5. Grown
    BY <1>0, <2>1, <2>2, <2>a DEF BornAs, Grown
  <2>6. own' \in Instances /\ proc[own'].life = "unborn"
    BY Zenon, <2>1, <2>a DEF BornAs
  <2> QED
    BY Zenon, <2>1, <2>2, <2>3, <2>4, <2>5, <2>6, HostKeeps DEF ScanOK
<1>4. CASE ScmRuns
  <2>1. own \in Instances
    BY <1>4 DEF ScmRuns, StopTypeOK, StopHostType, OwnOK, Alive
  <2>2. StopHostType'
    BY <1>4, <2>1 DEF ScmRuns, StopTypeOK, StopHostType, ScmStates
  <2>3. OwnOK' /\ Grown /\ scmState.st # "Stopped"
    BY <1>4 DEF ScmRuns, OwnOK, IsService, Grown
  <2> QED
    BY <1>4, <2>2, <2>3, HostKeeps DEF ScmRuns, ScanOK
<1>5. CASE ScmStopped
  <2>2. StopHostType' /\ scmState'.st = "Stopped"
    BY <1>5 DEF ScmStopped, StopTypeOK, StopHostType, ScmStates
  <2>3. OwnOK' /\ Grown
    BY <1>5 DEF ScmStopped, OwnOK, IsService, Grown
  <2> QED
    BY <1>5, <2>2, <2>3, HostKeeps DEF ScmStopped, ScanOK
<1>6. CASE ProcessExits
  <2>1. PICK i \in Instances : Alive(i) /\ proc' = [proc EXCEPT ![i].life = "exited"]
    BY Zenon, <1>6 DEF ProcessExits
  <2>2. UNCHANGED <<scmState, own, marked, unlisted, waitVars>>
    BY <1>6 DEF ProcessExits
  <2>3. StopHostType'
    BY <2>1, <2>2 DEF StopTypeOK, StopHostType
  <2>4. OwnOK'
    BY <2>1, <2>2 DEF OwnOK, IsService, StopTypeOK, StopHostType
  <2>5. Grown
    BY <2>1 DEF Grown, Alive, StopTypeOK, StopHostType
  <2> QED
    BY <2>2, <2>3, <2>4, <2>5, HostKeeps DEF waitVars, ScanOK
<1> QED
  BY <1>1, <1>2, <1>3, <1>4, <1>5, <1>6

-----------------------------------------------------------------------------
\* A step of the wait outside of a scan.
LEMMA WaitKeeps ==
  ASSUME StopIInv, StopTypeOK', ToOK', OwnOK', HeldOK', StoppedOK',
         UNCHANGED <<proc, own, unlisted, unread, vanished, scanning>>,
         w.pc # "probe", w'.pc \notin {"probe", "settled"},
         w'.pc \in Looking /\ w'.to \in {"rescan", "noArm"} => w.pc \in Looking /\ w.to = w'.to
  PROVE  StopIInv'
<1> USE DEF StopIInv
<1>1. GoneOK'
  BY DEF GoneOK, At
<1>2. ScanOK'
  <2> SUFFICES ASSUME At("probe")' \/ (w'.pc \in Looking /\ w'.to \in {"rescan", "noArm"}),
                      scanning'.found = "Nothing",
                      NEW i \in Instances, Alive(i)', IsService(i)'
               PROVE  Covered(i)'
    BY DEF ScanOK, At
  <2>1. Covered(i)
    BY DEF ScanOK, At, Alive, IsService
  <2> QED
    BY <2>1 DEF Covered
<1>3. SettledMeansDown'
  BY DEF SettledMeansDown, At
<1>4. ParentOK'
  BY DEF ParentOK, IsService
<1> QED
  BY <1>1, <1>2, <1>3, <1>4

\* A reading just taken: what it names is held already, or to be opened.
LEMMA Considered ==
  ASSUME StopIInv, w.pc \in {"read", "confirm"}, Consider(scmState),
         UNCHANGED <<proc, scmState, own, marked, unlisted, vanished, scanning, unread>>
  PROVE  StopIInv'
<1> USE DEF StopIInv
<1>1. PICK q \in {"fate", "open"} : w' = [w EXCEPT !.pc = q]
  BY DEF Consider, Goto
<1>2. w' \in [pc : Pcs, to : Tos] /\ w'.pc = q /\ w'.to = w.to
  BY <1>1 DEF StopTypeOK, StopWaitType, Pcs, Looking
<1>3. PICK named \in Names : reading' = [st |-> scmState.st, pid |-> ProcessToHold(scmState), named |-> named]
  BY DEF Consider, Names
<1>4. ProcessToHold(scmState) \in Nat
  BY DEF ProcessToHold, ReportedPid, StopTypeOK, StopHostType, ScmStates
<1>5. reading' \in [st : ScmStates, pid : Nat, named : Names] /\ reading'.st = scmState.st
  BY <1>3, <1>4 DEF StopTypeOK, StopHostType
<1>6. StopTypeOK'
  BY <1>2, <1>5 DEF StopTypeOK, StopHostType, StopWaitType
<1>7. ToOK'
  BY <1>2 DEF ToOK, Looking
<1>8. OwnOK'
  BY DEF OwnOK, IsService
<1>9. DOMAIN holds' = DOMAIN holds /\ candidate' = 0
  BY DEF Consider
<1>10. HeldOK'
  BY <1>9 DEF HeldOK, Pinned, IsService
<1>11. StoppedOK'
  <2>1. own \notin DOMAIN holds \/ own # 0
    BY StopWaitAssumption DEF HeldOK, Pinned
  <2>2. q = "open" => scmState.st # "Stopped"
    BY <1>2 DEF Consider, Goto, ProcessToHold, ReportedPid
  <2> QED
    BY <1>2, <1>5, <1>9, <2>1, <2>2 DEF StoppedOK, At, OwnOK
<1> QED
  BY <1>2, <1>6, <1>7, <1>8, <1>10, <1>11, WaitKeeps DEF Looking

LEMMA ReadStep ==
  ASSUME StopIInv, Begin \/ ReadService \/ OpenNamed
  PROVE  StopIInv'
<1> USE DEF StopIInv
<1>1. CASE Begin
  <2>1. w.pc = "idle" /\ UNCHANGED <<hostVars, reading, candidate, look, holds, vanished, scanning, armed, unread>>
    BY <1>1 DEF Begin, At
  <2>2. \/ w' = [pc |-> "read", to |-> "loop"]
        \/ w' = [pc |-> "list", to |-> "gone"] /\ marked /\ scmState.st = "Stopped"
    BY <1>1 DEF Begin, LookThen
  <2>3. StopTypeOK'
    BY <2>1, <2>2 DEF hostVars, StopTypeOK, StopHostType, StopWaitType, Pcs, Tos, Looks, Looking
  <2>4. ToOK' /\ OwnOK' /\ HeldOK'
    BY <2>1, <2>2 DEF hostVars, ToOK, OwnOK, HeldOK, IsService, Pinned, Looks, Looking
  <2>5. StoppedOK'
    BY <2>1, <2>2 DEF hostVars, StoppedOK, At
  <2> QED
    BY <2>1, <2>2, <2>3, <2>4, <2>5, WaitKeeps DEF hostVars, Looking
<1>2. CASE ReadService
  BY <1>2, Considered DEF ReadService, hostVars, At
<1>3. CASE OpenNamed
  <2>1. w.pc = "open" /\ UNCHANGED <<hostVars, look, holds, vanished, scanning, armed, unread>>
    BY <1>3 DEF OpenNamed, At
  <2>2. PICK q \in {"fate", "confirm", "failed"} : w' = [w EXCEPT !.pc = q]
    BY <1>3 DEF OpenNamed, Goto
  <2>3. w' \in [pc : Pcs, to : Tos] /\ w'.pc = q /\ w'.to = w.to
    BY <2>2 DEF StopTypeOK, StopWaitType, Pcs, Looking
  <2>4. reading' \in [st : ScmStates, pid : Nat, named : Names] /\ reading'.st = reading.st
    BY <1>3 DEF OpenNamed, StopTypeOK, StopWaitType, Names
  <2>5. candidate' = 0 \/ (candidate' \in Instances /\ Alive(candidate') /\ IsService(candidate'))
    BY <1>3 DEF OpenNamed, Opens
  <2>6. StopTypeOK'
    BY <2>1, <2>3, <2>4 DEF hostVars, StopTypeOK, StopHostType, StopWaitType
  <2>7. ToOK' /\ OwnOK'
    BY Zenon, <2>1, <2>3 DEF hostVars, ToOK, OwnOK, IsService, Looking
  <2>8. HeldOK'
    BY <2>1, <2>5 DEF hostVars, HeldOK, Pinned, IsService, Alive
  <2>9. StoppedOK'
    BY <2>1, <2>3, <2>4 DEF hostVars, StoppedOK, At
  <2> QED
    BY <2>1, <2>3, <2>6, <2>7, <2>8, <2>9, WaitKeeps DEF hostVars, Looking
<1> QED
  BY <1>1, <1>2, <1>3

LEMMA ConfirmStep == ASSUME StopIInv, ConfirmNamed PROVE StopIInv'
<1> USE DEF StopIInv
<1>1. w.pc = "confirm" /\ UNCHANGED <<hostVars, look, vanished, scanning, armed, unread>>
  BY DEF ConfirmNamed, At
<1>2. CASE Consider(scmState)
  BY <1>1, <1>2, Considered DEF hostVars
<1>3. CASE ~Consider(scmState)
  <2>1. /\ ProcessToHold(scmState) = reading.pid
        /\ reading' = [st |-> scmState.st, pid |-> reading.pid,
                       named |-> IF candidate = 0 THEN "NotTheService" ELSE "Held"]
        /\ candidate' = 0 /\ Goto("fate")
        /\ holds' = IF candidate = 0 THEN holds
                    ELSE HeldWith(candidate, ClaimOf(reading.st, scmState.st))
    BY <1>3 DEF ConfirmNamed
  <2>2. w' \in [pc : Pcs, to : Tos] /\ w'.pc = "fate" /\ w'.to = w.to
    BY <2>1 DEF Goto, StopTypeOK, StopWaitType, Pcs, Looking
  <2>3. reading' \in [st : ScmStates, pid : Nat, named : Names] /\ reading'.st = scmState.st
    BY <2>1 DEF StopTypeOK, StopHostType, StopWaitType, Names
  <2>4. StopTypeOK'
    BY Zenon, <1>1, <2>2, <2>3 DEF hostVars, StopTypeOK, StopHostType, StopWaitType
  <2>5. ToOK' /\ OwnOK'
    BY <1>1, <2>2 DEF hostVars, ToOK, OwnOK, IsService, Looking
  <2>6. DOMAIN holds' = Pinned /\ Pinned' = Pinned
    BY <2>1 DEF Pinned, HeldWith
  <2>7. HeldOK'
    BY Zenon, <1>1, <2>6 DEF hostVars, HeldOK, IsService
  <2>8. 0 \notin Pinned
    BY StopWaitAssumption DEF HeldOK
  <2>9. StoppedOK'
    BY Zenon, <1>1, <2>2, <2>3, <2>6, <2>8 DEF hostVars, StoppedOK, At, OwnOK
  <2> QED
    BY <1>1, <2>2, <2>4, <2>5, <2>7, <2>9, WaitKeeps DEF hostVars, Looking
<1> QED
  BY <1>2, <1>3

LEMMA ArmStep == ASSUME StopIInv, Arm \/ Sleep \/ ExitsSeen PROVE StopIInv'
<1> USE DEF StopIInv
<1>1. UNCHANGED <<hostVars, reading, candidate, holds, vanished, scanning, unread>>
  BY DEF Arm, Sleep, ExitsSeen
<1>2. w.pc \in {"arm", "sleep", "exits", "onTheirOwn"}
  BY DEF Arm, Sleep, ExitsSeen, At
<1>3. /\ w' \in [pc : Pcs, to : Tos]
      /\ w'.pc \notin {"probe", "settled", "open", "confirm", "fate", "terminate"}
      /\ w'.to = "gone" => w.to = "gone"
      /\ w'.pc \in Looking => w'.to \in {"loop", "change"}
      /\ ToOK'
  <2> USE DEF StopTypeOK, StopWaitType, Pcs, Tos, Looks, Looking, ToOK
  <2>1. CASE Arm
    BY <2>1 DEF Arm, At, Goto
  <2>2. CASE Sleep
    BY <2>2 DEF Sleep, At, LookThen
  <2>3. CASE ExitsSeen
    BY <2>3 DEF ExitsSeen, At, LookThen
  <2> QED
    BY <2>1, <2>2, <2>3
<1>4. StopTypeOK'
  BY <1>1, <1>3 DEF hostVars, StopTypeOK, StopHostType, StopWaitType
<1>5. OwnOK' /\ HeldOK'
  BY Zenon, <1>1 DEF hostVars, OwnOK, HeldOK, Pinned, IsService
<1>6. StoppedOK'
  BY <1>1, <1>3 DEF hostVars, StoppedOK, At
<1> QED
  BY <1>1, <1>2, <1>3, <1>4, <1>5, <1>6, WaitKeeps DEF hostVars, Looking

LEMMA ControlStep == ASSUME StopIInv, ControlStop PROVE StopIInv'
<1> USE DEF StopIInv
<1>1. w.pc = "stop" /\ w.to \in {"held", "armed", "unarmed"}
      /\ UNCHANGED <<proc, own, marked, unlisted, reading, candidate, look,
                      holds, vanished, scanning, unread>>
  BY DEF ControlStop, At, ToOK
<1>2. w' \in {[pc |-> "onTheirOwn", to |-> "loop"], [pc |-> "sleep", to |-> "loop"],
              [pc |-> "list", to |-> "noArm"], [pc |-> "read", to |-> "refusedStop"]}
  BY <1>1 DEF ControlStop, AfterStop, LookThen
<1>3. /\ scmState' \in [st : ScmStates, pid : Nat]
      /\ scmState.st = "Stopped" <=> scmState'.st = "Stopped"
  BY DEF ControlStop, StopTypeOK, StopHostType, ScmStates
<1>4. StopTypeOK' /\ ToOK'
  BY <1>1, <1>2, <1>3 DEF StopTypeOK, StopHostType, StopWaitType, ToOK, Pcs, Tos, Looks, Looking
<1>5. OwnOK' /\ HeldOK'
  BY <1>1, <1>3 DEF OwnOK, HeldOK, Pinned, IsService
<1>6. StoppedOK'
  BY <1>1, <1>2 DEF StoppedOK, At
<1> QED
  BY <1>1, <1>2, <1>4, <1>5, <1>6, WaitKeeps DEF Looking

-----------------------------------------------------------------------------
\* Where a look sends the wait, in whatever state it found the service.
LEMMA DispatchTo ==
  ASSUME NEW l, l.st \in ScmStates
  PROVE  /\ Dispatch(l) \in {[pc |-> "list", to |-> "rescan"], [pc |-> "stop", to |-> "held"],
                              [pc |-> "arm", to |-> "stop"], [pc |-> "terminate", to |-> "loop"],
                              [pc |-> "arm", to |-> "change"]}
         /\ Dispatch(l).pc = "terminate" => l.st = "Stopped"
<1>1. /\ SettleStep(l) \in {"AwaitChange", "SendStop", "AwaitHeldExit", "Quiescent"}
      /\ SettleStep(l) = "AwaitHeldExit" => l.st = "Stopped"
  BY DEF SettleStep, ScmStates
<1> QED
  BY <1>1 DEF Dispatch

LEMMA LookedTo ==
  ASSUME NEW l, l.st \in ScmStates, w.to \in Looks
  PROVE  /\ Looked(l) \in {[pc |-> "list", to |-> "rescan"], [pc |-> "stop", to |-> "held"],
                            [pc |-> "arm", to |-> "stop"], [pc |-> "terminate", to |-> "loop"],
                            [pc |-> "arm", to |-> "change"], [pc |-> "settled", to |-> "loop"],
                            [pc |-> "failed", to |-> "loop"], [pc |-> "sleep", to |-> "loop"],
                            [pc |-> "onTheirOwn", to |-> "loop"]}
         /\ Looked(l).pc = "terminate" => l.st = "Stopped"
         /\ Looked(l).pc = "settled" => w.to \in {"rescan", "noArm"} /\ scanning.found = "Nothing"
<1> DEFINE sent == Dispatch(l)
<1>0. /\ sent \in {[pc |-> "list", to |-> "rescan"], [pc |-> "stop", to |-> "held"],
                 [pc |-> "arm", to |-> "stop"], [pc |-> "terminate", to |-> "loop"],
                 [pc |-> "arm", to |-> "change"]}
      /\ sent.pc = "terminate" => l.st = "Stopped"
  BY DispatchTo
<1> HIDE DEF sent
<1>a. ExitWait(l) \in {"terminate", "onTheirOwn"} /\ (ExitWait(l) = "terminate" => l.st = "Stopped")
  BY DEF ExitWait
<1>1. CASE w.to = "loop"
  <2>1. Looked(l) = sent
    BY <1>1 DEF Looked, sent
  <2> QED
    BY <1>0, <2>1
<1>2. CASE w.to = "rescan"
  <2>1. \/ Looked(l) = sent
        \/ Looked(l) = [pc |-> "settled", to |-> "loop"] /\ scanning.found = "Nothing"
    BY <1>2 DEF Looked, sent, EndsTheWait
  <2> QED
    BY <1>0, <1>2, <2>1
<1>3. CASE w.to = "refusedStop"
  <2>1. Looked(l) = sent \/ Looked(l) = [pc |-> "failed", to |-> "loop"]
    BY <1>3 DEF Looked, sent
  <2> QED
    BY <1>0, <2>1
<1>4. CASE w.to = "change"
  <2>1. Looked(l) = sent \/ Looked(l) = [pc |-> "sleep", to |-> "loop"]
    BY <1>4 DEF Looked, sent
  <2> QED
    BY <1>0, <2>1
<1>5. CASE w.to = "noArm"
  <2>1. \/ Looked(l) = sent
        \/ Looked(l) = [pc |-> ExitWait(l), to |-> "loop"]
        \/ Looked(l) = [pc |-> "settled", to |-> "loop"] /\ scanning.found = "Nothing"
    BY <1>5 DEF Looked, sent, EndsTheWait
  <2> QED
    BY <1>0, <1>a, <1>5, <2>1
<1> QED
  BY <1>1, <1>2, <1>3, <1>4, <1>5 DEF Looks

LEMMA FateStep == ASSUME StopIInv, TakeFate PROVE StopIInv'
<1> USE DEF StopIInv
<1> DEFINE l == [st |-> reading.st, fate |-> Fate, alive |-> HeldAlive, ever |-> DOMAIN holds # {}]
<1>1. /\ w.pc = "fate" /\ w' = Looked(l) /\ reading' = NoReading /\ scanning' = NoScan
      /\ UNCHANGED <<hostVars, candidate, holds, vanished, unread>>
  BY DEF TakeFate, At
<1>2. l.st = reading.st /\ reading.st \in ScmStates
  BY DEF StopTypeOK, StopWaitType
<1>3. w.to \in Looks
  BY <1>1 DEF ToOK, Looking
<1> HIDE DEF l
<1>4. /\ Looked(l) \in {[pc |-> "list", to |-> "rescan"], [pc |-> "stop", to |-> "held"],
                         [pc |-> "arm", to |-> "stop"], [pc |-> "terminate", to |-> "loop"],
                         [pc |-> "arm", to |-> "change"], [pc |-> "settled", to |-> "loop"],
                         [pc |-> "failed", to |-> "loop"], [pc |-> "sleep", to |-> "loop"],
                         [pc |-> "onTheirOwn", to |-> "loop"]}
      /\ Looked(l).pc = "terminate" => reading.st = "Stopped"
      /\ Looked(l).pc = "settled" => w.to \in {"rescan", "noArm"} /\ scanning.found = "Nothing"
  BY <1>2, <1>3, LookedTo
<1>5. StopHostType'
  BY Zenon, <1>1 DEF hostVars, StopTypeOK, StopHostType
<1>6. StopWaitType'
  BY <1>1, <1>4 DEF StopWaitType, Pcs, Tos, Looks, Looking, NoReading, NoScan, ScmStates, Names
<1>7. ToOK'
  BY <1>1, <1>4 DEF ToOK, Looking
<1>8. OwnOK' /\ ParentOK' /\ HeldOK'
  BY <1>1 DEF hostVars, OwnOK, ParentOK, HeldOK, Pinned, IsService
<1>9. StoppedOK'
  BY <1>1, <1>4 DEF hostVars, StoppedOK, At
<1>10. GoneOK'
  BY <1>1 DEF hostVars, GoneOK, NoScan
<1>11. ScanOK'
  BY <1>1, <1>4 DEF hostVars, ScanOK, At, Looking
<1>12. SettledMeansDown'
  <2> SUFFICES ASSUME w'.pc = "settled", NEW i \in Instances, Alive(i)', IsService(i)'
               PROVE  {i, proc'[i].parent} \cap (unlisted' \cup unread') # {}
    BY DEF SettledMeansDown, At
  <2>1. Covered(i)
    BY Zenon, <1>1, <1>4 DEF hostVars, ScanOK, Looking, Alive, IsService
  <2>2. scanning.left = {}
    BY <1>1 DEF GoneOK, At
  <2> QED
    BY Zenon, <1>1, <2>1, <2>2 DEF hostVars, Covered
<1> QED
  BY Zenon, <1>5, <1>6, <1>7, <1>8, <1>9, <1>10, <1>11, <1>12 DEF StopTypeOK

LEMMA TerminateStep == ASSUME StopIInv, TerminateOrphans PROVE StopIInv'
<1> USE DEF StopIInv
<1>1. /\ w.pc = "terminate"
      /\ UNCHANGED <<scmState, own, marked, unlisted, reading, candidate,
                     holds, vanished, scanning, unread>>
  BY DEF TerminateOrphans, At
<1>2. w' \in [pc : Pcs, to : Tos] /\ w'.pc \in {"exits", "failed"} /\ w'.to = w.to
  BY DEF TerminateOrphans, Goto, StopTypeOK, StopWaitType, Pcs
<1>3. /\ proc' \in [Instances -> [whose : {"service", "other", "nobody"}, pid : Nat,
                                   life : {"unborn", "alive", "exited"}, parent : Nat]]
      /\ \A i \in Instances :
            /\ proc'[i].whose = proc[i].whose /\ proc'[i].parent = proc[i].parent
            /\ proc'[i].life # proc[i].life => proc[i].life = "alive" /\ proc'[i].life = "exited"
  BY DEF TerminateOrphans, StopTypeOK, StopHostType, Alive
<1>4. StopTypeOK'
  BY <1>1, <1>2, <1>3 DEF StopTypeOK, StopHostType, StopWaitType
<1>5. ToOK'
  BY <1>1, <1>2 DEF ToOK, Looking
<1>6. OwnOK' /\ ParentOK'
  <2>1. \A i \in Instances : IsService(i)' <=> IsService(i)
    BY <1>3 DEF IsService
  <2>2. OwnOK'
    BY <1>1, <1>3, <2>1 DEF OwnOK
  <2>3. ParentOK'
    BY <1>1, <1>3, <2>1 DEF ParentOK
  <2> QED
    BY <2>2, <2>3
<1>7. HeldOK'
  BY <1>1, <1>3 DEF HeldOK, Pinned, IsService
<1>8. StoppedOK'
  BY <1>1, <1>2 DEF StoppedOK, At
<1>9. GoneOK'
  BY Zenon, <1>1, <1>2, <1>3 DEF GoneOK, At
<1>10. ScanOK' /\ SettledMeansDown'
  BY <1>1, <1>2 DEF ScanOK, SettledMeansDown, At, Looking
<1> QED
  BY <1>4, <1>5, <1>6, <1>7, <1>8, <1>9, <1>10

-----------------------------------------------------------------------------
(* The scan.                                                               *)

LEMMA ListStep == ASSUME StopIInv, List PROVE StopIInv'
<1> USE DEF StopIInv
<1>1. /\ w.pc = "list" /\ w' = [w EXCEPT !.pc = "probe"]
      /\ scanning' = [left |-> {i \in Instances : Alive(i) \/ i \in DOMAIN holds},
                      found |-> "Nothing", gone |-> {}]
      /\ unlisted' = {} /\ unread' = {}
      /\ UNCHANGED <<proc, scmState, own, marked, reading, candidate, holds, vanished>>
  BY Zenon DEF List, At, Goto, NoScan
<1>2. w' \in [pc : Pcs, to : Tos] /\ w'.pc = "probe" /\ w'.to = w.to
  BY <1>1 DEF StopTypeOK, StopWaitType, Pcs
<1>3. StopTypeOK'
  BY <1>1, <1>2 DEF StopTypeOK, StopHostType, StopWaitType
<1>4. ToOK'
  BY <1>1, <1>2 DEF ToOK, Looking
<1>5. OwnOK' /\ ParentOK' /\ HeldOK'
  BY <1>1 DEF OwnOK, ParentOK, HeldOK, Pinned, IsService
<1>6. StoppedOK' /\ SettledMeansDown'
  BY <1>1, <1>2 DEF StoppedOK, SettledMeansDown, At
<1>7. GoneOK'
  BY <1>1, <1>2 DEF GoneOK, At, Alive, HeldOK, Pinned
<1>8. ScanOK'
  <2> SUFFICES ASSUME NEW i \in Instances, Alive(i)', IsService(i)'
               PROVE  Covered(i)'
    BY <1>1 DEF ScanOK
  <2>1. i \in scanning'.left /\ i \notin vanished
    BY Zenon, <1>1 DEF GoneOK, Alive
  <2> QED
    BY <1>1, <2>1 DEF Covered
<1> QED
  BY <1>3, <1>4, <1>5, <1>6, <1>7, <1>8

\* One process is probed: it has exited, it is not the service's, it is held
\* from now on, or it could not be read.
LEMMA ProbeStep == ASSUME StopIInv, Probe PROVE StopIInv'
<1> USE DEF StopIInv
<1>1. w.pc = "probe" /\ UNCHANGED <<hostVars, w, reading, candidate, vanished>>
  BY DEF Probe, At
<1>2. PICK i \in scanning.left :
        LET rest == [scanning EXCEPT !.left = @ \ {i}] IN
         \/ /\ ~Alive(i)
            /\ scanning' = [rest EXCEPT !.gone = @ \cup {i},
                              !.found = IF @ = "Nothing" /\ NewlyGone(i) THEN "Vanished"
                                        ELSE @]
            /\ UNCHANGED <<holds, unread>>
         \/ Alive(i) /\ ~Opens(i) /\ scanning' = rest /\ UNCHANGED <<holds, unread>>
         \/ /\ Alive(i) /\ Opens(i)
            /\ scanning' = [rest EXCEPT !.found = "Alive"]
            /\ holds' = IF i \in DOMAIN holds THEN holds ELSE HeldWith(i, "Scanned")
            /\ UNCHANGED unread
         \/ /\ Alive(i) /\ scanning' = rest
            /\ unread' = unread \cup {i} /\ UNCHANGED holds
  BY Zenon DEF Probe
<1>3. i \in Instances
  BY DEF StopTypeOK, StopWaitType
<1>4. /\ scanning' \in [left : SUBSET Instances, found : {"Nothing", "Alive", "Vanished"},
                         gone : SUBSET Instances]
      /\ scanning'.left = scanning.left \ {i}
      /\ scanning'.gone \subseteq scanning.gone \cup (IF Alive(i) THEN {} ELSE {i})
      /\ unread \subseteq unread' /\ unread' \subseteq unread \cup {i}
      /\ scanning'.found = "Nothing" =>
            /\ scanning.found = "Nothing"
            /\ \/ ~Alive(i) /\ i \in vanished
               \/ Alive(i) /\ ~IsService(i)
               \/ i \in unread'
  <2> DEFINE rest == [scanning EXCEPT !.left = @ \ {i}]
  <2>a. scanning \in [left : SUBSET Instances, found : {"Nothing", "Alive", "Vanished"},
                       gone : SUBSET Instances]
    BY Zenon DEF StopTypeOK, StopWaitType
  <2>b. rest = [left |-> scanning.left \ {i}, found |-> scanning.found, gone |-> scanning.gone]
    BY ONLY <2>a
  <2>0. /\ scanning \in [left : SUBSET Instances, found : {"Nothing", "Alive", "Vanished"},
                          gone : SUBSET Instances]
        /\ rest = [left |-> scanning.left \ {i}, found |-> scanning.found, gone |-> scanning.gone]
    BY <2>a, <2>b
  <2> HIDE DEF rest
  <2>1. CASE /\ ~Alive(i)
             /\ scanning' = [rest EXCEPT !.gone = @ \cup {i},
                               !.found = IF @ = "Nothing" /\ NewlyGone(i) THEN "Vanished" ELSE @]
             /\ UNCHANGED <<holds, unread>>
    BY Zenon, <1>3, <2>0, <2>1 DEF NewlyGone
  <2>2. CASE Alive(i) /\ ~Opens(i) /\ scanning' = rest /\ UNCHANGED <<holds, unread>>
    BY <1>3, <2>0, <2>2 DEF Opens
  <2>3. CASE Alive(i) /\ scanning' = [rest EXCEPT !.found = "Alive"] /\ UNCHANGED unread
    BY <1>3, <2>0, <2>3
  <2>4. CASE Alive(i) /\ scanning' = rest /\ unread' = unread \cup {i}
    BY <1>3, <2>0, <2>4
  <2> QED
    BY <1>2, <2>1, <2>2, <2>3, <2>4 DEF rest
<1>5. Pinned' \subseteq Pinned \cup (IF Alive(i) /\ IsService(i) THEN {i} ELSE {})
      /\ DOMAIN holds' \subseteq DOMAIN holds \cup {i}
  BY <1>1, <1>2 DEF Pinned, HeldWith, Opens
<1>7. StopTypeOK'
  BY Zenon, <1>1, <1>4 DEF hostVars, StopTypeOK, StopHostType, StopWaitType
<1>8. ToOK' /\ OwnOK' /\ ParentOK'
  BY <1>1 DEF hostVars, ToOK, OwnOK, ParentOK, IsService
<1>9. HeldOK'
  BY Zenon, <1>1, <1>3, <1>5 DEF hostVars, HeldOK, IsService, Alive
<1>10. StoppedOK' /\ SettledMeansDown'
  BY Zenon, <1>1 DEF hostVars, StoppedOK, SettledMeansDown, At
<1>11. GoneOK'
  <2>1. ~Alive(i) => proc[i].life = "exited"
    BY <1>3 DEF Alive, StopTypeOK, StopHostType, GoneOK
  <2> QED
    BY <1>1, <1>3, <1>4, <2>1 DEF hostVars, GoneOK, At
<1>12. ScanOK'
  <2>1. (unlisted \cup unread)' \subseteq Instances
    BY Zenon, <1>1, <1>3, <1>4 DEF hostVars, ScanOK
  <2> SUFFICES ASSUME scanning'.found = "Nothing", NEW k \in Instances, Alive(k)', IsService(k)'
               PROVE  Covered(k)'
    BY Zenon, <2>1 DEF ScanOK
  <2>2. Covered(k) /\ Alive(k) /\ IsService(k)
    BY Zenon, <1>1, <1>4 DEF hostVars, ScanOK, At, Alive, IsService
  <2>3. PICK j \in {k, proc[k].parent} :
           j \in unlisted \cup unread \/ (j \in scanning.left /\ j \notin vanished)
    BY Zenon, <2>2 DEF Covered
  <2>4. CASE j # i \/ j \in unlisted \cup unread \/ i \in unread'
    BY Zenon, <1>1, <1>4, <2>3, <2>4 DEF hostVars, Covered
  <2>5. CASE j = i /\ i \notin unread' /\ j \notin unlisted \cup unread
    BY <1>3, <1>4, <2>2, <2>3, <2>5 DEF ParentOK
  <2> QED
    BY <2>4, <2>5
<1> QED
  BY <1>7, <1>8, <1>9, <1>10, <1>11, <1>12

LEMMA ScannedStep == ASSUME StopIInv, Scanned PROVE StopIInv'
<1> USE DEF StopIInv
<1>1. /\ w.pc = "probe" /\ scanning.left = {} /\ vanished' = scanning.gone
      /\ UNCHANGED <<hostVars, reading, candidate, holds, scanning, unread>>
  BY DEF Scanned, At
<1>2. /\ w' \in [pc : Pcs, to : Tos] /\ w'.to = w.to
      /\ \/ w'.pc = "read" /\ w.to # "gone"
         \/ w'.pc = "settled" /\ w.to = "gone" /\ scanning.found = "Nothing"
         \/ w'.pc = "terminate" /\ w.to = "gone"
  BY DEF Scanned, StopTypeOK, StopWaitType, Pcs, Looking, EndsTheWait
<1>3. StopTypeOK'
  BY Zenon, <1>1, <1>2 DEF hostVars, StopTypeOK, StopHostType, StopWaitType
<1>4. ToOK'
  BY Zenon, <1>1, <1>2 DEF ToOK, Looking, Looks
<1>5. OwnOK' /\ HeldOK'
  BY Zenon, <1>1 DEF hostVars, OwnOK, HeldOK, Pinned, IsService
<1>6. ParentOK'
  BY <1>1 DEF hostVars, ParentOK, IsService
<1>7. StoppedOK'
  <2>1. 0 \notin DOMAIN holds
    BY StopWaitAssumption DEF HeldOK, Pinned
  <2> QED
    BY <1>1, <1>2, <2>1 DEF hostVars, StoppedOK, OwnOK, At
<1>8. GoneOK'
  BY Zenon, <1>1, <1>2 DEF hostVars, GoneOK, At
<1>9. scanning.found = "Nothing" =>
        \A i \in Instances : Alive(i) /\ IsService(i) => {i, proc[i].parent} \cap (unlisted \cup unread) # {}
  <2> SUFFICES ASSUME scanning.found = "Nothing", NEW i \in Instances, Alive(i), IsService(i)
               PROVE  {i, proc[i].parent} \cap (unlisted \cup unread) # {}
    OBVIOUS
  <2>1. Covered(i)
    BY <1>1 DEF ScanOK, At
  <2> QED
    BY <1>1, <2>1 DEF Covered
<1>10. ScanOK'
  <2> SUFFICES ASSUME scanning'.found = "Nothing", NEW i \in Instances, Alive(i)', IsService(i)'
               PROVE  Covered(i)'
    BY <1>1 DEF ScanOK, hostVars
  <2> QED
    BY Zenon, <1>1, <1>9 DEF hostVars, Covered, Alive, IsService
<1>11. SettledMeansDown'
  BY <1>1, <1>2, <1>9 DEF hostVars, SettledMeansDown, At, Alive, IsService
<1> QED
  BY <1>3, <1>4, <1>5, <1>6, <1>7, <1>8, <1>10, <1>11

LEMMA StopStep == ASSUME StopIInv, StopWaitNext PROVE StopIInv'
  BY HostStep, ReadStep, ConfirmStep, FateStep, ArmStep, ControlStep, TerminateStep, ListStep,
     ProbeStep, ScannedStep DEF StopWaitNext

LEMMA StopStutter == ASSUME StopIInv, UNCHANGED stopVars PROVE StopIInv'
<1> USE DEF StopIInv, stopVars
<1>1. StopTypeOK' /\ ToOK'
  BY Zenon DEF StopTypeOK, StopHostType, StopWaitType, ToOK
<1>2. OwnOK' /\ HeldOK' /\ StoppedOK'
  BY DEF OwnOK, HeldOK, Pinned, IsService, StoppedOK, At
<1>3. ParentOK' /\ GoneOK'
  BY ZenonT(40) DEF ParentOK, IsService, GoneOK, At
<1>4. ScanOK' /\ SettledMeansDown'
  BY DEF ScanOK, Covered, SettledMeansDown, Alive, IsService, At
<1> QED
  BY Zenon, <1>1, <1>2, <1>3, <1>4

\* Only the step that terminates orphans ends a process and moves the wait
\* on; what it ends is held, so the service's, and no start of the SCM's.
LEMMA TerminateKills ==
  ASSUME StopIInv, StopWaitNext, At("terminate"),
         NEW i \in Instances, Alive(i), proc'[i].life = "exited", w' # w
  PROVE  IsService(i) /\ ~(own = i /\ scmState.st \in {"StartPending", "Running"})
<1> USE DEF StopIInv
<1>1. TerminateOrphans
  BY Zenon DEF StopWaitNext, At, ForeignBorn, PluginBorn, ScmStarts, ScmRuns, ScmStopped, ProcessExits,
         Begin, ReadService, OpenNamed, ConfirmNamed, TakeFate, Arm, ControlStop, Sleep, ExitsSeen,
         List, Probe, Scanned, waitVars
<1>2. i \in DOMAIN holds
  BY <1>1 DEF TerminateOrphans, Orphans, Alive
<1> QED
  BY <1>2 DEF HeldOK, Pinned, StoppedOK, At

\* A stop wait takes down the service's processes, all of them and no others:
\* what it reports settled has no process left but one the SCM started after the
\* last scan's listing, one that scan could not read, or a child of such a one,
\* and what it terminates is an orphan, whichever ids are used again
\* (settle_stopped, wait_out_survivors, terminate_live).
THEOREM StopAlwaysTrue == StopWaitSpec => StopWaitTrue
<1>1. StopIInv /\ [StopWaitNext]_stopVars => StopIInv'
  BY StopStep, StopStutter
<1>2. StopIInv /\ [StopWaitNext]_stopVars =>
        [At("terminate") =>
         \A i \in Instances :
            Alive(i) /\ proc'[i].life = "exited" /\ w' # w =>
                IsService(i) /\ ~(own = i /\ scmState.st \in {"StartPending", "Running"})]_stopVars
  BY TerminateKills
<1>3. StopIInv' => SettledMeansDown'
  BY DEF StopIInv
<1> QED
  BY <1>1, <1>2, <1>3, StopInitIInv, PTL DEF StopWaitSpec, StopWaitTrue, KillsOnlyOrphans

=============================================================================
