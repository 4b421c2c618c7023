------------------------------- MODULE Cutover -------------------------------
(***************************************************************************)
(* An update, end to end: the bridge's handler of /v1/update/apply, the    *)
(* marker file that claims it, the detached child that stops the service,  *)
(* swaps the images and starts it again (Windows) or the inline actor that *)
(* swaps and lets launchd restart the bridge (macOS), the marker's sweep   *)
(* at the next start, and the GUI that hides the gap while the marker      *)
(* names a driver that may be alive.  Composed with Service, whose         *)
(* retirement the child runs and whose other changes it may meet.          *)
(*                                                                         *)
(* A client may hang up, the bridge may crash, the child may be killed.    *)
(* The payload, its signature and its extraction are a success or a        *)
(* failure; the tunnel is whether it runs.  Two images stand for the set.  *)
(***************************************************************************)
EXTENDS Service

CONSTANTS Requests   \* the update requests, 1 .. k

VARIABLES marker,   \* the marker file: NoMarker, or who drives the update
          images,   \* the installed binaries
          runs,     \* what the bridge was started from, and whether it tunnels
          req,      \* the requests' handlers
          gui,      \* the GUI's exchange and what it shows
          ghost     \* history: what went wrong of what the properties except

cutoverVars == <<marker, images, runs, req, gui, ghost>>
vars == <<serviceVars, cutoverVars>>

NoMarker == [kind |-> "none", n |-> 0]
Images == 1 .. 2
InFlight == {"gated", "staging", "extracting", "spawn", "spawned", "stamped"}
Staging == {"staging", "extracting", "adrift"}

DriverLives == \/ marker.kind = "bridge" /\ marker.n = bridge.n /\ BridgeLives
               \/ marker.kind = "child" /\ Live(marker.n)

\* A failed clear is a warning everywhere.
Clear ==
  \/ NoFault /\ marker' = NoMarker /\ UNCHANGED ghost
  \/ /\ Fault /\ UNCHANGED marker
     /\ ghost' = [ghost EXCEPT !.unclear = @ \/ marker # NoMarker]

-----------------------------------------------------------------------------
(* The handler.                                                            *)

Step(r, pc) == req' = [req EXCEPT ![r].pc = pc]

\* The fast refusal, then the wait for the proxy's lock.
ApplyArrives(r) ==
  /\ req[r].pc = "idle" /\ bridge.st = "serving"
  /\ \A q \in Requests : q < r => req[q].pc # "idle"
  /\ Step(r, IF marker # NoMarker THEN "done" ELSE "gated")
  /\ UNCHANGED <<serviceVars, marker, images, runs, gui, ghost>>

\* Mutant: the marker is written, not created.
MutApplyClaims(r) ==
  /\ req[r].pc = "gated"
  /\ \/ /\ marker' = [kind |-> "bridge", n |-> bridge.n]
        /\ ghost' = [ghost EXCEPT !.early = @ \/ gui.pc = "sent"]
        /\ Step(r, "staging")
     \/ Step(r, "done") /\ UNCHANGED <<marker, ghost>>
  /\ UNCHANGED <<serviceVars, images, runs, gui>>

\* Consent and the destination may refuse; then the create-new of the marker.
ApplyClaims(r) ==
  /\ req[r].pc = "gated"
  /\ \/ /\ marker = NoMarker
        /\ marker' = [kind |-> "bridge", n |-> bridge.n]
        /\ ghost' = [ghost EXCEPT !.early = @ \/ gui.pc = "sent"]
        /\ Step(r, "staging")
     \/ Step(r, "done") /\ UNCHANGED <<marker, ghost>>
  /\ UNCHANGED <<serviceVars, images, runs, gui>>

\* Stage, verify and extract run on blocking threads; a failure clears.
ApplyStages(r) ==
  /\ req[r].pc \in {"staging", "extracting"}
  /\ \/ /\ Step(r, IF req[r].pc = "staging" THEN "extracting" ELSE "spawn")
        /\ UNCHANGED <<used, marker, ghost>>
     \/ Step(r, "done") /\ Clear
  /\ UNCHANGED <<env, svc, lock, proc, bridge, disabler, reader, images, runs, gui>>

\* The actor's process, or its task, is made; nothing has run yet.
ApplySpawns(r) ==
  /\ req[r].pc = "spawn"
  /\ \/ \E c \in Changers :
          /\ proc[c].pc = "idle" /\ \A d \in Changers : d < c => proc[d].pc # "idle"
          /\ IF env.os = "windows"
               THEN /\ proc' = [proc EXCEPT ![c].op = "cutover", ![c].pc = "suspended"]
                    /\ req' = [req EXCEPT ![r].pc = "spawned", ![r].child = c]
               ELSE /\ proc' = [proc EXCEPT ![c].op = "inline", ![c].pc = "away"]
                    /\ Step(r, "done")
          /\ UNCHANGED <<used, marker, ghost>>
     \/ Step(r, "done") /\ Clear /\ UNCHANGED proc
  /\ UNCHANGED <<env, svc, lock, bridge, disabler, reader, images, runs, gui>>

\* A failure before the resume kills the frozen child, best effort, and clears.
ApplyGivesUp(r) ==
  /\ req[r].pc \in {"spawned", "stamped"}
  /\ \E end \in {"dead", "suspended"} : Go(req[r].child, end)
  /\ Step(r, "done")
  /\ Clear
  /\ UNCHANGED <<env, svc, lock, bridge, disabler, reader, images, runs, gui>>

\* Only a marker that is there is stamped.
ApplyStamps(r) ==
  /\ req[r].pc = "spawned" /\ marker # NoMarker
  /\ marker' = [kind |-> "child", n |-> req[r].child]
  /\ Step(r, "stamped")
  /\ UNCHANGED <<serviceVars, images, runs, gui, ghost>>

ApplyResumes(r) ==
  /\ req[r].pc = "stamped"
  /\ IF proc[req[r].child].pc = "suspended" THEN Go(req[r].child, "try") ELSE UNCHANGED proc
  /\ Step(r, "done")
  /\ UNCHANGED <<env, svc, lock, bridge, disabler, reader, used, marker, images, runs, gui, ghost>>

\* A client that hangs up has its handler dropped at the await it is in; the
\* thread that stages or extracts goes on.
HangsUp(r) ==
  /\ env.hangups /\ req[r].pc \in {"gated", "staging", "extracting"}
  /\ Step(r, IF req[r].pc = "gated" THEN "done" ELSE "adrift")
  /\ UNCHANGED <<serviceVars, marker, images, runs, gui, ghost>>

ThreadEnds(r) ==
  /\ req[r].pc = "adrift"
  /\ Step(r, "left")
  /\ UNCHANGED <<serviceVars, marker, images, runs, gui, ghost>>

Apply(r) ==
  \/ ApplyArrives(r) \/ ApplyClaims(r) \/ ApplyStages(r) \/ ApplySpawns(r) \/ ApplyGivesUp(r)
  \/ ApplyStamps(r) \/ ApplyResumes(r) \/ HangsUp(r) \/ ThreadEnds(r)

-----------------------------------------------------------------------------
(* The child (Windows) and the inline actor (macOS).                       *)

\* Mutant: an update abandoned for the lock leaves its marker.
MutChildTries(c) ==
  /\ proc[c].pc = "try"
  /\ \/ /\ lock = Nobody /\ NoFault
        /\ lock' = c /\ svc' = Marked(c, TRUE) /\ Go(c, "ensure")
     \/ /\ IF lock # Nobody THEN NoFault ELSE Fault
        /\ Go(c, "end") /\ UNCHANGED <<lock, svc>>
  /\ UNCHANGED <<env, bridge, disabler, reader, cutoverVars>>

\* The lock is tried once: the change that holds it may be waiting for this
\* very process to exit.
ChildTries(c) ==
  /\ proc[c].pc = "try"
  /\ \/ /\ lock = Nobody /\ NoFault
        /\ lock' = c /\ svc' = Marked(c, TRUE) /\ Go(c, "ensure")
     \/ /\ IF lock # Nobody THEN NoFault ELSE Fault
        /\ Go(c, "clearing") /\ UNCHANGED <<lock, svc>>
  /\ UNCHANGED <<env, bridge, disabler, reader, cutoverVars>>

\* Restart-on-failure is brought up to date, best effort; planning may fail.
ChildEnsures(c) ==
  /\ proc[c].pc = "ensure"
  /\ \/ NoFault /\ svc' = [svc EXCEPT !.restart = svc.registered]
     \/ Fault /\ UNCHANGED svc
  /\ \E pc \in {"harden", "clearing"} : /\ pc = "clearing" => used' # used
                                        /\ proc' = [proc EXCEPT ![c].pc = pc, ![c].phase = "update"]
  /\ UNCHANGED <<env, lock, bridge, disabler, reader, cutoverVars>>

Mixed(set) == \E i, j \in Images : set[i] # set[j]

\* Mutant: only the image that failed is looked after.
MutRollBack(set) == Fault /\ images' = set /\ UNCHANGED ghost

\* A failed swap puts the images swapped before it back, best effort.
RollBack(set) ==
  /\ Fault
  /\ \/ images' = [i \in Images |-> "old"] /\ UNCHANGED ghost
     \/ images' = set /\ ghost' = [ghost EXCEPT !.torn = @ \/ Mixed(set)]

Swapped(c) ==
  IF proc[c].image < 2 THEN [proc EXCEPT ![c].image = @ + 1, ![c].pc = "away"]
  ELSE [proc EXCEPT ![c].pc = IF proc[c].op = "cutover" THEN "restore" ELSE "sigterm"]

ChildRenamesAway(c) ==
  /\ proc[c].pc = "away" /\ proc[c].op = "cutover"
  /\ \/ /\ NoFault /\ UNCHANGED ghost
        /\ images' = [images EXCEPT ![proc[c].image] = "gone"]
        /\ Go(c, "movein")
     \/ RollBack(images) /\ proc' = [proc EXCEPT ![c].pc = "restore", ![c].ok = FALSE]
  /\ UNCHANGED <<env, svc, lock, bridge, disabler, reader, marker, runs, req, gui>>

ChildMovesIn(c) ==
  /\ proc[c].pc = "movein"
  /\ \/ /\ NoFault /\ UNCHANGED ghost
        /\ images' = [images EXCEPT ![proc[c].image] = "new"]
        /\ proc' = Swapped(c)
     \/ RollBack(images) /\ proc' = [proc EXCEPT ![c].pc = "restore", ![c].ok = FALSE]
  /\ UNCHANGED <<env, svc, lock, bridge, disabler, reader, marker, runs, req, gui>>

\* Mutant: the child does not wait for RUNNING.
MutChildStarts(c) ==
  /\ proc[c].pc = "start" /\ proc[c].op = "cutover"
  /\ \/ CanStart /\ NoFault /\ bridge' = Launched /\ Go(c, "end")
     \/ /\ IF CanStart THEN Fault ELSE NoFault
        /\ Go(c, "clearing") /\ UNCHANGED bridge
  /\ UNCHANGED <<env, svc, lock, disabler, reader, cutoverVars>>

\* StartService, and the wait for RUNNING or STOPPED.
ChildStarts(c) ==
  /\ proc[c].pc = "start" /\ proc[c].op = "cutover"
  /\ \/ CanStart /\ NoFault /\ bridge' = Launched /\ Go(c, "wait")
     \/ /\ IF CanStart THEN Fault ELSE NoFault
        /\ Go(c, "clearing") /\ UNCHANGED bridge
  /\ UNCHANGED <<env, svc, lock, disabler, reader, cutoverVars>>

ChildWaits(c) ==
  /\ proc[c].pc = "wait" /\ bridge.st # "starting"
  /\ Go(c, IF BridgeLives THEN "end" ELSE "clearing")
  /\ UNCHANGED <<env, svc, lock, bridge, disabler, reader, used, cutoverVars>>

\* Every end but a started bridge clears the marker, whoever it is of.
ActorClears(c) ==
  /\ proc[c].pc = "clearing"
  /\ Go(c, "end")
  /\ Clear
  /\ UNCHANGED <<env, svc, lock, bridge, disabler, reader, images, runs, req, gui>>

\* Each bundle is exchanged, or replaced, by one rename.
InlineSwaps(c) ==
  /\ proc[c].pc = "away" /\ proc[c].op = "inline"
  /\ \/ /\ NoFault /\ UNCHANGED ghost
        /\ images' = [images EXCEPT ![proc[c].image] = "new"]
        /\ proc' = Swapped(c)
     \/ RollBack(images) /\ Go(c, "clearing")
  /\ UNCHANGED <<env, svc, lock, bridge, disabler, reader, marker, runs, req, gui>>

-----------------------------------------------------------------------------
(* The bridge's process.                                                   *)

\* Its handlers, their threads and an inline actor go with it.
Dropped == [r \in Requests |->
              IF req[r].pc \in InFlight \cup {"adrift", "left"} THEN [req[r] EXCEPT !.pc = "done"]
              ELSE req[r]]
InlineDead == [c \in Changers |->
                 IF proc[c].op = "inline" /\ Live(c) THEN Over(c, "dead") ELSE proc[c]]

InlineTerminates(c) ==
  /\ proc[c].pc = "sigterm"
  /\ \/ /\ NoFault
        /\ bridge' = [bridge EXCEPT !.st = "down"]
        /\ req' = Dropped /\ proc' = InlineDead
     \/ Fault /\ Go(c, "clearing") /\ UNCHANGED <<bridge, req>>
  /\ UNCHANGED <<env, svc, lock, disabler, reader, marker, images, runs, gui, ghost>>

ServiceStops(c) ==
  /\ SettleStops(c)
  /\ req' = Dropped
  /\ UNCHANGED <<marker, images, runs, gui, ghost>>

BridgeFails ==
  /\ BridgeLives /\ used.crashes < env.crashes
  /\ used' = [used EXCEPT !.crashes = @ + 1]
  /\ bridge' = [bridge EXCEPT !.st = "failed"]
  /\ req' = Dropped /\ proc' = InlineDead
  /\ ghost' = [ghost EXCEPT !.torn = @ \/ (env.os = "macos" /\ Mixed(images))]
  /\ UNCHANGED <<env, svc, lock, disabler, reader, marker, images, runs, gui>>

\* Windows: the socket is bound and the marker swept before RUNNING is
\* reported; a marker that stays fails the start, and so does a missing image.
BridgeReady ==
  /\ bridge.st = "starting"
  /\ runs' = [runs EXCEPT !.image = images[1]]
  /\ IF images[1] = "gone"
       THEN bridge' = [bridge EXCEPT !.st = "failed"] /\ UNCHANGED <<used, marker, ghost>>
     ELSE IF env.os = "windows"
       THEN /\ Clear
            /\ bridge' = [bridge EXCEPT !.st = IF marker' = NoMarker THEN "running" ELSE "failed"]
       ELSE bridge' = [bridge EXCEPT !.st = "running"] /\ UNCHANGED <<used, marker, ghost>>
  /\ UNCHANGED <<env, svc, lock, proc, disabler, reader, images, req, gui>>

\* The target is reconciled; macOS sweeps the marker after it; then it serves.
BridgeServes ==
  /\ bridge.st = "running"
  /\ bridge' = [bridge EXCEPT !.st = "serving"]
  /\ \/ /\ runs' = [runs EXCEPT !.tunnel = TRUE]
        /\ IF env.os = "macos" THEN Clear ELSE UNCHANGED <<used, marker, ghost>>
     \/ /\ runs' = [runs EXCEPT !.tunnel = FALSE]
        /\ Fault /\ UNCHANGED ghost
        /\ marker' = IF env.os = "macos" THEN NoMarker ELSE marker
  /\ UNCHANGED <<env, svc, lock, proc, disabler, reader, images, req, gui>>

-----------------------------------------------------------------------------
(* The GUI: the marker is read before the exchange, the answer is judged   *)
(* by what was read then.                                                  *)

\* Mutant: the driver's liveness is asked on macOS too, where it is the bridge.
MutDecision ==
  CASE marker = NoMarker -> "PassThrough"
    [] marker # NoMarker /\ ~DriverLives -> "UnmaskFailed"
    [] OTHER -> "Mask"

Decision ==
  CASE marker = NoMarker -> "PassThrough"
    [] marker # NoMarker /\ env.os = "windows" /\ ~DriverLives -> "UnmaskFailed"
    [] OTHER -> "Mask"

GuiAsks ==
  /\ gui.pc = "idle" /\ env.gui
  /\ gui' = [gui EXCEPT !.pc = "sent", !.decision = Decision]
  /\ UNCHANGED <<serviceVars, marker, images, runs, req, ghost>>

\* A connection to a bridge that has bound but does not serve yet waits.
Answer == IF bridge.st = "serving"
            THEN (IF runs.image # "old" THEN "mismatch" ELSE IF runs.tunnel THEN "runs" ELSE "stopped")
            ELSE "error"

ObservedRunning(answer, masked) ==
  CASE answer = "mismatch" -> "nothing"
    [] answer = "runs" -> "up"
    [] OTHER -> IF masked THEN "nothing" ELSE "down"

\* UPDATE_FAILED is shown only over a marker that is still there.
CommitObservation(observed) ==
  CASE observed = "nothing" -> gui.shows
    [] observed = "down" /\ gui.decision = "UnmaskFailed" /\ marker # NoMarker -> "failed"
    [] OTHER -> observed

GuiHears ==
  /\ gui.pc = "sent" /\ bridge.st \in {"serving", "down", "failed"}
  /\ gui' = [gui EXCEPT !.pc = "idle",
               !.shows = CommitObservation(ObservedRunning(Answer, gui.decision = "Mask"))]
  /\ UNCHANGED <<serviceVars, marker, images, runs, req, ghost>>

-----------------------------------------------------------------------------
Init ==
  /\ ServiceInit
  /\ marker = NoMarker
  /\ images = [i \in Images |-> "old"]
  /\ runs = [image |-> "old", tunnel |-> TRUE]
  /\ req = [r \in Requests |-> [pc |-> IF r \in env.requests THEN "idle" ELSE "done", child |-> Nobody]]
  /\ gui = [pc |-> "idle", decision |-> "PassThrough", shows |-> "up"]
  /\ ghost = [unclear |-> FALSE, torn |-> FALSE, early |-> FALSE]

\* What only Service's state takes part in.
ServiceStep ==
  /\ \/ \E c \in Changers : Change(c) \/ Retire(c)
     \/ AdminDisables \/ Starts \/ Status
  /\ UNCHANGED cutoverVars

ProcessKilled(c) ==
  /\ Killed(c) /\ proc[c].op # "inline"
  /\ ghost' = [ghost EXCEPT !.torn = @ \/ (proc[c].pc \in {"away", "movein"} /\ Mixed(images))]
  /\ UNCHANGED <<marker, images, runs, req, gui>>

Actor(c) ==
  \/ ChildTries(c) \/ ChildEnsures(c) \/ ChildRenamesAway(c) \/ ChildMovesIn(c) \/ ChildStarts(c)
  \/ ChildWaits(c) \/ ActorClears(c) \/ InlineSwaps(c) \/ InlineTerminates(c)

Next ==
  \/ ServiceStep
  \/ \E r \in Requests : Apply(r)
  \/ \E c \in Changers : Actor(c) \/ ServiceStops(c) \/ ProcessKilled(c)
  \/ BridgeFails \/ BridgeReady \/ BridgeServes
  \/ GuiAsks \/ GuiHears

Spec == Init /\ [][Next]_vars

-----------------------------------------------------------------------------
(* What an update promises.                                                *)

TypeOK ==
  /\ svc \in [registered : BOOLEAN, going : BOOLEAN, start : StartTypes, restart : BOOLEAN,
              record : Changers \cup {Nobody},
              mark : [n : Nat, by : Changers \cup {Nobody}, busy : BOOLEAN]]
  /\ lock \in Changers \cup {Nobody}
  /\ bridge \in [st : {"down", "failed", "starting", "running", "serving"}, n : Nat]
  /\ disabler \in {"none", "hole", "admin", "unsure"}
  /\ used.choice \in {"none", "stands", "forgotten"}
  /\ marker \in [kind : {"none", "bridge", "child"}, n : Nat]
  /\ images \in [Images -> {"old", "new", "gone"}]
  /\ req \in [Requests -> [pc : InFlight \cup {"idle", "done", "adrift", "left"},
                           child : Changers \cup {Nobody}]]
  /\ gui.shows \in {"up", "down", "failed"}

\* Whoever will clear the marker, or have it swept: a handler past the claim,
\* or an actor that has not come to its end.
Attended ==
  \/ \E r \in Requests : req[r].pc \in InFlight \ {"gated"}
  \/ \E c \in Changers : /\ Live(c) /\ proc[c].op \in {"cutover", "inline"}
                         /\ proc[c].pc \notin {"suspended", "end"}

\* While a bridge serves, a claimed marker has someone to clear it: else every
\* later update is refused (409) and the GUI hides a lost tunnel.  Excepted are
\* a clear that failed, a child that died, and a client that hung up.
ClaimAttended ==
  marker # NoMarker /\ bridge.st = "serving" =>
    \/ Attended
    \/ ghost.unclear
    \/ marker.kind = "child" /\ proc[marker.n].pc = "dead"
    \/ \E r \in Requests : req[r].pc \in {"adrift", "left"}

\* The comment in handle_update_apply: the marker is "cleared on every exit
\* path below", so that while a bridge serves a claimed marker is attended.
MarkerClearedOnEveryExit ==
  marker # NoMarker /\ bridge.st = "serving" => Attended

\* One request at a time stages and extracts in the one private directory, so
\* the bytes verified are the bytes extracted.  (Where the bridge crashed, or
\* another than the child started it, the child of the claim before may clear
\* the marker of the claim after.)
SingleStager ==
  used.crashes = 0 /\ used.boots = 0 => Cardinality({r \in Requests : req[r].pc \in Staging}) <= 1

\* Nothing failed, was killed, disabled, or asked for another change, and no
\* other than the child started the service.
Healthy == /\ used.faults = 0 /\ used.crashes = 0 /\ used.admin = 0
           /\ env.os = "windows" => used.boots = 0
           /\ \A c \in Changers : proc[c].op \in {"none", "cutover", "inline"}

\* The comment at sweep_marker_then_ready: "A healthy update therefore never
\* presents marker present plus driver dead", over the handler's claim, the
\* stamp of the child, the stop, the start and the sweep.
HealthyDriverLives ==
  Healthy /\ env.os = "windows" /\ marker # NoMarker => DriverLives

\* In a healthy update the GUI shows the tunnel up throughout: neither a
\* surprise Disconnected nor UPDATE_FAILED.  Excepted is an exchange that was
\* under way, judged unmasked, when the update was claimed.
HealthyUpdateHidden ==
  Healthy /\ ~ghost.early => gui.shows = "up"

\* The update marker is someone's: a claim is attended, one request stages at
\* a time, and a healthy update has a live driver and stays hidden from the
\* user (handle_update_apply, sweep_marker_then_ready, cutover_decision).
MarkerAttended ==
  ClaimAttended /\ SingleStager /\ HealthyDriverLives /\ HealthyUpdateHidden

\* No bridge starts from a mix of old and new images, whichever step of the
\* swap failed, unless the swap was killed half way or could not be undone.
NoMixedStart ==
  bridge.st = "starting" /\ Mixed(images) => ghost.torn
=============================================================================
