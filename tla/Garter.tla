------------------------------- MODULE Garter -------------------------------
(***************************************************************************)
(* garter's ChainRunner: the hops of a plugin chain, started one after the *)
(* other from the destination outwards, each a supervised child process    *)
(* (BinaryPlugin), some of them behind a tap (TapPlugin).                  *)
(*                                                                         *)
(*   chain.rs    chain, cancelled    the runner, its gate, the drain       *)
(*   hop.rs      hop                 pick, relay, restart                  *)
(*   binary.rs   bin                 the child, its reader, its take-down  *)
(*   tap.rs      tap                 the counting hop before a plugin      *)
(*                                                                         *)
(* Hops are numbered in the order of launch: hop 1 forwards to the         *)
(* destination, hop N has the public port.  A child writes to a pipe and   *)
(* its reader reads later: the lines are chosen when they are read, which  *)
(* no other step can tell apart.  Data connections are left out.           *)
(***************************************************************************)
EXTENDS Naturals

CONSTANTS N,           \* how many hops
          Tapped,      \* the hops behind a tap
          Mode,        \* Mode[h]: "sitrep", "auto" or "probe", the hop's ReadinessMode
          MaxTries,    \* bound: how often a hop is started
          MayRefuse    \* the hops whose child the system may refuse to kill

ASSUME GarterAssumption == N \in Nat \ {0} /\ MaxTries \in Nat \ {0}

VARIABLES chain, cancelled, hop, bin, tap

garterVars == <<chain, cancelled, hop, bin, tap>>

Hops == 1 .. N
Failures == {"conflict", "fatal"}
Sent == {"ok", "dropped"} \cup Failures
Intermediate(h) == h < N

IdleBin == [pc |-> "idle", child |-> "none", reading |-> FALSE, hello |-> FALSE, probe |-> FALSE, owns |-> FALSE,
            sender |-> FALSE, held |-> "none", down |-> FALSE, out |-> "open", refused |-> FALSE, orphan |-> FALSE]
FreshBin(h) == [IdleBin EXCEPT !.pc = "watch", !.child = "alive", !.sender = TRUE, !.reading = Mode[h] # "probe",
                               !.probe = Mode[h] # "sitrep", !.owns = Mode[h] # "sitrep"]
IdleTap == [pc |-> "idle", out |-> "open", owed |-> "none", stop |-> FALSE]

\* A hop's readiness as its relay reads it, and whether its plugin's run is over.
Ready(h) == IF h \in Tapped THEN tap[h].out ELSE bin[h].out
RunOver(h) == IF h \in Tapped THEN tap[h].pc = "over" ELSE bin[h].pc = "over"

\* The token a plugin watches: the chain's, the attempt's, and for a tap's inner plugin the tap's.
Stopped(h) == cancelled \/ hop[h].stop
InnerStopped(h) == Stopped(h) \/ tap[h].stop
Running(h) == hop[h].pc = "run" /\ ~hop[h].aborted

-----------------------------------------------------------------------------
(* The child's output.                                                     *)

\* Once the sender is used or dropped, what the reader and the probe go on to see is only logged.
Spent(b) == [b EXCEPT !.sender = FALSE, !.reading = FALSE, !.hello = FALSE, !.probe = FALSE, !.owns = FALSE]

\* A failure takes the sender with it and is held until the child is down.
Hold(b, e) == [Spent(b) EXCEPT !.held = e]
SayReady(b) == [Spent(b) EXCEPT !.out = "ok"]
\* The sender goes with the last task that could use it.
DropUnused(b) == IF b.sender /\ ~b.reading /\ ~b.probe THEN [Spent(b) EXCEPT !.out = "dropped"] ELSE b

\* A hello stands an early probe down; one in a protocol this host does not
\* speak hands readiness to a probe, and the rest of the stream is only logged.
\* Without a hello the other events are log lines.
AfterLine(b) ==
  {[b EXCEPT !.hello = TRUE, !.owns = FALSE, !.probe = FALSE],
   [b EXCEPT !.owns = TRUE, !.probe = @ \/ ~b.owns, !.reading = FALSE]}
  \cup (IF b.hello THEN {SayReady(b), Hold(b, "conflict"), Hold(b, "fatal")} ELSE {})

ReadLine(h) ==
  /\ bin[h].reading
  /\ \E b \in AfterLine(bin[h]) : bin' = [bin EXCEPT ![h] = b]
  /\ UNCHANGED <<chain, cancelled, hop, tap>>

\* The pipe closes: the child is gone, or closed it itself.  Unless a probe
\* owns readiness or the child was taken down, that is a failure to start.
Eof(h) ==
  /\ bin[h].reading
  /\ LET b == [bin[h] EXCEPT !.reading = FALSE]
     IN bin' = [bin EXCEPT ![h] = DropUnused(IF b.down \/ b.owns THEN b ELSE Hold(b, "fatal"))]
  /\ UNCHANGED <<chain, cancelled, hop, tap>>

\* The probe connects, to whatever listens, or is stopped.
Probe(h) ==
  /\ bin[h].probe
  /\ \/ bin' = [bin EXCEPT ![h] = SayReady(@)]
     \/ InnerStopped(h) /\ bin' = [bin EXCEPT ![h] = DropUnused([@ EXCEPT !.probe = FALSE])]
  /\ UNCHANGED <<chain, cancelled, hop, tap>>

ChildExits(h) ==
  /\ bin[h].child = "alive"
  /\ bin' = [bin EXCEPT ![h].child = "gone"]
  /\ UNCHANGED <<chain, cancelled, hop, tap>>

-----------------------------------------------------------------------------
(* supervise_plugin: the exit, the take-down, the drain of the readers.    *)

Supervise(h) ==
  /\ bin[h].pc = "watch" /\ ~hop[h].aborted
  /\ \/ bin[h].child = "gone" /\ bin' = [bin EXCEPT ![h].pc = "drain"]
     \/ /\ bin[h].child = "alive" /\ InnerStopped(h)
        /\ \E terminated \in BOOLEAN :
             bin' = [bin EXCEPT ![h].down = TRUE, ![h].pc = IF terminated THEN "grace" ELSE "kill"]
     \/ /\ bin[h].child = "alive" /\ ~InnerStopped(h) /\ bin[h].held # "none"
        /\ bin' = [bin EXCEPT ![h].pc = "grace"]
  /\ UNCHANGED <<chain, cancelled, hop, tap>>

\* The exit ends the grace, or its bound does.
Grace(h) ==
  /\ bin[h].pc = "grace" /\ ~hop[h].aborted
  /\ bin' = [bin EXCEPT ![h].pc = IF bin[h].child = "gone" THEN "drain" ELSE "kill"]
  /\ UNCHANGED <<chain, cancelled, hop, tap>>

Kill(h) ==
  /\ bin[h].pc = "kill" /\ ~hop[h].aborted
  /\ \/ bin' = [bin EXCEPT ![h].pc = "drain", ![h].child = "gone"]
     \/ h \in MayRefuse /\ bin' = [bin EXCEPT ![h].pc = "drain", ![h].refused = TRUE]
  /\ UNCHANGED <<chain, cancelled, hop, tap>>

\* A held failure is sent once the child is down, and only then; a sender nobody used is dropped.
Delivered(b) ==
  [Spent(b) EXCEPT !.pc = "over", !.down = FALSE, !.orphan = FALSE,
            !.out = IF b.held # "none" THEN b.held ELSE IF @ = "open" THEN "dropped" ELSE @]

\* The readers are waited for, at most for a bound; then the child is reaped and the run returns.
Drain(h) ==
  /\ bin[h].pc = "drain" /\ ~hop[h].aborted
  /\ bin' = [bin EXCEPT ![h] = Delivered(@)]
  /\ UNCHANGED <<chain, cancelled, hop, tap>>

MutDroppedBin(b) == IF b.pc \in {"idle", "over"} THEN b ELSE Delivered(b)
\* What is left of a run whose future is dropped: the child is killed, a held failure is sent.
DroppedBin(b) ==
  IF b.pc \in {"idle", "over"} THEN b
  ELSE [Delivered(b) EXCEPT !.child = IF b.refused THEN b.child ELSE "gone"]

-----------------------------------------------------------------------------
(* The tap: it waits for the inner plugin, then binds the hop's address.   *)

TapStops(h, owed) == tap' = [tap EXCEPT ![h].pc = "stop", ![h].stop = TRUE, ![h].owed = owed]
TapOver(h, out) ==
  tap' = [tap EXCEPT ![h].pc = "over", ![h].stop = FALSE, ![h].owed = "none",
                     ![h].out = IF @ # "open" THEN @ ELSE IF out = "none" THEN "dropped" ELSE out]

\* In this order: the inner's readiness, the shutdown, the deadline.
TapWait(h) ==
  /\ tap[h].pc = "wait" /\ Running(h)
  /\ \/ bin[h].out = "ok" /\ (tap' = [tap EXCEPT ![h].pc = "bind"] \/ TapStops(h, "fatal"))
     \/ bin[h].out \in Failures /\ TapStops(h, bin[h].out)
     \/ bin[h].out = "dropped" /\ tap' = [tap EXCEPT ![h].pc = "lost"]
     \/ bin[h].out = "open" /\ Stopped(h) /\ tap' = [tap EXCEPT ![h].pc = "leave"]
     \/ bin[h].out = "open" /\ TapStops(h, "late")
  /\ UNCHANGED <<chain, cancelled, hop, bin>>

\* The inner ended without a word.
TapLost(h) ==
  /\ tap[h].pc = "lost" /\ Running(h)
  /\ \/ Stopped(h) /\ tap' = [tap EXCEPT ![h].pc = "close"]
     \/ ~Stopped(h) /\ bin[h].pc = "over" /\ TapOver(h, "fatal")
     \/ ~Stopped(h) /\ bin[h].pc # "over" /\ TapStops(h, "late")
  /\ UNCHANGED <<chain, cancelled, hop, bin>>

TapBind(h) ==
  /\ tap[h].pc = "bind" /\ Running(h)
  /\ \/ tap' = [tap EXCEPT ![h].pc = "serve", ![h].out = "ok"]
     \/ \E e \in Failures : TapStops(h, e)
  /\ UNCHANGED <<chain, cancelled, hop, bin>>

TapServe(h) ==
  /\ tap[h].pc = "serve" /\ Running(h)
  /\ \/ Stopped(h) /\ tap' = [tap EXCEPT ![h].pc = "close"]
     \/ bin[h].pc = "over" /\ TapOver(h, "none")
     \/ TapStops(h, "none")
  /\ UNCHANGED <<chain, cancelled, hop, bin>>

\* stop_inner: the inner ends in time, or is dropped when its bound is over.
\* A failure the inner reported late is what a late tap reports.
TapStopInner(h) ==
  /\ tap[h].pc = "stop" /\ Running(h)
  /\ bin' = [bin EXCEPT ![h] = DroppedBin(@)]
  /\ LET owed == IF tap[h].owed # "late" THEN tap[h].owed
                 ELSE IF bin'[h].out \in Failures THEN bin'[h].out ELSE "fatal"
     IN TapOver(h, owed)
  /\ UNCHANGED <<chain, cancelled, hop>>

\* drain_after_shutdown, drain_inner: the inner is waited for, however long it takes.
TapDrain(h) ==
  /\ tap[h].pc \in {"leave", "close"} /\ Running(h) /\ bin[h].pc = "over"
  /\ IF tap[h].pc = "leave" /\ bin[h].out \in Failures
       THEN TapOver(h, bin[h].out)
       ELSE TapOver(h, "none")
  /\ UNCHANGED <<chain, cancelled, hop, bin>>

-----------------------------------------------------------------------------
(* run_hop: pick a port, run the plugin, restart it on a lost port.        *)

IdleHop == [pc |-> "idle", tries |-> 0, fwd |-> 0, settled |-> FALSE, restart |-> FALSE,
            stop |-> FALSE, aborted |-> FALSE, decision |-> "open"]

HopOver(x) ==
  [x EXCEPT !.pc = "over", !.settled = FALSE, !.stop = FALSE, !.decision = IF @ = "open" THEN "dropped" ELSE @]

Attempt(h) == hop' = [hop EXCEPT ![h].pc = "run", ![h].tries = @ + 1, ![h].settled = FALSE, ![h].stop = FALSE]

\* The spawn may fail: the run returns and its sender is dropped.
HopStart(h) ==
  /\ hop[h].pc = "pick" /\ ~hop[h].aborted /\ hop[h].tries < MaxTries
  /\ Attempt(h)
  /\ \E b \in {FreshBin(h), [IdleBin EXCEPT !.pc = "over", !.out = "dropped"]} : bin' = [bin EXCEPT ![h] = b]
  /\ tap' = [tap EXCEPT ![h] = IF h \in Tapped THEN [IdleTap EXCEPT !.pc = "wait"] ELSE @]
  /\ UNCHANGED <<chain, cancelled>>

\* The tap gets no port for its inner plugin.
TapNoPort(h) ==
  /\ hop[h].pc = "pick" /\ ~hop[h].aborted /\ hop[h].tries < MaxTries /\ h \in Tapped
  /\ Attempt(h)
  /\ \E out \in {"fatal"} \cup (IF cancelled THEN {"dropped"} ELSE {}) :
       tap' = [tap EXCEPT ![h] = [IdleTap EXCEPT !.pc = "over", !.out = out]]
  /\ bin' = [bin EXCEPT ![h] = IdleBin]
  /\ UNCHANGED <<chain, cancelled>>

\* pick_with finds no port for an intermediate hop, or is cancelled between two probes.
HopNoPort(h) ==
  /\ hop[h].pc = "pick" /\ ~hop[h].aborted /\ Intermediate(h)
  /\ \/ cancelled /\ hop' = [hop EXCEPT ![h] = HopOver(@)]
     \/ hop' = [hop EXCEPT ![h] = HopOver([@ EXCEPT !.decision = "fatal"])]
  /\ UNCHANGED <<chain, cancelled, bin, tap>>

\* A conflict on a port the chain picked is a restart, anything else the hop's decision.
Settle(x, h, out) ==
  IF x.settled \/ out = "open" THEN x
  ELSE IF out = "conflict" /\ Intermediate(h)
    THEN [x EXCEPT !.settled = TRUE, !.restart = TRUE, !.stop = TRUE]
    ELSE [x EXCEPT !.settled = TRUE, !.decision = IF @ = "open" THEN out ELSE @]

Relay(h) ==
  /\ Running(h) /\ ~hop[h].settled /\ Ready(h) # "open"
  /\ hop' = [hop EXCEPT ![h] = Settle(@, h, Ready(h))]
  /\ UNCHANGED <<chain, cancelled, bin, tap>>

MutHopEnds(h) ==
  /\ Running(h) /\ RunOver(h)
  /\ hop' = [hop EXCEPT ![h] = LET x == Settle(@, h, Ready(h))
                               IN IF x.tries < MaxTries THEN [x EXCEPT !.pc = "pick", !.restart = FALSE]
                                                        ELSE HopOver(x)]
  /\ UNCHANGED <<chain, cancelled, bin, tap>>
\* The run is over: what it left in the channel is routed first.
HopEnds(h) ==
  /\ Running(h) /\ RunOver(h)
  /\ hop' = [hop EXCEPT ![h] = LET x == Settle(@, h, Ready(h))
                               IN IF x.restart THEN [x EXCEPT !.pc = "pause", !.restart = FALSE]
                                               ELSE HopOver(x)]
  /\ UNCHANGED <<chain, cancelled, bin, tap>>

HopPause(h) ==
  /\ hop[h].pc = "pause" /\ ~hop[h].aborted
  /\ hop' = [hop EXCEPT ![h] = IF cancelled THEN HopOver(@) ELSE [@ EXCEPT !.pc = "pick"]]
  /\ UNCHANGED <<chain, cancelled, bin, tap>>

DroppedTap(t) ==
  IF t.pc \in {"idle", "over"} THEN t
  ELSE [t EXCEPT !.pc = "over", !.out = IF @ = "open" THEN "dropped" ELSE @]

\* An aborted hop is dropped at its next await.  A tap only asks for its
\* inner's task to be aborted: that one is dropped in a step of its own.
HopDropped(h) ==
  /\ hop[h].aborted /\ hop[h].pc # "over"
  /\ bin' = [bin EXCEPT ![h] = IF h \notin Tapped THEN DroppedBin(@)
                               ELSE [@ EXCEPT !.orphan = bin[h].pc \notin {"idle", "over"}]]
  /\ tap' = [tap EXCEPT ![h] = DroppedTap(@)]
  /\ hop' = [hop EXCEPT ![h] =
               HopOver(IF @.pc = "run" THEN Settle(@, h, IF h \in Tapped THEN tap'[h].out ELSE bin'[h].out) ELSE @)]
  /\ UNCHANGED <<chain, cancelled>>

MutInnerDropped(h) == FALSE /\ UNCHANGED garterVars
InnerDropped(h) ==
  /\ bin[h].orphan
  /\ bin' = [bin EXCEPT ![h] = DroppedBin(@)]
  /\ UNCHANGED <<chain, cancelled, hop, tap>>

-----------------------------------------------------------------------------
(* ChainRunner::run.                                                       *)

Undone == {h \in Hops : hop[h].pc \notin {"idle", "over"}}
Unjoined == {h \in Hops : hop[h].pc # "idle"} \ chain.joined
Launched(hs, h) == [hs EXCEPT ![h].pc = "pick", ![h].fwd = IF h = 1 THEN 0 ELSE hs[h - 1].tries]

\* judge: a failure stands whoever cancelled; readiness does not outlive a cancel.
Judge(d) ==
  CASE d \in Failures -> d
    [] d \in {"ok", "dropped"} /\ cancelled -> "preempted"
    [] d = "dropped" /\ ~cancelled -> "fatal"
    [] d = "ok" /\ ~cancelled -> "ready"

Advance ==
  /\ chain.pc = "loop" /\ chain.pending # 0
  /\ LET h == chain.pending
         v == Judge(hop[h].decision)
     IN /\ hop[h].decision # "open"
        /\ cancelled' = (cancelled \/ v \in Failures)
        /\ hop' = IF v = "ready" /\ h < N THEN Launched(hop, h + 1) ELSE hop
        /\ chain' = [chain EXCEPT !.pending = IF v = "ready" /\ h < N THEN h + 1 ELSE 0,
                                  !.verdict = IF v = "ready" /\ h = N THEN "ready" ELSE @,
                                  !.failure = IF v \in Failures THEN v ELSE @]
  /\ UNCHANGED <<bin, tap>>

Undecided == \A h \in {chain.pending} \ {0} : hop[h].decision = "open"

\* The loop ends on the token; a decision still to come is left for the release.
Break ==
  /\ chain.pc = "loop" /\ cancelled /\ Undecided
  /\ chain' = [chain EXCEPT !.pc = "drain", !.unread = chain.pending, !.pending = 0]
  /\ UNCHANGED <<cancelled, hop, bin, tap>>

\* record_exit: whichever hop ends, and however, ends the chain.
Join(h) ==
  /\ h \in Unjoined /\ hop[h].pc = "over"
  /\ \/ chain.pc = "loop" /\ ~cancelled /\ Undecided
     \/ chain.pc = "drain"
  /\ chain' = [chain EXCEPT !.joined = @ \cup {h}]
  /\ cancelled' = TRUE
  /\ UNCHANGED <<hop, bin, tap>>

\* The drain's bound is over: what still runs is aborted, and waited for.
DrainExpires ==
  /\ chain.pc = "drain" /\ \E h \in Undone : ~hop[h].aborted
  /\ hop' = [h \in Hops |-> IF h \in Undone THEN [hop[h] EXCEPT !.aborted = TRUE] ELSE hop[h]]
  /\ UNCHANGED <<chain, cancelled, bin, tap>>

MutGateFailure == chain.failure
\* ReadyGate::release: the failure read in the loop, or the one decided since.
GateFailure ==
  IF chain.failure # "none" THEN chain.failure
  ELSE IF chain.unread \in {h \in Hops : hop[h].decision \in Failures} THEN hop[chain.unread].decision
  ELSE "none"

Release ==
  /\ chain.pc = "drain" /\ Unjoined = {}
  /\ chain' = [chain EXCEPT !.pc = "done", !.failure = "none", !.unread = 0,
                            !.verdict = IF @ # "none" THEN @ ELSE IF GateFailure # "none" THEN GateFailure ELSE "closed"]
  /\ UNCHANGED <<cancelled, hop, bin, tap>>

\* The embedder's token, or a signal.
Cancel ==
  /\ ~cancelled /\ chain.pc = "loop"
  /\ cancelled' = TRUE
  /\ UNCHANGED <<chain, hop, bin, tap>>

\* The embedder drops the runner: ChainTask's Drop cancels and aborts it, and nobody waits.
DropRunner ==
  /\ chain.pc \in {"loop", "drain"}
  /\ chain' = [chain EXCEPT !.pc = "dropped"]
  /\ cancelled' = TRUE
  /\ hop' = [h \in Hops |-> IF h \in Undone THEN [hop[h] EXCEPT !.aborted = TRUE] ELSE hop[h]]
  /\ UNCHANGED <<bin, tap>>

ChainInit ==
  /\ chain = [pc |-> "loop", pending |-> 1, unread |-> 0, failure |-> "none", verdict |-> "none",
              joined |-> {}]
  /\ cancelled = FALSE
  /\ hop = Launched([h \in Hops |-> IdleHop], 1)
  /\ bin = [h \in Hops |-> IdleBin]
  /\ tap = [h \in Hops |-> IdleTap]

HopSteps(h) == HopStart(h) \/ HopNoPort(h) \/ TapNoPort(h) \/ Relay(h) \/ HopEnds(h) \/ HopPause(h) \/ HopDropped(h)
BinSteps(h) == Supervise(h) \/ Grace(h) \/ Kill(h) \/ Drain(h) \/ InnerDropped(h)
TapSteps(h) == TapWait(h) \/ TapLost(h) \/ TapBind(h) \/ TapServe(h) \/ TapStopInner(h) \/ TapDrain(h)
RunnerSteps == Advance \/ Break \/ Release \/ DrainExpires \/ \E h \in Hops : Join(h)

ChainNext ==
  \/ RunnerSteps \/ Cancel \/ DropRunner
  \/ \E h \in Hops : HopSteps(h) \/ BinSteps(h) \/ TapSteps(h)
  \/ \E h \in Hops : ReadLine(h) \/ Eof(h) \/ Probe(h) \/ ChildExits(h)

\* The runtime polls every task that can go on, and every timer expires.
ChainFairness ==
  /\ WF_garterVars(RunnerSteps)
  /\ \A h \in Hops : WF_garterVars(HopSteps(h)) /\ WF_garterVars(BinSteps(h))
  /\ \A h \in Tapped : WF_garterVars(TapSteps(h))

ChainSpec == ChainInit /\ [][ChainNext]_garterVars /\ ChainFairness

-----------------------------------------------------------------------------
(* What the chain is for.                                                  *)

\* A failure a plugin reported is the verdict the caller gets, whoever
\* cancelled the chain meanwhile, once the runner returns: the release reads
\* what was decided after the loop ended.  Exempt are a port conflict of an
\* intermediate hop, which is a restart, and a tapped hop the drain's bound cut short.
FailureReaches ==
  chain.pc = "done" => \A h \in Hops :
    /\ hop[h].decision \in Failures => chain.verdict = hop[h].decision
    /\ bin[h].held # "none" /\ ~(h \in Tapped /\ hop[h].aborted) => \/ chain.verdict \in Failures
                                                                    \/ bin[h].held = "conflict" /\ Intermediate(h)

\* Hop h forwards to the port its neighbour's child was last given, for as long as the chain is up:
\* no hop restarts on a fresh port once the next one was told the old one.
ForwardsToLive == \A h \in 2 .. N : hop[h].pc # "idle" => hop[h].fwd = hop[h - 1].tries

\* What the chain tells is so: its verdict is the failure a plugin reported,
\* and each hop forwards to the port its neighbour listens on (ChainRunner).
ChainTrue == FailureReaches /\ ForwardsToLive

Gone(h) == bin[h].child # "alive" \/ bin[h].refused
\* A chain that was told to stop, by the caller, a signal, a hop's end or a
\* failed start, ends with no child left but one the system refused to kill
\* (ChainRunner's drain, BinaryPlugin's grace and kill).
TakenDown == cancelled ~> (chain.pc \in {"done", "dropped"} /\ \A h \in Hops : Gone(h))

\* What the caller can see of the chain, for ChainPromise.
Phase ==
  CASE chain.pc = "done" -> "over"
    [] chain.pc = "dropped" -> "dropped"
    [] chain.pc = "drain" \/ (chain.pc = "loop" /\ cancelled) -> "ending"
    [] chain.pc = "loop" /\ ~cancelled -> IF chain.verdict = "ready" THEN "up" ELSE "starting"
LastLaunched == CHOOSE h \in Hops : hop[h].pc # "idle" /\ \A g \in Hops : hop[g].pc # "idle" => g <= h
UpTo == IF chain.verdict = "ready" THEN N ELSE LastLaunched - 1
Promise == INSTANCE ChainPromise WITH
  Count <- N, phase <- Phase, told <- chain.verdict, upto <- UpTo,
  live <- {h \in Hops : bin[h].child = "alive" /\ ~bin[h].refused /\ ~bin[h].orphan}
\* The chain implements what its caller relies on (ChainPromise): hops come up
\* in order, ready is said once all are up, and a chain that says it failed has
\* no child left (ChainRunner::run, start_plugin_chain).
KeepsPromise == Promise!PromiseSpec
=============================================================================
