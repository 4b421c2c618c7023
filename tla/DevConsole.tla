---- MODULE DevConsole ----
(***************************************************************************)
(* The development console: it runs two preflight steps, then the bridge   *)
(* (behind sudo on POSIX), Vite and the GUI, supervises them, and takes    *)
(* them down when one exits, start-up fails, it panics, or the developer   *)
(* interrupts it. The first part is the supervision; the second is the     *)
(* multiplexer that frames the children's output into entries and prints   *)
(* them, sorted, once the shutdown has begun.                              *)
(*                                                                         *)
(* A child is its root process and the rest of its tree. A tree is killed  *)
(* by its group, whose number may name another group once the root has     *)
(* been reaped.                                                            *)
(***************************************************************************)
EXTENDS Naturals, Sequences, FiniteSets, SequencesExt

CONSTANTS
    MaxLines,     \* lines a child writes
    ChannelCap    \* capacity of the entries' channel

ASSUME DevConsoleAssumption == MaxLines \in Nat /\ ChannelCap \in Nat \ {0}

VARIABLES
    os,       \* "posix" or "windows"
    stage,    \* where the console is
    child,    \* each child: its root, the rest of its tree, and its slot
    ctrlC,    \* an interrupt is pending
    warned,   \* the recovery warning was printed
    stray     \* a group was killed after its root was reaped
superVars == <<os, stage, child, ctrlC, warned, stray>>

-----------------------------------------------------------------------------
Children == {"step", "bridge", "vite", "gui"}
Grouped == Children \ {"bridge"}

\* Child: `seen` is how far wait_and_kill_leftovers is with it.
NoChild == [root |-> "none", tree |-> FALSE, slot |-> FALSE, seen |-> "no"]
Fresh == [root |-> "alive", tree |-> TRUE, slot |-> TRUE, seen |-> "no"]

SuperInit ==
    /\ os \in {"posix", "windows"} /\ stage = "npm"
    /\ child = [c \in Children |-> NoChild]
    /\ ctrlC = FALSE /\ warned = FALSE /\ stray = FALSE

\* The tree of a child is killed by its group.
KillTree(c) ==
    /\ child' = [child EXCEPT ![c].tree = FALSE,
                              ![c].root = IF @ = "alive" THEN "exited" ELSE @]
    /\ stray' = (stray \/ child[c].root \in {"none", "reaped"})

-----------------------------------------------------------------------------
(* The children and the developer.                                         *)
RootExits ==
    /\ stage # "done"
    /\ \E c \in Children : child[c].root = "alive" /\ child' = [child EXCEPT ![c].root = "exited"]
    /\ UNCHANGED <<os, stage, ctrlC, warned, stray>>

TreeEnds ==
    /\ stage # "done"
    /\ \E c \in Children : child[c].tree /\ child' = [child EXCEPT ![c].tree = FALSE]
    /\ UNCHANGED <<os, stage, ctrlC, warned, stray>>

Interrupt ==
    /\ stage # "done" /\ ~ctrlC /\ ctrlC' = TRUE
    /\ UNCHANGED <<os, stage, child, warned, stray>>

-----------------------------------------------------------------------------
(* wait_and_kill_leftovers: the exit is watched without reaping, the tree  *)
(* killed, then the root reaped. A watch that fails kills nothing, and the *)
(* reap waits for the root.                                                *)
Watched == CASE stage \in {"npm", "stageDir"} -> {"step"}
             [] stage = "viteUp" -> {"vite"}
             [] stage = "running" -> {"vite", "gui"}
             [] OTHER -> {}

LeftoversKilled ==
    /\ \E c \in Watched :
         /\ child[c].root = "exited" /\ child[c].seen = "no"
         /\ child' = [child EXCEPT ![c].tree = FALSE, ![c].seen = "killed"]
    /\ UNCHANGED <<os, stage, ctrlC, warned, stray>>

WatchFails ==
    /\ \E c \in Watched :
         /\ child[c].root \in {"alive", "exited"} /\ child[c].seen = "no"
         /\ child' = [child EXCEPT ![c].seen = "blind"]
    /\ UNCHANGED <<os, stage, ctrlC, warned, stray>>

Reaped(c) == child[c].root = "exited" /\ child[c].seen # "no"

-----------------------------------------------------------------------------
(* run_step: npm install, then the staging of the binaries.                *)
StepSpawns ==
    /\ stage \in {"npm", "stageDir"} /\ child["step"].root \in {"none", "reaped"}
    /\ \/ child' = [child EXCEPT !["step"] = Fresh] /\ UNCHANGED stage
       \/ stage' = "done" /\ UNCHANGED child
    /\ UNCHANGED <<os, ctrlC, warned, stray>>

\* The interrupt comes first: the tree is killed, then the root reaped.
StepInterrupted ==
    /\ stage \in {"npm", "stageDir"} /\ child["step"].root \in {"alive", "exited"}
    /\ ctrlC
    /\ child' = [child EXCEPT !["step"] = [@ EXCEPT !.tree = FALSE, !.root = "reaped"]]
    /\ stage' = "done"
    /\ UNCHANGED <<os, ctrlC, warned, stray>>

StepEnds ==
    /\ stage \in {"npm", "stageDir"} /\ Reaped("step") /\ ~ctrlC
    /\ child' = [child EXCEPT !["step"].root = "reaped"]
    /\ \/ stage' = IF stage = "npm" THEN "stageDir" ELSE "spawnBridge"
       \/ stage' = "done"
    /\ UNCHANGED <<os, ctrlC, warned, stray>>

-----------------------------------------------------------------------------
(* startup_and_supervise.                                                  *)
Spawn(at, c, next) ==
    /\ stage = at
    /\ \/ child' = [child EXCEPT ![c] = Fresh] /\ stage' = next
       \/ stage' = "shutdown" /\ UNCHANGED child
    /\ UNCHANGED <<os, ctrlC, warned, stray>>

\* Elevation, the port, sudo, the group: any of them ends it before a
\* child runs. Then the ready listener and the bridge.
SpawnBridge ==
    \/ Spawn("spawnBridge", "bridge", "bridgeUp")
    \/ stage = "spawnBridge" /\ stage' = "done"
       /\ UNCHANGED <<os, child, ctrlC, warned, stray>>

\* The bridge's exit comes first, then the interrupt, readiness, the time-out.
BridgeEarlyExit ==
    /\ stage = "bridgeUp" /\ child["bridge"].root = "exited"
    /\ child' = [child EXCEPT !["bridge"].root = "reaped"] /\ stage' = "shutdown"
    /\ UNCHANGED <<os, ctrlC, warned, stray>>

SpawnVite ==
    /\ child["bridge"].root # "exited" /\ ~ctrlC
    /\ Spawn("bridgeUp", "vite", "viteUp")

SpawnGui == ~ctrlC /\ ~Reaped("vite") /\ Spawn("viteUp", "gui", "running")

\* The interrupt, or the time-out on the ready signal or on Vite's port.
GivesUp ==
    /\ stage \in {"bridgeUp", "viteUp"} \/ (stage = "running" /\ ctrlC)
    /\ stage' = "shutdown"
    /\ UNCHANGED <<os, child, ctrlC, warned, stray>>

MutGroupedExits ==
    /\ stage \in {"viteUp", "running"}
    /\ \E c \in Watched : Reaped(c) /\ child' = [child EXCEPT ![c].root = "reaped"]
    /\ stage' = "shutdown"
    /\ UNCHANGED <<os, ctrlC, warned, stray>>

\* Vite or the GUI exited: reaped, and taken out of its slot.
GroupedExits ==
    /\ stage \in {"viteUp", "running"}
    /\ \E c \in Watched :
         Reaped(c) /\ child' = [child EXCEPT ![c].root = "reaped", ![c].slot = FALSE]
    /\ stage' = "shutdown"
    /\ UNCHANGED <<os, ctrlC, warned, stray>>

BridgeExits ==
    /\ stage = "running" /\ child["bridge"].root = "exited"
    /\ child' = [child EXCEPT !["bridge"].root = "reaped"] /\ stage' = "shutdown"
    /\ UNCHANGED <<os, ctrlC, warned, stray>>

MutPanics ==
    /\ stage \in {"bridgeUp", "viteUp", "running"}
    /\ stage' = "done"
    /\ UNCHANGED <<os, child, ctrlC, warned, stray>>

\* A panic is caught, and the children are shut down before it goes on.
Panics ==
    /\ stage \in {"bridgeUp", "viteUp", "running"}
    /\ stage' = "shutdown"
    /\ UNCHANGED <<os, child, ctrlC, warned, stray>>

-----------------------------------------------------------------------------
(* shutdown: the bridge first, then Vite, then the GUI.                    *)

\* grace_timeout_action, bridge_hard_kill_permitted: the POSIX bridge runs
\* as root behind sudo, and is never killed.
HardKill(c) == c # "bridge" \/ os = "windows"

\* has_exited reaps; otherwise the tree is told to stop.
BridgeStops ==
    /\ stage = "shutdown"
    /\ LET b == child["bridge"] IN
       \/ /\ b.root \in {"none", "reaped"} /\ stage' = "vite" /\ UNCHANGED child
       \/ /\ b.root = "exited" /\ stage' = "vite"
          /\ child' = [child EXCEPT !["bridge"].root = "reaped"]
       \/ b.root = "alive" /\ stage' = "grace" /\ UNCHANGED child
    /\ UNCHANGED <<os, ctrlC, warned, stray>>

BridgeGrace ==
    /\ stage = "grace" /\ stage' = "vite"
    /\ \/ /\ child["bridge"].root = "exited"
          /\ child' = [child EXCEPT !["bridge"].root = "reaped"]
          /\ UNCHANGED <<warned, stray>>
       \/ /\ ~HardKill("bridge") /\ warned' = TRUE /\ UNCHANGED <<child, stray>>
       \/ /\ HardKill("bridge")
          /\ child' = [child EXCEPT !["bridge"] = [@ EXCEPT !.tree = FALSE, !.root = "reaped"]]
          /\ UNCHANGED <<warned, stray>>
    /\ UNCHANGED <<os, ctrlC>>

\* teardown_grouped: told to stop unless it has exited, then, when it has or
\* the grace is over, its tree is killed and its root reaped.
TearDown(c, next) ==
    /\ stage = c
    /\ \/ ~child[c].slot /\ stage' = next /\ UNCHANGED <<child, stray>>
       \/ child[c].slot /\ KillTree(c) /\ stage' = c \o "Reap"
    /\ UNCHANGED <<os, ctrlC, warned>>

ReapAfter(c, next) ==
    /\ stage = c \o "Reap"
    /\ child' = [child EXCEPT ![c].root = "reaped"] /\ stage' = next
    /\ UNCHANGED <<os, ctrlC, warned, stray>>

TearDownVite == TearDown("vite", "gui")
ReapVite == ReapAfter("vite", "gui")
TearDownGui == TearDown("gui", "done")
ReapGui == ReapAfter("gui", "done")

SuperNext ==
    \/ RootExits \/ TreeEnds \/ Interrupt \/ LeftoversKilled \/ WatchFails
    \/ StepSpawns \/ StepInterrupted \/ StepEnds \/ SpawnBridge
    \/ BridgeEarlyExit \/ SpawnVite \/ SpawnGui \/ GivesUp \/ GroupedExits
    \/ BridgeExits \/ Panics \/ BridgeStops \/ BridgeGrace
    \/ TearDownVite \/ ReapVite \/ TearDownGui \/ ReapGui

-----------------------------------------------------------------------------
\* Whatever ends the console, a child's exit, an interrupt, a failed start
\* or a panic, it leaves nothing of a step, Vite or the GUI running, unless
\* the watch on that child failed; and the bridge has exited, or, on POSIX,
\* the developer was told it may not have (supervise_children, shutdown).
NothingLeftBehind ==
    stage = "done" =>
        /\ \A c \in Grouped : /\ child[c].root \in {"none", "reaped"}
                              /\ child[c].tree => child[c].seen = "blind"
        /\ child["bridge"].root \in {"none", "reaped"} \/ (os = "posix" /\ warned)

\* No group is signalled after its root was reaped, when its number may
\* name another group: also not in the shutdown that follows the child's
\* own exit (wait_and_kill_leftovers, teardown_grouped).
NoStrayGroupKill == ~stray

-----------------------------------------------------------------------------
(* The multiplexer. A line is its stream, its number in it, and its anchor: *)
(* the time stamp that starts an entry, or 0. The bridge logs entries of    *)
(* several lines, Vite logs lines.                                          *)
VARIABLES
    fed,      \* the lines each pump has read
    buffer,   \* EntryFramer: the entry being gathered
    ended,    \* the pumps that have returned
    chan,     \* the channel of entries
    tail,     \* the entries gathered during the drain
    printed,  \* the transcript's lines
    printer   \* "live", "drain", "done", or "dead"; and what it was told
muxVars == <<fed, buffer, ended, chan, tail, printed, printer>>

Streams == {"bridge", "vite"}
Anchors == 0..2
PerLine == {"vite"}

MuxInit ==
    /\ fed = [s \in Streams |-> <<>>] /\ buffer = <<>> /\ ended = {}
    /\ chan = <<>> /\ tail = <<>> /\ printed = <<>>
    /\ printer = [at |-> "live", drain |-> FALSE, finalize |-> FALSE]

MutFeed(s, line) ==
    IF s \in PerLine THEN <<<<<<line>>>>, <<>>>>
    ELSE IF line.anchor # 0 THEN <<SelectSeq(<<buffer>>, LAMBDA e : e # <<>>), <<line>>>>
    ELSE IF buffer # <<>> THEN <<<<<<line>>>>, buffer>>
    ELSE <<<<<<line>>>>, <<>>>>

\* EntryFramer::feed: the entries a line puts out, and what stays buffered.
Feed(s, line) ==
    IF s \in PerLine THEN <<<<<<line>>>>, <<>>>>
    ELSE IF line.anchor # 0 THEN <<SelectSeq(<<buffer>>, LAMBDA e : e # <<>>), <<line>>>>
    ELSE IF buffer # <<>> THEN <<<<>>, Append(buffer, line)>>
    ELSE <<<<<<line>>>>, <<>>>>

\* pump: a line is read and framed. A full channel holds the pump back; a
\* printer that is gone ends it.
PumpReads ==
    \E s \in Streams \ ended, a \in Anchors :
        LET line == [src |-> s, n |-> Len(fed[s]) + 1, anchor |-> IF s \in PerLine THEN 0 ELSE a]
            out  == Feed(s, line) IN
        /\ Len(fed[s]) < MaxLines /\ (s \in PerLine => a = 0)
        /\ printer.at \in {"live", "drain"}
        /\ Len(chan) + Len(out[1]) =< ChannelCap
        /\ fed' = [fed EXCEPT ![s] = Append(@, line)]
        /\ chan' = chan \o out[1]
        /\ buffer' = IF s \in PerLine THEN buffer ELSE out[2]
        /\ UNCHANGED <<ended, tail, printed, printer>>

MutPumpEnds ==
    \E s \in Streams \ ended :
        /\ ended' = ended \cup {s}
        /\ UNCHANGED <<fed, buffer, chan, tail, printed, printer>>

\* The stream closed: finish puts out the entry still buffered.
PumpEnds ==
    \E s \in Streams \ ended :
        LET rest == IF s \in PerLine \/ buffer = <<>> THEN <<>> ELSE <<buffer>> IN
        /\ printer.at \in {"live", "drain"} => Len(chan) + Len(rest) =< ChannelCap
        /\ chan' = IF printer.at \in {"live", "drain"} THEN chan \o rest ELSE chan
        /\ buffer' = IF s \in PerLine THEN buffer ELSE <<>>
        /\ ended' = ended \cup {s}
        /\ UNCHANGED <<fed, tail, printed, printer>>

\* supervise_children: the drain is announced, later its end; a printer that
\* does not come to an end even then is aborted.
DrainBegins ==
    /\ ~printer.drain /\ printer' = [printer EXCEPT !.drain = TRUE]
    /\ UNCHANGED <<fed, buffer, ended, chan, tail, printed>>

PanicEnds ==
    /\ printer.drain /\ ~printer.finalize /\ printer' = [printer EXCEPT !.finalize = TRUE]
    /\ UNCHANGED <<fed, buffer, ended, chan, tail, printed>>

\* Aborted, or a write to the terminal failed.
PrinterDies ==
    /\ printer.at \in {"live", "drain"} /\ printer' = [printer EXCEPT !.at = "dead"]
    /\ UNCHANGED <<fed, buffer, ended, chan, tail, printed>>

\* printer: entries are printed as they come, until the drain is announced.
PrinterPrints ==
    /\ printer.at = "live" /\ ~printer.drain /\ chan # <<>>
    /\ printed' = printed \o Head(chan) /\ chan' = Tail(chan)
    /\ UNCHANGED <<fed, buffer, ended, tail, printer>>

PrinterDrains ==
    /\ printer.at = "live" /\ printer.drain
    /\ printer' = [printer EXCEPT !.at = "drain"]
    /\ UNCHANGED <<fed, buffer, ended, chan, tail, printed>>

PrinterGathers ==
    /\ printer.at = "drain" /\ ~printer.finalize /\ chan # <<>>
    /\ tail' = Append(tail, Head(chan)) /\ chan' = Tail(chan)
    /\ UNCHANGED <<fed, buffer, ended, printed, printer>>

\* The tail's stable sort by anchor_key, entries without one last.
Sorted(entries) ==
    LET With(a) == SelectSeq(entries, LAMBDA e : e[1].anchor = a) IN With(1) \o With(2) \o With(0)

\* All the pumps have returned, or the drain's end was announced.
PrinterEnds ==
    /\ printer.at = "drain"
    /\ printer.finalize \/ (chan = <<>> /\ ended = Streams)
    /\ printed' = printed \o FlattenSeq(Sorted(tail))
    /\ printer' = [printer EXCEPT !.at = "done"]
    /\ UNCHANGED <<fed, buffer, ended, chan, tail>>

MuxNext ==
    \/ PumpReads \/ PumpEnds \/ DrainBegins \/ PanicEnds \/ PrinterDies
    \/ PrinterPrints \/ PrinterDrains \/ PrinterGathers \/ PrinterEnds

-----------------------------------------------------------------------------
\* A line that belongs to an entry: some line before it in its stream, or
\* itself, carries an anchor.
Continues(line) ==
    /\ line.src \notin PerLine /\ line.anchor = 0
    /\ \E i \in 1..(line.n - 1) : fed[line.src][i].anchor # 0

\* The transcript never repeats a line and never tears an entry apart, the
\* sorted tail included; and a printer that came to its own end, with no
\* time-out, has printed every line the children wrote (mux.rs: EntryFramer,
\* pump, printer).
TranscriptFaithful ==
    /\ \A i, j \in DOMAIN printed : i # j => printed[i] # printed[j]
    /\ \A i \in DOMAIN printed : Continues(printed[i]) =>
         /\ i > 1
         /\ printed[i - 1].src = printed[i].src
         /\ printed[i - 1].n + 1 = printed[i].n
    /\ (printer.at = "done" /\ ~printer.finalize) =>
         \A s \in Streams : \A i \in DOMAIN fed[s] : \E j \in DOMAIN printed : printed[j] = fed[s][i]

\* The console ends what it started and nothing else, and its transcript is
\* what the children wrote (supervise.rs, mux.rs).
ConsoleFaithful == NothingLeftBehind /\ NoStrayGroupKill /\ TranscriptFaithful

=============================================================================
