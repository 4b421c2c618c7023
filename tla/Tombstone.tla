---- MODULE Tombstone ----
(***************************************************************************)
(* The crash record. attach picks, in the log directory, a marker name no  *)
(* marker and no dump holds; on_crash creates it exclusively from inside   *)
(* the handler and, on Windows, a dump beside it; sweep, in every process  *)
(* that starts, reports the markers it lists and removes them, leaving the *)
(* dumps. Process ids are reused, sweeps of several processes overlap, and *)
(* a sweep can meet a marker that is being written.                        *)
(*                                                                         *)
(* A name is <<pid, attempt>>. The kind of process is also part of it, and *)
(* names of two kinds never meet: one kind is modelled. A crash is the     *)
(* number of the process that crashed, 0 for none.                         *)
(***************************************************************************)
EXTENDS Naturals, FiniteSets

CONSTANTS
    TombPids,    \* process ids
    MaxProcs     \* processes that ever run

ASSUME TombstoneAssumption == MaxProcs \in Nat

VARIABLES
    tombOs,     \* "windows" or "posix"
    proc,       \* per process id: the process there, its number and progress
    born,       \* processes that have started
    marker,     \* per name: whose marker it holds, and how much of it
    dump,       \* per name: whose dump it holds
    sweeper,    \* per process id: the names its sweep still has to do
    unmarked,   \* crashes of an attached handler that found its name taken
    reports     \* how often each crash was reported
tombVars == <<tombOs, proc, born, marker, dump, sweeper, unmarked, reports>>

MarkerNames == TombPids \X (0..MaxProcs)
\* The record is written piece by piece: nothing, the magic line and some
\* fields, or all of it.
NoMarker == [crash |-> 0, wrote |-> 0]
Whole == 2
NoProc == [id |-> 0, at |-> "none", attempt |-> 0]
NotSweeping == [at |-> "idle", left |-> {}, name |-> <<>>]

TombInit ==
    /\ tombOs \in {"windows", "posix"}
    /\ proc = [p \in TombPids |-> NoProc] /\ born = 0
    /\ marker = [n \in MarkerNames |-> NoMarker] /\ dump = [n \in MarkerNames |-> 0]
    /\ sweeper = [p \in TombPids |-> NotSweeping]
    /\ unmarked = {} /\ reports = [c \in 1..MaxProcs |-> 0]

MarkerName(p) == <<p, proc[p].attempt>>

-----------------------------------------------------------------------------
ProcessStarts(p) ==
    /\ proc[p].at = "none" /\ born < MaxProcs
    /\ born' = born + 1
    /\ proc' = [proc EXCEPT ![p] = [id |-> born + 1, at |-> "started", attempt |-> 0]]
    /\ UNCHANGED <<tombOs, marker, dump, sweeper, unmarked, reports>>

\* attach: the directory opens, or the handler is left without one.
Opens(p) ==
    /\ proc[p].at = "started"
    /\ \E at \in {"naming", "blind"} : proc' = [proc EXCEPT ![p].at = at]
    /\ UNCHANGED <<tombOs, born, marker, dump, sweeper, unmarked, reports>>

MutNameIsFree(n) == marker[n] = NoMarker
NameIsFree(n) == marker[n] = NoMarker /\ dump[n] = 0

MutTriesName(p) ==
    /\ proc[p].at = "naming"
    /\ proc' = [proc EXCEPT ![p].at = "attached"]
    /\ UNCHANGED <<tombOs, born, marker, dump, sweeper, unmarked, reports>>

\* free_marker_name: one attempt; then the handler is installed.
TriesName(p) ==
    /\ proc[p].at = "naming"
    /\ \/ NameIsFree(MarkerName(p)) /\ proc' = [proc EXCEPT ![p].at = "attached"]
       \/ ~NameIsFree(MarkerName(p)) /\ proc' = [proc EXCEPT ![p].attempt = @ + 1]
    /\ UNCHANGED <<tombOs, born, marker, dump, sweeper, unmarked, reports>>

\* The process is gone, and its sweep with it.
Gone(p) ==
    /\ proc' = [proc EXCEPT ![p] = NoProc]
    /\ sweeper' = [sweeper EXCEPT ![p] = NotSweeping]

\* Ended, killed, or crashed before its handler was attached or without one.
Ends(p) ==
    /\ proc[p].at # "none" /\ Gone(p)
    /\ UNCHANGED <<tombOs, born, marker, dump, unmarked, reports>>

\* on_crash: the marker is created exclusively. The disk can refuse it.
Crashes(p) ==
    /\ proc[p].at = "attached"
    /\ \/ /\ marker[MarkerName(p)] = NoMarker
          /\ marker' = [marker EXCEPT ![MarkerName(p)] = [crash |-> proc[p].id, wrote |-> 0]]
          /\ UNCHANGED unmarked
       \/ /\ marker[MarkerName(p)] # NoMarker
          /\ unmarked' = unmarked \cup {proc[p].id}
          /\ UNCHANGED marker
       \/ UNCHANGED <<marker, unmarked>>
    /\ proc' = [proc EXCEPT ![p].at = "crashing"]
    /\ UNCHANGED <<tombOs, born, dump, sweeper, reports>>

\* write_all_signal_safe: a piece of the record, while the handle is on a
\* file a sweep has not removed from the directory. A write can fail, which
\* ends the loop.
Writes(p) ==
    /\ proc[p].at = "crashing"
    /\ marker[MarkerName(p)].crash = proc[p].id /\ marker[MarkerName(p)].wrote < Whole
    /\ marker' = [marker EXCEPT ![MarkerName(p)].wrote = @ + 1]
    /\ UNCHANGED <<tombOs, proc, born, dump, sweeper, unmarked, reports>>

Closes(p) ==
    /\ proc[p].at = "crashing"
    /\ proc' = [proc EXCEPT ![p].at = "dumping"]
    /\ UNCHANGED <<tombOs, born, marker, dump, sweeper, unmarked, reports>>

\* write_minidump_best_effort, on Windows, exclusively too; then the end.
Dies(p) ==
    /\ proc[p].at = "dumping"
    /\ \/ UNCHANGED dump
       \/ /\ tombOs = "windows" /\ dump[MarkerName(p)] = 0
          /\ dump' = [dump EXCEPT ![MarkerName(p)] = proc[p].id]
    /\ Gone(p)
    /\ UNCHANGED <<tombOs, born, marker, unmarked, reports>>

-----------------------------------------------------------------------------
(* sweep: the names are listed, then each marker is reported and removed.  *)
SweepLists(p) ==
    /\ proc[p].at \in {"started", "attached"} /\ sweeper[p].at = "idle"
    /\ sweeper' = [sweeper EXCEPT ![p] =
           [at |-> "each", left |-> {n \in MarkerNames : marker[n] # NoMarker}, name |-> <<>>]]
    /\ UNCHANGED <<tombOs, proc, born, marker, dump, unmarked, reports>>

\* parse_marker: the magic line makes a record; fields that are missing are
\* reported as zero.
Parses(m) == m.wrote > 0

\* report_one: a record is reported as the crash it is, anything else as
\* malformed or unreadable.
SweepReports(p) ==
    /\ proc[p].at \in {"started", "attached"} /\ sweeper[p].at = "each"
    /\ \E n \in sweeper[p].left :
         /\ sweeper' = [sweeper EXCEPT ![p] = [at |-> "remove", left |-> @.left \ {n}, name |-> n]]
         /\ reports' = IF Parses(marker[n]) THEN [reports EXCEPT ![marker[n].crash] = @ + 1]
                       ELSE reports
    /\ UNCHANGED <<tombOs, proc, born, marker, dump, unmarked>>

\* The process whose handle is still on the marker of this name.
HeldOpen(n) == \E q \in TombPids : proc[q].at = "crashing" /\ proc[q].id = marker[n].crash

\* Dir::unlink. Windows refuses while the handler holds the marker open.
SweepRemoves(p) ==
    /\ proc[p].at \in {"started", "attached"} /\ sweeper[p].at = "remove"
    /\ LET n == sweeper[p].name IN
       marker' = IF tombOs = "windows" /\ HeldOpen(n) THEN marker
                 ELSE [marker EXCEPT ![n] = NoMarker]
    /\ sweeper' = [sweeper EXCEPT ![p] = [@ EXCEPT !.at = "each", !.name = <<>>]]
    /\ UNCHANGED <<tombOs, proc, born, dump, unmarked, reports>>

TombNext ==
    \E p \in TombPids :
        \/ ProcessStarts(p) \/ Opens(p) \/ TriesName(p) \/ Ends(p) \/ Crashes(p) \/ Writes(p)
        \/ Closes(p) \/ Dies(p) \/ SweepLists(p) \/ SweepReports(p) \/ SweepRemoves(p)

TombSpec == TombInit /\ [][TombNext]_tombVars

-----------------------------------------------------------------------------
\* A crash under an attached handler always finds the name attach chose
\* still free, whatever earlier processes with the same id left behind and
\* whoever sweeps meanwhile; so its marker and its dump are its own: no
\* marker ever lies beside the dump of another crash, which sweep would
\* report as its own (free_marker_name, on_crash, report_one).
CrashHasItsOwnFiles ==
    /\ unmarked = {}
    /\ \A n \in MarkerNames : (marker[n] # NoMarker /\ dump[n] # 0) => marker[n].crash = dump[n]

=============================================================================
