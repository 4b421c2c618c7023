------------------------------ MODULE MCCutover ------------------------------
(***************************************************************************)
(* Small instances of Cutover and Service.                                 *)
(***************************************************************************)
EXTENDS Cutover

Base == [os |-> "windows", ops |-> {}, starts |-> {"Auto"}, admin |-> 0, crashes |-> 0, faults |-> 0,
         boots |-> 0, reads |-> 0, requests |-> {}, hangups |-> FALSE, gui |-> FALSE]

\* Changes of the registration, one after the other and cut short.
Changing == [Base EXCEPT !.ops = {"uninstall", "install", "enable"}, !.starts = StartTypes,
                         !.admin = 1, !.crashes = 1, !.faults = 1, !.boots = 1]

\* The same under the GUI's status read.
Watched == [Base EXCEPT !.ops = {"uninstall", "install", "enable"}, !.starts = {"Auto", "Disabled"},
                        !.crashes = 1, !.faults = 1, !.reads = 1]

\* An update and another change, with failures.
Updating == [Base EXCEPT !.ops = {"uninstall", "install"}, !.starts = {"Auto"}, !.admin = 1,
                         !.crashes = 1, !.faults = 1, !.requests = {1}, !.hangups = TRUE]

\* Requests that race.
Racing == [Base EXCEPT !.crashes = 1, !.faults = 1, !.boots = 1, !.requests = {1, 2, 3}, !.hangups = TRUE]

\* Updates under the GUI.
Shown == [Base EXCEPT !.faults = 1, !.boots = 1, !.requests = {1, 2}, !.gui = TRUE]
ShownMac == [Shown EXCEPT !.os = "macos", !.boots = 2, !.crashes = 1, !.hangups = TRUE]

MCEnvironments == {Changing, Watched, Updating, Racing, Shown, ShownMac}

\* A client hangs up and nothing else goes wrong.
HangUp == {[Base EXCEPT !.requests = {1, 2}, !.hangups = TRUE, !.gui = TRUE]}
=============================================================================
