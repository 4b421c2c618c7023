----------------------------- MODULE MCPfCover ------------------------------
(***************************************************************************)
(* Instances of PfCover for TLC: one environment per kind of trouble.      *)
(***************************************************************************)
EXTENDS PfCover, TLC

CONSTANTS h1, h2, h3

Calm ==
  [hosts |-> {h1}, faulty |-> {}, hostPf |-> {FALSE}, faults |-> 0,
   crashes |-> 0, reboots |-> 0, damages |-> 0, escapes |-> 0, commands |-> 0]

(* Installs and writes that fail, crashes, a reboot and a damaged record.  *)
Serial ==
  [Calm EXCEPT !.faulty = {"load", "save", "enable", "persist"}, !.faults = 2,
               !.crashes = 2, !.reboots = 1, !.damages = 1, !.commands = 1]

(* Removals and probes that fail, a crash and a reboot.                    *)
Worn ==
  [Calm EXCEPT !.faulty = {"drop", "clear", "labels"}, !.faults = 2,
               !.crashes = 1, !.reboots = 1, !.commands = 1]

(* Reloads and probes that fail, a crash and a damaged record, beside      *)
(* other users of pf.                                                      *)
Blind ==
  [Calm EXCEPT !.faulty = {"reload", "load", "labels"}, !.faults = 2,
               !.hostPf = {TRUE, FALSE}, !.crashes = 1, !.damages = 1]

(* An unblock at any point of the manager's starts and stops.              *)
Escape == [Calm EXCEPT !.hosts = {h2, h3}, !.escapes = 1]

(* Every kind of failure of an install, beside other users of pf.          *)
Attended ==
  [Calm EXCEPT !.hosts = {h2, h3}, !.hostPf = {TRUE, FALSE}, !.faults = 2,
     !.faulty = {"load", "enable", "token", "save", "labels", "capture",
                 "info", "persist", "reload"}]

(* One unblock while somebody else holds pf enabled.                       *)
Shared == [Calm EXCEPT !.escapes = 1, !.hostPf = {TRUE}]

Covers == {Serial, Worn, Blind, Escape, Attended}
Raced == {Shared}

Symmetry == Permutations({h2, h3})
=============================================================================
