------------------------------ MODULE MCBridge ------------------------------
(***************************************************************************)
(* Small instances of Bridge.  home and home2 differ only in their filters *)
(* (a reload hot-swaps), wifi and work are two servers, socks is           *)
(* SocksOnly.                                                              *)
(***************************************************************************)
EXTENDS Bridge, TLC

CONSTANTS home, home2, wifi, work, socks, a, b

MCShape(c) == IF c = home2 THEN home ELSE c

(* Clients that stay and never fail: nothing happens.                      *)
Calm ==
  [configs |-> {wifi}, ids |-> {}, pushes |-> {None}, reads |-> {},
   quits |-> {}, queue |-> 1, unblocks |-> 0, faults |-> 0, gone |-> 0,
   crashes |-> 0]

(* Two servers, two waiting requests and an unblock.                       *)
Race == [Calm EXCEPT !.configs = {wifi, work}, !.queue = 2, !.unblocks = 1]

(* The same beside a client that hangs up: two servers and one request     *)
(* that waits, or one server and two.                                      *)
HungUp == [Race EXCEPT !.queue = 1, !.gone = 1]
Crowd == [Race EXCEPT !.configs = {wifi}, !.gone = 1]

(* Named attempts and their cancels, and a reload that hot-swaps.          *)
Attended == [Calm EXCEPT !.configs = {home, home2}, !.ids = {a, b}, !.queue = 2]

(* A process that fails a call, crashes, is restarted or updated, and      *)
(* boots with whatever records it finds.                                   *)
Restarted ==
  [Calm EXCEPT !.configs = {home}, !.pushes = {None, "AlwaysConnect"},
               !.reads = {"Unset", "Unreadable"},
               !.quits = {"CutoverRestart", "ProcessExiting"},
               !.faults = 1, !.crashes = 1]

(* The same with two servers, one of them SocksOnly, and no failed call.   *)
Switched == [Restarted EXCEPT !.configs = {home, socks}, !.faults = 0]

(* The intent is lost in a crash and its repair at the next boot fails: the*)
(* adopted cover is known to that bridge alone.                            *)
Adopted == [Calm EXCEPT !.reads = {"Unset"}, !.faults = 2, !.crashes = 1]

(* An unblock beside an abandoned start.                                   *)
Escaping == [Calm EXCEPT !.unblocks = 1, !.gone = 1]

(* Starts, stops and shutdowns, and a call that fails.                     *)
Driven == [Calm EXCEPT !.quits = {"ProcessExiting"}, !.faults = 1]

(* Two servers and a client that hangs up.                                 *)
Abandoned ==
  [Calm EXCEPT !.configs = {wifi, work}, !.quits = {"ProcessExiting"},
               !.gone = 1]

Safety == {Race, HungUp, Crowd, Attended, Restarted, Switched, Adopted}
Fair == {Escaping, Driven}
HangUp == {Abandoned}

MCSymmetry ==
  {p @@ q : p \in Permutations({wifi, work}), q \in Permutations({a, b})}
=============================================================================
