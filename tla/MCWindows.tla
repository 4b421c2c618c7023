----------------------------- MODULE MCWindows ------------------------------
(***************************************************************************)
(* Instances of what a Windows host runs under the bridge: the routes, the *)
(* system's resolver (macOS's too) and its recovery, the service process,  *)
(* and the wait for another service process to stop.  They share no        *)
(* variable and are explored side by side: part says which one takes its   *)
(* steps.                                                                  *)
(***************************************************************************)
EXTENDS Routing, DnsSystem, ServiceRun, StopWait

VARIABLE part

MCSplits == <<"SplitV4Low", "SplitV6Low">>
MCV6Splits == {"SplitV6Low"}
MCBoth == {TRUE, FALSE}

winVars == <<part, vars, plat, sessVars, recVars, serviceVars, stopVars>>

\* A part that does not step keeps one of its initial states.
WinInit ==
  /\ part \in {"routes", "resolver", "recovery", "service", "wait"}
  /\ part # "routes" => sess = CHOOSE s \in Identities : TRUE
  /\ part \notin {"resolver", "recovery"} => plat = "windows"
  /\ part # "resolver" => adv = Families /\ routed = Families /\ srvFam = "v4"
  /\ part # "recovery" => live = [f \in Families |-> "empty"]
  /\ part # "wait" => scmState = [st |-> "Running", pid |-> 1] /\ marked = FALSE
  /\ Init /\ plat \in Platforms /\ SessInit /\ RecInit /\ ServiceInit /\ StopWaitInit

WinNext ==
  /\ UNCHANGED part
  /\ \/ /\ part = "routes" /\ Next
        /\ UNCHANGED <<plat, sessVars, recVars, serviceVars, stopVars>>
     \/ /\ part = "resolver" /\ SessNext
        /\ UNCHANGED <<vars, recVars, serviceVars, stopVars>>
     \/ /\ part = "recovery" /\ RecNext
        /\ UNCHANGED <<vars, sessVars, serviceVars, stopVars>>
     \/ /\ part = "service" /\ ServiceNext
        /\ UNCHANGED <<vars, plat, sessVars, recVars, stopVars>>
     \/ /\ part = "wait" /\ StopWaitNext
        /\ UNCHANGED <<vars, plat, sessVars, recVars, serviceVars>>

\* The steering thread is scheduled, and the caller that waits for it. The
\* service's own thread, its control handler and its forwarding task run, and
\* the server future ends once it is cancelled. The stop wait runs, the SCM
\* leaves its pending states and a stopped process exits.
WinFairness ==
  /\ WF_sessVars(part = "resolver" /\ (ThreadWakes \/ ThreadExits))
  /\ WF_sessVars(part = "resolver" /\ Withdrawn)
  /\ WF_serviceVars(part = "service" /\ (StartsUp \/ ServerMustEnd \/ Enter \/ TearDown))
  /\ WF_serviceVars(part = "service" /\ Handle)
  /\ WF_serviceVars(part = "service" /\ ForwardCancels)
  /\ WF_stopVars(part = "wait" /\ Waits)
  /\ WF_stopVars(part = "wait" /\ ScmMoves)
  /\ WF_stopVars(part = "wait" /\ StoppedExits)

WinSpec == WinInit /\ [][WinNext]_winVars /\ WinFairness
=============================================================================
