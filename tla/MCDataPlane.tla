---------------------------- MODULE MCDataPlane -----------------------------
(***************************************************************************)
(* Instances of the data plane: the TUN engine, the router with its UDP    *)
(* relay and the dispatcher, the resolver with the start's gate and the    *)
(* bootstrap, galoshes' client and server, and the Windows filters that    *)
(* fence it all.  They share no variable and are explored side by side:    *)
(* part says which one takes its steps.                                    *)
(***************************************************************************)
EXTENDS TunEngine, HoleRouter, DnsForward, Galoshes, WfpCover

CONSTANT Parts
VARIABLE part

planeVars == <<part, tunVars, routerVars, relayVars, dispVars, fwdVars, bootVars, clientVars, serverVars, wfpVars>>

\* A part that does not step keeps one of its initial states.
PlaneInit ==
  /\ part \in Parts
  /\ part # "router" => rules = <<>> /\ flow = CHOOSE f \in Flows : TRUE
  /\ part # "gate" => /\ protocol = "udp" /\ v6Ok = TRUE /\ family = <<"v4">>
                      /\ transport = "raw" /\ reach = [at |-> "absent", saw |-> FALSE, verdict |-> "none"]
  /\ part # "bootstrap" => allow = TRUE
  /\ TunInit /\ RouterInit /\ RelayInit /\ DispInit /\ FwdInit /\ BootInit
  /\ GaloshesInit /\ ServerInit /\ WfpInit

PlaneNext ==
  /\ UNCHANGED part
  /\ \/ /\ part = "engine" /\ TunNext
        /\ UNCHANGED <<routerVars, relayVars, dispVars, fwdVars, bootVars, clientVars, serverVars, wfpVars>>
     \/ /\ part = "router" /\ RouterNext
        /\ UNCHANGED <<tunVars, relayVars, dispVars, fwdVars, bootVars, clientVars, serverVars, wfpVars>>
     \/ /\ part = "relay" /\ RelayNext
        /\ UNCHANGED <<tunVars, routerVars, dispVars, fwdVars, bootVars, clientVars, serverVars, wfpVars>>
     \/ /\ part = "dispatcher" /\ DispNext
        /\ UNCHANGED <<tunVars, routerVars, relayVars, fwdVars, bootVars, clientVars, serverVars, wfpVars>>
     \/ /\ part = "gate" /\ FwdNext
        /\ UNCHANGED <<tunVars, routerVars, relayVars, dispVars, bootVars, clientVars, serverVars, wfpVars>>
     \/ /\ part = "bootstrap" /\ BootNext
        /\ UNCHANGED <<tunVars, routerVars, relayVars, dispVars, fwdVars, clientVars, serverVars, wfpVars>>
     \/ /\ part = "client" /\ GaloshesNext
        /\ UNCHANGED <<tunVars, routerVars, relayVars, dispVars, fwdVars, bootVars, serverVars, wfpVars>>
     \/ /\ part = "server" /\ ServerNext
        /\ UNCHANGED <<tunVars, routerVars, relayVars, dispVars, fwdVars, bootVars, clientVars, wfpVars>>
     \/ /\ part = "filters" /\ WfpNext
        /\ UNCHANGED <<tunVars, routerVars, relayVars, dispVars, fwdVars, bootVars, clientVars, serverVars>>

\* The engine's driver and tasks are polled, and so is the relay's.
PlaneFairness ==
  /\ WF_tunVars(part = "engine" /\ DriverCancels)
  /\ WF_driver(part = "engine" /\ DriverSettles)
  /\ WF_tunVars(part = "engine" /\ TaskCancels)
  /\ WF_relayVars(part = "relay" /\ ForwardEnds)

PlaneSpec == PlaneInit /\ [][PlaneNext]_planeVars /\ PlaneFairness
=============================================================================
