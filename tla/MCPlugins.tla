------------------------------ MODULE MCPlugins ------------------------------
(***************************************************************************)
(* Instances of the plugin modules: a chain of two hops, the first behind  *)
(* a tap, and the bridge's starts and reaps.  They share no variable and   *)
(* are explored side by side: part says which one takes its steps.         *)
(***************************************************************************)
EXTENDS Garter, PluginStart

CONSTANT Parts
VARIABLE part

MCMode == [h \in 1 .. 2 |-> IF h = 1 THEN "sitrep" ELSE "auto"]

Init == part \in Parts /\ ChainInit /\ PluginInit
Next == /\ UNCHANGED part
        /\ \/ part = "chain" /\ ChainNext /\ UNCHANGED startVars
           \/ part = "start" /\ PluginNext /\ UNCHANGED garterVars

\* Garter's ChainFairness, of the part that steps.
PluginFairness ==
  /\ WF_garterVars(part = "chain" /\ RunnerSteps)
  /\ \A h \in Hops : /\ WF_garterVars(part = "chain" /\ HopSteps(h))
                     /\ WF_garterVars(part = "chain" /\ BinSteps(h))
  /\ \A h \in Tapped : WF_garterVars(part = "chain" /\ TapSteps(h))

Spec == Init /\ [][Next]_<<part, garterVars, startVars>> /\ PluginFairness
=============================================================================
