---------------------------- MODULE ChainPromise ----------------------------
(***************************************************************************)
(* What a plugin chain promises the bridge, whatever its hops are made of: *)
(* one verdict; a ready chain has every hop up, each started when the one  *)
(* it forwards to was up; a chain that is not coming up says so only when  *)
(* its children are down, so that the caller may start the next one on the *)
(* same port and reap what is recorded.  A child the system refused to     *)
(* kill, or one whose kill is under way, is owed and not live.             *)
(***************************************************************************)
EXTENDS Naturals

CONSTANTS Count        \* how many hops

VARIABLES phase,       \* "starting", "up", "ending", "over", or "dropped" by the caller
          told,        \* the verdict the caller has
          upto,        \* hops 1 .. upto reported ready
          live         \* the hops with a live child that is not owed

promiseVars == <<phase, told, upto, live>>

PromiseInit == phase = "starting" /\ told = "none" /\ upto = 0 /\ live = {}

\* A child is started for the next hop only; a hop that is up is never restarted.
Spawn == /\ phase \in {"starting", "ending", "dropped"} /\ upto + 1 \in 1 .. Count
         /\ live' = live \cup {upto + 1}
         /\ UNCHANGED <<phase, told, upto>>
Die == /\ \E h \in live : live' = live \ {h}
       /\ UNCHANGED <<phase, told, upto>>
HopUp == /\ phase = "starting" /\ upto < Count
         /\ upto' = upto + 1
         /\ IF upto' = Count THEN phase' = "up" /\ told' = "ready" ELSE UNCHANGED <<phase, told>>
         /\ UNCHANGED live
End == /\ phase \in {"starting", "up"} /\ phase' = "ending"
       /\ UNCHANGED <<told, upto, live>>
Over == /\ phase = "ending" /\ live = {} /\ phase' = "over"
        /\ IF told = "ready" THEN UNCHANGED told ELSE told' \in {"conflict", "fatal", "closed"}
        /\ UNCHANGED <<upto, live>>
\* The caller drops the chain: all its children are dropped with it, some at once.
Drop == /\ phase \in {"starting", "up", "ending"} /\ phase' = "dropped"
        /\ live' \subseteq live /\ UNCHANGED <<told, upto>>

PromiseNext == Spawn \/ Die \/ HopUp \/ End \/ Over \/ Drop
PromiseSpec == PromiseInit /\ [][PromiseNext]_promiseVars
=============================================================================
