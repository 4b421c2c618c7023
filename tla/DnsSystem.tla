------------------------------ MODULE DnsSystem ------------------------------
(***************************************************************************)
(* The operating system's DNS configuration: applied for a session         *)
(* (crates/bridge/src/dns/system.rs with the Windows filter confinement of *)
(* tun-engine dns_confine and the macOS steering thread of dns_steer), and *)
(* the once-only sweep that undoes what an older build left behind after a *)
(* crash (dns/recovery.rs, dns_state.rs).                                  *)
(*                                                                         *)
(* Two state machines sharing the platform.  A resolver list is abstracted *)
(* per address family to who chose it.                                     *)
(***************************************************************************)
EXTENDS Naturals, Sequences, FiniteSets

CONSTANTS MaxOldRuns     \* crashed sessions of an older build

ASSUME DnsSystemAssumption == MaxOldRuns \in Nat

Families == {"v4", "v6"}
VARIABLE plat
Platforms == {"windows", "macos"}

-----------------------------------------------------------------------------
(* The confinement's filters                                               *)

Filter(name, fam, action, weight) == [name |-> name, fam |-> fam, action |-> action, weight |-> weight]

MutBuildSpec(serverFam) ==
    (UNION {{Filter("tun", f, "permit", 15), Filter("loopback", f, "permit", 15),
             Filter("any", f, "block", 15)} : f \in Families})
    \cup {Filter("server", serverFam, "permit", 15)}

(* build_spec; the filters of the two transports are alike.                 *)
BuildSpec(serverFam) ==
    (UNION {{Filter("tun", f, "permit", 15), Filter("loopback", f, "permit", 15),
             Filter("any", f, "block", 0)} : f \in Families})
    \cup {Filter("server", serverFam, "permit", 15)}

(* A connection attempt: its family, port class, interface and destination. *)
Packets == [fam : Families, dns : BOOLEAN, iface : {"tun", "other"},
            dest : {"server", "loopback", "resolver"}]

(* The conditions of a filter, all of which must hold.                      *)
Matches(f, p) ==
    /\ f.fam = p.fam
    /\ f.name # "server" => p.dns
    /\ f.name = "tun" => p.iface = "tun"
    /\ f.name = "loopback" => p.dest = "loopback"
    /\ f.name = "server" => p.dest = "server"

(* The platform arbitrates by weight; a permit and a block of one weight    *)
(* are settled for the block.                                               *)
Blocked(filters, p) ==
    LET hit == {f \in filters : Matches(f, p)}
        top == {f \in hit : \A g \in hit : g.weight <= f.weight}
    IN  \E f \in top : f.action = "block"

-----------------------------------------------------------------------------
(* A session                                                               *)

VARIABLES
    step,       \* where apply is: "idle", "engage", "engaged", "set4", "set6", "flush",
                \*   "applied", "withdraw", "ended"
    goal,       \* what the step "withdraw" ends in
    cancel,     \* the start's cancel token
    adv,        \* families of the configured resolvers
    routed,     \* families the tunnel carries
    srvFam,     \* the server's family
    filters,    \* Windows: the filters of the open dynamic session
    pointed,    \* Windows: families of the tunnel adapter set to our resolvers
    key,        \* macOS: the families published at the steering key
    thread,     \* macOS: the store thread: "none", "opening", "waiting", "exiting", "gone"
    cmd         \* macOS: the command channel: "open", "withdraw", "closed"

sessVars == <<step, goal, cancel, adv, routed, srvFam, filters, pointed, key, thread, cmd>>

SessInit ==
    /\ step = "idle" /\ goal = "none" /\ cancel = FALSE
    /\ adv \in (SUBSET Families) \ {{}} /\ routed \in SUBSET Families
    /\ srvFam \in Families
    /\ filters = {} /\ pointed = {} /\ key = {} /\ thread = "none" /\ cmd = "open"

SessConst == UNCHANGED <<adv, routed, srvFam, plat>>

CancelApply ==
    /\ ~cancel /\ step \notin {"applied", "withdraw", "ended"}
    /\ cancel' = TRUE
    /\ UNCHANGED <<step, goal, filters, pointed, key, thread, cmd>> /\ SessConst

(* apply: the token is looked at first; on macOS a configuration none of    *)
(* whose families is routed is refused.                                     *)
Apply ==
    /\ step = "idle"
    /\ step' = IF cancel \/ (plat = "macos" /\ adv \cap routed = {}) THEN "ended" ELSE "engage"
    /\ thread' = IF step' = "engage" /\ plat = "macos" THEN "opening" ELSE thread
    /\ UNCHANGED <<goal, cancel, filters, pointed, key, cmd>> /\ SessConst

(* Windows: one transaction, all of it or none.                             *)
Confine ==
    /\ step = "engage" /\ plat = "windows"
    /\ \/ filters' = BuildSpec(srvFam) /\ step' = "engaged"
       \/ step' = "ended" /\ UNCHANGED filters
    /\ UNCHANGED <<goal, cancel, pointed, key, thread, cmd>> /\ SessConst

(* macOS: the thread opens the store and publishes; engage returns when it  *)
(* says so.  A failure leaves nothing published and the thread gone.        *)
ThreadPublishes ==
    /\ thread = "opening"
    /\ \/ key' = adv \cap routed /\ thread' = "waiting" /\ step' = "engaged"
       \/ thread' = "gone" /\ step' = "ended" /\ UNCHANGED key
    /\ UNCHANGED <<goal, cancel, filters, pointed, cmd>> /\ SessConst

(* After the engage the token is looked at again: the confinement is        *)
(* dropped, the steering withdrawn.                                         *)
AfterEngage ==
    /\ step = "engaged"
    /\ IF cancel
       THEN IF plat = "windows"
            THEN step' = "ended" /\ filters' = {} /\ UNCHANGED <<goal, cmd>>
            ELSE step' = "withdraw" /\ goal' = "ended" /\ cmd' = "withdraw" /\ UNCHANGED filters
       ELSE /\ step' = (IF plat = "windows" THEN "set4" ELSE "flush")
            /\ UNCHANGED <<goal, cmd, filters>>
    /\ UNCHANGED <<cancel, pointed, key, thread>> /\ SessConst

(* set_servers: one family after the other, an empty one left alone; a      *)
(* failure is the apply's, and drops the confinement.                       *)
Point(fam, then) ==
    \/ /\ pointed' = pointed \cup ({fam} \cap adv) /\ step' = then
       /\ UNCHANGED filters
    \/ /\ fam \in adv
       /\ step' = "ended" /\ filters' = {} /\ UNCHANGED pointed

SetServers ==
    /\ \/ step = "set4" /\ Point("v4", "set6")
       \/ step = "set6" /\ Point("v6", "flush")
    /\ UNCHANGED <<goal, cancel, key, thread, cmd>> /\ SessConst

(* The flush is best effort: it decides nothing.                            *)
FlushAfterApply ==
    /\ step = "flush" /\ step' = "applied"
    /\ UNCHANGED <<goal, cancel, filters, pointed, key, thread, cmd>> /\ SessConst

(* shutdown: the guard is taken, then the cache flushed.                    *)
ShutdownDns ==
    /\ step = "applied"
    /\ IF plat = "windows"
       THEN step' = "ended" /\ filters' = {} /\ UNCHANGED <<goal, cmd>>
       ELSE step' = "withdraw" /\ goal' = "ended" /\ cmd' = "withdraw" /\ UNCHANGED filters
    /\ UNCHANGED <<cancel, pointed, key, thread>> /\ SessConst

(* A start that fails later, or unwinds, drops the guard: the command       *)
(* channel closes and nobody waits for the thread.                          *)
DropApplied ==
    /\ step = "applied"
    /\ step' = "ended"
    /\ filters' = {} /\ cmd' = (IF plat = "macos" THEN "closed" ELSE cmd)
    /\ UNCHANGED <<goal, cancel, pointed, key, thread>> /\ SessConst

MutThreadWakes ==
    /\ thread = "waiting" /\ cmd = "withdraw"
    /\ thread' = "exiting" /\ (key' = {} \/ key' = key)
    /\ UNCHANGED <<step, goal, cancel, filters, pointed, cmd>> /\ SessConst

(* The thread wakes on a command or on the channel closing and removes the  *)
(* key; the removal may fail.                                               *)
ThreadWakes ==
    /\ thread = "waiting" /\ cmd # "open"
    /\ thread' = "exiting" /\ (key' = {} \/ key' = key)
    /\ UNCHANGED <<step, goal, cancel, filters, pointed, cmd>> /\ SessConst

(* Returning closes the store session, and a session key goes with it.      *)
ThreadExits ==
    /\ thread = "exiting"
    /\ thread' = "gone" /\ key' = {}
    /\ UNCHANGED <<step, goal, cancel, filters, pointed, cmd>> /\ SessConst

(* withdraw returns on the thread's answer.                                 *)
Withdrawn ==
    /\ step = "withdraw" /\ thread \in {"exiting", "gone"}
    /\ step' = goal
    /\ UNCHANGED <<goal, cancel, filters, pointed, key, thread, cmd>> /\ SessConst

SessNext ==
    \/ CancelApply \/ Apply \/ Confine \/ ThreadPublishes \/ AfterEngage \/ SetServers
    \/ FlushAfterApply \/ ShutdownDns \/ DropApplied \/ ThreadWakes \/ ThreadExits \/ Withdrawn

(* The store thread is an OS thread; the apply and the shutdown are driven  *)
(* by tasks the runtime polls.                                              *)
SessFairness == WF_sessVars(ThreadWakes) /\ WF_sessVars(ThreadExits) /\ WF_sessVars(Withdrawn)

-----------------------------------------------------------------------------
(* The recovery sweep                                                      *)

VARIABLES
    live,       \* per family: "empty", "user" or "ours", an older build's resolvers
    file,       \* the record at its name: [adv, prior], or NoFile
    archive,    \* superseded records, oldest name first
    sweep,      \* "none", "v4", "v6", "finish"
    outcome,    \* per family: the FamilyOutcome
    oldRuns     \* sessions an older build crashed in

recVars == <<live, file, archive, sweep, outcome, oldRuns>>

NoFile == [adv |-> {}, prior |-> [f \in {} |-> "empty"]]

(* get_settings: what an empty list of a family reads as.  macOS has one    *)
(* list, so the other family tells an unset list from one of the other kind.*)
Reading(f) ==
    CASE live[f] # "empty" -> live[f]
      [] live[f] = "empty" /\ plat = "windows" -> IF f = "v4" THEN "dhcp" ELSE "none"
      [] OTHER -> IF \A g \in Families : live[g] = "empty" THEN "dhcp" ELSE "none"

RecInit ==
    /\ live \in [Families -> {"empty", "user"}]
    /\ file = NoFile /\ archive = <<>> /\ sweep = "none"
    /\ outcome = [f \in Families |-> "none"] /\ oldRuns = 0

(* External: an older build captured the adapter's settings, pointed the    *)
(* families of its resolvers at itself, and died.                           *)
OldBuildCrashes ==
    /\ sweep = "none" /\ file = NoFile /\ oldRuns < MaxOldRuns
    /\ \E mine \in (SUBSET Families) \ {{}}, told \in BOOLEAN :
        /\ file' = [adv |-> IF told THEN mine ELSE {}, prior |-> [f \in Families |-> Reading(f)]]
        /\ live' = [f \in Families |-> IF f \in mine THEN "ours" ELSE live[f]]
    /\ oldRuns' = oldRuns + 1
    /\ UNCHANGED <<archive, sweep, outcome, plat>>

(* The user, or another program, changes the adapter between sweeps.        *)
UserSets ==
    /\ sweep = "none"
    /\ \E f \in Families, to \in {"empty", "user"} : live' = [live EXCEPT ![f] = to]
    /\ UNCHANGED <<file, archive, sweep, outcome, oldRuns, plat>>

SweepBegins ==
    /\ sweep = "none" /\ file # NoFile
    /\ sweep' = "v4" /\ outcome' = [f \in Families |-> "none"]
    /\ UNCHANGED <<live, file, archive, oldRuns, plat>>

AsLive(prior) == IF prior \in {"dhcp", "none"} THEN "empty" ELSE prior

(* restore_family_if_ours: evidence, a read that may fail or find no such   *)
(* adapter, the comparison, and the write of this family alone, which may   *)
(* fail.                                                                    *)
RestoreFamily(f) ==
    \/ /\ f \notin file.adv
       /\ outcome' = [outcome EXCEPT ![f] = "no_evidence"] /\ UNCHANGED live
    \/ /\ f \in file.adv
       /\ \E out \in {"failed", "not_ours"} : outcome' = [outcome EXCEPT ![f] = out]
       /\ UNCHANGED live
    \/ /\ f \in file.adv /\ live[f] = "ours"
       /\ live' = [live EXCEPT ![f] = AsLive(file.prior[f])]
       /\ outcome' = [outcome EXCEPT ![f] =
                         IF file.prior[f] = "ours" THEN "already" ELSE "restored"]

SweepFamily ==
    /\ sweep \in Families
    /\ RestoreFamily(sweep)
    /\ sweep' = IF sweep = "v4" THEN "v6" ELSE "finish"
    /\ UNCHANGED <<file, archive, oldRuns, plat>>

MutSettled(f) == outcome[f] # "not_ours"

Settled(f) ==
    \/ outcome[f] \in {"restored", "already"}
    \/ outcome[f] = "no_evidence" /\ file.adv # {}

MutSupersede == archive' = <<file>> /\ file' = NoFile

(* supersede: the first free archive name, never one that is taken.         *)
Supersede == archive' = Append(archive, file) /\ file' = NoFile

(* finish: the record is deleted when every family settled; otherwise, or   *)
(* if the deletion fails, it is archived, which may fail too.               *)
SweepFinish ==
    /\ sweep = "finish" /\ sweep' = "none"
    /\ \/ /\ \A f \in Families : Settled(f)
          /\ file' = NoFile /\ UNCHANGED archive
       \/ Supersede
       \/ UNCHANGED <<file, archive>>
    /\ UNCHANGED <<live, outcome, oldRuns, plat>>

BridgeDies ==
    /\ sweep # "none" /\ sweep' = "none"
    /\ UNCHANGED <<live, file, archive, outcome, oldRuns, plat>>

RecNext ==
    \/ OldBuildCrashes \/ UserSets \/ SweepBegins \/ SweepFamily \/ SweepFinish \/ BridgeDies

(* The session and the sweep, on one platform.                              *)
DnsSpec ==
    /\ plat \in Platforms
    /\ SessInit /\ [][SessNext]_<<sessVars, plat>>
    /\ RecInit /\ [][RecNext]_<<recVars, plat>>

-----------------------------------------------------------------------------
(* Properties                                                              *)

(* From the moment the tunnel's adapter is pointed at our resolvers until   *)
(* the guard is given up, no DNS connection leaves outside the tunnel       *)
(* except to the server or to loopback, and nothing else is blocked; on     *)
(* macOS an applied session publishes exactly the routed families, and at   *)
(* least one (dns/system.rs apply_windows, apply_macos, dns_confine         *)
(* build_spec).                                                             *)
DnsStaysInside ==
    /\ step \in {"set6", "flush", "applied"} /\ plat = "windows" =>
           \A p \in Packets :
               Blocked(filters, p) <=>
                   /\ p.dns /\ p.iface # "tun" /\ p.dest # "loopback"
                   /\ ~(p.dest = "server" /\ p.fam = srvFam)
    /\ step = "applied" /\ plat = "windows" => pointed = adv
    /\ step = "applied" /\ plat = "macos" => key = adv \cap routed /\ key # {}

(* Once a session's guard is gone, shut down or merely dropped, the         *)
(* steering key is eventually unpublished, even when removing it fails      *)
(* (dns_steer store_thread_main).                                           *)
SteeringWithdrawn == (step = "ended") ~> (key = {})

(* While a family still holds an older build's resolvers, some record on    *)
(* disk, the live one or an archived one, knows what it held before that    *)
(* build: neither a failed restore, a crash in the sweep nor a second crash *)
(* of the older build loses the way back (recovery.rs finish, dns_state.rs  *)
(* supersede).                                                              *)
TruePriorKept ==
    \A f \in Families : live[f] = "ours" =>
        \/ file # NoFile /\ file.prior[f] # "ours"
        \/ \E i \in DOMAIN archive : archive[i].prior[f] # "ours"

(* The system's resolver settings are never ours to lose: while they are    *)
(* pointed at us queries stay inside, and while an older build's are in     *)
(* place the way back is on disk (apply, recover_dns_config).               *)
ResolverKept == DnsStaysInside /\ TruePriorKept
=============================================================================
