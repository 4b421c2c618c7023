------------------------------ MODULE Routing ------------------------------
(***************************************************************************)
(* Route ownership in crates/tun-engine/src/routing.rs: how a run puts its *)
(* split and bypass routes into the host table, records each of them in    *)
(* bridge-routes.json before and after the command that touches it, and    *)
(* how a stop, a failed install, a later install of the same process and   *)
(* the next start delete exactly what is recorded.                         *)
(*                                                                         *)
(* One bridge runs at a time (it owns the IPC socket before it recovers).  *)
(* A crash may come between any two steps; a command or a write may fail.  *)
(* The record's groups are kept as a function from their identity to the   *)
(* ids they name: two groups of one identity are one group (coalesce), and *)
(* an empty set is no group.                                               *)
(***************************************************************************)
EXTENDS Naturals, Sequences, FiniteSets

CONSTANTS
  Splits,      \* the split routes, in install order
  V6Splits,    \* those of them that are IPv6
  Tuns,        \* TUN device names
  Servers,     \* server addresses
  Loopbacks,   \* those of them that are loopback
  Uplinks,     \* upstream (interface, gateway, route form) triples
  Scoped,      \* TRUE: Windows deletes name the device; FALSE: macOS ones do not
  TunIpv6,     \* what tun_ipv6_available may answer
  SpawnMayRun, \* TRUE: a command that reports a spawn failure may have run
  Leftovers,   \* records an earlier process may have left behind
  MaxCrashes,  \* bound on process crashes
  MaxFaults    \* bound on failed writes, reads and commands

Bypass == "ServerBypass"
SplitSet == {Splits[i] : i \in DOMAIN Splits}
RouteIds == SplitSet \cup {Bypass}

(***************************************************************************)
(* Identities, records and routes.                                         *)
(***************************************************************************)
\* What determines the commands of a group: see state::StaleRecord.
Identities == [tun : Tuns, server : Servers, uplink : Uplinks]

\* planned_routes: no bypass for a loopback server.
Planned(server) ==
  IF server \in Loopbacks THEN SplitSet ELSE SplitSet \cup {Bypass}

\* The install commands, in order: build_setup_commands.
Plan(server) ==
  IF server \in Loopbacks THEN Splits ELSE Append(Splits, Bypass)

\* A host route: splits go through the TUN, the bypass through the uplink.
RouteOf(g, id) ==
  IF id = Bypass
  THEN [id |-> id, dst |-> <<g.server>>, via |-> <<"uplink", g.uplink>>]
  ELSE [id |-> id, dst |-> <<>>, via |-> <<"tun", g.tun>>]

Routes == {RouteOf(g, id) : g \in Identities, id \in RouteIds}

\* What a route occupies in the table: on macOS one entry per prefix, on
\* Windows one per prefix and device.
Slot(r) == IF Scoped THEN r ELSE [r EXCEPT !.via = <<>>]

\* The delete command of a recorded id; two groups may share one.  (A record
\* of schema 1 to 3 has no gateway, and its Windows bypass delete no scope:
\* records here are of the current schema.)
DeleteArgv(g, id) == Slot(RouteOf(g, id))

Slots == {Slot(r) : r \in Routes}

NoStale == [g \in Identities |-> {}]

RouteState ==
  [id : Identities, installed : SUBSET RouteIds, stale : [Identities -> SUBSET RouteIds]]

ASSUME ConstantsOK ==
  /\ Splits \in Seq(STRING)
  /\ Bypass \notin SplitSet
  /\ V6Splits \subseteq SplitSet
  /\ Loopbacks \subseteq Servers
  /\ Scoped \in BOOLEAN
  /\ TunIpv6 \subseteq BOOLEAN /\ TunIpv6 # {}
  /\ SpawnMayRun \in BOOLEAN
  /\ Leftovers \subseteq RouteState
  /\ MaxCrashes \in Nat
  /\ MaxFaults \in Nat

\* What a record names, primary and stale groups together.
Ledger(rec, g) ==
  rec.stale[g] \cup (IF g = rec.id THEN rec.installed ELSE {})

\* state::coalesce: one group per identity, only plannable ids.
Coalesce(rec) ==
  [g \in Identities |-> Ledger(rec, g) \cap Planned(g.server)]

\* recover_groups: a confirmed delete narrows every group of the same argv.
NarrowIds(g, ids, argv) == {id \in ids : DeleteArgv(g, id) # argv}

Narrow(rec, argv) ==
  [rec EXCEPT !.installed = NarrowIds(rec.id, @, argv),
              !.stale = [g \in Identities |-> NarrowIds(g, rec.stale[g], argv)]]

Blank(g) == [id |-> g, installed |-> {}, stale |-> NoStale]

Empty(rec) == rec.installed = {} /\ rec.stale = NoStale

\* The contents of bridge-routes.json when there is no record to act on.
Nothing == [absent |-> TRUE]
Unreadable == [absent |-> FALSE]

VARIABLES
  pc,       \* where the bridge process is
  disk,     \* bridge-routes.json
  mem,      \* `persisted`: the record as this process would write it
  acc,      \* `installed` / `still_installed`: the confirmed ids
  extra,    \* `uncertain`: ids whose install outcome is unknown
  todo,     \* commands of the loop still to run
  pending,  \* groups clear_stale_server_bypass still has to look at
  issued,   \* deletes issued in this recovery or sweep: whose, and which id
  sess,     \* identity of the session being started or running
  ipv6,     \* tun_ipv6_available for that session
  ours,     \* routes this program put into the host table
  theirs,   \* prefixes held by somebody else's route
  crashes, faults

vars == <<pc, disk, mem, acc, extra, todo, pending, issued, sess, ipv6,
          ours, theirs, crashes, faults>>

\* The locals of install_with, teardown_with and the recovery passes.
locals == <<mem, acc, extra, todo, pending, issued>>

\* `ipv6` before an install has asked.
NotAsked == CHOOSE b \in TunIpv6 : TRUE

\* A handler returns, or the process dies: its locals are gone.
Forget ==
  /\ mem' = Blank(sess)
  /\ acc' = {} /\ extra' = {} /\ todo' = <<>> /\ pending' = {} /\ issued' = {}
  /\ ipv6' = NotAsked

Phases == {"down", "boot", "idle", "clear", "ready", "sweep", "setup", "cmd",
           "abort", "rollback", "live", "teardown"}

\* Phases in which `mem` is a record loaded or written by this process.
Holding == {"boot", "clear", "sweep", "setup", "cmd", "abort", "rollback", "live",
            "teardown"}

\* A record accounts for a route when one of its groups would delete it.
Accounts(rec, r) ==
  \E g \in Identities, id \in RouteIds :
    /\ id \in Ledger(rec, g)
    /\ id \in Planned(g.server)
    /\ RouteOf(g, id) = r

\* The routes a file names.
Named(file) ==
  IF file \in {Nothing, Unreadable} THEN {}
  ELSE {r \in Routes : Accounts(file, r)}

\* The first process of a release, or one that follows a crash of another: of
\* the routes on record any may still be in the table, one to a slot.
Init ==
  /\ pc = "down"
  /\ disk \in {Nothing} \cup Leftovers
  /\ sess \in Identities
  /\ mem = Blank(sess)
  /\ acc = {} /\ extra = {} /\ todo = <<>> /\ pending = {} /\ issued = {}
  /\ ipv6 = NotAsked
  /\ ours \in SUBSET Named(disk) /\ theirs = {}
  /\ \A r, q \in ours : Slot(r) = Slot(q) => r = q
  /\ crashes = 0 /\ faults = 0

(***************************************************************************)
(* The record file.  A write is one rename: it lands or leaves the file as *)
(* it was, and it never replaces a record that cannot be read.             *)
(***************************************************************************)
Spend(n) == faults + n <= MaxFaults /\ faults' = faults + n
NoFault == Spend(0)
Fault == Spend(1)

\* state::write with its error only logged, in a step that spent n faults.
WriteLogged(rec, n) ==
  \/ disk # Unreadable /\ disk' = rec /\ Spend(n)
  \/ disk = Unreadable /\ disk' = disk /\ Spend(n)
  \/ disk' = disk /\ Spend(n + 1)

\* state::remove: an unreadable record is Kept.
RemoveLogged == WriteLogged(Nothing, 0)

(***************************************************************************)
(* The route commands.                                                     *)
(***************************************************************************)
HeldSlots == {Slot(r) : r \in ours} \cup theirs

\* The table after a delete of argv.
Deleted(argv) ==
  /\ ours' = {r \in ours : Slot(r) # argv}
  /\ theirs' = theirs \ {argv}

TableKept == UNCHANGED <<ours, theirs>>

\* run_teardown_command.  macOS confirms an absent route too; on Windows only
\* exit 0, a delete that found its route, confirms.
DeleteConfirms(argv) ==
  /\ Scoped => argv \in HeldSlots
  /\ Deleted(argv)

DeleteUnconfirmed(argv) ==
  \/ Scoped /\ argv \notin HeldSlots /\ TableKept
  \/ /\ argv \in HeldSlots \/ ~Scoped
     /\ \/ TableKept
        \/ SpawnMayRun /\ Deleted(argv)

\* Faults an unconfirmed delete spends: none for Windows' missing route.
UnconfirmedCost(argv) == IF Scoped /\ argv \notin HeldSlots THEN 0 ELSE 1


\* issued_split, issued_bypass: the argvs of this pass.
IssuedArgvs == {DeleteArgv(p[1], p[2]) : p \in issued}

Unissued ==
  {p \in Identities \X RouteIds :
     p[2] \in Ledger(mem, p[1]) /\ DeleteArgv(p[1], p[2]) \notin IssuedArgvs}

\* recover_routes_with reads the record; one it cannot read is left alone.
BootRecovery ==
  /\ pc = "down"
  /\ issued' = {}
  /\ \/ /\ disk \in {Nothing, Unreadable}
        /\ pc' = "idle" /\ NoFault
        /\ UNCHANGED mem
     \/ /\ disk \notin {Nothing, Unreadable}
        /\ LET co == Coalesce(disk) IN
             mem' = [id |-> disk.id,
                     installed |-> co[disk.id],
                     stale |-> [co EXCEPT ![disk.id] = {}]]
        /\ pc' = "boot" /\ NoFault
     \/ /\ disk \notin {Nothing, Unreadable}
        /\ pc' = "idle" /\ Fault
        /\ UNCHANGED mem
  /\ UNCHANGED <<disk, acc, extra, todo, pending, sess, ipv6, ours, theirs, crashes>>

\* One command of recover_groups and the checkpoint after it.  A checkpoint
\* that fails, or that a crash preempts, leaves the wider record.
RecoverDelete(g, id) ==
  /\ pc \in {"boot", "sweep"}
  /\ <<g, id>> \in Unissued
  /\ id = Bypass => \A p \in Unissued : p[2] = Bypass
  /\ LET argv == DeleteArgv(g, id) IN
       /\ issued' = issued \cup {<<g, id>>}
       /\ \/ /\ DeleteConfirms(argv)
             /\ mem' = Narrow(mem, argv)
             /\ WriteLogged(mem', 0)
          \/ /\ DeleteUnconfirmed(argv)
             /\ mem' = mem
             /\ WriteLogged(mem, UnconfirmedCost(argv))
  /\ UNCHANGED <<pc, acc, extra, todo, pending, sess, ipv6, crashes>>

\* The end of recover_routes_with: clear the file or keep what is left.
BootRecovered ==
  /\ pc = "boot"
  /\ Unissued = {}
  /\ pc' = "idle"
  /\ IF Empty(mem) THEN RemoveLogged ELSE WriteLogged(mem, 0)
  /\ Forget
  /\ UNCHANGED <<sess, ours, theirs, crashes>>

(***************************************************************************)
(* A start: the gateway query, then the install.                           *)
(***************************************************************************)
\* default_gateway begins: clear_stale_server_bypass loads the record.
DefaultGateway(s) ==
  /\ pc = "idle"
  /\ sess' = s
  /\ \/ /\ disk \in {Nothing, Unreadable}
        /\ pc' = "ready" /\ NoFault
        /\ UNCHANGED <<mem, pending>>
     \/ /\ disk \notin {Nothing, Unreadable}
        /\ mem' = disk
        /\ pending' = {e \in {"primary", "stale"} \X Identities :
                         /\ e[2].server = s.server
                         /\ e[1] = "primary" => e[2] = disk.id}
        /\ pc' = "clear" /\ NoFault
     \/ /\ disk \notin {Nothing, Unreadable}
        /\ pc' = "ready" /\ Fault
        /\ UNCHANGED <<mem, pending>>
  /\ UNCHANGED <<disk, acc, extra, todo, issued, ipv6, ours, theirs, crashes>>

GroupIds(e) == IF e[1] = "primary" THEN mem.installed ELSE mem.stale[e[2]]

WithoutBypass(e) ==
  IF e[1] = "primary" THEN [mem EXCEPT !.installed = @ \ {Bypass}]
                      ELSE [mem EXCEPT !.stale[e[2]] = @ \ {Bypass}]

\* Mutant of ClearBypass: a group without a bypass is looked at again.
ClearBypassStuck(e) ==
  /\ pc = "clear"
  /\ e \in pending
  /\ \/ /\ Bypass \in GroupIds(e) /\ e[2].server \notin Loopbacks
        /\ DeleteConfirms(DeleteArgv(e[2], Bypass)) /\ NoFault
        /\ mem' = WithoutBypass(e)
        /\ pending' = pending \ {e}
        /\ UNCHANGED <<pc, disk, acc, extra, todo, issued, sess, ipv6, crashes>>
     \/ Bypass \notin GroupIds(e) /\ UNCHANGED vars

\* run_stale_bypass_delete for one group, the primary record first.  Only
\* that group is narrowed, and nothing is written until all are done.
ClearBypass(e) ==
  /\ pc = "clear"
  /\ e \in pending
  /\ e[1] = "stale" => \A f \in pending : f[1] = "stale"
  /\ pending' = pending \ {e}
  /\ LET argv == DeleteArgv(e[2], Bypass)
         named == Bypass \in GroupIds(e) /\ e[2].server \notin Loopbacks IN
       \/ /\ ~ named
          /\ TableKept /\ NoFault
          /\ UNCHANGED mem
       \/ /\ named
          /\ DeleteConfirms(argv) /\ NoFault
          /\ mem' = WithoutBypass(e)
       \/ /\ named
          /\ DeleteUnconfirmed(argv)
          /\ Spend(UnconfirmedCost(argv))
          /\ UNCHANGED mem
  /\ UNCHANGED <<pc, disk, acc, extra, todo, issued, sess, ipv6, crashes>>

\* The one write of clear_stale_server_bypass, if anything changed.
BypassCleared ==
  /\ pc = "clear"
  /\ pending = {}
  /\ pc' = "ready"
  /\ IF mem # disk THEN WriteLogged(mem, 0) ELSE UNCHANGED disk /\ NoFault
  /\ Forget
  /\ UNCHANGED <<sess, ours, theirs, crashes>>

\* The start fails before it reaches the routes.
StartAbandoned ==
  /\ pc = "ready"
  /\ pc' = "idle"
  /\ UNCHANGED <<disk, locals, sess, ipv6, ours, theirs, crashes, faults>>

\* Mutant of Install: the old record is not carried into `stale`.
InstallForgetting ==
  /\ pc = "ready"
  /\ disk # Unreadable
  /\ mem' = Blank(sess)
  /\ pc' = "sweep" /\ NoFault
  /\ issued' = {}
  /\ UNCHANGED <<disk, acc, extra, todo, pending, sess, ipv6, ours, theirs, crashes>>

\* install_with up to the sweep's first command: a record that cannot be read
\* refuses the install, one that can is carried into `stale` and written.
Install ==
  /\ pc = "ready"
  /\ issued' = {}
  /\ \/ /\ disk = Nothing
        /\ mem' = Blank(sess)
        /\ pc' = "sweep" /\ NoFault
        /\ UNCHANGED disk
     \/ /\ disk = Unreadable
        /\ pc' = "idle" /\ NoFault
        /\ UNCHANGED <<disk, mem>>
     \/ /\ disk \notin {Nothing, Unreadable}
        /\ mem' = [id |-> sess, installed |-> {}, stale |-> Coalesce(disk)]
        /\ pc' = "sweep"
        /\ IF mem'.stale = NoStale THEN UNCHANGED disk /\ NoFault ELSE WriteLogged(mem', 0)
     \/ /\ disk \notin {Nothing, Unreadable}
        /\ pc' = "idle" /\ Fault
        /\ UNCHANGED <<disk, mem>>
  /\ UNCHANGED <<acc, extra, todo, pending, sess, ipv6, ours, theirs, crashes>>

\* The sweep's last write, and the setup loop's command list.
SweepDone ==
  /\ pc = "sweep"
  /\ Unissued = {}
  /\ IF issued = {} THEN UNCHANGED disk /\ NoFault ELSE WriteLogged(mem, 0)
  /\ acc' = {}
  /\ ipv6' \in TunIpv6
  /\ todo' = Plan(sess.server)
  /\ issued' = {}
  /\ pc' = "setup"
  /\ UNCHANGED <<mem, extra, pending, sess, ours, theirs, crashes>>

(***************************************************************************)
(* run_setup_commands: checkpoint, command, checkpoint, for each route.    *)
(***************************************************************************)
\* Mutant of PreCheckpoint: the command runs before it is recorded.
RecordLater ==
  /\ pc = "setup"
  /\ todo # <<>>
  /\ pc' = "cmd"
  /\ UNCHANGED <<disk, locals, sess, ipv6, ours, theirs, crashes, faults>>

\* The checkpoint before a command; one that fails aborts the install with
\* `persisted` rolled back to what the file holds (checkpoint_installed).
PreCheckpoint ==
  /\ pc = "setup"
  /\ todo # <<>>
  /\ LET rec == [mem EXCEPT !.installed = acc \cup {Head(todo)}] IN
       \/ /\ disk # Unreadable
          /\ disk' = rec /\ mem' = rec
          /\ pc' = "cmd" /\ NoFault
       \/ /\ \/ disk = Unreadable /\ NoFault
             \/ Fault
          /\ pc' = "abort"
          /\ UNCHANGED <<disk, mem>>
  /\ UNCHANGED <<acc, extra, todo, pending, issued, sess, ipv6, ours, theirs, crashes>>

\* A checkpoint after a command that left n faults: when it fails, the file
\* and `persisted` both keep the id of that command.
Narrowed(n) ==
  LET rec == [mem EXCEPT !.installed = acc'] IN
    \/ disk # Unreadable /\ disk' = rec /\ mem' = rec /\ Spend(n)
    \/ disk = Unreadable /\ UNCHANGED <<disk, mem>> /\ Spend(n)
    \/ UNCHANGED <<disk, mem>> /\ Spend(n + 1)

\* SetupCommand::fatal: the IPv6 splits are not, on a TUN without IPv6.
FatalId(id) == id \in V6Splits => ipv6

RouteGoesIn(id) ==
  /\ Slot(RouteOf(sess, id)) \notin HeldSlots
  /\ ours' = ours \cup {RouteOf(sess, id)}

\* The command confirms its route.
SetupConfirmed ==
  /\ pc = "cmd"
  /\ RouteGoesIn(Head(todo))
  /\ acc' = acc \cup {Head(todo)}
  /\ Narrowed(0)
  /\ todo' = Tail(todo)
  /\ pc' = "setup"
  /\ UNCHANGED <<extra, pending, issued, sess, ipv6, theirs, crashes>>

\* Mutant of SetupExit: macOS's exit 0 is believed although the add was refused.
ExitZeroBelieved ==
  /\ pc = "cmd"
  /\ acc' = acc \cup {Head(todo)}
  /\ Narrowed(IF Slot(RouteOf(sess, Head(todo))) \in HeldSlots THEN 0 ELSE 1)
  /\ pc' = "setup"
  /\ todo' = Tail(todo)
  /\ UNCHANGED <<extra, pending, issued, sess, ipv6, ours, theirs, crashes>>

\* The command ran and the host said no: CommandFailure::Exit.  A slot that
\* is taken, or an IPv6 route on a TUN without IPv6, is no fault.  A command
\* that a signal killed is an Exit too (-1), and is taken to have been killed
\* before it reached the table: the code narrows its record on that ground.
SetupExit ==
  /\ pc = "cmd"
  /\ LET id == Head(todo)
         cost == IF Slot(RouteOf(sess, id)) \in HeldSlots \/ ~FatalId(id) THEN 0 ELSE 1 IN
       /\ acc' = acc
       /\ Narrowed(cost)
       /\ pc' = IF FatalId(id) THEN "abort" ELSE "setup"
       /\ todo' = IF FatalId(id) THEN todo ELSE Tail(todo)
  /\ UNCHANGED <<extra, pending, issued, sess, ipv6, ours, theirs, crashes>>

\* The command could not be run or waited for: CommandFailure::Spawn.  Only a
\* fatal one leaves the record as the checkpoint before it wrote it.
SetupSpawn ==
  /\ pc = "cmd"
  /\ LET id == Head(todo) IN
       /\ \/ UNCHANGED ours
          \/ SpawnMayRun /\ RouteGoesIn(id)
       /\ acc' = acc
       /\ IF FatalId(id)
          THEN /\ Fault /\ pc' = "abort"
               /\ UNCHANGED <<disk, mem, todo>>
          ELSE /\ Narrowed(1) /\ pc' = "setup"
               /\ todo' = Tail(todo)
  /\ UNCHANGED <<extra, pending, issued, sess, ipv6, theirs, crashes>>

\* Every command ran: up only if every planned route was confirmed.
SetupDone ==
  /\ pc = "setup"
  /\ todo = <<>>
  /\ pc' = IF acc = Planned(sess.server) THEN "live" ELSE "abort"
  /\ UNCHANGED <<disk, locals, sess, ipv6, ours, theirs, crashes, faults>>

\* rollback_and_record begins: what is confirmed, and what is uncertain, is
\* on disk before the first delete.
BeginRollback ==
  /\ pc = "abort"
  /\ extra' = mem.installed \ acc
  /\ mem' = [mem EXCEPT !.installed = acc \cup extra']
  /\ WriteLogged(mem', 0)
  /\ todo' = Plan(sess.server)
  /\ pc' = "rollback"
  /\ UNCHANGED <<acc, pending, issued, sess, ipv6, ours, theirs, crashes>>

\* The session stops: SystemRoutes::drop.
Stop ==
  /\ pc = "live"
  /\ extra' = {}
  /\ mem' = [mem EXCEPT !.installed = acc]
  /\ todo' = Plan(sess.server)
  /\ pc' = "teardown"
  /\ UNCHANGED <<disk, acc, pending, issued, sess, ipv6, ours, theirs, crashes, faults>>

\* Mutant of UndoRoute: a delete that does not confirm narrows the record too.
UndoUnconfirmed ==
  /\ pc \in {"rollback", "teardown"}
  /\ todo # <<>>
  /\ todo' = Tail(todo)
  /\ acc' = acc \ {Head(todo)}
  /\ mem' = [mem EXCEPT !.installed = acc' \cup extra]
  /\ WriteLogged(mem', 0)
  /\ UNCHANGED <<pc, extra, pending, issued, sess, ipv6, crashes, ours, theirs>>

\* One iteration of run_teardown_commands over the confirmed ids.
UndoRoute ==
  /\ pc \in {"rollback", "teardown"}
  /\ todo # <<>>
  /\ todo' = Tail(todo)
  /\ LET id == Head(todo)
         argv == DeleteArgv(sess, id) IN
       \/ /\ id \notin acc
          /\ UNCHANGED <<disk, mem, acc, ours, theirs, faults>>
       \/ /\ id \in acc
          /\ DeleteConfirms(argv)
          /\ acc' = acc \ {id}
          /\ mem' = [mem EXCEPT !.installed = acc' \cup extra]
          /\ WriteLogged(mem', 0)
       \/ /\ id \in acc
          /\ DeleteUnconfirmed(argv)
          /\ acc' = acc /\ mem' = mem
          /\ WriteLogged(mem, UnconfirmedCost(argv))
  /\ UNCHANGED <<pc, extra, pending, issued, sess, ipv6, crashes>>

ViaTun(t) == {r \in Routes : r.via = <<"tun", t>>}

\* Mutant of UndoDone: the file is never cleared.
UndoKeepsFile ==
  /\ pc \in {"rollback", "teardown"}
  /\ todo = <<>>
  /\ WriteLogged(mem, 0)
  /\ pc' = "idle"
  /\ Forget
  /\ UNCHANGED <<sess, theirs, crashes, ours>>

\* After the loop: clear the file, or leave what remains recorded.  A stop
\* on Windows ends with remove_adapter, which takes the TUN's routes along.
UndoDone ==
  /\ pc \in {"rollback", "teardown"}
  /\ todo = <<>>
  /\ IF Empty(mem) THEN RemoveLogged
     ELSE IF pc = "rollback" THEN WriteLogged(mem, 0)
     ELSE UNCHANGED disk /\ NoFault
  /\ \/ UNCHANGED ours
     \/ pc = "teardown" /\ Scoped /\ ours' = ours \ ViaTun(sess.tun)
  /\ pc' = "idle"
  /\ Forget
  /\ UNCHANGED <<sess, theirs, crashes>>

(***************************************************************************)
(* The environment.                                                        *)
(***************************************************************************)
Crash ==
  /\ pc # "down"
  /\ crashes < MaxCrashes
  /\ crashes' = crashes + 1
  /\ pc' = "down"
  /\ Forget
  /\ UNCHANGED <<disk, sess, ours, theirs, faults>>

\* A TUN that no running session holds open takes its routes with it.
TunVanishes(t) ==
  /\ pc \in {"sweep", "setup", "cmd", "abort", "rollback", "live"} => t # sess.tun
  /\ ours \cap ViaTun(t) # {}
  /\ ours' = ours \ ViaTun(t)
  /\ UNCHANGED <<pc, disk, locals, sess, ipv6, theirs, crashes, faults>>

\* Another VPN takes or gives up a prefix (macOS: one route per prefix).
ForeignClaims(s) ==
  /\ ~Scoped
  /\ s \in Slots \ HeldSlots
  /\ theirs' = theirs \cup {s}
  /\ UNCHANGED <<pc, disk, locals, sess, ipv6, ours, crashes, faults>>

\* The record is damaged, or was written by a newer release.
RecordUnreadable ==
  /\ disk \notin {Nothing, Unreadable}
  /\ disk' = Unreadable
  /\ Fault
  /\ UNCHANGED <<pc, locals, sess, ipv6, ours, theirs, crashes>>

Progress ==
  \/ BootRecovery \/ BootRecovered
  \/ \E g \in Identities, id \in RouteIds : RecoverDelete(g, id)
  \/ \E e \in pending : ClearBypass(e)
  \/ BypassCleared \/ Install \/ SweepDone
  \/ PreCheckpoint \/ SetupConfirmed \/ SetupExit \/ SetupSpawn \/ SetupDone
  \/ BeginRollback \/ UndoRoute \/ UndoDone

Environment ==
  \/ Crash \/ RecordUnreadable \/ StartAbandoned \/ Stop
  \/ \E s \in Identities : DefaultGateway(s)
  \/ \E t \in Tuns : TunVanishes(t)
  \/ \E s \in Slots : ForeignClaims(s)

Next == Progress \/ Environment

Spec == Init /\ [][Next]_vars /\ WF_vars(Progress)

(***************************************************************************)
(* Properties.                                                             *)
(***************************************************************************)
\* Every variable has its type.
TypeOK ==
  /\ pc \in Phases
  /\ disk \in RouteState \cup {Nothing, Unreadable}
  /\ mem \in RouteState
  /\ acc \subseteq RouteIds
  /\ extra \subseteq RouteIds
  /\ todo \in Seq(RouteIds)
  /\ pending \subseteq {"primary", "stale"} \X Identities
  /\ issued \subseteq Identities \X RouteIds
  /\ sess \in Identities
  /\ ipv6 \in TunIpv6
  /\ ours \subseteq Routes
  /\ theirs \subseteq Slots
  /\ crashes \in 0..MaxCrashes
  /\ faults \in 0..MaxFaults

\* Every route this program ever put into the host table and that is still
\* there is named by bridge-routes.json, whatever crashed or failed in
\* between, so the next start deletes it.  (A record nobody can read is kept
\* as it is: see RecordUnreadable.)
RecordCoversTable ==
  disk # Unreadable =>
    \A r \in ours : disk # Nothing /\ Accounts(disk, r)

\* install_with reports a tunnel only with every planned route in the table,
\* never a partial capture.
SessionFullyRouted ==
  pc = "live" => {RouteOf(sess, id) : id \in Planned(sess.server)} \subseteq ours

\* With no failed command or write, crashes or not, a bridge at rest on macOS
\* has neither routes nor a record left: recovery and teardown drain it all.
NoFaultNoDebt ==
  pc = "idle" /\ faults = 0 /\ ~Scoped => ours = {} /\ disk = Nothing

\* A pass ends all or nothing: a session has every planned route, and a rest
\* without faults neither routes nor a record (install_with, teardown_with,
\* recover_routes).
AllOrNothing == SessionFullyRouted /\ NoFaultNoDebt

\* A recovery, a start, an install and a stop that began end ready, up, at
\* rest, or with the process gone: no clear, sweep, setup, rollback or teardown
\* loop runs forever.
PassesEnd ==
  pc \in {"boot", "clear", "sweep", "teardown"} ~> pc \in {"ready", "live", "idle", "down"}

(***************************************************************************)
(* The inductive invariant behind RecordCoversTable.  `mem` is what every  *)
(* handler writes next, so it has to account for the table too, and while  *)
(* routes go in it has to do so with the confirmed ids alone, because a    *)
(* command that is refused narrows the record to those.                    *)
(***************************************************************************)
\* The record as it is once only confirmed ids are left in it.
ConfirmedOnly == [mem EXCEPT !.installed = acc]

\* What the file and each handler's `persisted` have to name, per phase, for
\* the record to keep covering the host table across every step.
IndInv ==
  /\ TypeOK
  /\ RecordCoversTable
  /\ pc \in Holding => \A r \in ours : Accounts(mem, r)
  /\ pc \in {"sweep", "setup", "cmd", "abort", "rollback", "live", "teardown"} =>
       mem.id = sess
  /\ pc \in {"setup", "cmd"} =>
       /\ \A r \in ours : Accounts(ConfirmedOnly, r)
       /\ acc \subseteq mem.installed
       /\ todo \in Seq(Planned(sess.server))
  /\ pc = "sweep" => mem.installed = {}
  /\ pc = "cmd" =>
       /\ todo # <<>>
       /\ Head(todo) \in mem.installed
       /\ disk \in {mem, Unreadable}
  /\ pc = "live" => acc = Planned(sess.server)
  /\ pc \in {"rollback", "teardown"} => mem.installed = acc \cup extra
  /\ pc = "clear" => \A e \in pending : e[1] = "primary" => e[2] = mem.id

(***************************************************************************)
(* The inductive invariant behind AllOrNothing.                            *)
(* A rest owes nothing after a pass without faults because no step of that *)
(* pass leaves a debt behind, so the phases between have to say which one  *)
(* they still hold: nothing but what the loop has yet to delete.           *)
(***************************************************************************)
\* What a macOS bridge without a fault owes, per phase.
NoDebtBetween ==
  /\ disk # Unreadable
  /\ pc # "clear"
  /\ pc \in {"idle", "ready"} => disk = Nothing
  /\ pc \in {"boot", "sweep"} =>
       \A g \in Identities : \A id \in Ledger(mem, g) :
         DeleteArgv(g, id) \notin IssuedArgvs
  /\ pc \in {"sweep", "setup", "cmd", "abort", "rollback", "live", "teardown"} =>
       mem.stale = NoStale
  /\ pc \in {"setup", "abort"} => mem.installed = acc
  /\ pc \in {"rollback", "teardown"} =>
       /\ extra = {}
       /\ acc \subseteq {todo[i] : i \in DOMAIN todo}

\* What is confirmed is planned and in the table while routes go in, and a
\* delete counts as issued only within the pass that issued it.
PassInv ==
  /\ pc \notin {"boot", "sweep"} => issued = {}
  /\ pc \in {"setup", "cmd", "abort", "live"} => acc \subseteq Planned(sess.server)
  /\ pc \in {"setup", "cmd", "live"} => \A id \in acc : RouteOf(sess, id) \in ours
  /\ ~Scoped /\ faults = 0 => NoDebtBetween

\* Both invariants together, as they are checked and proved.
RouteInv == IndInv /\ PassInv

=============================================================================
