--------------------------- MODULE RoutingProofs ----------------------------
(***************************************************************************)
(* The record covers the host table, a pass of the route code ends all or  *)
(* nothing, and its deletes reach no prefix of somebody else's but one the *)
(* record names: for every set of devices, servers and uplinks, on both    *)
(* platforms, with any number of crashes and faults. The record's          *)
(* invariant (IndInv) is extended by what each pass still holds (PassInv). *)
(***************************************************************************)
EXTENDS Routing, TLAPS

-----------------------------------------------------------------------------
(* Helpers on records. *)

\* What a sequence keeps.
LEMMA SeqWider == ASSUME NEW S, NEW T, NEW seq \in Seq(S), S \subseteq T PROVE seq \in Seq(T)
  OBVIOUS

LEMMA SeqEmpty == ASSUME NEW S PROVE <<>> \in Seq(S)
  OBVIOUS

LEMMA SeqHeadTail == ASSUME NEW S, NEW seq \in Seq(S), seq # <<>> PROVE Head(seq) \in S /\ Tail(seq) \in Seq(S)
  OBVIOUS

LEMMA SeqAppend == ASSUME NEW S, NEW seq \in Seq(S), NEW e \in S PROVE Append(seq, e) \in Seq(S)
  OBVIOUS

\* planned ids are route ids.
LEMMA PlannedType == \A s : Planned(s) \subseteq RouteIds
  BY DEF Planned, RouteIds

\* The command list of an install is a sequence of planned ids.
LEMMA PlanType == \A s : Plan(s) \in Seq(Planned(s))
<1> SUFFICES ASSUME NEW s
            PROVE  Plan(s) \in Seq(Planned(s))
  OBVIOUS
<1>1. Splits \in Seq(SplitSet) /\ Splits \in Seq(SplitSet \cup {Bypass})
  BY ConstantsOK DEF SplitSet
<1>2. Append(Splits, Bypass) \in Seq(SplitSet \cup {Bypass})
  BY <1>1, SeqAppend
<1> QED
  BY <1>1, <1>2, ZenonT(60) DEF Plan, Planned

\* A route's slot is what its delete command names.
LEMMA DeleteArgvType ==
  ASSUME NEW g \in Identities, NEW id \in RouteIds
  PROVE  DeleteArgv(g, id) \in Slots /\ RouteOf(g, id) \in Routes
  BY DEF DeleteArgv, Slots, Routes

\* What a record names is a set of route ids.
LEMMA LedgerType ==
  ASSUME NEW rec \in RouteState, NEW g \in Identities
  PROVE  Ledger(rec, g) \subseteq RouteIds
  BY DEF Ledger, RouteState

\* An absent or unreadable file is not a record.
LEMMA DiskCases ==
  ASSUME TypeOK, disk \notin {Nothing, Unreadable}
  PROVE  disk \in RouteState
  BY DEF TypeOK

\* Coalescing groups keeps records well formed.
LEMMA CoalesceType ==
  ASSUME NEW rec \in RouteState
  PROVE  Coalesce(rec) \in [Identities -> SUBSET RouteIds]
  BY LedgerType DEF Coalesce

\* Narrowing keeps records well formed.
LEMMA NarrowType ==
  ASSUME NEW rec \in RouteState, NEW argv
  PROVE  Narrow(rec, argv) \in RouteState
  BY ZenonT(60) DEF Narrow, NarrowIds, RouteState

\* A fresh record is well formed.
LEMMA BlankType ==
  ASSUME NEW g \in Identities
  PROVE  Blank(g) \in RouteState
  BY DEF Blank, NoStale, RouteState

\* A wider record accounts for what a narrower one does.
LEMMA AccountsMono ==
  ASSUME NEW a, NEW b, NEW r,
         \A g \in Identities : Ledger(a, g) \cap Planned(g.server) \subseteq Ledger(b, g),
         Accounts(a, r)
  PROVE  Accounts(b, r)
  BY DEF Accounts

\* A confirmed delete takes out of a record only ids whose route it deleted.
LEMMA AccountsNarrow ==
  ASSUME NEW rec \in RouteState, NEW argv, NEW r, Slot(r) # argv, Accounts(rec, r)
  PROVE  Accounts(Narrow(rec, argv), r)
<1>1. PICK g \in Identities, id \in RouteIds :
        id \in Ledger(rec, g) /\ id \in Planned(g.server) /\ RouteOf(g, id) = r
  BY DEF Accounts
<1>2. DeleteArgv(g, id) # argv
  BY <1>1 DEF DeleteArgv
<1>3. id \in Ledger(Narrow(rec, argv), g)
  BY <1>1, <1>2 DEF Ledger, Narrow, NarrowIds, RouteState
<1> QED
  BY <1>1, <1>3 DEF Accounts

\* A record is neither of the two answers for a file without one.
LEMMA RecordIsNeither ==
  ASSUME NEW rec \in RouteState
  PROVE  rec # Nothing /\ rec # Unreadable
<1>1. "id" \in DOMAIN rec
  BY DEF RouteState
<1>2. "id" \notin DOMAIN Nothing /\ "id" \notin DOMAIN Unreadable
  BY DEF Nothing, Unreadable
<1> QED
  BY <1>1, <1>2

\* The two are different answers.
LEMMA NothingIsReadable == Nothing # Unreadable
<1>1. Nothing.absent = TRUE /\ Unreadable.absent = FALSE
  BY DEF Nothing, Unreadable
<1> QED
  BY <1>1

-----------------------------------------------------------------------------
(* Steps on the file. *)

\* A step that spends faults stays within their bound.
LEMMA SpendType ==
  ASSUME TypeOK, NEW n \in Nat, Spend(n)
  PROVE  faults' \in 0..MaxFaults
<1>1. faults \in Nat /\ MaxFaults \in Nat
  BY ConstantsOK DEF TypeOK
<1> QED
  BY <1>1 DEF Spend

\* So does one that spends none or one.
LEMMA FaultType ==
  ASSUME TypeOK, NoFault \/ Fault
  PROVE  faults' \in 0..MaxFaults
<1>1. 0 \in Nat /\ 1 \in Nat
  OBVIOUS
<1> QED
  BY <1>1, SpendType DEF NoFault, Fault

\* A logged write of a record that accounts for the table it leaves, in a
\* step that adds no route, keeps the file covering the table.
LEMMA WriteCovers ==
  ASSUME TypeOK, RecordCoversTable,
         NEW rec \in RouteState, NEW n \in Nat,
         WriteLogged(rec, n),
         ours' \subseteq ours,
         \A r \in ours' : Accounts(rec, r)
  PROVE  /\ RecordCoversTable'
         /\ disk' \in RouteState \cup {Nothing, Unreadable}
         /\ faults' \in 0..MaxFaults
<1>1. disk' = disk \/ disk' = rec
  BY DEF WriteLogged
<1>2. ASSUME disk' = disk PROVE RecordCoversTable'
  BY <1>2 DEF RecordCoversTable, Accounts
<1>3. ASSUME disk' = rec PROVE RecordCoversTable'
  BY <1>3, RecordIsNeither DEF RecordCoversTable, Accounts
<1>4. disk' \in RouteState \cup {Nothing, Unreadable}
  BY <1>1 DEF TypeOK
<1>5. faults' \in 0..MaxFaults
  <2>1. n + 1 \in Nat
    OBVIOUS
  <2> QED
    BY <2>1, SpendType DEF WriteLogged
<1> QED
  BY <1>1, <1>2, <1>3, <1>4, <1>5

\* Removing the file is sound when the table is empty of this program's routes.
LEMMA RemoveCovers ==
  ASSUME TypeOK, RecordCoversTable, RemoveLogged,
         ours' \subseteq ours, ours' = {}
  PROVE  /\ RecordCoversTable'
         /\ disk' \in RouteState \cup {Nothing, Unreadable}
         /\ faults' \in 0..MaxFaults
<1>1. disk' = disk \/ disk' = Nothing
  BY DEF RemoveLogged, WriteLogged
<1>2. RecordCoversTable'
  BY DEF RecordCoversTable
<1>3. faults' \in 0..MaxFaults
  <2>1. 0 \in Nat /\ 0 + 1 \in Nat
    OBVIOUS
  <2> QED
    BY <2>1, SpendType DEF RemoveLogged, WriteLogged
<1> QED
  BY <1>1, <1>2, <1>3 DEF TypeOK

\* Leaving the file alone is sound in a step that adds no route.
LEMMA KeepCovers ==
  ASSUME TypeOK, RecordCoversTable,
         disk' = disk \/ disk' = Unreadable,
         ours' \subseteq ours
  PROVE  /\ RecordCoversTable'
         /\ disk' \in RouteState \cup {Nothing, Unreadable}
<1>1. CASE disk' = disk
  BY <1>1 DEF RecordCoversTable, TypeOK, Accounts
<1>2. CASE disk' = Unreadable
  BY <1>2 DEF RecordCoversTable
<1> QED
  BY <1>1, <1>2

\* A record that names nothing accounts for nothing.
LEMMA EmptyAccounts ==
  ASSUME NEW rec \in RouteState, Empty(rec), NEW r
  PROVE  ~ Accounts(rec, r)
  BY DEF Empty, Accounts, Ledger, NoStale

\* A delete never adds a route of this program.
LEMMA DeleteShrinks ==
  ASSUME NEW argv, DeleteConfirms(argv) \/ DeleteUnconfirmed(argv)
  PROVE  ours' \subseteq ours /\ theirs' \subseteq theirs
  BY DEF DeleteConfirms, DeleteUnconfirmed, Deleted, TableKept

\* After a confirmed delete the narrowed record accounts for what is left.
LEMMA DeleteAccounts ==
  ASSUME NEW rec \in RouteState, NEW argv, DeleteConfirms(argv),
         \A r \in ours : Accounts(rec, r)
  PROVE  \A r \in ours' : Accounts(Narrow(rec, argv), r)
  BY AccountsNarrow DEF DeleteConfirms, Deleted

-----------------------------------------------------------------------------
(* One lemma per action: it preserves the inductive invariant. *)

\* Reading the record at process start keeps what it names.
LEMMA BootRecoveryStep == IndInv /\ BootRecovery => IndInv'
<1> SUFFICES ASSUME IndInv, BootRecovery PROVE IndInv'
  OBVIOUS
<1>1. faults' \in 0..MaxFaults
  BY FaultType DEF BootRecovery, IndInv
<1>2. RecordCoversTable'
  BY KeepCovers DEF BootRecovery, IndInv
<1>3. CASE mem' = mem /\ pc' = "idle"
  BY <1>1, <1>2, <1>3 DEF BootRecovery, IndInv, TypeOK, Phases, Holding
<1>4. CASE disk \notin {Nothing, Unreadable} /\ pc' = "boot"
  <2> DEFINE co == Coalesce(disk)
  <2>1. disk \in RouteState
    BY <1>4, DiskCases DEF IndInv
  <2>2. co \in [Identities -> SUBSET RouteIds] /\ disk.id \in Identities
    BY <2>1, CoalesceType DEF RouteState
  <2>3. mem' = [id |-> disk.id, installed |-> co[disk.id], stale |-> [co EXCEPT ![disk.id] = {}]]
    BY <1>4 DEF BootRecovery
  <2>4. mem' \in RouteState
    BY <2>2, <2>3 DEF RouteState
  <2>5. \A g \in Identities : Ledger(mem', g) = Ledger(disk, g) \cap Planned(g.server)
    BY <2>1, <2>2, <2>3 DEF Ledger, Coalesce, RouteState
  <2>6. \A r \in ours : Accounts(disk, r)
    BY <1>4 DEF IndInv, RecordCoversTable
  <2>7. \A r \in ours' : Accounts(mem', r)
    BY <2>5, <2>6 DEF Accounts, BootRecovery
  <2> QED
    BY <1>1, <1>2, <1>4, <2>4, <2>7 DEF BootRecovery, IndInv, TypeOK, Phases, Holding
<1> QED
  BY <1>3, <1>4 DEF BootRecovery

\* A delete of recovery or of the sweep narrows only what it deleted.
LEMMA RecoverDeleteStep ==
  ASSUME NEW g \in Identities, NEW id \in RouteIds, IndInv, RecoverDelete(g, id)
  PROVE  IndInv'
<1> DEFINE argv == DeleteArgv(g, id)
<1>1. mem \in RouteState /\ argv \in Slots
  BY DeleteArgvType DEF IndInv, TypeOK
<1>2. ours' \subseteq ours /\ theirs' \subseteq theirs
  BY DeleteShrinks DEF RecoverDelete
<1>3. \A r \in ours : Accounts(mem, r)
  BY DEF RecoverDelete, IndInv, Holding
<1>4. PICK n \in Nat : WriteLogged(mem', n)
  BY DEF RecoverDelete, UnconfirmedCost
<1>5. mem' \in RouteState /\ \A r \in ours' : Accounts(mem', r)
  <2>1. CASE DeleteConfirms(argv) /\ mem' = Narrow(mem, argv)
    BY <1>1, <1>3, <2>1, NarrowType, DeleteAccounts
  <2>2. CASE mem' = mem
    BY <1>1, <1>2, <1>3, <2>2
  <2> QED
    BY <2>1, <2>2 DEF RecoverDelete
<1>6. /\ RecordCoversTable'
      /\ disk' \in RouteState \cup {Nothing, Unreadable}
      /\ faults' \in 0..MaxFaults
  BY <1>2, <1>4, <1>5, WriteCovers DEF IndInv
<1>7. mem'.id = mem.id /\ (mem.installed = {} => mem'.installed = {})
  BY <1>1, ZenonT(60) DEF RecoverDelete, Narrow, NarrowIds, RouteState
<1>8. TypeOK'
  BY <1>1, <1>2, <1>5, <1>6 DEF RecoverDelete, IndInv, TypeOK
<1> QED
  BY <1>5, <1>6, <1>7, <1>8 DEF RecoverDelete, IndInv, Holding

\* Locals that are forgotten are well formed.
LEMMA ForgetType ==
  ASSUME TypeOK, Forget
  PROVE  /\ mem' \in RouteState
         /\ acc' \subseteq RouteIds /\ extra' \subseteq RouteIds
         /\ todo' \in Seq(RouteIds)
         /\ pending' \subseteq {"primary", "stale"} \X Identities
         /\ issued' \subseteq Identities \X RouteIds
         /\ ipv6' \in TunIpv6
<1>1. NotAsked \in TunIpv6
  BY Zenon, ConstantsOK DEF NotAsked
<1> QED
  BY <1>1, BlankType, SeqEmpty DEF Forget, TypeOK

\* A record that is empty when a handler ends leaves no route behind.
LEMMA EmptyTable ==
  ASSUME IndInv, pc \in Holding, Empty(mem)
  PROVE  ours = {}
  BY EmptyAccounts DEF IndInv, TypeOK

\* Recovery ends: the file is cleared, or keeps what is left.
LEMMA BootRecoveredStep == IndInv /\ BootRecovered => IndInv'
<1> SUFFICES ASSUME IndInv, BootRecovered PROVE IndInv'
  BY Zenon
<1>1. mem \in RouteState /\ \A r \in ours : Accounts(mem, r)
  BY DEF BootRecovered, IndInv, TypeOK, Holding
<1>2. ours' = ours
  BY DEF BootRecovered
<1>3. /\ RecordCoversTable'
      /\ disk' \in RouteState \cup {Nothing, Unreadable}
      /\ faults' \in 0..MaxFaults
  <2>1. CASE Empty(mem)
    <3>1. ours' = {}
      BY <1>2, <2>1, EmptyTable DEF BootRecovered, Holding
    <3> QED
      BY <1>2, <2>1, <3>1, RemoveCovers DEF BootRecovered, IndInv
  <2>2. CASE ~Empty(mem)
    <3>1. WriteLogged(mem, 0) /\ 0 \in Nat
      BY <2>2 DEF BootRecovered
    <3> QED
      BY <1>1, <1>2, <3>1, WriteCovers DEF IndInv
  <2> QED
    BY <2>1, <2>2
<1>4. TypeOK'
  BY <1>3, ForgetType DEF BootRecovered, IndInv, TypeOK, Phases
<1> QED
  BY <1>3, <1>4 DEF BootRecovered, IndInv, Holding

\* The gateway query loads the record.
LEMMA DefaultGatewayStep ==
  ASSUME NEW s \in Identities, IndInv, DefaultGateway(s)
  PROVE  IndInv'
<1>1. faults' \in 0..MaxFaults
  BY FaultType DEF DefaultGateway, IndInv
<1>2. RecordCoversTable'
  BY KeepCovers DEF DefaultGateway, IndInv
<1>3. CASE pc' = "ready" /\ mem' = mem /\ pending' = pending
  BY <1>1, <1>2, <1>3 DEF DefaultGateway, IndInv, TypeOK, Phases, Holding
<1>4. CASE disk \notin {Nothing, Unreadable} /\ pc' = "clear"
  <2>1. mem' = disk /\ disk \in RouteState
    BY <1>4, DiskCases DEF DefaultGateway, IndInv
  <2>2. \A r \in ours' : Accounts(mem', r)
    BY <1>4, <2>1 DEF DefaultGateway, IndInv, RecordCoversTable
  <2>3. /\ pending' \subseteq {"primary", "stale"} \X Identities
        /\ \A e \in pending' : e[1] = "primary" => e[2] = mem'.id
    BY Zenon, <1>4, <2>1 DEF DefaultGateway
  <2> QED
    BY Zenon, <1>1, <1>2, <1>4, <2>1, <2>2, <2>3 DEF DefaultGateway, IndInv, TypeOK, Phases, Holding
<1> QED
  BY <1>3, <1>4 DEF DefaultGateway

\* Clearing one stale bypass narrows only the group it deleted.
LEMMA ClearBypassStep ==
  ASSUME NEW e \in pending, IndInv, ClearBypass(e)
  PROVE  IndInv'
<1>1. e[2] \in Identities /\ e[1] \in {"primary", "stale"} /\ mem \in RouteState
  BY DEF IndInv, TypeOK
<1>2. ours' \subseteq ours /\ theirs' \subseteq theirs
  BY DeleteShrinks DEF ClearBypass, TableKept
<1>3. \A r \in ours : Accounts(mem, r)
  BY Zenon DEF ClearBypass, IndInv, Holding
<1>4. e[1] = "primary" => e[2] = mem.id
  BY DEF ClearBypass, IndInv
<1>5. faults' \in 0..MaxFaults
  <2>1. \A argv : UnconfirmedCost(argv) \in Nat
    BY Zenon DEF UnconfirmedCost
  <2> QED
    BY <2>1, FaultType, SpendType DEF ClearBypass, IndInv
<1>6. RecordCoversTable'
  BY <1>2, KeepCovers DEF ClearBypass, IndInv
<1>7. mem' \in RouteState /\ mem'.id = mem.id /\ \A r \in ours' : Accounts(mem', r)
  <2>1. CASE mem' = mem
    BY <1>1, <1>2, <1>3, <2>1
  <2>2. CASE DeleteConfirms(DeleteArgv(e[2], Bypass)) /\ mem' = WithoutBypass(e)
    <3>1. mem' \in RouteState /\ mem'.id = mem.id
      BY <1>1, <2>2 DEF WithoutBypass, RouteState
    <3>2. ASSUME NEW r \in ours' PROVE Accounts(mem', r)
      <4>1. r \in ours /\ Slot(r) # DeleteArgv(e[2], Bypass)
        BY <2>2 DEF DeleteConfirms, Deleted
      <4>2. PICK g \in Identities, id \in RouteIds :
              id \in Ledger(mem, g) /\ id \in Planned(g.server) /\ RouteOf(g, id) = r
        BY <1>3, <4>1 DEF Accounts
      <4>3. ~(g = e[2] /\ id = Bypass)
        BY <4>1, <4>2 DEF DeleteArgv
      <4>4. id \in Ledger(mem', g)
        BY <1>1, <1>4, <2>2, <4>2, <4>3 DEF WithoutBypass, Ledger, RouteState
      <4> QED
        BY <4>2, <4>4 DEF Accounts
    <3> QED
      BY <3>1, <3>2
  <2> QED
    BY <2>1, <2>2 DEF ClearBypass
<1>8. TypeOK'
  BY Zenon, <1>1, <1>2, <1>5, <1>7 DEF ClearBypass, IndInv, TypeOK
<1> QED
  BY <1>6, <1>7, <1>8 DEF ClearBypass, IndInv, Holding

\* The write at the end of the gateway query.
LEMMA BypassClearedStep == IndInv /\ BypassCleared => IndInv'
<1> SUFFICES ASSUME IndInv, BypassCleared PROVE IndInv'
  OBVIOUS
<1>1. mem \in RouteState /\ \A r \in ours : Accounts(mem, r)
  BY DEF BypassCleared, IndInv, TypeOK, Holding
<1>2. ours' = ours
  BY DEF BypassCleared
<1>3. /\ RecordCoversTable'
      /\ disk' \in RouteState \cup {Nothing, Unreadable}
      /\ faults' \in 0..MaxFaults
  <2>1. CASE mem = disk
    BY <1>2, <2>1, KeepCovers, FaultType DEF BypassCleared, IndInv
  <2>2. CASE mem # disk
    <3>1. WriteLogged(mem, 0) /\ 0 \in Nat
      BY Zenon, <2>2 DEF BypassCleared
    <3> QED
      BY <1>1, <1>2, <3>1, WriteCovers DEF IndInv
  <2> QED
    BY <2>1, <2>2
<1>4. TypeOK'
  BY Zenon, <1>3, ForgetType DEF BypassCleared, IndInv, TypeOK, Phases
<1> QED
  BY <1>3, <1>4 DEF BypassCleared, IndInv, Holding

\* A start that never reaches the routes changes nothing.
LEMMA StartAbandonedStep == IndInv /\ StartAbandoned => IndInv'
<1> SUFFICES ASSUME IndInv, StartAbandoned PROVE IndInv'
  BY Zenon
<1>1. RecordCoversTable'
  BY KeepCovers DEF StartAbandoned, IndInv
<1> QED
  BY <1>1 DEF StartAbandoned, locals, IndInv, TypeOK, Phases, Holding

\* The install carries the old record into the stale groups of the new one.
LEMMA InstallStep == IndInv /\ Install => IndInv'
<1> SUFFICES ASSUME IndInv, Install PROVE IndInv'
  OBVIOUS
<1>1. ours' = ours /\ sess' = sess /\ sess \in Identities
  BY DEF Install, IndInv, TypeOK
<1>2. CASE pc' = "idle" /\ disk' = disk /\ mem' = mem
  <2>1. faults' \in 0..MaxFaults
    BY <1>2, FaultType DEF Install, IndInv
  <2>2. RecordCoversTable'
    BY Zenon, <1>1, <1>2, KeepCovers DEF IndInv
  <2> QED
    BY <1>2, <2>1, <2>2 DEF Install, IndInv, TypeOK, Phases, Holding
<1>3. CASE disk = Nothing /\ pc' = "sweep" /\ disk' = disk /\ NoFault /\ mem' = Blank(sess)
  <2>1. faults' \in 0..MaxFaults
    BY Zenon, <1>3, FaultType DEF IndInv
  <2>2. RecordCoversTable'
    BY <1>1, <1>3, KeepCovers DEF IndInv
  <2>3. ours = {}
    BY <1>3, NothingIsReadable DEF IndInv, RecordCoversTable
  <2>4. mem' \in RouteState /\ mem'.id = sess /\ mem'.installed = {}
    BY <1>1, <1>3, BlankType DEF Blank
  <2> QED
    BY Zenon, <1>1, <1>3, <2>1, <2>2, <2>3, <2>4 DEF Install, IndInv, TypeOK, Phases, Holding
<1>4. CASE /\ disk \notin {Nothing, Unreadable}
           /\ mem' = [id |-> sess, installed |-> {}, stale |-> Coalesce(disk)]
           /\ pc' = "sweep"
           /\ (disk' = disk /\ NoFault) \/ WriteLogged(mem', 0)
  <2>1. disk \in RouteState
    BY <1>4, DiskCases, ZenonT(60) DEF IndInv
  <2>2. mem' \in RouteState /\ mem'.id = sess /\ mem'.installed = {}
    BY <1>1, <1>4, <2>1, CoalesceType DEF RouteState
  <2>3. \A g \in Identities : Ledger(disk, g) \cap Planned(g.server) \subseteq Ledger(mem', g)
    BY <1>4, <2>1 DEF Ledger, Coalesce
  <2>4. \A r \in ours' : Accounts(mem', r)
    BY <1>1, <1>4, <2>3, AccountsMono, ZenonT(60) DEF IndInv, RecordCoversTable
  <2>5. /\ RecordCoversTable'
        /\ disk' \in RouteState \cup {Nothing, Unreadable}
        /\ faults' \in 0..MaxFaults
    <3>1. CASE disk' = disk /\ NoFault
      BY Zenon, <1>1, <3>1, KeepCovers, FaultType DEF IndInv
    <3>2. CASE WriteLogged(mem', 0)
      <4>1. 0 \in Nat
        BY Zenon
      <4> QED
        BY <1>1, <2>2, <2>4, <3>2, <4>1, WriteCovers DEF IndInv
    <3> QED
      BY <1>4, <3>1, <3>2
  <2> QED
    BY <1>1, <1>4, <2>2, <2>4, <2>5, ZenonT(60) DEF Install, IndInv, TypeOK, Phases, Holding
<1> QED
  BY <1>2, <1>3, <1>4 DEF Install

\* The sweep ends; the setup loop starts with nothing confirmed.
LEMMA SweepDoneStep == IndInv /\ SweepDone => IndInv'
<1> SUFFICES ASSUME IndInv, SweepDone PROVE IndInv'
  OBVIOUS
<1>1. /\ mem \in RouteState /\ \A r \in ours : Accounts(mem, r)
      /\ mem.id = sess /\ mem.installed = {}
  BY Zenon DEF SweepDone, IndInv, TypeOK, Holding
<1>2. ours' = ours /\ mem' = mem /\ sess' = sess /\ acc' = {}
  BY DEF SweepDone
<1>3. /\ RecordCoversTable'
      /\ disk' \in RouteState \cup {Nothing, Unreadable}
      /\ faults' \in 0..MaxFaults
  <2>1. CASE disk' = disk /\ NoFault
    BY Zenon, <1>2, <2>1, KeepCovers, FaultType DEF IndInv
  <2>2. CASE WriteLogged(mem, 0)
    <3>1. 0 \in Nat
      OBVIOUS
    <3> QED
      BY <1>1, <1>2, <2>2, <3>1, WriteCovers DEF IndInv
  <2> QED
    BY <2>1, <2>2 DEF SweepDone
<1>4. todo' \in Seq(Planned(sess.server)) /\ todo' \in Seq(RouteIds)
  BY PlanType, PlannedType, SeqWider DEF SweepDone
<1>5. ConfirmedOnly' = mem
  BY Zenon, <1>1, <1>2 DEF ConfirmedOnly, RouteState
<1>6. TypeOK'
  BY <1>2, <1>3, <1>4 DEF SweepDone, IndInv, TypeOK, Phases
<1> QED
  BY <1>1, <1>2, <1>3, <1>4, <1>5, <1>6 DEF SweepDone, IndInv, Holding


\* A command that reports a spawn failure has either never run, or every
\* command of the install is fatal: the case the record is built for.
SpawnAssumption == SpawnMayRun => TunIpv6 = {TRUE}

-----------------------------------------------------------------------------
(* The setup loop. *)

\* Widening the primary record keeps what it accounts for.
LEMMA WiderInstalled ==
  ASSUME NEW rec \in RouteState, NEW a \in SUBSET RouteIds, NEW b \in SUBSET RouteIds,
         a \subseteq b,
         NEW r, Accounts([rec EXCEPT !.installed = a], r)
  PROVE  Accounts([rec EXCEPT !.installed = b], r)
<1>1. \A g \in Identities :
        Ledger([rec EXCEPT !.installed = a], g) \subseteq Ledger([rec EXCEPT !.installed = b], g)
  BY DEF Ledger, RouteState
<1> QED
  BY <1>1, AccountsMono

\* A record whose primary names an id of the session accounts for its route.
LEMMA AccountsOwn ==
  ASSUME NEW rec \in RouteState, rec.id = sess, NEW id \in rec.installed,
         id \in Planned(sess.server)
  PROVE  Accounts(rec, RouteOf(sess, id))
<1>1. sess \in Identities /\ id \in RouteIds /\ id \in Ledger(rec, sess)
  BY DEF RouteState, Ledger
<1> QED
  BY <1>1 DEF Accounts

\* The checkpoint before a command widens the record by that command's id.
LEMMA PreCheckpointStep == IndInv /\ PreCheckpoint => IndInv'
<1> SUFFICES ASSUME IndInv, PreCheckpoint PROVE IndInv'
  OBVIOUS
<1> DEFINE rec == [mem EXCEPT !.installed = acc \cup {Head(todo)}]
<1>1. /\ mem \in RouteState /\ mem.id = sess /\ acc \in SUBSET RouteIds
      /\ \A r \in ours : Accounts(mem, r)
      /\ \A r \in ours : Accounts(ConfirmedOnly, r)
      /\ todo \in Seq(Planned(sess.server)) /\ todo # <<>>
  BY DEF PreCheckpoint, IndInv, TypeOK, Holding
<1>2. Head(todo) \in Planned(sess.server) /\ Head(todo) \in RouteIds
  BY <1>1, SeqHeadTail, PlannedType
<1>3. rec \in RouteState /\ rec.id = sess /\ rec.installed = acc \cup {Head(todo)}
  BY <1>1, <1>2 DEF RouteState
<1>4. \A r \in ours : Accounts(rec, r)
  <2>1. acc \cup {Head(todo)} \in SUBSET RouteIds /\ acc \subseteq acc \cup {Head(todo)}
    BY <1>1, <1>2
  <2> QED
    BY <1>1, <2>1, WiderInstalled, ZenonT(60) DEF ConfirmedOnly
<1>5. faults' \in 0..MaxFaults
  BY FaultType DEF PreCheckpoint, IndInv
<1>6. CASE disk' = rec /\ mem' = rec /\ pc' = "cmd"
  <2>1. RecordCoversTable'
    BY <1>3, <1>4, <1>6, RecordIsNeither, ZenonT(60) DEF PreCheckpoint, RecordCoversTable
  <2>2. ConfirmedOnly' = ConfirmedOnly
    BY <1>1, <1>6, ZenonT(60) DEF PreCheckpoint, ConfirmedOnly, RouteState
  <2>3. TypeOK'
    BY <1>3, <1>5, <1>6 DEF PreCheckpoint, IndInv, TypeOK, Phases
  <2> QED
    BY <1>1, <1>3, <1>4, <1>6, <2>1, <2>2, <2>3, ZenonT(60) DEF PreCheckpoint, IndInv, Holding
<1>7. CASE disk' = disk /\ mem' = mem /\ pc' = "abort"
  <2>1. RecordCoversTable'
    BY <1>7, KeepCovers DEF PreCheckpoint, IndInv
  <2> QED
    BY <1>1, <1>5, <1>7, <2>1 DEF PreCheckpoint, IndInv, TypeOK, Phases, Holding
<1> QED
  BY <1>6, <1>7 DEF PreCheckpoint

\* The checkpoint after a command, whether it lands or not, when the confirmed
\* ids account for the table the command left.
LEMMA NarrowedStep ==
  ASSUME IndInv, pc = "cmd", NEW n \in Nat, Narrowed(n),
         acc' = acc \/ acc' = acc \cup {Head(todo)},
         sess' = sess,
         \A r \in ours' : Accounts([mem EXCEPT !.installed = acc'], r)
  PROVE  /\ mem' \in RouteState /\ mem'.id = sess
         /\ acc' \subseteq mem'.installed /\ acc' \subseteq RouteIds
         /\ \A r \in ours' : Accounts(mem', r)
         /\ \A r \in ours' : Accounts(ConfirmedOnly', r)
         /\ RecordCoversTable'
         /\ disk' \in RouteState \cup {Nothing, Unreadable}
         /\ faults' \in 0..MaxFaults
<1> DEFINE rec == [mem EXCEPT !.installed = acc']
<1>1. /\ mem \in RouteState /\ mem.id = sess /\ acc \subseteq mem.installed
      /\ Head(todo) \in mem.installed
      /\ disk \in {mem, Unreadable}
  BY DEF IndInv, TypeOK
<1>2. acc' \subseteq mem.installed /\ acc' \in SUBSET RouteIds /\ mem.installed \in SUBSET RouteIds
  BY <1>1 DEF RouteState
<1>3. rec \in RouteState /\ rec.id = sess /\ rec.installed = acc'
  BY <1>1, <1>2 DEF RouteState
<1>4. faults' \in 0..MaxFaults
  <2>1. n + 1 \in Nat
    OBVIOUS
  <2> QED
    BY <2>1, SpendType DEF Narrowed, IndInv
<1>5. CASE disk' = rec /\ mem' = rec
  <2>1. ConfirmedOnly' = rec
    BY <1>1, <1>5, ZenonT(60) DEF ConfirmedOnly, RouteState
  <2>2. RecordCoversTable'
    BY <1>3, <1>5, RecordIsNeither DEF RecordCoversTable
  <2> QED
    BY <1>2, <1>3, <1>4, <1>5, <2>1, <2>2
<1>6. CASE disk' = disk /\ mem' = mem
  <2>1. mem = [mem EXCEPT !.installed = mem.installed]
    BY <1>1 DEF RouteState
  <2>2. \A r \in ours' : Accounts(mem, r)
    <3> SUFFICES ASSUME NEW r \in ours' PROVE Accounts(mem, r)
      OBVIOUS
    <3>1. Accounts([mem EXCEPT !.installed = mem.installed], r)
      BY <1>1, <1>2, WiderInstalled
    <3> QED
      BY <2>1, <3>1
  <2>3. ConfirmedOnly' = rec
    BY <1>6 DEF ConfirmedOnly
  <2>4. RecordCoversTable'
    BY <1>1, <1>6, <2>2, RecordIsNeither DEF RecordCoversTable
  <2>5. disk' \in RouteState \cup {Nothing, Unreadable}
    BY <1>6 DEF IndInv, TypeOK
  <2> QED
    BY <1>1, <1>2, <1>4, <1>6, <2>2, <2>3, <2>4, <2>5
<1> QED
  BY <1>5, <1>6 DEF Narrowed

\* What holds of the loop's command list at a command.
LEMMA CommandList ==
  ASSUME IndInv, pc = "cmd"
  PROVE  /\ Head(todo) \in Planned(sess.server) /\ Head(todo) \in RouteIds
         /\ Tail(todo) \in Seq(Planned(sess.server)) /\ Tail(todo) \in Seq(RouteIds)
  BY Zenon, SeqHeadTail, PlannedType, SeqWider DEF IndInv

\* A confirmed command: its route is in the table and in the record.
LEMMA SetupConfirmedStep == IndInv /\ SetupConfirmed => IndInv'
<1> SUFFICES ASSUME IndInv, SetupConfirmed PROVE IndInv'
  OBVIOUS
<1> DEFINE rec == [mem EXCEPT !.installed = acc']
<1>1. /\ pc = "cmd" /\ acc' = acc \cup {Head(todo)} /\ sess' = sess
      /\ ours' = ours \cup {RouteOf(sess, Head(todo))}
      /\ Narrowed(0) /\ 0 \in Nat
  BY DEF SetupConfirmed, RouteGoesIn
<1>2. /\ mem \in RouteState /\ mem.id = sess /\ acc \in SUBSET RouteIds
      /\ sess \in Identities
  BY <1>1 DEF IndInv, TypeOK
<1>3. acc' \in SUBSET RouteIds /\ acc \subseteq acc'
  BY <1>1, <1>2, CommandList
<1>4. rec \in RouteState /\ rec.id = sess /\ rec.installed = acc'
  BY <1>2, <1>3 DEF RouteState
<1>5. \A r \in ours : Accounts(rec, r)
  BY <1>1, <1>2, <1>3, WiderInstalled, ZenonT(60) DEF IndInv, ConfirmedOnly
<1>6. Accounts(rec, RouteOf(sess, Head(todo)))
  <2>1. Head(todo) \in rec.installed /\ Head(todo) \in Planned(sess.server)
    BY <1>1, <1>4, CommandList
  <2> QED
    BY <1>4, <2>1, AccountsOwn, ZenonT(60)
<1>7. \A r \in ours' : Accounts(rec, r)
  BY Zenon, <1>1, <1>5, <1>6
<1>8. ours' \subseteq Routes
  BY <1>1, <1>2, CommandList, DeleteArgvType DEF IndInv, TypeOK
<1>9. /\ mem' \in RouteState /\ mem'.id = sess
      /\ acc' \subseteq mem'.installed
      /\ \A r \in ours' : Accounts(mem', r)
      /\ \A r \in ours' : Accounts(ConfirmedOnly', r)
      /\ RecordCoversTable'
      /\ disk' \in RouteState \cup {Nothing, Unreadable}
      /\ faults' \in 0..MaxFaults
  BY <1>1, <1>7, NarrowedStep
<1>10. todo' \in Seq(Planned(sess.server)) /\ todo' \in Seq(RouteIds)
  BY Zenon, <1>1, CommandList DEF SetupConfirmed
<1>11. TypeOK'
  BY Zenon, <1>3, <1>8, <1>9, <1>10 DEF SetupConfirmed, IndInv, TypeOK, Phases
<1> QED
  BY <1>1, <1>9, <1>10, <1>11 DEF SetupConfirmed, IndInv, Holding

\* A refused command added no route: the record may shrink to what is confirmed.
LEMMA RefusedStep ==
  ASSUME IndInv, pc = "cmd", NEW n \in Nat, Narrowed(n),
         acc' = acc, ours' \subseteq ours,
         \/ pc' = "setup" /\ todo' = Tail(todo)
         \/ pc' = "abort" /\ todo' = todo,
         UNCHANGED <<extra, pending, issued, sess, ipv6, theirs, crashes>>
  PROVE  IndInv'
<1>1. \A r \in ours' : Accounts([mem EXCEPT !.installed = acc'], r)
  BY DEF IndInv, ConfirmedOnly
<1>2. /\ mem' \in RouteState /\ mem'.id = sess
      /\ acc' \subseteq mem'.installed
      /\ \A r \in ours' : Accounts(mem', r)
      /\ \A r \in ours' : Accounts(ConfirmedOnly', r)
      /\ RecordCoversTable'
      /\ disk' \in RouteState \cup {Nothing, Unreadable}
      /\ faults' \in 0..MaxFaults
  BY Zenon, <1>1, NarrowedStep
<1>3. todo' \in Seq(RouteIds) /\ (pc' = "setup" => todo' \in Seq(Planned(sess.server)))
  BY Zenon, CommandList DEF IndInv, TypeOK
<1>4. TypeOK'
  BY <1>2, <1>3 DEF IndInv, TypeOK, Phases
<1> QED
  BY <1>2, <1>3, <1>4 DEF IndInv, Holding

\* A command the host refused.
LEMMA SetupExitStep == IndInv /\ SetupExit => IndInv'
<1> SUFFICES ASSUME IndInv, SetupExit PROVE IndInv'
  OBVIOUS
<1>1. PICK n \in Nat : Narrowed(n)
  BY DEF SetupExit
<1>2. \/ pc' = "setup" /\ todo' = Tail(todo)
      \/ pc' = "abort" /\ todo' = todo
  BY DEF SetupExit
<1> QED
  BY <1>1, <1>2, RefusedStep DEF SetupExit

\* A command whose outcome is unknown: a fatal one keeps its id recorded, and
\* under SpawnAssumption a best-effort one has not run.
LEMMA SetupSpawnStep ==
  ASSUME SpawnAssumption, IndInv, SetupSpawn
  PROVE  IndInv'
<1>1. pc = "cmd" /\ acc' = acc /\ sess' = sess
  BY Zenon DEF SetupSpawn
<1>2. CASE FatalId(Head(todo))
  <2>1. /\ mem \in RouteState /\ mem.id = sess /\ Head(todo) \in mem.installed
        /\ disk \in {mem, Unreadable} /\ sess \in Identities
        /\ \A r \in ours : Accounts(mem, r)
    BY <1>1 DEF IndInv, TypeOK, Holding
  <2>2. Head(todo) \in Planned(sess.server) /\ Head(todo) \in RouteIds
    BY <1>1, CommandList
  <2>3. /\ disk' = disk /\ mem' = mem /\ todo' = todo /\ pc' = "abort"
        /\ ours' \subseteq ours \cup {RouteOf(sess, Head(todo))}
        /\ Fault
    BY <1>2 DEF SetupSpawn, RouteGoesIn
  <2>4. \A r \in ours' : Accounts(mem', r)
    BY <2>1, <2>2, <2>3, AccountsOwn
  <2>5. RecordCoversTable'
    BY Zenon, <2>1, <2>3, <2>4, RecordIsNeither DEF RecordCoversTable
  <2>6. ours' \subseteq Routes
    BY Zenon, <2>1, <2>2, <2>3, DeleteArgvType DEF IndInv, TypeOK
  <2>7. faults' \in 0..MaxFaults
    BY <2>3, FaultType DEF IndInv
  <2> QED
    BY Zenon, <1>1, <2>1, <2>3, <2>4, <2>5, <2>6, <2>7 DEF SetupSpawn, IndInv, TypeOK, Phases, Holding
<1>3. CASE ~FatalId(Head(todo))
  <2>1. ~SpawnMayRun
    <3> SUFFICES ASSUME SpawnMayRun PROVE FALSE
      OBVIOUS
    <3>1. ipv6 \in TunIpv6
      BY DEF IndInv, TypeOK
    <3>2. TunIpv6 = {TRUE}
      BY Zenon DEF SpawnAssumption
    <3>3. ipv6 = TRUE
      BY <3>1, <3>2
    <3> QED
      BY <1>3, <3>3, Zenon DEF FatalId
  <2>2. ours' = ours /\ Narrowed(1) /\ 1 \in Nat /\ pc' = "setup" /\ todo' = Tail(todo)
    BY Zenon, <1>3, <2>1 DEF SetupSpawn
  <2> QED
    BY <1>1, <2>2, RefusedStep DEF SetupSpawn
<1> QED
  BY <1>2, <1>3

-----------------------------------------------------------------------------
(* The end of an install, and of a session. *)

\* A session is up only when every planned route was confirmed.
LEMMA SetupDoneStep == IndInv /\ SetupDone => IndInv'
<1> SUFFICES ASSUME IndInv, SetupDone PROVE IndInv'
  BY Zenon
<1>1. RecordCoversTable'
  BY KeepCovers DEF SetupDone, IndInv
<1> QED
  BY <1>1 DEF SetupDone, locals, IndInv, TypeOK, Phases, Holding

\* The record written before a rollback's first delete names all it did.
LEMMA BeginRollbackStep == IndInv /\ BeginRollback => IndInv'
<1> SUFFICES ASSUME IndInv, BeginRollback PROVE IndInv'
  OBVIOUS
<1>1. /\ mem \in RouteState /\ mem.id = sess /\ acc \in SUBSET RouteIds
      /\ mem.installed \in SUBSET RouteIds
      /\ \A r \in ours : Accounts(mem, r)
  BY DEF BeginRollback, IndInv, TypeOK, Holding, RouteState
<1>2. /\ mem' = [mem EXCEPT !.installed = acc \cup extra']
      /\ extra' = mem.installed \ acc
      /\ ours' = ours /\ sess' = sess /\ acc' = acc
      /\ WriteLogged(mem', 0) /\ 0 \in Nat
  BY DEF BeginRollback
<1>3. mem' \in RouteState /\ mem'.id = sess /\ mem'.installed = acc \cup extra'
  BY <1>1, <1>2 DEF RouteState
<1>4. \A r \in ours' : Accounts(mem', r)
  <2>1. \A g \in Identities : Ledger(mem, g) \subseteq Ledger(mem', g)
    BY <1>1, <1>2 DEF Ledger, RouteState
  <2> QED
    BY <1>1, <1>2, <2>1, AccountsMono, ZenonT(60)
<1>5. /\ RecordCoversTable'
      /\ disk' \in RouteState \cup {Nothing, Unreadable}
      /\ faults' \in 0..MaxFaults
  BY <1>2, <1>3, <1>4, WriteCovers, ZenonT(60) DEF IndInv
<1>6. todo' \in Seq(RouteIds)
  BY PlanType, PlannedType, SeqWider DEF BeginRollback
<1>7. TypeOK'
  BY Zenon, <1>1, <1>2, <1>3, <1>5, <1>6 DEF BeginRollback, IndInv, TypeOK, Phases
<1> QED
  BY Zenon, <1>2, <1>3, <1>4, <1>5, <1>7 DEF BeginRollback, IndInv, Holding

\* A stop: the confirmed ids are all the planned ones, so nothing is dropped.
LEMMA StopStep == IndInv /\ Stop => IndInv'
<1> SUFFICES ASSUME IndInv, Stop PROVE IndInv'
  OBVIOUS
<1>1. /\ mem \in RouteState /\ mem.id = sess /\ acc \in SUBSET RouteIds
      /\ acc = Planned(sess.server)
      /\ \A r \in ours : Accounts(mem, r)
  BY DEF Stop, IndInv, TypeOK, Holding
<1>2. /\ mem' = [mem EXCEPT !.installed = acc] /\ extra' = {}
      /\ ours' = ours /\ sess' = sess /\ acc' = acc
  BY DEF Stop
<1>3. mem' \in RouteState /\ mem'.id = sess /\ mem'.installed = acc \cup {}
  BY <1>1, <1>2 DEF RouteState
<1>4. \A r \in ours' : Accounts(mem', r)
  <2>1. \A g \in Identities : Ledger(mem, g) \cap Planned(g.server) \subseteq Ledger(mem', g)
    BY <1>1, <1>2 DEF Ledger, RouteState
  <2> QED
    BY <1>1, <1>2, <2>1, AccountsMono
<1>5. RecordCoversTable'
  BY KeepCovers DEF Stop, IndInv
<1>6. todo' \in Seq(RouteIds)
  BY PlanType, PlannedType, SeqWider DEF Stop
<1>7. TypeOK'
  BY Zenon, <1>1, <1>2, <1>3, <1>6 DEF Stop, IndInv, TypeOK, Phases
<1> QED
  BY <1>2, <1>3, <1>4, <1>5, <1>7 DEF Stop, IndInv, Holding

\* A delete of a teardown or a rollback drops the id it deleted, and no other.
LEMMA UndoRouteStep == IndInv /\ UndoRoute => IndInv'
<1> SUFFICES ASSUME IndInv, UndoRoute PROVE IndInv'
  OBVIOUS
<1> DEFINE id == Head(todo)
           argv == DeleteArgv(sess, id)
<1>1. /\ mem \in RouteState /\ mem.id = sess /\ mem.installed = acc \cup extra
      /\ acc \in SUBSET RouteIds /\ extra \in SUBSET RouteIds
      /\ \A r \in ours : Accounts(mem, r)
  BY DEF UndoRoute, IndInv, TypeOK, Holding
<1>2. sess' = sess /\ extra' = extra /\ pc' = pc
  BY DEF UndoRoute
<1>3. todo' \in Seq(RouteIds)
  BY SeqHeadTail DEF UndoRoute, IndInv, TypeOK
<1>4. CASE UNCHANGED <<disk, mem, acc, ours, theirs, faults>>
  <2>1. RecordCoversTable'
    BY <1>4, KeepCovers DEF IndInv
  <2> QED
    BY Zenon, <1>1, <1>2, <1>3, <1>4, <2>1 DEF UndoRoute, IndInv, TypeOK, Holding
<1>5. CASE /\ DeleteConfirms(argv)
           /\ acc' = acc \ {id}
           /\ mem' = [mem EXCEPT !.installed = acc' \cup extra]
           /\ WriteLogged(mem', 0)
  <2>1. ours' \subseteq ours /\ theirs' \subseteq theirs
    BY <1>5, DeleteShrinks
  <2>2. /\ mem' \in RouteState /\ mem'.id = sess /\ mem'.installed = acc' \cup extra
        /\ acc' \in SUBSET RouteIds
    BY <1>1, <1>5 DEF RouteState
  <2>3. ASSUME NEW r \in ours' PROVE Accounts(mem', r)
    <3>1. r \in ours /\ Slot(r) # argv
      BY Zenon, <1>5 DEF DeleteConfirms, Deleted
    <3>2. PICK g \in Identities, i \in RouteIds :
            i \in Ledger(mem, g) /\ i \in Planned(g.server) /\ RouteOf(g, i) = r
      BY <1>1, <3>1 DEF Accounts
    <3>3. ~(g = sess /\ i = id)
      BY <3>1, <3>2 DEF DeleteArgv
    <3>4. i \in Ledger(mem', g)
      BY <1>1, <1>5, <3>2, <3>3 DEF Ledger, RouteState
    <3> QED
      BY <3>2, <3>4 DEF Accounts
  <2>4. /\ RecordCoversTable'
        /\ disk' \in RouteState \cup {Nothing, Unreadable}
        /\ faults' \in 0..MaxFaults
    <3>1. 0 \in Nat
      OBVIOUS
    <3> QED
      BY <1>5, <2>1, <2>2, <2>3, <3>1, WriteCovers, ZenonT(60) DEF IndInv
  <2>5. TypeOK'
    BY Zenon, <1>3, <2>1, <2>2, <2>4 DEF UndoRoute, IndInv, TypeOK
  <2> QED
    BY <1>2, <2>2, <2>3, <2>4, <2>5 DEF UndoRoute, IndInv, Holding
<1>6. CASE /\ DeleteUnconfirmed(argv)
           /\ acc' = acc /\ mem' = mem
           /\ WriteLogged(mem, UnconfirmedCost(argv))
  <2>1. ours' \subseteq ours /\ theirs' \subseteq theirs
    BY <1>6, DeleteShrinks
  <2>2. UnconfirmedCost(argv) \in Nat
    BY Zenon DEF UnconfirmedCost
  <2>3. /\ RecordCoversTable'
        /\ disk' \in RouteState \cup {Nothing, Unreadable}
        /\ faults' \in 0..MaxFaults
    BY <1>1, <1>6, <2>1, <2>2, WriteCovers DEF IndInv
  <2>4. TypeOK'
    BY Zenon, <1>3, <1>6, <2>1, <2>3 DEF UndoRoute, IndInv, TypeOK
  <2> QED
    BY <1>1, <1>2, <1>6, <2>1, <2>3, <2>4 DEF UndoRoute, IndInv, Holding
<1> QED
  BY <1>4, <1>5, <1>6 DEF UndoRoute

\* The end of a teardown or a rollback.
LEMMA UndoDoneStep == IndInv /\ UndoDone => IndInv'
<1> SUFFICES ASSUME IndInv, UndoDone PROVE IndInv'
  BY Zenon
<1>1. mem \in RouteState /\ \A r \in ours : Accounts(mem, r)
  BY DEF UndoDone, IndInv, TypeOK, Holding
<1>2. ours' \subseteq ours
  BY DEF UndoDone
<1>3. /\ RecordCoversTable'
      /\ disk' \in RouteState \cup {Nothing, Unreadable}
      /\ faults' \in 0..MaxFaults
  <2>1. CASE Empty(mem)
    <3>1. ours' = {}
      BY <1>2, <2>1, EmptyTable DEF UndoDone, Holding
    <3> QED
      BY <1>2, <2>1, <3>1, RemoveCovers DEF UndoDone, IndInv
  <2>2. CASE WriteLogged(mem, 0)
    <3>1. 0 \in Nat
      OBVIOUS
    <3> QED
      BY <1>1, <1>2, <2>2, <3>1, WriteCovers DEF IndInv
  <2>3. CASE disk' = disk /\ NoFault
    BY Zenon, <1>2, <2>3, KeepCovers, FaultType DEF IndInv
  <2> QED
    BY Zenon, <2>1, <2>2, <2>3 DEF UndoDone
<1>4. TypeOK'
  BY <1>2, <1>3, ForgetType DEF UndoDone, IndInv, TypeOK, Phases
<1> QED
  BY <1>3, <1>4 DEF UndoDone, IndInv, Holding

-----------------------------------------------------------------------------
(* The environment. *)

\* A crash forgets the locals; file and table stay.
LEMMA CrashStep == IndInv /\ Crash => IndInv'
<1> SUFFICES ASSUME IndInv, Crash PROVE IndInv'
  OBVIOUS
<1>1. RecordCoversTable'
  BY ZenonT(40), KeepCovers DEF Crash, IndInv
<1>2. crashes' \in 0..MaxCrashes
  <2>1. crashes \in 0..MaxCrashes /\ crashes < MaxCrashes /\ crashes' = crashes + 1
    BY Zenon DEF Crash, IndInv, TypeOK
  <2>2. MaxCrashes \in Nat
    BY Zenon, ConstantsOK
  <2> QED
    BY <2>1, <2>2
<1>3. TypeOK'
  BY <1>2, ForgetType DEF Crash, IndInv, TypeOK, Phases
<1> QED
  BY Zenon, <1>1, <1>3 DEF Crash, IndInv, Holding

\* Steps that only take routes away, or that concern somebody else's.
LEMMA OutsideStep ==
  ASSUME IndInv, UNCHANGED <<pc, locals, sess, ipv6, crashes>>,
         ours' \subseteq ours, theirs' \subseteq Slots, faults' \in 0..MaxFaults,
         disk' = disk \/ disk' = Unreadable
  PROVE  IndInv'
<1>1. RecordCoversTable' /\ disk' \in RouteState \cup {Nothing, Unreadable}
  BY Zenon, KeepCovers DEF IndInv
<1>2. TypeOK'
  BY Zenon, <1>1 DEF locals, IndInv, TypeOK
<1>3. ConfirmedOnly' = ConfirmedOnly
  BY DEF ConfirmedOnly, locals
<1> QED
  BY Zenon, <1>1, <1>2, <1>3 DEF locals, IndInv, Holding

\* The three such steps of the environment.
LEMMA EnvironmentStep ==
  ASSUME IndInv,
         \/ RecordUnreadable
         \/ \E t \in Tuns : TunVanishes(t)
         \/ \E s \in Slots : ForeignClaims(s)
  PROVE  IndInv'
<1>1. CASE RecordUnreadable
  <2>1. faults' \in 0..MaxFaults
    BY <1>1, FaultType, ZenonT(60) DEF RecordUnreadable, IndInv
  <2> QED
    BY <1>1, <2>1, OutsideStep, ZenonT(60) DEF RecordUnreadable, IndInv, TypeOK
<1>2. CASE \E t \in Tuns : TunVanishes(t)
  BY Zenon, <1>2, OutsideStep DEF TunVanishes, IndInv, TypeOK
<1>3. CASE \E s \in Slots : ForeignClaims(s)
  BY Zenon, <1>3, OutsideStep DEF ForeignClaims, IndInv, TypeOK
<1> QED
  BY <1>1, <1>2, <1>3

-----------------------------------------------------------------------------
(* The theorems. *)

\* The first state satisfies the inductive invariant.
LEMMA InitIndInv == Init => IndInv
<1> SUFFICES ASSUME Init PROVE IndInv
  OBVIOUS
<1>1. mem \in RouteState
  BY BlankType DEF Init
<1>2. TypeOK
  <2>1. NotAsked \in TunIpv6
    BY Zenon, ConstantsOK DEF NotAsked
  <2>2. disk \in RouteState \cup {Nothing, Unreadable}
    BY ConstantsOK DEF Init
  <2>3. ours \subseteq Routes
    BY DEF Init, Named
  <2> QED
    BY <1>1, <2>1, <2>2, <2>3, ConstantsOK, SeqEmpty DEF Init, TypeOK, Phases
<1>3. RecordCoversTable
  BY DEF Init, Named, RecordCoversTable
<1> QED
  BY Zenon, <1>2, <1>3 DEF Init, IndInv, Holding

\* Every step preserves it.
LEMMA NextIndInv ==
  ASSUME SpawnAssumption, IndInv, [Next]_vars
  PROVE  IndInv'
<1>1. CASE Progress
  BY <1>1, BootRecoveryStep, BootRecoveredStep, RecoverDeleteStep, ClearBypassStep,
     BypassClearedStep, InstallStep, SweepDoneStep, PreCheckpointStep,
     SetupConfirmedStep, SetupExitStep, SetupSpawnStep, SetupDoneStep,
     BeginRollbackStep, UndoRouteStep, UndoDoneStep
  DEF Progress
<1>2. CASE Environment
  BY <1>2, CrashStep, EnvironmentStep, StartAbandonedStep, StopStep, DefaultGatewayStep
  DEF Environment
<1>3. CASE UNCHANGED vars
  <2>1. UNCHANGED <<pc, locals, sess, ipv6, crashes>> /\ UNCHANGED <<ours, theirs, faults, disk>>
    BY <1>3 DEF vars, locals
  <2> QED
    BY <2>1, OutsideStep, ZenonT(60) DEF IndInv, TypeOK
<1> QED
  BY <1>1, <1>2, <1>3 DEF Next

\* The inductive invariant holds in every reachable state.
THEOREM IndInvHolds ==
  ASSUME SpawnAssumption
  PROVE  Spec => []IndInv
<1>1. Init => IndInv
  BY InitIndInv
<1>2. IndInv /\ [Next]_vars => IndInv'
  BY NextIndInv
<1> QED
  BY <1>1, <1>2, PTL DEF Spec

\* Whatever crashes or fails between two steps, every route this program put
\* into the host table is named by the route file, or the file is one that
\* cannot be read.
THEOREM RecordAlwaysCovers ==
  ASSUME SpawnAssumption
  PROVE  Spec => []RecordCoversTable
<1>1. IndInv => RecordCoversTable
  BY DEF IndInv
<1> QED
  BY <1>1, IndInvHolds, PTL

\* Every variable keeps its type.
THEOREM TypeCorrect ==
  ASSUME SpawnAssumption
  PROVE  Spec => []TypeOK
<1>1. IndInv => TypeOK
  BY DEF IndInv
<1> QED
  BY <1>1, IndInvHolds, PTL



-----------------------------------------------------------------------------
(* Issued argvs, and the routes of an install. *)

\* Only a recovery or a sweep remembers what it issued.
LEMMA IssuedStep ==
  ASSUME pc \notin {"boot", "sweep"} => issued = {}, [Next]_vars
  PROVE  (pc \notin {"boot", "sweep"} => issued = {})'
<1>1. CASE Progress
  <2>1. CASE BootRecovery \/ BootRecovered \/ BypassCleared \/ Install \/ SweepDone \/ UndoDone
    BY <2>1 DEF BootRecovery, BootRecovered, BypassCleared, Install, SweepDone, UndoDone, Forget
  <2>2. CASE \E g \in Identities, id \in RouteIds : RecoverDelete(g, id)
    BY <2>2 DEF RecoverDelete
  <2>3. CASE \E e \in pending : ClearBypass(e)
    BY <2>3 DEF ClearBypass
  <2>4. CASE PreCheckpoint \/ SetupConfirmed \/ SetupExit \/ SetupSpawn \/ SetupDone
    BY <2>4 DEF PreCheckpoint, SetupConfirmed, SetupExit, SetupSpawn, SetupDone, locals
  <2>5. CASE BeginRollback \/ UndoRoute
    BY <2>5 DEF BeginRollback, UndoRoute
  <2> QED
    BY Zenon, <1>1, <2>1, <2>2, <2>3, <2>4, <2>5 DEF Progress
<1>2. CASE Environment
  <2>1. CASE Crash \/ RecordUnreadable \/ StartAbandoned \/ Stop
    BY <2>1 DEF Crash, RecordUnreadable, StartAbandoned, Stop, Forget, locals
  <2>2. CASE \E s \in Identities : DefaultGateway(s)
    BY <2>2 DEF DefaultGateway
  <2>3. CASE \E t \in Tuns : TunVanishes(t)
    BY <2>3 DEF TunVanishes, locals
  <2>4. CASE \E s \in Slots : ForeignClaims(s)
    BY <2>4 DEF ForeignClaims, locals
  <2> QED
    BY <1>2, <2>1, <2>2, <2>3, <2>4 DEF Environment
<1>3. CASE UNCHANGED vars
  BY <1>3 DEF vars
<1> QED
  BY <1>1, <1>2, <1>3 DEF Next

\* A session's routes are not the routes of another TUN.
LEMMA OtherTun ==
  ASSUME NEW g \in Identities, NEW t, t # g.tun, NEW id
  PROVE  RouteOf(g, id) \notin ViaTun(t)
<1>1. CASE id = Bypass
  <2>1. RouteOf(g, id).via = <<"uplink", g.uplink>>
    BY <1>1 DEF RouteOf
  <2>2. RouteOf(g, id).via[1] # "tun"
    BY <2>1
  <2> QED
    BY <2>2 DEF ViaTun
<1>2. CASE id # Bypass
  <2>1. RouteOf(g, id).via = <<"tun", g.tun>>
    BY <1>2 DEF RouteOf
  <2> QED
    BY <2>1 DEF ViaTun
<1> QED
  BY <1>1, <1>2

\* What an install has confirmed is planned, and until it is abandoned it is
\* in the host table.
Confirmed ==
  /\ pc \in {"setup", "cmd", "abort", "live"} => acc \subseteq Planned(sess.server)
  /\ pc \in {"setup", "cmd", "live"} => \A id \in acc : RouteOf(sess, id) \in ours

\* The steps of an install keep it.
LEMMA ConfirmedInstall ==
  ASSUME IndInv, Confirmed,
         SweepDone \/ PreCheckpoint \/ SetupConfirmed \/ SetupExit \/ SetupSpawn \/ SetupDone
  PROVE  Confirmed'
<1>1. CASE SweepDone
  BY <1>1 DEF SweepDone, Confirmed
<1>2. CASE PreCheckpoint
  BY <1>2 DEF PreCheckpoint, Confirmed
<1>3. CASE SetupConfirmed
  <2>1. Head(todo) \in Planned(sess.server)
    BY Zenon, <1>3, SeqHeadTail DEF SetupConfirmed, IndInv
  <2> QED
    BY Zenon, <1>3, <2>1 DEF SetupConfirmed, RouteGoesIn, Confirmed
<1>4. CASE SetupExit
  BY <1>4 DEF SetupExit, Confirmed
<1>5. CASE SetupSpawn
  BY <1>5 DEF SetupSpawn, RouteGoesIn, Confirmed
<1>6. CASE SetupDone
  BY <1>6 DEF SetupDone, locals, Confirmed
<1> QED
  BY <1>1, <1>2, <1>3, <1>4, <1>5, <1>6

\* Every step keeps it.
LEMMA ConfirmedStep ==
  ASSUME IndInv, Confirmed, [Next]_vars
  PROVE  Confirmed'
<1>1. CASE Progress
  <2>1. CASE BootRecovery \/ BootRecovered \/ BypassCleared \/ Install \/ UndoDone
    BY <2>1 DEF BootRecovery, BootRecovered, BypassCleared, Install, UndoDone, Confirmed
  <2>2. CASE \E g \in Identities, id \in RouteIds : RecoverDelete(g, id)
    BY <2>2 DEF RecoverDelete, Confirmed
  <2>3. CASE \E e \in pending : ClearBypass(e)
    BY <2>3 DEF ClearBypass, Confirmed
  <2>4. CASE BeginRollback \/ UndoRoute
    BY <2>4 DEF BeginRollback, UndoRoute, Confirmed
  <2> QED
    BY Zenon, <1>1, <2>1, <2>2, <2>3, <2>4, ConfirmedInstall DEF Progress
<1>2. CASE Environment
  <2>1. CASE Crash \/ StartAbandoned \/ Stop
    BY <2>1 DEF Crash, StartAbandoned, Stop, Confirmed
  <2>2. CASE RecordUnreadable
    BY <2>2 DEF RecordUnreadable, locals, Confirmed
  <2>3. CASE \E s \in Identities : DefaultGateway(s)
    BY <2>3 DEF DefaultGateway, Confirmed
  <2>4. ASSUME NEW t \in Tuns, TunVanishes(t) PROVE Confirmed'
    <3>1. pc \in {"setup", "cmd", "live"} => \A id : RouteOf(sess, id) \notin ViaTun(t)
      BY Zenon, <2>4, OtherTun DEF TunVanishes, IndInv, TypeOK
    <3> QED
      BY Zenon, <2>4, <3>1 DEF TunVanishes, locals, Confirmed
  <2>5. CASE \E s \in Slots : ForeignClaims(s)
    BY <2>5 DEF ForeignClaims, locals, Confirmed
  <2> QED
    BY <1>2, <2>1, <2>2, <2>3, <2>4, <2>5 DEF Environment
<1>3. CASE UNCHANGED vars
  BY <1>3 DEF vars, Confirmed
<1> QED
  BY <1>1, <1>2, <1>3 DEF Next

-----------------------------------------------------------------------------
(* A pass without faults: what it owes. *)

\* A step that leaves the count of faults at zero spent none.
LEMMA SpendNone ==
  ASSUME TypeOK, NEW n \in Nat, Spend(n), faults' = 0
  PROVE  n = 0 /\ faults = 0
<1>1. faults \in Nat
  BY ConstantsOK DEF TypeOK
<1> QED
  BY <1>1 DEF Spend

\* So it is not a faulty one.
LEMMA NotFault ==
  ASSUME TypeOK, faults' = 0
  PROVE  ~Fault /\ (NoFault => faults = 0)
<1>1. 0 \in Nat /\ 1 \in Nat /\ 1 # 0
  OBVIOUS
<1> QED
  BY <1>1, SpendNone DEF Fault, NoFault

\* Without a fault a logged write lands.
LEMMA WriteLands ==
  ASSUME TypeOK, NEW rec, NEW n \in Nat, WriteLogged(rec, n), faults' = 0
  PROVE  n = 0 /\ faults = 0 /\ (disk # Unreadable => disk' = rec)
<1>1. n + 1 \in Nat /\ n + 1 # 0
  OBVIOUS
<1> QED
  BY <1>1, SpendNone DEF WriteLogged

\* On macOS a delete that does not confirm is a fault.
LEMMA UnconfirmedIsFault ==
  ASSUME ~Scoped, NEW argv
  PROVE  UnconfirmedCost(argv) \in Nat /\ UnconfirmedCost(argv) # 0
  BY DEF UnconfirmedCost

\* The ids of the command list are the planned ones.
LEMMA PlanCovers ==
  ASSUME NEW s
  PROVE  Planned(s) \subseteq {Plan(s)[i] : i \in DOMAIN Plan(s)}
<1>1. Splits \in Seq(STRING)
  BY ConstantsOK
<1>2. CASE s \in Loopbacks
  BY <1>2 DEF Plan, Planned, SplitSet
<1>3. CASE s \notin Loopbacks
  <2>1. Len(Splits) \in Nat /\ DOMAIN Splits = 1 .. Len(Splits)
    BY <1>1
  <2>2. /\ DOMAIN Append(Splits, Bypass) = 1 .. (Len(Splits) + 1)
        /\ Append(Splits, Bypass)[Len(Splits) + 1] = Bypass
        /\ \A i \in 1 .. Len(Splits) : Append(Splits, Bypass)[i] = Splits[i]
    BY <1>1
  <2>3. Len(Splits) + 1 \in DOMAIN Append(Splits, Bypass) /\ DOMAIN Splits \subseteq DOMAIN Append(Splits, Bypass)
    BY <2>1, <2>2
  <2> QED
    BY <1>3, <2>1, <2>2, <2>3 DEF Plan, Planned, SplitSet
<1> QED
  BY <1>2, <1>3

\* Dropping the first command loses only its id.
LEMMA TailCovers ==
  ASSUME NEW q \in Seq(RouteIds), q # <<>>
  PROVE  {q[i] : i \in DOMAIN q} \subseteq {Head(q)} \cup {Tail(q)[i] : i \in DOMAIN Tail(q)}
<1>1. Len(q) \in Nat \ {0} /\ DOMAIN q = 1 .. Len(q) /\ Head(q) = q[1]
  BY SeqEmpty
<1>2. /\ DOMAIN Tail(q) = 1 .. (Len(q) - 1)
      /\ \A j \in 1 .. (Len(q) - 1) : Tail(q)[j] = q[j + 1]
  BY <1>1
<1> SUFFICES ASSUME NEW i \in DOMAIN q, i # 1
            PROVE  \E j \in DOMAIN Tail(q) : q[i] = Tail(q)[j]
  BY <1>1
<1>3. i - 1 \in 1 .. (Len(q) - 1) /\ (i - 1) + 1 = i
  BY <1>1
<1> QED
  BY <1>2, <1>3

-----------------------------------------------------------------------------
(* One lemma per action: without faults it leaves no debt behind. *)

\* A pass that has issued no delete has no argvs to skip.
LEMMA NoneIssued ==
  ASSUME issued' = {}
  PROVE  IssuedArgvs' = {}
  BY DEF IssuedArgvs

\* Reading the record at process start.
LEMMA BootRecoveryClean ==
  ASSUME IndInv, PassInv, BootRecovery, ~Scoped, faults' = 0
  PROVE  NoDebtBetween'
<1>1. faults = 0 /\ ~Fault
  BY NotFault DEF BootRecovery, IndInv
<1>2. disk # Unreadable /\ disk' = disk /\ issued' = {}
  BY Zenon, <1>1 DEF BootRecovery, PassInv, NoDebtBetween
<1>3. pc' = "boot" \/ (pc' = "idle" /\ disk = Nothing)
  BY <1>1, <1>2 DEF BootRecovery
<1>4. IssuedArgvs' = {}
  BY <1>2, NoneIssued
<1> QED
  BY Zenon, <1>2, <1>3, <1>4 DEF NoDebtBetween

\* A recovery's delete takes what it deleted out of every group.
LEMMA RecoverDeleteClean ==
  ASSUME IndInv, PassInv, NEW g \in Identities, NEW id \in RouteIds, RecoverDelete(g, id),
         ~Scoped, faults' = 0
  PROVE  NoDebtBetween'
<1> DEFINE argv == DeleteArgv(g, id)
<1>1. ~WriteLogged(mem, UnconfirmedCost(argv))
  BY Zenon, WriteLands, UnconfirmedIsFault DEF IndInv
<1>2. /\ mem' = Narrow(mem, argv) /\ WriteLogged(mem', 0) /\ issued' = issued \cup {<<g, id>>}
      /\ pc' = pc /\ pc \in {"boot", "sweep"}
  BY <1>1 DEF RecoverDelete
<1>3. faults = 0 /\ (disk # Unreadable => disk' = mem')
  <2>1. 0 \in Nat
    OBVIOUS
  <2> QED
    BY Zenon, <1>2, <2>1, WriteLands DEF IndInv
<1>4. NoDebtBetween /\ mem \in RouteState
  BY Zenon, <1>3 DEF PassInv, IndInv, TypeOK
<1>5. disk' # Unreadable
  BY Zenon, <1>2, <1>3, <1>4, NarrowType, RecordIsNeither DEF NoDebtBetween
<1>6. ASSUME NEW h \in Identities, NEW i \in Ledger(mem', h)
      PROVE  DeleteArgv(h, i) \notin IssuedArgvs'
  <2>1. i \in Ledger(mem, h) /\ DeleteArgv(h, i) # argv
    BY <1>2, <1>4, <1>6 DEF Ledger, Narrow, NarrowIds, RouteState
  <2>2. DeleteArgv(h, i) \notin IssuedArgvs
    BY Zenon, <1>2, <1>4, <2>1 DEF NoDebtBetween
  <2> DEFINE before == IssuedArgvs
  <2>3. ASSUME NEW p \in issued' PROVE DeleteArgv(p[1], p[2]) \in before \cup {argv}
    <3>1. CASE p \in issued
      BY <3>1 DEF IssuedArgvs
    <3>2. CASE p = <<g, id>>
      BY <3>2
    <3> QED
      BY <1>2, <2>3, <3>1, <3>2
  <2> QED
    <3> HIDE DEF before
    <3>1. IssuedArgvs' \subseteq before \cup {argv}
      BY <2>3 DEF IssuedArgvs
    <3> QED
      BY <2>1, <2>2, <3>1 DEF before
<1>7. pc = "sweep" => mem'.stale = NoStale
  <2>1. \A h \in Identities : NoStale[h] = {}
    BY DEF NoStale
  <2>2. pc = "sweep" => mem'.stale = [h \in Identities |-> {}]
    BY <1>2, <1>4, <2>1 DEF Narrow, NarrowIds, RouteState, NoDebtBetween
  <2> QED
    BY <2>2 DEF NoStale
<1> QED
  BY Zenon, <1>2, <1>5, <1>6, <1>7 DEF NoDebtBetween

\* A recovery that has issued every delete has nothing left to name.
LEMMA NothingLeft ==
  ASSUME IndInv, NoDebtBetween, pc \in {"boot", "sweep"}, Unissued = {}
  PROVE  Empty(mem)
<1>1. mem \in RouteState
  BY Zenon DEF IndInv, TypeOK
<1>2. ASSUME NEW g \in Identities PROVE Ledger(mem, g) = {}
  <2>1. SUFFICES ASSUME NEW id \in Ledger(mem, g) PROVE FALSE
    BY Zenon
  <2>2. <<g, id>> \in Unissued
    BY <1>1, LedgerType DEF Unissued, NoDebtBetween
  <2> QED
    BY <2>2
<1>3. mem.installed = {}
  BY <1>1, <1>2 DEF Ledger, RouteState
<1>4. \A g \in Identities : mem.stale[g] = {}
  BY Zenon, <1>1, <1>2 DEF Ledger, RouteState
<1> QED
  BY <1>1, <1>3, <1>4 DEF Empty, NoStale, RouteState

\* So it clears the file.
LEMMA BootRecoveredClean ==
  ASSUME IndInv, PassInv, BootRecovered, ~Scoped, faults' = 0
  PROVE  NoDebtBetween'
<1>1. 0 \in Nat
  BY Zenon
<1>2. faults = 0
  BY <1>1, WriteLands DEF BootRecovered, RemoveLogged, IndInv
<1>3. Empty(mem) /\ disk # Unreadable
  BY Zenon, <1>2, NothingLeft DEF BootRecovered, PassInv, NoDebtBetween
<1>4. disk' = Nothing
  BY Zenon, <1>1, <1>3, WriteLands DEF BootRecovered, RemoveLogged, IndInv
<1> QED
  BY <1>4, NothingIsReadable DEF BootRecovered, NoDebtBetween

\* A start finds no record, and clears nothing.
LEMMA DefaultGatewayClean ==
  ASSUME IndInv, PassInv, NEW s \in Identities, DefaultGateway(s), ~Scoped, faults' = 0
  PROVE  NoDebtBetween'
<1>1. faults = 0 /\ ~Fault
  BY ZenonT(40), NotFault DEF DefaultGateway, IndInv
<1>2. disk = Nothing
  BY Zenon, <1>1 DEF DefaultGateway, PassInv, NoDebtBetween
<1>3. pc' = "ready" /\ disk' = disk
  BY <1>1, <1>2 DEF DefaultGateway
<1> QED
  BY Zenon, <1>2, <1>3, NothingIsReadable DEF NoDebtBetween

\* An install begins with an empty record.
LEMMA InstallClean ==
  ASSUME IndInv, PassInv, Install, ~Scoped, faults' = 0
  PROVE  NoDebtBetween'
<1>1. faults = 0
  <2>1. 0 \in Nat
    OBVIOUS
  <2> QED
    BY <2>1, NotFault, WriteLands DEF Install, IndInv
<1>2. disk = Nothing
  BY Zenon, <1>1 DEF Install, PassInv, NoDebtBetween
<1>3. disk' = disk /\ mem' = Blank(sess) /\ pc' = "sweep" /\ issued' = {}
  BY <1>2, NothingIsReadable DEF Install
<1>4. mem'.stale = NoStale
  BY <1>3 DEF Blank
<1>5. IssuedArgvs' = {}
  BY <1>3, NoneIssued
<1> QED
  BY Zenon, <1>2, <1>3, <1>4, <1>5, NothingIsReadable DEF NoDebtBetween

\* The sweep before it has nothing to do.
LEMMA SweepDoneClean ==
  ASSUME IndInv, PassInv, SweepDone, ~Scoped, faults' = 0
  PROVE  NoDebtBetween'
<1>1. 0 \in Nat /\ mem \in RouteState
  BY DEF IndInv, TypeOK
<1>2. faults = 0
  BY Zenon, <1>1, WriteLands, NotFault DEF SweepDone, IndInv
<1>3. NoDebtBetween
  BY <1>2 DEF PassInv
<1>4. disk' # Unreadable
  <2>1. disk # Unreadable
    BY <1>3, Zenon DEF NoDebtBetween, SweepDone
  <2>2. CASE UNCHANGED disk
    BY Zenon, <2>1, <2>2
  <2>3. CASE WriteLogged(mem, 0)
    BY <1>1, <2>1, <2>3, WriteLands, RecordIsNeither DEF IndInv
  <2> QED
    BY <2>2, <2>3 DEF SweepDone
<1> QED
  BY ZenonT(40), <1>3, <1>4 DEF SweepDone, NoDebtBetween, IndInv

\* The checkpoint before a command of the setup loop.
LEMMA PreCheckpointClean ==
  ASSUME IndInv, PassInv, PreCheckpoint, ~Scoped, faults' = 0
  PROVE  NoDebtBetween'
<1> DEFINE rec == [mem EXCEPT !.installed = acc \cup {Head(todo)}]
<1>1. faults = 0 /\ ~Fault
  BY Zenon, NotFault DEF PreCheckpoint, IndInv
<1>2. NoDebtBetween /\ mem \in RouteState
  BY <1>1 DEF PassInv, IndInv, TypeOK
<1>3. disk' = rec /\ mem' = rec /\ pc' = "cmd"
  BY <1>1, <1>2 DEF PreCheckpoint, NoDebtBetween
<1>4. mem'.stale = NoStale
  BY <1>2, <1>3 DEF PreCheckpoint, NoDebtBetween, RouteState
<1>5. disk' # Unreadable
  <2>1. "id" \in DOMAIN rec /\ "id" \notin DOMAIN Unreadable
    BY Zenon, <1>2 DEF RouteState, Unreadable
  <2> QED
    BY <1>3, <2>1
<1> QED
  BY <1>3, <1>4, <1>5 DEF NoDebtBetween

\* The checkpoint after one leaves the confirmed ids in the record.
LEMMA NarrowedClean ==
  ASSUME IndInv, PassInv, NEW n \in Nat, Narrowed(n), pc = "cmd", pc' \in {"setup", "abort"},
         ~Scoped, faults' = 0
  PROVE  NoDebtBetween' /\ n = 0
<1> DEFINE rec == [mem EXCEPT !.installed = acc']
<1>1. n + 1 \in Nat /\ n + 1 # 0
  OBVIOUS
<1>2. n = 0 /\ faults = 0 /\ ~Spend(n + 1)
  BY Zenon, <1>1, SpendNone DEF Narrowed, IndInv
<1>3. NoDebtBetween /\ mem \in RouteState
  BY Zenon, <1>2 DEF PassInv, IndInv, TypeOK
<1>4. disk' = rec /\ mem' = rec
  BY <1>2, <1>3 DEF Narrowed, NoDebtBetween
<1>5. mem'.stale = NoStale /\ mem'.installed = acc'
  BY <1>3, <1>4 DEF NoDebtBetween, RouteState
<1>6. disk' # Unreadable
  <2>1. "id" \in DOMAIN rec /\ "id" \notin DOMAIN Unreadable
    BY <1>3 DEF RouteState, Unreadable
  <2> QED
    BY <1>4, <2>1
<1> QED
  BY <1>2, <1>5, <1>6 DEF NoDebtBetween

\* A command that confirmed, was refused or did not run.
LEMMA SetupClean ==
  ASSUME IndInv, PassInv, SetupConfirmed \/ SetupExit \/ SetupSpawn, ~Scoped, faults' = 0
  PROVE  NoDebtBetween'
<1>1. 0 \in Nat /\ 1 \in Nat /\ 1 # 0
  OBVIOUS
<1>2. CASE SetupConfirmed
  BY <1>1, <1>2, NarrowedClean DEF SetupConfirmed
<1>3. CASE SetupExit
  <2> DEFINE cost == IF Slot(RouteOf(sess, Head(todo))) \in HeldSlots \/ ~FatalId(Head(todo))
                     THEN 0 ELSE 1
  <2>1. cost \in Nat
    OBVIOUS
  <2>2. Narrowed(cost) /\ pc = "cmd" /\ pc' \in {"setup", "abort"}
    BY <1>3 DEF SetupExit
  <2> HIDE DEF cost
  <2> QED
    BY <2>1, <2>2, NarrowedClean
<1>4. CASE SetupSpawn
  <2>1. ~Fault
    BY NotFault DEF IndInv
  <2>2. Narrowed(1) /\ pc = "cmd" /\ pc' = "setup"
    BY Zenon, <1>4, <2>1 DEF SetupSpawn
  <2> QED
    BY Zenon, <1>1, <2>2, NarrowedClean
<1> QED
  BY <1>2, <1>3, <1>4

\* The end of the setup loop.
LEMMA SetupDoneClean ==
  ASSUME IndInv, PassInv, SetupDone, ~Scoped, faults' = 0
  PROVE  NoDebtBetween'
<1>1. NoDebtBetween
  BY Zenon DEF SetupDone, PassInv
<1> QED
  BY <1>1 DEF SetupDone, locals, NoDebtBetween

\* A rollback begins with nothing uncertain, and every confirmed id to do.
LEMMA BeginRollbackClean ==
  ASSUME IndInv, PassInv, BeginRollback, ~Scoped, faults' = 0
  PROVE  NoDebtBetween'
<1>1. 0 \in Nat /\ mem \in RouteState
  BY Zenon DEF IndInv, TypeOK
<1>2. faults = 0 /\ (disk # Unreadable => disk' = mem')
  BY <1>1, WriteLands DEF BeginRollback, IndInv
<1>3. NoDebtBetween
  BY <1>2 DEF PassInv
<1>4. extra' = {} /\ acc' = acc /\ pc' = "rollback"
  BY <1>3 DEF BeginRollback, NoDebtBetween
<1>5. mem'.stale = NoStale /\ "id" \in DOMAIN mem'
  BY Zenon, <1>1, <1>3 DEF BeginRollback, NoDebtBetween, RouteState
<1>6. disk' # Unreadable
  <2>1. "id" \notin DOMAIN Unreadable
    BY DEF Unreadable
  <2> QED
    BY <1>2, <1>3, <1>5, <2>1 DEF NoDebtBetween
<1>7. acc' \subseteq {todo'[i] : i \in DOMAIN todo'}
  <2>1. acc \subseteq Planned(sess.server) /\ todo' = Plan(sess.server)
    BY DEF BeginRollback, PassInv
  <2> QED
    BY <1>4, <2>1, PlanCovers
<1> QED
  BY Zenon, <1>4, <1>5, <1>6, <1>7 DEF NoDebtBetween

\* A stop likewise.
LEMMA StopClean ==
  ASSUME IndInv, PassInv, Stop, ~Scoped, faults' = 0
  PROVE  NoDebtBetween'
<1>1. NoDebtBetween /\ mem \in RouteState
  BY DEF Stop, PassInv, IndInv, TypeOK
<1>2. mem'.stale = NoStale
  BY <1>1 DEF Stop, NoDebtBetween, RouteState
<1>3. acc' \subseteq {todo'[i] : i \in DOMAIN todo'}
  <2>1. acc' = acc /\ acc \subseteq Planned(sess.server) /\ todo' = Plan(sess.server)
    BY DEF Stop, PassInv
  <2> QED
    BY <2>1, PlanCovers
<1> QED
  BY <1>1, <1>2, <1>3 DEF Stop, NoDebtBetween

\* One delete of a teardown or a rollback: the ids left are still to do.
LEMMA UndoRouteClean ==
  ASSUME IndInv, PassInv, UndoRoute, ~Scoped, faults' = 0
  PROVE  NoDebtBetween'
<1> DEFINE id == Head(todo)
           argv == DeleteArgv(sess, id)
<1>1. 0 \in Nat /\ mem \in RouteState /\ todo \in Seq(RouteIds)
  BY DEF IndInv, TypeOK
<1>2. ~WriteLogged(mem, UnconfirmedCost(argv))
  BY Zenon, WriteLands, UnconfirmedIsFault DEF IndInv
<1>3. \/ id \notin acc /\ UNCHANGED <<disk, mem, acc, faults>>
      \/ acc' = acc \ {id} /\ mem' = [mem EXCEPT !.installed = acc' \cup extra] /\ WriteLogged(mem', 0)
  BY <1>2 DEF UndoRoute
<1>4. faults = 0 /\ (disk # Unreadable => disk' \in {disk, mem'})
  BY Zenon, <1>1, <1>3, WriteLands DEF IndInv
<1>5. NoDebtBetween
  BY <1>4 DEF PassInv
<1>6. mem'.stale = NoStale /\ "id" \in DOMAIN mem'
  BY Zenon, <1>1, <1>3, <1>5 DEF UndoRoute, NoDebtBetween, RouteState
<1>7. disk' # Unreadable
  <2>1. "id" \notin DOMAIN Unreadable
    BY DEF Unreadable
  <2> QED
    BY Zenon, <1>4, <1>5, <1>6, <2>1 DEF NoDebtBetween
<1>8. acc' \subseteq {todo'[i] : i \in DOMAIN todo'}
  <2>1. acc' \subseteq acc \ {id}
    BY <1>3
  <2>2. acc \subseteq {todo[i] : i \in DOMAIN todo}
    BY <1>5 DEF UndoRoute, NoDebtBetween
  <2>3. todo' = Tail(todo) /\ todo # <<>>
    BY DEF UndoRoute
  <2>4. acc' \subseteq {Tail(todo)[i] : i \in DOMAIN Tail(todo)}
    BY Zenon, <1>1, <2>1, <2>2, <2>3, TailCovers
  <2> QED
    BY <2>3, <2>4
<1> QED
  BY Zenon, <1>5, <1>6, <1>7, <1>8 DEF UndoRoute, NoDebtBetween

\* With all of them done nothing is left, and the file is cleared.
LEMMA UndoDoneClean ==
  ASSUME IndInv, PassInv, UndoDone, ~Scoped, faults' = 0
  PROVE  NoDebtBetween'
<1>1. 0 \in Nat
  BY Zenon
<1>2. faults = 0
  BY Zenon, <1>1, WriteLands, NotFault DEF UndoDone, RemoveLogged, IndInv
<1>3. NoDebtBetween
  BY Zenon, <1>2 DEF PassInv
<1>4. acc = {} /\ extra = {} /\ mem.stale = NoStale
  <2>1. /\ extra = {} /\ mem.stale = NoStale /\ todo = <<>>
        /\ acc \subseteq {todo[i] : i \in DOMAIN todo}
    BY Zenon, <1>3 DEF UndoDone, NoDebtBetween
  <2>2. DOMAIN todo = {}
    BY <2>1
  <2> QED
    BY Zenon, <2>1, <2>2
<1>5. Empty(mem)
  BY <1>4 DEF UndoDone, Empty, IndInv
<1>6. disk' = Nothing
  BY ZenonT(40), <1>1, <1>3, <1>5, WriteLands DEF UndoDone, RemoveLogged, IndInv, NoDebtBetween
<1> QED
  BY <1>6, NothingIsReadable DEF UndoDone, NoDebtBetween

\* The environment's steps.
LEMMA EnvironmentClean ==
  ASSUME IndInv, PassInv, ~Scoped, faults' = 0,
         \/ Crash \/ RecordUnreadable \/ StartAbandoned
         \/ \E t \in Tuns : TunVanishes(t)
         \/ \E s \in Slots : ForeignClaims(s)
         \/ UNCHANGED vars
  PROVE  NoDebtBetween'
<1>1. CASE Crash
  BY Zenon, <1>1 DEF Crash, PassInv, NoDebtBetween
<1>2. CASE RecordUnreadable
  BY ZenonT(40), <1>2, NotFault DEF RecordUnreadable, IndInv
<1>3. CASE StartAbandoned
  BY ZenonT(40), <1>3 DEF StartAbandoned, PassInv, NoDebtBetween
<1>4. ASSUME UNCHANGED <<pc, disk, locals, sess, ipv6, crashes, faults>> PROVE NoDebtBetween'
  <2>1. NoDebtBetween
    BY Zenon, <1>4 DEF PassInv
  <2> QED
    BY Zenon, <1>4, <2>1 DEF locals, NoDebtBetween, Ledger, IssuedArgvs
<1>5. CASE \E t \in Tuns : TunVanishes(t)
  BY <1>4, <1>5 DEF TunVanishes
<1>6. CASE \E s \in Slots : ForeignClaims(s)
  BY <1>4, <1>6 DEF ForeignClaims
<1>7. CASE UNCHANGED vars
  BY <1>4, <1>7 DEF vars, locals
<1> QED
  BY <1>1, <1>2, <1>3, <1>5, <1>6, <1>7

\* Without a fault a start never has a bypass to clear.
LEMMA ClearClean ==
  ASSUME IndInv, PassInv, BypassCleared \/ \E e \in pending : ClearBypass(e),
         ~Scoped, faults' = 0
  PROVE  NoDebtBetween'
<1>1. 0 \in Nat
  OBVIOUS
<1>2. CASE BypassCleared
  <2>1. faults = 0
    BY ZenonT(40), <1>1, <1>2, WriteLands, NotFault DEF BypassCleared, IndInv
  <2> QED
    BY Zenon, <1>2, <2>1 DEF BypassCleared, PassInv, NoDebtBetween
<1>3. ASSUME NEW e \in pending, ClearBypass(e) PROVE NoDebtBetween'
  <2>1. faults = 0
    <3>1. UnconfirmedCost(DeleteArgv(e[2], Bypass)) \in Nat
      BY UnconfirmedIsFault
    <3> QED
      BY ZenonT(40), <1>3, <3>1, SpendNone, NotFault DEF ClearBypass, IndInv
  <2> QED
    BY Zenon, <1>3, <2>1 DEF ClearBypass, PassInv, NoDebtBetween
<1> QED
  BY <1>2, <1>3

-----------------------------------------------------------------------------
(* The theorems. *)

\* Every step preserves the invariant of the passes.
LEMMA NextPassInv ==
  ASSUME IndInv, PassInv, [Next]_vars
  PROVE  PassInv'
<1>1. (pc \notin {"boot", "sweep"} => issued = {})'
  BY IssuedStep DEF PassInv
<1>2. Confirmed'
  BY ConfirmedStep DEF PassInv, Confirmed
<1>3. ASSUME ~Scoped, faults' = 0 PROVE NoDebtBetween'
  <2>1. CASE Progress
    BY Zenon, <1>3, <2>1, BootRecoveryClean, BootRecoveredClean, RecoverDeleteClean, ClearClean,
       InstallClean, SweepDoneClean, PreCheckpointClean, SetupClean, SetupDoneClean,
       BeginRollbackClean, UndoRouteClean, UndoDoneClean
    DEF Progress
  <2>2. CASE Environment
    BY Zenon, <1>3, <2>2, EnvironmentClean, StopClean, DefaultGatewayClean DEF Environment
  <2> QED
    BY Zenon, <1>3, <2>1, <2>2, EnvironmentClean DEF Next
<1> QED
  BY <1>1, <1>2, <1>3 DEF PassInv, Confirmed

\* The first state satisfies it.
LEMMA InitPassInv == Init => PassInv
<1> SUFFICES ASSUME Init PROVE PassInv
  OBVIOUS
<1>1. disk # Unreadable
  BY Zenon, NothingIsReadable, RecordIsNeither, ConstantsOK DEF Init
<1> QED
  BY <1>1 DEF Init, PassInv, NoDebtBetween

\* Both inductive invariants hold in every reachable state: what the file and
\* each handler's record name, and what each pass still has to undo.
THEOREM RouteInvHolds ==
  ASSUME SpawnAssumption
  PROVE  Spec => []RouteInv
<1>1. Init => RouteInv
  BY InitIndInv, InitPassInv DEF RouteInv
<1>2. RouteInv /\ [Next]_vars => RouteInv'
  BY NextIndInv, NextPassInv DEF RouteInv
<1> QED
  BY <1>1, <1>2, PTL DEF Spec

\* A session install_with reports has every planned route in the host table,
\* and a macOS bridge at rest that met no fault, whatever crashed, has neither
\* a route nor a record.
THEOREM PassesAllOrNothing ==
  ASSUME SpawnAssumption
  PROVE  Spec => []AllOrNothing
<1>1. RouteInv => AllOrNothing
  <2> SUFFICES ASSUME RouteInv PROVE SessionFullyRouted /\ NoFaultNoDebt
    BY DEF AllOrNothing
  <2>1. SessionFullyRouted
    BY Zenon DEF RouteInv, IndInv, PassInv, SessionFullyRouted
  <2>2. ASSUME pc = "idle", faults = 0, ~Scoped PROVE ours = {} /\ disk = Nothing
    <3>1. disk = Nothing
      BY <2>2 DEF RouteInv, PassInv, NoDebtBetween
    <3> QED
      BY Zenon, <3>1, NothingIsReadable DEF RouteInv, IndInv, RecordCoversTable
  <2> QED
    BY <2>1, <2>2 DEF NoFaultNoDebt
<1> QED
  BY <1>1, RouteInvHolds, PTL

=============================================================================
