------------------------------ MODULE WfpCover ------------------------------
(***************************************************************************)
(* The Windows covers: fixed WFP filter keys, written in one transaction.  *)
(* Persistent filters survive a crash and a reboot.  The two boot-time     *)
(* twins of the standing block have a runtime object, which a boot removes *)
(* or disables (both readings of WFP are explored), and a policy record    *)
(* behind it that nothing can read; deleting a live object purges the      *)
(* record (the source's own assumption).  A file, the arming witness, is   *)
(* what a later sweep knows of the record.                                 *)
(***************************************************************************)
EXTENDS Naturals, FiniteSets

CONSTANTS WfpConfigs,     \* what a cover is built for: 1, 2, ...
          Luids,          \* NET_LUIDs: 1, 2, ...
          MaxWfpFaults    \* bound: refused calls, lost writes, crashes and reboots

ASSUME WfpAssumption == WfpConfigs \subseteq Nat \ {0} /\ Luids \subseteq Nat \ {0}

VARIABLES store,       \* the value in every persistent filter, 0 when not installed
          twin,        \* every boot-time twin: its object, its policy record
          witness,     \* bridge-boottime.json
          wfpAt,       \* where the one process that holds the bridge's lock is
          guards,        \* the Cover guards it holds
          adapters,    \* the LUID of hole-tun and of another adapter, 0 for none
          last,        \* what the last operation returned
          lost,        \* a record of arming was lost: a crash or a failed save
          settled,     \* this run adopted the cover and has not engaged since
          wfpFaults

wfpVars == <<store, twin, witness, wfpAt, guards, adapters, last, lost, settled, wfpFaults>>

D == INSTANCE Decisions WITH Configs <- {"config"}, None <- "none"

IpFamilies == {"v4", "v6"}
TransientKeys == {"tPermits", "tBlock"}
Siblings == {"blockV4", "blockV6"}
LockdownKeys == {"loopback", "tun", "server", "app"} \cup Siblings
Keys == TransientKeys \cup LockdownKeys

\* What each spec puts under its keys: a constant 1, or a value known only at run time.
build_cover_spec(c) == [k \in TransientKeys |-> IF k = "tPermits" THEN c ELSE 1]
build_lockdown_spec(c) ==
  [k \in LockdownKeys |-> CASE k = "tun" -> adapters.tun [] k \in {"server", "app"} -> c [] OTHER -> 1]

transient_pre_delete == {"tPermits"}
adopt_delete == {"tun", "server"}
lockdown_pre_delete == adopt_delete \cup {"app"}

NoReport == [op |-> "none"]
Returned(op) == last' = [op |-> op]
CallFailed == wfpFaults < MaxWfpFaults /\ wfpFaults' = wfpFaults + 1
NoCallFailed == UNCHANGED wfpFaults
\* The keys whose delete is refused, for a reason other than "not found": every refusal is a fault.
Refusals(keys) == {r \in SUBSET keys : Cardinality(r) + wfpFaults <= MaxWfpFaults}
RefusalsCounted(r) == wfpFaults' = wfpFaults + Cardinality(r)

WfpInit ==
  /\ store = [k \in Keys |-> 0] /\ twin = [f \in IpFamilies |-> [object |-> "no", record |-> FALSE]]
  /\ witness = "unset" /\ wfpAt = [pc |-> "down"] /\ guards = {} /\ adapters = [tun |-> 0, other |-> 0]
  /\ last = NoReport /\ lost = FALSE /\ settled = FALSE /\ wfpFaults = 0

-----------------------------------------------------------------------------
(* Engage: pre-deletes and adds in one transaction.                        *)

\* add_filter after the pre-deletes: a key still in place keeps its filter (ok_or_exists).
add_filters(spec, pre_delete, refused) ==
  [k \in Keys |-> IF k \in DOMAIN spec /\ (store[k] = 0 \/ k \in pre_delete \ refused) THEN spec[k] ELSE store[k]]

\* StaleKeyPolicy::Degrade: a key that could not be deleted keeps its old value.
Engage(c) ==
  /\ wfpAt.pc = "up" /\ "transient" \notin guards
  /\ \E refused \in Refusals({k \in transient_pre_delete : store[k] # 0}) :
       /\ RefusalsCounted(refused)
       /\ store' = add_filters(build_cover_spec(c), transient_pre_delete, refused)
  /\ guards' = guards \cup {"transient"} /\ Returned("covered")
  /\ UNCHANGED <<twin, witness, wfpAt, adapters, lost, settled>>

MutEngageLockdown(c) ==
  /\ wfpAt.pc = "up" /\ adapters.tun # 0 /\ "lockdown" \notin guards
  /\ \E refused \in Refusals(lockdown_pre_delete \cup IpFamilies) :
       /\ RefusalsCounted(refused)
       /\ store' = add_filters(build_lockdown_spec(c), lockdown_pre_delete, refused)
       /\ twin' = [f \in IpFamilies |-> IF f \in refused /\ twin[f].object # "no" THEN twin[f] ELSE [object |-> "live", record |-> TRUE]]
       /\ wfpAt' = [pc |-> "committed", config |-> c] /\ Returned("committed")
  /\ settled' = FALSE /\ UNCHANGED <<witness, guards, adapters, lost>>
\* StaleKeyPolicy::Fail: one refused delete aborts the transaction.  The commit arms both twins.
EngageLockdown(c) ==
  /\ wfpAt.pc = "up" /\ adapters.tun # 0 /\ "lockdown" \notin guards
  /\ \E refused \in Refusals(lockdown_pre_delete \cup IpFamilies) :
       /\ RefusalsCounted(refused)
       /\ IF refused # {}
          THEN Returned("engage failed") /\ UNCHANGED <<store, twin, wfpAt>>
          ELSE /\ store' = add_filters(build_lockdown_spec(c), lockdown_pre_delete, {})
               /\ twin' = [f \in IpFamilies |-> [object |-> "live", record |-> TRUE]]
               /\ wfpAt' = [pc |-> "committed", config |-> c] /\ Returned("committed")
  /\ settled' = FALSE /\ UNCHANGED <<witness, guards, adapters, lost>>

\* write_or_warn: the write may be lost.
Save(arms) ==
  \/ witness' = (IF arms THEN "armed" ELSE "disarmed") /\ NoCallFailed /\ UNCHANGED lost
  \/ CallFailed /\ lost' = (lost \/ arms) /\ UNCHANGED witness

\* commit_and_record
RecordArmed ==
  /\ wfpAt.pc = "committed" /\ Save(TRUE)
  /\ wfpAt' = [wfpAt EXCEPT !.pc = "recorded"] /\ last' = NoReport
  /\ UNCHANGED <<store, twin, guards, adapters, settled>>

\* verify_boottime_twins: a view that was read and lacks a twin fails the engage and leaves the cover.
VerifyTwins ==
  /\ wfpAt.pc = "recorded" /\ wfpAt' = [pc |-> "up"]
  /\ \/ /\ \A f \in IpFamilies : twin[f].object = "live"
        /\ guards' = guards \cup {"lockdown"} /\ last' = [op |-> "engaged", config |-> wfpAt.config] /\ NoCallFailed
     \/ CallFailed /\ Returned("engage failed") /\ UNCHANGED guards
  /\ UNCHANGED <<store, twin, witness, adapters, lost, settled>>

-----------------------------------------------------------------------------
(* Deletes by key.                                                         *)

\* A delete of a live or disabled object takes the record with it.
FiltersDeleted(keys, fams, refused) ==
  /\ store' = [k \in Keys |-> IF k \in keys \ refused THEN 0 ELSE store[k]]
  /\ twin' = [f \in IpFamilies |-> IF f \in fams \ refused /\ twin[f].object # "no"
                                 THEN [object |-> "no", record |-> FALSE] ELSE twin[f]]

\* Drop for Cover: a refused delete is warned about and forgotten.
DropCover(kind) ==
  /\ wfpAt.pc = "up" /\ kind \in guards /\ guards' = guards \ {kind} /\ last' = NoReport
  /\ LET keys == IF kind = "transient" THEN TransientKeys ELSE LockdownKeys
         fams == IF kind = "transient" THEN {} ELSE IpFamilies
     IN \E refused \in Refusals({k \in keys : store[k] # 0} \cup fams) :
          FiltersDeleted(keys, fams, refused) /\ RefusalsCounted(refused)
  /\ UNCHANGED <<witness, wfpAt, adapters, lost, settled>>

\* Cover::detach
DetachCover(kind) ==
  /\ wfpAt.pc = "up" /\ kind \in guards /\ guards' = guards \ {kind} /\ last' = NoReport
  /\ UNCHANGED <<store, twin, witness, wfpAt, adapters, lost, settled, wfpFaults>>

\* sibling_evidence, boot_time_sightings and Clearance: what the codes of one sweep prove.
Outcome(installed, refused) == IF refused THEN "failed" ELSE IF installed THEN "removed" ELSE "not found"
Unproven(refused) == {f \in IpFamilies : Outcome(twin[f].object # "no", f \in refused) # "removed"}
SiblingEvidence(refused) ==
  LET outcomes == {Outcome(store[k] # 0, k \in refused) : k \in Siblings}
  IN IF "removed" \in outcomes THEN "installed" ELSE IF outcomes = {"not found"} THEN "absent" ELSE "unknown"
record_possible(found) == found \in {"armed", "unreadable"}

MutWitnessUpdate(refused) ==
  IF Unproven(refused) = {} \/ SiblingEvidence(refused) = "absent" THEN "disarm" ELSE "arm"
witness_update(refused) ==
  IF Unproven(refused) = {} THEN "disarm"
  ELSE IF SiblingEvidence(refused) = "absent" THEN "leave" ELSE "arm"

leftover_keys(refused) ==
  IF SiblingEvidence(refused) # "absent" \/ record_possible(witness) THEN Unproven(refused) ELSE {}

\* sweep_with_witness over disengage_lockdown or release_all: every delete is issued, then the
\* codes are read; a firewall out of reach proves nothing.
SweepOf(keys) ==
  \/ \E refused \in Refusals({k \in keys : store[k] # 0} \cup IpFamilies) :
       /\ RefusalsCounted(refused) /\ FiltersDeleted(keys, IpFamilies, refused)
       /\ wfpAt' = [pc |-> "swept", update |-> witness_update(refused), ok |-> refused = {},
                    leftover |-> leftover_keys(refused)]
  \/ /\ CallFailed /\ UNCHANGED <<store, twin>>
     /\ wfpAt' = [pc |-> "swept", update |-> "leave", ok |-> FALSE, leftover |-> {}]

Sweep(keys) ==
  /\ wfpAt.pc = "up" /\ last' = NoReport /\ SweepOf(keys)
  /\ UNCHANGED <<witness, guards, adapters, lost, settled>>

\* hole bridge unlock; the bridge's own unblock and hole bridge release-covers.
DisengageLockdown == Sweep(LockdownKeys)
ReleaseAll == Sweep(Keys)

\* next_record and apply
ApplyUpdate ==
  /\ wfpAt.pc = "swept" /\ wfpAt' = [pc |-> "up"]
  /\ last' = [op |-> "swept", ok |-> wfpAt.ok, leftover |-> wfpAt.leftover]
  /\ CASE wfpAt.update = "arm" /\ witness # "armed" -> Save(TRUE)
       [] wfpAt.update = "disarm" /\ record_possible(witness) -> Save(FALSE)
       [] OTHER -> UNCHANGED <<witness, lost, wfpFaults>>
  /\ UNCHANGED <<store, twin, guards, adapters, settled>>

-----------------------------------------------------------------------------
(* Start and recovery.                                                     *)

\* recover_cover sweeps the transient keys; the firewall may be out of reach.
RecoverCover ==
  /\ wfpAt.pc = "down" /\ wfpAt' = [pc |-> "boot"] /\ last' = NoReport
  /\ \/ FiltersDeleted(TransientKeys, {}, {}) /\ NoCallFailed
     \/ CallFailed /\ UNCHANGED <<store, twin>>
  /\ UNCHANGED <<witness, guards, adapters, lost, settled>>

\* classify_presence over the by-key reads; a read may be denied.
Presence(opened, denied) ==
  IF ~opened THEN "Unreachable"
  ELSE IF (\E k \in LockdownKeys : store[k] # 0) \/ (\E f \in IpFamilies : twin[f].object # "no")
  THEN IF denied THEN "Indeterminate" ELSE "Live"
  ELSE IF denied THEN "Indeterminate" ELSE "Absent"

MutReclaim(refused) == store' = [store EXCEPT !["tun"] = IF adapters.tun # 0 /\ ~refused THEN 0 ELSE @]
\* reclaim_stale_tun_permit: only while hole-tun resolves to no LUID, and the delete may be refused.
Reclaim(refused) == store' = [store EXCEPT !["tun"] = IF adapters.tun = 0 /\ ~refused THEN 0 ELSE @]

\* recover_lockdown, by what the intent and the presence decide.
RecoverLockdown(intent, opened, denied) ==
  /\ wfpAt.pc = "boot" /\ (denied \/ ~opened => wfpFaults < MaxWfpFaults)
  /\ last' = NoReport
  /\ LET decision == D!decide_cover_recovery(intent, Presence(opened, denied)) IN
       \/ /\ decision = "Adopt" /\ wfpAt' = [pc |-> "up"] /\ UNCHANGED twin
          /\ \E refused \in BOOLEAN :
               /\ Reclaim(refused) /\ settled' = ~refused
               /\ wfpFaults' = wfpFaults + (IF denied \/ refused THEN 1 ELSE 0) /\ wfpFaults' <= MaxWfpFaults
       \/ /\ decision = "Sweep" /\ SweepOf(LockdownKeys) /\ settled' = FALSE
       \/ /\ decision = "Noop" /\ wfpAt' = [pc |-> "up"] /\ settled' = FALSE
          /\ wfpFaults' = wfpFaults + (IF denied \/ ~opened THEN 1 ELSE 0) /\ UNCHANGED <<store, twin>>
  /\ UNCHANGED <<witness, guards, adapters, lost>>

-----------------------------------------------------------------------------
(* The environment.                                                        *)

\* The session's adapter, up while the bridge runs; a freed LUID goes to the next adapter.
SetAdapter(which, luid) ==
  /\ which = "tun" => wfpAt.pc = "up"
  /\ luid = 0 \/ (adapters[which] = 0 /\ luid \notin {adapters.tun, adapters.other})
  /\ adapters[which] # luid /\ adapters' = [adapters EXCEPT ![which] = luid] /\ last' = NoReport
  /\ UNCHANGED <<store, twin, witness, wfpAt, guards, lost, settled, wfpFaults>>

WitnessSpoilt ==
  /\ CallFailed /\ witness' = "unreadable" /\ last' = NoReport
  /\ UNCHANGED <<store, twin, wfpAt, guards, adapters, lost, settled>>

ProcessGone ==
  /\ CallFailed /\ wfpAt' = [pc |-> "down"] /\ guards' = {} /\ settled' = FALSE /\ last' = NoReport
  /\ lost' = (lost \/ wfpAt.pc = "committed")

WfpCrash ==
  /\ wfpAt.pc # "down" /\ ProcessGone /\ adapters' = [adapters EXCEPT !.tun = 0]
  /\ UNCHANGED <<store, twin, witness>>

\* BFE re-adds the persistent filters; a twin's object is gone or disabled.
Reboot ==
  /\ ProcessGone /\ adapters' = [tun |-> 0, other |-> 0]
  /\ \E object \in {"no", "spent"} :
       twin' = [f \in IpFamilies |-> IF twin[f].record THEN [twin[f] EXCEPT !.object = object] ELSE twin[f]]
  /\ UNCHANGED <<store, witness>>

WfpNext ==
  \/ \E c \in WfpConfigs : Engage(c) \/ EngageLockdown(c)
  \/ RecordArmed \/ VerifyTwins \/ ApplyUpdate \/ RecoverCover \/ WitnessSpoilt \/ WfpCrash \/ Reboot
  \/ \E kind \in {"transient", "lockdown"} : DropCover(kind) \/ DetachCover(kind)
  \/ DisengageLockdown \/ ReleaseAll
  \/ \E intent \in D!Intents, opened, denied \in BOOLEAN : RecoverLockdown(intent, opened, denied)
  \/ \E which \in {"tun", "other"}, luid \in Luids \cup {0} : SetAdapter(which, luid)

WfpSpec == WfpInit /\ [][WfpNext]_wfpVars

-----------------------------------------------------------------------------

\* A sweep that returns Ok names every twin whose policy record it leaves
\* behind, however many boots and crashes lie between the arming and the sweep,
\* as long as no record of the arming was lost.
LeftoverReported ==
  last.op = "swept" /\ last.ok /\ ~lost => \A f \in IpFamilies : twin[f].record => f \in last.leftover

\* An engage that returned a standing cover wrote every filter for its own
\* configuration, adapter and boot: nothing of an earlier session is left in it.
EngagedIsFresh ==
  last.op = "engaged" =>
    /\ \A k \in LockdownKeys : store[k] = build_lockdown_spec(last.config)[k]
    /\ \A f \in IpFamilies : twin[f].object = "live" /\ twin[f].record

\* After a start that adopted the cover and reclaimed, no adapter but hole-tun
\* inherits the TUN permit, whichever LUID the system hands out next.
PermitNotInherited == settled /\ adapters.other # 0 => store["tun"] # adapters.other

\* The standing cover is the one the last decision left: fresh when engaged,
\* accounted for when swept, and permitting no stranger's adapter when adopted
\* (engage_lockdown, sweep, reclaim_stale_tun_permit).
FiltersAccounted == LeftoverReported /\ EngagedIsFresh /\ PermitNotInherited
=============================================================================
