------------------------------ MODULE Decisions ------------------------------
(***************************************************************************)
(* The pure decision tables of the bridge, shared by every module that     *)
(* models a handler which consults them:                                   *)
(*                                                                         *)
(*   lockdown_state.rs   what each recorded kill-switch intent means       *)
(*   reconciler.rs       cover_step, tunnel_step and the dispositions      *)
(*   target.rs           target_after, resolve_startup_target              *)
(*   routing.rs          decide_cover_recovery                             *)
(*                                                                         *)
(* A target is Off, Unreadable, or the config it is connected to (the      *)
(* payload of Target::Connected), so Connected is membership in Configs.   *)
(***************************************************************************)
EXTENDS Naturals

CONSTANTS Configs, None

Off == "Off"

Unreadable == "Unreadable"

Intents == {"On", "Off", "Unset", "Unreadable"}

Presences == {"Live", "Recorded", "Indeterminate", "Absent", "Unreachable"}

Targets == Configs \cup {Off, Unreadable}

Events == {"UserStopped", "GaveUp", "CutoverRestart", "Blipped",
           "ProcessExiting"}

Startups == {"DoNotConnect", "RestoreLastState", "AlwaysConnect"}

(* A config is neither of the two target states that carry none, and None  *)
(* (an absent Option) is not a config.                                     *)
ASSUME ConfigsAssumption ==
  /\ Configs # {}
  /\ Configs \cap {Off, Unreadable, None} = {}
  /\ None \notin Startups

-----------------------------------------------------------------------------
(* The kill-switch intent.                                                 *)

reads_armed(intent) == intent \in {"On", "Unreadable"}

installs_standing_cover(intent) == intent = "On"

(* The three reads the manager makes of the intent file together with its  *)
(* claim "this run adopted a live standing cover".  A recorded Off wins    *)
(* over the claim in each of them.                                         *)
lockdown_enabled(intent, adopted) ==
  intent # "Off" /\ (adopted \/ reads_armed(intent))

standing_cover_expected(intent, adopted) ==
  intent # "Off" /\ (adopted \/ installs_standing_cover(intent))

MutBareIntent(intent, adopted) == intent

effective_lockdown_intent(intent, adopted) ==
  IF intent # "Off" /\ adopted THEN "On" ELSE intent

-----------------------------------------------------------------------------
(* What the cover and the tunnel should each do, given the target.         *)

Actionable == {"Live", "Recorded", "Indeterminate"}

MutCoverOutlivesOff(intent, presence, t) ==
  CASE t \in Configs /\ reads_armed(intent) /\ presence # "Live" -> "Engage"
    [] t \in Configs /\ ~reads_armed(intent) /\ presence \in Actionable ->
         "Release"
    [] OTHER -> "Hold"

cover_step(intent, presence, t) ==
  CASE t = Unreadable -> "Hold"
    [] t = Off -> IF presence \in Actionable THEN "Release" ELSE "Hold"
    [] t \in Configs /\ reads_armed(intent) ->
         IF presence \in {"Recorded", "Indeterminate", "Absent"}
         THEN "Engage" ELSE "Hold"
    [] t \in Configs /\ ~reads_armed(intent) ->
         IF presence \in Actionable THEN "Release" ELSE "Hold"

tunnel_step(live, t) ==
  CASE t = Unreadable -> "Hold"
    [] t = Off -> IF live THEN "Stop" ELSE "Hold"
    [] t \in Configs -> IF live THEN "Hold" ELSE "Start"

MutBlippedReleases(ev, intent, presence, t) ==
  IF ev \in {"UserStopped", "Blipped"} THEN "ReleaseNow" ELSE "KeepEngaged"

teardown_cover_disposition(ev, intent, presence, t) ==
  IF ev = "UserStopped" \/ cover_step(intent, presence, t) = "Release"
  THEN "ReleaseNow" ELSE "KeepEngaged"

transient_cover_disposition(ev) ==
  IF ev \in {"CutoverRestart", "Blipped"} THEN "KeepEngaged" ELSE "ReleaseNow"

(* Releasing moves the tunnel first; engaging or holding, the cover first. *)
CoverGoesLast(step) == step = "Release"

-----------------------------------------------------------------------------
(* The persisted target.                                                   *)

target_after(t, ev) == IF ev \in {"UserStopped", "GaveUp"} THEN Off ELSE t

preserves_death_reason(ev) == ev = "GaveUp"

resolve_startup_target(t, behavior, candidate) ==
  CASE behavior = "DoNotConnect" -> Off
    [] behavior = "RestoreLastState" -> t
    [] behavior = "AlwaysConnect" ->
         IF t \notin Configs /\ candidate # None THEN candidate ELSE t

(* target::apply stores every decided value and keeps the file on an       *)
(* Unreadable one, which has no on-disk form.                              *)
apply(t, next) == IF next = Unreadable THEN t ELSE next

-----------------------------------------------------------------------------
(* Startup recovery of the standing cover.                                 *)

decide_cover_recovery(intent, presence) ==
  CASE presence \notin Actionable -> "Noop"
    [] presence \in Actionable /\ intent = "Off" -> "Sweep"
    [] presence = "Indeterminate" /\ intent = "Unset" -> "Noop"
    [] OTHER -> "Adopt"

record_intent_on(intent, presence) ==
  presence = "Live" /\ intent \in {"Unset", "Unreadable"}

(* route_recovery: the claim is recorded only over a measured live cover.  *)
adopts_live(intent, presence) ==
  decide_cover_recovery(intent, presence) = "Adopt" /\ presence = "Live"
=============================================================================
