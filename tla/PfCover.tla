------------------------------ MODULE PfCover -------------------------------
(***************************************************************************)
(* The two fail-closed covers of a macOS bridge, one pfctl call at a time  *)
(* (tun-engine routing/failclosed/macos.rs), driven by the callers that    *)
(* own them:                                                               *)
(*                                                                         *)
(*   - the proxy manager's start_cancellable, stop_with_progress and       *)
(*     turn_lockdown_off (bridge proxy_manager.rs), which hold the         *)
(*     transient guard in Posture::PendingStart and the standing one in    *)
(*     the session;                                                        *)
(*   - the lock-free handle_unblock (ipc.rs), which releases both covers   *)
(*     behind the manager's back;                                          *)
(*   - crash recovery at boot (routing.rs), and the two commands that      *)
(*     refuse to run beside a live bridge, `bridge unlock` and the         *)
(*     uninstaller's `bridge release-covers` (cutover.rs).                 *)
(*                                                                         *)
(* pf is a loaded ruleset and a set of enable references.  The transient   *)
(* ruleset is named by the server it permits, so rules \in Hosts is the    *)
(* transient cover of that server.  A pfctl call, a snapshot read and a    *)
(* state-file write may each fail when faulty names it; the process may    *)
(* die between any two of them and the host may reboot.                    *)
(***************************************************************************)
EXTENDS Decisions, Naturals, FiniteSets

CONSTANTS
  Hosts,        \* proxy servers a start may name
  Tokens,       \* pf enable tokens: a set of numbers
  NoToken,      \* a record from which no token can be read
  Environments  \* what may surround the covers: the values of env, each with
                \*   hosts: the servers the starts name
                \*   faulty: the pfctl calls and file writes that may fail
                \*   hostPf: the values pf's other users give their own enable
                \*   faults, crashes, reboots, damages, escapes, commands:
                \*     how many of each may happen

HostRules == {"pfconf", "custom"}

Rules == HostRules \cup Hosts \cup {"lockdown"}

NoBase == "none"   \* main_snapshot_captured = false

Open(base) == base \in HostRules \cup {NoBase}

Faults == {"reload", "load", "enable", "token", "drop", "info", "labels",
           "capture", "save", "clear", "persist"}

(* The failures whose consequences outlast the call: the properties name   *)
(* them.                                                                   *)
Lasting == {"reload", "token", "labels"}

Actors == {"mgr", "esc"}

ASSUME PfAssumption ==
  /\ Hosts \cap (HostRules \cup {"lockdown", NoBase}) = {}
  /\ Tokens \subseteq Nat /\ NoToken \notin Tokens
  /\ \A e \in Environments :
       e.hosts \subseteq Hosts /\ e.faulty \subseteq Faults
         /\ e.hostPf \subseteq BOOLEAN

VARIABLES
  rules,        \* the ruleset pf has loaded
  tokens,       \* our live enable references
  hostOn,       \* somebody else holds pf enabled
  tfile, sfile, \* bridge-failclosed.json and bridge-lockdown-pf.json
  intent,       \* bridge-lockdown.json
  up,           \* a bridge process is running
  adopted,      \* its claim "a standing cover is live this run"
  held,         \* Posture::PendingStart: the transient guard, or None
  session,      \* "none", "open" (no cover) or "locked" (standing guard)
  invalidated,  \* cover_invalidated
  f,            \* each actor's call in progress
  touched,      \* "now": a release was asked for since the last start began,
                \*   or ran on into it
                \* "guard": one ran beside the start that engaged the guard
                \*   held, and the flag it had set is used up
  count         \* the environment, how much of its bounds is used, and the
                \* lasting failures so far: failed, and own, one of our
                \* covers was recorded as the host's baseline

pf == <<rules, tokens, hostOn>>
files == <<tfile, sfile>>
mgrs == <<adopted, held, session, invalidated>>
vars == <<rules, tokens, hostOn, tfile, sfile, intent, up, adopted, held,
          session, invalidated, f, touched, count>>

NoFile == [kind |-> "absent", token |-> NoToken, base |-> NoBase]

Present(t, base) == [kind |-> "present", token |-> t, base |-> base]

Idle == [pc |-> "idle", then |-> "idle", op |-> "none", host |-> None,
         covered |-> FALSE, lock |-> FALSE, repair |-> FALSE,
         guard |-> FALSE, token |-> NoToken, ok |-> TRUE, err |-> FALSE,
         s |-> NoFile]

enabled == hostOn \/ tokens # {}

blocked == rules \notin HostRules /\ enabled

env == count.env

Tripped(k) == count' = [count EXCEPT ![k] = @ + 1]

(* The calls named ops fail; each failure uses up a fault.                 *)
Failing(ops) ==
  /\ ops \subseteq env.faulty
  /\ count.faults + Cardinality(ops) <= env.faults
  /\ count' = [count EXCEPT !.faults = @ + Cardinality(ops),
                            !.failed = @ \cup (ops \cap Lasting)]

(* Whether the call named op succeeds.                                     *)
Outcome(op, ok) == IF ok THEN UNCHANGED count ELSE Failing({op})

(* pfctl -X succeeds only on a reference pf still counts; an already       *)
(* dropped or unknown token makes it exit non-zero.                        *)
DropToken(t, ok) ==
  /\ IF t \in tokens THEN Outcome("drop", ok) ELSE ~ok /\ UNCHANGED count
  /\ tokens' = IF ok THEN tokens \ {t} ELSE tokens

(* The best-effort pfctl -X that undoes an enable whose persist failed.    *)
Unwind(t) ==
  tokens' \in {tokens \ {t}} \cup
                IF "drop" \in env.faulty THEN {tokens} ELSE {}

(* The best-effort write of an armed intent that never overwrites an Off.  *)
Repaired ==
  IF intent = "Off" THEN {"Off"}
  ELSE {"On"} \cup IF "persist" \in env.faulty THEN {intent} ELSE {}

named == {tfile.token, sfile.token} \cup {f[a].token : a \in Actors}
           \cup {f[a].s.token : a \in Actors}
           \cup (IF held = None THEN {} ELSE {held.token})

(* pfctl -E hands out a token nothing else is called; which one makes no   *)
(* difference, so it is the least.                                         *)
Fresh(t) ==
  LET free == Tokens \ (tokens \cup named)
  IN t \in free /\ \A u \in free : t <= u

TypeOK ==
  /\ rules \in Rules /\ tokens \subseteq Tokens /\ hostOn \in BOOLEAN
  /\ {tfile, sfile} \subseteq
       [kind : {"absent", "present", "unusable"},
        token : Tokens \cup {NoToken}, base : Rules \cup {NoBase}]
  /\ tfile.base = NoBase
  /\ intent \in Intents /\ up \in BOOLEAN /\ adopted \in BOOLEAN
  /\ held \in {None} \cup [host : Hosts, token : Tokens]
  /\ session \in {"none", "open", "locked"}
  /\ held # None => session = "none"
  /\ invalidated \in BOOLEAN /\ touched \subseteq {"now", "guard"}
  /\ f \in [Actors -> [
       pc : STRING, then : STRING, op : STRING, host : Hosts \cup {None},
       covered : BOOLEAN, lock : BOOLEAN, repair : BOOLEAN, guard : BOOLEAN,
       token : Tokens \cup {NoToken}, ok : BOOLEAN, err : BOOLEAN,
       s : [kind : {"absent", "present", "unusable"},
            token : Tokens \cup {NoToken}, base : Rules \cup {NoBase}]]]
  /\ env \in Environments
  /\ count.failed \subseteq env.faulty /\ count.own \in BOOLEAN
  /\ count.faults \in 0..env.faults /\ count.crashes \in 0..env.crashes
  /\ count.reboots \in 0..env.reboots /\ count.damages \in 0..env.damages
  /\ count.escapes \in 0..env.escapes /\ count.commands \in 0..env.commands

-----------------------------------------------------------------------------
(* Moving an actor along.  An actor back at "idle" has forgotten its call, *)
(* except that the reconciler's start is followed by the release the same  *)
(* pass decided on.                                                        *)

At(a, pc) == f[a].pc = pc

Frame(a, fr) ==
  f' = [f EXCEPT ![a] =
         CASE fr.pc # "idle" -> fr
           [] fr.pc = "idle" /\ fr.op = "boot" ->
                [Idle EXCEPT !.op = "reconcile", !.pc = "r_read"]
           [] OTHER -> Idle]

Goto(a, pc) == Frame(a, [f[a] EXCEPT !.pc = pc])

(* take_pending(): dropping the guard runs disengage before the next       *)
(* statement; without one the call is a no-op.                             *)
TakePending(fr, next) ==
  IF held = None
  THEN Frame("mgr", [fr EXCEPT !.pc = next]) /\ UNCHANGED held
  ELSE /\ Frame("mgr", [fr EXCEPT !.pc = "t_reload", !.then = next,
                                  !.token = held.token])
       /\ held' = None

-----------------------------------------------------------------------------
(* What pf and the standing record say about the standing cover.           *)

label(answered) ==
  CASE ~answered -> "none"
    [] answered /\ rules = "lockdown" -> "yes"
    [] OTHER -> "no"

fold_presence(lbl, file) ==
  CASE lbl = "yes" -> "Live"
    [] lbl # "yes" /\ file.kind # "absent" -> "Recorded"
    [] lbl = "no" /\ file.kind = "absent" -> "Absent"
    [] OTHER -> "Unreachable"

-----------------------------------------------------------------------------
(* disengage, and block 1 of release_all: reload /etc/pf.conf, drop the    *)
(* reference, and clear the record only over a confirmed reload.           *)

MutTReload(a) ==
  /\ At(a, "t_reload")
  /\ \E ok \in BOOLEAN :
       /\ Outcome("reload", ok)
       /\ rules' = IF ok THEN "pfconf" ELSE rules
       /\ Frame(a, [f[a] EXCEPT !.pc = "t_drop", !.ok = ok])
  /\ UNCHANGED <<tokens, hostOn, files, intent, up, mgrs, touched>>

TReload(a) ==
  /\ At(a, "t_reload")
  /\ \E ok \in BOOLEAN :
       /\ Outcome("reload", ok)
       /\ rules' = IF ok THEN "pfconf" ELSE rules
       /\ Frame(a, [f[a] EXCEPT !.pc = "t_drop", !.ok = ok,
                      !.err = @ \/ (f[a].then = "s_restore" /\ ~ok)])
  /\ UNCHANGED <<tokens, hostOn, files, intent, up, mgrs, touched>>

(* The reference is dropped best-effort; with none on record there is      *)
(* nothing to drop.                                                        *)
Drop(a, from, to) ==
  /\ At(a, from)
  /\ IF f[a].token = NoToken THEN UNCHANGED <<tokens, count>>
     ELSE \E ok \in BOOLEAN : DropToken(f[a].token, ok)
  /\ Goto(a, to)
  /\ UNCHANGED <<rules, hostOn, files, intent, up, mgrs, touched>>

TDrop(a) == Drop(a, "t_drop", "t_clear")

SDrop(a) == Drop(a, "s_drop", "s_clear")

TClear(a) ==
  /\ At(a, "t_clear")
  /\ \E ok \in BOOLEAN :
       /\ IF f[a].ok THEN Outcome("clear", ok) ELSE ~ok /\ UNCHANGED count
       /\ tfile' = IF ok THEN NoFile ELSE tfile
  /\ Frame(a, [f[a] EXCEPT !.pc = f[a].then, !.token = NoToken])
  /\ UNCHANGED <<pf, sfile, intent, up, mgrs, touched>>

-----------------------------------------------------------------------------
(* release_all: both records are read, then the transient block, then the  *)
(* standing one; neither block stops the other.                            *)

RRead(a) ==
  /\ At(a, "r_read")
  /\ Frame(a, [f[a] EXCEPT !.s = sfile, !.err = FALSE,
       !.pc = IF tfile.kind = "absent" THEN "s_restore" ELSE "t_reload",
       !.then = "s_restore", !.token = tfile.token])
  /\ UNCHANGED <<pf, files, intent, up, mgrs, touched, count>>

Captured(s) == s.kind = "present" /\ s.base # NoBase

MutSRestore(a) ==
  /\ At(a, "s_restore")
  /\ LET s == f[a].s
         fr == [f[a] EXCEPT !.pc = "s_drop", !.token = s.token, !.ok = TRUE]
     IN \/ ~Captured(s) /\ Goto(a, "r_done") /\ UNCHANGED rules
        \/ Captured(s) /\ Frame(a, fr) /\ rules' = s.base
  /\ UNCHANGED <<tokens, hostOn, files, intent, up, mgrs, touched, count>>

(* Block 2 restores the captured snapshot, falling back to /etc/pf.conf    *)
(* when it does not load; without a snapshot /etc/pf.conf is the target.   *)
SRestore(a) ==
  /\ At(a, "s_restore")
  /\ LET s == f[a].s
         To(r, ok) ==
           /\ rules' = IF ok THEN r ELSE rules
           /\ Frame(a, [f[a] EXCEPT !.pc = "s_drop", !.token = s.token,
                                    !.ok = ok, !.err = @ \/ ~ok])
     IN \/ s.kind = "absent" /\ Goto(a, "r_done") /\ UNCHANGED <<rules, count>>
        \/ Captured(s) /\ Outcome("load", TRUE) /\ To(s.base, TRUE)
        \/ Captured(s) /\ Failing({"load"}) /\ To("pfconf", TRUE)
        \/ Captured(s) /\ Failing({"load", "reload"}) /\ To("pfconf", FALSE)
        \/ /\ s.kind # "absent" /\ ~Captured(s)
           /\ \E ok \in BOOLEAN : Outcome("reload", ok) /\ To("pfconf", ok)
  /\ UNCHANGED <<tokens, hostOn, files, intent, up, mgrs, touched>>

SClear(a) ==
  /\ At(a, "s_clear")
  /\ \E ok \in BOOLEAN :
       /\ IF f[a].ok THEN Outcome("clear", ok) ELSE ~ok /\ UNCHANGED count
       /\ sfile' = IF ok THEN NoFile ELSE sfile
  /\ Frame(a, [f[a] EXCEPT !.pc = "r_done", !.token = NoToken])
  /\ UNCHANGED <<pf, tfile, intent, up, mgrs, touched>>

-----------------------------------------------------------------------------
(* disengage_lockdown: gated on presence, and loud -- a failed restore or  *)
(* a failed pfctl -X ends it with the record left in place.                *)

KProbe(a) ==
  /\ At(a, "k_probe")
  /\ \E answered \in BOOLEAN :
       /\ Outcome("labels", answered)
       /\ LET p == fold_presence(label(answered), sfile)
          IN Frame(a, [f[a] EXCEPT !.s = sfile, !.token = sfile.token,
               !.err = p = "Unreachable",
               !.pc = IF p \in {"Live", "Recorded"} THEN "k_restore"
                      ELSE f[a].then])
  /\ UNCHANGED <<pf, files, intent, up, mgrs, touched>>

KFail(a) == Frame(a, [f[a] EXCEPT !.pc = f[a].then, !.err = TRUE,
                                  !.token = NoToken])

KRestore(a) ==
  /\ At(a, "k_restore")
  /\ LET s == f[a].s
     IN \E ok \in BOOLEAN :
          /\ Outcome(IF Captured(s) THEN "load" ELSE "reload", ok)
          /\ rules' = CASE ~ok -> rules
                        [] ok /\ Captured(s) -> s.base
                        [] OTHER -> "pfconf"
          /\ IF ok THEN Goto(a, "k_drop") ELSE KFail(a)
  /\ UNCHANGED <<tokens, hostOn, files, intent, up, mgrs, touched>>

KDrop(a) ==
  /\ At(a, "k_drop")
  /\ IF f[a].token = NoToken
     THEN Goto(a, "k_clear") /\ UNCHANGED <<tokens, count>>
     ELSE \E ok \in BOOLEAN :
            /\ DropToken(f[a].token, ok)
            /\ IF ok THEN Goto(a, "k_clear") ELSE KFail(a)
  /\ UNCHANGED <<rules, hostOn, files, intent, up, mgrs, touched>>

KClear(a) ==
  /\ At(a, "k_clear")
  /\ \E ok \in BOOLEAN :
       /\ Outcome("clear", ok)
       /\ sfile' = IF ok THEN NoFile ELSE sfile
  /\ Frame(a, [f[a] EXCEPT !.pc = f[a].then, !.token = NoToken])
  /\ UNCHANGED <<pf, tfile, intent, up, mgrs, touched>>

-----------------------------------------------------------------------------
(* start_cancellable, up to the cover decision.                            *)

mgrIdle == up /\ At("mgr", "idle")

(* A release still running touches the start from the outset.  A guard     *)
(* engaged beside a release may be void, and no flag says so any more: the *)
(* start that engaged it swapped the flag away.                            *)
StillTouched ==
  (IF At("esc", "idle") THEN {} ELSE {"now"}) \cup
  (IF touched # {} /\ held # None /\ ~invalidated THEN {"guard"} ELSE {})

MutBegin(fr) ==
  /\ invalidated' = FALSE
  /\ touched' = StillTouched
  /\ Frame("mgr", [fr EXCEPT !.pc = "s_host"]) /\ UNCHANGED held

Begin(fr) ==
  /\ invalidated' = FALSE
  /\ touched' = StillTouched
  /\ IF invalidated THEN TakePending(fr, "s_host")
     ELSE Frame("mgr", [fr EXCEPT !.pc = "s_host"]) /\ UNCHANGED held

Start(h, covered) ==
  /\ mgrIdle /\ session = "none"
  /\ Begin([Idle EXCEPT !.op = "start", !.host = h, !.covered = covered])
  /\ UNCHANGED <<pf, files, intent, up, adopted, session, count>>

(* A cover held for another server is released before resolving.           *)
SHost ==
  /\ At("mgr", "s_host")
  /\ IF held # None /\ held.host # f["mgr"].host
     THEN TakePending(f["mgr"], "s_resolve")
     ELSE Goto("mgr", "s_resolve") /\ UNCHANGED held
  /\ UNCHANGED <<pf, files, intent, up, adopted, session, invalidated,
                 touched, count>>

(* The private DoH lookup, skipped under a held cover; it may fail or be   *)
(* cancelled.                                                              *)
SResolve ==
  /\ At("mgr", "s_resolve")
  /\ \/ Goto("mgr", "s_cover")
     \/ held = None /\ Goto("mgr", "idle")
  /\ UNCHANGED <<pf, files, intent, up, mgrs, touched, count>>

(* The cover decision.  drift: the permit this attempt needs differs from  *)
(* the held cover's, which is then dropped and engaged afresh (repair).    *)
SCover ==
  /\ At("mgr", "s_cover")
  /\ LET lock == standing_cover_expected(intent, adopted)
         fr == [f["mgr"] EXCEPT !.lock = lock]
     IN \/ /\ fr.covered /\ ~lock
           /\ \/ held = None /\ Frame("mgr", [fr EXCEPT !.pc = "e_enable"])
              \/ held # None /\ Frame("mgr", [fr EXCEPT !.pc = "s_inner"])
           /\ UNCHANGED held
        \/ /\ fr.covered /\ ~lock /\ held # None
           /\ TakePending([fr EXCEPT !.repair = TRUE], "e_enable")
        \/ /\ ~fr.covered \/ lock
           /\ TakePending(fr, "s_inner")
  /\ UNCHANGED <<pf, files, intent, up, adopted, session, invalidated,
                 touched, count>>

-----------------------------------------------------------------------------
(* engage_with: enable, persist, load; then the guard is held.             *)

(* enable_pf_capture_token: pfctl -E took a reference and its token, or    *)
(* took one whose token could not be read, or took none.                   *)
Enable(fr, failed) ==
  \/ \E t \in Tokens, read \in BOOLEAN :
       /\ Outcome("token", read)
       /\ Fresh(t)
       /\ tokens' = tokens \cup {t}
       /\ Frame("mgr", IF read THEN [fr EXCEPT !.token = t]
                       ELSE [f["mgr"] EXCEPT !.pc = failed])
  \/ Outcome("enable", FALSE) /\ Goto("mgr", failed) /\ UNCHANGED tokens

EEnable ==
  /\ At("mgr", "e_enable")
  /\ Enable([f["mgr"] EXCEPT !.pc = "e_save"], "e_failed")
  /\ UNCHANGED <<rules, hostOn, files, intent, up, mgrs, touched>>

MutESave ==
  /\ At("mgr", "e_save")
  /\ LET fr == f["mgr"]
     IN \E ok \in BOOLEAN :
          /\ Outcome("save", ok)
          /\ tfile' = IF ok THEN Present(fr.token, NoBase) ELSE tfile
          /\ Frame("mgr", IF ok THEN [fr EXCEPT !.pc = "e_load"]
                   ELSE [fr EXCEPT !.pc = "e_failed", !.token = NoToken])
  /\ UNCHANGED <<pf, sfile, intent, up, mgrs, touched>>

ESave ==
  /\ At("mgr", "e_save")
  /\ LET t == f["mgr"].token
     IN \/ /\ Outcome("save", TRUE)
           /\ tfile' = Present(t, NoBase)
           /\ Goto("mgr", "e_load") /\ UNCHANGED tokens
        \/ /\ Outcome("save", FALSE)
           /\ Unwind(t)
           /\ Frame("mgr", [f["mgr"] EXCEPT !.pc = "e_failed",
                                            !.token = NoToken])
           /\ UNCHANGED tfile
  /\ UNCHANGED <<rules, hostOn, sfile, intent, up, mgrs, touched>>

ELoad ==
  /\ At("mgr", "e_load")
  /\ LET fr == f["mgr"]
     IN \/ /\ Outcome("load", TRUE)
           /\ rules' = fr.host
           /\ held' = [host |-> fr.host, token |-> fr.token]
           /\ Frame("mgr", [fr EXCEPT !.pc = "s_inner", !.token = NoToken])
        \/ /\ Outcome("load", FALSE)
           /\ Frame("mgr", [fr EXCEPT !.pc = "t_reload", !.then = "e_failed"])
           /\ UNCHANGED <<rules, held>>
  /\ UNCHANGED <<tokens, hostOn, files, intent, up, adopted, session,
                 invalidated, touched>>

(* A repair whose corrected engage failed tries the previous permit once;  *)
(* any other failed engage goes on uncovered.                              *)
EFailed ==
  /\ At("mgr", "e_failed")
  /\ Frame("mgr", [f["mgr"] EXCEPT !.repair = FALSE,
       !.pc = IF f["mgr"].repair THEN "e_enable" ELSE "s_inner"])
  /\ UNCHANGED <<pf, files, intent, up, mgrs, touched, count>>

-----------------------------------------------------------------------------
(* start_inner: everything before the standing cover may fail (the held    *)
(* cover is kept) or be cancelled (it is dropped); a socks-only session    *)
(* skips the standing cover.                                               *)

SInner ==
  /\ At("mgr", "s_inner")
  /\ \/ /\ \E pc \in {"idle", "s_lock", "s_commit"} : Goto("mgr", pc)
        /\ UNCHANGED held
     \/ TakePending(f["mgr"], "idle")
  /\ UNCHANGED <<pf, files, intent, up, adopted, session, invalidated,
                 touched, count>>

(* The intent is read again right before the install it gates.             *)
SLock ==
  /\ At("mgr", "s_lock")
  /\ Goto("mgr", IF f["mgr"].lock /\ intent # "Off" THEN "l_info" ELSE "s_dns")
  /\ UNCHANGED <<pf, files, intent, up, mgrs, touched, count>>

MutLInfo ==
  /\ At("mgr", "l_info")
  /\ \/ /\ Outcome("info", TRUE)
        /\ LET has == sfile.kind = "present"
               fr == [f["mgr"] EXCEPT !.s = IF has THEN sfile ELSE NoFile]
           IN Frame("mgr", [fr EXCEPT
                !.pc = IF has THEN "l_load" ELSE "l_enable"])
     \/ Outcome("info", FALSE) /\ Goto("mgr", "idle")
  /\ UNCHANGED <<pf, files, intent, up, mgrs, touched>>

(* engage_lockdown: engage_pf_action on the enabled read and the record.   *)
LInfo ==
  /\ At("mgr", "l_info")
  /\ \/ /\ Outcome("info", TRUE)
        /\ LET has == sfile.kind = "present"
               fr == [f["mgr"] EXCEPT !.s = IF has THEN sfile ELSE NoFile]
           IN Frame("mgr", [fr EXCEPT
                !.pc = IF has /\ enabled THEN "l_load" ELSE "l_enable"])
     \/ Outcome("info", FALSE) /\ Goto("mgr", "idle")
  /\ UNCHANGED <<pf, files, intent, up, mgrs, touched>>

LEnable ==
  /\ At("mgr", "l_enable")
  /\ LET fr == f["mgr"]
     IN Enable([fr EXCEPT !.pc = IF fr.s.kind = "absent" THEN "l_capture"
                                 ELSE "l_save"], "idle")
  /\ UNCHANGED <<rules, hostOn, files, intent, up, mgrs, touched>>

(* The presence probe leads, so that our own ruleset is not recorded as    *)
(* the host's.                                                             *)
MutLCapture ==
  /\ At("mgr", "l_capture")
  /\ Frame("mgr", [f["mgr"] EXCEPT !.pc = "l_save",
                     !.s = Present(NoToken, rules)])
  /\ UNCHANGED <<pf, files, intent, up, mgrs, touched, count>>

LCapture ==
  /\ At("mgr", "l_capture")
  /\ LET fr == f["mgr"]
     IN \/ \E answered \in BOOLEAN :
             /\ Outcome("labels", answered)
             /\ LET live == fold_presence(label(answered), sfile) = "Live"
                IN Frame("mgr", [fr EXCEPT !.pc = "l_save",
                     !.s = Present(NoToken, IF live THEN NoBase ELSE rules)])
             /\ UNCHANGED tokens
        \/ /\ Outcome("capture", FALSE)
           /\ Unwind(fr.token)
           /\ Goto("mgr", "idle")
  /\ UNCHANGED <<rules, hostOn, files, intent, up, mgrs, touched>>

MutLSave ==
  /\ At("mgr", "l_save")
  /\ Goto("mgr", "l_load")
  /\ UNCHANGED <<pf, files, intent, up, mgrs, touched, count>>

LSave ==
  /\ At("mgr", "l_save")
  /\ LET fr == f["mgr"]
     IN \/ /\ count' = [count EXCEPT !.own = @ \/ ~Open(fr.s.base)]
           /\ sfile' = Present(fr.token, fr.s.base)
           /\ Frame("mgr", [fr EXCEPT !.pc = "l_load", !.token = NoToken])
           /\ UNCHANGED tokens
        \/ /\ Outcome("save", FALSE)
           /\ Unwind(fr.token)
           /\ Goto("mgr", "idle") /\ UNCHANGED sfile
  /\ UNCHANGED <<rules, hostOn, tfile, intent, up, mgrs, touched>>

(* Loading the ruleset hands the start its guard and makes an adopted      *)
(* claim durable; a failed load disengages and fails the start.            *)
LLoad ==
  /\ At("mgr", "l_load")
  /\ LET fr == [f["mgr"] EXCEPT !.s = NoFile]
     IN \/ /\ Outcome("load", TRUE)
           /\ rules' = "lockdown"
           /\ intent' \in Repaired
           /\ Frame("mgr", [fr EXCEPT !.pc = "s_dns", !.guard = TRUE])
        \/ /\ Outcome("load", FALSE)
           /\ Frame("mgr", [fr EXCEPT !.pc = "k_probe", !.then = "idle"])
           /\ UNCHANGED <<rules, intent>>
  /\ UNCHANGED <<tokens, hostOn, files, up, mgrs, touched>>

(* Dns::apply succeeds, fails or is cancelled.  Unwinding drops the        *)
(* standing guard; a cancelled start then drops the transient one too.     *)
SDns ==
  /\ At("mgr", "s_dns")
  /\ LET fr == f["mgr"]
     IN \/ Goto("mgr", "s_commit")
        \/ \E next \in {"idle", "s_cancel"} :
             Frame("mgr", IF fr.guard
               THEN [fr EXCEPT !.pc = "k_probe", !.then = next]
               ELSE [fr EXCEPT !.pc = next])
  /\ UNCHANGED <<pf, files, intent, up, mgrs, touched, count>>

SCancel ==
  /\ At("mgr", "s_cancel")
  /\ TakePending(f["mgr"], "idle")
  /\ UNCHANGED <<pf, files, intent, up, adopted, session, invalidated,
                 touched, count>>

(* The tunnel is up: the transient cover goes, then the session commits.   *)
SCommit ==
  /\ At("mgr", "s_commit")
  /\ IF held = None
     THEN /\ session' = IF f["mgr"].guard THEN "locked" ELSE "open"
          /\ Goto("mgr", "idle") /\ UNCHANGED held
     ELSE TakePending(f["mgr"], "s_commit") /\ UNCHANGED session
  /\ UNCHANGED <<pf, files, intent, up, adopted, invalidated, touched, count>>

-----------------------------------------------------------------------------
(* stop_with_progress.  The session's standing guard is released or kept   *)
(* by teardown_cover_disposition, the pending one by                       *)
(* transient_cover_disposition; keeping disarms the guard.  What follows   *)
(* is nothing, the process's exit, or the start a structural reload makes  *)
(* unless the proxy reported an error while stopping.                      *)

After(ev) ==
  CASE ev \in {"UserStopped", "GaveUp"} -> "stop"
    [] ev \in {"CutoverRestart", "ProcessExiting"} -> "exit"
    [] OTHER -> "reload"

(* persist_session_event: a target that could not be saved is read back.   *)
Persisted(t0, ev) ==
  {target_after(t0, ev)} \cup IF "persist" \in env.faulty THEN {t0} ELSE {}

StopSession(ev, h) ==
  /\ mgrIdle /\ session # "none"
  /\ \E answered \in BOOLEAN, t0 \in Targets : \E t \in Persisted(t0, ev) :
       /\ Outcome("labels", answered)
       /\ LET p == fold_presence(label(answered), sfile)
              d == teardown_cover_disposition(ev,
                     effective_lockdown_intent(intent, adopted), p, t)
          IN Frame("mgr", [Idle EXCEPT !.op = After(ev), !.host = h,
               !.guard = session = "locked",
               !.pc = IF d = "ReleaseNow" THEN "r_read" ELSE "stopped"])
  /\ session' = "none"
  /\ UNCHANGED <<pf, files, intent, up, adopted, held, invalidated, touched>>

StopPending(ev) ==
  /\ mgrIdle /\ held # None
  /\ LET fr == [Idle EXCEPT !.op = After(ev)]
     IN IF transient_cover_disposition(ev) = "ReleaseNow"
        THEN TakePending(fr, "stopped")
        ELSE Frame("mgr", [fr EXCEPT !.pc = "stopped"]) /\ held' = None
  /\ UNCHANGED <<pf, files, intent, up, adopted, session, invalidated,
                 touched, count>>

ExitIdle ==
  /\ mgrIdle /\ held = None /\ session = "none"
  /\ Frame("mgr", [Idle EXCEPT !.op = "exit", !.pc = "stopped"])
  /\ UNCHANGED <<pf, files, intent, up, mgrs, touched, count>>

Stopped ==
  /\ At("mgr", "stopped")
  /\ LET fr == f["mgr"]
     IN \/ fr.op \in {"stop", "reconcile", "reload"} /\ Goto("mgr", "idle")
           /\ UNCHANGED <<up, mgrs, touched>>
        \/ /\ fr.op = "exit"
           /\ up' = FALSE /\ adopted' = FALSE /\ invalidated' = FALSE
           /\ f' = [a \in Actors |-> Idle]
           /\ touched' = {} /\ UNCHANGED <<held, session>>
        \/ /\ fr.op = "reload"
           /\ Begin([Idle EXCEPT !.op = "start", !.host = fr.host])
           /\ UNCHANGED <<up, adopted, session>>
  /\ UNCHANGED <<pf, files, intent, count>>

-----------------------------------------------------------------------------
(* The kill switch, and the escapes.                                       *)

TurnOn ==
  /\ mgrIdle /\ intent # "On"
  /\ intent' = "On"
  /\ UNCHANGED <<pf, files, up, mgrs, f, touched, count>>

(* turn_lockdown_off: the pending guard first, then release_all.           *)
TurnOff ==
  /\ mgrIdle
  /\ TakePending([Idle EXCEPT !.op = "off"], "r_read")
  /\ touched' = {"now"}
  /\ UNCHANGED <<pf, files, intent, up, adopted, session, invalidated, count>>

(* handle_unblock takes no lock: it flags the manager's guard as void, and *)
(* then releases.                                                          *)
Unblock ==
  /\ up /\ At("esc", "idle")
  /\ f["mgr"].op # "recover" \/ At("mgr", "b_done")
  /\ count.escapes < env.escapes /\ Tripped("escapes")
  /\ invalidated' = TRUE /\ touched' = touched \cup {"now"}
  /\ Frame("esc", [Idle EXCEPT !.op = "unblock", !.pc = "r_read"])
  /\ UNCHANGED <<pf, files, intent, up, adopted, held, session>>

(* `bridge unlock` and `bridge release-covers` refuse beside a bridge.     *)
Command(op) ==
  /\ ~up /\ At("esc", "idle")
  /\ count.commands < env.commands /\ Tripped("commands")
  /\ Frame("esc", [Idle EXCEPT !.op = op, !.then = "k_done",
                     !.pc = IF op = "unlock" THEN "k_probe" ELSE "r_read"])
  /\ UNCHANGED <<pf, files, intent, up, mgrs, touched>>

(* The intent moves only after a release that reported success.            *)
Disarm(a) ==
  \/ f[a].err /\ UNCHANGED <<intent, count>>
  \/ /\ ~f[a].err
     /\ \E ok \in BOOLEAN :
          Outcome("persist", ok) /\ intent' = IF ok THEN "Off" ELSE intent

Released(a) ==
  /\ At(a, "r_done")
  /\ LET fr == f[a]
     IN \/ /\ fr.op \in {"off", "unblock", "uninstall"}
           /\ Disarm(a) /\ Goto(a, "idle")
           /\ adopted' = (adopted /\ (fr.err \/ fr.op # "off"))
        \/ /\ fr.op \in {"stop", "exit", "reload", "reconcile"}
           /\ Frame(a, [fr EXCEPT !.then = "stopped",
                !.err = FALSE, !.pc = IF fr.guard THEN "k_probe" ELSE "stopped"])
           /\ adopted' = (adopted /\ fr.err)
           /\ UNCHANGED <<intent, count>>
  /\ UNCHANGED <<pf, files, up, held, session, invalidated, touched>>

Unlocked ==
  /\ At("esc", "k_done")
  /\ Disarm("esc") /\ Goto("esc", "idle")
  /\ UNCHANGED <<pf, files, up, mgrs, touched>>

-----------------------------------------------------------------------------
(* Death, reboot, and recovery at boot.                                    *)

Crash ==
  /\ up \/ ~At("esc", "idle")
  /\ count.crashes < env.crashes /\ Tripped("crashes")
  /\ up' = FALSE /\ adopted' = FALSE /\ invalidated' = FALSE
  /\ held' = None /\ session' = "none" /\ touched' = {}
  /\ f' = [a \in Actors |-> Idle]
  /\ UNCHANGED <<pf, files, intent>>

(* pf comes up disabled, its references reset, under /etc/pf.conf; other   *)
(* users of pf may have enabled it again.                                  *)
Reboot ==
  /\ ~up /\ At("esc", "idle")
  /\ count.reboots < env.reboots /\ Tripped("reboots")
  /\ rules' = "pfconf" /\ tokens' = {} /\ hostOn' \in env.hostPf
  /\ UNCHANGED <<files, intent, up, mgrs, f, touched>>

HostToggle ==
  /\ hostOn' \in env.hostPf \ {hostOn}
  /\ UNCHANGED <<rules, tokens, files, intent, up, mgrs, f, touched, count>>

(* A record the next release cannot parse; its token may still be salvaged.*)
Damage ==
  /\ ~up /\ At("esc", "idle")
  /\ count.damages < env.damages /\ Tripped("damages")
  /\ \/ /\ tfile.kind = "present"
        /\ \E t \in {tfile.token, NoToken} :
             tfile' = [NoFile EXCEPT !.kind = "unusable", !.token = t]
        /\ UNCHANGED sfile
     \/ /\ sfile.kind = "present"
        /\ \E t \in {sfile.token, NoToken} :
             sfile' = [NoFile EXCEPT !.kind = "unusable", !.token = t]
        /\ UNCHANGED tfile
  /\ UNCHANGED <<pf, intent, up, mgrs, f, touched>>

(* recover_routes' cover half: the standing cover is reconciled first, the *)
(* transient sweep follows and skips its reload under an adopted cover.    *)
Boot ==
  /\ ~up /\ At("esc", "idle")
  /\ up' = TRUE
  /\ \E answered \in BOOLEAN :
       /\ Outcome("labels", answered)
       /\ LET p == fold_presence(label(answered), sfile)
              d == decide_cover_recovery(intent, p)
          IN /\ intent' \in IF record_intent_on(intent, p) THEN Repaired
                            ELSE {intent}
             /\ adopted' = adopts_live(intent, p)
             /\ Frame("mgr", [Idle EXCEPT !.op = "recover", !.lock = d = "Adopt",
                  !.then = "b_sweep",
                  !.pc = IF d = "Sweep" THEN "k_probe" ELSE "b_sweep"])
  /\ UNCHANGED <<pf, files, held, session, invalidated, touched>>

BSweep ==
  /\ At("mgr", "b_sweep")
  /\ Frame("mgr", [f["mgr"] EXCEPT !.then = "b_done", !.token = tfile.token,
       !.ok = TRUE,
       !.pc = CASE tfile.kind = "absent" -> "b_done"
                [] tfile.kind # "absent" /\ f["mgr"].lock -> "t_drop"
                [] OTHER -> "t_reload"])
  /\ UNCHANGED <<pf, files, intent, up, mgrs, touched, count>>

(* reconcile_once.  Its release follows the start the same pass makes.     *)
Reconcile ==
  /\ At("mgr", "b_done")
  /\ \E answered \in BOOLEAN, t \in Targets, h \in env.hosts :
       /\ Outcome("labels", answered)
       /\ LET p == fold_presence(label(answered), sfile)
              release == cover_step(effective_lockdown_intent(intent, adopted),
                                    p, t) = "Release"
          IN IF t \in Configs
             THEN Begin([Idle EXCEPT !.host = h,
                         !.op = IF release THEN "boot" ELSE "start"])
             ELSE /\ Frame("mgr", [Idle EXCEPT !.op = "reconcile",
                        !.pc = IF release THEN "r_read" ELSE "stopped"])
                  /\ UNCHANGED <<held, invalidated, touched>>
  /\ UNCHANGED <<pf, files, intent, up, adopted, session>>

-----------------------------------------------------------------------------
Init ==
  /\ count \in [env : Environments, faults : {0}, crashes : {0}, reboots : {0},
                damages : {0}, escapes : {0}, commands : {0}, failed : {{}},
                own : {FALSE}]
  /\ rules \in HostRules /\ tokens = {} /\ hostOn \in env.hostPf
  /\ tfile = NoFile /\ sfile = NoFile
  /\ intent \in Intents
  /\ up = FALSE /\ adopted = FALSE /\ held = None /\ session = "none"
  /\ invalidated = FALSE /\ touched = {}
  /\ f = [a \in Actors |-> Idle]

PfStep(a) ==
  \/ TReload(a) \/ TDrop(a) \/ TClear(a)
  \/ RRead(a) \/ SRestore(a) \/ SDrop(a) \/ SClear(a) \/ Released(a)
  \/ KProbe(a) \/ KRestore(a) \/ KDrop(a) \/ KClear(a)

StartStep ==
  \/ SHost \/ SResolve \/ SCover \/ EEnable \/ ESave \/ ELoad \/ EFailed
  \/ SInner \/ SLock \/ LInfo \/ LEnable \/ LCapture \/ LSave \/ LLoad
  \/ SDns \/ SCancel \/ SCommit

Next ==
  \/ \E a \in Actors : PfStep(a)
  \/ \E h \in env.hosts, covered \in BOOLEAN : Start(h, covered)
  \/ StartStep
  \/ \E ev \in Events, h \in env.hosts : StopSession(ev, h)
  \/ \E ev \in Events \ {"Blipped", "GaveUp"} : StopPending(ev)
  \/ ExitIdle \/ Stopped
  \/ TurnOn \/ TurnOff \/ Unblock \/ Unlocked
  \/ \E op \in {"unlock", "uninstall"} : Command(op)
  \/ Crash \/ Reboot \/ HostToggle \/ Damage \/ Boot \/ BSweep
  \/ Reconcile

Spec == Init /\ [][Next]_vars

-----------------------------------------------------------------------------
(* The blocking ruleset in force is always named by a record on disk, so   *)
(* whatever dies, boot recovery or an escape finds the cover it has to     *)
(* lift (engage persists before it loads; disengage and release_all clear  *)
(* a record only over a confirmed restore).                                *)
Recoverable == blocked => tfile.kind # "absent" \/ sfile.kind # "absent"

(* Recoverable, as long as no unblock ran and no cover of ours passed for  *)
(* the host's baseline (see SnapshotIsHost: restoring one clears the record*)
(* over a blocked host): the locked paths of the manager and the recovery  *)
(* keep it through crashes, reboots, damage and failures.                  *)
RecordedUnlessUnblocked == count.escapes = 0 /\ ~count.own => Recoverable

(* release_all never reports success over a host it left blocked: at its   *)
(* return with no error no cover of ours filters any more, whichever reload*)
(* failed in either block and whoever else holds pf enabled.  Two things   *)
(* are left out: a start beside the release (an unblock's), and a baseline *)
(* that was one of our own covers to begin with (see SnapshotIsHost).      *)
ReleaseTrue ==
  \A a \in Actors :
    At(a, "r_done") /\ ~f[a].err /\ count.escapes = 0 /\ ~count.own
    => ~blocked

(* The snapshot engage_lockdown records as the host's own policy was never *)
(* one of our block-all rulesets, through crashes, adoption and damaged    *)
(* records: restoring it always opens the host.  It can be one in three    *)
(* cases only: after an unblock that cost a live cover its record; once a  *)
(* reload of /etc/pf.conf failed, since the probe that leads the capture   *)
(* knows the standing cover and not a transient one left loaded; and when  *)
(* the record is damaged and the probe fails as well, since fold_presence  *)
(* then answers Recorded, which persist_baseline takes for "not ours".     *)
SnapshotIsHost ==
  /\ count.escapes = 0
  /\ "reload" \notin count.failed
  /\ count.damages = 0 \/ "labels" \notin count.failed
  => ~count.own

(* A start that was asked to run covered, and every start that still holds *)
(* a guard, reaches the tunnel set-up with the host blocked, unless a      *)
(* release was asked for while it ran or a call of the engage failed       *)
(* (start_cancellable's swap of cover_invalidated).  One guard is left out *)
(* that handle_unblock means to cover: a start that begins between its     *)
(* store and the end of its release swaps the flag away and engages, the   *)
(* release takes that cover down too, and a later start trusts the guard.  *)
CoveredMeansCovered ==
  At("mgr", "s_inner") /\ touched = {}
    /\ (held # None \/ (f["mgr"].covered /\ ~f["mgr"].lock
                          /\ count.faults = 0))
  => blocked

(* While a session holds the standing guard and nobody asked for a         *)
(* release, pf enforces the lockdown ruleset: no transient guard, sweep or *)
(* reload takes it away, and no reboot, crash or failure leads to a        *)
(* session over a disabled pf.  Where others enable pf as well, a record   *)
(* whose reference is gone (a release cut short or not confirmed, a        *)
(* reboot) is reused as if it counted (PfEngageAction::ReuseToken): pf is  *)
(* then on only as long as they keep it on.                                *)
CoverInForce ==
  session = "locked" /\ touched = {} /\ At("mgr", "idle")
  => /\ rules = "lockdown"
     /\ \/ env.hostPf = {FALSE}
        \/ /\ count.crashes + count.reboots = 0
           /\ "reload" \notin count.failed /\ "clear" \notin env.faulty
       => enabled

(* While no process died, no record was damaged, no unblock ran, pfctl -X  *)
(* works and pfctl -E names its token, no pf enable reference outlives its *)
(* last record: each live reference is named by a state file, the held     *)
(* guard or a call in progress, so someone can still drop it, whichever    *)
(* install, save, reload or probe failed.                                  *)
NoLeak ==
  /\ count.crashes + count.damages + count.escapes = 0
  /\ "drop" \notin env.faulty /\ "token" \notin count.failed
  => tokens \subseteq named

(* What is on disk can undo what is in pf: the block-all is on record, the *)
(* recorded baseline is the host's own, and every enable reference is      *)
(* named somewhere (engage_with, engage_lockdown_with, release_all_with).  *)
RecordUndoes == RecordedUnlessUnblocked /\ SnapshotIsHost /\ NoLeak

(* Covered means covered, and released means open: a start that asked for  *)
(* a cover runs under one, a standing cover stays in force, and a release  *)
(* that reports success left nothing blocked (start_cancellable,           *)
(* release_all_with).                                                      *)
CoverTrue == CoveredMeansCovered /\ CoverInForce /\ ReleaseTrue
=============================================================================
