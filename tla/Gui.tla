---- MODULE Gui ----
(***************************************************************************)
(* The GUI process. Three machines that share no state:                    *)
(*   - the tray: connecting and disconnecting through one transition slot, *)
(*     the snapshot every bridge reply is committed to, the task that      *)
(*     watches it, and the menu painted on the main thread;                *)
(*   - the relaunch after an update: a bridge of another version, the      *)
(*     executable replaced or not, the successor and its handshake;        *)
(*   - the configuration: the webview's copy, the process's own, and the   *)
(*     file, under the commands that change it.                            *)
(***************************************************************************)
EXTENDS Naturals, Sequences, FiniteSets

CONSTANTS
    GuiTasks,   \* connects and disconnects that run at once
    Launches,   \* processes a GUI may start to replace itself
    Entries,    \* server entries that ever exist
    Contents    \* what an entry dials: address, port, method, password

NoEntry == "none"
ASSUME GuiAssumption == NoEntry \notin Entries

-----------------------------------------------------------------------------
(* The tray.                                                               *)
VARIABLES
    external,   \* the bridge is someone else's (HOLE_BRIDGE_SOCKET)
    actual,     \* the bridge: running, lockdown
    snap,       \* ProxyStateCell: the last committed observation
    changed,    \* the watcher has not taken the last commit yet
    target,     \* TransitionSlot
    toggle,     \* each connect or disconnect: where it is, what it asks for
    enabled,    \* config.enabled
    queued,     \* a repaint waits for the main thread
    shown       \* the menu
trayVars == <<external, actual, snap, changed, target, toggle, enabled, queued, shown>>

Observed == [running : BOOLEAN, lockdown : BOOLEAN]
NoToggle == [at |-> "idle", enable |-> FALSE, attended |-> FALSE]
Menu == [snap |-> snap, target |-> target]

TrayInit ==
    /\ external \in BOOLEAN /\ actual = [running |-> FALSE, lockdown |-> FALSE]
    /\ snap = actual /\ changed = FALSE /\ target = "none"
    /\ toggle = [t \in GuiTasks |-> NoToggle]
    /\ enabled = FALSE /\ queued = FALSE
    /\ shown = [snap |-> snap, target |-> target]

\* The bridge by itself, or another client of it.
BridgeMoves ==
    /\ \E b \in Observed : b # actual /\ actual' = b
    /\ UNCHANGED <<external, snap, changed, target, toggle, enabled, queued, shown>>

\* send_if_modified
Commit(new) == snap' = new /\ changed' = (changed \/ new # snap)

Rebuild == queued' = TRUE

\* set_proxy_enabled_inner, up to the transition: the install gate may ask
\* or refuse, no server may be selected, another toggle may be under way.
\* connect_silently is unattended; a disconnect always comes from a click.
ToggleBegins(t) ==
    /\ toggle[t].at = "idle"
    /\ \E enable, attended \in BOOLEAN :
         /\ ~enable => attended
         /\ \/ /\ target = "none"
               /\ target' = IF enable THEN "on" ELSE "off"
               /\ toggle' = [toggle EXCEPT ![t] = [at |-> "send", enable |-> enable,
                                                   attended |-> attended]]
               /\ Rebuild
            \/ UNCHANGED <<target, toggle, queued>>
    /\ UNCHANGED <<external, actual, snap, changed, enabled, shown>>

\* What was asked for is of no further use.
ToggleIsAt(t, at) == toggle' = [toggle EXCEPT ![t] = [NoToggle EXCEPT !.at = at]]

\* outcome_for_start_response, outcome_for_stop_response; observed_running
\* decides what is committed: an acknowledgement, a failure the bridge
\* reports and a lost connection are observations, a refusal is none.
ToggleSends(t) ==
    /\ toggle[t].at = "send"
    /\ LET on == toggle[t].enable IN
       \/ /\ actual' = [actual EXCEPT !.running = on]
          /\ Commit([snap EXCEPT !.running = on])
          /\ ToggleIsAt(t, IF on THEN "running" ELSE "stopped")
       \/ /\ on /\ Commit([snap EXCEPT !.running = FALSE])
          /\ \E at \in {"stopped", "failed"} : ToggleIsAt(t, at)
          /\ UNCHANGED actual
       \/ /\ Commit([snap EXCEPT !.running = FALSE])
          /\ ToggleIsAt(t, "failed") /\ UNCHANGED actual
       \/ /\ \/ toggle' = [toggle EXCEPT ![t].at = "denied"] \/ ToggleIsAt(t, "failed")
          /\ UNCHANGED <<actual, snap, changed>>
    /\ UNCHANGED <<external, target, enabled, queued, shown>>

\* decide_elevation
DecideElevation(t) == ~external /\ (~toggle[t].enable \/ toggle[t].attended)

\* prompt_elevation, run_elevated_send: the helper sends the request, or it
\* is cancelled or fails. elevate_and_confirm then asks for the status.
Elevates(t) ==
    /\ toggle[t].at = "denied"
    /\ \/ /\ DecideElevation(t)
          /\ \/ /\ actual' = [actual EXCEPT !.running = toggle[t].enable]
                /\ ToggleIsAt(t, "confirm")
             \/ ToggleIsAt(t, "failed") /\ UNCHANGED actual
       \/ /\ ~DecideElevation(t) /\ ToggleIsAt(t, "failed")
          /\ UNCHANGED <<actual>>
    /\ UNCHANGED <<external, snap, changed, target, enabled, queued, shown>>

\* A Status is sent: answered, refused, or the connection is lost.
StatusSeen ==
    \/ Commit(actual)
    \/ Commit([snap EXCEPT !.running = FALSE])
    \/ UNCHANGED <<snap, changed>>

ToggleConfirms(t) ==
    /\ toggle[t].at = "confirm" /\ StatusSeen
    /\ ToggleIsAt(t, IF snap'.running THEN "running" ELSE "stopped")
    /\ UNCHANGED <<external, actual, target, enabled, queued, shown>>

\* The outcome is persisted as the intent; after an error the status is
\* asked for instead.
ToggleEnds(t) ==
    /\ \/ /\ toggle[t].at \in {"running", "stopped"}
          /\ enabled' = (toggle[t].at = "running") /\ UNCHANGED <<snap, changed>>
       \/ toggle[t].at = "failed" /\ StatusSeen /\ UNCHANGED enabled
    /\ ToggleIsAt(t, "ending")
    /\ UNCHANGED <<external, actual, target, queued, shown>>

MutGuardFrees(t) ==
    /\ toggle[t].at = "ending" /\ target' = "none"
    /\ toggle' = [toggle EXCEPT ![t] = NoToggle]
    /\ UNCHANGED <<external, actual, snap, changed, enabled, queued, shown>>

\* TransitionGuard::drop: the slot is freed, then a repaint asked for.
GuardFrees(t) ==
    /\ toggle[t].at = "ending" /\ target' = "none"
    /\ ToggleIsAt(t, "freed")
    /\ UNCHANGED <<external, actual, snap, changed, enabled, queued, shown>>

GuardRepaints(t) ==
    /\ toggle[t].at = "freed" /\ Rebuild
    /\ toggle' = [toggle EXCEPT ![t] = NoToggle]
    /\ UNCHANGED <<external, actual, snap, changed, target, enabled, shown>>

\* spawn_status_reconciler, get_proxy_status
Reconciles ==
    /\ StatusSeen
    /\ UNCHANGED <<external, actual, target, toggle, enabled, queued, shown>>

\* The lockdown item and the unblock item: the request, a status, a repaint.
ChangesLockdown ==
    /\ \/ actual' = [actual EXCEPT !.lockdown = ~snap.lockdown]
       \/ actual' = [running |-> FALSE, lockdown |-> FALSE]
       \/ UNCHANGED actual
    /\ \/ Commit(actual') \/ UNCHANGED <<snap, changed>>
    /\ Rebuild
    /\ UNCHANGED <<external, target, toggle, enabled, shown>>

\* spawn_proxy_state_sync
Syncs ==
    /\ changed /\ changed' = FALSE /\ Rebuild
    /\ UNCHANGED <<external, actual, snap, target, toggle, enabled, shown>>

\* rebuild_tray_menu, on the main thread: what is current then is painted.
Paints ==
    /\ queued /\ queued' = FALSE /\ shown' = Menu
    /\ UNCHANGED <<external, actual, snap, changed, target, toggle, enabled>>

TrayNext ==
    \/ BridgeMoves \/ Reconciles \/ ChangesLockdown \/ Syncs \/ Paints
    \/ \E t \in GuiTasks :
         \/ ToggleBegins(t) \/ ToggleSends(t) \/ Elevates(t) \/ ToggleConfirms(t)
         \/ ToggleEnds(t) \/ GuardFrees(t) \/ GuardRepaints(t)

TraySpec == TrayInit /\ [][TrayNext]_trayVars

\* Whenever no repaint is on its way, from the watcher, from a guard being
\* dropped or on the main thread's queue, the menu shows the committed
\* snapshot and the transition under way, and the menu that offers Connect or
\* Disconnect is the one of that snapshot (rebuild_tray_menu, TransitionGuard,
\* spawn_proxy_state_sync).
TrayUpToDate ==
    (~queued /\ ~changed /\ \A t \in GuiTasks : toggle[t].at # "freed") => shown = Menu

-----------------------------------------------------------------------------
(* The relaunch after an update.                                           *)
VARIABLES
    gui,        \* this process: "up", "exits", "relaunched", "quit"
    image,      \* the file at its path: its own, absent, or another
    lockstep,   \* the bridge is of this process's version
    evaluating, \* EVALUATING
    plan,       \* the action being dispatched, or "none"
    heir        \* each successor: where it is, whether it ever said READY
healVars == <<gui, image, lockstep, evaluating, plan, heir>>

HealInit ==
    /\ gui = "up" /\ image = "own" /\ lockstep = TRUE /\ evaluating = FALSE /\ plan = "none"
    /\ heir = [l \in Launches |-> [at |-> "none", ready |-> FALSE, sure |-> TRUE]]

\* An update swaps the file, by way of no file at all, and the bridge; or
\* a bridge of another version appears by itself.
UpdateMoves ==
    /\ \/ image = "own" /\ image' = "absent" /\ UNCHANGED lockstep
       \/ image = "absent" /\ image' \in {"own", "other"} /\ UNCHANGED lockstep
       \/ lockstep' = ~lockstep /\ UNCHANGED image
    /\ UNCHANGED <<gui, evaluating, plan, heir>>

decide ==
    CASE lockstep -> "operate"
      [] ~lockstep /\ image = "absent" -> "transient"
      [] ~lockstep /\ image = "other" -> "relaunch"
      [] ~lockstep /\ image = "own" -> "reinstall"

Trigger ==
    /\ gui = "up" /\ ~evaluating
    /\ plan' = IF decide \in {"relaunch", "reinstall"} THEN decide ELSE "none"
    /\ evaluating' = (plan' # "none")
    /\ UNCHANGED <<gui, image, lockstep, heir>>

\* spawn_successor starts the image; a start may fail.
Spawns ==
    /\ gui = "up" /\ plan = "relaunch" /\ plan' \in {"read", "none"}
    /\ IF plan' = "none" THEN evaluating' = FALSE /\ UNCHANGED heir
       ELSE \E l \in Launches :
              /\ heir[l].at = "none" /\ heir' = [heir EXCEPT ![l].at = "spawned"]
              /\ UNCHANGED evaluating
    /\ UNCHANGED <<gui, image, lockstep>>

Newest(l) == heir[l].at # "none" /\ \A m \in Launches : m > l => heir[m].at = "none"

MutReadsReady(l) ==
    /\ gui = "up" /\ plan = "read" /\ Newest(l)
    /\ heir[l].ready \/ heir[l].at = "dead"
    /\ gui' = "exits" /\ plan' = "none" /\ UNCHANGED <<image, lockstep, evaluating, heir>>

\* read_line: READY, or the end of the pipe when the successor has gone
\* without it; then the latch is released.
ReadsReady(l) ==
    /\ gui = "up" /\ plan = "read" /\ Newest(l) /\ plan' = "none"
    /\ \/ heir[l].ready /\ gui' = "exits" /\ UNCHANGED evaluating
       \/ ~heir[l].ready /\ heir[l].at = "dead" /\ evaluating' = FALSE /\ UNCHANGED gui
    /\ UNCHANGED <<image, lockstep, heir>>

\* show_reinstall_dialog, request_exit; or the user quits.
Quits ==
    /\ gui = "up" /\ plan # "relaunch" /\ gui' = "quit" /\ plan' = "none"
    /\ UNCHANGED <<image, lockstep, evaluating, heir>>

Exits == gui = "exits" /\ gui' = "relaunched" /\ UNCHANGED <<image, lockstep, evaluating, plan, heir>>

\* await_predecessor, handshake_then_wait: the predecessor is resolved
\* first, READY said next. One that cannot be assessed is not waited for.
Handshakes(l) ==
    /\ heir[l].at = "spawned"
    /\ \E sure \in BOOLEAN :
         heir' = [heir EXCEPT ![l] =
                    [at |-> IF sure THEN "waiting" ELSE "launching", ready |-> TRUE, sure |-> sure]]
    /\ UNCHANGED <<gui, image, lockstep, evaluating, plan>>

\* wait returns when the predecessor has exited.
WaitReturns(l) ==
    /\ heir[l].at = "waiting" /\ gui \in {"relaunched", "quit"}
    /\ heir' = [heir EXCEPT ![l].at = "launching"]
    /\ UNCHANGED <<gui, image, lockstep, evaluating, plan>>

\* The single-instance lock: whoever finds it held forwards and exits.
Launched(l) ==
    /\ heir[l].at = "launching"
    /\ LET taken == gui \in {"up", "exits"} \/ \E m \in Launches : heir[m].at = "up"
       IN heir' = [heir EXCEPT ![l].at = IF taken THEN "left" ELSE "up"]
    /\ UNCHANGED <<gui, image, lockstep, evaluating, plan>>

\* A successor dies on its way to the handshake.
HeirDies(l) ==
    /\ heir[l].at = "spawned" /\ heir' = [heir EXCEPT ![l].at = "dead"]
    /\ UNCHANGED <<gui, image, lockstep, evaluating, plan>>

HealNext ==
    \/ UpdateMoves \/ Trigger \/ Spawns \/ Quits \/ Exits
    \/ \E l \in Launches :
         \/ ReadsReady(l) \/ Handshakes(l) \/ WaitReturns(l) \/ Launched(l) \/ HeirDies(l)

HealSpec == HealInit /\ [][HealNext]_healVars

\* A GUI that exits to be replaced leaves one in its place: a successor that
\* waits for the exit, is launching or is up. The one exception the code
\* accepts is a predecessor the successor could not assess
\* (spawn_successor, handshake_then_wait).
HandedOver ==
    gui \in {"exits", "relaunched"} =>
      \E l \in Launches : heir[l].at \in {"waiting", "launching", "up"} \/ ~heir[l].sure

-----------------------------------------------------------------------------
(* The configuration.                                                      *)
VARIABLES
    cfg,        \* AppState.config: servers in order, selection
    disk,       \* the config file
    web,        \* the webview's copy
    minted,     \* ids ever given to an entry
    members,    \* the entries imports reported added and deletes did not remove
    testing     \* the entries a test is under way for
configVars == <<cfg, disk, web, minted, members, testing>>

NoConfig == [servers |-> <<>>, sel |-> NoEntry]
IdsOf(c) == {c.servers[i].id : i \in DOMAIN c.servers}

ConfigInit ==
    /\ cfg = NoConfig /\ disk = NoConfig /\ web = NoConfig
    /\ minted = {} /\ members = {} /\ testing = {}

auto_select_first_server(c) ==
    [c EXCEPT !.sel = IF @ \in IdsOf(c) THEN @
                      ELSE IF c.servers = <<>> THEN NoEntry ELSE c.servers[1].id]

MutApply(ui, c) == auto_select_first_server(ui)

\* UiSettings::apply, then the selection is healed.
Apply(ui, c) ==
    LET entry(id) == CHOOSE i \in DOMAIN ui.servers : ui.servers[i].id = id
        merged(s) == IF s.id \notin IdsOf(ui) THEN s
                     ELSE [s EXCEPT !.content = ui.servers[entry(s.id)].content]
    IN auto_select_first_server(
         [servers |-> [i \in DOMAIN c.servers |-> merged(c.servers[i])], sel |-> ui.sel])

\* config_store.save on a copy: the file first, then the memory; or neither.
Persist(updated) == disk' = updated /\ cfg' = updated

\* get_config; what the webview keeps has no validation.
UiSettings(c) == [c EXCEPT !.servers = [i \in DOMAIN @ |-> [@[i] EXCEPT !.tested = "no"]]]

WebReads == web' = UiSettings(cfg) /\ UNCHANGED <<cfg, disk, minted, members, testing>>

\* The user edits the webview's copy.
WebEdits ==
    /\ \/ \E i \in DOMAIN web.servers, c \in Contents :
            web' = [web EXCEPT !.servers[i].content = c]
       \/ \E e \in IdsOf(web) : web' = [web EXCEPT !.sel = e]
    /\ UNCHANGED <<cfg, disk, minted, members, testing>>

save_config == Persist(Apply(web, cfg)) /\ UNCHANGED <<web, minted, members, testing>>

\* import_file, apply_import: an entry that dials what another dials is
\* dropped; a new id is minted.
import_file ==
    /\ Entries \ minted # {}
    /\ \E c \in Contents :
         LET e == CHOOSE new \in Entries \ minted : TRUE IN
         /\ minted' = minted \cup {e}
         /\ IF \E i \in DOMAIN cfg.servers : cfg.servers[i].content = c
            THEN Persist(auto_select_first_server(cfg)) /\ UNCHANGED members
            ELSE /\ Persist(auto_select_first_server([cfg EXCEPT
                        !.servers = Append(@, [id |-> e, content |-> c, tested |-> "no"])]))
                 /\ members' = members \cup {e}
    /\ UNCHANGED <<web, testing>>

\* delete_server, remove_server
delete_server(e) ==
    /\ Persist(auto_select_first_server(
                 [cfg EXCEPT !.servers = SelectSeq(@, LAMBDA s : s.id # e)]))
    /\ members' = members \ {e} /\ UNCHANGED <<web, minted, testing>>

\* The validation of e, in memory and in a file that may not take it.
Validated(e, kept, result) ==
    /\ cfg' = [cfg EXCEPT !.servers = [i \in DOMAIN @ |->
                 IF @[i].id = e /\ @[i].tested \notin kept THEN [@[i] EXCEPT !.tested = result] ELSE @[i]]]
    /\ disk' \in {disk, cfg'}

\* test_server: the entry is copied out, the bridge tests it with the
\* configuration unlocked, and the result goes to the entry if it is there.
TestBegins(e) ==
    /\ e \in IdsOf(cfg) \ testing /\ testing' = testing \cup {e}
    /\ UNCHANGED <<cfg, disk, web, minted, members>>

TestEnds(e) ==
    /\ e \in testing /\ testing' = testing \ {e}
    /\ IF e \in IdsOf(cfg)
       THEN \E result \in {"reachable", "failed"} : Validated(e, {}, result)
       ELSE UNCHANGED <<cfg, disk>>
    /\ UNCHANGED <<web, minted, members>>

mark_validated_by_proxy_start(e) ==
    /\ e \in IdsOf(cfg) /\ Validated(e, {"reachable"}, "sentinel")
    /\ UNCHANGED <<web, minted, members, testing>>

\* persist_intended_enabled and the elevation prompt save what is in memory.
SavesMemory == disk' = cfg /\ UNCHANGED <<cfg, web, minted, members, testing>>

GuiRestarts ==
    /\ cfg' = disk /\ web' = UiSettings(disk) /\ testing' = {} /\ UNCHANGED <<disk, minted, members>>

ConfigNext ==
    \/ WebReads \/ WebEdits \/ save_config \/ import_file \/ SavesMemory \/ GuiRestarts
    \/ \E e \in Entries :
         \/ delete_server(e) \/ TestBegins(e) \/ TestEnds(e)
         \/ mark_validated_by_proxy_start(e)

\* The servers are those imported and not deleted, in memory and in the file,
\* whatever copy the webview saves and whenever a test ends; and the
\* selection names one of them whenever there is one (UiSettings::apply,
\* delete_server, test_server).
MembershipOwned ==
    \A c \in {cfg, disk} :
      IdsOf(c) = members /\ (IF members = {} THEN c.sel = NoEntry ELSE c.sel \in members)

=============================================================================
