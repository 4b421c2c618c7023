------------------------------ MODULE MCShared ------------------------------
(***************************************************************************)
(* Instances of what processes of one machine share, and of the programs   *)
(* of the desktop: the state file, the file lock, crash markers, the GUI's *)
(* tray, relaunch and configuration, the developer's console and its       *)
(* transcript, and the options two programs read.  They share no variable  *)
(* and are explored side by side: part says which one takes its steps.     *)
(***************************************************************************)
EXTENDS MCVersionedFile, FileLock, Tombstone, Gui, DevConsole, EchOptions

VARIABLE part

\* Two elevated processes that act for the user, and the user's own.
MCEuid == [p \in LockProcs |-> IF p = 3 THEN "user" ELSE "root"]
MCLockOwner == [p \in LockProcs |-> IF p = 3 THEN NoOne ELSE "user"]

sharedVars == <<part, vars, lockVars, tombVars, trayVars, healVars, configVars, superVars, muxVars, echVars>>

\* A part that does not step keeps one of its initial states.
SharedInit ==
  /\ part \in {"file", "lock", "markers", "tray", "relaunch", "config", "console", "transcript",
               "options"}
  /\ part # "file" => env = CHOOSE e \in Environments : TRUE
  /\ part # "markers" => tombOs = "posix"
  /\ part # "tray" => external = FALSE
  /\ part # "console" => os = "posix"
  /\ Init /\ LockInit /\ TombInit /\ TrayInit /\ HealInit /\ ConfigInit /\ SuperInit /\ MuxInit
  /\ EchInit

SharedNext ==
  /\ UNCHANGED part
  /\ \/ /\ part = "file" /\ Next
        /\ UNCHANGED <<lockVars, tombVars, trayVars, healVars, configVars, superVars, muxVars, echVars>>
     \/ /\ part = "lock" /\ LockNext
        /\ UNCHANGED <<vars, tombVars, trayVars, healVars, configVars, superVars, muxVars, echVars>>
     \/ /\ part = "markers" /\ TombNext
        /\ UNCHANGED <<vars, lockVars, trayVars, healVars, configVars, superVars, muxVars, echVars>>
     \/ /\ part = "tray" /\ TrayNext
        /\ UNCHANGED <<vars, lockVars, tombVars, healVars, configVars, superVars, muxVars, echVars>>
     \/ /\ part = "relaunch" /\ HealNext
        /\ UNCHANGED <<vars, lockVars, tombVars, trayVars, configVars, superVars, muxVars, echVars>>
     \/ /\ part = "config" /\ ConfigNext
        /\ UNCHANGED <<vars, lockVars, tombVars, trayVars, healVars, superVars, muxVars, echVars>>
     \/ /\ part = "console" /\ SuperNext
        /\ UNCHANGED <<vars, lockVars, tombVars, trayVars, healVars, configVars, muxVars, echVars>>
     \/ /\ part = "transcript" /\ MuxNext
        /\ UNCHANGED <<vars, lockVars, tombVars, trayVars, healVars, configVars, superVars, echVars>>
     \/ /\ part = "options" /\ EchNext
        /\ UNCHANGED <<vars, lockVars, tombVars, trayVars, healVars, configVars, superVars, muxVars>>

SharedSpec == SharedInit /\ [][SharedNext]_sharedVars
=============================================================================
