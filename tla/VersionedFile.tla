---------------------------- MODULE VersionedFile ----------------------------
(***************************************************************************)
(* One state file kept through util's VersionedFile: the read (observe),   *)
(* the one write path (update) call by call, and what the file's role says *)
(* about a copy this release cannot read.  The processes that keep the     *)
(* file come one after the other (BridgeLiveness excludes two at a time)   *)
(* and may be of different releases: an update, then a rollback.           *)
(*                                                                         *)
(* A process may be killed and the power may fail between any two calls,   *)
(* and a call may fail.  Before a process runs, anything may have happened *)
(* to the file at its name (Damage).                                       *)
(*                                                                         *)
(* The temp file of a write is no name anyone reads, so only the file      *)
(* staged in it is kept (act.file).  An open of the directory that fails   *)
(* returns before anything is read or written and is left out.             *)
(***************************************************************************)
EXTENDS FiniteSets, FiniteSetsExt, Naturals

CONSTANTS Environments,  \* the files and the runs to consider, see MCVersionedFile
          Threads,       \* the threads of a process that use the file
          Values,        \* payloads
          MaxBackups     \* the most names *.unreadable[.N].bak looked at

Roles == {"decision", "osRecord", "legacyRecord", "config", "claim", "cover"}

\* A release reads its own schema: its chain's floor is below it.
ASSUME FileAssumption ==
  /\ MaxBackups \in Nat
  /\ \A e \in Environments :
       /\ e.role \in Roles
       /\ e.releases \subseteq 1 .. 3
       /\ e.unversioned \in Nat
       /\ e.floor \in Nat /\ \A r \in e.releases : r > 1 => e.floor < r

VARIABLES env,      \* one of Environments
          names,    \* the directory: which file each name holds
          survives, \* the directories a power loss may leave behind
          release,  \* the release of the running process, 0 when none runs
          gen,      \* the generation of the path in this process
          act,      \* the update in flight, whose thread holds the path's lock
          seen,     \* the last observation of each thread
          count     \* what has happened of what the environment bounds

vars == <<env, names, survives, release, gen, act, seen, count>>

Role == env.role
Main == 0
Names == 0 .. MaxBackups

\* A file is told from another by its id; its bytes are whole, written but not
\* yet synced ("cached"), or torn.
NoFile == [id |-> 0, version |-> 0, value |-> "none", bytes |-> "torn"]
Ids == 1 .. 2 * MaxBackups + 4
Files == [id : Ids, version : 0 .. 3, value : Values, bytes : {"whole", "cached", "torn"}]
           \cup {NoFile}
NoSight == [file |-> NoFile, links |-> 0, gen |-> 0]
Free == [thread |-> "none", pc |-> "free", loaded |-> "none", file |-> NoFile,
         backUp |-> FALSE, backup |-> Main]

-----------------------------------------------------------------------------
(* Reading.                                                                *)

Links(dir, file) == Cardinality({n \in Names : dir[n] = file})

\* The vouched read of a file the system owns refuses a second name.
MayRead(dir, file) == env.system => Links(dir, file) = 1

\* The lowest version release r still migrates is one above its floor.
Floor(r) == IF r = 1 THEN 0 ELSE env.floor

\* A file with no version key reads as UNVERSIONED_AS, if the schema has one.
VersionOf(file) == IF file.version = 0 THEN env.unversioned ELSE file.version

Decode(r, file) ==
  CASE VersionOf(file) = 0 \/ file.bytes = "torn" -> "corrupt"
    [] VersionOf(file) > r /\ file.bytes # "torn" -> "newer"
    [] VersionOf(file) \in 1 .. Floor(r) /\ file.bytes # "torn" -> "obsolete"
    [] VersionOf(file) \in Floor(r) + 1 .. r /\ file.bytes # "torn" -> "current"

\* The directory may fail to open for reading as well as the file, which hides
\* that nothing is at the name.
FromRead(dir, r, fails) ==
  CASE fails -> "unreadable"
    [] ~fails /\ dir[Main] = NoFile -> "absent"
    [] ~fails /\ dir[Main] # NoFile /\ ~MayRead(dir, dir[Main]) -> "unreadable"
    [] ~fails /\ dir[Main] # NoFile /\ MayRead(dir, dir[Main]) -> Decode(r, dir[Main])

-----------------------------------------------------------------------------
(* What a role does over a file that cannot be read.                       *)

OnStore(why) ==
  CASE Role \in {"decision", "cover"} -> "aside"
    [] Role \in {"osRecord", "legacyRecord", "claim"} -> "refuse"
    [] Role = "config" -> IF why = "corrupt" THEN "overwrite" ELSE "refuse"

OnRemove(why) ==
  CASE Role \in {"decision", "cover"} -> "aside"
    [] Role \in {"osRecord", "legacyRecord", "config"} -> "keep"
    [] Role = "claim" -> "remove"

MutOnStoreIoFailure ==
  IF Role \in {"decision", "config", "cover"} THEN "overwrite" ELSE "refuse"

OnStoreIoFailure ==
  IF Role \in {"decision", "config", "cover"} THEN "aside" ELSE "refuse"

OnRemoveIoFailure ==
  CASE Role \in {"decision", "config"} -> "aside"
    [] Role \in {"osRecord", "legacyRecord", "cover"} -> "keep"
    [] Role = "claim" -> "remove"

StoreOver(loaded) ==
  CASE loaded = "unreadable" -> OnStoreIoFailure
    [] loaded \in {"absent", "obsolete", "current"} -> "overwrite"
    [] loaded \in {"newer", "corrupt"} -> OnStore(loaded)

RemoveOver(loaded) ==
  CASE loaded = "unreadable" -> OnRemoveIoFailure
    [] loaded \in {"absent", "obsolete", "current"} -> "remove"
    [] loaded \in {"newer", "corrupt"} -> OnRemove(loaded)

\* The call the update goes on to; "nothing" for a refusal and for a kept file.
StepOf(change, loaded) ==
  CASE change = "aside" -> "aside"
    [] change = "store" -> IF StoreOver(loaded) = "refuse" THEN "nothing" ELSE "stage"
    [] change = "remove" -> CASE RemoveOver(loaded) = "keep" -> "nothing"
                              [] RemoveOver(loaded) = "aside" -> "aside"
                              [] RemoveOver(loaded) = "remove" -> "delete"

-----------------------------------------------------------------------------
(* The directory.                                                          *)

FreshIds == Ids \ ({f.id : f \in UNION {{d[n] : n \in Names} : d \in survives \cup {names}}}
                     \cup {seen[t].file.id : t \in Threads} \cup {act.file.id})
FreshId == Min(FreshIds)

FreeBackups == {n \in Names \ {Main} : names[n] = NoFile}
FreeBackup == Min(FreeBackups)

\* A change of the directory is durable only once the directory is flushed.
Becomes(dir) == /\ names' = dir
                /\ survives' = survives \cup {dir}

MayFail == count.faults < env.faults
Fails == MayFail /\ count' = [count EXCEPT !.faults = @ + 1]
Works == count' = count

Return == act' = Free
Goes(pc) == act' = [act EXCEPT !.pc = pc]

-----------------------------------------------------------------------------
(* observe and update.                                                     *)

MutObserve(t) ==
  /\ release # 0
  /\ count.reads < env.reads
  /\ seen' = [seen EXCEPT ![t] = [file |-> names[Main], links |-> Links(names, names[Main]),
                                  gen |-> gen]]
  /\ count' = [count EXCEPT !.reads = @ + 1]
  /\ UNCHANGED <<env, names, survives, release, gen, act>>

\* One read and the generation that goes with it, under the path's lock.
Observe(t) ==
  /\ act = Free
  /\ release # 0
  /\ count.reads < env.reads
  /\ seen' = [seen EXCEPT ![t] = [file |-> names[Main], links |-> Links(names, names[Main]),
                                  gen |-> gen]]
  /\ count' = [count EXCEPT !.reads = @ + 1]
  /\ UNCHANGED <<env, names, survives, release, gen, act>>

\* Up to the generation's move: lock, read, decide, turn the change into a step.
\* A change that keeps the file and a refusal return here with nothing touched.
Update(t, change, value) ==
  /\ release # 0
  /\ act = Free
  /\ count.updates < env.updates
  /\ \E fails \in {FALSE} \cup {MayFail} :
       LET loaded == FromRead(names, release, fails)
           step == StepOf(change, loaded)
       IN /\ step # "nothing" /\ (change = "store" => FreshIds # {})
          /\ gen' = gen + 1
          /\ act' = [thread |-> t, pc |-> step, loaded |-> loaded,
                     file |-> IF change = "store"
                              THEN [id |-> FreshId, version |-> release, value |-> value,
                                    bytes |-> "cached"]
                              ELSE NoFile,
                     backUp |-> change = "store" /\ StoreOver(loaded) = "aside",
                     backup |-> Main]
          /\ count' = [count EXCEPT !.updates = @ + 1, !.faults = IF fails THEN @ + 1 ELSE @]
  /\ UNCHANGED <<env, names, survives, release, seen>>

MutStage ==
  /\ act.pc = "stage"
  /\ \/ Works /\ act' = [act EXCEPT !.pc = IF act.backUp THEN "link" ELSE "publish"]
     \/ Fails /\ Return
  /\ UNCHANGED <<env, names, survives, release, gen, seen>>

\* The temp file is written, synced and sealed.
Stage ==
  /\ act.pc = "stage"
  /\ \/ /\ Works
        /\ act' = [act EXCEPT !.pc = IF act.backUp THEN "link" ELSE "publish",
                              !.file.bytes = "whole"]
     \/ Fails /\ Return
  /\ UNCHANGED <<env, names, survives, release, gen, seen>>

\* A second name for what is about to be replaced.
LinkToFreeBackup ==
  /\ act.pc = "link"
  /\ \/ /\ Works /\ FreeBackups # {}
        /\ act' = [act EXCEPT !.pc = "publish",
                              !.backup = IF names[Main] = NoFile THEN Main ELSE FreeBackup]
        /\ Becomes([names EXCEPT ![FreeBackup] = names[Main]])
     \/ Fails /\ Return /\ UNCHANGED <<names, survives>>
  /\ UNCHANGED <<env, release, gen, seen>>

MutPublish ==
  /\ act.pc = "publish"
  /\ \/ Works /\ Becomes([names EXCEPT ![Main] = act.file]) /\ Goes("finalize")
     \/ Fails /\ UNCHANGED <<names, survives>> /\ Return
  /\ UNCHANGED <<env, release, gen, seen>>

\* The rename over the name.
Publish ==
  /\ act.pc = "publish"
  /\ \/ Works /\ Becomes([names EXCEPT ![Main] = act.file]) /\ Goes("finalize")
     \/ /\ Fails /\ UNCHANGED <<names, survives>>
        /\ IF act.backup = Main THEN Return ELSE Goes("takeBack")
  /\ UNCHANGED <<env, release, gen, seen>>

\* The write failed after its backup was made; a failed unlink is only logged.
TakeBackBackup ==
  /\ act.pc = "takeBack"
  /\ \/ Works /\ Becomes([names EXCEPT ![act.backup] = NoFile])
     \/ /\ MayFail /\ UNCHANGED <<names, survives>>
        /\ count' = [count EXCEPT !.faults = @ + 1, !.stuck = @ + 1]
  /\ Return
  /\ UNCHANGED <<env, release, gen, seen>>

\* The flush of the directory; a failed one is only logged.
Finalize ==
  /\ act.pc = "finalize"
  /\ \/ Works /\ survives' = {names}
     \/ Fails /\ UNCHANGED survives
  /\ Return
  /\ UNCHANGED <<env, names, release, gen, seen>>

Delete ==
  /\ act.pc = "delete"
  /\ \/ Works /\ Becomes([names EXCEPT ![Main] = NoFile])
     \/ Fails /\ UNCHANGED <<names, survives>>
  /\ Return
  /\ UNCHANGED <<env, release, gen, seen>>

\* One rename that refuses to replace, to the first free backup name.
MoveAsideIn ==
  /\ act.pc = "aside"
  /\ \/ /\ Works
        /\ IF names[Main] = NoFile THEN UNCHANGED <<names, survives>>
           ELSE FreeBackups # {} /\ Becomes([names EXCEPT ![FreeBackup] = names[Main], ![Main] = NoFile])
     \/ Fails /\ UNCHANGED <<names, survives>>
  /\ Return
  /\ UNCHANGED <<env, release, gen, seen>>

-----------------------------------------------------------------------------
(* What happens around the process.                                        *)

NoProcess == /\ release' = 0
             /\ act' = Free
             /\ gen' = 0
             /\ seen' = [t \in Threads |-> NoSight]

\* The process ends or is killed; the directory stays as the calls left it.
Exit ==
  /\ release # 0
  /\ count.exits < env.exits
  /\ NoProcess
  /\ count' = [count EXCEPT !.exits = @ + 1, !.killed = IF act = Free THEN @ ELSE @ + 1]
  /\ UNCHANGED <<env, names, survives>>

\* The power fails: one of the directories not yet flushed over is what is left,
\* and bytes that were never synced are gone.
PowerLoss ==
  /\ count.losses < env.losses
  /\ \E dir \in survives :
       names' = [n \in Names |-> IF dir[n].bytes = "cached"
                                 THEN [dir[n] EXCEPT !.bytes = "torn"] ELSE dir[n]]
  /\ survives' = {names'}
  /\ NoProcess
  /\ count' = [count EXCEPT !.losses = @ + 1, !.killed = @ + 1]
  /\ UNCHANGED env

Start(r) ==
  /\ release = 0
  /\ release' = r
  /\ UNCHANGED <<env, names, survives, gen, act, seen, count>>

\* Between two processes something else writes the name: a file of any release,
\* with or without a version, whole or not.
Damage(version, value, bytes) ==
  /\ release = 0
  /\ count.damages < env.damages /\ FreshIds # {}
  /\ count' = [count EXCEPT !.damages = @ + 1]
  /\ LET dir == [names EXCEPT ![Main] = [id |-> FreshId, version |-> version,
                                         value |-> value, bytes |-> bytes]]
     IN names' = dir /\ survives' = {dir}
  /\ UNCHANGED <<env, release, gen, act, seen>>

-----------------------------------------------------------------------------
Empty == [n \in Names |-> NoFile]

Init ==
  /\ env \in Environments
  /\ names = Empty
  /\ survives = {Empty}
  /\ release = 0
  /\ gen = 0
  /\ act = Free
  /\ seen = [t \in Threads |-> NoSight]
  /\ count = [faults |-> 0, updates |-> 0, reads |-> 0, exits |-> 0, losses |-> 0,
              damages |-> 0, killed |-> 0, stuck |-> 0]

\* Nobody has to touch the file again once no update is in flight.
Rest == act = Free /\ UNCHANGED vars

Call == \/ Stage \/ LinkToFreeBackup \/ Publish \/ TakeBackBackup \/ Finalize
        \/ Delete \/ MoveAsideIn

Next ==
  \/ \E t \in Threads : Observe(t)
  \/ \E t \in Threads, c \in {"store", "remove", "aside"}, v \in Values : Update(t, c, v)
  \/ Call
  \/ Exit \/ PowerLoss
  \/ \E r \in env.releases : Start(r)
  \/ Rest
  \/ \E version \in 0 .. 3, v \in Values, bytes \in {"whole", "torn"} : Damage(version, v, bytes)

Spec == Init /\ [][Next]_vars

-----------------------------------------------------------------------------
(* Properties.                                                             *)

\* Every variable has its type, every running process holds the lock of the
\* path only while a call of its update is due, and a backup is only ever
\* remembered by a write that makes one.
TypeOK ==
  /\ env \in Environments
  /\ names \in [Names -> Files]
  /\ names \in survives
  /\ \A dir \in survives : dir \in [Names -> Files]
  /\ release \in env.releases \cup {0}
  /\ gen \in 0 .. env.updates
  /\ act = Free \/ /\ act.thread \in Threads
                   /\ act.file \in Files
                   /\ act.pc \in {"stage", "link", "publish", "takeBack", "finalize", "delete", "aside"}
                   /\ release # 0
                   /\ act.backup # Main => act.backUp
  /\ \A t \in Threads : seen[t].gen <= gen

HeldIn(dir) == {dir[n] : n \in Names} \ {NoFile}

\* A step of a process takes a file's last name only when its update had read
\* the file and understood it (VersionedFile: "a write or remove never destroys
\* it unread"), whatever fails and wherever an earlier process was killed.  The
\* two cells of the role table that say otherwise are a claim, which a remove
\* takes whatever it holds, and a corrupt config, which the next save replaces.
NeverDestroyedUnread ==
  [][ release' # 0 /\ release # 0 /\ HeldIn(names) \ HeldIn(names') # {} =>
        \/ act.loaded \in {"current", "obsolete"}
        \/ Role = "claim" /\ act.pc = "delete"
        \/ Role = "config" /\ act.loaded = "corrupt" ]_vars

\* Two observations of one process at the same generation saw the same file
\* with as many names: the generation moves before every attempt, a failed one
\* included, and is read under the lock its write holds.
SameGenerationSameFile ==
  act = Free /\ release # 0 =>
    \A t \in Threads : seen[t].links # 0 /\ seen[t].gen = gen =>
      seen[t].file = names[Main] /\ seen[t].links = Links(names, names[Main])

\* Between updates the file has one name, so that the vouched read accepts it,
\* unless a process died between the link of a backup and the publish, the power
\* failed before their flush, or the unlink of a backup whose write failed was
\* refused.
OneNameAtRest ==
  act = Free /\ count.killed = 0 /\ count.stuck = 0 /\ names[Main] # NoFile =>
    Links(names, names[Main]) = 1

\* While one release keeps the file, what it wrote reads back after any kill
\* and any power loss: the name holds a whole file of its schema or nothing.
\* Once a read has failed the next store links a backup, and only then can a
\* kill leave the file with a second name the vouched read refuses.
ReadsBack ==
  /\ act = Free
  /\ count.damages = 0
  /\ Cardinality(env.releases) = 1
  /\ count.faults = 0 \/ count.killed + count.stuck = 0
  => \A r \in env.releases : FromRead(names, r, FALSE) \in {"absent", "current"}

\* The file at the path is what its users take it for: unchanged at an equal
\* generation, singly named at rest, and readable by the release that wrote it
\* (VersionedFile::update, store, generation).
FileAsSeen == SameGenerationSameFile /\ OneNameAtRest /\ ReadsBack

=============================================================================
