------------------------------ MODULE FileLock ------------------------------
(***************************************************************************)
(* The cross-process lock of a state directory: create the file or reopen  *)
(* it, lock it, look whether the name still names it, and, when a process  *)
(* acts for an owner, replace a file of its own that was never handed to   *)
(* the owner.  A lock goes with the descriptor: closing it, or dying, lets *)
(* go.  On Windows there is no owner and the name of an open file stays,   *)
(* which is this protocol with no owner anywhere.                          *)
(***************************************************************************)
EXTENDS Naturals

CONSTANTS LockProcs, LockFiles,   \* the processes; the inodes a run may use up
          Euid, LockOwner,        \* by process: who it runs as, and whom it acts for
          NoOne                   \* no file, no process, no owner

ASSUME FileLockAssumption == NoOne \notin LockFiles /\ NoOne \notin LockProcs

VARIABLES lockName,   \* the file at the lock's name, or NoOne
          lockUid,    \* lockUid[f]: who owns file f; NoOne: not created yet
          flock,      \* flock[f]: who holds file f's lock
          locker      \* locker[p]: where process p is, its descriptor, whether it made the file

lockVars == <<lockName, lockUid, flock, locker>>

OutOfIt == [pc |-> "idle", fd |-> NoOne, made |-> FALSE]

LockInit ==
  /\ lockName = NoOne /\ lockUid = [f \in LockFiles |-> NoOne]
  /\ flock = [f \in LockFiles |-> NoOne] /\ locker = [p \in LockProcs |-> OutOfIt]

At(p, pc) == locker[p].pc = pc
Goto(p, pc) == locker' = [locker EXCEPT ![p].pc = pc]

\* The descriptor is closed, and its lock with it.
Close(p, pc) ==
  /\ locker' = [locker EXCEPT ![p] = [OutOfIt EXCEPT !.pc = pc]]
  /\ flock' = [f \in LockFiles |-> IF flock[f] = p THEN NoOne ELSE flock[f]]

Acquire(p) == At(p, "idle") /\ Goto(p, "create") /\ UNCHANGED <<lockName, lockUid, flock>>

\* open_name: O_CREAT|O_EXCL, or the file at the name, or once more.
CreateNew(p) ==
  /\ At(p, "create")
  /\ \/ /\ lockName = NoOne
        /\ \E f \in LockFiles : lockUid[f] = NoOne
        /\ LET f == CHOOSE g \in LockFiles : lockUid[g] = NoOne   \* a new one, whichever
           IN /\ lockName' = f /\ lockUid' = [lockUid EXCEPT ![f] = Euid[p]]
              /\ locker' = [locker EXCEPT ![p] = [pc |-> "lock", fd |-> f, made |-> TRUE]]
     \/ lockName # NoOne /\ Goto(p, "reopen") /\ UNCHANGED <<lockName, lockUid>>
  /\ UNCHANGED flock

\* The file's mode is 0600: only root and its owner open it.
Reopen(p) ==
  /\ At(p, "reopen")
  /\ IF lockName = NoOne THEN Goto(p, "create")
     ELSE IF Euid[p] \in {"root", lockUid[lockName]}
          THEN locker' = [locker EXCEPT ![p] = [pc |-> "lock", fd |-> lockName, made |-> FALSE]]
          ELSE locker' = [locker EXCEPT ![p] = OutOfIt]
  /\ UNCHANGED <<lockName, lockUid, flock>>

\* lock: flock(2).  A try that meets a holder gives up; an acquire waits.
TakeLock(p) ==
  /\ At(p, "lock")
  /\ \/ flock[locker[p].fd] = NoOne /\ flock' = [flock EXCEPT ![locker[p].fd] = p] /\ Goto(p, "names")
     \/ flock[locker[p].fd] # NoOne /\ Close(p, "idle")
  /\ UNCHANGED <<lockName, lockUid>>

MutNames(p) == At(p, "names") /\ Goto(p, "vet") /\ UNCHANGED <<lockName, lockUid, flock>>
\* names: is this still the file at the name?
LockNames(p) ==
  /\ At(p, "names")
  /\ IF lockName = locker[p].fd THEN Goto(p, "vet") /\ UNCHANGED flock ELSE Close(p, "create")
  /\ UNCHANGED <<lockName, lockUid>>

\* vet: with an owner, a file of the owner's is kept, one of this process's own replaced, any other refused.
Vet(p) ==
  /\ At(p, "vet")
  /\ LET uid == lockUid[locker[p].fd]
     IN IF locker[p].made \/ LockOwner[p] = NoOne \/ uid = LockOwner[p] THEN Goto(p, "own") /\ UNCHANGED flock
        ELSE IF uid = Euid[p] THEN Goto(p, "unlink") /\ UNCHANGED flock
        ELSE Close(p, "idle")
  /\ UNCHANGED <<lockName, lockUid>>

UnlinkName(p) == At(p, "unlink") /\ lockName' = NoOne /\ Close(p, "create") /\ UNCHANGED lockUid

\* changes, chown_fd: the file goes to the owner (one that has it already keeps it).
Chown(p) ==
  /\ At(p, "own")
  /\ lockUid' = [lockUid EXCEPT ![locker[p].fd] = IF LockOwner[p] = NoOne THEN @ ELSE LockOwner[p]]
  /\ Goto(p, "held")
  /\ UNCHANGED <<lockName, flock>>

\* The token is dropped, a call fails, or the process dies.
LetGo(p) == ~At(p, "idle") /\ Close(p, "idle") /\ UNCHANGED <<lockName, lockUid>>

LockStep(p) ==
  \/ Acquire(p) \/ CreateNew(p) \/ Reopen(p) \/ TakeLock(p) \/ LockNames(p)
  \/ Vet(p) \/ UnlinkName(p) \/ Chown(p) \/ LetGo(p)
LockNext == \E p \in LockProcs : LockStep(p)
LockSpec == LockInit /\ [][LockNext]_lockVars

-----------------------------------------------------------------------------

\* At most one process holds the lock, whoever replaces the file under it:
\* the name is unlinked only by the one who holds the file it names.
LockExcludes == \A p, q \in LockProcs : At(p, "held") /\ At(q, "held") => p = q
=============================================================================
