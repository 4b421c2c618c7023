--------------------------- MODULE LeftoverProofs ---------------------------
(***************************************************************************)
(* What a process that died leaves to the next: the lock of the state      *)
(* directory, for any processes, owners and supply of files; the crash     *)
(* records, for any process ids and number of crashes; the standing        *)
(* filters of Windows, for any configurations, adapters and faults.        *)
(***************************************************************************)
EXTENDS FileLock, Tombstone, WfpCover, TLAPS

-----------------------------------------------------------------------------
(* The lock of the state directory.                                        *)

\* The fields a process can have.
LockTypeOK ==
  /\ lockName \in LockFiles \cup {NoOne}
  /\ flock \in [LockFiles -> LockProcs \cup {NoOne}]
  /\ locker \in [LockProcs -> [pc : {"idle", "create", "reopen", "lock", "names", "vet", "unlink", "own", "held"},
                               fd : LockFiles \cup {NoOne}, made : BOOLEAN]]

Past == {"vet", "unlink", "own", "held"}

\* Whoever is past the lock call has the lock of an open file; whoever is past
\* the name check has the lock of the file at the name.
LockIInv ==
  /\ LockTypeOK
  /\ \A p \in LockProcs : locker[p].pc \in {"lock", "names"} \cup Past => locker[p].fd \in LockFiles
  /\ \A p \in LockProcs : locker[p].pc \in {"names"} \cup Past => flock[locker[p].fd] = p
  /\ \A p \in LockProcs : locker[p].pc \in Past => lockName = locker[p].fd

\* The initial states: nobody is past the lock call.
LEMMA LockInitIInv == LockInit => LockIInv
  BY FileLockAssumption DEF LockInit, LockIInv, LockTypeOK, OutOfIt, Past

\* Letting go of a descriptor preserves the invariant, whatever the name does
\* to files nobody is past the name check of.
LEMMA CloseIInv ==
  ASSUME LockIInv, NEW p \in LockProcs, NEW pc \in {"idle", "create"}, Close(p, pc),
         \/ lockName' = lockName
         \/ lockName' = NoOne /\ locker[p].pc = "unlink"
  PROVE  LockIInv'
<1>1. LockTypeOK'
  BY Zenon, FileLockAssumption DEF LockIInv, LockTypeOK, Close, OutOfIt
<1>2. ASSUME NEW q \in LockProcs, locker'[q].pc \in {"lock", "names"} \cup Past
      PROVE  q # p /\ locker'[q] = locker[q]
  BY <1>2 DEF LockIInv, LockTypeOK, Close, OutOfIt, Past
<1>3. ASSUME NEW q \in LockProcs, locker'[q].pc \in {"names"} \cup Past
      PROVE  flock'[locker'[q].fd] = q
  BY <1>2, <1>3 DEF LockIInv, LockTypeOK, Close, OutOfIt, Past
<1>4. ASSUME NEW q \in LockProcs, locker'[q].pc \in Past
      PROVE  lockName' = locker'[q].fd
  <2>1. q # p /\ locker'[q] = locker[q] /\ lockName = locker[q].fd /\ flock[lockName] = q
    BY <1>2, <1>4 DEF LockIInv
  <2>2. locker[p].pc # "unlink"
    BY <2>1 DEF LockIInv, Past
  <2> QED BY <2>1, <2>2
<1> QED BY <1>1, <1>2, <1>3, <1>4 DEF LockIInv

\* Every step preserves it.
LEMMA LockStepIInv == LockIInv /\ [LockNext]_lockVars => LockIInv'
<1> SUFFICES ASSUME LockIInv, [LockNext]_lockVars PROVE LockIInv'
  OBVIOUS
<1>1. CASE UNCHANGED lockVars
  BY <1>1 DEF lockVars, LockIInv, LockTypeOK
<1>2. ASSUME NEW p \in LockProcs, LockStep(p) PROVE LockIInv'
  <2>1. CASE Acquire(p)
    BY <2>1 DEF Acquire, Goto, At, LockIInv, LockTypeOK, Past
  <2>2. CASE CreateNew(p)
    <3>1. CASE Goto(p, "reopen") /\ UNCHANGED <<lockName, flock>>
      BY <2>2, <3>1 DEF CreateNew, Goto, At, LockIInv, LockTypeOK, Past
    <3>2. ASSUME NEW f \in LockFiles, lockName = NoOne, lockName' = f, UNCHANGED flock, At(p, "create"),
                 locker' = [locker EXCEPT ![p] = [pc |-> "lock", fd |-> f, made |-> TRUE]]
          PROVE  LockIInv'
      <4>1. \A q \in LockProcs : locker[q].pc \notin Past
        BY <3>2, FileLockAssumption DEF LockIInv, Past
      <4> QED BY <3>2, <4>1 DEF At, LockIInv, LockTypeOK, Past
    <3> QED BY Zenon, <2>2, <3>1, <3>2 DEF CreateNew
  <2>3. CASE Reopen(p)
    <3>1. CASE Goto(p, "create")
      BY <2>3, <3>1 DEF Reopen, Goto, At, LockIInv, LockTypeOK, Past
    <3>2. CASE lockName # NoOne /\ locker' = [locker EXCEPT ![p] = [pc |-> "lock", fd |-> lockName, made |-> FALSE]]
      BY <2>3, <3>2 DEF Reopen, At, LockIInv, LockTypeOK, Past
    <3>3. CASE locker' = [locker EXCEPT ![p] = OutOfIt]
      BY <2>3, <3>3 DEF Reopen, At, LockIInv, LockTypeOK, Past, OutOfIt
    <3> QED BY <2>3, <3>1, <3>2, <3>3 DEF Reopen
  <2>4. CASE TakeLock(p)
    <3>1. CASE Close(p, "idle")
      BY <2>4, <3>1, CloseIInv DEF TakeLock
    <3>2. CASE flock[locker[p].fd] = NoOne /\ flock' = [flock EXCEPT ![locker[p].fd] = p] /\ Goto(p, "names")
      BY <2>4, <3>2, FileLockAssumption DEF TakeLock, Goto, At, LockIInv, LockTypeOK, Past
    <3> QED BY <2>4, <3>1, <3>2 DEF TakeLock
  <2>5. CASE LockNames(p)
    <3>1. CASE lockName = locker[p].fd
      BY <2>5, <3>1 DEF LockNames, Goto, At, LockIInv, LockTypeOK, Past
    <3>2. CASE lockName # locker[p].fd
      BY <2>5, <3>2, CloseIInv DEF LockNames
    <3> QED BY <3>1, <3>2
  <2>6. CASE Vet(p)
    <3>1. CASE Close(p, "idle")
      BY <2>6, <3>1, CloseIInv DEF Vet
    <3>2. CASE UNCHANGED flock /\ (Goto(p, "own") \/ Goto(p, "unlink"))
      BY <2>6, <3>2 DEF Vet, Goto, At, LockIInv, LockTypeOK, Past
    <3> QED BY <2>6, <3>1, <3>2 DEF Vet
  <2>7. CASE UnlinkName(p)
    BY <2>7, CloseIInv DEF UnlinkName, At
  <2>8. CASE Chown(p)
    BY <2>8 DEF Chown, Goto, At, LockIInv, LockTypeOK, Past
  <2>9. CASE LetGo(p)
    BY <2>9, CloseIInv DEF LetGo
  <2> QED BY <1>2, <2>1, <2>2, <2>3, <2>4, <2>5, <2>6, <2>7, <2>8, <2>9 DEF LockStep
<1> QED BY <1>1, <1>2 DEF LockNext

\* At most one process ever holds the lock: open_locked_with's check of the
\* name under the lock makes the unlink of a leftover harmless.
THEOREM LockMutex == LockSpec => []LockExcludes
<1>1. LockIInv => LockExcludes
  BY DEF LockIInv, LockExcludes, At, Past
<1> QED BY LockInitIInv, LockStepIInv, <1>1, PTL DEF LockSpec

-----------------------------------------------------------------------------
(* The crash records.                                                      *)

TombStages == {"none", "started", "naming", "blind", "attached", "crashing", "dumping"}

\* The fields a process and a name can have; what a sweep keeps is its own.
TombTypeOK ==
  /\ proc \in [TombPids -> [id : 0..MaxProcs, at : TombStages, attempt : Nat]]
  /\ born \in 0..MaxProcs
  /\ marker \in [MarkerNames -> [crash : Nat, wrote : Nat]]
  /\ dump \in [MarkerNames -> Nat]

\* No file of this process id has an attempt as high as that.
FreeFrom(p, from) == \A a \in 0..MaxProcs : a >= from => NameIsFree(<<p, a>>)

\* The files of a process id.  A process is the id-th to start, so at most
\* id - 1 names of its process id were ever used before it, lowest first: the
\* search for a free one ends below its own number, and the name it ends with
\* stays free until this process itself crashes.
FilesOf(p) ==
  LET q == proc[p] IN
  /\ q.at = "none" => FreeFrom(p, born)
  /\ q.at # "none" => q.id \in 1..born /\ q.attempt < q.id
  /\ q.at \in {"started", "naming", "blind", "attached"} => FreeFrom(p, q.id - 1)
  /\ q.at = "attached" => NameIsFree(MarkerName(p))
  /\ q.at \in {"crashing", "dumping"} =>
       /\ FreeFrom(p, q.id)
       /\ dump[MarkerName(p)] = 0
       /\ marker[MarkerName(p)] = NoMarker \/ marker[MarkerName(p)].crash = q.id

\* No crash found its name taken, and no marker lies beside another's dump.
TombIInv ==
  /\ TombTypeOK
  /\ \A p \in TombPids : FilesOf(p)
  /\ CrashHasItsOwnFiles

\* The initial states: no process, no file.
LEMMA TombInitIInv == TombInit => TombIInv
<1> SUFFICES ASSUME TombInit PROVE TombIInv
  OBVIOUS
<1>1. NoMarker \in [crash : Nat, wrote : Nat] /\ NoProc \in [id : 0..MaxProcs, at : TombStages, attempt : Nat]
  BY TombstoneAssumption DEF NoMarker, NoProc, TombStages
<1>2. TombTypeOK
  BY <1>1, TombstoneAssumption DEF TombInit, TombTypeOK
<1>3. ASSUME NEW p \in TombPids PROVE FilesOf(p)
  <2>1. proc[p] = NoProc /\ FreeFrom(p, born)
    BY DEF TombInit, FreeFrom, NameIsFree, MarkerNames
  <2> QED BY <2>1 DEF FilesOf, NoProc
<1>4. CrashHasItsOwnFiles
  BY DEF TombInit, CrashHasItsOwnFiles
<1> QED BY <1>2, <1>3, <1>4 DEF TombIInv

\* The name a live process has come to is one of the names.
LEMMA NameOK ==
  ASSUME TombIInv, NEW p \in TombPids, proc[p].at # "none"
  PROVE  MarkerName(p) \in MarkerNames /\ proc[p].attempt \in 0..MaxProcs
         /\ proc[p].id \in 1..born /\ proc[p].attempt < proc[p].id
<1>1. proc[p].id \in 1..born /\ proc[p].attempt < proc[p].id
  BY DEF TombIInv, FilesOf
<1>2. proc[p].attempt \in Nat /\ born \in 0..MaxProcs /\ MaxProcs \in Nat
  BY TombstoneAssumption DEF TombIInv, TombTypeOK
<1>3. proc[p].attempt \in 0..MaxProcs
  BY <1>1, <1>2
<1> QED BY <1>1, <1>3 DEF MarkerName, MarkerNames

\* A process id whose process did not move keeps what is said of its files
\* when others start, and when sweeps remove markers.
LEMMA Bystander ==
  ASSUME TombIInv, NEW p \in TombPids, proc'[p] = proc[p], born' \in Nat, born' >= born,
         \A n \in MarkerNames : n[1] = p => /\ marker'[n] \in {marker[n], NoMarker}
                                           /\ dump'[n] = dump[n]
  PROVE  FilesOf(p)'
<1>1. born \in Nat /\ proc[p].id \in Nat /\ MaxProcs \in Nat
  BY TombstoneAssumption DEF TombIInv, TombTypeOK
<1>2. ASSUME NEW a \in 0..MaxProcs
      PROVE  /\ marker'[<<p, a>>] \in {marker[<<p, a>>], NoMarker}
             /\ dump'[<<p, a>>] = dump[<<p, a>>]
  BY DEF MarkerNames
<1>3. ASSUME NEW from, FreeFrom(p, from) PROVE FreeFrom(p, from)'
  BY <1>2, <1>3 DEF FreeFrom, NameIsFree
<1>4. FilesOf(p)
  BY DEF TombIInv
<1>5. CASE proc[p].at = "none"
  <2>1. FreeFrom(p, born)
    BY <1>4, <1>5 DEF FilesOf
  <2>2. FreeFrom(p, born)'
    BY <1>1, <1>2, <2>1 DEF FreeFrom, NameIsFree
  <2> QED BY <1>5, <2>2 DEF FilesOf
<1>6. CASE proc[p].at # "none"
  <2>1. MarkerName(p)' = MarkerName(p) /\ proc[p].attempt \in 0..MaxProcs
    BY Zenon, <1>6, NameOK DEF MarkerName
  <2>2. proc[p].id \in 1..born' /\ proc[p].attempt < proc[p].id
    BY <1>1, <1>4, <1>6 DEF FilesOf
  <2>3. proc[p].at \in {"started", "naming", "blind", "attached"} => FreeFrom(p, proc[p].id - 1)'
    BY <1>1, <1>3, <1>4 DEF FilesOf, FreeFrom, NameIsFree
  <2>4. proc[p].at = "attached" => NameIsFree(MarkerName(p))'
    BY <1>2, <1>4, <2>1 DEF FilesOf, NameIsFree, MarkerName
  <2>5. proc[p].at \in {"crashing", "dumping"} =>
          /\ FreeFrom(p, proc[p].id)'
          /\ dump'[MarkerName(p)] = 0
          /\ marker'[MarkerName(p)] = NoMarker \/ marker'[MarkerName(p)].crash = proc[p].id
    <3>1. proc[p].at \in {"crashing", "dumping"} => FreeFrom(p, proc[p].id)'
      BY <1>1, <1>2, <1>4 DEF FilesOf, FreeFrom, NameIsFree
    <3>2. proc[p].at \in {"crashing", "dumping"} =>
            /\ dump'[MarkerName(p)] = 0
            /\ marker'[MarkerName(p)] = NoMarker \/ marker'[MarkerName(p)].crash = proc[p].id
      BY <1>2, <1>4, <2>1 DEF FilesOf, MarkerName
    <3> QED BY <3>1, <3>2
  <2> QED BY <1>6, <2>1, <2>2, <2>3, <2>4, <2>5 DEF FilesOf
<1> QED BY <1>5, <1>6

\* One process moves and its id's files change at most with it; the others'
\* keep what is said of them.
LEMMA OneMoves ==
  ASSUME TombIInv, NEW p \in TombPids, TombTypeOK', FilesOf(p)', born' >= born,
         \A q \in TombPids \ {p} : proc'[q] = proc[q],
         \A n \in MarkerNames : n[1] # p => /\ marker'[n] \in {marker[n], NoMarker}
                                           /\ dump'[n] = dump[n],
         unmarked' = unmarked,
         \A n \in MarkerNames : n[1] = p =>
           (marker'[n] # NoMarker /\ dump'[n] # 0 => marker'[n].crash = dump'[n])
  PROVE  TombIInv'
<1>1. born' \in Nat
  BY TombstoneAssumption DEF TombTypeOK
<1>2. \A q \in TombPids \ {p} : FilesOf(q)'
  BY <1>1, Bystander
<1>3. CrashHasItsOwnFiles'
  BY DEF TombIInv, CrashHasItsOwnFiles
<1> QED BY <1>2, <1>3 DEF TombIInv
\* What the steps use of the invariant.
LEMMA TombFacts ==
  ASSUME TombIInv, NEW p \in TombPids
  PROVE  /\ TombTypeOK /\ FilesOf(p) /\ CrashHasItsOwnFiles
         /\ born \in Nat /\ MaxProcs \in Nat /\ born <= MaxProcs
         /\ proc[p] \in [id : 0..MaxProcs, at : TombStages, attempt : Nat]
         /\ proc[p].id \in Nat /\ proc[p].attempt \in Nat
  BY TombstoneAssumption DEF TombIInv, TombTypeOK

\* A process starts as the next number: all names from there on are free.
LEMMA ProcessStartsIInv ==
  ASSUME TombIInv, NEW p \in TombPids, ProcessStarts(p)
  PROVE  TombIInv'
<1>1. TombTypeOK /\ FilesOf(p) /\ born \in Nat /\ MaxProcs \in Nat /\ born < MaxProcs
  BY TombFacts DEF ProcessStarts
<1>2. /\ proc'[p] = [id |-> born + 1, at |-> "started", attempt |-> 0]
      /\ \A q \in TombPids \ {p} : proc'[q] = proc[q]
      /\ born' = born + 1 /\ marker' = marker /\ dump' = dump /\ unmarked' = unmarked
  BY <1>1 DEF ProcessStarts, TombTypeOK
<1>3. born + 1 \in 0..MaxProcs /\ born' >= born /\ 0 < born + 1 /\ (born + 1) - 1 = born /\ born + 1 \in 1..born'
  BY <1>1, <1>2
<1>4. TombTypeOK'
  BY <1>1, <1>2, <1>3 DEF ProcessStarts, TombTypeOK, TombStages
<1>5. FreeFrom(p, born)
  BY <1>1 DEF ProcessStarts, FilesOf
<1>6. FilesOf(p)'
  BY <1>2, <1>3, <1>5 DEF FilesOf, FreeFrom, NameIsFree
<1> QED BY <1>2, <1>3, <1>4, <1>6, OneMoves DEF TombIInv, CrashHasItsOwnFiles

\* attach opens the directory.
LEMMA OpensIInv ==
  ASSUME TombIInv, NEW p \in TombPids, Opens(p)
  PROVE  TombIInv'
<1>1. TombTypeOK /\ FilesOf(p) /\ born \in Nat
  BY TombFacts
<1>2. PICK at \in {"naming", "blind"} : proc' = [proc EXCEPT ![p].at = at]
  BY Zenon DEF Opens
<1>3. /\ proc'[p] = [proc[p] EXCEPT !.at = at]
      /\ \A q \in TombPids \ {p} : proc'[q] = proc[q]
      /\ UNCHANGED <<born, marker, dump, unmarked>>
  BY <1>1, <1>2 DEF Opens, TombTypeOK
<1>4. proc'[p].id = proc[p].id /\ proc'[p].attempt = proc[p].attempt /\ proc'[p].at = at
  BY <1>1, <1>3 DEF TombTypeOK
<1>5. TombTypeOK'
  BY <1>1, <1>2, <1>3 DEF TombTypeOK, TombStages
<1>6. FilesOf(p)'
  BY <1>1, <1>3, <1>4 DEF Opens, FilesOf, FreeFrom, NameIsFree
<1>7. born' >= born
  BY <1>1, <1>3
<1> QED BY <1>3, <1>5, <1>6, <1>7, OneMoves DEF TombIInv, CrashHasItsOwnFiles

\* free_marker_name: a taken name is below the ones that are free.
LEMMA TriesNameIInv ==
  ASSUME TombIInv, NEW p \in TombPids, TriesName(p)
  PROVE  TombIInv'
<1>1. /\ TombTypeOK /\ FilesOf(p) /\ born \in Nat /\ MaxProcs \in Nat
      /\ proc[p].id \in Nat /\ proc[p].attempt \in Nat
  BY TombFacts
<1>2. /\ proc[p].at = "naming" /\ UNCHANGED <<born, marker, dump, unmarked>>
      /\ \A q \in TombPids \ {p} : proc'[q] = proc[q]
  BY <1>1 DEF TriesName, TombTypeOK
<1>3. /\ proc[p].attempt \in 0..MaxProcs /\ proc[p].id \in 1..born /\ proc[p].attempt < proc[p].id
      /\ FreeFrom(p, proc[p].id - 1)
  BY <1>1, <1>2, NameOK DEF FilesOf
<1>4. born' >= born
  BY <1>1, <1>2
<1>5. CASE NameIsFree(MarkerName(p)) /\ proc' = [proc EXCEPT ![p].at = "attached"]
  <2>1. proc'[p].at = "attached" /\ proc'[p].id = proc[p].id /\ proc'[p].attempt = proc[p].attempt
    BY <1>1, <1>5 DEF TombTypeOK
  <2>2. TombTypeOK'
    BY <1>1, <1>2, <1>5 DEF TombTypeOK, TombStages
  <2>3. FilesOf(p)'
    BY <1>2, <1>3, <1>5, <2>1 DEF FilesOf, FreeFrom, NameIsFree, MarkerName
  <2> QED BY <1>2, <1>4, <2>2, <2>3, OneMoves DEF TombIInv, CrashHasItsOwnFiles
<1>6. CASE ~NameIsFree(MarkerName(p)) /\ proc' = [proc EXCEPT ![p].attempt = @ + 1]
  <2>1. proc'[p].at = "naming" /\ proc'[p].id = proc[p].id /\ proc'[p].attempt = proc[p].attempt + 1
    BY <1>1, <1>2, <1>6 DEF TombTypeOK
  <2>2. TombTypeOK'
    BY <1>1, <1>2, <1>6 DEF TombTypeOK, TombStages
  <2>3. ~(proc[p].attempt >= proc[p].id - 1)
    BY <1>3, <1>6 DEF FreeFrom, MarkerName
  <2>4. proc[p].attempt + 1 < proc[p].id
    BY <1>1, <1>3, <2>3
  <2>5. FilesOf(p)'
    BY <1>2, <1>3, <2>1, <2>4 DEF FilesOf, FreeFrom, NameIsFree
  <2> QED BY <1>2, <1>4, <2>2, <2>5, OneMoves DEF TombIInv, CrashHasItsOwnFiles
<1> QED BY <1>5, <1>6 DEF TriesName

\* A process that is gone, with at most a dump of its own left: the names
\* from the number of processes on are free.
LEMMA GoneIInv ==
  ASSUME TombIInv, NEW p \in TombPids, proc[p].at # "none", Gone(p),
         UNCHANGED <<born, marker, unmarked>>, dump' \in [MarkerNames -> Nat],
         \A n \in MarkerNames : n # MarkerName(p) => dump'[n] = dump[n],
         dump'[MarkerName(p)] # dump[MarkerName(p)] =>
           proc[p].at = "dumping" /\ dump'[MarkerName(p)] = proc[p].id
  PROVE  TombIInv'
<1>1. /\ TombTypeOK /\ FilesOf(p) /\ born \in Nat /\ MaxProcs \in Nat
      /\ proc[p].id \in Nat /\ proc[p].attempt \in Nat /\ proc[p].at \in TombStages
      /\ MarkerName(p) \in MarkerNames /\ proc[p].attempt \in 0..MaxProcs
      /\ proc[p].id \in 1..born /\ proc[p].attempt < proc[p].id
  BY TombFacts, NameOK
<1>2. proc'[p] = NoProc /\ \A q \in TombPids \ {p} : proc'[q] = proc[q]
  BY <1>1 DEF Gone, TombTypeOK
<1>3. NoProc \in [id : 0..MaxProcs, at : TombStages, attempt : Nat]
  BY <1>1 DEF NoProc, TombStages
<1>4. TombTypeOK'
  BY <1>1, <1>2, <1>3 DEF Gone, TombTypeOK
<1>5. FreeFrom(p, proc[p].id)
  BY <1>1 DEF FilesOf, FreeFrom, TombStages
<1>6. FreeFrom(p, born)'
  <2> SUFFICES ASSUME NEW a \in 0..MaxProcs, a >= born PROVE NameIsFree(<<p, a>>)'
    BY DEF FreeFrom
  <2>1. a >= proc[p].id /\ a # proc[p].attempt
    BY <1>1
  <2>2. NameIsFree(<<p, a>>) /\ <<p, a>> # MarkerName(p) /\ <<p, a>> \in MarkerNames
    BY <1>5, <2>1 DEF FreeFrom, MarkerName, MarkerNames
  <2> QED BY <2>2 DEF NameIsFree
<1>7. FilesOf(p)'
  BY <1>2, <1>6 DEF FilesOf, NoProc
<1>8. \A n \in MarkerNames : n[1] # p => n # MarkerName(p)
  BY DEF MarkerName
<1>9. ASSUME NEW n \in MarkerNames, marker'[n] # NoMarker, dump'[n] # 0
      PROVE  marker'[n].crash = dump'[n]
  <2>1. CASE dump'[n] = dump[n]
    BY <1>1, <1>9, <2>1 DEF TombIInv, CrashHasItsOwnFiles
  <2>2. CASE dump'[n] # dump[n]
    BY <1>1, <1>9, <2>2 DEF FilesOf
  <2> QED BY <2>1, <2>2
<1>10. born' >= born
  BY <1>1
<1> QED BY <1>2, <1>4, <1>7, <1>8, <1>9, <1>10, OneMoves

\* on_crash: the name is free, so the marker is created or the disk refuses.
LEMMA CrashesIInv ==
  ASSUME TombIInv, NEW p \in TombPids, Crashes(p)
  PROVE  TombIInv'
<1>1. /\ TombTypeOK /\ FilesOf(p) /\ born \in Nat /\ MaxProcs \in Nat
      /\ proc[p].id \in Nat /\ proc[p].attempt \in Nat
      /\ MarkerName(p) \in MarkerNames /\ proc[p].attempt \in 0..MaxProcs
      /\ proc[p].id \in 1..born /\ proc[p].attempt < proc[p].id
      /\ proc[p].at = "attached"
  BY TombFacts, NameOK DEF Crashes
<1>2. NameIsFree(MarkerName(p)) /\ FreeFrom(p, proc[p].id - 1)
  BY <1>1 DEF FilesOf
<1>3. /\ \/ marker' = [marker EXCEPT ![MarkerName(p)] = [crash |-> proc[p].id, wrote |-> 0]]
         \/ marker' = marker
      /\ UNCHANGED <<born, dump, unmarked>>
  BY <1>2 DEF Crashes, NameIsFree
<1>4. /\ proc'[p].at = "crashing" /\ proc'[p].id = proc[p].id /\ proc'[p].attempt = proc[p].attempt
      /\ \A q \in TombPids \ {p} : proc'[q] = proc[q]
      /\ MarkerName(p)' = MarkerName(p)
  BY <1>1 DEF Crashes, TombTypeOK, MarkerName
<1>5. /\ \A n \in MarkerNames : n # MarkerName(p) => marker'[n] = marker[n]
      /\ marker'[MarkerName(p)] = NoMarker \/ marker'[MarkerName(p)].crash = proc[p].id
  BY <1>1, <1>2, <1>3 DEF TombTypeOK, NameIsFree
<1>6. TombTypeOK'
  BY <1>1, <1>3 DEF Crashes, TombTypeOK, TombStages
<1>7. FreeFrom(p, proc[p].id)'
  <2> SUFFICES ASSUME NEW a \in 0..MaxProcs, a >= proc[p].id PROVE NameIsFree(<<p, a>>)'
    BY <1>4 DEF FreeFrom
  <2>1. a >= proc[p].id - 1 /\ a # proc[p].attempt
    BY <1>1
  <2>2. NameIsFree(<<p, a>>) /\ <<p, a>> # MarkerName(p) /\ <<p, a>> \in MarkerNames
    BY SMTT(40), <1>2, <2>1 DEF FreeFrom, MarkerName, MarkerNames
  <2> QED BY <1>3, <1>5, <2>2 DEF NameIsFree
<1>8. FilesOf(p)'
  BY <1>1, <1>2, <1>3, <1>4, <1>5, <1>7 DEF FilesOf, NameIsFree
<1>9. \A n \in MarkerNames : n[1] # p => n # MarkerName(p)
  BY DEF MarkerName
<1>10. \A n \in MarkerNames : marker'[n] # NoMarker /\ dump'[n] # 0 => marker'[n].crash = dump'[n]
  BY <1>2, <1>3, <1>5 DEF TombIInv, CrashHasItsOwnFiles, NameIsFree
<1>11. born' >= born
  BY <1>1, <1>3
<1> QED BY <1>3, <1>4, <1>5, <1>6, <1>8, <1>9, <1>10, <1>11, OneMoves

\* The handler writes to its own marker.
LEMMA WritesIInv ==
  ASSUME TombIInv, NEW p \in TombPids, Writes(p)
  PROVE  TombIInv'
<1>1. /\ TombTypeOK /\ FilesOf(p) /\ born \in Nat /\ MaxProcs \in Nat
      /\ proc[p].id \in Nat /\ proc[p].attempt \in Nat
      /\ MarkerName(p) \in MarkerNames /\ proc[p].attempt \in 0..MaxProcs
      /\ proc[p].id \in 1..born /\ proc[p].attempt < proc[p].id
      /\ proc[p].at = "crashing"
  BY TombFacts, NameOK DEF Writes
<1>2. /\ UNCHANGED <<born, proc, dump, unmarked>>
      /\ marker' = [marker EXCEPT ![MarkerName(p)].wrote = @ + 1]
      /\ marker[MarkerName(p)].crash = proc[p].id
  BY DEF Writes
<1>3. /\ \A n \in MarkerNames : n # MarkerName(p) => marker'[n] = marker[n]
      /\ marker'[MarkerName(p)].crash = proc[p].id
  BY <1>1, <1>2 DEF TombTypeOK
<1>4. TombTypeOK'
  BY <1>1, <1>2 DEF TombTypeOK
<1>5. FreeFrom(p, proc[p].id)'
  <2> SUFFICES ASSUME NEW a \in 0..MaxProcs, a >= proc[p].id PROVE NameIsFree(<<p, a>>)'
    BY <1>2 DEF FreeFrom
  <2>1. a # proc[p].attempt /\ FreeFrom(p, proc[p].id)
    BY <1>1 DEF FilesOf
  <2>2. NameIsFree(<<p, a>>) /\ <<p, a>> # MarkerName(p) /\ <<p, a>> \in MarkerNames
    BY <2>1 DEF FreeFrom, MarkerName, MarkerNames
  <2> QED BY <1>2, <1>3, <2>2 DEF NameIsFree
<1>6. dump[MarkerName(p)] = 0 /\ MarkerName(p)' = MarkerName(p)
  BY <1>1, <1>2 DEF FilesOf, MarkerName
<1>7. FilesOf(p)'
  BY <1>1, <1>2, <1>3, <1>5, <1>6 DEF FilesOf
<1>8. \A n \in MarkerNames : n[1] # p => n # MarkerName(p)
  BY DEF MarkerName
<1>9. \A n \in MarkerNames : marker'[n] # NoMarker /\ dump'[n] # 0 => marker'[n].crash = dump'[n]
  BY <1>2, <1>3, <1>6 DEF TombIInv, CrashHasItsOwnFiles
<1>10. born' >= born
  BY <1>1, <1>2
<1> QED BY <1>2, <1>3, <1>4, <1>7, <1>8, <1>9, <1>10, OneMoves

\* It is done with the marker.
LEMMA ClosesIInv ==
  ASSUME TombIInv, NEW p \in TombPids, Closes(p)
  PROVE  TombIInv'
<1>1. TombTypeOK /\ FilesOf(p) /\ born \in Nat
  BY TombFacts
<1>2. /\ UNCHANGED <<born, marker, dump, unmarked>>
      /\ proc'[p].at = "dumping" /\ proc'[p].id = proc[p].id /\ proc'[p].attempt = proc[p].attempt
      /\ \A q \in TombPids \ {p} : proc'[q] = proc[q]
  BY <1>1 DEF Closes, TombTypeOK
<1>3. TombTypeOK'
  BY <1>1 DEF Closes, TombTypeOK, TombStages
<1>4. FilesOf(p)'
  BY <1>1, <1>2 DEF Closes, FilesOf, FreeFrom, NameIsFree, MarkerName
<1>5. born' >= born
  BY <1>1, <1>2
<1> QED BY <1>2, <1>3, <1>4, <1>5, OneMoves DEF TombIInv, CrashHasItsOwnFiles

\* It leaves a dump, or none.
LEMMA DiesIInv ==
  ASSUME TombIInv, NEW p \in TombPids, Dies(p)
  PROVE  TombIInv'
<1>1. /\ TombTypeOK /\ proc[p].id \in Nat /\ MarkerName(p) \in MarkerNames /\ proc[p].at = "dumping"
  BY TombFacts, NameOK DEF Dies
<1>2. dump' = dump \/ dump' = [dump EXCEPT ![MarkerName(p)] = proc[p].id]
  BY DEF Dies
<1>3. /\ dump' \in [MarkerNames -> Nat]
      /\ \A n \in MarkerNames : n # MarkerName(p) => dump'[n] = dump[n]
      /\ dump'[MarkerName(p)] # dump[MarkerName(p)] => dump'[MarkerName(p)] = proc[p].id
  BY <1>1, <1>2 DEF TombTypeOK
<1> QED BY <1>1, <1>3, GoneIInv DEF Dies

\* A sweep only ever takes markers away.
LEMMA SweepIInv ==
  ASSUME TombIInv, NEW p \in TombPids, SweepLists(p) \/ SweepReports(p) \/ SweepRemoves(p)
  PROVE  TombIInv'
<1>1. TombTypeOK /\ born \in Nat
  BY TombFacts
<1>2. UNCHANGED <<proc, born, dump, unmarked>>
  BY DEF SweepLists, SweepReports, SweepRemoves
<1>3. marker' = marker \/ marker' = [marker EXCEPT ![sweeper[p].name] = NoMarker]
  BY DEF SweepLists, SweepReports, SweepRemoves
<1>4. \A n \in MarkerNames : marker'[n] \in {marker[n], NoMarker}
  BY <1>1, <1>3 DEF TombTypeOK
<1>5. NoMarker \in [crash : Nat, wrote : Nat]
  BY DEF NoMarker
<1>6. TombTypeOK'
  BY <1>1, <1>2, <1>3, <1>5 DEF TombTypeOK
<1>7. born' >= born /\ born' \in Nat
  BY <1>1, <1>2
<1>8. FilesOf(p)'
  BY <1>2, <1>4, <1>7, Bystander
<1> QED BY <1>2, <1>4, <1>6, <1>7, <1>8, OneMoves DEF TombIInv, CrashHasItsOwnFiles

\* Every step preserves the invariant.
LEMMA TombStepIInv == TombIInv /\ [TombNext]_tombVars => TombIInv'
<1> SUFFICES ASSUME TombIInv, [TombNext]_tombVars PROVE TombIInv'
  OBVIOUS
<1>1. CASE UNCHANGED tombVars
  BY <1>1 DEF tombVars, TombIInv, TombTypeOK, FilesOf, FreeFrom, NameIsFree, MarkerName, CrashHasItsOwnFiles
<1>2. ASSUME NEW p \in TombPids, Ends(p) PROVE TombIInv'
  BY <1>2, GoneIInv DEF Ends, TombIInv, TombTypeOK
<1> QED
  BY <1>1, <1>2, ProcessStartsIInv, OpensIInv, TriesNameIInv, CrashesIInv, WritesIInv, ClosesIInv,
     DiesIInv, SweepIInv DEF TombNext

\* Whatever earlier processes with the same id left behind, and whoever sweeps
\* meanwhile, a crash under an attached handler finds the name attach chose
\* free, and no marker ever lies beside the dump of another crash.
THEOREM CrashesKeepTheirFiles == TombSpec => []CrashHasItsOwnFiles
<1>1. TombIInv => CrashHasItsOwnFiles
  BY DEF TombIInv
<1> QED BY TombInitIInv, TombStepIInv, <1>1, PTL DEF TombSpec

-----------------------------------------------------------------------------
(* The standing filters of Windows.                                        *)

Twins == [object : {"no", "live", "spent"}, record : BOOLEAN]
Idle == [pc : {"down", "boot", "up"}]
Engaging == [pc : {"committed", "recorded"}, config : WfpConfigs]
Swept == [pc : {"swept"}, update : {"arm", "disarm", "leave"}, ok : BOOLEAN, leftover : SUBSET IpFamilies]

\* The values the filters, the twins and the process can have.
WfpTypeOK ==
  /\ store \in [Keys -> Nat]
  /\ twin \in [IpFamilies -> Twins]
  /\ wfpAt \in Idle \cup Engaging \cup Swept
  /\ adapters \in [{"tun", "other"} -> Nat]

\* A filter no pre-delete names has its one value whenever it is installed,
\* so an engage that keeps it keeps the right one.
FixedKeys == LockdownKeys \ lockdown_pre_delete
FixedOK == \A k \in FixedKeys : store[k] \in {0, 1}

\* Between the commit and its verification the cover is the one that was asked for.
AsAsked(c) ==
  /\ \A k \in LockdownKeys : store[k] = build_lockdown_spec(c)[k]
  /\ \A f \in IpFamilies : twin[f].record
EngageOK == wfpAt.pc \in {"committed", "recorded"} => AsAsked(wfpAt.config)

\* A policy record nothing can read is known to the witness, unless a record
\* of the arming was lost or is about to be written.
Recorded == \E f \in IpFamilies : twin[f].record
WitnessOK == Recorded /\ ~lost /\ wfpAt.pc # "committed" => record_possible(witness)

\* What a sweep that has not updated the witness yet knows.
SweptOK ==
  wfpAt.pc = "swept" =>
    /\ wfpAt.update = "disarm" => ~Recorded
    /\ wfpAt.ok /\ ~lost => \A f \in IpFamilies : twin[f].record => f \in wfpAt.leftover

\* hole-tun exists only while the bridge runs, and an adopted cover has no
\* TUN permit until the next engage.
PermitOK ==
  /\ wfpAt.pc \in {"down", "boot"} => adapters["tun"] = 0
  /\ settled => store["tun"] = 0

WfpIInv ==
  /\ WfpTypeOK /\ FixedOK /\ EngageOK /\ WitnessOK /\ SweptOK /\ PermitOK
  /\ FiltersAccounted

\* No cover at first.
LEMMA WfpInitIInv == WfpInit => WfpIInv
<1> SUFFICES ASSUME WfpInit PROVE WfpIInv
  OBVIOUS
<1>1. WfpTypeOK
  BY DEF WfpInit, WfpTypeOK, Twins, Idle
<1>2. FixedOK /\ EngageOK /\ WitnessOK /\ SweptOK /\ PermitOK
  BY DEF WfpInit, FixedOK, FixedKeys, Keys, LockdownKeys, Siblings, EngageOK, WitnessOK, Recorded, SweptOK, PermitOK, IpFamilies
<1>3. FiltersAccounted
  BY DEF WfpInit, FiltersAccounted, LeftoverReported, EngagedIsFresh, PermitNotInherited, NoReport
<1> QED BY <1>1, <1>2, <1>3 DEF WfpIInv

\* A step after which no operation has just engaged or swept.
LEMMA NothingReported ==
  ASSUME last'.op \notin {"engaged", "swept"}, PermitOK', WfpTypeOK'
  PROVE  FiltersAccounted'
<1>1. LeftoverReported' /\ EngagedIsFresh'
  BY DEF LeftoverReported, EngagedIsFresh
<1>2. PermitNotInherited'
  BY DEF PermitOK, PermitNotInherited
<1> QED BY <1>1, <1>2 DEF FiltersAccounted

\* The transient cover's keys are not the standing cover's.
LEMMA EngageIInv ==
  ASSUME WfpIInv, NEW c \in WfpConfigs, Engage(c)
  PROVE  WfpIInv'
<1>1. PICK refused : store' = add_filters(build_cover_spec(c), transient_pre_delete, refused)
  BY DEF Engage
<1>2. /\ \A k \in LockdownKeys : store'[k] = store[k]
      /\ store' \in [Keys -> Nat]
  <2>1. DOMAIN build_cover_spec(c) = TransientKeys /\ \A k \in TransientKeys : build_cover_spec(c)[k] \in Nat
    BY WfpAssumption DEF build_cover_spec
  <2>2. \A k \in LockdownKeys : k \in Keys /\ k \notin TransientKeys
    BY DEF TransientKeys, LockdownKeys, Siblings, Keys
  <2>3. \A k \in LockdownKeys : store'[k] = store[k]
    BY <1>1, <2>1, <2>2 DEF add_filters
  <2>4. store' \in [Keys -> Nat]
    BY <1>1, <2>1 DEF add_filters, WfpIInv, WfpTypeOK
  <2> QED BY <2>3, <2>4
<1>3. UNCHANGED <<twin, witness, wfpAt, adapters, lost, settled>> /\ last'.op = "covered"
  BY DEF Engage, Returned
<1>4. WfpTypeOK'
  BY <1>2, <1>3 DEF WfpIInv, WfpTypeOK
<1>5. FixedOK' /\ EngageOK' /\ WitnessOK' /\ SweptOK' /\ PermitOK'
  <2>1. FixedOK'
    BY <1>2 DEF WfpIInv, FixedOK, FixedKeys
  <2>2. EngageOK'
    BY <1>2, <1>3 DEF WfpIInv, EngageOK, AsAsked, build_lockdown_spec
  <2>3. WitnessOK' /\ SweptOK'
    BY <1>3 DEF WfpIInv, WitnessOK, Recorded, SweptOK
  <2>4. PermitOK'
    BY <1>2, <1>3 DEF WfpIInv, PermitOK, LockdownKeys
  <2> QED BY <2>1, <2>2, <2>3, <2>4
<1>6. FiltersAccounted'
  BY <1>3, <1>4, <1>5, NothingReported
<1> QED BY <1>4, <1>5, <1>6 DEF WfpIInv

\* A standing engage that commits writes every key for its own configuration.
LEMMA EngageLockdownIInv ==
  ASSUME WfpIInv, NEW c \in WfpConfigs, EngageLockdown(c)
  PROVE  WfpIInv'
<1>1. UNCHANGED <<witness, adapters, lost>> /\ settled' = FALSE /\ wfpAt.pc = "up"
  BY Zenon DEF EngageLockdown
<1>2. CASE Returned("engage failed") /\ UNCHANGED <<store, twin, wfpAt>>
  <2>1. WfpTypeOK' /\ FixedOK' /\ EngageOK' /\ WitnessOK' /\ SweptOK' /\ PermitOK'
    BY Zenon, <1>1, <1>2 DEF WfpIInv, WfpTypeOK, FixedOK, EngageOK, WitnessOK, Recorded, SweptOK, PermitOK
  <2>2. last'.op = "engage failed"
    BY Zenon, <1>2 DEF Returned
  <2> QED BY Zenon, <2>1, <2>2, NothingReported DEF WfpIInv
<1>3. CASE /\ store' = add_filters(build_lockdown_spec(c), lockdown_pre_delete, {})
           /\ twin' = [f \in IpFamilies |-> [object |-> "live", record |-> TRUE]]
           /\ wfpAt' = [pc |-> "committed", config |-> c] /\ Returned("committed")
  <2>1. \A k \in LockdownKeys : store[k] \in Nat /\ (k \in FixedKeys => store[k] \in {0, 1} /\ build_lockdown_spec(c)[k] = 1)
    BY DEF WfpIInv, WfpTypeOK, FixedOK, FixedKeys, Keys, LockdownKeys, Siblings, lockdown_pre_delete, adopt_delete, build_lockdown_spec
  <2>2. \A k \in LockdownKeys : store'[k] = build_lockdown_spec(c)[k]
    BY <1>3, <2>1 DEF add_filters, FixedKeys, Keys, build_lockdown_spec
  <2>3. \A k \in LockdownKeys : build_lockdown_spec(c)[k] \in Nat
    BY WfpAssumption DEF build_lockdown_spec, WfpIInv, WfpTypeOK
  <2>4. store' \in [Keys -> Nat]
    BY <1>3, <2>3 DEF add_filters, build_lockdown_spec, WfpIInv, WfpTypeOK
  <2>5. WfpTypeOK'
    BY <1>1, <1>3, <2>4 DEF WfpIInv, WfpTypeOK, Twins, Engaging
  <2>6. build_lockdown_spec(c)' = build_lockdown_spec(c)
    BY <1>1 DEF build_lockdown_spec
  <2>7. FixedOK'
    BY <2>1, <2>2 DEF FixedOK, FixedKeys
  <2>8. EngageOK'
    BY <1>3, <2>2, <2>6 DEF EngageOK, AsAsked
  <2>9. WitnessOK' /\ SweptOK' /\ PermitOK'
    BY <1>1, <1>3 DEF WitnessOK, SweptOK, PermitOK
  <2>10. last'.op = "committed"
    BY <1>3 DEF Returned
  <2> QED BY <2>5, <2>7, <2>8, <2>9, <2>10, NothingReported DEF WfpIInv
<1> QED BY Zenon, <1>2, <1>3 DEF EngageLockdown

\* A commit's record of the arming, which may be lost.
LEMMA RecordArmedIInv ==
  ASSUME WfpIInv, RecordArmed
  PROVE  WfpIInv'
<1>1. /\ wfpAt \in Engaging /\ wfpAt.pc = "committed" /\ wfpAt' = [wfpAt EXCEPT !.pc = "recorded"]
      /\ UNCHANGED <<store, twin, adapters, settled>> /\ last'.op = "none"
      /\ witness' = "armed" \/ lost'
  BY Zenon DEF WfpIInv, WfpTypeOK, RecordArmed, Save, NoReport, Idle, Engaging, Swept
<1>2. wfpAt' \in Engaging /\ wfpAt'.pc = "recorded" /\ wfpAt'.config = wfpAt.config
  BY <1>1 DEF Engaging
<1>3. WfpTypeOK'
  BY <1>1, <1>2 DEF WfpIInv, WfpTypeOK
<1>4. FixedOK' /\ PermitOK'
  BY <1>1, <1>2 DEF WfpIInv, FixedOK, PermitOK
<1>5. EngageOK'
  BY <1>1, <1>2 DEF WfpIInv, EngageOK, AsAsked, build_lockdown_spec
<1>6. WitnessOK' /\ SweptOK'
  BY <1>1, <1>2 DEF WitnessOK, record_possible, SweptOK
<1> QED BY <1>1, <1>3, <1>4, <1>5, <1>6, NothingReported DEF WfpIInv

\* An engage is reported only as it was asked for.
LEMMA VerifyTwinsIInv ==
  ASSUME WfpIInv, VerifyTwins
  PROVE  WfpIInv'
<1>1. /\ wfpAt.pc = "recorded" /\ wfpAt' = [pc |-> "up"] /\ wfpAt'.pc = "up"
      /\ UNCHANGED <<store, twin, witness, adapters, lost, settled>>
  BY Zenon DEF VerifyTwins
<1>2. WfpTypeOK'
  BY <1>1 DEF WfpIInv, WfpTypeOK, Idle
<1>3. FixedOK' /\ EngageOK' /\ SweptOK'
  BY <1>1 DEF WfpIInv, FixedOK, EngageOK, SweptOK
<1>4. WitnessOK' /\ PermitOK'
  BY <1>1 DEF WfpIInv, WitnessOK, Recorded, PermitOK
<1>5. CASE Returned("engage failed")
  <2>1. last'.op = "engage failed"
    BY Zenon, <1>5 DEF Returned
  <2> QED BY Zenon, <1>2, <1>3, <1>4, <2>1, NothingReported DEF WfpIInv
<1>6. CASE /\ \A f \in IpFamilies : twin[f].object = "live"
           /\ last' = [op |-> "engaged", config |-> wfpAt.config]
  <2>1. AsAsked(wfpAt.config)
    BY <1>1 DEF WfpIInv, EngageOK
  <2>3. last'.op = "engaged" /\ last'.config = wfpAt.config
    BY <1>6
  <2>4. EngagedIsFresh'
    BY <1>1, <1>6, <2>1, <2>3 DEF EngagedIsFresh, AsAsked, build_lockdown_spec
  <2>5. LeftoverReported'
    BY <2>3 DEF LeftoverReported
  <2>6. PermitNotInherited'
    BY <1>1 DEF WfpIInv, FiltersAccounted, PermitNotInherited
  <2> QED BY <1>2, <1>3, <1>4, <2>4, <2>5, <2>6 DEF WfpIInv, FiltersAccounted
<1> QED BY Zenon, <1>5, <1>6 DEF VerifyTwins

\* Filters and twins go, and none comes.
Shrinks ==
  /\ store' \in [Keys -> Nat] /\ twin' \in [IpFamilies -> Twins]
  /\ \A k \in Keys : store'[k] \in {0, store[k]}
  /\ \A f \in IpFamilies : twin'[f].record => twin'[f] = twin[f]

LEMMA DeletedShrinks ==
  ASSUME WfpIInv, NEW keys, NEW fams, NEW refused, FiltersDeleted(keys, fams, refused)
  PROVE  Shrinks
<1>1. /\ \A k \in Keys : store[k] \in Nat
      /\ \A f \in IpFamilies : twin[f] \in Twins
      /\ [object |-> "no", record |-> FALSE] \in Twins
  BY DEF WfpIInv, WfpTypeOK, Twins
<1>2. store' \in [Keys -> Nat] /\ \A k \in Keys : store'[k] \in {0, store[k]}
  BY <1>1 DEF FiltersDeleted
<1>3. twin' \in [IpFamilies -> Twins]
  BY <1>1 DEF FiltersDeleted
<1>4. \A f \in IpFamilies : twin'[f].record => twin'[f] = twin[f]
  BY DEF FiltersDeleted
<1> QED BY <1>2, <1>3, <1>4 DEF Shrinks

\* So do they when nothing changes.
LEMMA SameShrinks ==
  ASSUME WfpIInv, UNCHANGED <<store, twin>>
  PROVE  Shrinks
  BY DEF WfpIInv, WfpTypeOK, Shrinks

\* What a step that takes filters away leaves true.
LEMMA ShrinkKeeps ==
  ASSUME WfpIInv, Shrinks, wfpAt.pc \in {"up", "boot", "down"}, wfpAt'.pc \in {"up", "boot", "down", "swept"},
         UNCHANGED <<witness, lost>>
  PROVE  FixedOK' /\ EngageOK' /\ WitnessOK' /\ (settled => store'["tun"] = 0)
<1>1. FixedOK'
  BY DEF WfpIInv, FixedOK, FixedKeys, Keys, Shrinks
<1>2. EngageOK'
  BY DEF EngageOK
<1>3. WitnessOK'
  BY DEF WfpIInv, WitnessOK, Recorded, Shrinks
<1>4. settled => store'["tun"] = 0
  BY DEF WfpIInv, PermitOK, Shrinks, Keys, LockdownKeys
<1> QED BY <1>1, <1>2, <1>3, <1>4

\* Dropping a guard.
LEMMA DropCoverIInv ==
  ASSUME WfpIInv, NEW kind \in {"transient", "lockdown"}, DropCover(kind)
  PROVE  WfpIInv'
<1>1. /\ wfpAt.pc = "up" /\ last'.op = "none"
      /\ UNCHANGED <<witness, wfpAt, adapters, lost, settled>>
  BY DEF DropCover, NoReport
<1>2. Shrinks
  BY DeletedShrinks DEF DropCover
<1>3. WfpTypeOK'
  BY <1>1, <1>2 DEF WfpIInv, WfpTypeOK, Shrinks
<1>4. FixedOK' /\ EngageOK' /\ WitnessOK' /\ (settled => store'["tun"] = 0)
  BY <1>1, <1>2, ShrinkKeeps
<1>5. SweptOK' /\ PermitOK'
  BY <1>1, <1>4 DEF SweptOK, PermitOK
<1> QED BY <1>1, <1>3, <1>4, <1>5, NothingReported DEF WfpIInv

\* Detaching one, and the steps that touch neither filters nor the process.
LEMMA QuietIInv ==
  ASSUME WfpIInv, UNCHANGED <<store, twin, wfpAt, lost, settled>>, last'.op = "none",
         adapters' \in [{"tun", "other"} -> Nat],
         adapters'["tun"] # adapters["tun"] => wfpAt.pc = "up",
         witness' = witness \/ witness' = "unreadable"
  PROVE  WfpIInv'
<1>1. WfpTypeOK' /\ FixedOK' /\ SweptOK'
  BY DEF WfpIInv, WfpTypeOK, FixedOK, SweptOK, Recorded
<1>2. EngageOK'
  BY DEF WfpIInv, EngageOK, AsAsked, build_lockdown_spec
<1>3. WitnessOK'
  BY DEF WfpIInv, WitnessOK, Recorded, record_possible
<1>4. PermitOK'
  BY DEF WfpIInv, PermitOK
<1> QED BY <1>1, <1>2, <1>3, <1>4, NothingReported DEF WfpIInv

\* The codes of a sweep prove the twins they removed gone; what they leave
\* unproven is reported as long as the witness knows of it.
LEMMA SweepOfOK ==
  ASSUME WfpIInv, NEW keys, SweepOf(keys), wfpAt.pc \in {"up", "boot"}, UNCHANGED <<witness, lost>>
  PROVE  Shrinks /\ wfpAt' \in Swept /\ SweptOK'
<1>1. CASE UNCHANGED <<store, twin>> /\ wfpAt' = [pc |-> "swept", update |-> "leave", ok |-> FALSE, leftover |-> {}]
  <2>1. wfpAt' \in Swept /\ wfpAt'.update = "leave" /\ ~wfpAt'.ok
    BY <1>1 DEF Swept
  <2> QED BY <1>1, <2>1, SameShrinks DEF SweptOK
<1>2. ASSUME NEW refused, FiltersDeleted(keys, IpFamilies, refused),
             wfpAt' = [pc |-> "swept", update |-> witness_update(refused), ok |-> refused = {},
                       leftover |-> leftover_keys(refused)]
      PROVE  Shrinks /\ wfpAt' \in Swept /\ SweptOK'
  <2>1. Shrinks
    BY <1>2, DeletedShrinks
  <2>2. witness_update(refused) \in {"arm", "disarm", "leave"} /\ leftover_keys(refused) \in SUBSET IpFamilies
    BY DEF witness_update, leftover_keys, Unproven
  <2>3. /\ wfpAt' \in Swept
        /\ wfpAt'.update = witness_update(refused) /\ wfpAt'.ok = (refused = {})
        /\ wfpAt'.leftover = leftover_keys(refused)
    BY <1>2, <2>2 DEF Swept
  <2>4. ASSUME NEW f \in IpFamilies, twin'[f].record
        PROVE  twin[f].record /\ (f \in refused \/ twin[f].object = "no")
    BY <1>2, <2>4 DEF FiltersDeleted
  <2>5. ASSUME NEW f \in IpFamilies, twin'[f].record
        PROVE  f \in Unproven(refused)
    BY <2>4, <2>5 DEF Unproven, Outcome
  <2>6. wfpAt'.update = "disarm" => ~Recorded'
    BY <2>3, <2>5 DEF witness_update, Recorded
  <2>7. ASSUME ~lost, NEW f \in IpFamilies, twin'[f].record
        PROVE  f \in leftover_keys(refused)
    <3>1. record_possible(witness)
      BY <2>4, <2>7 DEF WfpIInv, WitnessOK, Recorded
    <3> QED BY <2>5, <2>7, <3>1 DEF leftover_keys
  <2>8. SweptOK'
    BY <2>3, <2>6, <2>7 DEF SweptOK
  <2> QED BY <2>1, <2>3, <2>8
<1> QED BY Zenon, <1>1, <1>2 DEF SweepOf

\* A sweep, of a command or of recovery.
LEMMA SweepKeysIInv ==
  ASSUME WfpIInv, NEW keys, SweepOf(keys), wfpAt.pc \in {"up", "boot"},
         UNCHANGED <<witness, lost, adapters>>, settled' => settled, last'.op = "none"
  PROVE  WfpIInv'
<1>1. Shrinks /\ wfpAt' \in Swept /\ SweptOK'
  BY SweepOfOK
<1>2. wfpAt'.pc = "swept"
  BY <1>1 DEF Swept
<1>3. WfpTypeOK'
  BY <1>1 DEF WfpIInv, WfpTypeOK, Shrinks
<1>4. FixedOK' /\ EngageOK' /\ WitnessOK' /\ (settled => store'["tun"] = 0)
  BY <1>1, <1>2, ShrinkKeeps
<1>5. PermitOK'
  BY <1>2, <1>4 DEF PermitOK
<1> QED BY <1>1, <1>3, <1>4, <1>5, NothingReported DEF WfpIInv

\* The witness is updated by what the sweep proved, and the sweep returns.
LEMMA ApplyUpdateIInv ==
  ASSUME WfpIInv, ApplyUpdate
  PROVE  WfpIInv'
<1>1. /\ wfpAt.pc = "swept" /\ wfpAt' = [pc |-> "up"] /\ wfpAt'.pc = "up" /\ wfpAt \in Swept
      /\ UNCHANGED <<store, twin, adapters, settled>>
      /\ last'.op = "swept" /\ last'.ok = wfpAt.ok /\ last'.leftover = wfpAt.leftover
  BY DEF ApplyUpdate, WfpIInv, WfpTypeOK, Idle, Engaging, Swept
<1>2. /\ lost => lost'
      /\ \/ record_possible(witness') \/ lost'
         \/ wfpAt.update = "disarm"
         \/ witness' = witness /\ lost' = lost
  BY Zenon, <1>1 DEF ApplyUpdate, Save, record_possible
<1>3. WfpTypeOK' /\ FixedOK' /\ EngageOK' /\ SweptOK' /\ PermitOK'
  <2>1. WfpTypeOK' /\ FixedOK'
    BY <1>1 DEF WfpIInv, WfpTypeOK, FixedOK, Idle
  <2>2. EngageOK' /\ SweptOK' /\ PermitOK'
    BY <1>1 DEF WfpIInv, EngageOK, SweptOK, PermitOK
  <2> QED BY <2>1, <2>2
<1>4. WitnessOK'
  BY <1>1, <1>2 DEF WfpIInv, WitnessOK, SweptOK, Recorded
<1>5. LeftoverReported'
  BY <1>1, <1>2 DEF WfpIInv, SweptOK, LeftoverReported
<1>6. EngagedIsFresh' /\ PermitNotInherited'
  BY <1>1 DEF WfpIInv, FiltersAccounted, EngagedIsFresh, PermitNotInherited
<1> QED BY <1>3, <1>4, <1>5, <1>6 DEF WfpIInv, FiltersAccounted

\* The first half of a start.
LEMMA RecoverCoverIInv ==
  ASSUME WfpIInv, RecoverCover
  PROVE  WfpIInv'
<1>1. /\ wfpAt.pc = "down" /\ wfpAt' = [pc |-> "boot"] /\ wfpAt'.pc = "boot" /\ last'.op = "none"
      /\ UNCHANGED <<witness, adapters, lost, settled>>
  BY DEF RecoverCover, NoReport
<1>2. Shrinks
  BY DeletedShrinks, SameShrinks DEF RecoverCover
<1>3. WfpTypeOK'
  BY <1>1, <1>2 DEF WfpIInv, WfpTypeOK, Shrinks, Idle
<1>4. FixedOK' /\ EngageOK' /\ WitnessOK' /\ (settled => store'["tun"] = 0)
  BY <1>1, <1>2, ShrinkKeeps
<1>5. SweptOK' /\ PermitOK'
  BY <1>1, <1>4 DEF WfpIInv, SweptOK, PermitOK
<1> QED BY <1>1, <1>3, <1>4, <1>5, NothingReported DEF WfpIInv

\* The second half: adopted and reclaimed, swept, or left.
LEMMA RecoverLockdownIInv ==
  ASSUME WfpIInv, NEW intent, NEW opened, NEW denied, RecoverLockdown(intent, opened, denied)
  PROVE  WfpIInv'
<1>1. wfpAt.pc = "boot" /\ adapters["tun"] = 0 /\ last'.op = "none" /\ UNCHANGED <<witness, adapters, lost>>
  BY DEF RecoverLockdown, NoReport, WfpIInv, PermitOK
<1>2. ASSUME NEW refused \in BOOLEAN, wfpAt' = [pc |-> "up"], UNCHANGED twin, Reclaim(refused), settled' = ~refused
      PROVE  WfpIInv'
  <2>1. /\ store' \in [Keys -> Nat] /\ \A k \in Keys : store'[k] \in {0, store[k]}
        /\ ~refused => store'["tun"] = 0
    BY <1>1, <1>2 DEF Reclaim, WfpIInv, WfpTypeOK, Keys, LockdownKeys
  <2>2. Shrinks
    BY <1>2, <2>1 DEF Shrinks, WfpIInv, WfpTypeOK
  <2>3. wfpAt'.pc = "up" /\ wfpAt' \in Idle
    BY <1>2 DEF Idle
  <2>4. WfpTypeOK'
    BY <1>1, <2>2, <2>3 DEF WfpIInv, WfpTypeOK, Shrinks
  <2>5. FixedOK' /\ EngageOK' /\ WitnessOK'
    BY <1>1, <2>2, <2>3, ShrinkKeeps
  <2>6. SweptOK' /\ PermitOK'
    BY Zenon, <1>2, <2>1, <2>3 DEF SweptOK, PermitOK
  <2> QED BY <1>1, <2>4, <2>5, <2>6, NothingReported DEF WfpIInv
<1>3. CASE SweepOf(LockdownKeys) /\ settled' = FALSE
  BY <1>1, <1>3, SweepKeysIInv
<1>4. CASE wfpAt' = [pc |-> "up"] /\ settled' = FALSE /\ UNCHANGED <<store, twin>>
  <2>1. wfpAt'.pc = "up" /\ wfpAt' \in Idle
    BY <1>4 DEF Idle
  <2>2. WfpTypeOK'
    BY <1>1, <1>4, <2>1 DEF WfpIInv, WfpTypeOK
  <2>3. FixedOK' /\ EngageOK' /\ WitnessOK'
    BY <1>1, <1>4, <2>1, SameShrinks, ShrinkKeeps
  <2>4. SweptOK' /\ PermitOK'
    BY SMTT(40), <1>4, <2>1 DEF SweptOK, PermitOK
  <2> QED BY <1>1, <2>2, <2>3, <2>4, NothingReported DEF WfpIInv
<1> QED BY Zenon, <1>2, <1>3, <1>4 DEF RecoverLockdown

\* A crash or a reboot; one before the record of the arming loses it.
LEMMA GoneDownIInv ==
  ASSUME WfpIInv, ProcessGone, UNCHANGED <<store, witness>>, adapters' \in [{"tun", "other"} -> Nat],
         adapters'["tun"] = 0, twin' \in [IpFamilies -> Twins],
         \A f \in IpFamilies : twin'[f].record = twin[f].record
  PROVE  WfpIInv'
<1>1. /\ wfpAt' = [pc |-> "down"] /\ wfpAt'.pc = "down" /\ settled' = FALSE /\ last'.op = "none"
      /\ lost' = (lost \/ wfpAt.pc = "committed")
  BY DEF ProcessGone, NoReport
<1>2. WfpTypeOK' /\ FixedOK'
  BY <1>1 DEF WfpIInv, WfpTypeOK, FixedOK, Idle
<1>3. EngageOK' /\ SweptOK' /\ PermitOK'
  BY <1>1 DEF EngageOK, SweptOK, PermitOK
<1>4. WitnessOK'
  BY Zenon, <1>1 DEF WfpIInv, WitnessOK, Recorded
<1> QED BY <1>1, <1>2, <1>3, <1>4, NothingReported DEF WfpIInv

\* Every step preserves the invariant.
LEMMA WfpStepIInv == WfpIInv /\ [WfpNext]_wfpVars => WfpIInv'
<1> SUFFICES ASSUME WfpIInv, [WfpNext]_wfpVars PROVE WfpIInv'
  OBVIOUS
<1>1. CASE UNCHANGED wfpVars
  <2>1. WfpTypeOK' /\ FixedOK' /\ EngageOK' /\ WitnessOK' /\ SweptOK' /\ PermitOK'
    BY <1>1 DEF wfpVars, WfpIInv, WfpTypeOK, FixedOK, EngageOK, AsAsked, build_lockdown_spec,
                WitnessOK, Recorded, SweptOK, PermitOK
  <2>2. FiltersAccounted'
    BY <1>1 DEF wfpVars, WfpIInv, FiltersAccounted, LeftoverReported, EngagedIsFresh, build_lockdown_spec,
                PermitNotInherited
  <2> QED BY <2>1, <2>2 DEF WfpIInv
<1>2. ASSUME NEW kind, DetachCover(kind) PROVE WfpIInv'
  BY <1>2, QuietIInv DEF DetachCover, NoReport, WfpIInv, WfpTypeOK
<1>3. ASSUME NEW keys, Sweep(keys) PROVE WfpIInv'
  <2>1. last'.op = "none" /\ wfpAt.pc = "up"
    BY <1>3 DEF Sweep, NoReport
  <2> QED BY <1>3, <2>1, SweepKeysIInv DEF Sweep
<1>4. ASSUME NEW which \in {"tun", "other"}, NEW luid \in Luids \cup {0}, SetAdapter(which, luid) PROVE WfpIInv'
  <2>1. adapters' \in [{"tun", "other"} -> Nat] /\ (adapters'["tun"] # adapters["tun"] => wfpAt.pc = "up")
    BY <1>4, WfpAssumption DEF SetAdapter, WfpIInv, WfpTypeOK
  <2> QED BY <1>4, <2>1, QuietIInv DEF SetAdapter, NoReport
<1>5. CASE WitnessSpoilt
  BY <1>5, QuietIInv DEF WitnessSpoilt, NoReport, WfpIInv, WfpTypeOK
<1>6. CASE WfpCrash
  BY <1>6, GoneDownIInv DEF WfpCrash, WfpIInv, WfpTypeOK
<1>7. CASE Reboot
  <2>1. PICK object \in {"no", "spent"} :
          twin' = [f \in IpFamilies |-> IF twin[f].record THEN [twin[f] EXCEPT !.object = object] ELSE twin[f]]
    BY <1>7 DEF Reboot
  <2>2. twin' \in [IpFamilies -> Twins] /\ \A f \in IpFamilies : twin'[f].record = twin[f].record
    BY <2>1 DEF WfpIInv, WfpTypeOK, Twins
  <2>3. adapters' \in [{"tun", "other"} -> Nat] /\ adapters'["tun"] = 0
    BY <1>7 DEF Reboot
  <2> QED BY <1>7, <2>2, <2>3, GoneDownIInv DEF Reboot
<1> QED
  BY <1>1, <1>2, <1>3, <1>4, <1>5, <1>6, <1>7, EngageIInv, EngageLockdownIInv, RecordArmedIInv, VerifyTwinsIInv,
     ApplyUpdateIInv, RecoverCoverIInv, DropCoverIInv, RecoverLockdownIInv
  DEF WfpNext, DisengageLockdown, ReleaseAll

\* The standing cover of Windows is the one the last decision left, through
\* any crashes, reboots and refused calls: engage_lockdown returns one that is
\* all of its own session, a sweep that returns Ok names every policy record it
\* leaves unless a record of the arming was lost, and a cover recover_lockdown
\* adopted and reclaimed permits no stranger's adapter.
THEOREM FiltersAlwaysAccounted == WfpSpec => []FiltersAccounted
<1>1. WfpIInv => FiltersAccounted
  BY DEF WfpIInv
<1> QED BY WfpInitIInv, WfpStepIInv, <1>1, PTL DEF WfpSpec

=============================================================================
