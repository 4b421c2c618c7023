----------------------------- MODULE FileProofs -----------------------------
(***************************************************************************)
(* A state file, for every role and history of releases, any number of     *)
(* threads, backups, failed calls, kills, power losses and foreign writes: *)
(* its readers take it for what it is, and nothing unread is destroyed.    *)
(***************************************************************************)
EXTENDS VersionedFile, FiniteSetTheorems, WellFoundedInduction, TLAPS

-----------------------------------------------------------------------------
(* The inductive invariant.                                                *)

\* The calls of an update, and what a read makes of a file.
Calls == {"stage", "link", "publish", "takeBack", "finalize", "delete", "aside"}
Reads == {"absent", "unreadable", "corrupt", "newer", "obsolete", "current"}

\* The values of the directory, the process and the update in flight.
DirType ==
  /\ env \in Environments
  /\ names \in [Names -> Files] /\ names \in survives
  /\ \A dir \in survives : dir \in [Names -> Files]

ProcType ==
  /\ release \in env.releases \cup {0}
  /\ gen \in Nat
  /\ seen \in [Threads -> [file : Files, links : Nat, gen : Nat]]
  /\ count \in [faults : Nat, updates : Nat, reads : Nat, exits : Nat, losses : Nat,
                damages : Nat, killed : Nat, stuck : Nat]

ActType ==
  /\ act \in [thread : Threads \cup {"none"}, pc : Calls \cup {"free"}, loaded : Reads \cup {"none"},
              file : Files, backUp : BOOLEAN, backup : Names]
  /\ act.pc = "free" => act = Free
  /\ act.pc # "free" => release # 0

\* What an update that replaces the file read there.
MayReplace == act.loaded \in {"absent", "current", "obsolete"} \/ (Role = "config" /\ act.loaded = "corrupt")

\* What the update in flight decided, and the second name it made.
ActOK ==
  /\ act.pc \in {"stage", "link", "publish", "delete"} /\ act.loaded = "absent" => names[Main] = NoFile
  /\ act.pc = "stage" => act.backUp \/ MayReplace
  /\ act.pc = "publish" => MayReplace \/ names[Main] = NoFile \/ act.backup # Main
  /\ act.pc = "delete" => act.loaded \in {"absent", "current", "obsolete"} \/ Role = "claim"
  /\ act.pc = "takeBack" => act.backup # Main
  /\ act.pc \in {"publish", "takeBack"} /\ act.backup # Main => names[act.backup] = names[Main]
  /\ act.pc \in {"stage", "link"} => act.backup = Main

\* The generation of an observation, and what it says of the file.
SeenOK ==
  \A t \in Threads :
    /\ seen[t].gen <= gen
    /\ seen[t].links # 0 =>
         /\ release # 0
         /\ act.pc # "free" => seen[t].gen < gen
         /\ seen[t].gen = gen => seen[t].file = names[Main] /\ seen[t].links = Links(names, names[Main])

\* The file about to be published is another than any there is.
FreshOK ==
  act.pc \in {"stage", "link", "publish"} =>
    /\ act.file.id # 0
    /\ \A dir \in survives, n \in Names : dir[n].id # act.file.id

\* A second name is the backup of the update in flight.
NameOK ==
  count.killed = 0 /\ count.stuck = 0 =>
    \A n \in Names : n # Main /\ names[n] = names[Main] /\ names[Main] # NoFile =>
      act.pc \in {"publish", "takeBack"} /\ act.backup = n

\* Whatever a power loss leaves was written whole, by one of the releases.
WholeOK ==
  count.damages = 0 =>
    /\ \A dir \in survives, n \in Names :
         dir[n] = NoFile \/ (dir[n].version \in env.releases /\ dir[n].bytes = "whole")
    /\ act.pc \in {"stage", "link", "publish"} => act.file.version \in env.releases
    /\ act.pc \in {"link", "publish"} => act.file.bytes = "whole"

OneNameIn(dir) == \A m, n \in Names : dir[m] = dir[n] /\ dir[m] # NoFile => m = n

\* As long as nothing failed, no backup is made and no file has two names.
Undisturbed == count.damages = 0 /\ Cardinality(env.releases) = 1 /\ count.faults = 0
CleanOK ==
  Undisturbed =>
    /\ \A dir \in survives : OneNameIn(dir)
    /\ act.pc = "stage" => ~act.backUp
    /\ act.pc \notin {"link", "takeBack"}

FileIInv == DirType /\ ProcType /\ ActType /\ ActOK /\ SeenOK /\ FreshOK /\ NameOK /\ WholeOK /\ CleanOK

-----------------------------------------------------------------------------
LEMMA NamesFacts == Main \in Names /\ Names \subseteq Nat /\ IsFiniteSet(Names)
  BY FileAssumption, FS_Interval DEF Names, Main

LEMMA LeastOf ==
  ASSUME NEW S \in SUBSET Nat, S # {}
  PROVE  Min(S) \in S
<1> DEFINE R == OpToRel(<, Nat)
<1>1. IsWellFoundedOn(R, Nat)
  BY Zenon, NatLessThanWellFounded
<1>2. \A x, y \in Nat : x < y => <<x, y>> \in R
  BY DEF OpToRel
<1> HIDE DEF R
<1>3. PICK s \in S : \A r \in S : ~(<<r, s>> \in R)
  BY Zenon, <1>1, WFMin
<1>a. \A r \in S : ~(r < s)
  BY Zenon, <1>2, <1>3
<1>4. \A r \in S : s <= r
  BY <1>a
<1>5. \E x \in S : \A y \in S : x <= y
  BY <1>4
<1> QED
  BY <1>5, Zenon DEF Min

\* A free backup name, and an id no file has.
LEMMA FreeName ==
  ASSUME FreeBackups # {}
  PROVE  FreeBackup \in Names /\ FreeBackup # Main /\ names[FreeBackup] = NoFile
<1>1. FreeBackups \in SUBSET Nat
  BY Zenon, NamesFacts DEF FreeBackups
<1>2. FreeBackup \in FreeBackups
  BY <1>1, LeastOf DEF FreeBackup
<1> QED
  BY <1>2 DEF FreeBackups

LEMMA FreshName ==
  ASSUME FreshIds # {}
  PROVE  /\ FreshId \in Ids
         /\ \A dir \in survives \cup {names}, n \in Names : dir[n].id # FreshId
<1>1. FreshIds \in SUBSET Nat
  BY DEF FreshIds, Ids
<1>2. FreshId \in FreshIds
  BY <1>1, LeastOf DEF FreshId
<1>3. \A dir \in survives \cup {names}, n \in Names :
        dir[n].id \in {f.id : f \in UNION {{d[m] : m \in Names} : d \in survives \cup {names}}}
  <2> TAKE dir \in survives \cup {names}, n \in Names
  <2> DEFINE all == {{d[m] : m \in Names} : d \in survives \cup {names}}
  <2>1. {dir[m] : m \in Names} \in all
    OBVIOUS
  <2>2. dir[n] \in {dir[m] : m \in Names}
    OBVIOUS
  <2> HIDE DEF all
  <2>3. dir[n] \in UNION all
    BY <2>1, <2>2
  <2>4. dir[n].id \in {f.id : f \in UNION all}
    BY <2>3
  <2> QED
    BY <2>4 DEF all
<1> QED
  BY <1>2, <1>3 DEF FreshIds

\* A file with one name is linked once.
LEMMA OneLink ==
  ASSUME NEW dir, \A n \in Names : dir[n] = dir[Main] => n = Main
  PROVE  Links(dir, dir[Main]) = 1
<1>1. {n \in Names : dir[n] = dir[Main]} = {Main}
  BY Zenon, NamesFacts
<1> QED
  BY <1>1, FS_Singleton DEF Links

LEMMA LinksNat == ASSUME NEW dir, NEW f PROVE Links(dir, f) \in Nat
  BY NamesFacts, FS_Subset, FS_CardinalityType DEF Links

LEMMA FileInit == Init => FileIInv
<1> SUFFICES ASSUME Init PROVE FileIInv
  OBVIOUS
<1> USE DEF Init
<1>0. NoFile \in Files
  BY DEF Files
<1>1. DirType
  BY <1>0 DEF DirType, Empty
<1>2. ProcType
  BY <1>0 DEF ProcType, NoSight
<1>3. ActType
  BY <1>0, NamesFacts DEF ActType, Free
<1>4. ActOK /\ FreshOK
  BY DEF ActOK, FreshOK, Free
<1>5. SeenOK
  BY DEF SeenOK, NoSight, Free
<1>6. NameOK
  BY NamesFacts DEF NameOK, Empty
<1>7. WholeOK /\ CleanOK
  BY DEF WholeOK, CleanOK, OneNameIn, Empty, Free
<1> QED
  BY <1>1, <1>2, <1>3, <1>4, <1>5, <1>6, <1>7 DEF FileIInv

-----------------------------------------------------------------------------
LEMMA ReleaseFacts ==
  ASSUME DirType, NEW r \in env.releases
  PROVE  /\ r \in 1 .. 3 /\ Floor(r) \in Nat /\ Floor(r) < r
         /\ Role \in Roles /\ env.unversioned \in Nat
  BY FileAssumption DEF DirType, Floor, Role

\* What a read may say.
LEMMA ReadSays ==
  ASSUME DirType, NEW r \in env.releases, NEW fails \in BOOLEAN
  PROVE  /\ FromRead(names, r, fails) \in Reads
         /\ FromRead(names, r, fails) = "absent" => names[Main] = NoFile
<1> DEFINE file == names[Main]
<1>1. file \in Files
  BY NamesFacts DEF DirType
<1>2. VersionOf(file) \in Nat
  BY <1>1, ReleaseFacts DEF VersionOf, Files, NoFile
<1>3. Decode(r, file) \in {"corrupt", "newer", "obsolete", "current"}
  BY <1>2, ReleaseFacts DEF Decode
<1> QED
  BY <1>3 DEF FromRead, Reads

\* A whole file of the release that reads it, with one name.
LEMMA ReadsCurrent ==
  ASSUME DirType, NEW r \in env.releases, NEW fails \in BOOLEAN, ~fails,
         names[Main] = NoFile \/ (names[Main].version = r /\ names[Main].bytes = "whole"),
         names[Main] = NoFile \/ Links(names, names[Main]) = 1
  PROVE  FromRead(names, r, fails) \in {"absent", "current"}
<1>1. CASE names[Main] = NoFile
  BY <1>1 DEF FromRead
<1>2. CASE names[Main] # NoFile
  <2>1. VersionOf(names[Main]) = r /\ names[Main].bytes = "whole"
    BY <1>2, ReleaseFacts DEF VersionOf
  <2>2. Decode(r, names[Main]) = "current"
    BY <2>1, ReleaseFacts DEF Decode
  <2>3. MayRead(names, names[Main])
    BY <1>2 DEF MayRead
  <2> QED
    BY <1>2, <2>2, <2>3 DEF FromRead
<1> QED
  BY <1>1, <1>2

LEMMA OneRelease ==
  ASSUME DirType, Cardinality(env.releases) = 1, NEW r \in env.releases
  PROVE  env.releases = {r}
<1>1. IsFiniteSet(env.releases)
  <2>1. env.releases \subseteq 1 .. 3
    BY FileAssumption DEF DirType
  <2>2. env.releases \in SUBSET Nat /\ \A x \in env.releases : x <= 3
    BY <2>1
  <2> QED
    BY <2>2, FS_BoundedSetOfNaturals
<1>2. PICK x : env.releases = {x}
  BY <1>1, FS_Singleton
<1> QED
  BY <1>2

\* With one release only, and nothing that failed, the file reads back.
LEMMA UndisturbedReads ==
  ASSUME FileIInv, Undisturbed, NEW r \in env.releases, NEW fails \in BOOLEAN, ~fails
  PROVE  FromRead(names, r, fails) \in {"absent", "current"}
<1> USE DEF FileIInv
<1>1. env.releases = {r}
  BY OneRelease DEF Undisturbed
<1>2. names[Main] = NoFile \/ (names[Main].version = r /\ names[Main].bytes = "whole")
  <2>1. \A dir \in survives, n \in Names :
          dir[n] = NoFile \/ (dir[n].version \in env.releases /\ dir[n].bytes = "whole")
    BY DEF WholeOK, Undisturbed
  <2> QED
    BY <1>1, <2>1, NamesFacts DEF DirType
<1>3. names[Main] = NoFile \/ Links(names, names[Main]) = 1
  <2>1. CASE names[Main] # NoFile
    <3>0. OneNameIn(names)
      BY DEF CleanOK, DirType
    <3>1. \A n \in Names : names[n] = names[Main] => n = Main
      BY <2>1, <3>0, NamesFacts DEF OneNameIn
    <3> QED
      BY <3>1, OneLink
  <2> QED
    BY <2>1
<1> QED
  BY <1>2, <1>3, ReadsCurrent

-----------------------------------------------------------------------------
(* The steps.                                                              *)

LEMMA ObserveStep == ASSUME FileIInv, NEW t \in Threads, Observe(t) PROVE FileIInv'
<1> USE DEF FileIInv
<1>1. /\ act = Free /\ act.pc = "free" /\ release # 0
      /\ seen' = [seen EXCEPT ![t] = [file |-> names[Main], links |-> Links(names, names[Main]), gen |-> gen]]
      /\ count' = [count EXCEPT !.reads = @ + 1]
      /\ UNCHANGED <<env, names, survives, release, gen, act>>
  BY DEF Observe, Free
<1>2. DirType' /\ ActType'
  BY <1>1 DEF DirType, ActType
<1>3. names[Main] \in Files /\ Links(names, names[Main]) \in Nat
  BY NamesFacts, LinksNat DEF DirType
<1>4. /\ count' \in [faults : Nat, updates : Nat, reads : Nat, exits : Nat, losses : Nat,
                      damages : Nat, killed : Nat, stuck : Nat]
      /\ count'.killed = count.killed /\ count'.stuck = count.stuck
      /\ count'.damages = count.damages /\ count'.faults = count.faults
  BY <1>1 DEF ProcType
<1>5. ProcType'
  BY <1>1, <1>3, <1>4 DEF ProcType
<1>6. ActOK' /\ FreshOK'
  BY <1>1 DEF ActOK, FreshOK
<1>7. SeenOK'
  BY <1>1, <1>3 DEF SeenOK, ProcType, Links
<1>8. NameOK' /\ WholeOK'
  BY <1>1, <1>4 DEF NameOK, WholeOK
<1>9. CleanOK'
  BY <1>1, <1>4 DEF CleanOK, Undisturbed, OneNameIn
<1> QED
  BY <1>2, <1>5, <1>6, <1>7, <1>8, <1>9

\* The update ends: nothing is held any more.
Ended == act' = Free /\ UNCHANGED <<env, release, gen, seen>>

\* The counts of what the environment bounds never fall.
CountOK ==
  /\ count' \in [faults : Nat, updates : Nat, reads : Nat, exits : Nat, losses : Nat,
                  damages : Nat, killed : Nat, stuck : Nat]
  /\ count.killed <= count'.killed /\ count.stuck <= count'.stuck
  /\ count.damages <= count'.damages /\ count.faults <= count'.faults

LEMMA CountGrows ==
  ASSUME ProcType, count' = count \/ count' = [count EXCEPT !.faults = @ + 1]
                   \/ count' = [count EXCEPT !.faults = @ + 1, !.stuck = @ + 1]
  PROVE  CountOK
<1>1. CASE count' = count
  BY <1>1 DEF ProcType, CountOK
<1>2. CASE count' = [count EXCEPT !.faults = @ + 1]
  BY <1>2 DEF ProcType, CountOK
<1>3. CASE count' = [count EXCEPT !.faults = @ + 1, !.stuck = @ + 1]
  <2>1. count'.faults = count.faults + 1 /\ count'.stuck = count.stuck + 1
    BY <1>3 DEF ProcType
  <2>2. count'.killed = count.killed /\ count'.damages = count.damages
    BY <1>3 DEF ProcType
  <2>3. count' \in [faults : Nat, updates : Nat, reads : Nat, exits : Nat, losses : Nat,
                    damages : Nat, killed : Nat, stuck : Nat]
    <3> DEFINE once == [count EXCEPT !.faults = @ + 1]
    <3>1. once \in [faults : Nat, updates : Nat, reads : Nat, exits : Nat, losses : Nat,
                    damages : Nat, killed : Nat, stuck : Nat]
      BY DEF ProcType
    <3>2. count' = [once EXCEPT !.stuck = @ + 1]
      BY <1>3
    <3> HIDE DEF once
    <3> QED
      BY <3>1, <3>2
  <2>4. count.faults \in Nat /\ count.stuck \in Nat /\ count.killed \in Nat /\ count.damages \in Nat
    BY DEF ProcType
  <2> QED
    BY <2>1, <2>2, <2>3, <2>4 DEF CountOK
<1> QED
  BY <1>1, <1>2, <1>3

\* What holds of the directories as they are kept.
DirsOK(dirs) ==
  /\ count'.damages = 0 => \A dir \in dirs, n \in Names :
        dir[n] = NoFile \/ (dir[n].version \in env.releases /\ dir[n].bytes = "whole")
  /\ Undisturbed' => \A dir \in dirs : OneNameIn(dir)

LEMMA EndsKeep ==
  ASSUME FileIInv, Ended, CountOK, DirType',
         act.pc # "free" \/ UNCHANGED names,
         DirsOK(survives'),
         count'.killed = 0 /\ count'.stuck = 0 =>
           \A n \in Names : n # Main /\ names'[n] = names'[Main] => names'[Main] = NoFile
  PROVE  FileIInv'
<1> USE DEF FileIInv
<1>1. act' = Free /\ act'.pc = "free" /\ UNCHANGED <<env, release, gen, seen>>
  BY DEF Ended, Free
<1>2. ProcType'
  BY <1>1 DEF ProcType, CountOK
<1>3. NoFile \in Files
  BY DEF Files
<1>4. ActType'
  BY <1>1, <1>3, NamesFacts DEF ActType, Free
<1>5. ActOK' /\ FreshOK'
  BY <1>1 DEF ActOK, FreshOK
<1>6. SeenOK'
  <2>1. \A t \in Threads : seen[t].gen \in Nat /\ gen \in Nat
    BY DEF ProcType
  <2>2. CASE act.pc # "free"
    BY <1>1, <2>1, <2>2 DEF SeenOK
  <2>3. CASE UNCHANGED names /\ act.pc = "free"
    BY <1>1, <2>3 DEF SeenOK, Links
  <2> QED
    BY <2>2, <2>3
<1>7. NameOK'
  BY <1>1 DEF NameOK
<1>8. WholeOK' /\ CleanOK'
  BY <1>1 DEF WholeOK, CleanOK, DirsOK
<1> QED
  BY <1>2, <1>4, <1>5, <1>6, <1>7, <1>8

LEMMA DirsKept ==
  ASSUME FileIInv, CountOK, UNCHANGED env
  PROVE  DirsOK(survives)
<1> USE DEF FileIInv
<1>1. count'.damages = 0 => count.damages = 0
  BY DEF CountOK, ProcType
<1>2. Undisturbed' => Undisturbed
  BY <1>1 DEF CountOK, ProcType, Undisturbed
<1> QED
  BY <1>1, <1>2 DEF DirsOK, WholeOK, CleanOK

LEMMA NamesKept ==
  ASSUME FileIInv, CountOK, count'.killed = 0, count'.stuck = 0
  PROVE  \A n \in Names : n # Main /\ names[n] = names[Main] /\ names[Main] # NoFile =>
           act.pc \in {"publish", "takeBack"} /\ act.backup = n
  BY DEF FileIInv, CountOK, ProcType, NameOK

\* A step that changes one name.
LEMMA DirBecomes ==
  ASSUME DirType, NEW dir \in [Names -> Files], Becomes(dir), UNCHANGED env
  PROVE  DirType' /\ names' = dir /\ survives' = survives \cup {dir}
  BY DEF DirType, Becomes

LEMMA NoFileIn == NoFile \in Files /\ NoFile.id = 0
  BY DEF Files, NoFile

\* A call that failed, and the calls that end an update.
LEMMA FailEnds ==
  ASSUME FileIInv, Fails \/ Works, Return, UNCHANGED <<env, names, survives, release, gen, seen>>,
         act.pc \in {"publish", "takeBack"} => act.backup = Main
  PROVE  FileIInv'
<1> USE DEF FileIInv
<1>1. CountOK
  BY CountGrows DEF Fails, Works
<1>2. DirType' /\ Ended
  BY DEF DirType, Ended, Return
<1>3. DirsOK(survives')
  BY <1>1, DirsKept
<1>4. count'.killed = 0 /\ count'.stuck = 0 =>
        \A n \in Names : n # Main /\ names'[n] = names'[Main] => names'[Main] = NoFile
  BY <1>1, NamesKept
<1> QED
  BY <1>1, <1>2, <1>3, <1>4, EndsKeep

LEMMA DeleteStep == ASSUME FileIInv, Delete PROVE FileIInv'
<1> USE DEF FileIInv
<1>1. act.pc = "delete" /\ Return /\ UNCHANGED <<env, release, gen, seen>>
  BY DEF Delete
<1>2. CASE Works /\ Becomes([names EXCEPT ![Main] = NoFile])
  <2> DEFINE dir == [names EXCEPT ![Main] = NoFile]
  <2>1. dir \in [Names -> Files] /\ dir[Main] = NoFile /\ \A n \in Names : n # Main => dir[n] = names[n]
    BY NoFileIn, NamesFacts DEF DirType
  <2>2. DirType' /\ names' = dir /\ survives' = survives \cup {dir}
    BY Zenon, <1>1, <1>2, <2>1, DirBecomes
  <2>3. CountOK
    BY <1>2, CountGrows DEF Works
  <2>4. DirsOK(survives)
    BY <1>1, <2>3, DirsKept
  <2> HIDE DEF dir
  <2>5. DirsOK(survives')
    BY <2>1, <2>2, <2>4 DEF DirsOK, OneNameIn, DirType
  <2> QED
    BY <1>1, <2>1, <2>2, <2>3, <2>5, EndsKeep DEF Ended, Return
<1>3. CASE Fails /\ UNCHANGED <<names, survives>>
  BY <1>1, <1>3, FailEnds
<1> QED
  BY <1>2, <1>3 DEF Delete

LEMMA AsideStep == ASSUME FileIInv, MoveAsideIn PROVE FileIInv'
<1> USE DEF FileIInv
<1>1. act.pc = "aside" /\ Return /\ UNCHANGED <<env, release, gen, seen>>
  BY DEF MoveAsideIn
<1>2. CASE /\ Works /\ FreeBackups # {}
           /\ Becomes([names EXCEPT ![FreeBackup] = names[Main], ![Main] = NoFile])
  <2> DEFINE dir == [names EXCEPT ![FreeBackup] = names[Main], ![Main] = NoFile]
  <2>0. FreeBackup \in Names /\ FreeBackup # Main /\ names[FreeBackup] = NoFile
    BY <1>2, FreeName
  <2>1. /\ dir \in [Names -> Files] /\ dir[Main] = NoFile /\ dir[FreeBackup] = names[Main]
        /\ \A n \in Names : n # Main /\ n # FreeBackup => dir[n] = names[n]
    BY <2>0, NoFileIn, NamesFacts DEF DirType
  <2>2. DirType' /\ names' = dir /\ survives' = survives \cup {dir}
    BY Zenon, <1>1, <1>2, <2>1, DirBecomes
  <2>3. CountOK
    BY <1>2, CountGrows DEF Works
  <2>4. DirsOK(survives)
    BY <1>1, <2>3, DirsKept
  <2> HIDE DEF dir
  <2>5. OneNameIn(names) => OneNameIn(dir)
    BY <2>0, <2>1, NamesFacts DEF OneNameIn
  <2>6. DirsOK(survives')
    <3>1. \A n \in Names : \E m \in Names : dir[n] = names[m] \/ dir[n] = NoFile
      BY <2>0, <2>1, NamesFacts
    <3> QED
      BY <2>2, <2>4, <2>5, <3>1 DEF DirsOK, DirType
  <2> QED
    BY <1>1, <2>1, <2>2, <2>3, <2>6, EndsKeep DEF Ended, Return
<1>3. CASE (Fails \/ Works) /\ UNCHANGED <<names, survives>>
  BY <1>1, <1>3, FailEnds
<1> QED
  BY <1>2, <1>3 DEF MoveAsideIn

LEMMA FinalizeStep == ASSUME FileIInv, Finalize PROVE FileIInv'
<1> USE DEF FileIInv
<1>1. act.pc = "finalize" /\ Return /\ UNCHANGED <<env, names, release, gen, seen>>
  BY DEF Finalize
<1>2. CASE Works /\ survives' = {names}
  <2>1. CountOK
    BY <1>2, CountGrows DEF Works
  <2>2. DirType' /\ Ended
    BY <1>1, <1>2 DEF DirType, Ended, Return
  <2>3. DirsOK(survives')
    <3>1. DirsOK(survives)
      BY <1>1, <2>1, DirsKept
    <3> QED
      BY <1>2, <3>1 DEF DirsOK, DirType
  <2>4. count'.killed = 0 /\ count'.stuck = 0 =>
          \A n \in Names : n # Main /\ names'[n] = names'[Main] => names'[Main] = NoFile
    BY <1>1, <2>1, NamesKept
  <2> QED
    BY <1>1, <2>1, <2>2, <2>3, <2>4, EndsKeep
<1>3. CASE Fails /\ UNCHANGED survives
  BY <1>1, <1>3, FailEnds
<1> QED
  BY <1>2, <1>3 DEF Finalize

LEMMA TakeBackStep == ASSUME FileIInv, TakeBackBackup PROVE FileIInv'
<1> USE DEF FileIInv
<1>1. act.pc = "takeBack" /\ act.backup # Main /\ act.backup \in Names /\ Return
      /\ UNCHANGED <<env, release, gen, seen>>
  BY DEF TakeBackBackup, ActOK, ActType
<1>2. CASE Works /\ Becomes([names EXCEPT ![act.backup] = NoFile])
  <2> DEFINE dir == [names EXCEPT ![act.backup] = NoFile]
  <2>1. dir \in [Names -> Files] /\ dir[Main] = names[Main] /\ dir[act.backup] = NoFile
        /\ \A n \in Names : n # act.backup => dir[n] = names[n]
    BY <1>1, NoFileIn, NamesFacts DEF DirType
  <2>2. DirType' /\ names' = dir /\ survives' = survives \cup {dir}
    BY Zenon, <1>1, <1>2, <2>1, DirBecomes
  <2>3. CountOK
    BY <1>2, CountGrows DEF Works
  <2>4. DirsOK(survives)
    BY <1>1, <2>3, DirsKept
  <2> HIDE DEF dir
  <2>5. DirsOK(survives')
    BY <2>1, <2>2, <2>4 DEF DirsOK, OneNameIn, DirType
  <2>6. count'.killed = 0 /\ count'.stuck = 0 =>
          \A n \in Names : n # Main /\ names'[n] = names'[Main] => names'[Main] = NoFile
    BY <2>1, <2>2, <2>3, NamesKept
  <2> QED
    BY <1>1, <2>2, <2>3, <2>5, <2>6, EndsKeep DEF Ended, Return
<1>3. CASE UNCHANGED <<names, survives>> /\ count' = [count EXCEPT !.faults = @ + 1, !.stuck = @ + 1]
  <2>1. CountOK
    BY <1>3, CountGrows
  <2>2. count'.stuck # 0
    BY <1>3 DEF ProcType
  <2>3. DirType' /\ Ended
    BY <1>1, <1>3 DEF DirType, Ended, Return
  <2>4. DirsOK(survives')
    BY <1>1, <1>3, <2>1, DirsKept
  <2> QED
    BY <1>1, <2>1, <2>2, <2>3, <2>4, EndsKeep
<1> QED
  BY <1>2, <1>3 DEF TakeBackBackup

LEMMA UpdateStep ==
  ASSUME FileIInv, NEW t \in Threads, NEW c \in {"store", "remove", "aside"}, NEW v \in Values, Update(t, c, v)
  PROVE  FileIInv'
<1> USE DEF FileIInv
<1>1. /\ act = Free /\ act.pc = "free" /\ release # 0 /\ release \in env.releases
      /\ UNCHANGED <<env, names, survives, release, seen>>
  BY DEF Update, Free, ProcType
<1>2. PICK fails \in {FALSE} \cup {MayFail} :
        LET loaded == FromRead(names, release, fails)
            step == StepOf(c, loaded)
        IN /\ step # "nothing" /\ (c = "store" => FreshIds # {})
           /\ gen' = gen + 1
           /\ act' = [thread |-> t, pc |-> step, loaded |-> loaded,
                      file |-> IF c = "store"
                               THEN [id |-> FreshId, version |-> release, value |-> v,
                                     bytes |-> "cached"]
                               ELSE NoFile,
                      backUp |-> c = "store" /\ StoreOver(loaded) = "aside",
                      backup |-> Main]
           /\ count' = [count EXCEPT !.updates = @ + 1, !.faults = IF fails THEN @ + 1 ELSE @]
  BY Zenon DEF Update
<1> DEFINE loaded == FromRead(names, release, fails)
           step == StepOf(c, loaded)
           file == IF c = "store" THEN [id |-> FreshId, version |-> release, value |-> v, bytes |-> "cached"]
                   ELSE NoFile
           backs == c = "store" /\ StoreOver(loaded) = "aside"
<1>3. /\ step # "nothing" /\ (c = "store" => FreshIds # {})
      /\ gen' = gen + 1
      /\ act' = [thread |-> t, pc |-> step, loaded |-> loaded, file |-> file, backUp |-> backs, backup |-> Main]
      /\ count' = [count EXCEPT !.updates = @ + 1, !.faults = IF fails THEN @ + 1 ELSE @]
  BY <1>2
<1>4. fails \in BOOLEAN
  <2>1. MayFail \in BOOLEAN
    BY SMT DEF MayFail
  <2> QED
    BY Zenon, <2>1
<1>5. loaded \in Reads /\ (loaded = "absent" => names[Main] = NoFile)
  BY <1>1, <1>4, ReadSays
<1>6. Undisturbed /\ ~fails => loaded \in {"absent", "current"}
  BY <1>1, <1>4, UndisturbedReads
<1>7. Role \in Roles
  BY <1>1, ReleaseFacts
<1> HIDE DEF loaded
<1>8. /\ StoreOver(loaded) \in {"overwrite", "aside", "refuse"}
      /\ StoreOver(loaded) = "overwrite" =>
           loaded \in {"absent", "current", "obsolete"} \/ (Role = "config" /\ loaded = "corrupt")
      /\ loaded \in {"absent", "current"} => StoreOver(loaded) = "overwrite"
      /\ RemoveOver(loaded) \in {"keep", "aside", "remove"}
      /\ RemoveOver(loaded) = "remove" => loaded \in {"absent", "current", "obsolete"} \/ Role = "claim"
  BY <1>5, <1>7 DEF StoreOver, OnStore, OnStoreIoFailure, RemoveOver, OnRemove, OnRemoveIoFailure, Reads, Roles
<1>9. /\ step \in {"stage", "delete", "aside"}
      /\ step = "stage" => c = "store" /\ StoreOver(loaded) # "refuse"
      /\ step = "delete" => RemoveOver(loaded) = "remove"
  BY <1>3, <1>8 DEF StepOf
<1> HIDE DEF step
<1>10. file \in Files /\ (c = "store" => file.id = FreshId /\ file.version = release /\ FreshId \in Ids
                             /\ \A dir \in survives \cup {names}, n \in Names : dir[n].id # FreshId)
  <2>1. CASE c = "store"
    <3>1. release \in 0 .. 3
      BY <1>1, ReleaseFacts
    <3> QED
      BY <1>3, <2>1, <3>1, FreshName DEF Files
  <2>2. CASE c # "store"
    BY <2>2, NoFileIn
  <2> QED
    BY <2>1, <2>2
<1> HIDE DEF file
<1>11. backs \in BOOLEAN
  OBVIOUS
<1>12. step = "stage" /\ ~backs => StoreOver(loaded) = "overwrite"
  BY <1>8, <1>9
<1>13. backs => StoreOver(loaded) = "aside"
  OBVIOUS
<1> HIDE DEF backs
<1>14. /\ act'.thread = t /\ act'.pc = step /\ act'.loaded = loaded /\ act'.file = file
       /\ act'.backUp = backs /\ act'.backup = Main
  BY <1>3, Zenon
<1>15. /\ count' \in [faults : Nat, updates : Nat, reads : Nat, exits : Nat, losses : Nat,
                       damages : Nat, killed : Nat, stuck : Nat]
       /\ count'.killed = count.killed /\ count'.stuck = count.stuck
       /\ count'.damages = count.damages
       /\ count'.faults = 0 => count.faults = 0 /\ ~fails
  <2> DEFINE once == [count EXCEPT !.updates = @ + 1]
  <2>1. /\ once \in [faults : Nat, updates : Nat, reads : Nat, exits : Nat, losses : Nat,
                       damages : Nat, killed : Nat, stuck : Nat]
        /\ once.killed = count.killed /\ once.stuck = count.stuck
        /\ once.damages = count.damages /\ once.faults = count.faults
    BY DEF ProcType
  <2>2. count' = [once EXCEPT !.faults = IF fails THEN @ + 1 ELSE @]
    BY <1>3
  <2> HIDE DEF once
  <2> QED
    BY <2>1, <2>2
<1>16. DirType'
  BY <1>1 DEF DirType
<1>17. ProcType'
  BY <1>1, <1>3, <1>15 DEF ProcType
<1>18. ActType'
  <2>1. act' \in [thread : Threads \cup {"none"}, pc : Calls \cup {"free"}, loaded : Reads \cup {"none"},
                  file : Files, backUp : BOOLEAN, backup : Names]
    BY SMTT(40), <1>3, <1>5, <1>9, <1>10, <1>11, NamesFacts DEF Calls
  <2> QED
    BY <1>1, <1>9, <1>14, <2>1 DEF ActType
<1>19. ActOK'
  <2>1. step = "stage" => backs \/ MayReplace'
    BY <1>1, <1>8, <1>12, <1>14 DEF MayReplace, Role
  <2>2. act'.pc = "stage" => act'.backUp \/ MayReplace'
    BY <1>14, <2>1
  <2> QED
    BY <1>1, <1>5, <1>8, <1>9, <1>14, <2>2 DEF ActOK, Role
<1>20. SeenOK'
  BY <1>1, <1>3 DEF SeenOK, ProcType
<1>21. FreshOK'
  BY <1>1, <1>9, <1>10, <1>14 DEF FreshOK, DirType, Ids
<1>22. NameOK'
  BY <1>1, <1>15 DEF NameOK
<1>23. WholeOK'
  BY <1>1, <1>9, <1>10, <1>14, <1>15 DEF WholeOK
<1>24. CleanOK'
  <2>1. Undisturbed' => Undisturbed /\ loaded \in {"absent", "current"}
    BY <1>1, <1>6, <1>15 DEF Undisturbed
  <2>2. Undisturbed' => ~backs
    BY <1>8, <1>13, <2>1
  <2>3. act'.pc = "stage" /\ Undisturbed' => ~act'.backUp
    BY <1>14, <2>2
  <2> QED
    BY <1>1, <1>9, <1>14, <2>1, <2>3 DEF CleanOK, OneNameIn
<1> QED
  BY <1>16, <1>17, <1>18, <1>19, <1>20, <1>21, <1>22, <1>23, <1>24

LEMMA StageStep == ASSUME FileIInv, Stage PROVE FileIInv'
<1> USE DEF FileIInv
<1>1. act.pc = "stage" /\ UNCHANGED <<env, names, survives, release, gen, seen>>
  BY DEF Stage
<1>2. CASE Works /\ act' = [act EXCEPT !.pc = IF act.backUp THEN "link" ELSE "publish", !.file.bytes = "whole"]
  <2> DEFINE pc == IF act.backUp THEN "link" ELSE "publish"
             file == [act.file EXCEPT !.bytes = "whole"]
             once == [act EXCEPT !.pc = pc]
  <2>1. pc \in {"link", "publish"} /\ (pc = "publish" => ~act.backUp) /\ (pc = "link" => act.backUp)
    OBVIOUS
  <2>2. act.file \in Files /\ act.file.id # 0
    BY <1>1 DEF ActType, FreshOK
  <2>3. file \in Files /\ file.id = act.file.id /\ file.version = act.file.version /\ file.bytes = "whole"
    BY <2>2 DEF Files, NoFile
  <2>4. act' = [once EXCEPT !.file = file]
    BY <1>2, Zenon DEF ActType
  <2> HIDE DEF file, pc
  <2>5. once \in [thread : Threads \cup {"none"}, pc : Calls \cup {"free"}, loaded : Reads \cup {"none"},
                  file : Files, backUp : BOOLEAN, backup : Names]
    BY <2>1 DEF ActType, Calls
  <2>6. once.pc = pc /\ once.loaded = act.loaded /\ once.backup = act.backup
    BY DEF ActType
  <2>7. once.backUp = act.backUp
    BY Zenon DEF ActType
  <2> HIDE DEF once
  <2>8. act' \in [thread : Threads \cup {"none"}, pc : Calls \cup {"free"}, loaded : Reads \cup {"none"},
                  file : Files, backUp : BOOLEAN, backup : Names]
    BY <2>3, <2>4, <2>5
  <2>9. act'.pc = pc /\ act'.loaded = act.loaded /\ act'.backup = act.backup /\ act'.file = file
    BY <2>4, <2>5, <2>6
  <2>10. count' = count /\ release # 0
    BY <1>1, <1>2 DEF Works, ActType
  <2>11. DirType' /\ ProcType'
    BY <1>1, <2>10 DEF DirType, ProcType
  <2>12. ActType'
    BY <1>1, <2>1, <2>8, <2>9, <2>10 DEF ActType
  <2>13. ActOK'
    BY <1>1, <2>1, <2>9 DEF ActOK, MayReplace, Role
  <2>14. SeenOK'
    BY <1>1, <2>1, <2>9, <2>10 DEF SeenOK
  <2>15. FreshOK'
    BY <1>1, <2>3, <2>9 DEF FreshOK
  <2>16. NameOK'
    BY <1>1, <2>10 DEF NameOK
  <2>17. WholeOK'
    BY <1>1, <2>3, <2>9, <2>10 DEF WholeOK
  <2>18. CleanOK'
    BY <1>1, <2>1, <2>9, <2>10 DEF CleanOK, Undisturbed, OneNameIn
  <2> QED
    BY <2>11, <2>12, <2>13, <2>14, <2>15, <2>16, <2>17, <2>18
<1>3. CASE Fails /\ Return
  BY <1>1, <1>3, FailEnds
<1> QED
  BY <1>2, <1>3 DEF Stage

LEMMA LinkStep == ASSUME FileIInv, LinkToFreeBackup PROVE FileIInv'
<1> USE DEF FileIInv
<1>1. act.pc = "link" /\ UNCHANGED <<env, release, gen, seen>>
  BY DEF LinkToFreeBackup
<1>2. CASE /\ Works /\ FreeBackups # {}
           /\ act' = [act EXCEPT !.pc = "publish", !.backup = IF names[Main] = NoFile THEN Main ELSE FreeBackup]
           /\ Becomes([names EXCEPT ![FreeBackup] = names[Main]])
  <2> DEFINE dir == [names EXCEPT ![FreeBackup] = names[Main]]
             backup == IF names[Main] = NoFile THEN Main ELSE FreeBackup
             once == [act EXCEPT !.pc = "publish"]
  <2>0. FreeBackup \in Names /\ FreeBackup # Main /\ names[FreeBackup] = NoFile
    BY <1>2, FreeName
  <2>1. dir \in [Names -> Files] /\ dir[Main] = names[Main] /\ dir[FreeBackup] = names[Main]
        /\ \A n \in Names : n # FreeBackup => dir[n] = names[n]
    BY <2>0, NamesFacts DEF DirType
  <2>2. DirType' /\ names' = dir /\ survives' = survives \cup {dir}
    BY Zenon, <1>1, <1>2, <2>1, DirBecomes
  <2>3. backup \in Names /\ (backup = Main => names[Main] = NoFile) /\ dir[backup] = dir[Main]
        /\ (names[Main] # NoFile => backup = FreeBackup)
    BY <2>0, <2>1, NamesFacts
  <2>4. act' = [once EXCEPT !.backup = backup]
    BY <1>2, Zenon
  <2> HIDE DEF dir, backup
  <2>5. /\ once \in [thread : Threads \cup {"none"}, pc : Calls \cup {"free"}, loaded : Reads \cup {"none"},
                      file : Files, backUp : BOOLEAN, backup : Names]
        /\ once.pc = "publish" /\ once.loaded = act.loaded /\ once.file = act.file
    BY DEF ActType, Calls
  <2> HIDE DEF once
  <2>6. /\ act' \in [thread : Threads \cup {"none"}, pc : Calls \cup {"free"}, loaded : Reads \cup {"none"},
                      file : Files, backUp : BOOLEAN, backup : Names]
        /\ act'.pc = "publish" /\ act'.loaded = act.loaded /\ act'.file = act.file /\ act'.backup = backup
    BY <2>3, <2>4, <2>5
  <2>7. count' = count /\ release # 0
    BY <1>1, <1>2 DEF Works, ActType
  <2>8. ProcType'
    BY <1>1, <2>7 DEF ProcType
  <2>9. ActType'
    BY <1>1, <2>6, <2>7 DEF ActType
  <2>10. ActOK'
    BY <1>1, <2>1, <2>2, <2>3, <2>6 DEF ActOK
  <2>11. SeenOK'
    BY <1>1, <2>6, <2>7 DEF SeenOK, ProcType
  <2>12. \A n \in Names : dir[n] = names[n] \/ dir[n] = names[Main]
    BY <2>1
  <2>13. FreshOK'
    BY <1>1, <2>2, <2>6, <2>12, NamesFacts DEF FreshOK, DirType
  <2>14. NameOK'
    BY <1>1, <2>1, <2>2, <2>3, <2>6, <2>7 DEF NameOK
  <2>15. WholeOK'
    BY <1>1, <2>2, <2>6, <2>7, <2>12, NamesFacts DEF WholeOK, DirType
  <2>16. CleanOK'
    BY <1>1, <2>7 DEF CleanOK, Undisturbed
  <2> QED
    BY <2>2, <2>8, <2>9, <2>10, <2>11, <2>13, <2>14, <2>15, <2>16
<1>3. CASE Fails /\ Return /\ UNCHANGED <<names, survives>>
  BY <1>1, <1>3, FailEnds
<1> QED
  BY <1>2, <1>3 DEF LinkToFreeBackup

LEMMA GoesTo ==
  ASSUME ActType, NEW pc \in Calls, Goes(pc), act.pc # "free", UNCHANGED release
  PROVE  ActType' /\ act'.pc = pc /\ act'.backup = act.backup /\ act'.loaded = act.loaded /\ act'.file = act.file
<1>1. /\ act' \in [thread : Threads \cup {"none"}, pc : Calls \cup {"free"}, loaded : Reads \cup {"none"},
                    file : Files, backUp : BOOLEAN, backup : Names]
      /\ act'.pc = pc /\ act'.backup = act.backup /\ act'.loaded = act.loaded /\ act'.file = act.file
  BY DEF ActType, Goes
<1> QED
  BY <1>1 DEF ActType, Calls

LEMMA PublishStep == ASSUME FileIInv, Publish PROVE FileIInv'
<1> USE DEF FileIInv
<1>1. act.pc = "publish" /\ release # 0 /\ UNCHANGED <<env, release, gen, seen>>
  BY DEF Publish, ActType
<1>2. CASE Works /\ Becomes([names EXCEPT ![Main] = act.file]) /\ Goes("finalize")
  <2> DEFINE dir == [names EXCEPT ![Main] = act.file]
  <2>1. dir \in [Names -> Files] /\ dir[Main] = act.file /\ \A n \in Names : n # Main => dir[n] = names[n]
    BY NamesFacts DEF DirType, ActType
  <2>2. DirType' /\ names' = dir /\ survives' = survives \cup {dir}
    BY Zenon, <1>1, <1>2, <2>1, DirBecomes
  <2> HIDE DEF dir
  <2>3. ActType' /\ act'.pc = "finalize"
    BY <1>1, <1>2, GoesTo DEF Calls
  <2>4. count' = count
    BY <1>2 DEF Works
  <2>5. ProcType'
    BY <1>1, <2>4 DEF ProcType
  <2>6. ActOK' /\ FreshOK'
    BY <2>3 DEF ActOK, FreshOK
  <2>7. SeenOK'
    BY <1>1, <2>3 DEF SeenOK, ProcType
  <2>8. \A n \in Names : n # Main => dir[n] # dir[Main]
    BY <1>1, <2>1 DEF FreshOK, DirType
  <2>9. NameOK'
    BY <2>2, <2>8 DEF NameOK
  <2>10. WholeOK'
    BY <1>1, <2>1, <2>2, <2>3, <2>4 DEF WholeOK, DirType
  <2>11. CleanOK'
    <3>1. OneNameIn(names) => OneNameIn(dir)
      BY <2>1, <2>8 DEF OneNameIn
    <3> QED
      BY <1>1, <2>2, <2>3, <2>4, <3>1 DEF CleanOK, Undisturbed, DirType
  <2> QED
    BY <2>2, <2>3, <2>5, <2>6, <2>7, <2>9, <2>10, <2>11
<1>3. CASE Fails /\ UNCHANGED <<names, survives>> /\ act.backup = Main /\ Return
  BY <1>1, <1>3, FailEnds
<1>4. CASE Fails /\ UNCHANGED <<names, survives>> /\ act.backup # Main /\ Goes("takeBack")
  <2>1. ActType' /\ act'.pc = "takeBack" /\ act'.backup = act.backup
    BY <1>1, <1>4, GoesTo DEF Calls
  <2>2. CountOK
    BY <1>4, CountGrows DEF Fails
  <2>3. count'.faults # 0 /\ count'.killed = count.killed /\ count'.stuck = count.stuck
        /\ count'.damages = count.damages
    BY <1>4 DEF Fails, ProcType
  <2>4. DirType' /\ ProcType'
    BY <1>1, <1>4, <2>2 DEF DirType, ProcType, CountOK
  <2>5. ActOK' /\ FreshOK'
    BY <1>1, <1>4, <2>1 DEF ActOK, FreshOK
  <2>6. SeenOK'
    BY <1>1, <2>1 DEF SeenOK, ProcType
  <2>7. NameOK'
    BY <1>1, <1>4, <2>1, <2>3 DEF NameOK
  <2>8. WholeOK' /\ CleanOK'
    BY <1>1, <1>4, <2>1, <2>3 DEF WholeOK, CleanOK, Undisturbed
  <2> QED
    BY <2>1, <2>4, <2>5, <2>6, <2>7, <2>8
<1> QED
  BY <1>2, <1>3, <1>4 DEF Publish

\* The process that kept the file is gone.
LEMMA NoProcessKeeps ==
  ASSUME FileIInv, NoProcess, CountOK, DirType', DirsOK(survives'), UNCHANGED env,
         count'.killed = 0 => count.killed = 0 /\ act = Free /\ UNCHANGED names
  PROVE  FileIInv'
<1> USE DEF FileIInv
<1>1. /\ act' = Free /\ act'.pc = "free" /\ release' = 0 /\ gen' = 0
      /\ seen' = [t \in Threads |-> NoSight]
  BY DEF NoProcess, Free
<1>2. ProcType'
  BY <1>1, NoFileIn DEF ProcType, CountOK, NoSight
<1>3. ActType'
  BY SMTT(40), <1>1, NoFileIn, NamesFacts DEF ActType, Free
<1>4. ActOK' /\ FreshOK'
  BY <1>1 DEF ActOK, FreshOK
<1>5. SeenOK'
  BY <1>1 DEF SeenOK, NoSight
<1>6. NameOK'
  BY <1>1 DEF NameOK, Free, CountOK, ProcType
<1>7. WholeOK' /\ CleanOK'
  BY <1>1 DEF WholeOK, CleanOK, DirsOK
<1> QED
  BY <1>2, <1>3, <1>4, <1>5, <1>6, <1>7

LEMMA ExitStep == ASSUME FileIInv, Exit PROVE FileIInv'
<1> USE DEF FileIInv
<1>1. /\ NoProcess /\ UNCHANGED <<env, names, survives>>
      /\ count' = [count EXCEPT !.exits = @ + 1, !.killed = IF act = Free THEN @ ELSE @ + 1]
  BY DEF Exit
<1>2. CountOK /\ (count'.killed = 0 => count.killed = 0 /\ act = Free)
  <2> DEFINE once == [count EXCEPT !.exits = @ + 1]
  <2>1. /\ once \in [faults : Nat, updates : Nat, reads : Nat, exits : Nat, losses : Nat,
                       damages : Nat, killed : Nat, stuck : Nat]
        /\ once.killed = count.killed /\ once.stuck = count.stuck
        /\ once.damages = count.damages /\ once.faults = count.faults
    BY DEF ProcType
  <2>2. count' = [once EXCEPT !.killed = IF act = Free THEN @ ELSE @ + 1]
    BY <1>1
  <2> HIDE DEF once
  <2>3. /\ count' \in [faults : Nat, updates : Nat, reads : Nat, exits : Nat, losses : Nat,
                        damages : Nat, killed : Nat, stuck : Nat]
        /\ count'.killed = IF act = Free THEN count.killed ELSE count.killed + 1
        /\ count'.stuck = count.stuck /\ count'.damages = count.damages /\ count'.faults = count.faults
    BY <2>1, <2>2
  <2>4. count.faults \in Nat /\ count.stuck \in Nat /\ count.killed \in Nat /\ count.damages \in Nat
    BY DEF ProcType
  <2> QED
    BY <2>3, <2>4 DEF CountOK
<1>3. DirType'
  BY <1>1 DEF DirType
<1>4. DirsOK(survives')
  BY <1>1, <1>2, DirsKept
<1> QED
  BY <1>1, <1>2, <1>3, <1>4, NoProcessKeeps

LEMMA PowerLossStep == ASSUME FileIInv, PowerLoss PROVE FileIInv'
<1> USE DEF FileIInv
<1>1. /\ NoProcess /\ UNCHANGED env /\ survives' = {names'}
      /\ count' = [count EXCEPT !.losses = @ + 1, !.killed = @ + 1]
  BY DEF PowerLoss
<1>2. PICK dir \in survives :
        names' = [n \in Names |-> IF dir[n].bytes = "cached" THEN [dir[n] EXCEPT !.bytes = "torn"] ELSE dir[n]]
  BY Zenon DEF PowerLoss
<1>3. CountOK /\ count'.killed # 0
  <2> DEFINE once == [count EXCEPT !.losses = @ + 1]
  <2>1. /\ once \in [faults : Nat, updates : Nat, reads : Nat, exits : Nat, losses : Nat,
                       damages : Nat, killed : Nat, stuck : Nat]
        /\ once.killed = count.killed /\ once.stuck = count.stuck
        /\ once.damages = count.damages /\ once.faults = count.faults
    BY DEF ProcType
  <2>2. count' = [once EXCEPT !.killed = @ + 1]
    BY <1>1
  <2> HIDE DEF once
  <2>3. /\ count' \in [faults : Nat, updates : Nat, reads : Nat, exits : Nat, losses : Nat,
                        damages : Nat, killed : Nat, stuck : Nat]
        /\ count'.killed = count.killed + 1
        /\ count'.stuck = count.stuck /\ count'.damages = count.damages /\ count'.faults = count.faults
    BY <2>1, <2>2
  <2>4. count.faults \in Nat /\ count.stuck \in Nat /\ count.killed \in Nat /\ count.damages \in Nat
    BY DEF ProcType
  <2> QED
    BY <2>3, <2>4 DEF CountOK
<1>4. dir \in [Names -> Files]
  BY DEF DirType
<1>5. \A n \in Names : names'[n] \in Files
  <2> SUFFICES ASSUME NEW n \in Names PROVE names'[n] \in Files
    OBVIOUS
  <2>1. CASE dir[n].bytes = "cached"
    BY <1>2, <1>4, <2>1 DEF Files, NoFile
  <2>2. CASE dir[n].bytes # "cached"
    BY <1>2, <1>4, <2>2
  <2> QED
    BY <2>1, <2>2
<1>6. DirType'
  <2>1. names' \in [Names -> Files]
    BY SMTT(40), <1>2, <1>5
  <2> QED
    BY <1>1, <2>1 DEF DirType
<1>7. DirsOK(survives')
  <2>1. DirsOK(survives)
    BY <1>1, <1>3, DirsKept
  <2>2. count'.damages = 0 => \A n \in Names : names'[n] = dir[n]
    BY <1>2, <2>1 DEF DirsOK, NoFile
  <2>3. Undisturbed' => OneNameIn(names')
    <3>1. Undisturbed' => count'.damages = 0 /\ OneNameIn(dir)
      BY <2>1 DEF DirsOK, Undisturbed
    <3> QED
      BY <2>2, <3>1 DEF OneNameIn
  <2>4. count'.damages = 0 => \A n \in Names :
          names'[n] = NoFile \/ (names'[n].version \in env.releases /\ names'[n].bytes = "whole")
    BY <2>1, <2>2 DEF DirsOK
  <2> QED
    BY <1>1, <2>3, <2>4 DEF DirsOK
<1> QED
  BY <1>1, <1>3, <1>6, <1>7, NoProcessKeeps

LEMMA StartStep == ASSUME FileIInv, NEW r \in env.releases, Start(r) PROVE FileIInv'
<1> USE DEF FileIInv
<1>1. release = 0 /\ release' = r /\ UNCHANGED <<env, names, survives, gen, act, seen, count>> /\ r # 0
  BY ReleaseFacts DEF Start
<1>2. act.pc = "free" /\ act = Free /\ \A t \in Threads : seen[t].links = 0
  BY <1>1 DEF ActType, SeenOK
<1>3. DirType' /\ ProcType' /\ ActType' /\ ActOK'
  BY <1>1, <1>2 DEF DirType, ProcType, ActType, ActOK
<1>4. SeenOK'
  BY <1>1, <1>2 DEF SeenOK
<1>5. FreshOK' /\ NameOK' /\ WholeOK' /\ CleanOK'
  BY <1>1, <1>2 DEF FreshOK, NameOK, WholeOK, CleanOK, Undisturbed, OneNameIn
<1> QED
  BY <1>3, <1>4, <1>5

LEMMA DamageStep ==
  ASSUME FileIInv, NEW version \in 0 .. 3, NEW v \in Values, NEW bytes \in {"whole", "torn"},
         Damage(version, v, bytes)
  PROVE  FileIInv'
<1> USE DEF FileIInv
<1> DEFINE file == [id |-> FreshId, version |-> version, value |-> v, bytes |-> bytes]
           dir == [names EXCEPT ![Main] = file]
<1>1. /\ release = 0 /\ FreshIds # {} /\ names' = dir /\ survives' = {dir}
      /\ count' = [count EXCEPT !.damages = @ + 1] /\ UNCHANGED <<env, release, gen, act, seen>>
  BY DEF Damage
<1>2. file \in Files /\ file.id = FreshId /\ \A n \in Names : names[n].id # FreshId
  BY <1>1, FreshName DEF Files
<1> HIDE DEF file
<1>3. dir \in [Names -> Files] /\ dir[Main] = file /\ \A n \in Names : n # Main => dir[n] = names[n]
  BY <1>2, NamesFacts DEF DirType
<1> HIDE DEF dir
<1>4. act.pc = "free" /\ act = Free /\ \A t \in Threads : seen[t].links = 0
  BY <1>1 DEF ActType, SeenOK
<1>5. /\ count' \in [faults : Nat, updates : Nat, reads : Nat, exits : Nat, losses : Nat,
                      damages : Nat, killed : Nat, stuck : Nat]
      /\ count'.damages # 0
  BY <1>1 DEF ProcType
<1>6. DirType' /\ ProcType'
  BY <1>1, <1>3, <1>5 DEF DirType, ProcType
<1>7. ActType' /\ ActOK' /\ FreshOK'
  BY <1>1, <1>4 DEF ActType, ActOK, FreshOK
<1>8. SeenOK'
  BY <1>1, <1>4 DEF SeenOK
<1>9. NameOK'
  BY SMTT(40), <1>1, <1>2, <1>3 DEF NameOK
<1>10. WholeOK' /\ CleanOK'
  BY <1>5 DEF WholeOK, CleanOK, Undisturbed
<1> QED
  BY <1>6, <1>7, <1>8, <1>9, <1>10

LEMMA FileStutter == FileIInv /\ UNCHANGED vars => FileIInv'
<1> SUFFICES ASSUME FileIInv, UNCHANGED vars PROVE FileIInv'
  OBVIOUS
<1> USE DEF FileIInv, vars
<1>1. DirType' /\ ProcType' /\ ActType'
  BY DEF DirType, ProcType, ActType
<1>2. ActOK' /\ FreshOK'
  BY DEF ActOK, FreshOK, MayReplace, Role
<1>3. SeenOK'
  BY DEF SeenOK, Links
<1>4. NameOK' /\ WholeOK' /\ CleanOK'
  BY DEF NameOK, WholeOK, CleanOK, Undisturbed, OneNameIn
<1> QED
  BY <1>1, <1>2, <1>3, <1>4

LEMMA FileStep == FileIInv /\ [Next]_vars => FileIInv'
<1> SUFFICES ASSUME FileIInv, [Next]_vars PROVE FileIInv'
  OBVIOUS
<1> QED
  BY ObserveStep, UpdateStep, StageStep, LinkStep, PublishStep, TakeBackStep, FinalizeStep,
     DeleteStep, AsideStep, ExitStep, PowerLossStep, StartStep, DamageStep, FileStutter DEF Next, Call, Rest

LEMMA FileSeen == FileIInv => FileAsSeen
<1> SUFFICES ASSUME FileIInv PROVE FileAsSeen
  OBVIOUS
<1> USE DEF FileIInv
<1>1. SameGenerationSameFile
  BY DEF SameGenerationSameFile, SeenOK
<1>2. ASSUME act = Free, count.killed = 0, count.stuck = 0, names[Main] # NoFile
      PROVE  Links(names, names[Main]) = 1
  <2>1. \A n \in Names : names[n] = names[Main] => n = Main
    BY <1>2 DEF NameOK, Free
  <2> QED
    BY <2>1, OneLink
<1>3. ASSUME act = Free, count.damages = 0, Cardinality(env.releases) = 1,
             count.faults = 0 \/ count.killed + count.stuck = 0, NEW r \in env.releases
      PROVE  FromRead(names, r, FALSE) \in {"absent", "current"}
  <2>1. CASE count.faults = 0
    BY Zenon, <1>3, <2>1, UndisturbedReads DEF Undisturbed
  <2>2. CASE count.killed + count.stuck = 0
    <3>1. count.killed = 0 /\ count.stuck = 0
      BY <2>2 DEF ProcType
    <3>2. names[Main] = NoFile \/ Links(names, names[Main]) = 1
      BY <1>2, <1>3, <3>1
    <3>3. env.releases = {r}
      BY <1>3, OneRelease
    <3>4. names[Main] = NoFile \/ (names[Main].version = r /\ names[Main].bytes = "whole")
      BY <1>3, <3>3, NamesFacts DEF WholeOK, DirType
    <3> QED
      BY Zenon, <3>2, <3>4, ReadsCurrent
  <2> QED
    BY Zenon, <1>3, <2>1, <2>2
<1> QED
  BY Zenon, <1>1, <1>2, <1>3 DEF FileAsSeen, OneNameAtRest, ReadsBack

\* Whatever fails, and wherever a process is killed or the power lost, the file
\* is what its users take it for: unchanged at an equal generation, singly named
\* at rest, readable by the release that wrote it (VersionedFile::observe,
\* update, generation).
THEOREM FileAlwaysAsSeen == Spec => []FileAsSeen
<1>1. Spec => []FileIInv
  BY FileInit, FileStep, PTL DEF Spec
<1> QED
  BY <1>1, FileSeen, PTL

\* What a step of a process may take the last name of.
Destroys ==
  \/ act.loaded \in {"current", "obsolete"}
  \/ Role = "claim" /\ act.pc = "delete"
  \/ Role = "config" /\ act.loaded = "corrupt"

LEMMA LosesOne ==
  ASSUME DirType, NEW m \in Names, \A n \in Names : n # m => names'[n] = names[n] \/ names[n] = NoFile,
         HeldIn(names) \ HeldIn(names') # {}
  PROVE  names[m] # NoFile /\ \A n \in Names : names'[n] # names[m]
<1>1. PICK n \in Names : names[n] # NoFile /\ names[n] \notin HeldIn(names')
  BY DEF HeldIn
<1>2. \A k \in Names : names'[k] # names[n]
  BY <1>1 DEF HeldIn
<1> QED
  BY <1>1, <1>2

LEMMA DestroysStep ==
  ASSUME FileIInv, [Next]_vars, release # 0, release' # 0, HeldIn(names) \ HeldIn(names') # {}
  PROVE  Destroys
<1> USE DEF FileIInv
<1>0. ~UNCHANGED names
  BY DEF HeldIn
<1>1. CASE LinkToFreeBackup
  <2>1. FreeBackups # {} /\ Becomes([names EXCEPT ![FreeBackup] = names[Main]])
    BY <1>0, <1>1 DEF LinkToFreeBackup
  <2>2. FreeBackup \in Names /\ names[FreeBackup] = NoFile
    BY <2>1, FreeName
  <2> QED
    BY Zenon, <2>1, <2>2, LosesOne DEF Becomes, DirType
<1>2. CASE Publish
  <2>1. act.pc = "publish" /\ Becomes([names EXCEPT ![Main] = act.file])
    BY <1>0, <1>2 DEF Publish
  <2>2. names[Main] # NoFile /\ \A n \in Names : names'[n] # names[Main]
    BY Zenon, <2>1, NamesFacts, LosesOne DEF Becomes, DirType
  <2>3. act.backup # Main => act.backup \in Names /\ names'[act.backup] = names[Main]
    BY <2>1 DEF Becomes, DirType, ActType, ActOK
  <2> QED
    BY <2>1, <2>2, <2>3 DEF ActOK, MayReplace, Destroys
<1>3. CASE TakeBackBackup
  <2>1. act.pc = "takeBack" /\ Becomes([names EXCEPT ![act.backup] = NoFile])
    BY <1>0, <1>3 DEF TakeBackBackup
  <2>2. act.backup \in Names /\ act.backup # Main /\ names[act.backup] = names[Main]
    BY <2>1 DEF ActType, ActOK
  <2>3. names'[Main] = names[Main]
    BY <2>1, <2>2, NamesFacts DEF Becomes, DirType
  <2> QED
    BY Zenon, <2>1, <2>2, <2>3, NamesFacts, LosesOne DEF Becomes, DirType
<1>4. CASE Delete
  <2>1. act.pc = "delete" /\ Becomes([names EXCEPT ![Main] = NoFile])
    BY <1>0, <1>4 DEF Delete
  <2>2. names[Main] # NoFile
    BY Zenon, <2>1, NamesFacts, LosesOne DEF Becomes, DirType
  <2> QED
    BY <2>1, <2>2 DEF ActOK, Destroys
<1>5. CASE MoveAsideIn
  <2>1. FreeBackups # {} /\ Becomes([names EXCEPT ![FreeBackup] = names[Main], ![Main] = NoFile])
    BY <1>0, <1>5 DEF MoveAsideIn
  <2>2. FreeBackup \in Names /\ FreeBackup # Main /\ names[FreeBackup] = NoFile
    BY <2>1, FreeName
  <2>3. names'[FreeBackup] = names[Main] /\ \A n \in Names : n # Main => names'[n] = names[n] \/ names[n] = NoFile
    BY <2>1, <2>2, NamesFacts DEF Becomes, DirType
  <2> QED
    BY <2>2, <2>3, NamesFacts, LosesOne
<1> QED
  BY Zenon, <1>0, <1>1, <1>2, <1>3, <1>4, <1>5
  DEF Next, Call, Observe, Update, Stage, Finalize, Exit, PowerLoss, NoProcess, Start, Rest, Damage, vars

\* No step of a process takes a file's last name unless its update had read and
\* understood the file, but for the two cells of the role table that say so
\* (VersionedFile::update, store, remove, move_aside).
THEOREM NeverDestroysUnread == Spec => NeverDestroyedUnread
<1>1. Spec => []FileIInv
  BY FileInit, FileStep, PTL DEF Spec
<1>2. FileIInv /\ [Next]_vars =>
        [ release' # 0 /\ release # 0 /\ HeldIn(names) \ HeldIn(names') # {} =>
            \/ act.loaded \in {"current", "obsolete"}
            \/ Role = "claim" /\ act.pc = "delete"
            \/ Role = "config" /\ act.loaded = "corrupt" ]_vars
  BY DestroysStep DEF Destroys
<1> QED
  BY <1>1, <1>2, PTL DEF Spec, NeverDestroyedUnread

=============================================================================
