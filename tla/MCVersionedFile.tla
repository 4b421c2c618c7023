--------------------------- MODULE MCVersionedFile ---------------------------
(***************************************************************************)
(* Small instances of VersionedFile: every role, a file of the system's    *)
(* and one of the user's, one release and two, with and without a floor    *)
(* and a default version.                                                  *)
(***************************************************************************)
EXTENDS VersionedFile

\* An update to release 2 and a rollback to release 1, with files of release 3
\* and damaged ones appearing in between; of kind of file, floor and default
\* version, every two in every combination.
Rollback == {e \in [role : Roles, system : BOOLEAN, floor : {0, 1}, unversioned : {0, 1},
                    releases : {{1, 2}}, updates : {2}, reads : {0}, faults : {1}, exits : {1},
                    losses : {0}, damages : {1}] : e.system = (e.floor = e.unversioned)}

\* One release, with power losses.
Outages == [role : Roles, system : {TRUE}, floor : {0}, unversioned : {0},
            releases : {{2}}, updates : {3}, reads : {0}, faults : {2}, exits : {1},
            losses : {1}, damages : {0}]

\* Threads that compare generations.
Readers == [role : Roles, system : {TRUE}, floor : {0}, unversioned : {0},
            releases : {{2}}, updates : {2}, reads : {2}, faults : {2}, exits : {1},
            losses : {0}, damages : {0}]

MCEnvironments == Rollback \cup Outages \cup Readers
=============================================================================
