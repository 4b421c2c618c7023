----------------------------- MODULE MCRouting -----------------------------
(***************************************************************************)
(* Small instances of Routing: two split routes, one of them IPv6.  The    *)
(* first process finds nothing, or the record of two sessions to one       *)
(* server over two TUNs, whose deletes have the same argvs.                *)
(***************************************************************************)
EXTENDS Routing

MCSplits == <<"SplitV4Low", "SplitV6Low">>
MCV6Splits == {"SplitV6Low"}
MCTrue == {TRUE}

\* The records of two sessions to a server, each as far as its first split
\* and its bypass.
TwoSessions(server) ==
  LET ids == {"SplitV4Low", Bypass}
      to == {g \in Identities : g.server = server}
  IN {[id |-> g, installed |-> ids, stale |-> [NoStale EXCEPT ![h] = ids]] : g \in to, h \in to}

\* One of them will do: the TUN names are interchangeable.
MCLeftovers ==
  {CHOOSE rec \in UNION {TwoSessions(s) : s \in Servers \ Loopbacks} : rec.stale[rec.id] = {}}

-----------------------------------------------------------------------------
(* Two histories of the host table, for ForeignOnlyUnderDebt.              *)

VARIABLES
  gone,   \* prefixes on record whose route went by itself, or may never
          \* have come: its TUN closed, or the process died in the command
  freed   \* prefixes the pass in progress took Hole's route out of

MCInit ==
  /\ Init
  /\ gone = {Slot(r) : r \in Named(disk)} \ {Slot(r) : r \in ours}
  /\ freed = {}

History ==
  LET taken == {Slot(r) : r \in ours \ ours'}
      present == {Slot(r) : r \in ours'}
      byItself == UNCHANGED <<pc, locals>>
      inFlight == IF pc = "cmd" /\ pc' = "down"
                  THEN {Slot(RouteOf(sess, Head(todo)))} ELSE {}
  IN /\ gone' = (gone \cup inFlight \cup IF byItself THEN taken ELSE {}) \ present
     /\ freed' = IF pc' # pc THEN {}
                 ELSE (freed \cup IF byItself THEN {} ELSE taken) \ present

mcVars == <<vars, gone, freed>>

MCSpec == MCInit /\ [][Next /\ History]_mcVars /\ WF_vars(Progress)

=============================================================================
