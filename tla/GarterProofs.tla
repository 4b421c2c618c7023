---------------------------- MODULE GarterProofs ----------------------------
(***************************************************************************)
(* What a plugin chain tells its caller, for any number of hops, any of    *)
(* them tapped, any readiness modes and any number of restarts: it reports *)
(* the failures its plugins report, forwards each hop to where its         *)
(* neighbour listens, and implements ChainPromise, the invariant mapping   *)
(* every step to one of the promise or to none.                            *)
(***************************************************************************)
EXTENDS Garter, TLAPS

-----------------------------------------------------------------------------
(* The inductive invariant.                                                *)

\* What a hop can have said, and the values of the chain.
Outs == {"open"} \cup Sent
Chains == [pc : {"loop", "drain", "done", "dropped"}, pending : Hops \cup {0}, unread : Hops \cup {0},
           failure : {"none"} \cup Failures, verdict : {"none", "ready", "closed"} \cup Failures,
           joined : SUBSET Hops]
HopRecords == [pc : {"idle", "pick", "run", "pause", "over"}, tries : Nat, fwd : Nat, settled : BOOLEAN,
               restart : BOOLEAN, stop : BOOLEAN, aborted : BOOLEAN, decision : Outs]
Bins == [pc : {"idle", "watch", "grace", "kill", "drain", "over"}, child : {"none", "alive", "gone"},
         reading : BOOLEAN, hello : BOOLEAN, probe : BOOLEAN, owns : BOOLEAN, sender : BOOLEAN,
         held : {"none"} \cup Failures, down : BOOLEAN, out : Outs, refused : BOOLEAN, orphan : BOOLEAN]
Taps == [pc : {"idle", "wait", "bind", "lost", "leave", "close", "serve", "stop", "over"}, out : Outs,
         owed : {"none", "late"} \cup Failures, stop : BOOLEAN]

\* A run of a plugin: its child lives while it is supervised, or the kill was
\* refused; whoever may still speak has the sender; a failure that is held is
\* said as the run ends, and what was said stands.
BinOK(b) ==
  /\ b \in Bins
  /\ b.child = "alive" /\ ~b.refused => b.pc \in {"watch", "grace", "kill"}
  /\ b.reading \/ b.probe => b.sender /\ b.out = "open" /\ b.held = "none" /\ b.pc \notin {"idle", "over"}
  /\ b.sender => b.out = "open" /\ b.held = "none"
  /\ b.held # "none" => b.out = IF b.pc = "over" THEN b.held ELSE "open"
  /\ b.out \in Failures => b.held = b.out
  /\ b.pc = "over" => b.out # "open"
  /\ b.pc = "idle" => b.held = "none"
  /\ b.orphan => b.pc \notin {"idle", "over"}

\* A tap that has bound, or closes, heard its inner plugin; one that stops it
\* knows what it owes, or will ask; one that is over says what the inner said.
TapOK(t, b, x) ==
  /\ t \in Taps
  /\ t.pc = "idle" => t.out = "open"
  /\ t.pc \in {"bind", "serve"} => b.out = "ok"
  /\ t.pc = "lost" => b.out = "dropped"
  /\ t.pc = "close" => b.out \in {"ok", "dropped"}
  /\ t.pc = "stop" /\ t.owed # "late" => b.out # "open" /\ (b.out \in Failures => t.owed = b.out)
  /\ t.out # "open" /\ t.pc # "over" => t.out = "ok" /\ b.out = "ok"
  /\ t.pc = "over" => t.out # "open" /\ (b.pc \in {"idle", "over"} \/ b.orphan)
  /\ t.pc = "over" /\ b.held # "none" /\ ~x.aborted => t.out = b.held

\* A hop decides once, by what its plugin said, unless that is a port conflict
\* the chain may restart on; between runs nothing of the plugin is left.
HopOK(h, x, b, t) ==
  LET said == IF h \in Tapped THEN t.out ELSE b.out
  IN /\ x \in HopRecords
     /\ x.pc \in {"idle", "pick", "pause"} =>
          /\ x.decision = "open" /\ ~x.restart /\ b.pc \in {"idle", "over"}
          /\ b.held # "none" => b.held = "conflict" /\ Intermediate(h)
     /\ x.pc = "run" /\ ~x.settled => x.decision = "open" /\ ~x.restart
     /\ x.pc = "run" /\ x.settled =>
          /\ said # "open"
          /\ IF x.restart THEN x.decision = "open" /\ said = "conflict" /\ Intermediate(h)
                          ELSE x.decision = said
     /\ x.pc = "over" =>
          /\ x.decision # "open" /\ (b.pc \in {"idle", "over"} \/ b.orphan)
          /\ b.held # "none" /\ ~(h \in Tapped /\ x.aborted) =>
               x.decision = b.held \/ (b.held = "conflict" /\ Intermediate(h))
     /\ b.orphan => x.pc = "over" /\ x.aborted /\ h \in Tapped
     /\ h \notin Tapped => t.pc = "idle"
     /\ x.aborted => x.pc # "idle"

LocalOK(h, x, b, t) == BinOK(b) /\ TapOK(t, b, x) /\ HopOK(h, x, b, t)

\* What the runner knows of hop k, the last one it launched, which decided d.
Told(k, d) ==
  /\ chain.pending \in {0, k} /\ chain.unread \in {0, k}
  /\ chain.pc \in {"drain", "done"} => chain.pending = 0
  /\ chain.pc # "loop" => cancelled
  /\ chain.pc = "loop" => chain.unread = 0
  /\ chain.pending = k => chain.unread = 0 /\ chain.failure = "none" /\ chain.verdict = "none"
  /\ chain.unread = k => chain.failure = "none" /\ chain.verdict = "none"
  /\ chain.verdict = "ready" => k = N /\ d = "ok"
  /\ chain.pc # "done" => chain.verdict \in {"none", "ready"}
  /\ chain.pc = "done" => chain.verdict # "none"
  /\ chain.pc \in {"loop", "drain"} =>
       chain.pending = k \/ chain.unread = k \/ d # "open"
  /\ chain.pc \in {"loop", "drain"} /\ chain.pending = 0 /\ chain.unread = 0 /\ d \in Failures
       => chain.failure = d
  /\ chain.pc = "done" /\ d \in Failures => chain.verdict = d

\* Hops 1 .. k are launched, each after its neighbour was ready; the runner
\* waits for hop k's decision, left it for the release, or has taken it.
ChainOK(k) ==
  /\ chain \in Chains /\ cancelled \in BOOLEAN
  /\ \A h \in Hops : hop[h].pc # "idle" <=> h <= k
  /\ \A h \in Hops : h < k => hop[h].decision = "ok"
  /\ \A h \in 2 .. N : h <= k => hop[h].fwd = hop[h - 1].tries
  /\ chain.joined \subseteq {h \in Hops : hop[h].pc = "over"}
  /\ chain.pc = "done" => \A h \in Hops : hop[h].pc \in {"idle", "over"}
  /\ Told(k, hop[k].decision)

GarterIInv ==
  /\ hop \in [Hops -> HopRecords] /\ bin \in [Hops -> Bins] /\ tap \in [Hops -> Taps]
  /\ \A h \in Hops : LocalOK(h, hop[h], bin[h], tap[h])
  /\ \E k \in Hops : ChainOK(k)

-----------------------------------------------------------------------------
(* Records of a plugin's run.                                              *)

\* What Spent changes.
LEMMA SpentFields ==
  ASSUME NEW b \in Bins
  PROVE  /\ Spent(b) \in Bins
         /\ ~Spent(b).sender /\ ~Spent(b).reading /\ ~Spent(b).probe
         /\ Spent(b).pc = b.pc /\ Spent(b).child = b.child /\ Spent(b).held = b.held /\ Spent(b).out = b.out
         /\ Spent(b).refused = b.refused /\ Spent(b).orphan = b.orphan
  BY Zenon DEF Spent, Bins

\* Two records of one run, of which only what is said may differ.
SameRun(b, c) ==
  c.pc = b.pc /\ c.child = b.child /\ c.refused = b.refused /\ c.orphan = b.orphan

\* A failure is held, readiness said, a sender dropped, by whoever still has the sender.
LEMMA SayOK ==
  ASSUME NEW b, BinOK(b), b.sender, b.pc \notin {"idle", "over"}
  PROVE  /\ \A e \in Failures : BinOK(Hold(b, e)) /\ SameRun(b, Hold(b, e)) /\ ~Hold(b, e).sender
         /\ BinOK(SayReady(b)) /\ SameRun(b, SayReady(b))
         /\ BinOK([Spent(b) EXCEPT !.out = "dropped"]) /\ SameRun(b, [Spent(b) EXCEPT !.out = "dropped"])
<1> DEFINE s == Spent(b)
<1>1. /\ s \in Bins /\ ~s.sender /\ ~s.reading /\ ~s.probe
      /\ s.pc = b.pc /\ s.child = b.child /\ s.held = b.held /\ s.out = b.out
      /\ s.refused = b.refused /\ s.orphan = b.orphan
  BY SpentFields DEF BinOK
<1> HIDE DEF s
<1>2. ASSUME NEW e \in Failures
      PROVE  BinOK([s EXCEPT !.held = e]) /\ SameRun(b, [s EXCEPT !.held = e]) /\ ~[s EXCEPT !.held = e].sender
  BY <1>1 DEF BinOK, Bins, SameRun, Failures
<1>3. ASSUME NEW o \in {"ok", "dropped"}
      PROVE  BinOK([s EXCEPT !.out = o]) /\ SameRun(b, [s EXCEPT !.out = o])
  BY <1>1, <1>3 DEF BinOK, Bins, SameRun, Failures, Outs, Sent
<1> QED BY <1>2, <1>3 DEF s, Hold, SayReady

\* A sender that nobody can use any more is dropped.
LEMMA DropUnusedOK ==
  ASSUME NEW b, BinOK(b), b.pc \notin {"idle", "over"}
  PROVE  BinOK(DropUnused(b)) /\ SameRun(b, DropUnused(b))
  BY SayOK DEF DropUnused, SameRun

\* The run returns, or its future is dropped: what was held is said.
LEMMA DeliveredOK ==
  ASSUME NEW b, BinOK(b), b.pc \notin {"idle", "over"}
  PROVE  /\ BinOK(DroppedBin(b)) /\ DroppedBin(b).pc = "over" /\ ~DroppedBin(b).orphan
         /\ DroppedBin(b).held = b.held /\ (b.out # "open" => DroppedBin(b).out = b.out)
         /\ DroppedBin(b).child = "alive" => b.child = "alive" /\ b.refused
         /\ DroppedBin(b).refused = b.refused
         /\ b.pc = "drain" =>
              /\ BinOK(Delivered(b)) /\ Delivered(b).pc = "over" /\ ~Delivered(b).orphan
              /\ Delivered(b).held = b.held /\ (b.out # "open" => Delivered(b).out = b.out)
              /\ Delivered(b).child = b.child /\ Delivered(b).refused = b.refused
<1> DEFINE s == Spent(b)
<1>1. /\ s \in Bins /\ ~s.sender /\ ~s.reading /\ ~s.probe
      /\ s.pc = b.pc /\ s.child = b.child /\ s.held = b.held /\ s.out = b.out
      /\ s.refused = b.refused /\ s.orphan = b.orphan
  BY SpentFields DEF BinOK
<1> HIDE DEF s
<1> DEFINE out == IF b.held # "none" THEN b.held ELSE IF s.out = "open" THEN "dropped" ELSE s.out
           d == [s EXCEPT !.pc = "over", !.down = FALSE, !.orphan = FALSE, !.out = out]
<1>2. /\ out \in Outs /\ out # "open" /\ (b.held # "none" => out = b.held) /\ (out \in Failures => b.held = out)
      /\ (b.out # "open" => out = b.out)
  BY <1>1 DEF BinOK, Bins, Failures, Outs, Sent
<1> HIDE DEF out
<1>3. /\ d \in Bins /\ d.pc = "over" /\ d.child = b.child /\ ~d.reading /\ ~d.probe /\ ~d.sender /\ d.held = b.held
      /\ d.out = out /\ d.refused = b.refused /\ ~d.orphan
  BY <1>1, <1>2, Zenon DEF Bins
<1>4. Delivered(b) = d
  BY DEF Delivered, d, out, s
<1> HIDE DEF d
<1>5. b.pc = "drain" => BinOK(d)
  BY <1>2, <1>3 DEF BinOK
<1> DEFINE g == [d EXCEPT !.child = IF b.refused THEN b.child ELSE "gone"]
<1>6. /\ g \in Bins /\ g.pc = "over" /\ g.child = (IF b.refused THEN b.child ELSE "gone")
      /\ ~g.reading /\ ~g.probe /\ ~g.sender /\ g.held = b.held
      /\ g.out = out /\ g.refused = b.refused /\ ~g.orphan
  BY <1>3 DEF Bins, BinOK
<1>7. BinOK(g)
  BY <1>2, <1>6 DEF BinOK
<1>8. DroppedBin(b) = g
  BY <1>4 DEF DroppedBin
<1> HIDE DEF g
<1> QED BY <1>2, <1>3, <1>4, <1>5, <1>6, <1>7, <1>8

-----------------------------------------------------------------------------
(* Steps of one hop, its plugin and its tap.                               *)

\* A child that is neither gone nor owed.
Live(b) == b.child = "alive" /\ ~b.refused /\ ~b.orphan

\* A hop that was launched stays so, and what it decided stands.
HopKept(y, x) ==
  x = y \/ /\ y.pc \notin {"idle", "over"} /\ x.pc # "idle" /\ x.fwd = y.fwd
           /\ y.decision # "open" => x.decision = y.decision /\ x.tries = y.tries

\* Hop h comes to x, its plugin to b and its tap to t.
Comes(h, x, b, t) ==
  /\ hop' = [hop EXCEPT ![h] = x] /\ bin' = [bin EXCEPT ![h] = b] /\ tap' = [tap EXCEPT ![h] = t]
  /\ UNCHANGED <<chain, cancelled>>
  /\ LocalOK(h, x, b, t) /\ HopKept(hop[h], x)
  /\ Live(b) => Live(bin[h]) \/ hop[h].pc = "pick"

Moves(h) == \E x, b, t : Comes(h, x, b, t)

\* Such a step keeps the invariant.
LEMMA MovesKeep ==
  ASSUME GarterIInv, NEW h \in Hops, Moves(h)
  PROVE  GarterIInv'
<1>1. PICK x, b, t : Comes(h, x, b, t)
  BY DEF Moves
<1>2. x \in HopRecords /\ b \in Bins /\ t \in Taps
  BY <1>1 DEF Comes, LocalOK, BinOK, TapOK, HopOK
<1>3. hop' \in [Hops -> HopRecords] /\ bin' \in [Hops -> Bins] /\ tap' \in [Hops -> Taps]
  BY <1>1, <1>2 DEF Comes, GarterIInv
<1>4. /\ hop'[h] = x /\ bin'[h] = b /\ tap'[h] = t
      /\ \A g \in Hops : g # h => hop'[g] = hop[g] /\ bin'[g] = bin[g] /\ tap'[g] = tap[g]
  BY <1>1 DEF Comes, GarterIInv
<1>5. ASSUME NEW g \in Hops
      PROVE  LocalOK(g, hop'[g], bin'[g], tap'[g])
  BY <1>1, <1>4 DEF Comes, GarterIInv
<1>6. PICK k \in Hops : ChainOK(k)
  BY DEF GarterIInv
<1>7. ASSUME NEW g \in Hops
      PROVE  /\ HopKept(hop[g], hop'[g])
             /\ hop[g].pc = "idle" <=> hop'[g].pc = "idle"
             /\ hop[g].decision # "open" => hop'[g].decision = hop[g].decision /\ hop'[g].tries = hop[g].tries
             /\ hop'[g].fwd = hop[g].fwd
             /\ hop[g].pc \in {"idle", "over"} => hop'[g] = hop[g]
  BY <1>1, <1>4 DEF Comes, HopKept
<1>8. chain' = chain /\ cancelled' = cancelled
  BY <1>1 DEF Comes
<1>9. ChainOK(k)'
  <2>1. /\ \A g \in Hops : hop'[g].pc # "idle" <=> g <= k
        /\ \A g \in Hops : g < k => hop'[g].decision = "ok"
    BY <1>6, <1>7 DEF ChainOK
  <2>2. \A g \in 2 .. N : g <= k => hop'[g].fwd = hop'[g - 1].tries
    BY <1>6, <1>7, GarterAssumption DEF ChainOK, Hops
  <2>3. chain.joined \subseteq {g \in Hops : hop'[g].pc = "over"}
    BY <1>6, <1>7 DEF ChainOK
  <2>4. Told(k, hop[k].decision) => Told(k, hop'[k].decision)
    BY <1>6, <1>7 DEF Told, ChainOK, Failures, Hops
  <2> QED BY <1>6, <1>7, <1>8, <2>1, <2>2, <2>3, <2>4 DEF ChainOK, Told
<1> QED BY <1>3, <1>5, <1>9 DEF GarterIInv

\* The child starts, goes on or ends; the runner's own steps are elsewhere.
SameRunBin(b, c) ==
  /\ BinOK(c)
  /\ b.pc \in {"idle", "over"} => c.pc = b.pc /\ c.out = b.out /\ c.held = b.held
  /\ b.out # "open" => c.out = b.out
  /\ c.orphan => b.orphan
  /\ b.orphan => c.orphan \/ c.pc = "over"
  /\ Live(c) => Live(b)

LEMMA BinMoves ==
  ASSUME GarterIInv, NEW h \in Hops, NEW c, SameRunBin(bin[h], c),
         bin' = [bin EXCEPT ![h] = c], UNCHANGED <<chain, cancelled, hop, tap>>
  PROVE  Moves(h)
<1> DEFINE x == hop[h]
           b == bin[h]
           t == tap[h]
<1>1. LocalOK(h, x, b, t)
  BY DEF GarterIInv
<1>2. hop' = [hop EXCEPT ![h] = x] /\ tap' = [tap EXCEPT ![h] = t]
  BY DEF GarterIInv
<1>3. SameRunBin(b, c)
  OBVIOUS
<1>4. Live(c) => Live(b)
  BY DEF SameRunBin
<1> HIDE DEF x, b, t
<1>5. BinOK(c)
  BY <1>3 DEF SameRunBin
<1>6. TapOK(t, c, x)
  BY <1>1, <1>3, <1>5 DEF LocalOK, TapOK, HopOK, BinOK, SameRunBin
<1>7. HopOK(h, x, c, t)
  BY <1>1, <1>3, <1>5 DEF LocalOK, HopOK, BinOK, SameRunBin, Bins, Failures
<1>8. Comes(h, x, c, t)
  BY <1>2, <1>4, <1>5, <1>6, <1>7, Zenon DEF Comes, LocalOK, HopKept, x, b
<1> QED BY <1>8 DEF Moves

\* The reader's and the probe's steps: only what is said changes.
LEMMA SameRunOK ==
  ASSUME NEW b, BinOK(b), b.out = "open", b.pc \notin {"idle", "over"}, NEW c, BinOK(c), SameRun(b, c)
  PROVE  SameRunBin(b, c)
  BY DEF SameRunBin, SameRun, Live

\* A reader that ends, a probe that ends.
LEMMA ReaderEnds ==
  ASSUME NEW b, BinOK(b), b.reading \/ b.probe
  PROVE  /\ BinOK([b EXCEPT !.reading = FALSE]) /\ SameRun(b, [b EXCEPT !.reading = FALSE])
         /\ BinOK([b EXCEPT !.probe = FALSE]) /\ SameRun(b, [b EXCEPT !.probe = FALSE])
         /\ [b EXCEPT !.reading = FALSE].sender /\ [b EXCEPT !.probe = FALSE].sender
         /\ BinOK([b EXCEPT !.hello = TRUE, !.owns = FALSE, !.probe = FALSE])
         /\ SameRun(b, [b EXCEPT !.hello = TRUE, !.owns = FALSE, !.probe = FALSE])
         /\ BinOK([b EXCEPT !.owns = TRUE, !.probe = @ \/ ~b.owns, !.reading = FALSE])
         /\ SameRun(b, [b EXCEPT !.owns = TRUE, !.probe = @ \/ ~b.owns, !.reading = FALSE])
<1>1. BinOK([b EXCEPT !.reading = FALSE]) /\ SameRun(b, [b EXCEPT !.reading = FALSE]) /\ [b EXCEPT !.reading = FALSE].sender
  BY Zenon DEF BinOK, SameRun, Bins
<1>2. BinOK([b EXCEPT !.probe = FALSE]) /\ SameRun(b, [b EXCEPT !.probe = FALSE]) /\ [b EXCEPT !.probe = FALSE].sender
  BY Zenon DEF BinOK, SameRun, Bins
<1>3. /\ BinOK([b EXCEPT !.hello = TRUE, !.owns = FALSE, !.probe = FALSE])
      /\ SameRun(b, [b EXCEPT !.hello = TRUE, !.owns = FALSE, !.probe = FALSE])
  BY Zenon DEF BinOK, SameRun, Bins
<1> DEFINE p == b.probe \/ ~b.owns
           c == [b EXCEPT !.owns = TRUE, !.probe = p, !.reading = FALSE]
<1>4. BinOK(c) /\ SameRun(b, c)
  <2>1. p \in BOOLEAN
    OBVIOUS
  <2>2. b \in Bins /\ b.sender /\ b.out = "open" /\ b.held = "none" /\ b.pc \notin {"idle", "over"}
    BY DEF BinOK
  <2> HIDE DEF p
  <2>3. /\ c \in Bins /\ c.sender = b.sender /\ c.out = b.out /\ c.held = b.held /\ ~c.reading
        /\ c.pc = b.pc /\ c.child = b.child /\ c.refused = b.refused /\ c.orphan = b.orphan
    <3>1. c \in Bins
      BY <2>1, <2>2, Zenon DEF Bins
    <3> QED BY <2>2, <3>1, Zenon DEF Bins
  <2> HIDE DEF c
  <2> QED BY <2>2, <2>3 DEF BinOK, SameRun, Failures
<1> QED BY <1>1, <1>2, <1>3, <1>4

LEMMA ReadLineMoves ==
  ASSUME GarterIInv, NEW h \in Hops, ReadLine(h)
  PROVE  Moves(h)
<1> DEFINE b == bin[h]
<1>1. BinOK(b) /\ b.reading
  BY DEF GarterIInv, LocalOK, ReadLine
<1>2. b.out = "open" /\ b.sender /\ b.pc \notin {"idle", "over"}
  BY <1>1 DEF BinOK
<1>3. PICK c \in AfterLine(b) : bin' = [bin EXCEPT ![h] = c]
  BY Zenon DEF ReadLine
<1>4. BinOK(c) /\ SameRun(b, c)
  <2> HIDE DEF b
  <2>1. \/ c = [b EXCEPT !.hello = TRUE, !.owns = FALSE, !.probe = FALSE]
        \/ c = [b EXCEPT !.owns = TRUE, !.probe = @ \/ ~b.owns, !.reading = FALSE]
        \/ c \in {SayReady(b), Hold(b, "conflict"), Hold(b, "fatal")}
    BY <1>3 DEF AfterLine
  <2>2. ASSUME c = [b EXCEPT !.owns = TRUE, !.probe = @ \/ ~b.owns, !.reading = FALSE]
        PROVE  BinOK(c) /\ SameRun(b, c)
    BY <1>1, <2>2, ReaderEnds, Zenon
  <2>3. ASSUME c \in {SayReady(b), Hold(b, "conflict"), Hold(b, "fatal")}
        PROVE  BinOK(c) /\ SameRun(b, c)
    BY <1>1, <1>2, <2>3, SayOK, Zenon DEF Failures
  <2> QED BY <1>1, <2>1, <2>2, <2>3, ReaderEnds, Zenon
<1>5. SameRunBin(b, c)
  BY <1>1, <1>2, <1>4, SameRunOK
<1> QED BY <1>3, <1>5, BinMoves, Zenon DEF ReadLine

LEMMA EofMoves ==
  ASSUME GarterIInv, NEW h \in Hops, Eof(h)
  PROVE  Moves(h)
<1> DEFINE b == bin[h]
           e == [b EXCEPT !.reading = FALSE]
           f == IF e.down \/ e.owns THEN e ELSE Hold(e, "fatal")
<1>1. BinOK(b) /\ b.reading
  BY DEF GarterIInv, LocalOK, Eof
<1>2. b.out = "open" /\ b.sender /\ b.pc \notin {"idle", "over"}
  BY <1>1 DEF BinOK
<1>3. bin' = [bin EXCEPT ![h] = DropUnused(f)] /\ UNCHANGED <<chain, cancelled, hop, tap>>
  BY DEF Eof
<1> HIDE DEF b
<1>4. BinOK(e) /\ SameRun(b, e) /\ e.sender
  BY <1>1, ReaderEnds, Zenon
<1> HIDE DEF e
<1>5. e.pc \notin {"idle", "over"}
  BY <1>2, <1>4 DEF SameRun
<1>6. BinOK(f) /\ SameRun(b, f)
  <2>1. BinOK(Hold(e, "fatal")) /\ SameRun(e, Hold(e, "fatal"))
    BY <1>4, <1>5, SayOK, Zenon DEF Failures
  <2> QED BY <1>4, <2>1 DEF SameRun
<1> HIDE DEF f
<1>7. f.pc \notin {"idle", "over"}
  BY <1>2, <1>6 DEF SameRun
<1>8. BinOK(DropUnused(f)) /\ SameRun(b, DropUnused(f))
  BY <1>6, <1>7, DropUnusedOK DEF SameRun
<1>9. SameRunBin(b, DropUnused(f))
  BY <1>1, <1>2, <1>8, SameRunOK
<1> QED BY <1>3, <1>9, BinMoves, Zenon DEF b

LEMMA ProbeMoves ==
  ASSUME GarterIInv, NEW h \in Hops, Probe(h)
  PROVE  Moves(h)
<1> DEFINE b == bin[h]
           e == [b EXCEPT !.probe = FALSE]
<1>1. BinOK(b) /\ b.probe
  BY DEF GarterIInv, LocalOK, Probe
<1>2. b.out = "open" /\ b.sender /\ b.pc \notin {"idle", "over"}
  BY <1>1 DEF BinOK
<1>3. UNCHANGED <<chain, cancelled, hop, tap>>
  BY DEF Probe
<1>4. SameRunBin(b, SayReady(b))
  BY <1>1, <1>2, SayOK, SameRunOK, Zenon
<1>5. SameRunBin(b, DropUnused(e))
  <2> HIDE DEF b
  <2>1. BinOK(e) /\ SameRun(b, e)
    BY <1>1, ReaderEnds, Zenon
  <2> HIDE DEF e
  <2>2. BinOK(DropUnused(e)) /\ SameRun(b, DropUnused(e))
    BY <1>2, <2>1, DropUnusedOK DEF SameRun
  <2> QED BY <1>1, <1>2, <2>2, SameRunOK
<1>6. bin' = [bin EXCEPT ![h] = SayReady(b)] \/ bin' = [bin EXCEPT ![h] = DropUnused(e)]
  BY DEF Probe
<1> QED BY <1>3, <1>4, <1>5, <1>6, BinMoves

LEMMA ChildExitsMoves ==
  ASSUME GarterIInv, NEW h \in Hops, ChildExits(h)
  PROVE  Moves(h)
<1> DEFINE b == bin[h]
           c == [b EXCEPT !.child = "gone"]
<1>1. BinOK(b)
  BY DEF GarterIInv, LocalOK
<1>2. bin' = [bin EXCEPT ![h] = c] /\ UNCHANGED <<chain, cancelled, hop, tap>>
  BY DEF ChildExits, GarterIInv
<1> HIDE DEF b
<1>3. SameRunBin(b, c)
  BY <1>1 DEF BinOK, Bins, SameRunBin, Live
<1> QED BY <1>2, <1>3, BinMoves, Zenon DEF b

LEMMA SuperviseMoves ==
  ASSUME GarterIInv, NEW h \in Hops, Supervise(h)
  PROVE  Moves(h)
<1> DEFINE b == bin[h]
           next(down, pc) == [b EXCEPT !.down = down, !.pc = pc]
<1>1. BinOK(b) /\ b.pc = "watch"
  BY DEF GarterIInv, LocalOK, Supervise
<1>2. bin \in [Hops -> Bins] /\ b \in Bins
  BY DEF GarterIInv
<1>3. UNCHANGED <<chain, cancelled, hop, tap>>
  BY DEF Supervise
<1>4. \/ b.child = "gone" /\ bin' = [bin EXCEPT ![h] = next(b.down, "drain")]
      \/ \E pc \in {"grace", "kill"}, down \in BOOLEAN : bin' = [bin EXCEPT ![h] = next(down, pc)]
  <2>1. CASE b.child = "gone" /\ bin' = [bin EXCEPT ![h].pc = "drain"]
    BY <1>2, <2>1, Zenon DEF Bins
  <2>2. ASSUME NEW terminated \in BOOLEAN,
               bin' = [bin EXCEPT ![h].down = TRUE, ![h].pc = IF terminated THEN "grace" ELSE "kill"]
        PROVE  \E pc \in {"grace", "kill"}, down \in BOOLEAN : bin' = [bin EXCEPT ![h] = next(down, pc)]
    <3>1. bin' = [bin EXCEPT ![h] = next(TRUE, IF terminated THEN "grace" ELSE "kill")]
      BY <2>2, Zenon
    <3> QED BY <3>1, Zenon
  <2>3. CASE bin' = [bin EXCEPT ![h].pc = "grace"]
    <3>1. bin' = [bin EXCEPT ![h] = next(b.down, "grace")]
      BY <1>2, <2>3, Zenon DEF Bins
    <3> QED BY <1>2, <3>1, Zenon DEF Bins
  <2> QED BY <2>1, <2>2, <2>3, Zenon DEF Supervise
<1>5. ASSUME NEW pc \in {"grace", "kill", "drain"}, NEW down \in BOOLEAN, pc = "drain" => b.child = "gone"
      PROVE  SameRunBin(b, next(down, pc))
  <2> DEFINE c == next(down, pc)
  <2> HIDE DEF b
  <2>1. /\ c \in Bins /\ c.pc = pc /\ c.child = b.child /\ c.reading = b.reading /\ c.probe = b.probe
        /\ c.sender = b.sender /\ c.held = b.held /\ c.out = b.out /\ c.refused = b.refused /\ c.orphan = b.orphan
    BY <1>1, Zenon DEF BinOK, Bins
  <2> HIDE DEF c
  <2> QED BY <1>1, <1>5, <2>1 DEF BinOK, SameRunBin, Live, c
<1>6. b.down \in BOOLEAN
  BY <1>2 DEF Bins
<1> QED BY <1>3, <1>4, <1>5, <1>6, BinMoves, Zenon

LEMMA GraceMoves ==
  ASSUME GarterIInv, NEW h \in Hops, Grace(h)
  PROVE  Moves(h)
<1> DEFINE b == bin[h]
           c == [b EXCEPT !.pc = IF b.child = "gone" THEN "drain" ELSE "kill"]
<1>1. BinOK(b) /\ b.pc = "grace"
  BY DEF GarterIInv, LocalOK, Grace
<1>2. bin' = [bin EXCEPT ![h] = c] /\ UNCHANGED <<chain, cancelled, hop, tap>>
  BY DEF Grace, GarterIInv
<1> HIDE DEF b
<1>3. SameRunBin(b, c)
  BY <1>1 DEF BinOK, Bins, SameRunBin, Live
<1> QED BY <1>2, <1>3, BinMoves, Zenon DEF b

LEMMA KillMoves ==
  ASSUME GarterIInv, NEW h \in Hops, Kill(h)
  PROVE  Moves(h)
<1> DEFINE b == bin[h]
           c == [b EXCEPT !.pc = "drain", !.child = "gone"]
           r == [b EXCEPT !.pc = "drain", !.refused = TRUE]
<1>1. BinOK(b) /\ b.pc = "kill"
  BY DEF GarterIInv, LocalOK, Kill
<1>2. bin' = [bin EXCEPT ![h] = c] \/ bin' = [bin EXCEPT ![h] = r]
  BY Zenon DEF Kill, GarterIInv
<1>3. UNCHANGED <<chain, cancelled, hop, tap>>
  BY DEF Kill
<1>4. SameRunBin(b, c)
  <2> HIDE DEF b
  <2> QED BY <1>1, Zenon DEF BinOK, Bins, SameRunBin, Live
<1>5. SameRunBin(b, r)
  <2> HIDE DEF b
  <2> QED BY <1>1, Zenon DEF BinOK, Bins, SameRunBin, Live
<1> QED BY <1>2, <1>3, <1>4, <1>5, BinMoves

LEMMA DrainMoves ==
  ASSUME GarterIInv, NEW h \in Hops, Drain(h)
  PROVE  Moves(h)
<1> DEFINE b == bin[h]
<1>1. BinOK(b) /\ b.pc = "drain" /\ ~b.orphan
  BY DEF GarterIInv, LocalOK, HopOK, Drain
<1>2. SameRunBin(b, Delivered(b))
  BY <1>1, DeliveredOK DEF SameRunBin, Live
<1> QED BY <1>2, BinMoves, Zenon DEF Drain

LEMMA InnerDroppedMoves ==
  ASSUME GarterIInv, NEW h \in Hops, InnerDropped(h)
  PROVE  Moves(h)
<1> DEFINE b == bin[h]
<1>1. BinOK(b) /\ b.orphan
  BY DEF GarterIInv, LocalOK, InnerDropped
<1>2. b.pc \notin {"idle", "over"}
  BY <1>1 DEF BinOK
<1>3. SameRunBin(b, DroppedBin(b))
  BY <1>1, <1>2, DeliveredOK DEF SameRunBin, Live
<1> QED BY <1>3, BinMoves, Zenon DEF InnerDropped

\* A tap's step, while its hop runs: what it said stands.
LEMMA TapMoves ==
  ASSUME GarterIInv, NEW h \in Hops, Running(h), tap[h].pc # "idle",
         NEW c, NEW t, SameRunBin(bin[h], c), TapOK(t, c, hop[h]),
         tap[h].out # "open" => t.out = tap[h].out,
         bin' = [bin EXCEPT ![h] = c], tap' = [tap EXCEPT ![h] = t], UNCHANGED <<chain, cancelled, hop>>
  PROVE  Moves(h)
<1> DEFINE x == hop[h]
<1>1. LocalOK(h, x, bin[h], tap[h])
  BY DEF GarterIInv
<1>2. hop' = [hop EXCEPT ![h] = x]
  BY DEF GarterIInv
<1>3. x.pc = "run" /\ ~x.aborted /\ h \in Tapped
  BY <1>1 DEF Running, LocalOK, HopOK
<1>4. ~c.orphan /\ BinOK(c) /\ (Live(c) => Live(bin[h]))
  BY <1>1, <1>3 DEF LocalOK, HopOK, SameRunBin
<1>5. HopOK(h, x, c, t)
  BY <1>1, <1>3, <1>4 DEF LocalOK, HopOK
<1>6. Comes(h, x, c, t)
  BY <1>2, <1>4, <1>5, Zenon DEF Comes, LocalOK, HopKept
<1> QED BY <1>6 DEF Moves

\* One in which the plugin does not change.
LEMMA TapOnlyMoves ==
  ASSUME GarterIInv, NEW h \in Hops, Running(h), tap[h].pc # "idle",
         NEW t, TapOK(t, bin[h], hop[h]), tap[h].out # "open" => t.out = tap[h].out,
         tap' = [tap EXCEPT ![h] = t], UNCHANGED <<chain, cancelled, hop, bin>>
  PROVE  Moves(h)
<1>1. SameRunBin(bin[h], bin[h])
  BY DEF GarterIInv, LocalOK, SameRunBin
<1>2. bin' = [bin EXCEPT ![h] = bin[h]]
  BY DEF GarterIInv
<1> QED BY <1>1, <1>2, TapMoves, Zenon

\* The tap as TapStops and TapOver leave it.
At(t, pc) == [t EXCEPT !.pc = pc]
Stops(t, owed) == [t EXCEPT !.pc = "stop", !.stop = TRUE, !.owed = owed]
Overs(t, out) ==
  [t EXCEPT !.pc = "over", !.stop = FALSE, !.owed = "none",
            !.out = IF @ # "open" THEN @ ELSE IF out = "none" THEN "dropped" ELSE out]

LEMMA TapFrames ==
  ASSUME NEW h \in Hops, tap \in [Hops -> Taps], NEW o
  PROVE  /\ TapStops(h, o) => tap' = [tap EXCEPT ![h] = Stops(tap[h], o)]
         /\ TapOver(h, o) => tap' = [tap EXCEPT ![h] = Overs(tap[h], o)]
         /\ tap' = [tap EXCEPT ![h].pc = o] => tap' = [tap EXCEPT ![h] = At(tap[h], o)]
  BY Zenon DEF TapStops, TapOver, Stops, Overs, At

\* A running tap's new records.
LEMMA StopsOK ==
  ASSUME NEW x, NEW b, NEW t, TapOK(t, b, x), t.pc \notin {"idle", "over"},
         NEW o \in {"none", "late"} \cup Failures,
         o # "late" => b.out # "open" /\ (b.out \in Failures => o = b.out)
  PROVE  TapOK(Stops(t, o), b, x) /\ Stops(t, o).out = t.out
  BY Zenon DEF TapOK, Taps, Stops

LEMMA OversOK ==
  ASSUME NEW x, NEW b, NEW t, BinOK(b), TapOK(t, b, x), t.pc \notin {"idle", "over"},
         NEW o \in {"none"} \cup Failures, b.pc \in {"idle", "over"}, b.out \in Failures => o = b.out
  PROVE  TapOK(Overs(t, o), b, x) /\ (t.out # "open" => Overs(t, o).out = t.out)
<1> DEFINE out == IF t.out # "open" THEN t.out ELSE IF o = "none" THEN "dropped" ELSE o
           u == Overs(t, o)
<1>1. t \in Taps /\ (t.out # "open" => t.out = "ok" /\ b.out = "ok")
  BY DEF TapOK
<1>2. out \in Outs /\ out # "open" /\ (t.out # "open" => out = t.out)
  BY <1>1 DEF Outs, Sent, Failures, Taps
<1>3. u \in Taps /\ u.pc = "over" /\ u.out = out
  BY <1>1, <1>2, Zenon DEF Taps, Overs
<1>4. b.held # "none" => out = b.held
  BY <1>1 DEF BinOK, Bins, Failures
<1> HIDE DEF out, u
<1>5. TapOK(u, b, x)
  BY <1>2, <1>3, <1>4 DEF TapOK
<1> QED BY <1>2, <1>3, <1>5 DEF u

LEMMA PcOK ==
  ASSUME NEW x, NEW b, NEW t, TapOK(t, b, x), t.pc \notin {"idle", "over"},
         NEW pc \in {"bind", "lost", "leave", "close"},
         pc = "bind" => b.out = "ok", pc = "lost" => b.out = "dropped", pc = "close" => b.out \in {"ok", "dropped"}
  PROVE  TapOK(At(t, pc), b, x) /\ At(t, pc).out = t.out
  BY DEF TapOK, Taps, At

LEMMA TapWaitMoves ==
  ASSUME GarterIInv, NEW h \in Hops, TapWait(h)
  PROVE  Moves(h)
<1> DEFINE x == hop[h]
           b == bin[h]
           t == tap[h]
<1>1. BinOK(b) /\ TapOK(t, b, x) /\ t.pc = "wait" /\ ~b.orphan /\ tap \in [Hops -> Taps]
  BY DEF GarterIInv, LocalOK, HopOK, TapWait, Running
<1>2. Running(h) /\ UNCHANGED <<chain, cancelled, hop, bin>>
  BY DEF TapWait
<1>3. b.out = "open" => "late" \in {"none", "late"} \cup Failures
  OBVIOUS
<1>4. \/ b.out = "ok" /\ tap' = [tap EXCEPT ![h] = At(t, "bind")]
      \/ b.out = "ok" /\ tap' = [tap EXCEPT ![h] = Stops(t, "fatal")]
      \/ b.out \in Failures /\ tap' = [tap EXCEPT ![h] = Stops(t, b.out)]
      \/ b.out = "dropped" /\ tap' = [tap EXCEPT ![h] = At(t, "lost")]
      \/ tap' = [tap EXCEPT ![h] = At(t, "leave")]
      \/ tap' = [tap EXCEPT ![h] = Stops(t, "late")]
  BY <1>1, TapFrames DEF TapWait
<1>5. \E u : TapOK(u, b, x) /\ u.out = t.out /\ tap' = [tap EXCEPT ![h] = u]
  <2> HIDE DEF x, b, t
  <2>1. CASE b.out = "ok" /\ tap' = [tap EXCEPT ![h] = At(t, "bind")]
    <3>1. TapOK(At(t, "bind"), b, x) /\ At(t, "bind").out = t.out
      BY <1>1, <2>1, PcOK
    <3> QED BY <2>1, <3>1, Zenon
  <2>2. CASE b.out = "ok" /\ tap' = [tap EXCEPT ![h] = Stops(t, "fatal")]
    <3>1. TapOK(Stops(t, "fatal"), b, x) /\ Stops(t, "fatal").out = t.out
      BY <1>1, <2>2, StopsOK DEF Failures
    <3> QED BY <2>2, <3>1, Zenon
  <2>3. CASE b.out \in Failures /\ tap' = [tap EXCEPT ![h] = Stops(t, b.out)]
    <3>1. TapOK(Stops(t, b.out), b, x) /\ Stops(t, b.out).out = t.out
      BY <1>1, <2>3, StopsOK DEF Failures
    <3> QED BY <2>3, <3>1, Zenon
  <2>4. CASE b.out = "dropped" /\ tap' = [tap EXCEPT ![h] = At(t, "lost")]
    <3>1. TapOK(At(t, "lost"), b, x) /\ At(t, "lost").out = t.out
      BY <1>1, <2>4, PcOK
    <3> QED BY <2>4, <3>1, Zenon
  <2>5. CASE tap' = [tap EXCEPT ![h] = At(t, "leave")]
    <3>1. TapOK(At(t, "leave"), b, x) /\ At(t, "leave").out = t.out
      BY <1>1, <2>5, PcOK
    <3> QED BY <2>5, <3>1, Zenon
  <2>6. CASE tap' = [tap EXCEPT ![h] = Stops(t, "late")]
    <3>1. TapOK(Stops(t, "late"), b, x) /\ Stops(t, "late").out = t.out
      BY <1>1, <2>6, StopsOK
    <3> QED BY <2>6, <3>1, Zenon
  <2> QED BY <1>4, <2>1, <2>2, <2>3, <2>4, <2>5, <2>6
<1> QED BY <1>1, <1>2, <1>5, TapOnlyMoves, Zenon

LEMMA TapLostMoves ==
  ASSUME GarterIInv, NEW h \in Hops, TapLost(h)
  PROVE  Moves(h)
<1> DEFINE x == hop[h]
           b == bin[h]
           t == tap[h]
<1>1. BinOK(b) /\ TapOK(t, b, x) /\ t.pc = "lost" /\ ~b.orphan /\ tap \in [Hops -> Taps]
  BY DEF GarterIInv, LocalOK, HopOK, TapLost, Running
<1>2. Running(h) /\ UNCHANGED <<chain, cancelled, hop, bin>>
  BY DEF TapLost
<1>3. b.out = "dropped"
  BY <1>1 DEF TapOK
<1>4. \/ tap' = [tap EXCEPT ![h] = At(t, "close")]
      \/ b.pc = "over" /\ tap' = [tap EXCEPT ![h] = Overs(t, "fatal")]
      \/ tap' = [tap EXCEPT ![h] = Stops(t, "late")]
  BY <1>1, TapFrames DEF TapLost
<1>5. \E u : TapOK(u, b, x) /\ (t.out # "open" => u.out = t.out) /\ tap' = [tap EXCEPT ![h] = u]
  <2> HIDE DEF x, b, t
  <2>1. CASE tap' = [tap EXCEPT ![h] = At(t, "close")]
    <3>1. TapOK(At(t, "close"), b, x) /\ At(t, "close").out = t.out
      BY <1>1, <1>3, <2>1, PcOK
    <3> QED BY <2>1, <3>1, Zenon
  <2>2. CASE b.pc = "over" /\ tap' = [tap EXCEPT ![h] = Overs(t, "fatal")]
    <3>1. TapOK(Overs(t, "fatal"), b, x) /\ (t.out # "open" => Overs(t, "fatal").out = t.out)
      BY <1>1, <1>3, <2>2, OversOK DEF Failures
    <3> QED BY <2>2, <3>1, Zenon
  <2>3. CASE tap' = [tap EXCEPT ![h] = Stops(t, "late")]
    <3>1. TapOK(Stops(t, "late"), b, x) /\ Stops(t, "late").out = t.out
      BY <1>1, <2>3, StopsOK
    <3> QED BY <2>3, <3>1, Zenon
  <2> QED BY <1>4, <2>1, <2>2, <2>3
<1> QED BY <1>1, <1>2, <1>5, TapOnlyMoves, Zenon

LEMMA TapBindMoves ==
  ASSUME GarterIInv, NEW h \in Hops, TapBind(h)
  PROVE  Moves(h)
<1> DEFINE x == hop[h]
           b == bin[h]
           t == tap[h]
           s == [t EXCEPT !.pc = "serve", !.out = "ok"]
<1>1. BinOK(b) /\ TapOK(t, b, x) /\ t.pc = "bind" /\ ~b.orphan /\ tap \in [Hops -> Taps]
  BY DEF GarterIInv, LocalOK, HopOK, TapBind, Running
<1>2. Running(h) /\ UNCHANGED <<chain, cancelled, hop, bin>>
  BY DEF TapBind
<1>3. b.out = "ok"
  BY <1>1 DEF TapOK
<1>4. tap' = [tap EXCEPT ![h] = s] \/ \E e \in Failures : tap' = [tap EXCEPT ![h] = Stops(t, e)]
  BY <1>1, TapFrames, Zenon DEF TapBind
<1>5. \E u : TapOK(u, b, x) /\ (t.out # "open" => u.out = t.out) /\ tap' = [tap EXCEPT ![h] = u]
  <2> HIDE DEF x, b, t
  <2>1. CASE tap' = [tap EXCEPT ![h] = s]
    <3>1. TapOK(s, b, x) /\ (t.out # "open" => s.out = t.out)
      BY <1>1, <1>3, Zenon DEF TapOK, Taps, Outs, Sent
    <3> QED BY <2>1, <3>1, Zenon
  <2>2. ASSUME NEW e \in Failures, tap' = [tap EXCEPT ![h] = Stops(t, e)]
        PROVE  \E u : TapOK(u, b, x) /\ (t.out # "open" => u.out = t.out) /\ tap' = [tap EXCEPT ![h] = u]
    <3>1. TapOK(Stops(t, e), b, x) /\ Stops(t, e).out = t.out
      BY <1>1, <1>3, <2>2, StopsOK DEF Failures
    <3> QED BY <2>2, <3>1, Zenon
  <2> QED BY <1>4, <2>1, <2>2
<1> QED BY <1>1, <1>2, <1>5, TapOnlyMoves, Zenon

LEMMA TapServeMoves ==
  ASSUME GarterIInv, NEW h \in Hops, TapServe(h)
  PROVE  Moves(h)
<1> DEFINE x == hop[h]
           b == bin[h]
           t == tap[h]
<1>1. BinOK(b) /\ TapOK(t, b, x) /\ t.pc = "serve" /\ ~b.orphan /\ tap \in [Hops -> Taps]
  BY DEF GarterIInv, LocalOK, HopOK, TapServe, Running
<1>2. Running(h) /\ UNCHANGED <<chain, cancelled, hop, bin>>
  BY DEF TapServe
<1>3. b.out = "ok"
  BY <1>1 DEF TapOK
<1>4. \/ tap' = [tap EXCEPT ![h] = At(t, "close")]
      \/ b.pc = "over" /\ tap' = [tap EXCEPT ![h] = Overs(t, "none")]
      \/ tap' = [tap EXCEPT ![h] = Stops(t, "none")]
  BY <1>1, TapFrames DEF TapServe
<1>5. \E u : TapOK(u, b, x) /\ (t.out # "open" => u.out = t.out) /\ tap' = [tap EXCEPT ![h] = u]
  <2> HIDE DEF x, b, t
  <2>1. CASE tap' = [tap EXCEPT ![h] = At(t, "close")]
    <3>1. TapOK(At(t, "close"), b, x) /\ At(t, "close").out = t.out
      BY <1>1, <1>3, <2>1, PcOK
    <3> QED BY <2>1, <3>1, Zenon
  <2>2. CASE b.pc = "over" /\ tap' = [tap EXCEPT ![h] = Overs(t, "none")]
    <3>1. TapOK(Overs(t, "none"), b, x) /\ (t.out # "open" => Overs(t, "none").out = t.out)
      BY <1>1, <1>3, <2>2, OversOK DEF Failures
    <3> QED BY <2>2, <3>1, Zenon
  <2>3. CASE tap' = [tap EXCEPT ![h] = Stops(t, "none")]
    <3>1. TapOK(Stops(t, "none"), b, x) /\ Stops(t, "none").out = t.out
      BY <1>1, <1>3, <2>3, StopsOK DEF Failures
    <3> QED BY <2>3, <3>1, Zenon
  <2> QED BY <1>4, <2>1, <2>2, <2>3
<1> QED BY <1>1, <1>2, <1>5, TapOnlyMoves, Zenon

LEMMA TapDrainMoves ==
  ASSUME GarterIInv, NEW h \in Hops, TapDrain(h)
  PROVE  Moves(h)
<1> DEFINE x == hop[h]
           b == bin[h]
           t == tap[h]
           o == IF t.pc = "leave" /\ b.out \in Failures THEN b.out ELSE "none"
<1>1. /\ BinOK(b) /\ TapOK(t, b, x) /\ t.pc \in {"leave", "close"} /\ ~b.orphan /\ b.pc = "over"
      /\ tap \in [Hops -> Taps]
  BY DEF GarterIInv, LocalOK, HopOK, TapDrain, Running
<1>2. Running(h) /\ UNCHANGED <<chain, cancelled, hop, bin>>
  BY DEF TapDrain
<1>3. tap' = [tap EXCEPT ![h] = Overs(t, o)]
  BY <1>1, TapFrames DEF TapDrain
<1> HIDE DEF x, b, t
<1>4. o \in {"none"} \cup Failures /\ (b.out \in Failures => o = b.out)
  BY <1>1 DEF TapOK, Failures
<1> HIDE DEF o
<1>5. TapOK(Overs(t, o), b, x) /\ (t.out # "open" => Overs(t, o).out = t.out)
  BY <1>1, <1>4, OversOK
<1> QED BY <1>1, <1>2, <1>3, <1>5, TapOnlyMoves, Zenon DEF x, b, t

LEMMA TapStopInnerMoves ==
  ASSUME GarterIInv, NEW h \in Hops, TapStopInner(h)
  PROVE  Moves(h)
<1> DEFINE x == hop[h]
           b == bin[h]
           t == tap[h]
           c == DroppedBin(b)
           o == IF t.owed # "late" THEN t.owed ELSE IF c.out \in Failures THEN c.out ELSE "fatal"
<1>1. /\ BinOK(b) /\ TapOK(t, b, x) /\ t.pc = "stop" /\ ~b.orphan /\ x.pc = "run"
      /\ tap \in [Hops -> Taps]
  BY DEF GarterIInv, LocalOK, HopOK, TapStopInner, Running
<1>2. Running(h) /\ UNCHANGED <<chain, cancelled, hop>>
  BY DEF TapStopInner
<1>3. bin' = [bin EXCEPT ![h] = c] /\ bin'[h] = c
  BY DEF TapStopInner, GarterIInv
<1>4. tap' = [tap EXCEPT ![h] = Overs(t, o)]
  BY <1>1, <1>3, TapFrames DEF TapStopInner
<1> HIDE DEF x, b, t
<1>5. /\ BinOK(c) /\ c.pc \in {"idle", "over"} /\ ~c.orphan /\ SameRunBin(b, c)
      /\ (b.out # "open" => c.out = b.out)
  <2>1. CASE b.pc \in {"idle", "over"}
    BY <1>1, <2>1 DEF DroppedBin, SameRunBin
  <2>2. CASE b.pc \notin {"idle", "over"}
    BY <1>1, <2>2, DeliveredOK DEF SameRunBin, Live
  <2> QED BY <2>1, <2>2
<1> HIDE DEF c
<1>6. TapOK(t, c, x)
  BY <1>1, <1>5 DEF TapOK
<1>7. o \in {"none"} \cup Failures /\ (c.out \in Failures => o = c.out)
  BY <1>1, <1>6 DEF TapOK, Failures, Taps
<1> HIDE DEF o
<1>8. TapOK(Overs(t, o), c, x) /\ (t.out # "open" => Overs(t, o).out = t.out)
  BY <1>1, <1>5, <1>6, <1>7, OversOK
<1> QED BY <1>1, <1>2, <1>3, <1>4, <1>5, <1>8, TapMoves, Zenon DEF x, b, t

\* A hop's own step, its plugin and its tap left alone.
LEMMA HopMoves ==
  ASSUME GarterIInv, NEW h \in Hops, NEW x, HopOK(h, x, bin[h], tap[h]), HopKept(hop[h], x),
         x.aborted = hop[h].aborted,
         hop' = [hop EXCEPT ![h] = x], UNCHANGED <<chain, cancelled, bin, tap>>
  PROVE  Moves(h)
<1>1. LocalOK(h, hop[h], bin[h], tap[h])
  BY DEF GarterIInv
<1>2. bin' = [bin EXCEPT ![h] = bin[h]] /\ tap' = [tap EXCEPT ![h] = tap[h]]
  BY DEF GarterIInv
<1>3. TapOK(tap[h], bin[h], x)
  BY <1>1 DEF LocalOK, TapOK
<1>4. Comes(h, x, bin[h], tap[h])
  BY <1>1, <1>2, <1>3, Zenon DEF Comes, LocalOK
<1> QED BY <1>4 DEF Moves

\* What HopOver leaves of a hop.
LEMMA HopOverFields ==
  ASSUME NEW x \in HopRecords
  PROVE  /\ HopOver(x) \in HopRecords /\ HopOver(x).pc = "over" /\ HopOver(x).aborted = x.aborted
         /\ HopOver(x).decision = IF x.decision = "open" THEN "dropped" ELSE x.decision
         /\ HopOver(x).tries = x.tries /\ HopOver(x).fwd = x.fwd
  BY Zenon DEF HopOver, HopRecords, Outs, Sent

\* What Settle makes of a running hop whose plugin said out.
LEMMA SettleFields ==
  ASSUME NEW x \in HopRecords, NEW h \in Hops, NEW out \in Sent, ~x.settled, x.decision = "open", ~x.restart
  PROVE  LET y == Settle(x, h, out)
         IN /\ y \in HopRecords /\ y.settled /\ y.pc = x.pc /\ y.aborted = x.aborted
            /\ y.tries = x.tries /\ y.fwd = x.fwd
            /\ IF y.restart THEN y.decision = "open" /\ out = "conflict" /\ Intermediate(h)
                            ELSE y.decision = out
<1>1. out # "open" /\ out \in Outs
  BY DEF Sent, Failures, Outs
<1>2. CASE out = "conflict" /\ Intermediate(h)
  BY <1>1, <1>2, Zenon DEF Settle, HopRecords
<1>3. CASE ~(out = "conflict" /\ Intermediate(h))
  BY <1>1, <1>3, Zenon DEF Settle, HopRecords
<1> QED BY <1>2, <1>3

LEMMA HopNoPortMoves ==
  ASSUME GarterIInv, NEW h \in Hops, HopNoPort(h)
  PROVE  Moves(h)
<1> DEFINE x == hop[h]
           f == [x EXCEPT !.decision = "fatal"]
<1>1. x \in HopRecords /\ HopOK(h, x, bin[h], tap[h]) /\ x.pc = "pick" /\ x.decision = "open"
  BY DEF GarterIInv, LocalOK, HopOK, HopNoPort
<1>2. UNCHANGED <<chain, cancelled, bin, tap>>
  BY DEF HopNoPort
<1>3. hop' = [hop EXCEPT ![h] = HopOver(x)] \/ hop' = [hop EXCEPT ![h] = HopOver(f)]
  BY DEF HopNoPort
<1>4. ASSUME NEW y \in {x, f}
      PROVE  HopOK(h, HopOver(y), bin[h], tap[h]) /\ HopKept(x, HopOver(y)) /\ HopOver(y).aborted = x.aborted
  <2>1. y \in HopRecords /\ y.tries = x.tries /\ y.fwd = x.fwd /\ y.aborted = x.aborted
    BY <1>1 DEF HopRecords, Outs, Sent, Failures
  <2> DEFINE z == HopOver(y)
  <2>2. /\ z \in HopRecords /\ z.pc = "over" /\ z.aborted = x.aborted /\ z.decision # "open"
        /\ z.tries = x.tries /\ z.fwd = x.fwd
    BY <2>1, HopOverFields
  <2> HIDE DEF z, x
  <2> QED BY <1>1, <2>2 DEF HopOK, HopKept, z
<1> QED BY <1>2, <1>3, <1>4, HopMoves

LEMMA RelayMoves ==
  ASSUME GarterIInv, NEW h \in Hops, Relay(h)
  PROVE  Moves(h)
<1> DEFINE x == hop[h]
           out == IF h \in Tapped THEN tap[h].out ELSE bin[h].out
           y == Settle(x, h, out)
<1>1. x \in HopRecords /\ HopOK(h, x, bin[h], tap[h]) /\ x.pc = "run" /\ ~x.settled
  BY DEF GarterIInv, LocalOK, HopOK, Relay, Running
<1>2. x.decision = "open" /\ ~x.restart
  BY <1>1 DEF HopOK
<1>3. out \in Sent
  <2>1. tap[h].out \in Outs /\ bin[h].out \in Outs
    BY DEF GarterIInv, Taps, Bins
  <2> QED BY <2>1 DEF Relay, Ready, Outs
<1>4. hop' = [hop EXCEPT ![h] = y] /\ UNCHANGED <<chain, cancelled, bin, tap>>
  BY DEF Relay, Ready
<1>5. /\ y \in HopRecords /\ y.settled /\ y.pc = x.pc /\ y.aborted = x.aborted
      /\ y.tries = x.tries /\ y.fwd = x.fwd
      /\ IF y.restart THEN y.decision = "open" /\ out = "conflict" /\ Intermediate(h)
                      ELSE y.decision = out
  BY <1>1, <1>2, <1>3, SettleFields
<1>6. out # "open"
  BY <1>3 DEF Sent, Failures
<1> HIDE DEF x, y
<1>7. HopOK(h, y, bin[h], tap[h])
  BY <1>1, <1>5, <1>6 DEF HopOK
<1>8. HopKept(x, y)
  BY <1>1, <1>2, <1>5 DEF HopKept
<1> QED BY <1>4, <1>5, <1>7, <1>8, HopMoves, Zenon DEF x

LEMMA HopPauseMoves ==
  ASSUME GarterIInv, NEW h \in Hops, HopPause(h)
  PROVE  Moves(h)
<1> DEFINE x == hop[h]
           q == [x EXCEPT !.pc = "pick"]
           z == HopOver(x)
<1>1. x \in HopRecords /\ HopOK(h, x, bin[h], tap[h]) /\ x.pc = "pause" /\ x.decision = "open"
  BY DEF GarterIInv, LocalOK, HopOK, HopPause
<1>2. UNCHANGED <<chain, cancelled, bin, tap>>
  BY DEF HopPause
<1>3. hop' = [hop EXCEPT ![h] = z] \/ hop' = [hop EXCEPT ![h] = q]
  BY Zenon DEF HopPause
<1>4. HopOK(h, q, bin[h], tap[h]) /\ HopKept(x, q) /\ q.aborted = x.aborted
  <2> HIDE DEF x
  <2> QED BY <1>1 DEF HopOK, HopKept, HopRecords
<1>5. HopOK(h, z, bin[h], tap[h]) /\ HopKept(x, z) /\ z.aborted = x.aborted
  <2>1. /\ z \in HopRecords /\ z.pc = "over" /\ z.aborted = x.aborted /\ z.decision # "open"
        /\ z.tries = x.tries /\ z.fwd = x.fwd
    BY <1>1, HopOverFields
  <2> HIDE DEF z, x
  <2> QED BY <1>1, <2>1 DEF HopOK, HopKept, z
<1> QED BY <1>2, <1>3, <1>4, <1>5, HopMoves, Zenon

\* What the relay had routed, or routes as the run is over.
LEMMA Settled ==
  ASSUME NEW h \in Hops, NEW x, NEW b, NEW t, HopOK(h, x, b, t), x.pc = "run", NEW out \in Sent,
         x.settled => out = IF h \in Tapped THEN t.out ELSE b.out
  PROVE  LET y == Settle(x, h, out)
         IN /\ y \in HopRecords /\ y.pc = "run" /\ y.aborted = x.aborted
            /\ x.decision # "open" => y.decision = x.decision
            /\ y.tries = x.tries /\ y.fwd = x.fwd
            /\ IF y.restart THEN y.decision = "open" /\ out = "conflict" /\ Intermediate(h)
                            ELSE y.decision = out
<1>1. x \in HopRecords
  BY DEF HopOK
<1>2. CASE x.settled
  <2>1. Settle(x, h, out) = x
    BY <1>2 DEF Settle
  <2> QED BY <1>1, <1>2, <2>1 DEF HopOK
<1>3. CASE ~x.settled
  <2>1. x.decision = "open" /\ ~x.restart
    BY <1>3 DEF HopOK
  <2> QED BY <1>1, <1>3, <2>1, SettleFields
<1> QED BY <1>2, <1>3

LEMMA HopEndsMoves ==
  ASSUME GarterIInv, NEW h \in Hops, HopEnds(h)
  PROVE  Moves(h)
<1> DEFINE x == hop[h]
           b == bin[h]
           t == tap[h]
           out == IF h \in Tapped THEN t.out ELSE b.out
           y == Settle(x, h, out)
           p == [y EXCEPT !.pc = "pause", !.restart = FALSE]
           z == HopOver(y)
<1>1. LocalOK(h, x, b, t) /\ x.pc = "run" /\ ~x.aborted
  BY DEF GarterIInv, HopEnds, Running
<1>2. IF h \in Tapped THEN t.pc = "over" ELSE b.pc = "over"
  BY DEF HopEnds, RunOver
<1>3. hop' = [hop EXCEPT ![h] = IF y.restart THEN p ELSE z] /\ UNCHANGED <<chain, cancelled, bin, tap>>
  BY DEF HopEnds, Ready
<1> HIDE DEF x, b, t
<1>4. ~b.orphan /\ b.pc \in {"idle", "over"}
  BY <1>1, <1>2 DEF LocalOK, TapOK, HopOK
<1>5. out \in Sent /\ (b.held # "none" => out = b.held)
  <2>1. t.out \in Outs /\ b.out \in Outs
    BY <1>1 DEF LocalOK, BinOK, TapOK, Taps, Bins
  <2> QED BY <1>1, <1>2, <2>1 DEF LocalOK, BinOK, TapOK, Outs
<1>6. /\ y \in HopRecords /\ y.pc = "run" /\ y.aborted = x.aborted
      /\ x.decision # "open" => y.decision = x.decision
      /\ y.tries = x.tries /\ y.fwd = x.fwd
      /\ IF y.restart THEN y.decision = "open" /\ out = "conflict" /\ Intermediate(h)
                      ELSE y.decision = out
  BY <1>1, <1>5, Settled DEF LocalOK
<1> HIDE DEF y
<1>7. y.restart => HopOK(h, p, b, t) /\ HopKept(x, p) /\ p.aborted = x.aborted
  <2>1. /\ p \in HopRecords /\ p.pc = "pause" /\ ~p.restart /\ p.decision = y.decision /\ p.aborted = x.aborted
        /\ p.tries = x.tries /\ p.fwd = x.fwd
    BY <1>6, Zenon DEF HopRecords
  <2> HIDE DEF p, out
  <2> QED BY <1>1, <1>4, <1>5, <1>6, <2>1 DEF HopOK, HopKept, LocalOK
<1>8. ~y.restart => HopOK(h, z, b, t) /\ HopKept(x, z) /\ z.aborted = x.aborted
  <2>1. out # "open"
    BY <1>5 DEF Sent, Failures
  <2>2. /\ z \in HopRecords /\ z.pc = "over" /\ z.aborted = x.aborted
        /\ z.decision = IF y.decision = "open" THEN "dropped" ELSE y.decision
        /\ z.tries = x.tries /\ z.fwd = x.fwd
    BY <1>6, HopOverFields
  <2> HIDE DEF z, out
  <2> QED BY <1>1, <1>4, <1>5, <1>6, <2>1, <2>2 DEF HopOK, HopKept, LocalOK
<1> HIDE DEF p, z
<1>9. CASE y.restart
  BY <1>3, <1>7, <1>9, HopMoves, Zenon DEF x, b, t
<1>10. CASE ~y.restart
  BY <1>3, <1>8, <1>10, HopMoves, Zenon DEF x, b, t
<1> QED BY <1>9, <1>10

\* A plugin that is started, or was not: its records are fresh.
LEMMA FreshOK ==
  ASSUME NEW h \in Hops
  PROVE  /\ BinOK(FreshBin(h)) /\ ~FreshBin(h).orphan
         /\ BinOK([IdleBin EXCEPT !.pc = "over", !.out = "dropped"])
         /\ ~[IdleBin EXCEPT !.pc = "over", !.out = "dropped"].orphan
         /\ BinOK(IdleBin) /\ ~IdleBin.orphan /\ IdleBin.pc = "idle" /\ IdleBin.held = "none"
<1>1. BinOK(IdleBin) /\ ~IdleBin.orphan /\ IdleBin.pc = "idle" /\ IdleBin.held = "none"
  BY DEF BinOK, IdleBin, Bins, Outs, Failures
<1>2. /\ BinOK([IdleBin EXCEPT !.pc = "over", !.out = "dropped"])
      /\ ~[IdleBin EXCEPT !.pc = "over", !.out = "dropped"].orphan
  BY Zenon DEF BinOK, IdleBin, Bins, Outs, Failures, Sent
<1>3. BinOK(FreshBin(h)) /\ ~FreshBin(h).orphan
  <2> DEFINE r == Mode[h] # "probe"
             p == Mode[h] # "sitrep"
             f == FreshBin(h)
  <2>1. r \in BOOLEAN /\ p \in BOOLEAN
    OBVIOUS
  <2>2. f = [IdleBin EXCEPT !.pc = "watch", !.child = "alive", !.sender = TRUE, !.reading = r, !.probe = p, !.owns = p]
    BY DEF FreshBin
  <2> HIDE DEF r, p, f
  <2>3. /\ f \in Bins /\ f.pc = "watch" /\ f.sender /\ f.out = "open" /\ f.held = "none" /\ ~f.orphan
    BY <2>1, <2>2, Zenon DEF IdleBin, Bins, Outs
  <2> QED BY <2>3 DEF BinOK, Failures, f
<1> QED BY <1>1, <1>2, <1>3

LEMMA AttemptFields ==
  ASSUME GarterIInv, NEW h \in Hops, Attempt(h), hop[h].pc = "pick"
  PROVE  \E x \in HopRecords :
           /\ hop' = [hop EXCEPT ![h] = x] /\ HopKept(hop[h], x)
           /\ x.pc = "run" /\ ~x.settled /\ x.decision = "open" /\ ~x.restart /\ x.aborted = hop[h].aborted
<1> DEFINE y == hop[h]
           n == y.tries + 1
           x == [y EXCEPT !.pc = "run", !.tries = n, !.settled = FALSE, !.stop = FALSE]
<1>1. y \in HopRecords /\ y.pc = "pick" /\ y.decision = "open" /\ ~y.restart
  BY DEF GarterIInv, LocalOK, HopOK
<1>2. hop' = [hop EXCEPT ![h] = x]
  BY Zenon DEF Attempt, GarterIInv
<1> HIDE DEF y
<1>n. n \in Nat
  BY <1>1 DEF HopRecords
<1> HIDE DEF n
<1>3. /\ x \in HopRecords /\ x.pc = "run" /\ ~x.settled /\ x.decision = "open" /\ ~x.restart
      /\ x.aborted = y.aborted /\ x.fwd = y.fwd
  BY <1>1, <1>n, Zenon DEF HopRecords
<1> HIDE DEF x
<1>4. HopKept(y, x)
  BY <1>1, <1>3 DEF HopKept
<1> QED BY <1>2, <1>3, <1>4, Zenon DEF y

LEMMA HopStartMoves ==
  ASSUME GarterIInv, NEW h \in Hops, HopStart(h)
  PROVE  Moves(h)
<1> DEFINE t == IF h \in Tapped THEN [IdleTap EXCEPT !.pc = "wait"] ELSE tap[h]
<1>1. PICK x \in HopRecords :
           /\ hop' = [hop EXCEPT ![h] = x] /\ HopKept(hop[h], x)
           /\ x.pc = "run" /\ ~x.settled /\ x.decision = "open" /\ ~x.restart /\ x.aborted = hop[h].aborted
  BY AttemptFields DEF HopStart
<1>2. PICK b \in {FreshBin(h), [IdleBin EXCEPT !.pc = "over", !.out = "dropped"]} : bin' = [bin EXCEPT ![h] = b]
  BY Zenon DEF HopStart
<1>3. BinOK(b) /\ ~b.orphan
  BY <1>2, FreshOK, Zenon
<1>4. tap' = [tap EXCEPT ![h] = t] /\ UNCHANGED <<chain, cancelled>> /\ hop[h].pc = "pick"
  BY DEF HopStart
<1>5. TapOK(t, b, x) /\ (h \notin Tapped => t.pc = "idle")
  <2>1. CASE h \in Tapped
    BY <2>1, Zenon DEF TapOK, IdleTap, Taps, Outs
  <2>2. CASE h \notin Tapped
    <3>1. t \in Taps /\ t.pc = "idle" /\ t.out = "open"
      BY <2>2 DEF GarterIInv, LocalOK, HopOK, TapOK
    <3> QED BY <3>1 DEF TapOK
  <2> QED BY <2>1, <2>2
<1> HIDE DEF t
<1>6. HopOK(h, x, b, t)
  BY <1>1, <1>3, <1>5 DEF HopOK
<1>7. Comes(h, x, b, t)
  BY <1>1, <1>2, <1>3, <1>4, <1>5, <1>6 DEF Comes, LocalOK
<1> QED BY <1>7 DEF Moves

LEMMA TapNoPortMoves ==
  ASSUME GarterIInv, NEW h \in Hops, TapNoPort(h)
  PROVE  Moves(h)
<1>1. PICK x \in HopRecords :
           /\ hop' = [hop EXCEPT ![h] = x] /\ HopKept(hop[h], x)
           /\ x.pc = "run" /\ ~x.settled /\ x.decision = "open" /\ ~x.restart /\ x.aborted = hop[h].aborted
  BY AttemptFields DEF TapNoPort
<1>2. PICK out \in {"fatal", "dropped"} : tap' = [tap EXCEPT ![h] = [IdleTap EXCEPT !.pc = "over", !.out = out]]
  BY Zenon DEF TapNoPort
<1> DEFINE t == [IdleTap EXCEPT !.pc = "over", !.out = out]
<1>3. bin' = [bin EXCEPT ![h] = IdleBin] /\ UNCHANGED <<chain, cancelled>> /\ hop[h].pc = "pick" /\ h \in Tapped
  BY DEF TapNoPort
<1>4. BinOK(IdleBin) /\ ~IdleBin.orphan /\ IdleBin.pc = "idle" /\ IdleBin.held = "none"
  BY FreshOK
<1>5. t \in Taps /\ t.pc = "over" /\ t.out # "open"
  BY Zenon DEF IdleTap, Taps, Outs, Sent, Failures
<1> HIDE DEF t
<1>6. TapOK(t, IdleBin, x)
  BY <1>4, <1>5 DEF TapOK
<1>7. HopOK(h, x, IdleBin, t)
  BY <1>1, <1>3, <1>4 DEF HopOK
<1>8. Comes(h, x, IdleBin, t)
  BY <1>1, <1>2, <1>3, <1>4, <1>6, <1>7 DEF Comes, LocalOK, t
<1> QED BY <1>8 DEF Moves

\* A hop that is aborted is over, with what its plugin had said by then.
LEMMA DroppedHop ==
  ASSUME NEW h \in Hops, NEW x, NEW b, NEW t, LocalOK(h, x, b, t), x.pc \notin {"idle", "over"},
         NEW out \in Outs, x.pc = "run" /\ x.settled => out = IF h \in Tapped THEN t.out ELSE b.out
  PROVE  LET y == IF x.pc = "run" THEN Settle(x, h, out) ELSE x
             z == HopOver(y)
         IN /\ z \in HopRecords /\ z.pc = "over" /\ z.aborted = x.aborted /\ z.decision # "open"
            /\ x.pc = "run" /\ out \in Failures => z.decision = out \/ (out = "conflict" /\ Intermediate(h))
            /\ HopKept(x, z)
<1> DEFINE y == IF x.pc = "run" THEN Settle(x, h, out) ELSE x
           z == HopOver(y)
<1>1. x \in HopRecords
  BY DEF LocalOK, HopOK
<1>2. /\ y \in HopRecords /\ y.aborted = x.aborted /\ y.tries = x.tries /\ y.fwd = x.fwd
      /\ x.decision # "open" => y.decision = x.decision
      /\ x.pc = "run" /\ out # "open" => y.decision = out \/ (out = "conflict" /\ Intermediate(h))
  <2>1. CASE x.pc # "run"
    BY <1>1, <2>1
  <2>2. CASE x.pc = "run" /\ out = "open"
    <3>1. Settle(x, h, out) = x
      BY <2>2 DEF Settle
    <3> QED BY <1>1, <2>2, <3>1
  <2>3. CASE x.pc = "run" /\ out # "open"
    <3>1. out \in Sent
      BY <2>3 DEF Outs
    <3> QED BY <2>3, <3>1, Settled DEF LocalOK
  <2> QED BY <2>1, <2>2, <2>3
<1> HIDE DEF y
<1>3. /\ z \in HopRecords /\ z.pc = "over" /\ z.aborted = y.aborted
      /\ z.decision = IF y.decision = "open" THEN "dropped" ELSE y.decision
      /\ z.tries = y.tries /\ z.fwd = y.fwd
  BY <1>2, HopOverFields
<1> HIDE DEF z
<1>4. HopKept(x, z)
  BY <1>2, <1>3 DEF HopKept
<1>5. x.pc = "run" /\ out \in Failures => z.decision = out \/ (out = "conflict" /\ Intermediate(h))
  BY <1>2, <1>3 DEF Failures
<1> QED BY <1>2, <1>3, <1>4, <1>5 DEF y, z

LEMMA HopDroppedMoves ==
  ASSUME GarterIInv, NEW h \in Hops, HopDropped(h)
  PROVE  Moves(h)
<1> DEFINE x == hop[h]
           b == bin[h]
           t == tap[h]
           c == IF h \notin Tapped THEN DroppedBin(b) ELSE [b EXCEPT !.orphan = b.pc \notin {"idle", "over"}]
           u == DroppedTap(t)
           out == IF h \in Tapped THEN u.out ELSE c.out
           z == HopOver(IF x.pc = "run" THEN Settle(x, h, out) ELSE x)
<1>1. LocalOK(h, x, b, t) /\ x.aborted /\ x.pc \notin {"idle", "over"}
  BY DEF GarterIInv, HopDropped, LocalOK, HopOK
<1>2. ~b.orphan
  BY <1>1 DEF LocalOK, HopOK
<1>3. bin' = [bin EXCEPT ![h] = c] /\ tap' = [tap EXCEPT ![h] = u] /\ UNCHANGED <<chain, cancelled>>
  BY DEF HopDropped
<1>4. bin'[h] = c /\ tap'[h] = u
  BY <1>3 DEF GarterIInv
<1>5. hop' = [hop EXCEPT ![h] = z]
  <2> DEFINE said == IF h \in Tapped THEN tap'[h].out ELSE bin'[h].out
  <2>1. said = out
    BY <1>4
  <2>2. hop' = [hop EXCEPT ![h] = HopOver(IF x.pc = "run" THEN Settle(x, h, said) ELSE x)]
    BY DEF HopDropped
  <2> HIDE DEF said, out
  <2> QED BY <2>1, <2>2
<1> HIDE DEF x, b, t
<1>6. /\ u \in Taps /\ (t.out # "open" => u.out = t.out)
      /\ IF t.pc = "idle" THEN u = t ELSE u.pc = "over" /\ u.out # "open"
  <2>1. t \in Taps /\ (t.pc = "over" => t.out # "open")
    BY <1>1 DEF LocalOK, TapOK
  <2>2. CASE t.pc \in {"idle", "over"}
    BY <2>1, <2>2 DEF DroppedTap
  <2>3. CASE t.pc \notin {"idle", "over"}
    <3> DEFINE o == IF t.out = "open" THEN "dropped" ELSE t.out
    <3>1. o \in Outs /\ o # "open" /\ (t.out # "open" => o = t.out)
      BY <2>1 DEF Taps, Outs, Sent
    <3>2. u = [t EXCEPT !.pc = "over", !.out = o]
      BY <2>3 DEF DroppedTap
    <3> HIDE DEF o, u
    <3> QED BY <2>1, <2>3, <3>1, <3>2, Zenon DEF Taps
  <2> QED BY <2>2, <2>3
<1>7. /\ BinOK(c) /\ c.held = b.held /\ (b.out # "open" => c.out = b.out) /\ (Live(c) => Live(b))
      /\ IF h \in Tapped THEN c.pc \in {"idle", "over"} \/ c.orphan ELSE ~c.orphan /\ c.pc \in {"idle", "over"}
      /\ b.pc \in {"idle", "over"} => c.pc = b.pc
  <2>1. BinOK(b)
    BY <1>1 DEF LocalOK
  <2>2. CASE h \notin Tapped /\ b.pc \in {"idle", "over"}
    BY <1>2, <2>1, <2>2 DEF DroppedBin
  <2>3. CASE h \notin Tapped /\ b.pc \notin {"idle", "over"}
    BY <2>1, <2>3, DeliveredOK DEF Live
  <2>4. CASE h \in Tapped
    <3> DEFINE o == b.pc \notin {"idle", "over"}
    <3>1. c = [b EXCEPT !.orphan = o] /\ o \in BOOLEAN
      BY <2>4
    <3>2. o <=> b.pc \notin {"idle", "over"}
      OBVIOUS
    <3> HIDE DEF c, o
    <3>3. /\ c \in Bins /\ c.orphan = o /\ c.pc = b.pc /\ c.child = b.child /\ c.reading = b.reading /\ c.probe = b.probe
          /\ c.sender = b.sender /\ c.held = b.held /\ c.out = b.out /\ c.refused = b.refused
      BY <2>1, <3>1 DEF BinOK, Bins
    <3>4. BinOK(c)
      BY <2>1, <3>2, <3>3 DEF BinOK
    <3> QED BY <1>2, <2>4, <3>2, <3>3, <3>4 DEF Live
  <2> QED BY <2>2, <2>3, <2>4
<1> HIDE DEF c, u
<1>8. out \in Outs /\ (x.pc = "run" /\ x.settled => out = IF h \in Tapped THEN t.out ELSE b.out)
  <2>1. out \in Outs
    BY <1>6, <1>7 DEF BinOK, Bins, Taps
  <2> QED BY <1>1, <1>6, <1>7, <2>1 DEF LocalOK, HopOK
<1> HIDE DEF out
<1>9. /\ z \in HopRecords /\ z.pc = "over" /\ z.aborted = x.aborted /\ z.decision # "open"
      /\ x.pc = "run" /\ out \in Failures => z.decision = out \/ (out = "conflict" /\ Intermediate(h))
      /\ HopKept(x, z)
  BY <1>1, <1>8, DroppedHop, Zenon
<1> HIDE DEF z
<1>10. TapOK(u, c, z)
  <2>1. CASE t.pc = "idle"
    BY <1>1, <1>6, <2>1 DEF LocalOK, TapOK
  <2>2. CASE t.pc # "idle"
    <3>1. h \in Tapped
      BY <1>1, <2>2 DEF LocalOK, HopOK
    <3> QED BY <1>1, <1>6, <1>7, <1>9, <2>2, <3>1 DEF TapOK
  <2> QED BY <2>1, <2>2
<1>11. ASSUME c.held # "none", h \notin Tapped
       PROVE  z.decision = c.held \/ (c.held = "conflict" /\ Intermediate(h))
  <2>1. CASE x.pc = "run"
    <3>1. c.pc = "over" /\ c.out = c.held /\ c.held \in Failures
      BY <1>7, <1>11 DEF BinOK, Bins
    <3> QED BY <1>9, <1>11, <2>1, <3>1 DEF out
  <2>2. CASE x.pc # "run"
    <3>1. x.pc \in {"pick", "pause"}
      BY <1>1, <2>2 DEF LocalOK, HopOK, HopRecords
    <3> QED BY <1>1, <1>7, <1>11, <3>1 DEF LocalOK, HopOK
  <2> QED BY <2>1, <2>2
<1>12. HopOK(h, z, c, u)
  <2>1. h \notin Tapped => u.pc = "idle"
    BY <1>1, <1>6 DEF LocalOK, HopOK
  <2> QED BY <1>1, <1>7, <1>9, <1>11, <2>1 DEF HopOK
<1>13. Comes(h, z, c, u)
  BY <1>3, <1>5, <1>7, <1>9, <1>10, <1>12 DEF Comes, LocalOK, x, b
<1> QED BY <1>13 DEF Moves

-----------------------------------------------------------------------------
(* The runner's steps.                                                     *)

\* A hop that is launched: where it forwards to is settled.
LEMMA LaunchedFields ==
  ASSUME NEW hs \in [Hops -> HopRecords], NEW h \in Hops
  PROVE  \E x \in HopRecords :
            /\ Launched(hs, h) = [hs EXCEPT ![h] = x] /\ x.pc = "pick" /\ x.decision = hs[h].decision /\ x.restart = hs[h].restart
            /\ x.aborted = hs[h].aborted /\ x.settled = hs[h].settled /\ x.tries = hs[h].tries
            /\ x.fwd = IF h = 1 THEN 0 ELSE hs[h - 1].tries
<1> DEFINE f == IF h = 1 THEN 0 ELSE hs[h - 1].tries
           x == [hs[h] EXCEPT !.pc = "pick", !.fwd = f]
<1>1. f \in Nat
  BY GarterAssumption DEF Hops, HopRecords
<1>2. Launched(hs, h) = [hs EXCEPT ![h] = x]
  BY Zenon DEF Launched
<1> HIDE DEF f
<1>3. hs[h] \in HopRecords
  OBVIOUS
<1>4. /\ x \in HopRecords /\ x.pc = "pick" /\ x.decision = hs[h].decision /\ x.restart = hs[h].restart
      /\ x.aborted = hs[h].aborted /\ x.settled = hs[h].settled /\ x.tries = hs[h].tries /\ x.fwd = f
  BY <1>1, <1>3, Zenon DEF HopRecords
<1> QED BY <1>2, <1>4, Zenon DEF f

LEMMA ChainInitIInv == ChainInit => GarterIInv
<1> SUFFICES ASSUME ChainInit PROVE GarterIInv
  OBVIOUS
<1> DEFINE hs == [h \in Hops |-> IdleHop]
<1>1. 1 \in Hops
  BY GarterAssumption DEF Hops
<1>2. IdleHop \in HopRecords /\ IdleHop.pc = "idle" /\ IdleHop.decision = "open" /\ ~IdleHop.restart /\ ~IdleHop.aborted
  BY DEF IdleHop, HopRecords, Outs
<1>3. hs \in [Hops -> HopRecords] /\ hs[1] = IdleHop
  BY <1>1, <1>2
<1>4. PICK x : /\ hop = [hs EXCEPT ![1] = x]
               /\ x \in HopRecords /\ x.pc = "pick" /\ x.decision = hs[1].decision /\ x.restart = hs[1].restart
               /\ x.aborted = hs[1].aborted
  <2>1. hop = Launched(hs, 1)
    BY DEF ChainInit
  <2> HIDE DEF hs
  <2> QED BY <1>1, <1>3, <2>1, LaunchedFields
<1>5. /\ hop \in [Hops -> HopRecords] /\ hop[1] = x /\ \A h \in Hops : h # 1 => hop[h] = IdleHop
  BY <1>1, <1>2, <1>3, <1>4
<1>6. BinOK(IdleBin) /\ ~IdleBin.orphan /\ IdleBin.pc = "idle" /\ IdleBin.held = "none"
  BY <1>1, FreshOK
<1>7. IdleTap \in Taps /\ IdleTap.pc = "idle" /\ IdleTap.out = "open"
  BY DEF IdleTap, Taps, Outs
<1>8. ASSUME NEW y \in HopRecords
      PROVE  TapOK(IdleTap, IdleBin, y)
  BY <1>7 DEF TapOK
<1>9. ASSUME NEW h \in Hops, NEW y \in {IdleHop, x}
      PROVE  HopOK(h, y, IdleBin, IdleTap)
  BY <1>2, <1>3, <1>4, <1>6, <1>7 DEF HopOK
<1>10. /\ bin \in [Hops -> Bins] /\ \A h \in Hops : bin[h] = IdleBin
       /\ tap \in [Hops -> Taps] /\ \A h \in Hops : tap[h] = IdleTap
  BY <1>6, <1>7 DEF ChainInit, BinOK
<1>11. ASSUME NEW h \in Hops
       PROVE  LocalOK(h, hop[h], bin[h], tap[h])
  BY <1>5, <1>6, <1>8, <1>9, <1>10, <1>2, <1>4 DEF LocalOK
<1>12. ChainOK(1)
  <2>1. chain \in Chains /\ cancelled = FALSE
    BY <1>1 DEF ChainInit, Chains
  <2>2. Told(1, "open")
    BY DEF Told, ChainInit, Failures
  <2>3. /\ \A h \in Hops : hop[h].pc # "idle" <=> h <= 1
        /\ \A h \in Hops : ~(h < 1)
        /\ \A h \in 2 .. N : ~(h <= 1)
    BY <1>2, <1>4, <1>5 DEF Hops
  <2>4. hop[1].decision = "open"
    BY <1>2, <1>3, <1>4, <1>5
  <2> QED BY <2>1, <2>2, <2>3, <2>4, Zenon DEF ChainOK, ChainInit
<1> QED BY <1>1, <1>5, <1>10, <1>11, <1>12 DEF GarterIInv

\* The runner's steps that leave the hops alone.
LEMMA RunnerOnly ==
  ASSUME GarterIInv, NEW k \in Hops, ChainOK(k), UNCHANGED <<hop, bin, tap>>,
         chain' \in Chains, cancelled' \in BOOLEAN,
         chain'.joined \subseteq {h \in Hops : hop[h].pc = "over"},
         chain'.pc = "done" => \A h \in Hops : hop[h].pc \in {"idle", "over"},
         Told(k, hop[k].decision)'
  PROVE  GarterIInv' /\ ChainOK(k)'
<1>1. ChainOK(k)'
  BY DEF ChainOK
<1> QED BY <1>1 DEF GarterIInv

LEMMA BreakKeeps ==
  ASSUME GarterIInv, NEW k \in Hops, ChainOK(k), Break
  PROVE  GarterIInv' /\ ChainOK(k)'
<1>1. chain' \in Chains /\ cancelled' \in BOOLEAN /\ chain'.joined = chain.joined /\ chain'.pc = "drain"
  BY Zenon DEF Break, ChainOK, Chains
<1>2. Told(k, hop[k].decision)'
  <2>1. /\ chain'.unread = chain.pending /\ chain'.pending = 0 /\ chain'.failure = chain.failure
        /\ chain'.verdict = chain.verdict /\ chain.pc = "loop" /\ cancelled /\ cancelled' = cancelled /\ hop' = hop
    BY DEF Break, ChainOK, Chains
  <2>2. Told(k, hop[k].decision)
    BY DEF ChainOK
  <2> QED BY <1>1, <2>1, <2>2 DEF Told, Hops
<1> QED BY <1>1, <1>2, RunnerOnly DEF Break, ChainOK

LEMMA JoinKeeps ==
  ASSUME GarterIInv, NEW k \in Hops, ChainOK(k), NEW h \in Hops, Join(h)
  PROVE  GarterIInv' /\ ChainOK(k)'
<1>1. /\ chain' \in Chains /\ chain'.joined = chain.joined \cup {h} /\ chain'.pc = chain.pc
      /\ chain'.pending = chain.pending /\ chain'.unread = chain.unread /\ chain'.failure = chain.failure
      /\ chain'.verdict = chain.verdict /\ cancelled' = TRUE /\ hop[h].pc = "over" /\ hop' = hop
  BY DEF Join, ChainOK, Chains
<1>2. Told(k, hop[k].decision)'
  BY <1>1, Zenon DEF ChainOK, Told
<1> QED BY <1>1, <1>2, RunnerOnly, Zenon DEF Join, ChainOK

LEMMA CancelKeeps ==
  ASSUME GarterIInv, NEW k \in Hops, ChainOK(k), Cancel
  PROVE  GarterIInv' /\ ChainOK(k)'
<1>1. Told(k, hop[k].decision)'
  BY DEF ChainOK, Told, Cancel
<1> QED BY <1>1, RunnerOnly DEF Cancel, ChainOK

LEMMA ReleaseKeeps ==
  ASSUME GarterIInv, NEW k \in Hops, ChainOK(k), Release
  PROVE  /\ GarterIInv' /\ ChainOK(k)' /\ \A h \in Hops : hop[h].pc \in {"idle", "over"}
         /\ IF chain.verdict = "ready" THEN chain'.verdict = "ready" ELSE chain'.verdict \in {"closed"} \cup Failures
<1> DEFINE d == hop[k].decision
           v == IF chain.verdict # "none" THEN chain.verdict ELSE IF GateFailure # "none" THEN GateFailure ELSE "closed"
<1>1. Told(k, d) /\ chain \in Chains /\ chain.pc = "drain"
  BY DEF ChainOK, Release
<1>2. /\ v \in {"ready", "closed"} \cup Failures /\ (v = "ready" <=> chain.verdict = "ready")
      /\ d \in Failures => v = d
  <2>1. chain.verdict \in {"none", "ready"} /\ (chain.verdict = "ready" => d = "ok") /\ chain.pending = 0
    BY <1>1 DEF Told
  <2>2. chain.failure \in {"none"} \cup Failures
    BY <1>1 DEF Chains
  <2>3. GateFailure \in {"none"} \cup Failures
    BY <2>2 DEF GateFailure
  <2>4. d \in Failures => GateFailure = d
    <3>1. CASE chain.unread = k
      BY <1>1, <3>1 DEF GateFailure, Told
    <3>2. CASE chain.unread = 0
      BY <1>1, <2>1, <3>2 DEF GateFailure, Told, Failures
    <3> QED BY <1>1, <3>1, <3>2 DEF Told
  <2> HIDE DEF d
  <2> QED BY <2>1, <2>3, <2>4 DEF Failures
<1>3. chain' = [chain EXCEPT !.pc = "done", !.failure = "none", !.unread = 0, !.verdict = v]
  BY DEF Release
<1> HIDE DEF v, d
<1>4. /\ chain' \in Chains /\ chain'.joined = chain.joined /\ chain'.pc = "done" /\ chain'.pending = chain.pending
      /\ chain'.unread = 0 /\ chain'.failure = "none" /\ chain'.verdict = v
  BY <1>1, <1>2, <1>3, Zenon DEF Chains
<1>5. Told(k, hop[k].decision)'
  <2>1. cancelled' = cancelled /\ hop' = hop
    BY DEF Release
  <2>2. k # 0
    BY DEF Hops
  <2> QED BY <1>1, <1>2, <1>4, <2>1, <2>2 DEF Told, d, Failures
<1>6. ASSUME NEW h \in Hops
      PROVE  hop[h].pc \in {"idle", "over"}
  BY DEF Release, Unjoined, ChainOK
<1>7. GarterIInv' /\ ChainOK(k)'
  BY <1>4, <1>5, <1>6, RunnerOnly DEF Release, ChainOK
<1> QED BY <1>2, <1>4, <1>6, <1>7

\* Hops that still run are aborted, by the drain's bound or with the runner.
LEMMA AbortKeeps ==
  ASSUME GarterIInv, NEW k \in Hops, ChainOK(k), chain.pc \in {"loop", "drain"},
         hop' = [h \in Hops |-> IF h \in Undone THEN [hop[h] EXCEPT !.aborted = TRUE] ELSE hop[h]],
         chain' \in {chain, [chain EXCEPT !.pc = "dropped"]}, chain'.pc # "loop",
         cancelled' \in BOOLEAN, cancelled', UNCHANGED <<bin, tap>>
  PROVE  GarterIInv' /\ ChainOK(k)' /\ \A h \in Hops : hop'[h].pc = hop[h].pc
<1>1. ASSUME NEW h \in Hops
      PROVE  /\ hop'[h] \in HopRecords /\ hop'[h].pc = hop[h].pc /\ hop'[h].decision = hop[h].decision
             /\ hop'[h].restart = hop[h].restart /\ hop'[h].settled = hop[h].settled /\ hop'[h].tries = hop[h].tries
             /\ hop'[h].fwd = hop[h].fwd /\ (hop[h].aborted => hop'[h].aborted)
             /\ hop[h].pc \in {"idle", "over"} => hop'[h] = hop[h]
  <2>1. hop[h] \in HopRecords
    BY DEF GarterIInv
  <2>2. CASE h \in Undone
    <3>1. hop'[h] = [hop[h] EXCEPT !.aborted = TRUE] /\ hop[h].pc \notin {"idle", "over"}
      BY <2>2 DEF Undone
    <3> QED BY <2>1, <3>1, Zenon DEF HopRecords
  <2>3. CASE h \notin Undone
    BY <2>1, <2>3
  <2> QED BY <2>2, <2>3
<1>2. hop' \in [Hops -> HopRecords]
  BY <1>1
<1>3. ASSUME NEW h \in Hops
      PROVE  LocalOK(h, hop'[h], bin[h], tap[h])
  <2> DEFINE x == hop[h]
             y == hop'[h]
             b == bin[h]
             t == tap[h]
  <2>1. LocalOK(h, x, b, t)
    BY DEF GarterIInv
  <2>2. /\ y \in HopRecords /\ y.pc = x.pc /\ y.decision = x.decision
        /\ y.restart = x.restart /\ y.settled = x.settled
        /\ (x.aborted => y.aborted) /\ (x.pc \in {"idle", "over"} => y = x)
    BY <1>1
  <2> HIDE DEF x, y, b, t
  <2>3. TapOK(t, b, y)
    BY <2>1, <2>2 DEF LocalOK, TapOK
  <2>4. HopOK(h, y, b, t)
    <3>1. CASE x.pc \in {"idle", "over"}
      BY <2>1, <2>2, <3>1 DEF LocalOK
    <3>2. CASE x.pc \notin {"idle", "over"}
      BY <2>1, <2>2, <3>2 DEF LocalOK, HopOK
    <3> QED BY <3>1, <3>2
  <2>5. BinOK(b)
    BY <2>1 DEF LocalOK
  <2> QED BY <2>3, <2>4, <2>5 DEF LocalOK, y, b, t
<1>4. /\ chain' \in Chains /\ chain'.joined = chain.joined /\ chain'.pending = chain.pending
      /\ chain'.unread = chain.unread /\ chain'.failure = chain.failure /\ chain'.verdict = chain.verdict
      /\ chain'.pc \in {chain.pc, "dropped"}
  BY DEF ChainOK, Chains
<1>5. ChainOK(k)'
  <2>1. Told(k, hop[k].decision)'
    <3>1. Told(k, hop[k].decision) /\ hop'[k].decision = hop[k].decision
      BY <1>1 DEF ChainOK
    <3> QED BY <1>4, <3>1 DEF Told
  <2>2. \A h \in 2 .. N : h <= k => hop'[h].fwd = hop'[h - 1].tries
    BY <1>1, GarterAssumption DEF ChainOK, Hops
  <2> QED BY <1>1, <1>4, <2>1, <2>2 DEF ChainOK
<1> QED BY <1>1, <1>2, <1>3, <1>5 DEF GarterIInv

LEMMA DrainExpiresKeeps ==
  ASSUME GarterIInv, NEW k \in Hops, ChainOK(k), DrainExpires
  PROVE  GarterIInv' /\ ChainOK(k)' /\ \A h \in Hops : hop'[h].pc = hop[h].pc
<1>1. cancelled /\ cancelled \in BOOLEAN
  BY DEF DrainExpires, ChainOK, Told
<1> QED BY <1>1, AbortKeeps DEF DrainExpires

LEMMA DropRunnerKeeps ==
  ASSUME GarterIInv, NEW k \in Hops, ChainOK(k), DropRunner
  PROVE  GarterIInv' /\ ChainOK(k)' /\ \A h \in Hops : hop'[h].pc = hop[h].pc
<1>1. chain'.pc = "dropped"
  BY DEF DropRunner, ChainOK, Chains
<1> QED BY <1>1, AbortKeeps DEF DropRunner

\* What judge says of a decision.
LEMMA JudgeIs ==
  ASSUME NEW d \in Sent, cancelled \in BOOLEAN
  PROVE  /\ Judge(d) \in {"ready", "preempted"} \cup Failures
         /\ Judge(d) = "ready" <=> d = "ok" /\ ~cancelled
         /\ d \in Failures => Judge(d) = d
         /\ Judge(d) = "preempted" => cancelled
<1>1. CASE d \in Failures
  BY <1>1 DEF Judge, Failures
<1>2. CASE d \in {"ok", "dropped"} /\ cancelled
  BY <1>2 DEF Judge, Failures
<1>3. CASE d = "dropped" /\ ~cancelled
  BY <1>3 DEF Judge, Failures
<1>4. CASE d = "ok" /\ ~cancelled
  BY <1>4 DEF Judge, Failures
<1> QED BY <1>1, <1>2, <1>3, <1>4 DEF Sent

\* The loop takes hop k's decision, and goes on to the next hop, says that the
\* chain is up, or keeps the failure.
LEMMA AdvanceKeeps ==
  ASSUME GarterIInv, NEW k \in Hops, ChainOK(k), Advance
  PROVE  /\ GarterIInv'
         /\ \/ /\ k < N /\ ChainOK(k + 1)' /\ ~cancelled /\ cancelled' = cancelled
               /\ chain'.verdict = chain.verdict /\ chain.verdict = "none" /\ chain'.pc = chain.pc
            \/ /\ k = N /\ ChainOK(k)' /\ ~cancelled /\ cancelled' = cancelled
               /\ chain'.verdict = "ready" /\ chain.verdict = "none" /\ chain'.pc = chain.pc
            \/ ChainOK(k)' /\ cancelled' /\ chain'.verdict = chain.verdict /\ chain'.pc = chain.pc
<1> DEFINE d == hop[k].decision
           v == Judge(d)
<1>1. chain \in Chains /\ cancelled \in BOOLEAN /\ Told(k, d) /\ chain.pc = "loop" /\ chain.pending = k
  BY DEF ChainOK, Advance, Told
<1>2. d \in Sent
  BY <1>1 DEF Advance, GarterIInv, HopRecords, Outs
<1>3. /\ v \in {"ready", "preempted"} \cup Failures /\ (v = "ready" <=> d = "ok" /\ ~cancelled)
      /\ (d \in Failures => v = d) /\ (v = "preempted" => cancelled)
  BY <1>1, <1>2, JudgeIs
<1>4. /\ cancelled' = (cancelled \/ v \in Failures)
      /\ hop' = IF v = "ready" /\ k < N THEN Launched(hop, k + 1) ELSE hop
      /\ chain' = [chain EXCEPT !.pending = IF v = "ready" /\ k < N THEN k + 1 ELSE 0,
                                !.verdict = IF v = "ready" /\ k = N THEN "ready" ELSE @,
                                !.failure = IF v \in Failures THEN v ELSE @]
      /\ UNCHANGED <<bin, tap>>
  BY <1>1 DEF Advance
<1>5. k \in Nat /\ k >= 1 /\ k <= N
  BY GarterAssumption DEF Hops
<1>6. ~(v = "ready" /\ v \in Failures) /\ ~(v = "preempted" /\ v \in Failures)
  BY DEF Failures
<1> HIDE DEF v
<1>7. CASE v = "ready" /\ k < N
  <2> DEFINE n == k + 1
  <2>1. n \in Hops /\ n # k /\ n # 1 /\ n - 1 = k /\ n # 0
    BY <1>5, <1>7, GarterAssumption DEF Hops
  <2>2. /\ chain' = [chain EXCEPT !.pending = n, !.verdict = chain.verdict, !.failure = chain.failure]
        /\ cancelled' = cancelled /\ hop' = Launched(hop, n)
    <3>1. v \notin Failures /\ k # N
      BY <1>5, <1>6, <1>7, GarterAssumption
    <3>2. cancelled' = cancelled
      BY <1>1, <1>4, <3>1
    <3>3. chain' = [chain EXCEPT !.pending = n, !.verdict = chain.verdict, !.failure = chain.failure]
      BY <1>4, <1>7, <3>1
    <3> QED BY <1>4, <1>7, <3>2, <3>3
  <2> HIDE DEF n
  <2>3. /\ chain' \in Chains /\ chain'.pending = n /\ chain'.verdict = chain.verdict /\ chain'.failure = chain.failure
        /\ chain'.unread = chain.unread /\ chain'.pc = chain.pc /\ chain'.joined = chain.joined
    BY <1>1, <2>1, <2>2, Zenon DEF Chains
  <2>4. hop \in [Hops -> HopRecords]
    BY DEF GarterIInv
  <2>5. PICK x : /\ hop' = [hop EXCEPT ![n] = x]
                 /\ x \in HopRecords /\ x.pc = "pick" /\ x.decision = hop[n].decision /\ x.restart = hop[n].restart
                 /\ x.aborted = hop[n].aborted /\ x.settled = hop[n].settled /\ x.fwd = hop[n - 1].tries
    BY <2>1, <2>2, <2>4, LaunchedFields
  <2>6. hop[n].pc = "idle" /\ HopOK(n, hop[n], bin[n], tap[n]) /\ TapOK(tap[n], bin[n], hop[n]) /\ BinOK(bin[n])
    <3>1. ~(n <= k)
      BY <1>5 DEF n
    <3> QED BY <2>1, <3>1 DEF ChainOK, GarterIInv, LocalOK
  <2>7. hop'[n] = x /\ hop' \in [Hops -> HopRecords] /\ \A h \in Hops : h # n => hop'[h] = hop[h]
    BY <2>1, <2>4, <2>5
  <2>8. LocalOK(n, x, bin[n], tap[n])
    <3>1. HopOK(n, x, bin[n], tap[n])
      BY <2>5, <2>6, Zenon DEF HopOK
    <3>2. TapOK(tap[n], bin[n], x)
      BY <2>5, <2>6 DEF TapOK
    <3> QED BY <2>6, <3>1, <3>2 DEF LocalOK
  <2>9. ASSUME NEW h \in Hops
        PROVE  LocalOK(h, hop'[h], bin[h], tap[h])
    BY <2>7, <2>8 DEF GarterIInv
  <2>10. x.decision = "open"
    BY <2>5, <2>6 DEF HopOK
  <2>11. ChainOK(n)'
    <3>1. Told(n, hop[n].decision)'
      <4>1. chain.unread = 0 /\ chain.failure = "none" /\ chain.verdict = "none"
        BY <1>1 DEF Told
      <4> QED BY <1>1, <2>1, <2>3, <2>7, <2>10, <4>1 DEF Told, Failures
    <3>2. \A h \in Hops : h <= n <=> h <= k \/ h = n
      BY <1>5 DEF Hops, n
    <3>3. \A h \in Hops : h < n <=> h < k \/ h = k
      BY <1>5 DEF Hops, n
    <3>4. /\ \A h \in Hops : hop'[h].pc # "idle" <=> h <= n
          /\ \A h \in Hops : h < n => hop'[h].decision = "ok"
      BY <1>3, <1>7, <2>1, <2>5, <2>7, <3>2, <3>3 DEF ChainOK
    <3>5. \A h \in 2 .. N : h <= n => hop'[h].fwd = hop'[h - 1].tries
      <4>1. ASSUME NEW h \in 2 .. N, h <= n
            PROVE  hop'[h].fwd = hop'[h - 1].tries
        <5>1. h \in Hops /\ h - 1 \in Hops /\ h - 1 # n
          BY <1>5, <4>1, GarterAssumption DEF Hops, n
        <5>2. CASE h = n
          BY <2>1, <2>5, <2>7, <5>1, <5>2
        <5>3. CASE h # n
          BY <2>7, <3>2, <4>1, <5>1, <5>3 DEF ChainOK
        <5> QED BY <5>2, <5>3
      <4> QED BY <4>1
    <3>6. chain.joined \subseteq {h \in Hops : hop'[h].pc = "over"}
      BY <2>6, <2>7 DEF ChainOK
    <3> QED BY <1>1, <2>1, <2>2, <2>3, <3>1, <3>4, <3>5, <3>6 DEF ChainOK
  <2>12. GarterIInv'
    BY <1>4, <2>1, <2>7, <2>9, <2>11 DEF GarterIInv
  <2>13. chain.verdict = "none"
    BY <1>1 DEF Told
  <2> QED BY <1>3, <1>7, <2>2, <2>3, <2>11, <2>12, <2>13 DEF n
<1>8. CASE v = "ready" /\ k = N
  <2>1. /\ chain' = [chain EXCEPT !.pending = 0, !.verdict = "ready", !.failure = chain.failure]
        /\ cancelled' = cancelled /\ hop' = hop
    <3>1. v \notin Failures /\ ~(k < N)
      BY <1>5, <1>6, <1>8, GarterAssumption
    <3>2. cancelled' = cancelled
      BY <1>1, <1>4, <3>1
    <3>3. chain' = [chain EXCEPT !.pending = 0, !.verdict = "ready", !.failure = chain.failure]
      BY <1>4, <1>8, <3>1
    <3> QED BY <1>4, <1>8, <3>1, <3>2, <3>3
  <2>2. /\ chain' \in Chains /\ chain'.pending = 0 /\ chain'.verdict = "ready" /\ chain'.failure = chain.failure
        /\ chain'.unread = chain.unread /\ chain'.pc = chain.pc /\ chain'.joined = chain.joined
    BY <1>1, <2>1, Zenon DEF Chains
  <2>3. Told(k, hop[k].decision)'
    BY <1>1, <1>3, <1>5, <1>8, <2>1, <2>2 DEF Told, Failures
  <2>4. GarterIInv' /\ ChainOK(k)'
    BY <1>1, <1>4, <2>1, <2>2, <2>3, RunnerOnly DEF ChainOK
  <2>5. chain.verdict = "none"
    BY <1>1 DEF Told
  <2> QED BY <1>3, <1>8, <2>1, <2>2, <2>4, <2>5
<1>9. CASE v # "ready"
  <2> DEFINE f == IF v \in Failures THEN v ELSE chain.failure
  <2>1. /\ chain' = [chain EXCEPT !.pending = 0, !.verdict = chain.verdict, !.failure = f]
        /\ cancelled' = TRUE /\ hop' = hop
    BY <1>1, <1>3, <1>4, <1>9, Zenon
  <2>2. f \in {"none"} \cup Failures
    BY <1>1 DEF Chains
  <2> HIDE DEF f
  <2>3. /\ chain' \in Chains /\ chain'.pending = 0 /\ chain'.verdict = chain.verdict /\ chain'.failure = f
        /\ chain'.unread = chain.unread /\ chain'.pc = chain.pc /\ chain'.joined = chain.joined
    BY <1>1, <2>1, <2>2, Zenon DEF Chains
  <2>4. d \in Failures => f = d
    BY <1>3 DEF f
  <2>5. d # "open"
    BY <1>2 DEF Sent, Failures
  <2>6. Told(k, hop[k].decision)'
    BY <1>1, <1>5, <2>1, <2>3, <2>4, <2>5 DEF Told
  <2>7. GarterIInv' /\ ChainOK(k)'
    BY <1>1, <1>4, <2>1, <2>3, <2>6, RunnerOnly DEF ChainOK
  <2> QED BY <2>1, <2>3, <2>7
<1>10. k < N \/ k = N
  BY <1>5, GarterAssumption
<1> QED BY <1>7, <1>8, <1>9, <1>10

-----------------------------------------------------------------------------
(* The invariant, and what follows from it.                                *)

\* The steps of hop h and of what it runs.
LocalSteps(h) ==
  HopSteps(h) \/ BinSteps(h) \/ TapSteps(h) \/ ReadLine(h) \/ Eof(h) \/ Probe(h) \/ ChildExits(h)

LEMMA LocalMoves ==
  ASSUME GarterIInv, NEW h \in Hops, LocalSteps(h)
  PROVE  Moves(h)
<1>1. CASE HopSteps(h)
  BY <1>1, HopStartMoves, HopNoPortMoves, TapNoPortMoves, RelayMoves, HopEndsMoves, HopPauseMoves, HopDroppedMoves
  DEF HopSteps
<1>2. CASE BinSteps(h)
  BY <1>2, SuperviseMoves, GraceMoves, KillMoves, DrainMoves, InnerDroppedMoves DEF BinSteps
<1>3. CASE TapSteps(h)
  BY <1>3, TapWaitMoves, TapLostMoves, TapBindMoves, TapServeMoves, TapStopInnerMoves, TapDrainMoves DEF TapSteps
<1>4. CASE ReadLine(h) \/ Eof(h) \/ Probe(h) \/ ChildExits(h)
  BY <1>4, ReadLineMoves, EofMoves, ProbeMoves, ChildExitsMoves
<1> QED BY <1>1, <1>2, <1>3, <1>4 DEF LocalSteps

\* The cases of a step.
LEMMA NextCases ==
  ASSUME ChainNext
  PROVE  Advance \/ Break \/ Release \/ DrainExpires \/ Cancel \/ DropRunner \/ \E h \in Hops : Join(h) \/ LocalSteps(h)
  BY DEF ChainNext, RunnerSteps, LocalSteps

LEMMA ChainStep == GarterIInv /\ [ChainNext]_garterVars => GarterIInv'
<1> SUFFICES ASSUME GarterIInv, [ChainNext]_garterVars PROVE GarterIInv'
  OBVIOUS
<1>1. PICK k \in Hops : ChainOK(k)
  BY DEF GarterIInv
<1>2. CASE ChainNext
  <2>1. ASSUME NEW h \in Hops, LocalSteps(h)
        PROVE  GarterIInv'
    BY <2>1, LocalMoves, MovesKeep
  <2> QED BY <1>1, <1>2, <2>1, NextCases, AdvanceKeeps, BreakKeeps, ReleaseKeeps, DrainExpiresKeeps, CancelKeeps,
             DropRunnerKeeps, JoinKeeps
<1>3. CASE UNCHANGED garterVars
  <2>1. ChainOK(k)'
    BY <1>1, <1>3 DEF garterVars, ChainOK, Told
  <2> QED BY <1>3, <2>1 DEF garterVars, GarterIInv
<1> QED BY <1>2, <1>3

\* The invariant says that the chain tells the truth.
LEMMA IInvChainTrue == GarterIInv => ChainTrue
<1> SUFFICES ASSUME GarterIInv PROVE ChainTrue
  OBVIOUS
<1>1. PICK k \in Hops : ChainOK(k)
  BY DEF GarterIInv
<1>2. FailureReaches
  <2> SUFFICES ASSUME chain.pc = "done", NEW h \in Hops
               PROVE  /\ hop[h].decision \in Failures => chain.verdict = hop[h].decision
                      /\ bin[h].held # "none" /\ ~(h \in Tapped /\ hop[h].aborted) =>
                           chain.verdict \in Failures \/ (bin[h].held = "conflict" /\ Intermediate(h))
    BY DEF FailureReaches
  <2>1. HopOK(h, hop[h], bin[h], tap[h]) /\ bin[h] \in Bins /\ hop[h].pc \in {"idle", "over"}
    BY <1>1 DEF GarterIInv, LocalOK, ChainOK
  <2>2. hop[h].decision \in Failures => chain.verdict = hop[h].decision
    <3>1. ASSUME hop[h].decision \in Failures
          PROVE  h = k
      <4>1. hop[h].pc # "idle" /\ hop[h].decision # "ok"
        BY <2>1, <3>1 DEF HopOK, Failures
      <4>2. h <= k /\ ~(h < k)
        BY <1>1, <4>1 DEF ChainOK
      <4> QED BY <4>2 DEF Hops
    <3> QED BY <1>1, <3>1 DEF ChainOK, Told
  <2>3. bin[h].held # "none" => bin[h].held \in Failures
    BY <2>1 DEF Bins
  <2> QED BY <2>1, <2>2, <2>3 DEF HopOK
<1>3. ForwardsToLive
  BY <1>1 DEF ForwardsToLive, ChainOK, Hops
<1> QED BY <1>2, <1>3 DEF ChainTrue

\* A chain reports the failure a plugin reported, whoever cancelled it
\* meanwhile, and each hop forwards to the port its neighbour was last given
\* (ChainRunner::run, run_hop, BinaryPlugin, TapPlugin), for any number of
\* hops and restarts, whichever are tapped.
THEOREM ChainTellsTruth == ChainSpec => []ChainTrue
<1>1. ChainSpec => []GarterIInv
  BY ChainInitIInv, ChainStep, PTL DEF ChainSpec
<1> QED BY <1>1, IInvChainTrue, PTL

-----------------------------------------------------------------------------
(* The chain and its promise.                                              *)

PhaseOf(c, stopped) ==
  CASE c.pc = "done" -> "over"
    [] c.pc = "dropped" -> "dropped"
    [] c.pc = "drain" \/ (c.pc = "loop" /\ stopped) -> "ending"
    [] c.pc = "loop" /\ ~stopped -> IF c.verdict = "ready" THEN "up" ELSE "starting"
LiveOf(bs) == {h \in Hops : bs[h].child = "alive" /\ ~bs[h].refused /\ ~bs[h].orphan}

LastOf(hs) == CHOOSE h \in Hops : hs[h].pc # "idle" /\ \A g \in Hops : hs[g].pc # "idle" => g <= h

\* What the caller sees, before a step and after it.
LEMMA Views ==
  /\ Phase = PhaseOf(chain, cancelled) /\ Phase' = PhaseOf(chain', cancelled')
  /\ LastLaunched = LastOf(hop) /\ LastLaunched' = LastOf(hop')
<1>1. Phase = PhaseOf(chain, cancelled) /\ Phase' = PhaseOf(chain', cancelled')
  BY DEF Phase, PhaseOf
<1>2. LastLaunched = LastOf(hop) /\ LastLaunched' = LastOf(hop')
  BY DEF LastLaunched, LastOf
<1> QED BY <1>1, <1>2

LEMMA PhaseIs ==
  ASSUME NEW c \in Chains, NEW stopped \in BOOLEAN
  PROVE  /\ c.pc = "done" => PhaseOf(c, stopped) = "over"
         /\ c.pc = "dropped" => PhaseOf(c, stopped) = "dropped"
         /\ c.pc \in {"loop", "drain"} /\ (stopped \/ c.pc = "drain") => PhaseOf(c, stopped) = "ending"
         /\ c.pc = "loop" /\ ~stopped /\ c.verdict = "ready" => PhaseOf(c, stopped) = "up"
         /\ c.pc = "loop" /\ ~stopped /\ c.verdict # "ready" => PhaseOf(c, stopped) = "starting"
<1>1. c.pc = "done" => PhaseOf(c, stopped) = "over"
  BY DEF PhaseOf
<1>2. c.pc = "dropped" => PhaseOf(c, stopped) = "dropped"
  BY DEF PhaseOf
<1>3. c.pc = "drain" \/ (c.pc = "loop" /\ stopped) => PhaseOf(c, stopped) = "ending"
  BY DEF PhaseOf
<1>4. c.pc = "loop" /\ ~stopped /\ c.verdict = "ready" => PhaseOf(c, stopped) = "up"
  BY DEF PhaseOf
<1>5. c.pc = "loop" /\ ~stopped /\ c.verdict # "ready" => PhaseOf(c, stopped) = "starting"
  BY DEF PhaseOf
<1> QED BY <1>1, <1>2, <1>3, <1>4, <1>5

\* Hops 1 .. k are launched: all but the last are up, and that one when ready was said.
LEMMA LastIs ==
  ASSUME NEW k \in Hops, NEW hs, \A h \in Hops : hs[h].pc # "idle" <=> h <= k
  PROVE  LastOf(hs) = k
<1> DEFINE last(h) == hs[h].pc # "idle" /\ \A g \in Hops : hs[g].pc # "idle" => g <= h
<1>1. last(k)
  BY DEF Hops
<1>2. ASSUME NEW h \in Hops, last(h)
      PROVE  h = k
  BY <1>2 DEF Hops
<1> HIDE DEF last
<1>3. (CHOOSE h \in Hops : last(h)) = k
  BY <1>1, <1>2
<1>4. LastOf(hs) = CHOOSE h \in Hops : last(h)
  BY DEF LastOf, last
<1> QED BY <1>3, <1>4

LEMMA UpToBefore ==
  ASSUME NEW k \in Hops, ChainOK(k)
  PROVE  UpTo = IF chain.verdict = "ready" THEN N ELSE k - 1
<1>1. \A h \in Hops : hop[h].pc # "idle" <=> h <= k
  BY DEF ChainOK
<1> QED BY <1>1, LastIs, Views DEF UpTo

LEMMA UpToAfter ==
  ASSUME NEW k \in Hops, ChainOK(k)'
  PROVE  UpTo' = IF chain'.verdict = "ready" THEN N ELSE k - 1
<1>1. \A h \in Hops : hop'[h].pc # "idle" <=> h <= k
  BY DEF ChainOK
<1> QED BY <1>1, LastIs, Views DEF UpTo

\* A step of one hop starts the next child, ends one, or is not seen.
LEMMA MovesPromise ==
  ASSUME GarterIInv, NEW h \in Hops, Moves(h)
  PROVE  Promise!PromiseNext \/ UNCHANGED Promise!promiseVars
<1> DEFINE L == LiveOf(bin)
           M == LiveOf(bin')
<1>1. PICK x, b, t : Comes(h, x, b, t)
  BY DEF Moves
<1>2. PICK k \in Hops : ChainOK(k)
  BY DEF GarterIInv
<1>3. chain' = chain /\ cancelled' = cancelled
  BY <1>1 DEF Comes
<1>4. Phase' = Phase /\ chain'.verdict = chain.verdict
  BY <1>3, Views
<1>5. UpTo' = UpTo
  <2>1. \A g \in Hops : hop'[g].pc # "idle" <=> g <= k
    <3>1. HopKept(hop[h], x) /\ hop'[h] = x /\ \A g \in Hops : g # h => hop'[g] = hop[g]
      BY <1>1 DEF Comes, GarterIInv
    <3> QED BY <1>2, <3>1 DEF ChainOK, HopKept
  <2>2. UpTo' = IF chain.verdict = "ready" THEN N ELSE k - 1
    BY <1>3, <2>1, LastIs, Views DEF UpTo
  <2> QED BY <1>2, <2>2, UpToBefore
<1>6. bin'[h] = b /\ \A g \in Hops : g # h => bin'[g] = bin[g]
  BY <1>1 DEF Comes, GarterIInv
<1>7. /\ \A g \in Hops : g # h => (g \in L <=> g \in M)
      /\ h \in L <=> Live(bin[h])
      /\ h \in M <=> Live(b)
      /\ L \subseteq Hops /\ M \subseteq Hops
  BY <1>6 DEF LiveOf, Live
<1> HIDE DEF L, M
<1>8. CASE h \in L <=> h \in M
  <2>1. M = L
    BY <1>7, <1>8
  <2> QED BY <1>4, <1>5, <2>1 DEF Promise!promiseVars, L, M, LiveOf
<1>9. CASE h \in L /\ h \notin M
  <2>1. M = L \ {h}
    BY <1>7, <1>9
  <2>2. Promise!Die
    BY <1>4, <1>5, <1>9, <2>1 DEF Promise!Die, L, M, LiveOf
  <2> QED BY <2>2 DEF Promise!PromiseNext
<1>10. CASE h \notin L /\ h \in M
  <2>1. hop[h].pc = "pick"
    BY <1>1, <1>7, <1>10 DEF Comes
  <2>2. hop[h].decision = "open"
    BY <2>1 DEF GarterIInv, LocalOK, HopOK
  <2>3. h = k
    <3>1. h <= k /\ ~(h < k)
      BY <1>2, <2>1, <2>2 DEF ChainOK
    <3> QED BY <3>1 DEF Hops
  <2>4. chain.verdict # "ready" /\ chain.pc # "done" /\ chain \in Chains /\ cancelled \in BOOLEAN
    BY <1>2, <2>1, <2>2, <2>3 DEF ChainOK, Told
  <2>5. UpTo + 1 = h /\ h \in 1 .. N
    <3>1. UpTo = h - 1
      BY <1>2, <2>3, <2>4, UpToBefore
    <3> QED BY <3>1, GarterAssumption DEF Hops
  <2>6. Phase \in {"starting", "ending", "dropped"}
    BY <2>4, Views, PhaseIs DEF Chains
  <2>7. M = L \cup {h}
    BY <1>7, <1>10
  <2>8. Promise!Spawn
    BY <1>4, <1>5, <2>5, <2>6, <2>7 DEF Promise!Spawn, L, M, LiveOf
  <2> QED BY <2>8 DEF Promise!PromiseNext
<1> QED BY <1>8, <1>9, <1>10

\* The loop takes a decision: a hop is up, or the chain ends.
LEMMA AdvancePromise ==
  ASSUME GarterIInv, Advance
  PROVE  Promise!PromiseNext \/ UNCHANGED Promise!promiseVars
<1>1. PICK k \in Hops : ChainOK(k)
  BY DEF GarterIInv
<1> DEFINE up == /\ k < N /\ ChainOK(k + 1)' /\ ~cancelled /\ cancelled' = cancelled
                 /\ chain'.verdict = chain.verdict /\ chain.verdict = "none" /\ chain'.pc = chain.pc
           all == /\ k = N /\ ChainOK(k)' /\ ~cancelled /\ cancelled' = cancelled
                  /\ chain'.verdict = "ready" /\ chain.verdict = "none" /\ chain'.pc = chain.pc
           end == ChainOK(k)' /\ cancelled' /\ chain'.verdict = chain.verdict /\ chain'.pc = chain.pc
<1>2. up \/ all \/ end
  BY <1>1, AdvanceKeeps
<1>3. chain \in Chains /\ cancelled \in BOOLEAN /\ chain.pc = "loop" /\ bin' = bin
  BY <1>1 DEF ChainOK, Advance
<1>4. UpTo = IF chain.verdict = "ready" THEN N ELSE k - 1
  BY <1>1, UpToBefore
<1>5. k \in Nat /\ k >= 1 /\ k <= N /\ N \in Nat
  BY GarterAssumption DEF Hops
<1>6. CASE up
  <2>1. k + 1 \in Hops /\ ChainOK(k + 1)'
    BY <1>5, <1>6 DEF Hops
  <2>2. UpTo' = k
    BY <1>5, <1>6, <2>1, UpToAfter
  <2>3. chain' \in Chains /\ cancelled' \in BOOLEAN
    BY <2>1 DEF ChainOK
  <2>4. Phase = "starting" /\ Phase' = "starting"
    BY <1>3, <1>6, <2>3, Views, PhaseIs
  <2>5. UpTo < N /\ UpTo' = UpTo + 1 /\ UpTo' # N
    BY <1>4, <1>5, <1>6, <2>2
  <2>6. Promise!HopUp
    BY <1>3, <1>6, <2>4, <2>5 DEF Promise!HopUp
  <2> QED BY <2>6 DEF Promise!PromiseNext
<1>7. CASE all
  <2>1. UpTo' = N /\ chain' \in Chains /\ cancelled' \in BOOLEAN
    BY <1>7, UpToAfter DEF ChainOK
  <2>2. Phase = "starting" /\ Phase' = "up"
    BY <1>3, <1>7, <2>1, Views, PhaseIs
  <2>3. UpTo < N /\ UpTo' = UpTo + 1
    BY <1>4, <1>5, <1>7, <2>1
  <2>4. Promise!HopUp
    BY <1>3, <1>7, <2>1, <2>2, <2>3 DEF Promise!HopUp
  <2> QED BY <2>4 DEF Promise!PromiseNext
<1>8. CASE end
  <2>1. UpTo' = UpTo /\ chain' \in Chains /\ cancelled' \in BOOLEAN
    BY <1>4, <1>8, UpToAfter DEF ChainOK
  <2>2. Phase' = "ending" /\ Phase \in {"starting", "up", "ending"}
    BY <1>3, <1>8, <2>1, Views, PhaseIs, Zenon
  <2>3. CASE Phase = "ending"
    BY <1>3, <1>8, <2>1, <2>2, <2>3 DEF Promise!promiseVars
  <2>4. CASE Phase # "ending"
    <3>1. Promise!End
      BY <1>3, <1>8, <2>1, <2>2, <2>4 DEF Promise!End
    <3> QED BY <3>1 DEF Promise!PromiseNext
  <2> QED BY <2>3, <2>4
<1> QED BY <1>2, <1>6, <1>7, <1>8

\* The chain is told to end, by a hop's end or by its caller, or was already ending.
LEMMA EndPromise ==
  ASSUME NEW k \in Hops, ChainOK(k), ChainOK(k)', chain.pc \in {"loop", "drain"}, chain'.pc \in {"loop", "drain"},
         cancelled', chain'.verdict = chain.verdict, bin' = bin
  PROVE  Promise!PromiseNext \/ UNCHANGED Promise!promiseVars
<1>1. chain \in Chains /\ cancelled \in BOOLEAN /\ chain' \in Chains /\ cancelled' \in BOOLEAN
  BY DEF ChainOK
<1>2. UpTo' = UpTo
  BY UpToBefore, UpToAfter
<1>3. Phase' = "ending" /\ Phase \in {"starting", "up", "ending"}
  BY <1>1, Views, PhaseIs, Zenon
<1>4. CASE Phase = "ending"
  BY <1>2, <1>3, <1>4 DEF Promise!promiseVars
<1>5. CASE Phase # "ending"
  <2>1. Promise!End
    BY <1>2, <1>3, <1>5 DEF Promise!End
  <2> QED BY <2>1 DEF Promise!PromiseNext
<1> QED BY <1>4, <1>5

\* The runner returns: every hop is over, and no child is left but an owed one.
LEMMA ReleasePromise ==
  ASSUME GarterIInv, NEW k \in Hops, ChainOK(k), Release
  PROVE  Promise!PromiseNext
<1>1. /\ ChainOK(k)' /\ \A h \in Hops : hop[h].pc \in {"idle", "over"}
      /\ IF chain.verdict = "ready" THEN chain'.verdict = "ready" ELSE chain'.verdict \in {"closed"} \cup Failures
  BY ReleaseKeeps
<1>2. chain \in Chains /\ cancelled \in BOOLEAN /\ chain' \in Chains /\ cancelled' \in BOOLEAN /\ bin' = bin
  BY <1>1 DEF ChainOK, Release
<1>3. chain.pc = "drain" /\ chain'.pc = "done"
  BY <1>2 DEF Release, Chains
<1>4. Phase = "ending" /\ Phase' = "over"
  BY <1>2, <1>3, Views, PhaseIs
<1>5. UpTo' = UpTo
  BY <1>1, UpToBefore, UpToAfter DEF Failures
<1>6. ASSUME NEW h \in Hops
      PROVE  ~(bin[h].child = "alive" /\ ~bin[h].refused /\ ~bin[h].orphan)
  <2>1. BinOK(bin[h]) /\ HopOK(h, hop[h], bin[h], tap[h]) /\ hop[h].pc \in {"idle", "over"}
    BY <1>1 DEF GarterIInv, LocalOK
  <2>2. bin[h].pc \in {"idle", "over"} \/ bin[h].orphan
    BY <2>1, Zenon DEF HopOK
  <2> QED BY <2>1, <2>2 DEF BinOK
<1>7. Promise!Over
  BY <1>1, <1>2, <1>4, <1>5, <1>6 DEF Promise!Over, Failures
<1> QED BY <1>7 DEF Promise!PromiseNext

LEMMA DropRunnerPromise ==
  ASSUME GarterIInv, NEW k \in Hops, ChainOK(k), DropRunner
  PROVE  Promise!PromiseNext
<1>1. ChainOK(k)'
  BY DropRunnerKeeps
<1>2. /\ chain \in Chains /\ cancelled \in BOOLEAN /\ chain' \in Chains /\ cancelled' \in BOOLEAN /\ bin' = bin
      /\ chain.pc \in {"loop", "drain"}
  BY <1>1 DEF ChainOK, DropRunner
<1>3. chain'.pc = "dropped" /\ chain'.verdict = chain.verdict
  BY <1>2 DEF DropRunner, Chains
<1>4. Phase \in {"starting", "up", "ending"} /\ Phase' = "dropped"
  BY <1>2, <1>3, Views, PhaseIs
<1>5. UpTo' = UpTo
  BY <1>1, <1>3, UpToBefore, UpToAfter
<1>6. Promise!Drop
  BY <1>2, <1>3, <1>4, <1>5 DEF Promise!Drop
<1> QED BY <1>6 DEF Promise!PromiseNext

LEMMA ChainPromised ==
  GarterIInv /\ [ChainNext]_garterVars => [Promise!PromiseNext]_(Promise!promiseVars)
<1> SUFFICES ASSUME GarterIInv, [ChainNext]_garterVars
             PROVE  Promise!PromiseNext \/ UNCHANGED Promise!promiseVars
  OBVIOUS
<1>1. PICK k \in Hops : ChainOK(k)
  BY DEF GarterIInv
<1>2. chain \in Chains
  BY <1>1 DEF ChainOK
<1>3. CASE Advance
  BY <1>3, AdvancePromise
<1>4. CASE Break
  <2>1. /\ ChainOK(k)' /\ chain.pc = "loop" /\ chain'.pc = "drain" /\ chain'.verdict = chain.verdict
        /\ cancelled' /\ bin' = bin
    BY <1>1, <1>2, <1>4, BreakKeeps DEF Break, Chains
  <2> QED BY <1>1, <2>1, EndPromise
<1>5. ASSUME NEW h \in Hops, Join(h)
      PROVE  Promise!PromiseNext \/ UNCHANGED Promise!promiseVars
  <2>1. /\ ChainOK(k)' /\ chain.pc \in {"loop", "drain"} /\ chain'.pc = chain.pc /\ chain'.verdict = chain.verdict
        /\ cancelled' /\ bin' = bin
    BY <1>1, <1>2, <1>5, JoinKeeps DEF Join, Chains
  <2> QED BY <1>1, <2>1, EndPromise
<1>6. CASE Cancel
  <2>1. /\ ChainOK(k)' /\ chain.pc = "loop" /\ chain' = chain /\ cancelled' /\ bin' = bin
    BY <1>1, <1>6, CancelKeeps DEF Cancel
  <2> QED BY <1>1, <2>1, EndPromise
<1>7. CASE DrainExpires
  <2>1. ChainOK(k)' /\ chain.pc = "drain" /\ chain' = chain /\ cancelled' /\ bin' = bin
    BY <1>1, <1>7, DrainExpiresKeeps DEF DrainExpires, ChainOK, Told
  <2> QED BY <1>1, <2>1, EndPromise
<1>8. CASE Release
  BY <1>1, <1>8, ReleasePromise
<1>9. CASE DropRunner
  BY <1>1, <1>9, DropRunnerPromise
<1>10. ASSUME NEW h \in Hops, LocalSteps(h)
       PROVE  Promise!PromiseNext \/ UNCHANGED Promise!promiseVars
  BY <1>10, LocalMoves, MovesPromise
<1>11. CASE UNCHANGED garterVars
  BY <1>11, Views DEF garterVars, Promise!promiseVars, UpTo
<1> QED BY <1>3, <1>4, <1>5, <1>6, <1>7, <1>8, <1>9, <1>10, <1>11, NextCases

LEMMA ChainPromiseInit == ChainInit => Promise!PromiseInit
<1> SUFFICES ASSUME ChainInit PROVE Promise!PromiseInit
  OBVIOUS
<1>1. GarterIInv
  BY ChainInitIInv
<1>2. PICK k \in Hops : ChainOK(k)
  BY <1>1 DEF GarterIInv
<1>3. chain.pending = 1 /\ chain.verdict = "none" /\ chain.pc = "loop" /\ cancelled = FALSE
  BY DEF ChainInit
<1>4. k = 1
  BY <1>2, <1>3 DEF ChainOK, Told
<1>5. UpTo = 0
  BY <1>2, <1>3, <1>4, UpToBefore
<1>6. Phase = "starting"
  BY <1>2, <1>3, Views, PhaseIs DEF ChainOK
<1>7. \A h \in Hops : bin[h].child = "none"
  BY DEF ChainInit, IdleBin
<1> QED BY <1>3, <1>5, <1>6, <1>7 DEF Promise!PromiseInit

\* A plugin chain keeps what its caller relies on (ChainPromise): hops come
\* up in order, ready is said once all are up, a chain that says it failed has
\* no child left, and one that was told to end starts at most the hop it was
\* starting (ChainRunner::run and start_plugin_chain), for any number of hops.
THEOREM ChainKeepsPromise == ChainSpec => KeepsPromise
<1>1. ChainSpec => []GarterIInv
  BY ChainInitIInv, ChainStep, PTL DEF ChainSpec
<1> QED BY <1>1, ChainPromiseInit, ChainPromised, PTL DEF ChainSpec, KeepsPromise, Promise!PromiseSpec

=============================================================================
