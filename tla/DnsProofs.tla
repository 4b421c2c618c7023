----------------------------- MODULE DnsProofs ------------------------------
(***************************************************************************)
(* The resolvers of the system around a session, for any number of crashes *)
(* of an older build, and what the start's self-test and the bootstrap say *)
(* of the resolvers, for any number of them.                               *)
(***************************************************************************)
EXTENDS DnsSystem, DnsForward, WellFoundedInduction, TLAPS

-----------------------------------------------------------------------------
(* A session's DNS configuration.                                          *)

\* The filters of a confinement.
LEMMA SpecFilters ==
  ASSUME NEW srv, NEW x
  PROVE  x \in BuildSpec(srv) <=>
           \/ \E f \in Families : \/ x = Filter("tun", f, "permit", 15)
                                  \/ x = Filter("loopback", f, "permit", 15)
                                  \/ x = Filter("any", f, "block", 0)
           \/ x = Filter("server", srv, "permit", 15)
<1> DEFINE perFamily == UNION {{Filter("tun", f, "permit", 15), Filter("loopback", f, "permit", 15),
                                Filter("any", f, "block", 0)} : f \in Families}
<1>1. x \in perFamily <=>
        \E f \in Families : \/ x = Filter("tun", f, "permit", 15)
                            \/ x = Filter("loopback", f, "permit", 15)
                            \/ x = Filter("any", f, "block", 0)
  OBVIOUS
<1>2. BuildSpec(srv) = perFamily \cup {Filter("server", srv, "permit", 15)}
  BY DEF BuildSpec
<1> HIDE DEF perFamily
<1> QED BY <1>1, <1>2

\* Which connections a filter is about.
LEMMA FilterMatches ==
  ASSUME NEW p \in Packets, NEW g, NEW act, NEW w
  PROVE  /\ Matches(Filter("tun", g, act, w), p) <=> g = p.fam /\ p.dns /\ p.iface = "tun"
         /\ Matches(Filter("loopback", g, act, w), p) <=> g = p.fam /\ p.dns /\ p.dest = "loopback"
         /\ Matches(Filter("server", g, act, w), p) <=> g = p.fam /\ p.dest = "server"
         /\ Matches(Filter("any", g, act, w), p) <=> g = p.fam /\ p.dns
<1>1. \A n : Filter(n, g, act, w).fam = g /\ Filter(n, g, act, w).name = n
  BY DEF Filter
<1>2. Matches(Filter("tun", g, act, w), p) <=> g = p.fam /\ p.dns /\ p.iface = "tun"
  BY <1>1 DEF Matches
<1>3. Matches(Filter("loopback", g, act, w), p) <=> g = p.fam /\ p.dns /\ p.dest = "loopback"
  BY <1>1 DEF Matches
<1>4. Matches(Filter("server", g, act, w), p) <=> g = p.fam /\ p.dest = "server"
  BY <1>1 DEF Matches
<1>5. Matches(Filter("any", g, act, w), p) <=> g = p.fam /\ p.dns
  BY <1>1 DEF Matches
<1> QED BY <1>2, <1>3, <1>4, <1>5, Zenon

\* How a filter decides and with which weight.
LEMMA FilterFields ==
  ASSUME NEW n, NEW g, NEW act, NEW w
  PROVE  Filter(n, g, act, w).action = act /\ Filter(n, g, act, w).weight = w
  BY DEF Filter

\* What the engaged filters let out: of the DNS connections, those through the
\* tunnel, to loopback and to the server.
LEMMA SpecBlocks ==
  ASSUME NEW srv \in Families, NEW p \in Packets
  PROVE  Blocked(BuildSpec(srv), p) <=>
           /\ p.dns /\ p.iface # "tun" /\ p.dest # "loopback"
           /\ ~(p.dest = "server" /\ p.fam = srv)
<1> DEFINE hit == {f \in BuildSpec(srv) : Matches(f, p)}
           top == {f \in hit : \A g \in hit : g.weight <= f.weight}
           any == Filter("any", p.fam, "block", 0)
           out == p.iface # "tun" /\ p.dest # "loopback" /\ ~(p.dest = "server" /\ p.fam = srv)
<1>0. p.fam \in Families
  BY Zenon DEF Packets
<1>1. any.weight = 0 /\ any.action = "block"
  BY FilterFields
<1>2. p.dns => any \in hit
  BY <1>0, SpecFilters, FilterMatches, Zenon
<1>3. ASSUME NEW f \in hit
      PROVE  \/ f.weight = 15 /\ f.action = "permit" /\ ~out
             \/ f.weight = 0 /\ f.action = "block" /\ p.dns
  <2>0. f \in BuildSpec(srv) /\ Matches(f, p)
    OBVIOUS
  <2>1. ASSUME NEW g \in Families, f = Filter("tun", g, "permit", 15)
        PROVE  f.weight = 15 /\ f.action = "permit" /\ ~out
    <3>1. Matches(Filter("tun", g, "permit", 15), p)
      BY <2>0, <2>1, Zenon
    <3>2. f.weight = 15 /\ f.action = "permit"
      BY <2>1, FilterFields
    <3> QED BY <3>1, <3>2, FilterMatches, Zenon
  <2>2. ASSUME NEW g \in Families, f = Filter("loopback", g, "permit", 15)
        PROVE  f.weight = 15 /\ f.action = "permit" /\ ~out
    <3>1. Matches(Filter("loopback", g, "permit", 15), p)
      BY <2>0, <2>2, Zenon
    <3>2. f.weight = 15 /\ f.action = "permit"
      BY <2>2, FilterFields
    <3> QED BY <3>1, <3>2, FilterMatches, Zenon
  <2>3. ASSUME NEW g \in Families, f = Filter("any", g, "block", 0)
        PROVE  f.weight = 0 /\ f.action = "block" /\ p.dns
    <3>1. Matches(Filter("any", g, "block", 0), p)
      BY <2>0, <2>3, Zenon
    <3>2. f.weight = 0 /\ f.action = "block"
      BY <2>3, FilterFields
    <3> QED BY <3>1, <3>2, FilterMatches, Zenon
  <2>4. ASSUME f = Filter("server", srv, "permit", 15)
        PROVE  f.weight = 15 /\ f.action = "permit" /\ ~out
    <3>1. Matches(Filter("server", srv, "permit", 15), p)
      BY <2>0, <2>4, Zenon
    <3>2. f.weight = 15 /\ f.action = "permit"
      BY <2>4, FilterFields
    <3> QED BY <3>1, <3>2, FilterMatches, Zenon
  <2> HIDE DEF out
  <2> QED BY <2>0, <2>1, <2>2, <2>3, <2>4, SpecFilters, Zenon
<1>4. ASSUME p.dns, ~out
      PROVE  \E f \in hit : f.weight = 15
  <2>1. CASE p.iface = "tun"
    <3>1. Filter("tun", p.fam, "permit", 15) \in hit
      BY <1>0, <1>4, <2>1, SpecFilters, FilterMatches, Zenon
    <3> QED BY <3>1, FilterFields
  <2>2. CASE p.dest = "loopback"
    <3>1. Filter("loopback", p.fam, "permit", 15) \in hit
      BY <1>0, <1>4, <2>2, SpecFilters, FilterMatches, Zenon
    <3> QED BY <3>1, FilterFields
  <2>3. CASE p.dest = "server" /\ p.fam = srv
    <3>1. Filter("server", srv, "permit", 15) \in hit
      BY <2>3, SpecFilters, FilterMatches, Zenon
    <3> QED BY <3>1, FilterFields
  <2> QED BY <1>4, <2>1, <2>2, <2>3, Zenon
<1>5. Blocked(BuildSpec(srv), p) <=> \E f \in top : f.action = "block"
  BY Zenon DEF Blocked
<1>6. ASSUME NEW f \in top PROVE f \in hit /\ \A g \in hit : g.weight <= f.weight
  OBVIOUS
<1>7. ASSUME NEW f \in hit, \A g \in hit : g.weight <= f.weight PROVE f \in top
  BY <1>7
<1> HIDE DEF hit, top, any, out
<1>8. ASSUME p.dns, out PROVE any \in top
  <2>1. \A g \in hit : g.weight = 0
    BY <1>3, <1>8, Zenon
  <2>2. \A g \in hit : g.weight <= any.weight
    BY <1>1, <2>1
  <2> QED BY <1>2, <1>7, <1>8, <2>2, Zenon
<1>9. ASSUME NEW f \in top, f.action = "block"
      PROVE  p.dns /\ out
  <2>1. f.weight = 0 /\ p.dns
    <3>1. "permit" # "block"
      OBVIOUS
    <3> QED BY <1>3, <1>6, <1>9, <3>1, Zenon
  <2>2. \A g \in hit : g.weight # 15
    BY <1>6, <2>1
  <2> QED BY <1>4, <2>1, <2>2, Zenon
<1>10. Blocked(BuildSpec(srv), p) <=> p.dns /\ out
  BY <1>1, <1>5, <1>8, <1>9, Zenon
<1> QED BY <1>10, Zenon DEF out

\* The values of what a session keeps.
SessTypeOK ==
  /\ plat \in Platforms /\ adv \in SUBSET Families /\ adv # {}
  /\ routed \in SUBSET Families /\ srvFam \in Families
  /\ step \in {"idle", "engage", "engaged", "set4", "set6", "flush", "applied", "withdraw", "ended"}

\* Windows: from the engage on the filters are those of this server, and the
\* families are pointed one after the other.
WindowsOK ==
  plat = "windows" =>
    /\ thread = "none"
    /\ step \in {"engaged", "set4", "set6", "flush", "applied"} => filters = BuildSpec(srvFam)
    /\ step \in {"idle", "engage", "engaged", "set4"} => pointed = {}
    /\ step = "set6" => pointed = {"v4"} \cap adv
    /\ step \in {"flush", "applied"} => pointed = adv

\* macOS: the thread that published waits for a command nobody has sent yet.
MacOK ==
  plat = "macos" =>
    /\ step \notin {"set4", "set6"}
    /\ step = "idle" => thread = "none"
    /\ thread = "opening" <=> step = "engage"
    /\ step \notin {"withdraw", "ended"} => cmd = "open"
    /\ step \in {"engage", "engaged", "flush", "applied"} => adv \cap routed # {}
    /\ step \in {"engaged", "flush", "applied"} => thread = "waiting" /\ key = adv \cap routed
    /\ step = "withdraw" => goal = "ended"

SessIInv == SessTypeOK /\ WindowsOK /\ MacOK

\* A session that has not begun.
LEMMA SessInitIInv == plat \in Platforms /\ SessInit => SessIInv
  BY DEF SessInit, SessIInv, SessTypeOK, WindowsOK, MacOK

\* Every step of the apply, of the shutdown and of the store's thread.
LEMMA SessStep ==
  ASSUME SessIInv, SessNext
  PROVE  SessIInv'
<1> USE DEF SessIInv, SessTypeOK, WindowsOK, MacOK, SessConst, Platforms
<1>1. CASE CancelApply
  BY <1>1 DEF CancelApply
<1>2. CASE Apply
  BY <1>2 DEF Apply
<1>3. CASE Confine
  BY <1>3 DEF Confine
<1>4. CASE ThreadPublishes
  BY <1>4 DEF ThreadPublishes
<1>5. CASE AfterEngage
  BY <1>5 DEF AfterEngage
<1>6. CASE SetServers
  BY Zenon, <1>6 DEF SetServers, Point, Families
<1>7. CASE FlushAfterApply
  BY <1>7 DEF FlushAfterApply
<1>8. CASE ShutdownDns
  BY <1>8 DEF ShutdownDns
<1>9. CASE DropApplied
  BY <1>9 DEF DropApplied
<1>10. CASE ThreadWakes
  BY <1>10 DEF ThreadWakes
<1>11. CASE ThreadExits
  BY <1>11 DEF ThreadExits
<1>12. CASE Withdrawn
  BY <1>12 DEF Withdrawn
<1> QED
  BY Zenon, <1>1, <1>2, <1>3, <1>4, <1>5, <1>6, <1>7, <1>8, <1>9, <1>10, <1>11, <1>12 DEF SessNext

\* Steps of others.
LEMMA SessStutter ==
  ASSUME SessIInv, UNCHANGED <<sessVars, plat>>
  PROVE  SessIInv'
  BY DEF sessVars, SessIInv, SessTypeOK, WindowsOK, MacOK

\* What a session's invariant says of the queries.
LEMMA SessStaysInside == SessIInv => DnsStaysInside
<1> SUFFICES ASSUME SessIInv PROVE DnsStaysInside
  OBVIOUS
<1>1. step \in {"set6", "flush", "applied"} /\ plat = "windows" => filters = BuildSpec(srvFam)
  BY DEF SessIInv, WindowsOK
<1>2. srvFam \in Families
  BY DEF SessIInv, SessTypeOK
<1>3. ASSUME step \in {"set6", "flush", "applied"} /\ plat = "windows", NEW p \in Packets
      PROVE  Blocked(filters, p) <=>
               /\ p.dns /\ p.iface # "tun" /\ p.dest # "loopback"
               /\ ~(p.dest = "server" /\ p.fam = srvFam)
  BY <1>1, <1>2, <1>3, SpecBlocks, Zenon
<1>4. /\ step = "applied" /\ plat = "windows" => pointed = adv
      /\ step = "applied" /\ plat = "macos" => key = adv \cap routed /\ key # {}
  BY DEF SessIInv, WindowsOK, MacOK
<1> QED
  BY <1>3, <1>4, Zenon DEF DnsStaysInside

-----------------------------------------------------------------------------
(* The recovery sweep.                                                     *)

DnsRecords == [adv : SUBSET Families, prior : [Families -> {"user", "ours", "dhcp", "none"}]]

\* The values of what the sweep reads and writes.
SweepTypeOK ==
  /\ plat \in Platforms
  /\ live \in [Families -> {"empty", "user", "ours"}]
  /\ file = NoFile \/ file \in DnsRecords
  /\ archive \in Seq(DnsRecords)
  /\ sweep \in {"none", "v4", "v6", "finish"}
  /\ outcome \in [Families -> {"none", "no_evidence", "failed", "not_ours", "already", "restored"}]

Archived(f) == \E i \in DOMAIN archive : archive[i].prior[f] # "ours"

\* A record that took an older build's resolvers for the user's came after one
\* that is archived and did not; a family a record has no evidence of was not
\* pointed by the session it is of.
PriorsOK ==
  file # NoFile =>
    \A f \in Families :
      /\ file.prior[f] = "ours" => Archived(f)
      /\ f \notin file.adv /\ file.adv # {} /\ live[f] = "ours" => file.prior[f] = "ours"

\* What a sweep has found holds until it ends.
SweepOK ==
  sweep # "none" =>
    /\ file # NoFile
    /\ \A f \in Families :
         /\ outcome[f] = "restored" => live[f] # "ours"
         /\ outcome[f] = "already" => file.prior[f] = "ours"
         /\ outcome[f] = "no_evidence" => f \notin file.adv

RecIInv == SweepTypeOK /\ PriorsOK /\ SweepOK /\ TruePriorKept

\* No record is no record of a session.
LEMMA NoFileApart == NoFile \notin DnsRecords
<1>1. DOMAIN NoFile.prior = {}
  BY DEF NoFile
<1>2. \A r \in DnsRecords : DOMAIN r.prior = Families
  BY DEF DnsRecords
<1> QED
  BY <1>1, <1>2 DEF Families

\* An adapter an older build has not touched yet.
LEMMA RecInitIInv == plat \in Platforms /\ RecInit => RecIInv
  BY DEF RecInit, RecIInv, SweepTypeOK, PriorsOK, SweepOK, TruePriorKept, Families

\* A crash of an older build.
LEMMA OldBuildStep ==
  ASSUME RecIInv, OldBuildCrashes
  PROVE  RecIInv'
<1> USE DEF RecIInv
<1>1. PICK mine \in (SUBSET Families) \ {{}}, told \in BOOLEAN :
        /\ file' = [adv |-> IF told THEN mine ELSE {}, prior |-> [f \in Families |-> Reading(f)]]
        /\ live' = [f \in Families |-> IF f \in mine THEN "ours" ELSE live[f]]
  BY Zenon DEF OldBuildCrashes
<1>2. /\ sweep = "none" /\ file = NoFile
      /\ UNCHANGED <<archive, sweep, outcome, plat>>
  BY DEF OldBuildCrashes
<1>3. \A f \in Families : Reading(f) \in {"user", "ours", "dhcp", "none"} /\ (Reading(f) = "ours" <=> live[f] = "ours")
  BY DEF Reading, SweepTypeOK
<1>4. (IF told THEN mine ELSE {}) \in SUBSET Families
  BY Zenon
<1>5. file' \in DnsRecords
  BY <1>1, <1>3, <1>4 DEF DnsRecords
<1>6. file' # NoFile
  BY <1>5, NoFileApart
<1>7. SweepTypeOK'
  BY <1>1, <1>2, <1>5 DEF SweepTypeOK
<1>8. /\ \A f \in Families : file'.prior[f] = Reading(f)
      /\ file'.adv # {} => file'.adv = mine
      /\ \A f \in Families : live'[f] = IF f \in mine THEN "ours" ELSE live[f]
  BY <1>1
<1>9. \A f \in Families : live[f] = "ours" => Archived(f)
  BY <1>2 DEF TruePriorKept, Archived
<1>10. \A f \in Families : Archived(f) => Archived(f)'
  BY <1>2 DEF Archived
<1>11. PriorsOK'
  BY <1>3, <1>8, <1>9, <1>10 DEF PriorsOK
<1>12. TruePriorKept'
  <2> SUFFICES ASSUME NEW f \in Families, live'[f] = "ours"
               PROVE  \/ file' # NoFile /\ file'.prior[f] # "ours"
                      \/ \E i \in DOMAIN archive' : archive'[i].prior[f] # "ours"
    BY DEF TruePriorKept
  <2>1. CASE live[f] = "ours"
    BY <1>9, <1>10, <2>1 DEF Archived
  <2>2. CASE live[f] # "ours"
    BY <1>3, <1>6, <1>8, <2>2
  <2> QED BY <2>1, <2>2
<1> QED
  BY <1>2, <1>7, <1>11, <1>12 DEF SweepOK

\* One family of a sweep.
LEMMA SweepFamilyStep ==
  ASSUME RecIInv, SweepFamily
  PROVE  RecIInv'
<1> USE DEF RecIInv, SweepTypeOK
<1>1. /\ sweep \in Families /\ RestoreFamily(sweep) /\ sweep' \in {"v6", "finish"}
      /\ UNCHANGED <<file, archive, plat>>
  BY DEF SweepFamily
<1>2. file \in DnsRecords /\ file # NoFile
  BY <1>1 DEF SweepOK, Families
<1>3. \A f \in Families : file.prior[f] \in {"user", "ours", "dhcp", "none"}
  BY <1>2 DEF DnsRecords
<1>4. \A f \in Families : f # sweep => live'[f] = live[f] /\ outcome'[f] = outcome[f]
  BY <1>1 DEF RestoreFamily
<1>5. /\ live'[sweep] = "ours" => live[sweep] = "ours"
      /\ outcome'[sweep] = "restored" => live'[sweep] # "ours"
      /\ outcome'[sweep] = "already" => file.prior[sweep] = "ours"
      /\ outcome'[sweep] = "no_evidence" => sweep \notin file.adv
  BY <1>1, <1>3 DEF RestoreFamily, AsLive
<1>6. /\ live' \in [Families -> {"empty", "user", "ours"}]
      /\ outcome' \in [Families -> {"none", "no_evidence", "failed", "not_ours", "already", "restored"}]
  BY <1>1, <1>3 DEF RestoreFamily, AsLive
<1>7. \A f \in Families : Archived(f) => Archived(f)'
  BY <1>1 DEF Archived
<1>8. PriorsOK'
  BY <1>1, <1>4, <1>5, <1>7 DEF PriorsOK
<1>9. SweepOK'
  <2> SUFFICES ASSUME NEW f \in Families
               PROVE  /\ outcome'[f] = "restored" => live'[f] # "ours"
                      /\ outcome'[f] = "already" => file.prior[f] = "ours"
                      /\ outcome'[f] = "no_evidence" => f \notin file.adv
    BY <1>1, <1>2 DEF SweepOK
  <2>1. CASE f = sweep
    BY <1>5, <2>1
  <2>2. CASE f # sweep
    BY <1>1, <1>4, <2>2 DEF SweepOK, Families
  <2> QED BY <2>1, <2>2
<1>10. TruePriorKept'
  BY <1>1, <1>4, <1>5 DEF TruePriorKept
<1> QED
  BY <1>1, <1>6, <1>8, <1>9, <1>10

\* The end of a sweep: a record that goes is not the last that knows the way
\* back of a family that needs it.
LEMMA SweepFinishStep ==
  ASSUME RecIInv, SweepFinish
  PROVE  RecIInv'
<1> USE DEF RecIInv, SweepTypeOK
<1>1. sweep = "finish" /\ sweep' = "none" /\ UNCHANGED <<live, outcome, plat>>
  BY DEF SweepFinish
<1>2. file \in DnsRecords /\ file # NoFile
  BY <1>1 DEF SweepOK
<1>3. CASE (\A f \in Families : Settled(f)) /\ file' = NoFile /\ UNCHANGED archive
  <2>1. \A f \in Families : live[f] = "ours" => Archived(f)
    BY <1>1, <1>2, <1>3 DEF Settled, SweepOK, PriorsOK
  <2>2. TruePriorKept'
    BY Zenon, <1>1, <1>3, <2>1 DEF TruePriorKept, Archived
  <2> QED BY <1>1, <1>3, <2>2 DEF PriorsOK, SweepOK
<1>4. CASE Supersede
  <2>1. archive' = Append(archive, file) /\ file' = NoFile
    BY <1>4 DEF Supersede
  <2>2. /\ archive' \in Seq(DnsRecords)
        /\ \A i \in DOMAIN archive : i \in DOMAIN archive' /\ archive'[i] = archive[i]
        /\ Len(archive) + 1 \in DOMAIN archive' /\ archive'[Len(archive) + 1] = file
    BY <1>2, <2>1
  <2>3. TruePriorKept'
    BY <1>1, <2>2 DEF TruePriorKept
  <2> QED BY <1>1, <2>1, <2>2, <2>3 DEF PriorsOK, SweepOK
<1>5. CASE UNCHANGED <<file, archive>>
  BY <1>1, <1>5 DEF PriorsOK, SweepOK, TruePriorKept, Archived
<1> QED
  BY <1>3, <1>4, <1>5 DEF SweepFinish

\* Every step of the sweep, of the user and of an older build.
LEMMA RecStep ==
  ASSUME RecIInv, RecNext
  PROVE  RecIInv'
<1>1. CASE UserSets
  BY <1>1 DEF UserSets, RecIInv, SweepTypeOK, PriorsOK, SweepOK, TruePriorKept, Archived
<1>2. CASE SweepBegins
  BY <1>2 DEF SweepBegins, RecIInv, SweepTypeOK, PriorsOK, SweepOK, TruePriorKept, Archived
<1>3. CASE BridgeDies
  BY <1>3 DEF BridgeDies, RecIInv, SweepTypeOK, PriorsOK, SweepOK, TruePriorKept, Archived
<1> QED
  BY <1>1, <1>2, <1>3, OldBuildStep, SweepFamilyStep, SweepFinishStep DEF RecNext

\* Steps of others.
LEMMA RecStutter ==
  ASSUME RecIInv, UNCHANGED <<recVars, plat>>
  PROVE  RecIInv'
  BY DEF recVars, RecIInv, SweepTypeOK, PriorsOK, SweepOK, TruePriorKept, Archived

\* The system's resolvers are never lost to us: while a session points them at
\* the tunnel queries stay inside (apply_windows, apply_macos, build_spec), and
\* while an older build's are in place a record on disk knows the way back
\* (recovery.rs finish, dns_state.rs supersede), however often that build
\* crashed.
THEOREM ResolverAlwaysKept == DnsSpec => []ResolverKept
<1>1. SessIInv /\ [SessNext]_<<sessVars, plat>> => SessIInv'
  BY SessStep, SessStutter
<1>2. RecIInv /\ [RecNext]_<<recVars, plat>> => RecIInv'
  BY RecStep, RecStutter
<1>3. RecIInv => TruePriorKept
  BY DEF RecIInv
<1> QED
  BY SessInitIInv, RecInitIInv, SessStaysInside, <1>1, <1>2, <1>3, PTL DEF DnsSpec, ResolverKept

-----------------------------------------------------------------------------
(* The self-test's walk over the resolvers.                                *)

Attempts == [opened : BOOLEAN, read : BOOLEAN, outstanding : BOOLEAN, tried : BOOLEAN]
Probes == [stream : BOOLEAN, datagram : BOOLEAN, read : BOOLEAN]

\* The resolvers by what became of their attempts.
TriedAt == {s \in DOMAIN family : history[s].tried}
OpenedAt == {s \in DOMAIN family : history[s].opened}
ReadAt == {s \in DOMAIN family : history[s].read}
OutstandingAt == {s \in DOMAIN family : history[s].outstanding}

\* The values of what the walk keeps.
WalkTypeOK ==
  /\ family \in Seq({"v4", "v6"})
  /\ server \in 1 .. Len(family) + 1
  /\ stage \in {"next", "dial", "tls", "exchange"}
  /\ stage # "next" => server \in DOMAIN family
  /\ history \in [DOMAIN family -> Attempts] /\ probe \in Probes
  /\ verdict \in {"running", "ok", "other", "cancelled"} \cup TunnelReasons

\* What the attempt under way did is in its probe, and nothing of it in the
\* counters yet.
AttemptOK ==
  /\ \A s \in TriedAt \cup OpenedAt \cup ReadAt \cup OutstandingAt :
       s < server \/ (s = server /\ stage # "next")
  /\ stage # "next" => server \in TriedAt /\ server \notin OutstandingAt
  /\ stage # "next" => (probe.read <=> server \in ReadAt)
  /\ stage = "dial" => server \notin OpenedAt /\ ~probe.stream /\ ~probe.datagram
  /\ stage \in {"tls", "exchange"} => server \in OpenedAt /\ (probe.stream \/ probe.datagram)

\* The counters are what the attempts before this one did.
CountersOK ==
  /\ moved.read <=> \E s \in ReadAt : s < server
  /\ moved.connects \/ moved.associates <=> \E s \in OpenedAt : s < server
  /\ moved.timeouts <=> \E s \in OutstandingAt : s < server
  /\ walk = "none" <=> \A s \in TriedAt : ~(s < server)

\* The verdict and what it claims.
ClaimsOK == VerdictTrue /\ (verdict \in TunnelReasons => ReadAt = {})

WalkIInv ==
  /\ WalkTypeOK
  /\ verdict = "running" => AttemptOK /\ CountersOK
  /\ ClaimsOK

\* What is said of some attempt, in terms of the sets.
LEMMA ClaimSets ==
  /\ Opened <=> OpenedAt # {}
  /\ Read <=> ReadAt # {}
  /\ Outstanding <=> OutstandingAt # {}
  /\ (\A s \in DOMAIN family : ~history[s].tried) <=> TriedAt = {}
<1>1. Opened <=> OpenedAt # {}
  BY DEF Opened, OpenedAt
<1>2. Read <=> ReadAt # {}
  BY DEF Read, ReadAt
<1>3. Outstanding <=> OutstandingAt # {}
  BY DEF Outstanding, OutstandingAt
<1>4. (\A s \in DOMAIN family : ~history[s].tried) <=> TriedAt = {}
  BY DEF TriedAt
<1> QED BY <1>1, <1>2, <1>3, <1>4

\* The current resolver is asked.
LEMMA MarkTried ==
  ASSUME WalkTypeOK, server \in DOMAIN family, family' = family,
         history' = [history EXCEPT ![server].tried = TRUE]
  PROVE  /\ TriedAt' = TriedAt \cup {server}
         /\ OpenedAt' = OpenedAt /\ ReadAt' = ReadAt /\ OutstandingAt' = OutstandingAt
         /\ history' \in [DOMAIN family' -> Attempts]
<1>1. history \in [DOMAIN family -> Attempts]
  BY DEF WalkTypeOK
<1>2. [history[server] EXCEPT !.tried = TRUE] \in Attempts
  BY <1>1, Zenon DEF Attempts
<1>3. history' = [history EXCEPT ![server] = [history[server] EXCEPT !.tried = TRUE]]
  BY Zenon
<1>4. \A s \in DOMAIN family : s # server => history'[s] = history[s]
  BY <1>1, <1>3
<1>5. history'[server] = [history[server] EXCEPT !.tried = TRUE]
  BY <1>1, <1>3
<1>6. /\ history'[server].tried = TRUE
      /\ history'[server].opened = history[server].opened
      /\ history'[server].read = history[server].read
      /\ history'[server].outstanding = history[server].outstanding
  BY <1>1, <1>5, Zenon DEF Attempts
<1>7. history' \in [DOMAIN family' -> Attempts]
  BY <1>1, <1>2, <1>3
<1>8. TriedAt' = TriedAt \cup {server}
  BY <1>4, <1>6 DEF TriedAt
<1>9. OpenedAt' = OpenedAt /\ ReadAt' = ReadAt /\ OutstandingAt' = OutstandingAt
  BY <1>4, <1>6 DEF OpenedAt, ReadAt, OutstandingAt
<1> QED BY <1>7, <1>8, <1>9

\* A connection to it is open.
LEMMA MarkOpened ==
  ASSUME WalkTypeOK, server \in DOMAIN family, family' = family,
         history' = [history EXCEPT ![server].opened = TRUE]
  PROVE  /\ OpenedAt' = OpenedAt \cup {server}
         /\ TriedAt' = TriedAt /\ ReadAt' = ReadAt /\ OutstandingAt' = OutstandingAt
         /\ history' \in [DOMAIN family' -> Attempts]
<1>1. history \in [DOMAIN family -> Attempts]
  BY DEF WalkTypeOK
<1>2. [history[server] EXCEPT !.opened = TRUE] \in Attempts
  BY <1>1, Zenon DEF Attempts
<1>3. history' = [history EXCEPT ![server] = [history[server] EXCEPT !.opened = TRUE]]
  BY Zenon
<1>4. \A s \in DOMAIN family : s # server => history'[s] = history[s]
  BY <1>1, <1>3
<1>5. history'[server] = [history[server] EXCEPT !.opened = TRUE]
  BY <1>1, <1>3
<1>6. /\ history'[server].opened = TRUE
      /\ history'[server].tried = history[server].tried
      /\ history'[server].read = history[server].read
      /\ history'[server].outstanding = history[server].outstanding
  BY <1>1, <1>5, Zenon DEF Attempts
<1>7. history' \in [DOMAIN family' -> Attempts]
  BY <1>1, <1>2, <1>3
<1>8. OpenedAt' = OpenedAt \cup {server}
  BY <1>4, <1>6 DEF OpenedAt
<1>9. TriedAt' = TriedAt /\ ReadAt' = ReadAt /\ OutstandingAt' = OutstandingAt
  BY <1>4, <1>6 DEF TriedAt, ReadAt, OutstandingAt
<1> QED BY <1>7, <1>8, <1>9

\* A byte of it came back.
LEMMA MarkRead ==
  ASSUME WalkTypeOK, server \in DOMAIN family, family' = family,
         history' = [history EXCEPT ![server].read = TRUE]
  PROVE  /\ ReadAt' = ReadAt \cup {server}
         /\ TriedAt' = TriedAt /\ OpenedAt' = OpenedAt /\ OutstandingAt' = OutstandingAt
         /\ history' \in [DOMAIN family' -> Attempts]
<1>1. history \in [DOMAIN family -> Attempts]
  BY DEF WalkTypeOK
<1>2. [history[server] EXCEPT !.read = TRUE] \in Attempts
  BY <1>1, Zenon DEF Attempts
<1>3. history' = [history EXCEPT ![server] = [history[server] EXCEPT !.read = TRUE]]
  BY Zenon
<1>4. \A s \in DOMAIN family : s # server => history'[s] = history[s]
  BY <1>1, <1>3
<1>5. history'[server] = [history[server] EXCEPT !.read = TRUE]
  BY <1>1, <1>3
<1>6. /\ history'[server].read = TRUE
      /\ history'[server].tried = history[server].tried
      /\ history'[server].opened = history[server].opened
      /\ history'[server].outstanding = history[server].outstanding
  BY <1>1, <1>5, Zenon DEF Attempts
<1>7. history' \in [DOMAIN family' -> Attempts]
  BY <1>1, <1>2, <1>3
<1>8. ReadAt' = ReadAt \cup {server}
  BY <1>4, <1>6 DEF ReadAt
<1>9. TriedAt' = TriedAt /\ OpenedAt' = OpenedAt /\ OutstandingAt' = OutstandingAt
  BY <1>4, <1>6 DEF TriedAt, OpenedAt, OutstandingAt
<1> QED BY <1>7, <1>8, <1>9

\* Its attempt was, or was not, still under way when it was given up.
LEMMA MarkOutstanding ==
  ASSUME WalkTypeOK, server \in DOMAIN family, family' = family, NEW b \in BOOLEAN,
         history' = [history EXCEPT ![server].outstanding = b]
  PROVE  /\ OutstandingAt' = IF b THEN OutstandingAt \cup {server} ELSE OutstandingAt \ {server}
         /\ TriedAt' = TriedAt /\ OpenedAt' = OpenedAt /\ ReadAt' = ReadAt
         /\ history' \in [DOMAIN family' -> Attempts]
<1>1. history \in [DOMAIN family -> Attempts]
  BY DEF WalkTypeOK
<1>2. [history[server] EXCEPT !.outstanding = b] \in Attempts
  BY <1>1, Zenon DEF Attempts
<1>3. history' = [history EXCEPT ![server] = [history[server] EXCEPT !.outstanding = b]]
  BY Zenon
<1>4. \A s \in DOMAIN family : s # server => history'[s] = history[s]
  BY <1>1, <1>3
<1>5. history'[server] = [history[server] EXCEPT !.outstanding = b]
  BY <1>1, <1>3
<1>6. /\ history'[server].outstanding = b
      /\ history'[server].tried = history[server].tried
      /\ history'[server].opened = history[server].opened
      /\ history'[server].read = history[server].read
  BY <1>1, <1>5, Zenon DEF Attempts
<1>7. history' \in [DOMAIN family' -> Attempts]
  BY <1>1, <1>2, <1>3
<1>8. ASSUME b = TRUE PROVE OutstandingAt' = OutstandingAt \cup {server}
  BY Zenon, <1>4, <1>6, <1>8 DEF OutstandingAt
<1>9. ASSUME b = FALSE PROVE OutstandingAt' = OutstandingAt \ {server}
  BY <1>4, <1>6, <1>9 DEF OutstandingAt
<1>10. TriedAt' = TriedAt /\ OpenedAt' = OpenedAt /\ ReadAt' = ReadAt
  BY <1>4, <1>6 DEF TriedAt, OpenedAt, ReadAt
<1> QED BY <1>7, <1>8, <1>9, <1>10, Zenon

\* What the probe learns.
LEMMA ProbeFields ==
  ASSUME NEW p \in Probes
  PROVE  /\ [p EXCEPT !.stream = TRUE] \in Probes /\ [p EXCEPT !.datagram = TRUE] \in Probes
         /\ [p EXCEPT !.read = TRUE] \in Probes
         /\ [p EXCEPT !.stream = TRUE].stream /\ [p EXCEPT !.datagram = TRUE].datagram
         /\ [p EXCEPT !.stream = TRUE].read <=> p.read
         /\ [p EXCEPT !.datagram = TRUE].read <=> p.read
         /\ [p EXCEPT !.read = TRUE].read
         /\ [p EXCEPT !.read = TRUE].stream <=> p.stream
         /\ [p EXCEPT !.read = TRUE].datagram <=> p.datagram
  BY Zenon DEF Probes

\* The causes an attempt can fail with, by its stage.
LEMMA CausesAre ==
  ASSUME stage \in {"dial", "tls", "exchange"}, AttemptOK, NEW cause \in FailureCauses
  PROVE  /\ cause # "none"
         /\ stage = "dial" => cause \in {"unreachable", "connect_timeout"}
         /\ stage # "dial" => cause # "connect_timeout"
<1>1. CASE stage = "dial"
  BY <1>1 DEF AttemptOK, FailureCauses, TimeoutCause
<1>2. CASE stage = "tls"
  BY <1>2 DEF AttemptOK, FailureCauses, TimeoutCause
<1>3. CASE stage = "exchange"
  BY <1>3 DEF AttemptOK, FailureCauses, TimeoutCause
<1> QED BY <1>1, <1>2, <1>3

\* A walk that has not begun.
LEMMA WalkInitIInv == FwdInit => WalkIInv
<1> SUFFICES ASSUME FwdInit PROVE WalkIInv
  OBVIOUS
<1>1. family \in Seq({"v4", "v6"}) /\ Len(family) \in Nat /\ DOMAIN family = 1 .. Len(family)
  <2>1. PICK n \in 1 .. MaxServers : family \in [1 .. n -> {"v4", "v6"}]
    BY DEF FwdInit
  <2>2. n \in Nat
    BY ForwardAssumption
  <2> QED BY <2>1, <2>2
<1>2. \A s \in DOMAIN family : history[s] = Untouched
  BY DEF FwdInit
<1>3. Untouched \in Attempts /\ ~Untouched.tried /\ ~Untouched.opened /\ ~Untouched.read /\ ~Untouched.outstanding
  BY DEF Untouched, Attempts
<1>4. TriedAt = {} /\ OpenedAt = {} /\ ReadAt = {} /\ OutstandingAt = {}
  BY <1>2, <1>3 DEF TriedAt, OpenedAt, ReadAt, OutstandingAt
<1>5. WalkTypeOK
  <2>1. NoProbe \in Probes
    BY DEF NoProbe, Probes
  <2> QED BY <1>1, <1>3, <2>1 DEF FwdInit, WalkTypeOK
<1>6. ~moved.read /\ ~moved.connects /\ ~moved.associates /\ ~moved.timeouts
  BY DEF FwdInit, NoActivity
<1>7. AttemptOK /\ CountersOK
  BY <1>4, <1>6 DEF FwdInit, AttemptOK, CountersOK
<1>8. ClaimsOK
  BY DEF FwdInit, ClaimsOK, VerdictTrue, TunnelReasons
<1> QED BY <1>5, <1>7, <1>8 DEF WalkIInv

\* Every step of the walk.
LEMMA WalkSteps ==
  ASSUME WalkIInv,
         SkipServer \/ BeginAttempt \/ Dialled \/ BytesArrive \/ TlsDone \/ AttemptFails
  PROVE  WalkIInv'
<1> USE DEF WalkIInv
<1>0. /\ verdict = "running" /\ verdict' = "running" /\ AttemptOK /\ CountersOK
      /\ family' = family /\ Len(family) \in Nat /\ DOMAIN family = 1 .. Len(family)
  BY DEF WalkTypeOK, SkipServer, BeginAttempt, Dialled, BytesArrive, TlsDone, AttemptFails,
         Walking, WalkOnly, gateConf
<1>1. ClaimsOK'
  BY <1>0 DEF ClaimsOK, VerdictTrue, TunnelReasons
<1>2. CASE SkipServer
  <2>1. /\ stage = "next" /\ server \in DOMAIN family /\ server' = server + 1
        /\ UNCHANGED <<stage, probe, moved, walk, history>>
    BY <1>2 DEF SkipServer
  <2>2. TriedAt' = TriedAt /\ OpenedAt' = OpenedAt /\ ReadAt' = ReadAt /\ OutstandingAt' = OutstandingAt
    BY <1>0, <2>1 DEF TriedAt, OpenedAt, ReadAt, OutstandingAt
  <2>3. WalkTypeOK'
    BY <1>0, <2>1 DEF WalkTypeOK
  <2>4. \A s \in TriedAt \cup OpenedAt \cup ReadAt \cup OutstandingAt : s < server /\ s < server + 1
    BY <1>0, <2>1 DEF AttemptOK, TriedAt, OpenedAt, ReadAt, OutstandingAt
  <2>5. AttemptOK'
    BY <2>1, <2>2, <2>4 DEF AttemptOK
  <2>6. CountersOK'
    BY <1>0, <2>1, <2>2, <2>4 DEF CountersOK
  <2> QED BY <1>1, <2>3, <2>5, <2>6
<1>3. CASE BeginAttempt
  <2>1. /\ stage = "next" /\ server \in DOMAIN family /\ stage' = "dial" /\ probe' = NoProbe
        /\ history' = [history EXCEPT ![server].tried = TRUE]
        /\ UNCHANGED <<server, moved, walk>>
    BY <1>3 DEF BeginAttempt
  <2>2. /\ TriedAt' = TriedAt \cup {server}
        /\ OpenedAt' = OpenedAt /\ ReadAt' = ReadAt /\ OutstandingAt' = OutstandingAt
        /\ history' \in [DOMAIN family' -> Attempts]
    BY <1>0, <2>1, MarkTried
  <2>0. NoProbe \in Probes
    BY DEF NoProbe, Probes
  <2>3. WalkTypeOK'
    BY <1>0, <2>0, <2>1, <2>2 DEF WalkTypeOK
  <2>4. ~probe'.stream /\ ~probe'.datagram /\ ~probe'.read
    BY <2>1 DEF NoProbe
  <2>5. AttemptOK'
    BY <1>0, <2>1, <2>2, <2>4 DEF AttemptOK
  <2>6. CountersOK'
    BY <1>0, <2>1, <2>2 DEF CountersOK
  <2> QED BY <1>1, <2>3, <2>5, <2>6
<1>4. CASE Dialled
  <2>1. /\ stage = "dial" /\ stage' \in {"tls", "exchange"}
        /\ history' = [history EXCEPT ![server].opened = TRUE]
        /\ UNCHANGED <<server, moved, walk>> /\ server \in DOMAIN family
    BY <1>4 DEF Dialled, WalkTypeOK
  <2>2. /\ OpenedAt' = OpenedAt \cup {server}
        /\ TriedAt' = TriedAt /\ ReadAt' = ReadAt /\ OutstandingAt' = OutstandingAt
        /\ history' \in [DOMAIN family' -> Attempts]
    BY <1>0, <2>1, MarkOpened
  <2>0. probe' \in Probes
    BY <1>4, ProbeFields, Zenon DEF Dialled, WalkTypeOK
  <2>3. WalkTypeOK'
    BY <1>0, <2>0, <2>1, <2>2 DEF WalkTypeOK
  <2>4. (probe'.stream \/ probe'.datagram) /\ (probe'.read <=> probe.read)
    BY <1>4, ProbeFields, Zenon DEF Dialled, WalkTypeOK
  <2>5. AttemptOK'
    BY <1>0, <2>1, <2>2, <2>4 DEF AttemptOK
  <2>6. CountersOK'
    BY <1>0, <2>1, <2>2 DEF CountersOK
  <2> QED BY <1>1, <2>3, <2>5, <2>6
<1>5. CASE BytesArrive
  <2>1. /\ stage \in {"tls", "exchange"} /\ probe' = [probe EXCEPT !.read = TRUE]
        /\ history' = [history EXCEPT ![server].read = TRUE]
        /\ UNCHANGED <<server, stage, moved, walk>> /\ server \in DOMAIN family
    BY <1>5 DEF BytesArrive, WalkTypeOK
  <2>2. /\ ReadAt' = ReadAt \cup {server}
        /\ TriedAt' = TriedAt /\ OpenedAt' = OpenedAt /\ OutstandingAt' = OutstandingAt
        /\ history' \in [DOMAIN family' -> Attempts]
    BY <1>0, <2>1, MarkRead
  <2>0. probe' \in Probes
    BY <2>1, ProbeFields, Zenon DEF WalkTypeOK
  <2>3. WalkTypeOK'
    BY <1>0, <2>0, <2>1, <2>2 DEF WalkTypeOK
  <2>4. probe'.read /\ (probe'.stream \/ probe'.datagram <=> probe.stream \/ probe.datagram)
    BY <2>1, ProbeFields, Zenon DEF WalkTypeOK
  <2>5. AttemptOK'
    BY <1>0, <2>1, <2>2, <2>4 DEF AttemptOK
  <2>6. CountersOK'
    BY <1>0, <2>1, <2>2 DEF CountersOK
  <2> QED BY <1>1, <2>3, <2>5, <2>6
<1>6. CASE TlsDone
  <2>1. /\ stage = "tls" /\ stage' = "exchange" /\ UNCHANGED <<server, probe, moved, walk, history>>
    BY <1>6 DEF TlsDone
  <2>2. TriedAt' = TriedAt /\ OpenedAt' = OpenedAt /\ ReadAt' = ReadAt /\ OutstandingAt' = OutstandingAt
    BY <1>0, <2>1 DEF TriedAt, OpenedAt, ReadAt, OutstandingAt
  <2>3. WalkTypeOK'
    BY <1>0, <2>1 DEF WalkTypeOK
  <2>4. AttemptOK'
    BY <1>0, <2>1, <2>2 DEF AttemptOK
  <2>5. CountersOK'
    BY <1>0, <2>1, <2>2 DEF CountersOK
  <2> QED BY <1>1, <2>3, <2>4, <2>5
<1>7. CASE AttemptFails
  <2>0. stage \in {"dial", "tls", "exchange"} /\ server \in DOMAIN family
    BY <1>7 DEF AttemptFails, WalkTypeOK
  <2>1. PICK cause \in FailureCauses :
          /\ walk' = Worse(walk, cause)
          /\ moved' = Counted(cause)
          /\ history' = [history EXCEPT ![server].outstanding = stage = "dial" /\ cause # "unreachable"]
    BY <1>7, Zenon DEF AttemptFails
  <2>2. server' = server + 1 /\ stage' = "next" /\ UNCHANGED probe
    BY <1>7 DEF AttemptFails
  <2>3. /\ cause # "none"
        /\ stage = "dial" => cause \in {"unreachable", "connect_timeout"}
        /\ stage # "dial" => cause # "connect_timeout"
    BY <1>0, <2>0, CausesAre
  <2> DEFINE b == stage = "dial" /\ cause # "unreachable"
  <2>4. b \in BOOLEAN /\ (b <=> cause = "connect_timeout") /\ history' = [history EXCEPT ![server].outstanding = b]
    <3>1. b \in BOOLEAN /\ (b <=> cause = "connect_timeout")
      BY <2>3
    <3> QED BY <2>1, <3>1, Zenon
  <2> HIDE DEF b
  <2>5. /\ OutstandingAt' = IF b THEN OutstandingAt \cup {server} ELSE OutstandingAt \ {server}
        /\ TriedAt' = TriedAt /\ OpenedAt' = OpenedAt /\ ReadAt' = ReadAt
        /\ history' \in [DOMAIN family' -> Attempts]
    BY Zenon, <1>0, <2>0, <2>4, MarkOutstanding
  <2>6. WalkTypeOK'
    BY <1>0, <2>0, <2>2, <2>5 DEF WalkTypeOK
  <2>7. \A s \in TriedAt \cup OpenedAt \cup ReadAt \cup OutstandingAt \cup {server} :
          s \in Nat /\ s <= server /\ s < server + 1 /\ (s < server \/ s = server)
    BY <1>0, <2>0 DEF AttemptOK, TriedAt, OpenedAt, ReadAt, OutstandingAt
  <2>8. AttemptOK'
    BY <2>2, <2>5, <2>7 DEF AttemptOK
  <2>9. moved'.read <=> moved.read \/ probe.read
    BY <2>1, Zenon DEF Counted
  <2>10. moved'.connects \/ moved'.associates <=> (moved.connects \/ moved.associates) \/ (probe.stream \/ probe.datagram)
    BY <2>1, Zenon DEF Counted
  <2>11. moved'.timeouts <=> moved.timeouts \/ cause = "connect_timeout"
    BY <2>1, Zenon DEF Counted
  <2>12. walk' # "none" /\ server \in TriedAt
    BY Zenon, <1>0, <2>0, <2>1, <2>3 DEF Worse, AttemptOK
  <2>13. moved'.read <=> \E s \in ReadAt' : s < server'
    BY Zenon, <1>0, <2>0, <2>2, <2>5, <2>7, <2>9 DEF AttemptOK, CountersOK
  <2>14. moved'.connects \/ moved'.associates <=> \E s \in OpenedAt' : s < server'
    BY <1>0, <2>0, <2>2, <2>5, <2>7, <2>10 DEF AttemptOK, CountersOK
  <2>15. moved'.timeouts <=> \E s \in OutstandingAt' : s < server'
    BY Zenon, <1>0, <2>0, <2>2, <2>4, <2>5, <2>7, <2>11 DEF AttemptOK, CountersOK
  <2>16. walk' = "none" <=> \A s \in TriedAt' : ~(s < server')
    BY <2>2, <2>5, <2>7, <2>12
  <2>17. CountersOK'
    BY <2>13, <2>14, <2>15, <2>16 DEF CountersOK
  <2> QED BY <1>1, <2>6, <2>8, <2>17
<1> QED BY Zenon, <1>2, <1>3, <1>4, <1>5, <1>6, <1>7

\* The walk's verdict is what the attempts did.
LEMMA VerdictSteps ==
  ASSUME WalkIInv, Replies \/ WalkEnds \/ TestCancelled
  PROVE  WalkIInv'
<1> USE DEF WalkIInv
<1>0. verdict = "running" /\ AttemptOK /\ CountersOK /\ family' = family
  BY DEF Replies, WalkEnds, TestCancelled, Walking, WalkOnly, gateConf
<1>1. CASE Replies
  <2>1. /\ stage = "exchange" /\ history' = [history EXCEPT ![server].read = TRUE]
        /\ verdict' \in {"ok", "other"} /\ UNCHANGED <<server, stage, probe>> /\ server \in DOMAIN family
    BY <1>1 DEF Replies, WalkTypeOK
  <2>2. ReadAt' = ReadAt \cup {server} /\ history' \in [DOMAIN family' -> Attempts]
    BY <1>0, <2>1, MarkRead
  <2>3. WalkTypeOK'
    BY <1>0, <2>1, <2>2 DEF WalkTypeOK
  <2>4. Read'
    <3>1. Read' <=> ReadAt' # {}
      BY DEF Read, ReadAt
    <3> QED BY <2>2, <3>1
  <2>5. ClaimsOK'
    BY <2>1, <2>4 DEF ClaimsOK, VerdictTrue, TunnelReasons
  <2> QED BY <2>1, <2>3, <2>5
<1>2. CASE WalkEnds
  <2>1. /\ stage = "next" /\ server = Len(family) + 1 /\ verdict' = Classify(moved, walk)
        /\ UNCHANGED <<server, stage, probe, moved, walk, history>>
    BY Zenon, <1>2 DEF WalkEnds
  <2>2. /\ TriedAt' = TriedAt /\ OpenedAt' = OpenedAt /\ ReadAt' = ReadAt /\ OutstandingAt' = OutstandingAt
        /\ (Opened' <=> Opened) /\ (Read' <=> Read) /\ (Outstanding' <=> Outstanding)
    BY <1>0, <2>1 DEF TriedAt, OpenedAt, ReadAt, OutstandingAt, Opened, Read, Outstanding
  <2>3. \A s \in TriedAt \cup OpenedAt \cup ReadAt \cup OutstandingAt : s < server
    BY <1>0, <2>1 DEF AttemptOK
  <2>4. /\ moved.read <=> Read
        /\ moved.connects \/ moved.associates <=> Opened
        /\ moved.timeouts <=> Outstanding
        /\ walk = "none" <=> \A s \in DOMAIN family : ~history[s].tried
    BY <1>0, <2>3, ClaimSets DEF CountersOK
  <2>5. verdict' \in {"other"} \cup TunnelReasons /\ verdict' # "running"
    BY <2>1 DEF Classify, TunnelReasons
  <2>6. WalkTypeOK'
    BY <1>0, <2>1, <2>5 DEF WalkTypeOK
  <2>7. /\ verdict' = "other" => walk = "none" \/ moved.read
        /\ verdict' = "silent" => ~moved.read /\ moved.connects
        /\ verdict' = "inconclusive" => ~moved.read
        /\ verdict' = "setup_pending" => ~moved.read /\ ~moved.connects /\ ~moved.associates /\ moved.timeouts
        /\ verdict' = "no_connection" => ~moved.read /\ ~moved.connects /\ ~moved.associates /\ ~moved.timeouts
    BY Zenon, <2>1 DEF Classify
  <2>8. VerdictTrue'
    BY Zenon, <1>0, <2>1, <2>2, <2>4, <2>7 DEF VerdictTrue
  <2>9. verdict' \in TunnelReasons => ReadAt' = {}
    BY <2>2, <2>4, <2>7, ClaimSets DEF TunnelReasons
  <2> QED BY <2>5, <2>6, <2>8, <2>9 DEF ClaimsOK
<1>3. CASE TestCancelled
  BY <1>0, <1>3 DEF TestCancelled, WalkTypeOK, ClaimsOK, VerdictTrue, TunnelReasons
<1> QED BY <1>1, <1>2, <1>3

\* What leaves the walk alone.
LEMMA WalkFrame ==
  ASSUME WalkIInv, UNCHANGED <<family, walkVars>>
  PROVE  WalkIInv'
<1>1. UNCHANGED <<family, server, stage, history, probe, verdict, moved, walk>>
  BY DEF walkVars
<1>2. WalkTypeOK'
  BY Zenon, <1>1 DEF WalkIInv, WalkTypeOK
<1>3. UNCHANGED <<TriedAt, OpenedAt, ReadAt, OutstandingAt>>
  BY Zenon, <1>1 DEF TriedAt, OpenedAt, ReadAt, OutstandingAt
<1>4. (verdict = "running" => AttemptOK' /\ CountersOK')
  BY Zenon, <1>1, <1>3 DEF WalkIInv, AttemptOK, CountersOK
<1>5. ClaimsOK'
  BY <1>1, <1>3 DEF WalkIInv, ClaimsOK, VerdictTrue, Opened, Read, Outstanding
<1> QED
  BY <1>1, <1>2, <1>4, <1>5 DEF WalkIInv

-----------------------------------------------------------------------------
(* The gate and the reachability probe.                                    *)

Reaches == [at : {"absent", "connect", "flight", "done"}, saw : BOOLEAN,
            verdict : {"none", "reachable", "refused", "timeout", "blocked", "inconclusive"}]

\* A probe that found the server blocked sent its first flight and heard
\* nothing, and it is over; a raw wire has no flight.
ReachOK ==
  /\ reach \in Reaches
  /\ reach.at = "flight" => transport # "raw"
  /\ reach.verdict = "blocked" => reach.at = "done" /\ ~reach.saw /\ transport # "raw"

\* The gate answers when the test has its verdict, and suspects the plugin for
\* a reason of the tunnel's.
ReportOK ==
  /\ report # "none" => verdict # "running"
  /\ cancelTok /\ report # "none" => report = "cancelled"
  /\ report = "blocked" => reach.verdict = "blocked"
  /\ blamed => /\ report # "none" /\ verdict \in TunnelReasons
               /\ report \notin NetworkVerdicts \cup {"cancelled"}

GateIInv == ReachOK /\ ReportOK

\* The probe's record as it goes.
LEMMA ReachFields ==
  ASSUME NEW r \in Reaches,
         NEW v \in {"none", "reachable", "refused", "timeout", "blocked", "inconclusive"}
  PROVE  /\ [r EXCEPT !.at = "done", !.verdict = v] \in Reaches
         /\ [r EXCEPT !.at = "flight"] \in Reaches
         /\ [r EXCEPT !.saw = TRUE] \in Reaches
         /\ [r EXCEPT !.at = "done", !.verdict = v].saw = r.saw
         /\ [r EXCEPT !.at = "done", !.verdict = v].verdict = v
         /\ [r EXCEPT !.at = "done", !.verdict = v].at = "done"
         /\ [r EXCEPT !.at = "flight"].verdict = r.verdict /\ [r EXCEPT !.at = "flight"].saw = r.saw
         /\ [r EXCEPT !.at = "flight"].at = "flight"
         /\ [r EXCEPT !.saw = TRUE].at = r.at /\ [r EXCEPT !.saw = TRUE].verdict = r.verdict
  BY Zenon DEF Reaches

\* A gate nothing was asked of.
LEMMA GateInitIInv == FwdInit => GateIInv
<1> SUFFICES ASSUME FwdInit PROVE GateIInv
  OBVIOUS
<1>1. /\ reach.at \in {"absent", IF transport = "quic" THEN "flight" ELSE "connect"}
      /\ reach.verdict = "none" /\ reach \in Reaches
  <2>1. reach \in [at : {"absent", IF transport = "quic" THEN "flight" ELSE "connect"},
                   saw : {FALSE}, verdict : {"none"}]
    BY Zenon DEF FwdInit
  <2>2. FALSE \in BOOLEAN
    OBVIOUS
  <2> QED BY Zenon, <2>1, <2>2 DEF Reaches
<1>2. ReachOK
  BY Zenon, <1>1 DEF ReachOK
<1>3. ReportOK
  BY Zenon DEF FwdInit, ReportOK
<1> QED BY <1>2, <1>3 DEF GateIInv

\* Steps of the walk: its verdict is given once.
LEMMA GateFrame ==
  ASSUME GateIInv, UNCHANGED <<transport, reach, cancelTok, report, blamed>>,
         verdict' # verdict => verdict = "running"
  PROVE  GateIInv'
  BY DEF GateIInv, ReachOK, ReportOK

\* The end of a probe.
LEMMA ProbeEndsStep ==
  ASSUME GateIInv, reach.at \in {"connect", "flight"},
         NEW v \in {"none", "reachable", "refused", "timeout", "blocked", "inconclusive"},
         v = "blocked" => ~reach.saw /\ transport # "raw",
         ProbeEnds(v)
  PROVE  GateIInv'
<1>1. /\ reach' = [reach EXCEPT !.at = "done", !.verdict = v]
      /\ UNCHANGED <<transport, verdict, cancelTok, report, blamed>>
  BY DEF ProbeEnds, ProbeStep, gateConf, walkVars
<1>2. reach' \in Reaches /\ reach'.at = "done" /\ reach'.verdict = v /\ reach'.saw = reach.saw
  <2>1. reach \in Reaches
    BY DEF GateIInv, ReachOK
  <2>2. [reach EXCEPT !.at = "done", !.verdict = v] \in Reaches
    BY <2>1, ReachFields, Zenon
  <2> DEFINE r == [reach EXCEPT !.at = "done", !.verdict = v]
  <2>3. r.at = "done" /\ r.verdict = v /\ r.saw = reach.saw
    BY <2>1, Zenon DEF Reaches
  <2> QED BY <1>1, <2>2, <2>3, Zenon
<1>3. ReachOK'
  BY <1>1, <1>2 DEF ReachOK
<1>4. report # "blocked"
  BY DEF GateIInv, ReachOK, ReportOK
<1>5. ReportOK'
  BY <1>1, <1>4 DEF GateIInv, ReportOK
<1> QED BY <1>3, <1>5 DEF GateIInv

\* Every step of the probe, of the token and of the gate.
LEMMA GateSteps ==
  ASSUME GateIInv, CancelStart \/ ProbeConnects \/ ProbeConnectFails \/ PeerAnswers \/ FlightEnds
                     \/ ProbeCancelled \/ GateReturns,
         verdict \notin NetworkVerdicts
  PROVE  GateIInv'
<1>1. CASE CancelStart
  BY <1>1 DEF CancelStart, gateConf, walkVars, GateIInv, ReachOK, ReportOK
<1>2. CASE ProbeConnects
  <2>1. CASE transport = "raw"
    BY <1>2, <2>1, ProbeEndsStep DEF ProbeConnects
  <2>2. CASE transport # "raw"
    <3>1. /\ reach.at = "connect" /\ reach' = [reach EXCEPT !.at = "flight"]
          /\ UNCHANGED <<transport, verdict, cancelTok, report, blamed>>
      BY <1>2, <2>2 DEF ProbeConnects, ProbeStep, gateConf, walkVars
    <3>2. reach' \in Reaches /\ reach'.at = "flight" /\ reach'.verdict = reach.verdict
      BY <3>1, ReachFields, Zenon DEF GateIInv, ReachOK
    <3>3. reach.verdict # "blocked"
      BY <3>1 DEF GateIInv, ReachOK
    <3> QED BY <2>2, <3>1, <3>2, <3>3 DEF GateIInv, ReachOK, ReportOK
  <2> QED BY <2>1, <2>2
<1>3. CASE ProbeConnectFails
  BY <1>3, ProbeEndsStep DEF ProbeConnectFails
<1>4. CASE PeerAnswers
  <2>1. /\ reach.at = "flight" /\ reach' = [reach EXCEPT !.saw = TRUE]
        /\ UNCHANGED <<transport, verdict, cancelTok, report, blamed>>
    BY <1>4 DEF PeerAnswers, ProbeStep, gateConf, walkVars
  <2>2. reach' \in Reaches /\ reach'.at = "flight" /\ reach'.verdict = reach.verdict
    BY <2>1, ReachFields, Zenon DEF GateIInv, ReachOK
  <2>3. reach.verdict # "blocked"
    BY <2>1 DEF GateIInv, ReachOK
  <2> QED BY <2>1, <2>2, <2>3 DEF GateIInv, ReachOK, ReportOK
<1>5. CASE FlightEnds
  <2>0. reach.at = "flight" /\ transport # "raw"
    BY <1>5 DEF FlightEnds, GateIInv, ReachOK
  <2>1. CASE ProbeEnds(FlightVerdict)
    <3>1. FlightVerdict \in {"reachable", "blocked"} /\ (FlightVerdict = "blocked" => ~reach.saw)
      BY DEF FlightVerdict
    <3> QED BY <2>0, <2>1, <3>1, ProbeEndsStep
  <2>2. CASE ProbeEnds("inconclusive")
    BY <2>0, <2>2, ProbeEndsStep
  <2> QED BY <1>5, <2>1, <2>2 DEF FlightEnds
<1>6. CASE ProbeCancelled
  BY <1>6, ProbeEndsStep DEF ProbeCancelled
<1>7. CASE GateReturns
  <2>1. verdict # "running" /\ UNCHANGED <<transport, verdict, reach, cancelTok>>
    BY <1>7 DEF GateReturns, gateConf, walkVars
  <2>2. CASE cancelTok \/ verdict = "cancelled"
    <3>1. report' = "cancelled"
      BY <1>7, <2>2 DEF GateReturns
    <3>2. ~blamed'
      BY Zenon, <1>7, <2>2 DEF GateReturns
    <3> QED BY <2>1, <3>1, <3>2 DEF GateIInv, ReachOK, ReportOK
  <2>3. CASE ~cancelTok /\ verdict = "ok"
    <3>1. report' = "passed" /\ ~blamed'
      BY Zenon, <1>7, <2>3 DEF GateReturns
    <3> QED BY <2>1, <2>3, <3>1 DEF GateIInv, ReachOK, ReportOK
  <2>4. CASE ~cancelTok /\ verdict \notin {"ok", "cancelled"}
    <3>1. report' = SelfTestError /\ (blamed' <=> Implicates)
      BY Zenon, <1>7, <2>4 DEF GateReturns
    <3>2. CASE NetworkAtFault
      <4>1. report' = reach.verdict /\ ~blamed' /\ reach.verdict # "none"
        BY <3>1, <3>2 DEF SelfTestError, Implicates, NetworkAtFault, NetworkVerdicts
      <4> QED BY <2>1, <2>4, <4>1 DEF GateIInv, ReachOK, ReportOK
    <3>3. CASE ~NetworkAtFault
      <4>1. report' = verdict /\ (blamed' => verdict \in TunnelReasons)
        BY <3>1, <3>3 DEF SelfTestError, Implicates
      <4>2. verdict # "blocked" /\ (blamed' => report' \notin NetworkVerdicts \cup {"cancelled"} /\ report' # "none")
        BY <4>1 DEF NetworkVerdicts, TunnelReasons
      <4> QED BY <2>1, <2>4, <4>1, <4>2 DEF GateIInv, ReachOK, ReportOK
    <3> QED BY <3>2, <3>3
  <2> QED BY <2>2, <2>3, <2>4
<1> QED BY Zenon, <1>1, <1>2, <1>3, <1>4, <1>5, <1>6, <1>7

\* Every step of the start's gate.
LEMMA FwdStep ==
  ASSUME WalkIInv, GateIInv, [FwdNext]_fwdVars
  PROVE  WalkIInv' /\ GateIInv'
<1>1. CASE SkipServer \/ BeginAttempt \/ Dialled \/ BytesArrive \/ TlsDone \/ AttemptFails
  <2>1. UNCHANGED <<transport, reach, cancelTok, report, blamed, verdict>>
    BY <1>1 DEF SkipServer, BeginAttempt, Dialled, BytesArrive, TlsDone, AttemptFails, WalkOnly, gateConf
  <2> QED BY <1>1, <2>1, WalkSteps, GateFrame
<1>2. CASE Replies \/ WalkEnds \/ TestCancelled
  <2>1. UNCHANGED <<transport, reach, cancelTok, report, blamed>> /\ verdict = "running"
    BY <1>2 DEF Replies, WalkEnds, TestCancelled, Walking, WalkOnly, gateConf
  <2> QED BY <1>2, <2>1, VerdictSteps, GateFrame
<1>3. CASE CancelStart \/ ProbeConnects \/ ProbeConnectFails \/ PeerAnswers \/ FlightEnds
             \/ ProbeCancelled \/ GateReturns
  <2>1. UNCHANGED <<family, walkVars>>
    BY <1>3, Zenon DEF CancelStart, ProbeConnects, ProbeConnectFails, PeerAnswers, FlightEnds, ProbeCancelled,
             GateReturns, ProbeEnds, ProbeStep, gateConf
  <2>2. verdict \notin NetworkVerdicts
    BY DEF WalkIInv, WalkTypeOK, TunnelReasons, NetworkVerdicts
  <2> QED BY <1>3, <2>1, <2>2, WalkFrame, GateSteps
<1>4. CASE UNCHANGED fwdVars
  <2>1. UNCHANGED <<family, walkVars>> /\ UNCHANGED <<transport, reach, cancelTok, report, blamed, verdict>>
    BY <1>4 DEF fwdVars, walkVars
  <2> QED BY <2>1, WalkFrame, GateFrame
<1> QED BY <1>1, <1>2, <1>3, <1>4 DEF FwdNext

\* What the invariants of the walk and of the gate say of the blame.
LEMMA BlameFollows == WalkIInv /\ GateIInv => BlameTrue
<1> SUFFICES ASSUME WalkIInv, GateIInv PROVE BlameTrue
  OBVIOUS
<1>1. VerdictTrue /\ (blamed => ~Read)
  BY ClaimSets DEF WalkIInv, ClaimsOK, GateIInv, ReportOK
<1>2. GateBlamesRightly
  BY <1>1 DEF GateIInv, ReachOK, ReportOK, GateBlamesRightly
<1> QED BY <1>1, <1>2 DEF BlameTrue

-----------------------------------------------------------------------------
(* The bootstrap.                                                          *)

Errors == LegFailures \cup {"no_answer"}
Outcomes == LegFailures \cup LegAnswers \cup {"address"}

\* The values of what the bootstrap keeps.
BootTypeOK ==
  /\ at \in 1 .. MaxServers + 1 /\ leg \in {"a", "aaaa", "plain", "done"}
  /\ leg \in {"a", "aaaa"} => at \in Servers
  /\ v6Found \in Servers \cup {0} /\ reachable \in Servers \cup {0} /\ via \in Servers \cup {0}
  /\ worstErr \in Errors \cup {"none"} /\ result \in Errors \cup {"none", "address"}
  /\ selected \subseteq Servers
  /\ asked \in [Servers -> SUBSET Outcomes]

\* The strongest failure so far is at least each that was seen.
WorstOK ==
  \A s \in Servers : \A e \in asked[s] \cap LegFailures :
    worstErr # "none" /\ BootRank(worstErr) >= BootRank(e)

\* What was found was found at the resolver it is put down to.
FoundOK ==
  /\ v6Found # 0 => "address" \in asked[v6Found]
  /\ reachable # 0 => asked[reachable] \cap LegAnswers # {}

\* The pin is of a resolver that was heard from and is selected.
PinOK ==
  /\ leg # "done" => selected = Servers
  /\ leg = "done" /\ result = "address" /\ via # 0 =>
       via \in selected /\ asked[via] \cap (LegAnswers \cup {"address"}) # {}

BootIInv == BootTypeOK /\ WorstOK /\ FoundOK /\ PinOK /\ StrongestFailureReported

\* The ranks are numbers, and a fold keeps the higher.
LEMMA FoldHigher ==
  ASSUME NEW w \in Errors \cup {"none"}, NEW e \in Errors
  PROVE  /\ Fold(w, e) \in Errors
         /\ BootRank(Fold(w, e)) >= BootRank(e)
         /\ w # "none" => BootRank(Fold(w, e)) >= BootRank(w)
<1>1. \A x \in Errors : BootRank(x) \in 1 .. 6
  BY DEF BootRank, Errors, LegFailures
<1>2. CASE w = "none" \/ BootRank(e) > BootRank(w)
  <2>1. Fold(w, e) = e
    BY <1>2 DEF Fold
  <2> QED BY <1>1, <1>2, <2>1
<1>3. CASE ~(w = "none" \/ BootRank(e) > BootRank(w))
  <2>1. Fold(w, e) = w /\ w \in Errors
    BY <1>3 DEF Fold
  <2> QED BY <1>1, <1>3, <2>1
<1> QED BY <1>2, <1>3

\* A fold leaves nothing behind that was seen before, and counts what is new.
LEMMA WorstStep ==
  ASSUME BootTypeOK, WorstOK, at \in Servers, NEW out \in Outcomes,
         asked' = [asked EXCEPT ![at] = @ \cup {out}],
         worstErr' \in {worstErr} \cup {Fold(worstErr, e) : e \in Errors},
         out \in LegFailures => worstErr' = Fold(worstErr, out)
  PROVE  WorstOK' /\ worstErr' \in Errors \cup {"none"}
<1>0. worstErr \in Errors \cup {"none"} /\ asked \in [Servers -> SUBSET Outcomes] /\ LegFailures \subseteq Errors
  BY DEF BootTypeOK, Errors
<1>1. \A x \in Errors : BootRank(x) \in 1 .. 6
  BY DEF BootRank, Errors, LegFailures
<1>2. /\ worstErr' \in Errors \cup {"none"}
      /\ worstErr # "none" => worstErr' # "none" /\ BootRank(worstErr') >= BootRank(worstErr)
  <2>1. CASE worstErr' = worstErr
    BY <1>0, <1>1, <2>1
  <2>2. ASSUME NEW e \in Errors, worstErr' = Fold(worstErr, e)
        PROVE  /\ worstErr' \in Errors
               /\ worstErr # "none" => BootRank(worstErr') >= BootRank(worstErr)
    BY <1>0, <2>2, FoldHigher
  <2>3. "none" \notin Errors
    BY DEF Errors, LegFailures
  <2> QED BY <2>1, <2>2, <2>3
<1>3. out \in LegFailures => worstErr' # "none" /\ BootRank(worstErr') >= BootRank(out)
  <2>1. "none" \notin Errors
    BY DEF Errors, LegFailures
  <2> QED BY <1>0, <2>1, FoldHigher
<1>4. ASSUME NEW s \in Servers, NEW e \in asked'[s] \cap LegFailures
      PROVE  worstErr' # "none" /\ BootRank(worstErr') >= BootRank(e)
  <2>1. CASE e \in asked[s]
    <3>1. worstErr # "none" /\ BootRank(worstErr) >= BootRank(e)
      BY <2>1 DEF WorstOK
    <3>2. worstErr \in Errors /\ worstErr' \in Errors /\ e \in Errors
      BY <1>0, <1>2, <3>1
    <3> QED BY <1>1, <1>2, <3>1, <3>2
  <2>2. CASE e \notin asked[s]
    <3>1. e = out
      BY <1>0, <2>2
    <3> QED BY <1>3, <3>1
  <2> QED BY <2>1, <2>2
<1> QED BY <1>2, <1>4 DEF WorstOK

\* The next resolver.
LEMMA NextServerIs ==
  ASSUME at \in Servers, NextServer
  PROVE  /\ at' \in 1 .. MaxServers + 1 /\ leg' \in {"a", "plain"}
         /\ leg' = "a" => at' \in Servers
  BY ForwardAssumption DEF NextServer, Servers

\* A bootstrap that has asked nobody.
LEMMA BootInitIInv == BootInit => BootIInv
<1> SUFFICES ASSUME BootInit PROVE BootIInv
  OBVIOUS
<1>1. BootTypeOK
  BY ForwardAssumption DEF BootInit, BootTypeOK, Servers
<1>2. WorstOK /\ FoundOK /\ PinOK /\ StrongestFailureReported
  BY DEF BootInit, WorstOK, FoundOK, PinOK, StrongestFailureReported
<1> QED BY <1>1, <1>2 DEF BootIInv

\* One question to one resolver.
LEMMA LegStep ==
  ASSUME BootIInv, ALeg \/ AaaaLeg
  PROVE  BootIInv'
<1> USE DEF BootIInv
<1>0. at \in Servers /\ leg \in {"a", "aaaa"} /\ UNCHANGED <<allow, selected>> /\ selected = Servers
  BY DEF ALeg, AaaaLeg, BootTypeOK, PinOK
<1>1. PICK out \in Outcomes :
        /\ asked' = [asked EXCEPT ![at] = @ \cup {out}]
        /\ worstErr' \in {worstErr} \cup {Fold(worstErr, e) : e \in Errors}
        /\ out \in LegFailures => worstErr' = Fold(worstErr, out)
        /\ reachable' = (IF out \in LegAnswers /\ reachable = 0 THEN at ELSE reachable) \/ reachable' = reachable
        /\ \/ /\ out = "address" /\ result' = "address" /\ via' = at /\ leg' = "done" /\ UNCHANGED <<at, v6Found>>
           \/ /\ UNCHANGED <<result, via>>
              /\ v6Found' = v6Found \/ (v6Found' = at /\ out = "address")
              /\ NextServer \/ (leg' = "aaaa" /\ at' = at)
  <2>1. CASE ALeg
    BY Zenon, <2>1 DEF ALeg, Outcomes, Errors, LegFailures, LegAnswers
  <2>2. CASE AaaaLeg
    BY Zenon, <2>2 DEF AaaaLeg, Outcomes, Errors, LegFailures, LegAnswers
  <2> QED BY <2>1, <2>2
<1>2. WorstOK' /\ worstErr' \in Errors \cup {"none"}
  BY Zenon, <1>0, <1>1, WorstStep
<1>3. /\ asked' \in [Servers -> SUBSET Outcomes]
      /\ \A s \in Servers : asked[s] \subseteq asked'[s]
      /\ out \in asked'[at]
  BY Zenon, <1>0, <1>1 DEF BootTypeOK
<1>4. /\ at' \in 1 .. MaxServers + 1 /\ leg' \in {"a", "aaaa", "plain", "done"}
      /\ leg' \in {"a", "aaaa"} => at' \in Servers
  BY Zenon, <1>0, <1>1, NextServerIs DEF BootTypeOK
<1>5. /\ reachable' \in Servers \cup {0} /\ v6Found' \in Servers \cup {0} /\ via' \in Servers \cup {0}
      /\ result' \in Errors \cup {"none", "address"}
  BY Zenon, <1>0, <1>1 DEF BootTypeOK
<1>6. BootTypeOK'
  BY <1>0, <1>2, <1>3, <1>4, <1>5 DEF BootTypeOK
<1>7. 0 \notin Servers
  BY DEF Servers
<1>8. FoundOK'
  <2>1. v6Found' # 0 => "address" \in asked'[v6Found']
    BY Zenon, <1>0, <1>1, <1>3, <1>7 DEF FoundOK, BootTypeOK
  <2>2. reachable' # 0 => asked'[reachable'] \cap LegAnswers # {}
    BY <1>0, <1>1, <1>3, <1>7 DEF FoundOK, BootTypeOK
  <2> QED BY Zenon, <2>1, <2>2 DEF FoundOK
<1>9. leg' = "done" => out = "address" /\ result' = "address" /\ via' = at
  BY Zenon, <1>1 DEF NextServer
<1>10. PinOK' /\ StrongestFailureReported'
  BY <1>0, <1>3, <1>9 DEF PinOK, StrongestFailureReported
<1> QED BY <1>2, <1>6, <1>8, <1>10

\* The end of a bootstrap.
LEMMA ConcludeStep ==
  ASSUME BootIInv, Conclude
  PROVE  BootIInv'
<1> USE DEF BootIInv
<1>1. /\ leg = "plain" /\ leg' = "done" /\ selected = Servers
      /\ UNCHANGED <<at, aAnswered, v6Found, reachable, worstErr, allow, selected, asked>>
  BY DEF Conclude, PinOK
<1>2. \/ v6Found # 0 /\ result' = "address" /\ via' = v6Found
      \/ result' = (IF worstErr = "none" THEN "no_answer" ELSE worstErr) /\ via' = 0
      \/ result' = "address" /\ via' = reachable
  BY DEF Conclude
<1>3. "address" \notin Errors /\ "no_answer" \in Errors
  BY DEF Errors, LegFailures
<1>4. BootTypeOK'
  BY <1>1, <1>2, <1>3 DEF BootTypeOK
<1>5. WorstOK' /\ FoundOK'
  BY Zenon, <1>1 DEF WorstOK, FoundOK
<1>6. PinOK'
  <2>1. v6Found # 0 => v6Found \in Servers /\ asked[v6Found] \cap (LegAnswers \cup {"address"}) # {}
    BY DEF FoundOK, BootTypeOK
  <2>2. reachable # 0 => reachable \in Servers /\ asked[reachable] \cap (LegAnswers \cup {"address"}) # {}
    BY DEF FoundOK, BootTypeOK
  <2> QED BY <1>1, <1>2, <2>1, <2>2 DEF PinOK
<1>7. StrongestFailureReported'
  BY <1>1, <1>2 DEF StrongestFailureReported, WorstOK
<1> QED BY Zenon, <1>4, <1>5, <1>6, <1>7

\* Every step of the bootstrap and of a later start.
LEMMA BootStep ==
  ASSUME BootIInv, [BootNext]_bootVars
  PROVE  BootIInv'
<1>1. CASE Restart
  <2>1. /\ leg = "done" /\ result = "address" /\ selected' \in SUBSET Servers
        /\ via' = Revalidate(via, selected')
        /\ UNCHANGED <<at, leg, v6Found, reachable, worstErr, result, asked>>
    BY <1>1 DEF Restart
  <2>2. via' = 0 \/ (via' = via /\ via \in selected')
    BY <2>1 DEF Revalidate
  <2>3. BootTypeOK'
    BY <2>1, <2>2 DEF BootIInv, BootTypeOK
  <2>4. WorstOK' /\ FoundOK' /\ StrongestFailureReported'
    BY Zenon, <2>1 DEF BootIInv, WorstOK, FoundOK, StrongestFailureReported
  <2>5. PinOK'
    BY Zenon, <2>1, <2>2 DEF BootIInv, PinOK
  <2> QED BY <2>3, <2>4, <2>5 DEF BootIInv
<1>2. CASE UNCHANGED bootVars
  BY <1>2 DEF bootVars, BootIInv, BootTypeOK, WorstOK, FoundOK, PinOK, StrongestFailureReported
<1> QED BY <1>1, <1>2, LegStep, ConcludeStep DEF BootNext

\* Of several resolvers one is the first.
LEMMA FirstSelected ==
  ASSUME NEW S \in SUBSET Nat, S # {}
  PROVE  \E s \in S : \A r \in S : s <= r
<1> DEFINE R == OpToRel(<, Nat)
<1>1. IsWellFoundedOn(R, Nat)
  BY Zenon, NatLessThanWellFounded
<1>2. \A x, y \in Nat : x < y => <<x, y>> \in R
  BY DEF OpToRel
<1> HIDE DEF R
<1>3. PICK s \in S : \A r \in S : ~(<<r, s>> \in R)
  BY Zenon, <1>1, WFMin
<1>4. \A r \in S : ~(r < s)
  BY Zenon, <1>2, <1>3
<1> QED BY <1>4

\* What the invariant says of the bootstrap's result.
LEMMA BootFollows == BootIInv => BootstrapTrue
<1> SUFFICES ASSUME BootIInv PROVE BootstrapTrue
  BY Zenon
<1>1. ASSUME leg = "done", result = "address"
      PROVE  /\ via # 0 => asked[via] \cap (LegAnswers \cup {"address"}) # {}
             /\ selected # {} \/ via # 0 => EchResolver \in selected
  <2>1. via # 0 => via \in selected /\ asked[via] \cap (LegAnswers \cup {"address"}) # {}
    BY <1>1 DEF BootIInv, PinOK
  <2>2. selected \in SUBSET Nat
    BY DEF BootIInv, BootTypeOK, Servers
  <2>3. CASE via # 0
    BY <2>1, <2>3 DEF EchResolver
  <2>4. CASE via = 0 /\ selected # {}
    <3>1. \E s \in selected : \A r \in selected : s <= r
      BY <2>2, <2>4, FirstSelected
    <3>2. (CHOOSE s \in selected : \A r \in selected : s <= r) \in selected
      BY <3>1, Zenon
    <3> QED BY <2>4, <3>2 DEF EchResolver
  <2> QED BY <2>1, <2>3, <2>4
<1> QED BY <1>1 DEF BootIInv, BootstrapTrue, PinHonest

\* What the resolvers told the start is told on as it was: the self-test's
\* verdict and the gate's blame (self_test.rs, start_inner), the bootstrap's
\* failure and its pin (bootstrap.rs, ech.rs), for any number of resolvers.
THEOREM AnswersAlwaysTrue == ForwardSpec => []AnswersTrue
<1>1. WalkIInv /\ GateIInv /\ [FwdNext]_fwdVars => WalkIInv' /\ GateIInv'
  BY FwdStep
<1>2. BootIInv /\ [BootNext]_bootVars => BootIInv'
  BY BootStep
<1> QED
  BY WalkInitIInv, GateInitIInv, BootInitIInv, BlameFollows, BootFollows, <1>1, <1>2, PTL
     DEF ForwardSpec, AnswersTrue

=============================================================================
