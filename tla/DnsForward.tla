----------------------------- MODULE DnsForward -----------------------------
(***************************************************************************)
(* DNS through and around the tunnel: the forwarder that walks the         *)
(* configured resolvers (crates/bridge/src/dns/forwarder.rs) as the        *)
(* start-time self-test runs it (dns/self_test.rs), and the bootstrap that *)
(* resolves the proxy server's own name before any tunnel exists           *)
(* (dns/bootstrap.rs, dns/ech.rs).                                         *)
(*                                                                         *)
(* Two state machines.  A reply is abstracted to what the code tells apart *)
(* in it, a byte counter to whether it is zero.                            *)
(***************************************************************************)
EXTENDS Naturals, Sequences, FiniteSets

CONSTANTS MaxServers     \* resolvers configured

ASSUME ForwardAssumption == MaxServers \in Nat

Servers == 1..MaxServers

-----------------------------------------------------------------------------
(* Causes and their report priority                                        *)

Rank(cause) ==
    CASE cause = "certificate" -> 6 [] cause = "tls" -> 5 [] cause = "response" -> 4
      [] cause = "io" -> 3 [] cause = "exchange_timeout" -> 2
      [] cause = "connect_timeout" -> 1 [] cause = "unreachable" -> 0

Worse(worst, cause) == IF worst = "none" \/ Rank(cause) > Rank(worst) THEN cause ELSE worst

-----------------------------------------------------------------------------
(* The start gate: the self-test's walk, and the reachability probe beside *)
(* it                                                                      *)

VARIABLES
    protocol,   \* DnsConfig::protocol
    family,     \* per configured server: "v4" or "v6"
    v6Ok,       \* ipv6_bypass_available
    server,     \* the server being tried
    stage,      \* "next", "dial", "tls", "exchange" of the current attempt
    probe,      \* AttemptProbe: what the attempt opened and read
    moved,      \* UpstreamActivity over the walk
    walk,       \* the walk's worst cause
    verdict,    \* the self-test's outcome, or "running"
    transport,  \* the plugin's wire, as classify_transport reads it
    reach,      \* the probe task: where it is, whether a byte came back, its verdict
    cancelTok,  \* the start's cancel token
    report,     \* what the gate told the start: an error, "passed" or "none"
    blamed,     \* the plugin's output was reported as the suspect
    history     \* per server: what its attempt really did

fwdVars == <<protocol, family, v6Ok, server, stage, probe, moved, walk, verdict, transport,
             reach, cancelTok, report, blamed, history>>
walkVars == <<server, stage, probe, moved, walk, verdict, history>>
gateConf == <<protocol, family, v6Ok, transport>>

Protocols == {"udp", "tcp", "tls", "https"}
Transports == {"raw", "ws", "tls_ws", "quic"}
TunnelReasons == {"no_connection", "silent", "setup_pending", "inconclusive"}
NetworkVerdicts == {"blocked", "refused", "timeout"}
NoProbe == [stream |-> FALSE, datagram |-> FALSE, read |-> FALSE]
Untouched == [opened |-> FALSE, read |-> FALSE, outstanding |-> FALSE, tried |-> FALSE]
NoActivity == [read |-> FALSE, connects |-> FALSE, associates |-> FALSE, timeouts |-> FALSE]

(* A cover that blocks the host keeps the probe from running: "absent".     *)
FwdInit ==
    /\ protocol \in Protocols /\ v6Ok \in BOOLEAN
    /\ family \in UNION {[1..n -> {"v4", "v6"}] : n \in 1..MaxServers}
    /\ server = 1 /\ stage = "next" /\ probe = NoProbe /\ moved = NoActivity
    /\ walk = "none" /\ verdict = "running"
    /\ transport \in Transports
    /\ reach \in [at : {"absent", IF transport = "quic" THEN "flight" ELSE "connect"},
                   saw : {FALSE}, verdict : {"none"}]
    /\ cancelTok = FALSE /\ report = "none" /\ blamed = FALSE
    /\ history = [s \in DOMAIN family |-> Untouched]

(* The select is biased to the token: a cancelled walk takes no step.       *)
Walking == verdict = "running" /\ ~cancelTok
WalkOnly == UNCHANGED <<gateConf, reach, cancelTok, report, blamed>>

(* An IPv6 resolver without an IPv6 path is passed over.                    *)
SkipServer ==
    /\ Walking /\ stage = "next" /\ server \in DOMAIN family
    /\ family[server] = "v6" /\ ~v6Ok
    /\ server' = server + 1
    /\ UNCHANGED <<stage, probe, moved, walk, verdict, history>> /\ WalkOnly

BeginAttempt ==
    /\ Walking /\ stage = "next" /\ server \in DOMAIN family
    /\ family[server] = "v6" => v6Ok
    /\ stage' = "dial" /\ probe' = NoProbe
    /\ history' = [history EXCEPT ![server].tried = TRUE]
    /\ UNCHANGED <<server, moved, walk, verdict>> /\ WalkOnly

(* connect_tcp or connect_udp returns and the probe learns of it.           *)
Dialled ==
    /\ Walking /\ stage = "dial"
    /\ stage' = IF protocol \in {"tls", "https"} THEN "tls" ELSE "exchange"
    /\ probe' = IF protocol = "udp" THEN [probe EXCEPT !.datagram = TRUE]
                                    ELSE [probe EXCEPT !.stream = TRUE]
    /\ history' = [history EXCEPT ![server].opened = TRUE]
    /\ UNCHANGED <<server, moved, walk, verdict>> /\ WalkOnly

(* A byte of a handshake or a reply arrives.                                *)
BytesArrive ==
    /\ Walking /\ stage \in {"tls", "exchange"} /\ ~probe.read
    /\ probe' = [probe EXCEPT !.read = TRUE]
    /\ history' = [history EXCEPT ![server].read = TRUE]
    /\ UNCHANGED <<server, stage, moved, walk, verdict>> /\ WalkOnly

TlsDone ==
    /\ Walking /\ stage = "tls" /\ probe.read
    /\ stage' = "exchange"
    /\ UNCHANGED <<server, probe, moved, walk, verdict, history>> /\ WalkOnly

(* UpstreamErr::cause: a timeout is told apart by what the probe had seen.  *)
TimeoutCause == IF probe.stream \/ probe.datagram THEN "exchange_timeout" ELSE "connect_timeout"

FailureCauses ==
    CASE stage = "dial" -> {"unreachable", TimeoutCause}
      [] stage = "tls" -> {"tls", TimeoutCause} \cup (IF probe.read THEN {"certificate"} ELSE {})
      [] stage = "exchange" -> {"io", TimeoutCause} \cup (IF protocol = "https" THEN {"response"} ELSE {})

MutCounted(cause) ==
    [read |-> moved.read \/ probe.read,
     connects |-> moved.connects \/ (probe.stream /\ cause # "exchange_timeout"),
     associates |-> moved.associates \/ probe.datagram,
     timeouts |-> moved.timeouts \/ cause = "connect_timeout"]

(* forward_one folds the probe into the activity counters on every path.    *)
Counted(cause) ==
    [read |-> moved.read \/ probe.read,
     connects |-> moved.connects \/ probe.stream,
     associates |-> moved.associates \/ probe.datagram,
     timeouts |-> moved.timeouts \/ cause = "connect_timeout"]

AttemptFails ==
    /\ Walking /\ stage \in {"dial", "tls", "exchange"}
    /\ \E cause \in FailureCauses :
           /\ walk' = Worse(walk, cause)
           /\ moved' = Counted(cause)
           /\ history' = [history EXCEPT ![server].outstanding =
                             stage = "dial" /\ cause # "unreachable"]
    /\ server' = server + 1 /\ stage' = "next"
    /\ UNCHANGED <<probe, verdict>> /\ WalkOnly

(* The first server to answer ends the walk; what is too short to be a     *)
(* reply, and SERVFAIL, fail the test with the tunnel exonerated.  An empty *)
(* datagram is an answer of no bytes.                                       *)
Replies ==
    /\ Walking /\ stage = "exchange" /\ (probe.read \/ protocol = "udp")
    /\ moved' = Counted("none") /\ history' = [history EXCEPT ![server].read = TRUE]
    /\ verdict' \in (IF probe.read THEN {"ok", "other"} ELSE {"other"})
    /\ UNCHANGED <<server, stage, probe, walk>> /\ WalkOnly

MutClassify(m, w) ==
    CASE w = "none" \/ m.read -> "other"
      [] ~m.read /\ m.connects -> "silent"
      [] ~m.read /\ ~m.connects /\ m.associates -> "inconclusive"
      [] OTHER -> "no_connection"

(* classify_failure on what the walk dialled and the counters moved.        *)
Classify(m, w) ==
    CASE w = "none" \/ m.read -> "other"
      [] w # "none" /\ ~m.read /\ m.connects -> "silent"
      [] w # "none" /\ ~m.read /\ ~m.connects /\ m.associates -> "inconclusive"
      [] w # "none" /\ ~m.read /\ ~m.connects /\ ~m.associates /\ m.timeouts -> "setup_pending"
      [] OTHER -> "no_connection"

WalkEnds ==
    /\ Walking /\ stage = "next" /\ server = Len(family) + 1
    /\ verdict' = Classify(moved, walk)
    /\ UNCHANGED <<server, stage, probe, moved, walk, history>> /\ WalkOnly

TestCancelled ==
    /\ verdict = "running" /\ cancelTok
    /\ verdict' = "cancelled"
    /\ UNCHANGED <<server, stage, probe, moved, walk, history>> /\ WalkOnly

CancelStart ==
    /\ report = "none" /\ ~cancelTok
    /\ cancelTok' = TRUE
    /\ UNCHANGED <<gateConf, walkVars, reach, report, blamed>>

(* The probe task: connect, then the transport's first flight.              *)
ProbeStep(r) ==
    /\ reach' = r
    /\ UNCHANGED <<gateConf, walkVars, cancelTok, report, blamed>>
ProbeEnds(v) == ProbeStep([reach EXCEPT !.at = "done", !.verdict = v])

ProbeConnects ==
    /\ reach.at = "connect"
    /\ IF transport = "raw" THEN ProbeEnds("reachable")
                            ELSE ProbeStep([reach EXCEPT !.at = "flight"])

ProbeConnectFails == reach.at = "connect" /\ \E v \in {"refused", "timeout"} : ProbeEnds(v)

PeerAnswers == reach.at = "flight" /\ ~reach.saw /\ ProbeStep([reach EXCEPT !.saw = TRUE])

MutFlightVerdict == "blocked"

FlightVerdict == IF reach.saw THEN "reachable" ELSE "blocked"

FlightEnds ==
    /\ reach.at = "flight"
    /\ \/ ProbeEnds(FlightVerdict)
       \/ transport = "quic" /\ ProbeEnds("inconclusive")

ProbeCancelled == reach.at \in {"connect", "flight"} /\ cancelTok /\ ProbeEnds("inconclusive")

(* self_test_error_for and implicates_plugin_transport                      *)
NetworkAtFault == reach.verdict \in NetworkVerdicts
SelfTestError == IF NetworkAtFault THEN reach.verdict ELSE verdict
Implicates == verdict \in TunnelReasons /\ ~NetworkAtFault

MutGateReturns ==
    /\ report = "none" /\ verdict # "running"
    /\ verdict \notin {"ok", "cancelled"} => reach.at \in {"absent", "done"}
    /\ report' = CASE verdict = "cancelled" -> "cancelled"
                   [] verdict = "ok" -> IF cancelTok THEN "cancelled" ELSE "passed"
                   [] OTHER -> SelfTestError
    /\ blamed' = (verdict \notin {"ok", "cancelled"} /\ Implicates)
    /\ UNCHANGED <<gateConf, walkVars, reach, cancelTok>>

(* A failed test waits for the probe; a cancel that came meanwhile is the   *)
(* answer, whatever either of them found.                                   *)
GateReturns ==
    /\ report = "none" /\ verdict # "running"
    /\ verdict \notin {"ok", "cancelled"} => reach.at \in {"absent", "done"}
    /\ report' = IF cancelTok \/ verdict = "cancelled" THEN "cancelled"
                 ELSE IF verdict = "ok" THEN "passed" ELSE SelfTestError
    /\ blamed' = (verdict \notin {"ok", "cancelled"} /\ ~cancelTok /\ Implicates)
    /\ UNCHANGED <<gateConf, walkVars, reach, cancelTok>>

FwdNext ==
    \/ SkipServer \/ BeginAttempt \/ Dialled \/ BytesArrive \/ TlsDone \/ AttemptFails
    \/ Replies \/ WalkEnds \/ TestCancelled \/ CancelStart
    \/ ProbeConnects \/ ProbeConnectFails \/ PeerAnswers \/ FlightEnds \/ ProbeCancelled
    \/ GateReturns

-----------------------------------------------------------------------------
(* The bootstrap                                                           *)

VARIABLES
    at,         \* the resolver being asked; MaxServers + 1 when all were
    leg,        \* "a", "aaaa", "plain", "done"
    aAnswered,  \* this resolver's A leg was answered
    v6Found,    \* the resolver that gave an IPv6 address, or 0
    reachable,  \* the first resolver that answered at all, or 0
    worstErr,   \* the strongest failure folded so far, or "none"
    allow,      \* dns.allow_insecure_bootstrap
    result,     \* "none", "address" or the failure
    via,        \* PinSource: a resolver, 0 for SecureBootstrapFailed
    selected,   \* the resolvers of the configuration a later start uses
    asked       \* per resolver: the outcomes of the legs it was really asked

bootVars == <<at, leg, aAnswered, v6Found, reachable, worstErr, allow, result, via, selected, asked>>

(* classify maps the forwarder's causes, run_leg a reply it cannot parse.   *)
BootRank(e) ==
    CASE e = "certificate" -> 6 [] e = "malformed" -> 5 [] e = "no_answer" -> 4
      [] e = "transport" -> 3 [] e = "timeout" -> 2 [] e = "unreachable" -> 1

MutFold(worst, e) == IF worst = "none" THEN e ELSE worst

Fold(worst, e) == IF worst = "none" \/ BootRank(e) > BootRank(worst) THEN e ELSE worst

LegFailures == {"certificate", "malformed", "transport", "timeout", "unreachable"}
LegAnswers == {"empty", "missing"}

BootInit ==
    /\ at = 1 /\ leg = (IF MaxServers = 0 THEN "plain" ELSE "a")
    /\ aAnswered = FALSE /\ v6Found = 0 /\ reachable = 0 /\ worstErr = "none"
    /\ allow \in BOOLEAN /\ result = "none" /\ via = 0
    /\ selected = Servers /\ asked = [s \in Servers |-> {}]

NextServer ==
    /\ at' = at + 1 /\ aAnswered' = FALSE
    /\ leg' = IF at = MaxServers THEN "plain" ELSE "a"

(* The A leg: an IPv4 address ends the resolution.                          *)
ALeg ==
    /\ leg = "a"
    /\ \E out \in LegFailures \cup LegAnswers \cup {"address"} :
        /\ asked' = [asked EXCEPT ![at] = @ \cup {out}]
        /\ IF out = "address"
           THEN /\ result' = "address" /\ via' = at /\ leg' = "done"
                /\ UNCHANGED <<at, aAnswered, reachable, worstErr>>
           ELSE /\ reachable' = IF out \in LegAnswers /\ reachable = 0 THEN at ELSE reachable
                /\ worstErr' = CASE out \in LegFailures -> Fold(worstErr, out)
                                 [] out = "missing" -> Fold(worstErr, "no_answer")
                                 [] OTHER -> worstErr
                /\ IF v6Found = 0
                   THEN leg' = "aaaa" /\ aAnswered' = (out \in LegAnswers) /\ UNCHANGED at
                   ELSE NextServer
                /\ UNCHANGED <<result, via>>
    /\ UNCHANGED <<v6Found, allow, selected>>

(* The AAAA leg: an IPv6 address is kept in case no resolver has an IPv4.   *)
AaaaLeg ==
    /\ leg = "aaaa"
    /\ \E out \in LegFailures \cup LegAnswers \cup {"address"} :
        /\ asked' = [asked EXCEPT ![at] = @ \cup {out}]
        /\ v6Found' = IF out = "address" THEN at ELSE v6Found
        /\ reachable' = IF out \in LegAnswers /\ reachable = 0 THEN at ELSE reachable
        /\ worstErr' = CASE out \in LegFailures -> Fold(worstErr, out)
                         [] out = "missing" \/ (out = "empty" /\ aAnswered) ->
                                Fold(worstErr, "no_answer")
                         [] OTHER -> worstErr
    /\ NextServer
    /\ UNCHANGED <<allow, result, via, selected>>

(* After the loop: the kept IPv6 address, the failure, or, if allowed, the  *)
(* operating system's resolver.                                             *)
Conclude ==
    /\ leg = "plain"
    /\ leg' = "done"
    /\ LET failure == IF worstErr = "none" THEN "no_answer" ELSE worstErr
       IN  IF v6Found # 0 THEN result' = "address" /\ via' = v6Found
           ELSE \/ result' = failure /\ via' = 0
                \/ allow /\ result' = "address" /\ via' = reachable
    /\ UNCHANGED <<at, aAnswered, v6Found, reachable, worstErr, allow, selected, asked>>

MutRevalidate(pin, servers) == pin

(* The resolved address is kept across a restart whose configuration may    *)
(* select other resolvers; the pin is revalidated against them.             *)
Revalidate(pin, servers) == IF pin # 0 /\ pin \notin servers THEN 0 ELSE pin

(* ech_doh_url: the resolver that answered, or else the first selected.     *)
EchResolver ==
    IF via # 0 THEN via
    ELSE IF selected = {} THEN 0 ELSE CHOOSE s \in selected : \A r \in selected : s <= r

Restart ==
    /\ leg = "done" /\ result = "address"
    /\ \E servers \in SUBSET Servers :
           selected' = servers /\ via' = Revalidate(via, servers)
    /\ UNCHANGED <<at, leg, aAnswered, v6Found, reachable, worstErr, allow, result, asked>>

BootNext == ALeg \/ AaaaLeg \/ Conclude \/ Restart

(* The start's gate and the bootstrap.                                      *)
ForwardSpec ==
    /\ FwdInit /\ [][FwdNext]_fwdVars
    /\ BootInit /\ [][BootNext]_bootVars

-----------------------------------------------------------------------------
(* Properties                                                              *)

Opened == \E s \in DOMAIN family : history[s].opened
Read == \E s \in DOMAIN family : history[s].read
Outstanding == \E s \in DOMAIN family : history[s].outstanding

(* The self-test's verdict claims only what the attempts really did:        *)
(* "no connection" that every attempt failed definitely and none opened,    *)
(* "silent" that one opened and no byte came back on any, "setup pending"   *)
(* that none opened and one was still outstanding when its budget fired;    *)
(* "other" exonerates the tunnel, so an answer came back or nothing was     *)
(* tried (self_test.rs SelfTestReason, forwarder.rs UpstreamActivity).      *)
VerdictTrue ==
    /\ verdict = "no_connection" => ~Opened /\ ~Outstanding
    /\ verdict = "silent" => Opened /\ ~Read
    /\ verdict = "setup_pending" => ~Opened /\ Outstanding
    /\ verdict = "other" => Read \/ \A s \in DOMAIN family : ~history[s].tried

(* The gate's answer to the start: a cancel that came before it returned is *)
(* what it says; "blocked" needs a probe that ran, reached the server and   *)
(* heard nothing; and the plugin is suspected only when nothing came back   *)
(* through it and the network was not shown to be at fault                  *)
(* (proxy_manager.rs start_inner, self_test_error_for).                     *)
GateBlamesRightly ==
    /\ cancelTok /\ report # "none" => report = "cancelled"
    /\ report = "blocked" => reach.at = "done" /\ ~reach.saw /\ transport # "raw"
    /\ blamed => ~Read /\ report \notin NetworkVerdicts \cup {"cancelled"}

(* What a failed start says of the network: the verdict is what the         *)
(* attempts did, and the error made of it blames the one that failed        *)
(* (self_test, start_inner).                                                *)
BlameTrue == VerdictTrue /\ GateBlamesRightly

(* A failed bootstrap names the strongest thing any resolver showed: if one *)
(* presented a certificate that was rejected, the failure says so, whatever *)
(* the others answered and in whatever order (bootstrap.rs fold_worst).     *)
StrongestFailureReported ==
    leg = "done" /\ result # "address" =>
        \A s \in Servers : \A e \in asked[s] \cap LegFailures : BootRank(result) >= BootRank(e)

(* A pin names a resolver that gave a DNS answer to this resolution, and    *)
(* the one ECH is fetched from is among those selected by the configuration *)
(* in force, after any restart (ech.rs PinSource, revalidate, ech_doh_url). *)
PinHonest ==
    leg = "done" /\ result = "address" =>
        /\ via # 0 => asked[via] \cap (LegAnswers \cup {"address"}) # {}
        /\ selected # {} \/ via # 0 => EchResolver \in selected

(* What a bootstrap returns is what its resolvers showed: the strongest     *)
(* failure, or an address with a pin that was heard from (bootstrap.rs).    *)
BootstrapTrue == StrongestFailureReported /\ PinHonest

(* The resolver's answers to the start are true, the self-test's and the    *)
(* bootstrap's (self_test.rs, bootstrap.rs).                                *)
AnswersTrue == BlameTrue /\ BootstrapTrue
=============================================================================
