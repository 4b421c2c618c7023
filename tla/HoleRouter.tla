----------------------------- MODULE HoleRouter -----------------------------
(***************************************************************************)
(* What happens to a flow once the TUN engine hands it over: the filter    *)
(* rules and the dispatch cascade (crates/bridge/src/hole_router.rs,       *)
(* filter/), the UDP relay of an endpoint (endpoint/socks5.rs,             *)
(* endpoint/interface.rs), and the dispatcher that owns the driver         *)
(* (dispatcher.rs).                                                        *)
(*                                                                         *)
(* Three state machines that share no state.  A rule's address is          *)
(* abstracted to whether it names the flow's domain, covers its IPv4       *)
(* address, or does not compile; a first payload to what the sniffer reads *)
(* from it.                                                                *)
(***************************************************************************)
EXTENDS Naturals, Sequences, SequencesExt, FiniteSets

CONSTANTS MaxRules      \* the longest rule list

ASSUME RouterAssumption == MaxRules \in Nat

-----------------------------------------------------------------------------
(* Rules                                                                   *)

Actions == {"proxy", "bypass", "block"}
UserRule == [address : {"name", "v4", "invalid"}, action : Actions]
RuleLists == UNION {[1..n -> UserRule] : n \in 0..MaxRules}

(* RuleSet::from_user_rules: a rule that does not compile is left out of    *)
(* the set and reported; the others keep their order.                       *)
Compiles(rule) == rule.address # "invalid"
Compiled(list) == SelectSeq(list, Compiles)
HasDomainRules(list) == \E i \in DOMAIN Compiled(list) : Compiled(list)[i].address = "name"

(* Matcher::matches: a domain rule needs a sniffed domain, an address rule  *)
(* looks only at the canonical destination.                                 *)
Matches(rule, dst, domain) ==
    \/ rule.address = "name" /\ domain = "name"
    \/ rule.address = "v4" /\ dst \in {"v4", "mapped"}

MutDecide(list, dst, domain) ==
    LET hits == SelectSeq(Compiled(list), LAMBDA r : Matches(r, dst, domain))
    IN  IF hits = <<>> THEN "proxy" ELSE Head(hits).action

(* first_match: the reverse scan                                            *)
Decide(list, dst, domain) ==
    LET hits == SelectSeq(Compiled(list), LAMBDA r : Matches(r, dst, domain))
    IN  IF hits = <<>> THEN "proxy" ELSE Last(hits).action

-----------------------------------------------------------------------------
(* Dispatch of one flow                                                    *)

(* The flow and the session it is in: whether the plugin carries UDP, the   *)
(* upstream has IPv6, and DNS is intercepted.                               *)
Flows ==
    [l4 : {"tcp"}, dst : {"v4", "mapped", "v6"}, dns : {FALSE}, payload : {"name", "other", "late"},
     udpOk : {FALSE}, v6Ok : BOOLEAN, localDns : {FALSE}]
        \cup
    [l4 : {"udp"}, dst : {"v4", "v6"}, dns : BOOLEAN, payload : {"other"},
     udpOk : BOOLEAN, v6Ok : BOOLEAN, localDns : BOOLEAN]

VARIABLES
    rules,      \* the rule list swap_rules last stored
    loaded,     \* the rule list the dispatch works from
    seen,       \* every list that was in force since the flow arrived
    flow,       \* the flow being dispatched
    served      \* "arrived", "peeking", an endpoint, or "dropped"

routerVars == <<rules, loaded, seen, flow, served>>

RouterInit ==
    /\ rules \in RuleLists /\ loaded = <<>> /\ seen = {rules}
    /\ flow \in Flows /\ served = "arrived"

(* peek: the TLS name, else the HTTP host, of what arrived in time          *)
Sniffed(f) == IF f.payload = "name" THEN "name" ELSE "none"

MutResolve(f, action) ==
    CASE f.l4 = "udp" /\ f.dns /\ f.localDns -> "local_dns"
      [] action = "proxy" -> IF f.l4 = "udp" /\ ~f.udpOk THEN "bypass" ELSE "proxy"
      [] action = "bypass" -> IF f.dst \in {"v6", "mapped"} /\ ~f.v6Ok THEN "dropped" ELSE "bypass"
      [] action = "block" -> "dropped"

(* resolve_endpoint. The destination is not canonicalised here: a mapped    *)
(* address is still an IPv6 one.                                            *)
Resolve(f, action) ==
    CASE f.l4 = "udp" /\ f.dns /\ f.localDns -> "local_dns"
      [] action = "proxy" -> IF f.l4 = "udp" /\ ~f.udpOk THEN "dropped" ELSE "proxy"
      [] action = "bypass" -> IF f.dst \in {"v6", "mapped"} /\ ~f.v6Ok THEN "dropped" ELSE "bypass"
      [] action = "block" -> "dropped"

(* dispatch_tcp up to its await: the peek happens only for domain rules.    *)
DispatchTcp ==
    /\ served = "arrived" /\ flow.l4 = "tcp"
    /\ IF HasDomainRules(rules)
       THEN served' = "peeking" /\ loaded' = rules
       ELSE served' = Resolve(flow, Decide(rules, flow.dst, "none")) /\ loaded' = rules
    /\ UNCHANGED <<rules, seen, flow>>

Peeked ==
    /\ served = "peeking"
    /\ served' = Resolve(flow, Decide(loaded, flow.dst, Sniffed(flow)))
    /\ UNCHANGED <<rules, loaded, seen, flow>>

DispatchUdp ==
    /\ served = "arrived" /\ flow.l4 = "udp"
    /\ served' = Resolve(flow, Decide(rules, flow.dst, "none"))
    /\ loaded' = rules
    /\ UNCHANGED <<rules, seen, flow>>

(* One swap during the peek: before it, a swap only changes what is loaded. *)
SwapRules ==
    /\ served = "peeking" /\ Cardinality(seen) = 1
    /\ rules' \in RuleLists \ {rules}
    /\ seen' = seen \cup {rules'}
    /\ UNCHANGED <<loaded, flow, served>>

RouterNext == DispatchTcp \/ Peeked \/ DispatchUdp \/ SwapRules

-----------------------------------------------------------------------------
(* One UDP flow on an endpoint: serve_udp and the reader task it spawns     *)

VARIABLES
    serve,      \* "associating", "serving", "returned"
    reader,     \* the reply task: "none", "waiting", "ended"
    relay,      \* the relay socket and its control connection: "none", "open", "closed"
    evicted     \* the engine dropped the flow's sender

relayVars == <<serve, reader, relay, evicted>>

RelayInit == serve = "associating" /\ reader = "none" /\ relay = "none" /\ evicted = FALSE

(* Associate, or open and connect the bypass socket; then spawn the reader. *)
Associated ==
    /\ serve = "associating"
    /\ serve' = "serving" /\ reader' = "waiting" /\ relay' = "open"
    /\ UNCHANGED evicted

AssociateFails ==
    /\ serve = "associating"
    /\ serve' = "returned"
    /\ UNCHANGED <<reader, relay, evicted>>

(* The relay is closed with its last owner.                                 *)
Release(s, r) == IF relay = "open" /\ s = "returned" /\ r = "ended" THEN "closed" ELSE relay

ForwardEnds ==
    /\ serve = "serving" /\ evicted
    /\ serve' = "returned" /\ relay' = Release("returned", reader)
    /\ UNCHANGED <<reader, evicted>>

SendFails ==
    /\ serve = "serving"
    /\ serve' = "returned" /\ relay' = Release("returned", reader)
    /\ UNCHANGED <<reader, evicted>>

(* The reader ends only when a receive fails or a reply can no longer be    *)
(* handed to the engine.                                                    *)
ReaderFails ==
    /\ reader = "waiting"
    /\ reader' = "ended" /\ relay' = Release(serve, "ended")
    /\ UNCHANGED <<serve, evicted>>

Evict == ~evicted /\ evicted' = TRUE /\ UNCHANGED <<serve, reader, relay>>

RelayNext == Associated \/ AssociateFails \/ ForwardEnds \/ SendFails \/ ReaderFails \/ Evict

(* The forwarding task is owed its step once the flow is closed; a peer     *)
(* owes no datagram and a socket no error.                                  *)
RelayFairness == WF_relayVars(ForwardEnds)

-----------------------------------------------------------------------------
(* The dispatcher                                                          *)

VARIABLES
    disp,       \* "building", "refused", "running", "draining", "dropping", "gone"
    handle,     \* the dispatcher still holds the driver's join handle
    token,      \* the driver's cancellation token
    device      \* "creating", "open", "closed"

dispVars == <<disp, handle, token, device>>

DispInit == disp = "building" /\ handle = FALSE /\ token = FALSE /\ device = "creating"

(* The blocking thread finishes; the device goes to the start that is       *)
(* waiting, or is dropped where it was made.                                *)
DeviceBuilt ==
    /\ device = "creating"
    /\ IF disp = "building"
       THEN disp' = "running" /\ handle' = TRUE /\ device' = "open"
       ELSE device' = "closed" /\ UNCHANGED <<disp, handle>>
    /\ UNCHANGED token

(* The build fails, the metric or the engine is refused, or the start is    *)
(* cancelled while the thread works on.                                     *)
BuildFails ==
    /\ disp = "building" /\ device = "creating"
    /\ disp' = "refused" /\ device' = "closed"
    /\ UNCHANGED <<handle, token>>

BuildCancelled ==
    /\ disp = "building"
    /\ disp' = "refused"
    /\ UNCHANGED <<handle, token, device>>

MutShutdown ==
    /\ disp = "running"
    /\ disp' = "draining" /\ token' = TRUE /\ handle' = FALSE
    /\ UNCHANGED device

(* shutdown awaits the driver through the handle it keeps.                  *)
Shutdown ==
    /\ disp = "running"
    /\ disp' = "draining" /\ token' = TRUE
    /\ UNCHANGED <<handle, device>>

Drained ==
    /\ disp = "draining" /\ device = "closed"
    /\ disp' = "running" /\ handle' = FALSE
    /\ UNCHANGED <<token, device>>

(* The dispatcher is dropped: after a shutdown, in the middle of one, or    *)
(* instead of one.  Still holding the handle, it waits for the driver.      *)
DropDispatcher ==
    /\ disp \in {"running", "draining"}
    /\ token' = TRUE
    /\ disp' = IF handle THEN "dropping" ELSE "gone"
    /\ UNCHANGED <<handle, device>>

DropJoined ==
    /\ disp = "dropping" /\ device = "closed"
    /\ disp' = "gone" /\ handle' = FALSE
    /\ UNCHANGED <<token, device>>

(* The driver returns once cancelled, or by itself when the device fails;   *)
(* the device is closed with it.                                            *)
DriverReturns ==
    /\ device = "open" /\ disp # "building"
    /\ device' = "closed"
    /\ UNCHANGED <<disp, handle, token>>

DispNext ==
    \/ DeviceBuilt \/ BuildFails \/ BuildCancelled \/ Shutdown \/ Drained
    \/ DropDispatcher \/ DropJoined \/ DriverReturns

-----------------------------------------------------------------------------
(* Properties                                                              *)

(* What the last rule that matches says, read off the list the user wrote   *)
LastMatch(list, dst, domain) ==
    LET hits == {i \in DOMAIN list : list[i].address # "invalid" /\ Matches(list[i], dst, domain)}
    IN  IF hits = {} THEN "proxy"
        ELSE list[CHOOSE i \in hits : \A j \in hits : j <= i].action

(* A flow leaves in the clear only if, at some moment of its dispatch, the  *)
(* rules in force said so: the last rule of the user's list that matches    *)
(* it, by its name only if the name was sniffed, was a bypass rule. A swap  *)
(* during the peek, an invalid rule or a plugin without UDP never sends it  *)
(* out (hole_router.rs "UDP-drop privacy invariant", engine.rs first_match).*)
ClearOnlyByRule ==
    served = "bypass" =>
        \E list \in seen :
            LastMatch(list, flow.dst, IF flow.l4 = "tcp" THEN Sniffed(flow) ELSE "none") = "bypass"

(* When the router's task for a UDP flow has returned, everything it opened *)
(* for the flow is eventually released.                                     *)
RelayReleased == (serve = "returned" /\ relay = "open") ~> relay = "closed"

(* Once the dispatcher is gone its driver has closed the device, also when  *)
(* the shutdown that was draining it was dropped half way (dispatcher.rs    *)
(* shutdown, Drop).                                                         *)
GoneMeansClosed == disp = "gone" => device = "closed"

(* What the data plane lets out and leaves open: a flow leaves in the clear *)
(* only by a rule, and no device outlives its dispatcher (HoleRouter,       *)
(* Dispatcher).                                                             *)
NothingSlipsOut == ClearOnlyByRule /\ GoneMeansClosed
=============================================================================
