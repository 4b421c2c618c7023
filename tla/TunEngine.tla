------------------------------ MODULE TunEngine ------------------------------
(***************************************************************************)
(* The packet driver of the TUN engine (crates/tun-engine/src/engine): one *)
(* task that alternates between reading a packet, settling it in a smoltcp *)
(* socket stack, and flushing what the stack owes to the device; the tasks *)
(* it spawns to route each TCP connection and UDP flow run beside it.      *)
(*                                                                         *)
(* One destination port and a few 4-tuples stand for the traffic.  Bytes   *)
(* are left out; a TCP packet is its kind, its tuple and, on a SYN, its    *)
(* initial sequence number.  The smoltcp operators model the library by    *)
(* the states the code reads from it.                                      *)
(***************************************************************************)
EXTENDS Naturals, FiniteSets, FiniteSetsExt, TLC

CONSTANTS
    Tuples,          \* the clients' (source, destination) pairs to the port
    Isns,            \* initial sequence numbers a SYN may carry
    FlowKeys,        \* the UDP 5-tuples seen
    MaxConnections   \* EngineConfig::max_connections

ASSUME TunAssumption ==
    /\ IsFiniteSet(Tuples) /\ IsFiniteSet(Isns) /\ IsFiniteSet(FlowKeys)
    /\ MaxConnections \in Nat \ {0}

VARIABLES
    driver,     \* where the driver task is: "select", "dns", "settle", "flush", "ended"
    asking,     \* the flow whose DNS query the driver is awaiting, or "none"
    cancelled,  \* the engine's cancellation token
    stack,      \* the socket stack and the connection table (see StackType)
    flows,      \* per UDP key: "absent", "fresh" or "idle" in the flow table
    udpTasks    \* per UDP key: the live route_udp tasks, by attachment

tunVars == <<driver, asking, cancelled, stack, flows, udpTasks>>

(* A slot per tuple, one for the listener and one for the SYN being judged *)
Slots == 1..(Cardinality(Tuples) + 2)
NoSlot == 0
Vacant == [st |-> "vacant", tuple |-> "none", isn |-> "none"]
Listening == [st |-> "listen", tuple |-> "none", isn |-> "none"]

Packets ==
    [kind : {"syn"}, tuple : Tuples, isn : Isns]
        \cup [kind : {"ack", "fin", "rst"}, tuple : Tuples, isn : {"none"}]

TunTypeOK ==
    /\ driver \in {"select", "dns", "settle", "flush", "ended"}
    /\ asking \in FlowKeys \cup {"none"}
    /\ cancelled \in BOOLEAN
    /\ stack.sock \in [Slots -> [st : {"vacant", "listen", "syn", "est", "wait", "fin",
                                        "last", "timewait", "closed"},
                                  tuple : Tuples \cup {"none"}, isn : Isns \cup {"none"}]]
    /\ stack.listener \in Slots \cup {NoSlot}
    /\ stack.retiring \subseteq Slots /\ stack.conns \subseteq Slots
    /\ stack.routed \subseteq stack.conns
    /\ stack.orphans \in 0..MaxConnections
    /\ flows \in [FlowKeys -> {"absent", "fresh", "idle"}]
    /\ udpTasks \in [FlowKeys -> SUBSET {"attached", "cut"}]

-----------------------------------------------------------------------------
(* The socket stack                                                        *)

Free(S, h) == [S EXCEPT !.sock[h] = Vacant, !.retiring = @ \ {h}]

(* Interface::poll delivers to the first socket, in slot order, that        *)
(* accepts the packet: a listener takes any SYN, a closed socket nothing.   *)
Accepting(S, p) ==
    {h \in Slots : \/ S.sock[h].st = "listen" /\ p.kind = "syn"
                   \/ S.sock[h].tuple = p.tuple /\ S.sock[h].st # "closed"}

(* What the packet does to the socket that takes it. A bare SYN is ignored  *)
(* outside Listen; a reset handshake goes back to Listen.                   *)
Received(s, p) ==
    CASE p.kind = "syn" /\ s.st = "listen" -> [s EXCEPT !.st = "syn", !.tuple = p.tuple]
      [] p.kind = "ack" /\ s.st = "syn" -> [s EXCEPT !.st = "est"]
      [] p.kind = "ack" /\ s.st = "last" -> [s EXCEPT !.st = "closed", !.tuple = "none"]
      [] p.kind = "fin" /\ s.st \in {"syn", "est"} -> [s EXCEPT !.st = "wait"]
      [] p.kind = "fin" /\ s.st = "fin" -> [s EXCEPT !.st = "timewait"]
      [] p.kind = "rst" /\ s.st = "syn" -> [s EXCEPT !.st = "listen", !.tuple = "none"]
      [] p.kind = "rst" /\ s.st # "syn" -> [s EXCEPT !.st = "closed", !.tuple = "none"]
      [] OTHER -> s

Deliver(S, p) ==
    IF Accepting(S, p) = {} THEN S
    ELSE [S EXCEPT !.sock[Min(Accepting(S, p))] = Received(@, p)]

(* An admitted connection whose client stayed silent for tcp_peer_timeout   *)
(* is reset by the stack.                                                   *)
Expire(S, silent) ==
    [S EXCEPT !.sock =
        [h \in silent |-> [S.sock[h] EXCEPT !.st = "closed", !.tuple = "none"]] @@ @]

(* An aborted socket's RST leaves in the poll that follows, and a retiring  *)
(* socket with nothing left to send is removed.                             *)
Emit(S) ==
    LET aborted == {h \in Slots : S.sock[h].st = "closed"}
    IN  [S EXCEPT !.sock = [h \in aborted |-> [S.sock[h] EXCEPT !.tuple = "none"]] @@ @]

MutPrune(S) == [S EXCEPT !.retiring = {h \in @ : S.sock[h].tuple # "none"}]

Prune(S) ==
    LET spent == {h \in S.retiring : S.sock[h].tuple = "none"}
    IN  [S EXCEPT !.sock = [h \in spent |-> Vacant] @@ @,
                  !.retiring = @ \ spent]

EnsureListener(S) ==
    IF S.listener # NoSlot THEN S
    ELSE LET h == Min({g \in Slots : S.sock[g].st = "vacant"})
         IN  [S EXCEPT !.sock[h] = Listening, !.listener = h]

Retire(S, h) == [S EXCEPT !.retiring = @ \cup {h}]

-----------------------------------------------------------------------------
(* Admission                                                               *)

(* The socket, other than the one judged, that already holds the tuple.     *)
TupleOwner(S, h) ==
    {o \in Slots \ {h} : S.sock[o].st # "vacant" /\ S.sock[o].tuple = S.sock[h].tuple}

MutIsRetransmit(S, owner, isn) == FALSE

(* A SYN that carries the owner's sequence number is that owner's           *)
(* retransmit; only a different one opens a successor.                      *)
IsRetransmit(S, owner, isn) == S.sock[owner].isn = isn

(* The connection leaves the table; its task, if still running, lives on    *)
(* with its permit until it notices.                                        *)
Forget(S, h) ==
    [S EXCEPT !.conns = @ \ {h}, !.routed = @ \ {h},
              !.orphans = @ + (IF h \in S.routed THEN 1 ELSE 0)]

PermitFree(S) == Cardinality(S.routed) + S.orphans < MaxConnections

Admit(S, h) == EnsureListener([S EXCEPT !.conns = @ \cup {h}, !.routed = @ \cup {h}])
Refuse(S, h) == EnsureListener(Retire([S EXCEPT !.sock[h].st = "closed"], h))
DropDuplicate(S, h) == EnsureListener(Free(S, h))

MutAcceptTcp(S, p) ==
    IF S.listener = NoSlot \/ S.sock[S.listener].st = "listen" THEN S
    ELSE LET h == S.listener
             T == [S EXCEPT !.listener = NoSlot, !.sock[h].isn = p.isn]
         IN  IF PermitFree(S) THEN Admit(T, h) ELSE Refuse(T, h)

(* accept_tcp_connections: the permit is sought before the stale owner is   *)
(* dropped, and the stale owner is dropped whatever the verdict.            *)
AcceptTcp(S, p) ==
    IF S.listener = NoSlot \/ S.sock[S.listener].st = "listen" THEN S
    ELSE LET h == S.listener
             owners == TupleOwner(S, h)
             T == [S EXCEPT !.listener = NoSlot, !.sock[h].isn = p.isn]
             Judge(U) == IF PermitFree(S) THEN Admit(U, h) ELSE Refuse(U, h)
         IN  IF owners = {} THEN Judge(T)
             ELSE LET owner == Min(owners)
                  IN  IF IsRetransmit(S, owner, p.isn)
                      THEN DropDuplicate([S EXCEPT !.listener = NoSlot], h)
                      ELSE Judge(Free(Forget(T, owner), owner))

(* relay_tcp_data: a connection whose task has ended has both halves of its *)
(* channel closed; the socket is closed while it may still send.            *)
Relay(S) ==
    LET ended == {h \in S.conns \ S.routed : S.sock[h].st \in {"est", "wait"}}
        Closing(s) == [s EXCEPT !.st = IF @ = "est" THEN "fin" ELSE "last"]
    IN  [S EXCEPT !.sock = [h \in ended |-> Closing(S.sock[h])] @@ @]

(* cleanup_finished_connections                                             *)
Disposal(st) ==
    CASE st \in {"closed", "listen"} -> "retire"
      [] st = "timewait" -> "remove"
      [] OTHER -> "keep"

Cleanup(S) ==
    LET retired == {h \in S.conns : Disposal(S.sock[h].st) = "retire"}
        removed == {h \in S.conns : Disposal(S.sock[h].st) = "remove"}
        gone == retired \cup removed
    IN  [S EXCEPT !.conns = @ \ gone, !.routed = @ \ gone,
                  !.orphans = @ + Cardinality(gone \cap S.routed),
                  !.retiring = @ \cup retired,
                  !.sock = [h \in removed |-> Vacant] @@ @]

(* settle_packet, with the connections that time out in its first poll      *)
Finish(S) == Prune(Emit(Cleanup(Relay(S))))

SettlePacket(S, p) ==
    Finish(AcceptTcp(Prune(Emit(Deliver(EnsureListener(S), p))), p))

SettleTick(S, silent) == Finish(Prune(Emit(Expire(S, silent))))

-----------------------------------------------------------------------------
(* The driver task                                                         *)

TunInit ==
    /\ driver = "select" /\ asking = "none" /\ cancelled = FALSE
    /\ stack = [sock |-> [h \in Slots |-> Vacant], listener |-> NoSlot, retiring |-> {},
                conns |-> {}, routed |-> {}, orphans |-> 0]
    /\ flows = [k \in FlowKeys |-> "absent"]
    /\ udpTasks = [k \in FlowKeys |-> {}]

(* The driver stops: the table is cleared, so an attached task reads None;  *)
(* the connections are dropped with the driver.                             *)
CutAll(tasks) == [k \in FlowKeys |-> IF tasks[k] = {} THEN {} ELSE {"cut"}]

Ends ==
    /\ driver' = "ended" /\ asking' = "none"
    /\ flows' = [k \in FlowKeys |-> "absent"]
    /\ udpTasks' = CutAll(udpTasks)
    /\ stack' = [stack EXCEPT !.conns = {}, !.routed = {},
                              !.orphans = @ + Cardinality(stack.routed)]
    /\ UNCHANGED cancelled

SelectCancelled == driver = "select" /\ cancelled /\ Ends

(* End of file or an error on the device                                    *)
ReadEnds == driver = "select" /\ ~cancelled /\ Ends

ReadTcp ==
    /\ driver = "select" /\ ~cancelled
    /\ \E p \in Packets : stack' = SettlePacket(stack, p)
    /\ driver' = "flush"
    /\ UNCHANGED <<asking, cancelled, flows, udpTasks>>

PollTick ==
    /\ driver = "select" /\ ~cancelled
    /\ driver' = "settle"
    /\ UNCHANGED <<asking, cancelled, stack, flows, udpTasks>>

(* settle_packet without a packet for the stack                             *)
Settle ==
    /\ driver = "settle"
    /\ \E silent \in SUBSET {h \in stack.conns : stack.sock[h].tuple # "none"} :
           stack' = SettleTick(stack, silent)
    /\ driver' = "flush"
    /\ UNCHANGED <<asking, cancelled, flows, udpTasks>>

(* handle_udp_packet past interception: a known flow is refreshed and the   *)
(* datagram offered to its channel; a new one is entered and a task spawned.*)
Dispatch(k) ==
    /\ flows' = [flows EXCEPT ![k] = "fresh"]
    /\ udpTasks' = [udpTasks EXCEPT ![k] =
           IF flows[k] = "absent" THEN @ \cup {"attached"} ELSE @]

ReadUdp(k) ==
    /\ driver = "select" /\ ~cancelled
    /\ Dispatch(k)
    /\ driver' = "settle"
    /\ UNCHANGED <<asking, cancelled, stack>>

ReadDns(k) ==
    /\ driver = "select" /\ ~cancelled
    /\ driver' = "dns" /\ asking' = k
    /\ UNCHANGED <<cancelled, stack, flows, udpTasks>>

(* The interceptor answers, or declines and the datagram is routed.         *)
DnsReply ==
    /\ driver = "dns"
    /\ driver' = "settle" /\ asking' = "none"
    /\ UNCHANGED <<cancelled, stack, flows, udpTasks>>

DnsDeclined ==
    /\ driver = "dns"
    /\ Dispatch(asking)
    /\ driver' = "settle" /\ asking' = "none"
    /\ UNCHANGED <<cancelled, stack>>

MutDnsCancelled == FALSE /\ UNCHANGED tunVars

DnsCancelled ==
    /\ driver = "dns" /\ cancelled
    /\ driver' = "settle" /\ asking' = "none"
    /\ UNCHANGED <<cancelled, stack, flows, udpTasks>>

(* The device took the packets, or failed; then the idle flows are swept.   *)
FlushDone ==
    /\ driver = "flush"
    /\ driver' = "select"
    /\ \E swept \in SUBSET {k \in FlowKeys : flows[k] = "idle"} :
           /\ flows' = [k \in FlowKeys |-> IF k \in swept THEN "absent" ELSE flows[k]]
           /\ udpTasks' = [k \in FlowKeys |->
                  IF k \in swept /\ "attached" \in udpTasks[k]
                  THEN {"cut"} ELSE udpTasks[k]]
    /\ UNCHANGED <<asking, cancelled, stack>>

FlushCancelled == driver = "flush" /\ cancelled /\ Ends

-----------------------------------------------------------------------------
(* The world around it                                                     *)

Cancel == ~cancelled /\ cancelled' = TRUE /\ UNCHANGED <<driver, asking, stack, flows, udpTasks>>

GoesIdle(k) ==
    /\ flows[k] = "fresh"
    /\ flows' = [flows EXCEPT ![k] = "idle"]
    /\ UNCHANGED <<driver, asking, cancelled, stack, udpTasks>>

(* A route_tcp task ends: its permit is dropped with it.                    *)
TcpTaskEnds(h) ==
    /\ h \in stack.routed
    /\ stack' = [stack EXCEPT !.routed = @ \ {h}]
    /\ UNCHANGED <<driver, asking, cancelled, flows, udpTasks>>

OrphanEnds ==
    /\ stack.orphans > 0
    /\ stack' = [stack EXCEPT !.orphans = @ - 1]
    /\ UNCHANGED <<driver, asking, cancelled, flows, udpTasks>>

UdpTaskEnds(k, t) ==
    /\ t \in udpTasks[k]
    /\ udpTasks' = [udpTasks EXCEPT ![k] = @ \ {t}]
    /\ UNCHANGED <<driver, asking, cancelled, stack, flows>>

TunNext ==
    \/ SelectCancelled \/ DnsCancelled \/ FlushCancelled
    \/ ReadEnds \/ ReadTcp \/ PollTick \/ Settle
    \/ \E k \in FlowKeys : ReadUdp(k) \/ ReadDns(k) \/ GoesIdle(k)
    \/ DnsReply \/ DnsDeclined \/ FlushDone \/ Cancel \/ OrphanEnds
    \/ \E h \in Slots : TcpTaskEnds(h)
    \/ \E k \in FlowKeys, t \in {"attached", "cut"} : UdpTaskEnds(k, t)

(* Every await of the driver and every task selects on the token first, so  *)
(* once it fires each is owed that branch, and settling is plain            *)
(* computation; the device, the interceptor and the upstreams are owed      *)
(* nothing.                                                                 *)
DriverCancels == SelectCancelled \/ DnsCancelled \/ FlushCancelled

DriverSettles == driver = "settle" /\ driver' = "flush"

TaskCancels ==
    /\ cancelled
    /\ \/ OrphanEnds
       \/ \E h \in Slots : TcpTaskEnds(h)
       \/ \E k \in FlowKeys, t \in {"attached", "cut"} : UdpTaskEnds(k, t)

TunFairness ==
    WF_tunVars(DriverCancels) /\ WF_driver(DriverSettles) /\ WF_tunVars(TaskCancels)

TunSpec == TunInit /\ [][TunNext]_tunVars /\ TunFairness

-----------------------------------------------------------------------------
(* Properties                                                              *)

(* Between settles every socket the stack holds is accounted for exactly    *)
(* once: it is the port's listener, a connection's, or on its way out.  So  *)
(* accept, supersede, refusal and cleanup neither leak a socket nor leave   *)
(* the table pointing at one that is gone (driver.rs, socket_stack.rs).     *)
SocketsAccounted ==
    driver # "ended" =>
        /\ {h \in Slots : stack.sock[h].st # "vacant"} =
               ({stack.listener} \ {NoSlot}) \cup stack.conns \cup stack.retiring
        /\ stack.conns \cap stack.retiring = {}
        /\ stack.listener \notin stack.conns \cup stack.retiring
        /\ stack.listener # NoSlot => stack.sock[stack.listener].st = "listen"

(* No two connections of the table own one 4-tuple, so a client's packets   *)
(* have one owner (tuple_owner, supersedes).                                *)
OneOwner ==
    \A g, h \in stack.conns :
        g # h /\ stack.sock[g].tuple # "none" => stack.sock[g].tuple # stack.sock[h].tuple

(* A retransmitted SYN never costs a connection its place: settling the     *)
(* SYN a connection was opened with leaves it in the table with its task    *)
(* (take_handshakes, drop_duplicate).                                       *)
RetransmitHarmless ==
    driver = "select" =>
        \A h \in stack.routed :
            stack.sock[h].tuple # "none" =>
                h \in SettlePacket(stack, [kind |-> "syn", tuple |-> stack.sock[h].tuple,
                                           isn |-> stack.sock[h].isn]).routed

(* The engine's table and its sockets agree: every socket is accounted for  *)
(* once, every tuple has one owner, and a retransmission costs nobody its   *)
(* place (Driver::settle).                                                  *)
StackSound == SocketsAccounted /\ OneOwner /\ RetransmitHarmless

(* Once the engine is cancelled the driver and every task it spawned end,   *)
(* whatever the device, the DNS interceptor and the upstreams do: a DNS     *)
(* query that never returns and a device that never drains cannot hold the  *)
(* driver (driver.rs run, dns.rs intercept, egress.rs flush).               *)
CancelEndsAll ==
    cancelled ~> /\ driver = "ended" /\ stack.routed = {} /\ stack.orphans = 0
                 /\ \A k \in FlowKeys : udpTasks[k] = {}
=============================================================================
