------------------------------ MODULE Galoshes ------------------------------
(***************************************************************************)
(* galoshes' yamux hop.  The client keeps one transport at a time, watches *)
(* it with a keepalive, reconnects when it dies, and gives every local UDP *)
(* peer an association: a task with a queue, a generation, and a cleanup   *)
(* message at its end (one peer here; the table keeps peers apart).  The   *)
(* server serves every connection on a task of its own and joins them all. *)
(* Time is counted in ticks; a timer that is due fires before the next.    *)
(***************************************************************************)
EXTENDS Naturals, FiniteSets

CONSTANTS Interval, Timeout,     \* KEEPALIVE_INTERVAL, KEEPALIVE_TIMEOUT, in ticks
          MaxGen,                \* bound: associations
          QueueCap,              \* UDP_ASSOC_CHANNEL_CAPACITY
          MaxSessions,           \* bound: transports
          Conns                  \* the server's connections

ASSUME GaloshesAssumption ==
  /\ Interval \in Nat /\ Timeout \in 1 .. Interval /\ QueueCap \in Nat \ {0}
  /\ MaxGen \in Nat /\ MaxSessions \in Nat

VARIABLES client,     \* where run_client is, its sessions, the failures in a row
          link,       \* the transport: "none", "up", "hole" (silently dropped) or "dead"
          ka,         \* the keepalive: sleeping or probing, ticks left, reads since last_seen
          quiet,     \* ticks since the last inbound byte
          table,      \* the peer's entry in associations: a generation, or 0
          gens,       \* generations given out, and those before this session
          assoc,      \* assoc[g]: generation g's task and its queue
          cleanups    \* the cleanup messages under way

clientVars == <<client, link, ka, quiet, table, gens, assoc, cleanups>>

Gens == 1 .. MaxGen
Detect == 2 * Interval + Timeout
NoTask == [pc |-> "none", queue |-> 0]
NoKeepalive == [pc |-> "none", left |-> 0, fresh |-> FALSE]

GaloshesInit ==
  /\ client = [pc |-> "bind", sessions |-> 0, failures |-> 0, productive |-> FALSE]
  /\ link = "none" /\ ka = NoKeepalive /\ quiet = 0
  /\ table = 0 /\ gens = [next |-> 1, first |-> 1] /\ cleanups = {}
  /\ assoc = [g \in Gens |-> NoTask]

-----------------------------------------------------------------------------
(* run_client.                                                             *)

\* A lost bind is reported and ends the hop.
BindLocal ==
  /\ client.pc = "bind" /\ \E pc \in {"connect", "over"} : client' = [client EXCEPT !.pc = pc]
  /\ UNCHANGED <<link, ka, quiet, table, gens, assoc, cleanups>>

\* connect_retrying, SessionTransport::spawn, and a table of its own for every session.
Connected ==
  /\ client.pc = "connect" /\ client.sessions < MaxSessions
  /\ client' = [client EXCEPT !.pc = "session", !.sessions = @ + 1, !.productive = FALSE]
  /\ link' = "up" /\ quiet' = 0
  /\ ka' = [pc |-> "sleep", left |-> Interval, fresh |-> FALSE]
  /\ table' = 0 /\ gens' = [gens EXCEPT !.first = gens.next] /\ cleanups' = {}
  /\ UNCHANGED assoc

\* next_failures: a session that read anything starts the backoff over.
EndSession(pc) ==
  /\ client' = [client EXCEPT !.pc = pc, !.productive = FALSE,
                  !.failures = IF pc = "over" \/ client.productive THEN 0 ELSE IF @ < 2 THEN @ + 1 ELSE @]
  /\ link' = "none" /\ ka' = NoKeepalive /\ quiet' = 0
  /\ table' = 0 /\ cleanups' = {}
  /\ UNCHANGED <<gens, assoc>>

ClientCancelled ==
  /\ client.pc \in {"connect", "session", "backoff"} /\ EndSession("over")

\* The driver's end closes inbound_rx; a driver that panicked ends the hop with an error.
TransportDied == client.pc = "session" /\ link = "dead" /\ \E pc \in {"backoff", "over"} : EndSession(pc)

BackedOff ==
  /\ client.pc = "backoff" /\ client' = [client EXCEPT !.pc = "connect"]
  /\ UNCHANGED <<link, ka, quiet, table, gens, assoc, cleanups>>

\* The transport is dropped without a word, or breaks; the driver sees only the second.
LinkFails ==
  /\ link \in {"up", "hole"} /\ link' \in {"hole", "dead"} /\ link' # link
  /\ UNCHANGED <<client, ka, quiet, table, gens, assoc, cleanups>>

\* TransportLivenessTap
Inbound ==
  /\ client.pc = "session" /\ link = "up"
  /\ quiet' = 0 /\ ka' = [ka EXCEPT !.fresh = TRUE] /\ client' = [client EXCEPT !.productive = TRUE]
  /\ UNCHANGED <<link, table, gens, assoc, cleanups>>

-----------------------------------------------------------------------------
(* keepalive.rs.                                                           *)

Tick ==
  /\ client.pc = "session" /\ ka.left > 0 /\ link # "dead"
  /\ ka' = [ka EXCEPT !.left = @ - 1] /\ quiet' = quiet + 1
  /\ UNCHANGED <<client, link, table, gens, assoc, cleanups>>

\* keepalive_cycle: a transport that spoke needs no probe; otherwise a reason to speak is sent.
Wake ==
  /\ ka.pc = "sleep" /\ ka.left = 0
  /\ ka' = IF ka.fresh THEN [pc |-> "sleep", left |-> Interval, fresh |-> FALSE]
                       ELSE [ka EXCEPT !.pc = "probe", !.left = Timeout]
  /\ UNCHANGED <<client, link, quiet, table, gens, assoc, cleanups>>

MutProbed ==
  /\ ka.pc = "probe" /\ (ka.fresh \/ ka.left = 0)
  /\ IF ka.fresh
     THEN ka' = [ka EXCEPT !.pc = "sleep", !.left = Interval]
          /\ UNCHANGED <<client, link, quiet, table, gens, assoc, cleanups>>
     ELSE EndSession("backoff")
\* elicit came back, or the deadline passed: a transport that said nothing ends the session.
Probed ==
  /\ ka.pc = "probe" /\ (ka.fresh \/ ka.left = 0)
  /\ IF ka.fresh
     THEN ka' = [pc |-> "sleep", left |-> Interval, fresh |-> FALSE]
          /\ UNCHANGED <<client, link, quiet, table, gens, assoc, cleanups>>
     ELSE EndSession("backoff")

-----------------------------------------------------------------------------
(* The association of a local UDP peer.                                    *)

Receiving(g) == assoc[g].pc \in {"open", "run", "failed"}
ThisSession(g) == client.pc = "session" /\ g >= gens.first
SetAssoc(g, pc) == assoc' = [assoc EXCEPT ![g] = [pc |-> pc, queue |-> 0]]

\* A datagram from the peer: into the queue, dropped when full, or into a new association.
Datagram ==
  /\ client.pc = "session"
  /\ IF table # 0 /\ Receiving(table)
     THEN /\ assoc' = [assoc EXCEPT ![table].queue = IF @ < QueueCap THEN @ + 1 ELSE @]
          /\ UNCHANGED <<table, gens>>
     ELSE /\ gens.next <= MaxGen
          /\ assoc' = [assoc EXCEPT ![gens.next] = [pc |-> "open", queue |-> 1]]
          /\ table' = gens.next /\ gens' = [gens EXCEPT !.next = @ + 1]
  /\ UNCHANGED <<client, link, ka, quiet, cleanups>>

\* run_udp_association: the stream is opened and tagged, or not.
OpenAssoc(g) ==
  /\ assoc[g].pc = "open"
  /\ \/ ThisSession(g) /\ link \in {"up", "hole"} /\ assoc' = [assoc EXCEPT ![g].pc = "run"]
     \/ SetAssoc(g, "failed")
  /\ UNCHANGED <<client, link, ka, quiet, table, gens, cleanups>>

\* A datagram out of the queue.
RelayBack(g) ==
  /\ assoc[g].pc = "run" /\ assoc[g].queue > 0
  /\ assoc' = [assoc EXCEPT ![g].queue = @ - 1]
  /\ UNCHANGED <<client, link, ka, quiet, table, gens, cleanups>>

\* Idle, a stream that ended or failed, or the table gone: the queue is closed before anything is awaited.
CloseAssoc(g) ==
  /\ assoc[g].pc = "run" /\ SetAssoc(g, "closed")
  /\ UNCHANGED <<client, link, ka, quiet, table, gens, cleanups>>

\* The cleanup message, to a loop that may be gone.
SayOver(g) ==
  /\ assoc[g].pc \in {"failed", "closed"} /\ SetAssoc(g, "gone")
  /\ cleanups' = IF ThisSession(g) THEN cleanups \cup {g} ELSE cleanups
  /\ UNCHANGED <<client, link, ka, quiet, table, gens>>

MutDropEntry(g) ==
  /\ client.pc = "session" /\ g \in cleanups
  /\ cleanups' = cleanups \ {g} /\ table' = 0
  /\ UNCHANGED <<client, link, ka, quiet, gens, assoc>>
\* The loop drops the entry, unless it is a later generation's by now.
DropEntry(g) ==
  /\ client.pc = "session" /\ g \in cleanups
  /\ cleanups' = cleanups \ {g} /\ table' = IF table = g THEN 0 ELSE table
  /\ UNCHANGED <<client, link, ka, quiet, gens, assoc>>

GaloshesNext ==
  \/ BindLocal \/ Connected \/ ClientCancelled \/ TransportDied \/ BackedOff \/ LinkFails \/ Inbound
  \/ Tick \/ Wake \/ Probed \/ Datagram
  \/ \E g \in Gens : OpenAssoc(g) \/ RelayBack(g) \/ CloseAssoc(g) \/ SayOver(g) \/ DropEntry(g)

\* An association that serves its peer is the one in the table: a cleanup that
\* comes late, after the peer opened the next, never cuts that one off.
ServingInTable ==
  \A g \in Gens : ThisSession(g) /\ assoc[g].pc \in {"open", "run"} => table = g

\* A silent transport is given up in time, and not before it had a chance to
\* answer: within two intervals and a timeout of its last byte, and no sooner
\* than an interval and a timeout after it.
SilenceJudged ==
  [][/\ quiet' <= Detect
     /\ client.pc = "session" /\ client'.pc = "backoff" /\ link # "dead" => quiet >= Interval + Timeout]_clientVars

-----------------------------------------------------------------------------
(* run_server.                                                             *)

VARIABLES acceptor,     \* the accept loop: pc, the tokens, fatal
          conn,       \* conn[c]: the connection's task
          yamux,     \* driver[c]: its yamux driver's task
          panicked    \* the connections whose driver panicked

serverVars == <<acceptor, conn, yamux, panicked>>

ServerInit ==
  /\ acceptor = [pc |-> "bind", cancelled |-> FALSE, child |-> FALSE, fatal |-> FALSE]
  /\ conn = [c \in Conns |-> "none"] /\ yamux = [c \in Conns |-> "none"] /\ panicked = {}

\* A lost bind is reported and ends the hop.
ServerBind ==
  /\ acceptor.pc = "bind" /\ \E pc \in {"accept", "refused"} : acceptor' = [acceptor EXCEPT !.pc = pc]
  /\ UNCHANGED <<conn, yamux, panicked>>

Accept(c) ==
  /\ acceptor.pc = "accept" /\ conn[c] = "none"
  /\ conn' = [conn EXCEPT ![c] = "serving"] /\ yamux' = [yamux EXCEPT ![c] = "running"]
  /\ UNCHANGED <<acceptor, panicked>>

ServerShutdown ==
  /\ ~acceptor.cancelled /\ acceptor' = [acceptor EXCEPT !.cancelled = TRUE, !.child = TRUE]
  /\ UNCHANGED <<conn, yamux, panicked>>

DriverStops(c) ==
  /\ yamux[c] = "running"
  /\ \/ yamux' = [yamux EXCEPT ![c] = "ended"] /\ UNCHANGED panicked
     \/ yamux' = [yamux EXCEPT ![c] = "panic"] /\ panicked' = panicked \cup {c}
  /\ UNCHANGED <<acceptor, conn>>

\* serve_driven_connection: out of the loop on the token or the driver's end; the driver is aborted and joined.
WindDown(c) ==
  /\ conn[c] = "serving" /\ (acceptor.child \/ yamux[c] # "running")
  /\ conn' = [conn EXCEPT ![c] = IF yamux[c] = "panic" THEN "panic" ELSE "done"]
  /\ yamux' = [yamux EXCEPT ![c] = "ended"]
  /\ UNCHANGED <<acceptor, panicked>>

\* join_next, while accepting and while draining; a panic cancels the others.
JoinNext(c) ==
  /\ acceptor.pc \in {"accept", "drain"} /\ conn[c] \in {"done", "panic"}
  /\ conn' = [conn EXCEPT ![c] = "joined"]
  /\ acceptor' = IF conn[c] = "panic" THEN [acceptor EXCEPT !.pc = "drain", !.fatal = TRUE, !.child = TRUE] ELSE acceptor
  /\ UNCHANGED <<yamux, panicked>>

StopAccepting ==
  /\ acceptor.pc = "accept" /\ acceptor.cancelled /\ acceptor' = [acceptor EXCEPT !.pc = "drain"]
  /\ UNCHANGED <<conn, yamux, panicked>>

MutServerReturns == acceptor.pc = "drain" /\ acceptor' = [acceptor EXCEPT !.pc = "over"] /\ UNCHANGED <<conn, yamux, panicked>>
ServerReturns ==
  /\ acceptor.pc = "drain" /\ \A c \in Conns : conn[c] \in {"none", "joined"}
  /\ acceptor' = [acceptor EXCEPT !.pc = "over"]
  /\ UNCHANGED <<conn, yamux, panicked>>

ServerNext ==
  \/ ServerBind \/ ServerShutdown \/ StopAccepting \/ ServerReturns
  \/ \E c \in Conns : Accept(c) \/ DriverStops(c) \/ WindDown(c) \/ JoinNext(c)

\* A server that has returned left no driver, so no socket, behind, and it
\* returned an error exactly when a driver panicked, however late.
NothingLeftRunning ==
  acceptor.pc = "over" => (\A c \in Conns : yamux[c] # "running") /\ acceptor.fatal = (panicked # {})

\* Both ends keep what the relay promises: late cleanups cut nobody off,
\* silence is judged in time, a server that returned left nothing running
\* (run_client, keepalive, run_server).
LinkKept ==
  SilenceJudged /\ [][ServingInTable']_clientVars /\ [][NothingLeftRunning']_serverVars

\* The two ends, each with its own steps.
GaloshesSpec ==
  /\ GaloshesInit /\ [][GaloshesNext]_clientVars
  /\ ServerInit /\ [][ServerNext]_serverVars
=============================================================================
