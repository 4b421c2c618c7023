----------------------------- MODULE EchOptions -----------------------------
(***************************************************************************)
(* The plugin options, read twice: by the bridge (Rust), which predicts    *)
(* whether ex-ray will refuse them and whose ech-doh it will dial, injects *)
(* its own directives and opens the cover for that resolver; and by ex-ray *)
(* (Go), which gets the rewritten options.  The two are modelled apart,    *)
(* each from its own source, over option lists built one at a time.        *)
(*                                                                         *)
(* A value is a class of strings: a number by the ranges it falls in, an   *)
(* address by what it parses as, a URL by its authority; a bare key reads  *)
(* "1".  What ex-ray reads from disk (certificates) is taken to be good.   *)
(***************************************************************************)
EXTENDS Naturals, Sequences, SequencesExt

CONSTANT MaxOpts      \* bound: options in a list

VARIABLES opts,       \* the operator's options, in order
          offer       \* Hole's own ech-doh: "unknown" yet, "none", "pinned" or "unpinned"

echVars == <<opts, offer>>

\* In words: 0; 1; 2 .. 1024 is as 1; 1025 .. 32767; up to a port's 65535; up to a u32's; beyond; negative.
Ints == {"0", "1", "2000", "40000", "70000", "huge", "-1"}
U32 == Ints \ {"huge", "-1"}
Ports == {"1", "2000", "40000"}
IsIp == {"ip", "any"}
Https == {"https-name", "https-ip", "hole"}

Alphabet ==
  [mux : {"", "word", "0", "1", "2000", "huge"}] \cup [keepalive : {"", "1", "40000"}] \cup [tls : {"1", "0"}]
  \cup [host : {"", "ip", "exp", "exp-ip"}] \cup [path : {""}] \cup [cert : {"", "word"}] \cup [server : {"1", ""}]
  \cup [fwmark : {"word", "-1"}] \cup [ech : {"always", "never", "word"}]
  \cup [echdoh : {"", "https-name", "https-ip", "word"}] \cup [localPort : {"0", "word"}] \cup [remotePort : {"70000"}]
  \cup [localAddr : {"word", "list", "any"}] \cup [remoteAddr : {"any", "ip", "word"}]
  \cup [mode : {"quic", "word"}] \cup [loglevel : {"word"}]

\* Args.Get, and the bridge's find: the first of a key wins.
Has(o, k) == \E i \in DOMAIN o : k \in DOMAIN o[i]
Get(o, k, default) ==
  IF Has(o, k) THEN o[CHOOSE i \in DOMAIN o : k \in DOMAIN o[i] /\ \A j \in 1 .. i - 1 : k \notin DOMAIN o[j]][k]
  ELSE default

\* The first check that fails names the key; "" when none does.
FirstFailing(checks) ==
  LET failing == SelectSeq(checks, LAMBDA c : c[2]) IN IF failing = <<>> THEN "" ELSE failing[1][1]

-----------------------------------------------------------------------------
(* The bridge: plugin.rs.                                                  *)

\* hole_ech_doh_outranks, ech_doh_displaces
Outranks(e, value) == e = "pinned" \/ value # "https-ip"
Displaces(o, e) == e # "none" /\ Has(o, "echdoh") /\ Outranks(e, Get(o, "echdoh", ""))

\* resolved_ech_doh_is_empty
ResolvedEmpty(o, e) ==
  IF e # "none" /\ (~Has(o, "echdoh") \/ Displaces(o, e)) THEN FALSE ELSE Get(o, "echdoh", "") = ""

BadPort(o, k) == Get(o, k, "1") \notin Ports
BadLocal(o, k) == Get(o, k, "ip") \notin IsIp
BadRemote(o, k) == Get(o, k, "ip") \in {"", "any"}
TlsOn(o) == Has(o, "tls") \/ Get(o, "mode", "websocket") = "quic"

\* ex_ray_fatal_config_error: what ex-ray refuses, in ex-ray's order.
FatalConfigError(o, e) ==
  LET server == Has(o, "server")
      local == IF server THEN "remoteAddr" ELSE "localAddr"
      remote == IF server THEN "localAddr" ELSE "remoteAddr"
      always == Get(o, "ech", "auto") = "always"
      keepAliveOut == Get(o, "keepalive", "1") \notin {"0", "1", "2000"}
  IN FirstFailing(<<
       <<"mux", Get(o, "mux", "1") \notin Ints>>, <<"keepalive", Get(o, "keepalive", "1") \notin Ints>>,
       <<"tls", Get(o, "tls", "1") # "1">>, <<"host", Get(o, "host", "word") = "">>, <<"path", Get(o, "path", "/") = "">>,
       <<"server", Get(o, "server", "1") # "1">>, <<"fwmark", Get(o, "fwmark", "0") \notin Ints>>,
       <<"ech", Get(o, "ech", "auto") \notin {"never", "auto", "always"}>>,
       <<"echdoh", Get(o, "echdoh", "") # "" /\ ~Displaces(o, e) /\ Get(o, "echdoh", "") \notin Https>>,
       <<"keepalive", ~server /\ keepAliveOut>>, <<"localPort", BadPort(o, "localPort")>>,
       <<local, BadLocal(o, local)>>, <<"remotePort", BadPort(o, "remotePort")>>, <<remote, BadRemote(o, remote)>>,
       <<"mux", Get(o, "mux", "1") \notin U32>>, <<"fwmark", Get(o, "fwmark", "0") \notin U32>>,
       <<"mode", Get(o, "mode", "websocket") \notin {"websocket", "quic"}>>,
       <<"ech", always /\ ~TlsOn(o)>>, <<"cert", ~TlsOn(o) /\ Get(o, "cert", "") # "">>,
       <<"keepalive", server /\ keepAliveOut>>, <<"echdoh", always /\ TlsOn(o) /\ ResolvedEmpty(o, e)>>,
       <<"mux", Get(o, "mode", "websocket") # "quic" /\ ~server /\ Get(o, "mux", "1") \notin {"0", "1"}>> >>)

\* ech_fetch_is_reachable: a domain to ask about, after the prefix is stripped off the name.
Sni(o) == LET h == Get(o, "host", "word") IN IF h = "exp" THEN Get(o, "remoteAddr", "") ELSE IF h = "exp-ip" THEN "ip" ELSE h
MutFetchReachable(o, e) == Get(o, "ech", "auto") # "never" /\ TlsOn(o) /\ Sni(o) \notin IsIp \cup {""}
FetchReachable(o, e) ==
  /\ FatalConfigError(o, e) = "" /\ Get(o, "ech", "auto") # "never"
  /\ TlsOn(o) /\ Sni(o) \notin IsIp \cup {""}

\* classify_ech_doh: whose value ex-ray will dial.
EffectiveEchDoh(o, e) ==
  IF ~FetchReachable(o, e) THEN "" ELSE IF e # "none" /\ (~Has(o, "echdoh") \/ Displaces(o, e)) THEN "hole"
  ELSE Get(o, "echdoh", "")

\* inject_plugin_directives: what the bridge owns goes, then its own directives are appended.
Inject(o, e) ==
  SelectSeq(o, LAMBDA s : "loglevel" \notin DOMAIN s /\ ~(Displaces(o, e) /\ "echdoh" \in DOMAIN s))
  \o <<[loglevel |-> "debug"]>> \o (IF e = "none" THEN <<>> ELSE <<[echdoh |-> "hole"]>>)

-----------------------------------------------------------------------------
(* ex-ray: args.go, options.go, main.go, config.go.                        *)

\* The flags after parseOptsIntoFlags: the defaults, under the options; a server's ends are swapped.
Flags(o) ==
  LET server == Has(o, "server")
  IN [mux |-> Get(o, "mux", "1"), keepalive |-> Get(o, "keepalive", "1"), tls |-> Has(o, "tls"),
      host |-> Get(o, "host", "word"), cert |-> Get(o, "cert", ""), server |-> server,
      lport |-> Get(o, IF server THEN "remotePort" ELSE "localPort", "1"),
      rport |-> Get(o, IF server THEN "localPort" ELSE "remotePort", "1"),
      laddr |-> Get(o, IF server THEN "remoteAddr" ELSE "localAddr", "ip"),
      raddr |-> Get(o, IF server THEN "localAddr" ELSE "remoteAddr", "ip"),
      fwmark |-> Get(o, "fwmark", "0"), ech |-> Get(o, "ech", "auto"), echDoh |-> Get(o, "echdoh", ""),
      mode |-> Get(o, "mode", "websocket")]

\* parseIntOption, parseBoolOption, parseEnumOption, parseURLOption, parseStringOption, in the order of the calls.
ParseChecks(o) ==
  <<<<"mux", Has(o, "mux") /\ Get(o, "mux", "") \notin Ints>>,
    <<"keepalive", Has(o, "keepalive") /\ Get(o, "keepalive", "") \notin Ints>>,
    <<"tls", Has(o, "tls") /\ Get(o, "tls", "") # "1">>, <<"host", Has(o, "host") /\ Get(o, "host", "") = "">>,
    <<"path", Has(o, "path") /\ Get(o, "path", "") = "">>, <<"loglevel", Has(o, "loglevel") /\ Get(o, "loglevel", "") = "">>,
    <<"server", Has(o, "server") /\ Get(o, "server", "") # "1">>,
    <<"fwmark", Has(o, "fwmark") /\ Get(o, "fwmark", "") \notin Ints>>,
    <<"ech", Has(o, "ech") /\ Get(o, "ech", "") \notin {"auto", "always", "never"}>>,
    <<"echdoh", Has(o, "echdoh") /\ Get(o, "echdoh", "") # "" /\ Get(o, "echdoh", "") \notin Https>> >>

KeepAliveOut(f) == f.keepalive \in Ints /\ f.keepalive \notin {"0", "1", "2000"}

\* main: what is checked before the configuration is built.
MainChecks(f) ==
  <<<<"keepalive", ~f.server /\ KeepAliveOut(f)>>, <<"localPort", f.lport \notin Ports>>,
    <<"localAddr", f.laddr \notin IsIp>> >>

\* generateConfig and buildTLSConfig; then core.New on the client's multiplexer.
ConfigChecks(f) ==
  LET tls == f.tls \/ f.mode = "quic"
  IN <<<<"remotePort", f.rport \notin Ports>>, <<"remoteAddr", f.raddr \in {"", "any"}>>,
       <<"mux", f.mux \notin U32>>, <<"fwmark", f.fwmark \notin U32>>, <<"mode", f.mode \notin {"websocket", "quic"}>>,
       <<"ech", f.ech = "always" /\ ~tls>>, <<"cert", ~tls /\ f.cert # "">>, <<"keepalive", KeepAliveOut(f)>>,
       <<"echdoh", tls /\ f.ech = "always" /\ f.echDoh = "">> >>
CoreChecks(f) == <<<<"mux", ~f.server /\ f.mode = "websocket" /\ f.mux # "0" /\ f.mux \notin {"1"}>> >>

ExRayFails(o) == FirstFailing(ParseChecks(o) \o MainChecks(Flags(o)) \o ConfigChecks(Flags(o)) \o CoreChecks(Flags(o)))

\* ApplyECH (v2ray-core): asks the DoH server about a domain, or does nothing.
ExRayDials(o) ==
  LET f == Flags(o)
      name == CASE f.host = "exp" -> f.raddr [] f.host = "exp-ip" -> "ip" [] OTHER -> f.host
  IN IF ExRayFails(o) # "" \/ ~(f.tls \/ f.mode = "quic") \/ f.ech = "never" \/ name \in IsIp \cup {""} THEN "" ELSE f.echDoh

-----------------------------------------------------------------------------

EchInit == opts = <<>> /\ offer = "unknown"

\* The operator's options: any list.
AddOption == /\ offer = "unknown" /\ Len(opts) < MaxOpts
             /\ \E s \in Alphabet : opts' = Append(opts, s)
             /\ UNCHANGED offer

\* ech_doh_url: what Hole offers at the start, by the resolver it has and its pin.
Offers == /\ offer = "unknown" /\ offer' \in {"none", "pinned", "unpinned"}
          /\ UNCHANGED opts

EchNext == AddOption \/ Offers

\* The bridge foresees exactly the options ex-ray refuses, and names the key
\* ex-ray names (for a client: a server's ends are swapped, which the bridge
\* does not follow in the diagnostic), so the operator is told the truth.
ForeseesRefusal ==
  LET fatal == FatalConfigError(opts, offer)
      refused == ExRayFails(Inject(opts, offer))
  IN (fatal = "") = (refused = "") /\ (~Has(opts, "server") => fatal = refused)

\* The resolver the cover is opened for is the one ex-ray dials: no hole for a
\* lookup that never happens, none missing for one that does.  (Of a client:
\* what a server listener looks up is left open by the comment in plugin.rs.)
PermitsWhatIsDialled ==
  ~Has(opts, "server") => EffectiveEchDoh(opts, offer) = ExRayDials(Inject(opts, offer))

=============================================================================
