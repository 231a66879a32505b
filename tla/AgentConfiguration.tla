------------------------- MODULE AgentConfiguration -------------------------
(* The agent's way from its configuration to its connections: the check that      *)
(* "service install" makes, the start of the process, what ParseAndValidate       *)
(* refuses and changes, the client built from the rest, and the dialer each of    *)
(* its candidates gets.                                                           *)
(* An address is its scheme, host and port, "" and 0 where not given; its host is *)
(* "junk" when it does not parse. A proxy is the scheme it is written with and    *)
(* the host it is on; "direct", text without a scheme and a URL that does not     *)
(* parse are schemes here.                                                        *)
(*   mem.pc    where the process is; mem.conf its parsed configuration;           *)
(*   db        whether the service is installed, the directories and files.       *)
EXTENDS TunnelOrders, Datagrams

LOCAL INSTANCE SequencesExt

Address(scheme, host, port) == [scheme |-> scheme, host |-> host, port |-> port]
Proxy(scheme, host) == [scheme |-> scheme, host |-> host]
NoProxy == Proxy("", "")

AgentDefault ==
    [headers |-> {}, hostname |-> FALSE, server |-> Address("", "name", 0), fallback |-> <<>>, fingerprint |-> FALSE,
     transports |-> <<>>, proxy |-> NoProxy, ipapi |-> "", bind |-> FALSE,
     allowed |-> <<>>, remotes |-> <<>>, scheme |-> "", reverseProxy |-> FALSE, hostHeader |-> "",
     aliases |-> {}, maxRetryInterval |-> 300, maxRetryCount |-> -1, keepAlive |-> 180, watchdog |-> FALSE, dataDir |-> TRUE,
     sendBackLimit |-> 0, allow |-> {"good"}, deny |-> {}, order |-> "allow,deny", commands |-> TRUE, scripts |-> FALSE,
     monitoringInterval |-> 60, netLan |-> "", netWan |-> "", protected |-> {"good"}, reception |-> TRUE,
     e2e |-> FALSE, e2eListen |-> "good", authorizedKeys |-> TRUE, hostKey |-> "", allowRoot |-> FALSE]

(* ---- transports ------------------------------------------------------------------------ *)
(* "" stands for an element that is refused; none is ever skipped.                 *)
ParseSpec(spec) ==
    CASE spec.scheme = "direct" -> "direct"
      [] spec.scheme \in {"socks", "socks5", "socks5h"} /\ spec.host # "" -> "socks5"
      [] spec.scheme = "http" /\ spec.host # "" -> "connect"
      [] OTHER -> ""

ParsesAsChain(specs) ==
    /\ specs # <<>>
    /\ \A i \in DOMAIN specs : ParseSpec(specs[i]) # "" /\ (ParseSpec(specs[i]) = "direct" => i = Len(specs))

(* What the dialer of a candidate is left with.                                   *)
Apply(spec) ==
    [proxy |-> IF ParseSpec(spec) = "connect" THEN spec ELSE NoProxy,
     net |-> IF ParseSpec(spec) = "socks5" THEN spec ELSE NoProxy]

isLoopbackHost(host) == host \in {"localhost", "127.0.0.1:9050"}

(* The interface binds the first hop, unless that leads to a proxy on this host.   *)
setupDialer(spec, bind) == bind /\ ~(ParseSpec(spec) # "direct" /\ isLoopbackHost(spec.host))

(* ---- the parts of ParseAndValidate ------------------------------------------------------- *)
parseHeader(h) == h # "junk"
parseHeaders(c) == \A h \in c.headers : parseHeader(h)
HTTPHeaders(c) ==
    LET named == c.headers \cup (IF c.hostname THEN {"Host"} ELSE {})
    IN  [h \in named \cup {"User-Agent"} |-> IF h = "Host" /\ c.hostname THEN "hostname" ELSE IF h \in c.headers THEN "file" ELSE "build"]

parseURL(u) ==
    LET scheme == IF u.scheme = "" THEN "http" ELSE u.scheme
    IN  Address(CASE scheme = "http" -> "ws" [] scheme = "https" -> "wss" [] OTHER -> scheme, u.host,
                IF u.port # 0 THEN u.port ELSE IF scheme \in {"https", "wss"} THEN 443 ELSE 80)

parseServerURL(c) == c.server # Address("", "", 0) /\ c.server.host # "junk"
parseFallbackServers(c) == \A i \in DOMAIN c.fallback : c.fallback[i].host # "junk"
Servers(c) == {parseURL(c.server)} \cup {parseURL(c.fallback[i]) : i \in DOMAIN c.fallback}

IsOnion(u) == u.host = "name.onion"
firstOnionEndpoint(c) == \E u \in Servers(c) : IsOnion(u)

parseTransports(c) ==
    c.transports = <<>> \/
    (/\ c.proxy = NoProxy
     /\ ParsesAsChain(c.transports)
     /\ firstOnionEndpoint(c) => c.fingerprint
     /\ c.ipapi = "")

parseProxyURL(c) == c.proxy # NoProxy => ParseSpec(c.proxy) # ""

(* The options behind a remote: the last of a name counts, "-" is one without "=". *)
OptionOK(o) ==
    \/ o.key \in {"scheme", "host_header"} /\ o.val \notin {"-", ""}
    \/ o.key = "reverse_proxy" /\ o.val \in {"-", "true", "false"}
parseRemoteEntry(entry) == entry.parts # <<>> /\ \A i \in DOMAIN entry.options : OptionOK(entry.options[i])
Override(entry, key) ==
    LET given == SelectSeq(entry.options, LAMBDA o : o.key = key) IN IF given = <<>> THEN {} ELSE {Last(given).val}

(* A tunnel's own options before those of all tunnels.                            *)
applyTunnelsConfig(r, entry, c) ==
    LET own(key, all) == IF Override(entry, key) = {} THEN all ELSE CHOOSE v \in Override(entry, key) : TRUE
    IN  r @@ [scheme |-> own("scheme", c.scheme), header |-> own("host_header", c.hostHeader),
              proxy |-> own("reverse_proxy", IF c.reverseProxy THEN "true" ELSE "false") # "false"]

validateTunnelProxy(t) == t.header # "" => t.proxy
parseTunnelsConfig(c) == c.hostHeader # "" => c.reverseProxy

TunnelOf(entry, c) == applyTunnelsConfig(NewRemote(entry.parts), entry, c)
Reached(t) == [resolves |-> t.rhost # "unknown", ips |-> IF t.rhost = "127.0.0.1" THEN {1} ELSE {2, 3}, port |-> t.rport]
parseRemotes(c) ==
    /\ parseTunnelsConfig(c)
    /\ \A i \in DOMAIN c.allowed : ParseTunnelAllowed(c.allowed[i]) # <<>>
    /\ \A i \in DOMAIN c.remotes :
          /\ parseRemoteEntry(c.remotes[i])
          /\ NewRemote(c.remotes[i].parts).ok
          /\ TunnelIsAllowed(c.allowed, Reached(NewRemote(c.remotes[i].parts)))
          /\ validateTunnelProxy(TunnelOf(c.remotes[i], c))

(* An alias is the path of a shell, or a list of that and one or two encodings.   *)
EncodingFromConfig(e) == e \in {"utf-8", "cp437"}
parseInterpreterAliases(c) ==
    \A a \in c.aliases :
        /\ a # <<>>
        /\ \A i \in 1..Len(a) : i <= 3 => a[i] # "number"
        /\ \A i \in 2..Len(a) : i <= 3 => EncodingFromConfig(a[i])
(* One encoding is that of both ways.                                             *)
AliasEncodings(c) == {[input |-> a[2], output |-> a[IF Len(a) > 2 THEN 3 ELSE 2]] : a \in {b \in c.aliases : Len(b) > 1}}

parseRegexpList(list) == "junk" \notin list
parseRemoteCommands(c) ==
    /\ c.sendBackLimit >= 0
    /\ parseRegexpList(c.allow) /\ parseRegexpList(c.deny)
    /\ c.order \in {"allow,deny", "deny,allow"}

parseRemoteScripts(c, skipScriptsDirValidation) == skipScriptsDirValidation \/ (c.scripts => c.commands)

DefaultMonitoringInterval == 60
ParseAndValidateMonitoring(c) == {c.netLan, c.netWan} \subseteq {"", "card"}
ParseAndValidateFilePushConfig(c) == c.protected \subseteq {"good"}
ParseAndValidateConnection(c) == c.watchdog => c.keepAlive # 0 /\ c.maxRetryCount <= 0

parseAndValidateIPAPIURL(c) == c.ipapi = "" \/ c.proxy # NoProxy \/ c.ipapi \in {"http", "https"}

checkLoopback(listen) == listen \notin {"", "junk", "far"}
ValidateListen(listen) == checkLoopback(listen) /\ listen # "port 0"
parseE2E(c) == c.e2e => ValidateListen(c.e2eListen) /\ c.authorizedKeys

AgentParseAndValidate(c, skipScriptsDirValidation) ==
    /\ parseHeaders(c) /\ parseServerURL(c) /\ parseFallbackServers(c) /\ parseTransports(c) /\ parseProxyURL(c)
    /\ parseRemotes(c) /\ parseInterpreterAliases(c)
    /\ c.dataDir
    /\ parseRemoteCommands(c) /\ parseRemoteScripts(c, skipScriptsDirValidation)
    /\ ParseAndValidateMonitoring(c) /\ ParseAndValidateFilePushConfig(c) /\ ParseAndValidateConnection(c)
    /\ parseAndValidateIPAPIURL(c) /\ parseE2E(c)

(* An explicit list wins; otherwise the proxy is the only transport; otherwise the *)
(* agent dials directly.                                                          *)
Specs(c) == IF c.transports # <<>> THEN c.transports ELSE IF c.proxy # NoProxy THEN <<c.proxy>> ELSE <<Proxy("direct", "")>>

Understood(c) ==
    [servers |-> Servers(c), headers |-> HTTPHeaders(c), specs |-> Specs(c), ipapi |-> IF c.proxy # NoProxy THEN "" ELSE c.ipapi,
     tunnels |-> {TunnelOf(c.remotes[i], c) : i \in DOMAIN c.remotes}, encodings |-> AliasEncodings(c),
     retry |-> IF c.maxRetryInterval < 1 THEN 300 ELSE c.maxRetryInterval,
     measure |-> IF c.monitoringInterval < DefaultMonitoringInterval THEN DefaultMonitoringInterval ELSE c.monitoringInterval,
     hostKey |-> IF c.e2e /\ c.hostKey = "" THEN "data_dir" ELSE c.hostKey, watchdog |-> c.watchdog, bind |-> c.bind]

(* ---- the process ------------------------------------------------------------------------- *)
AgentConfigurationInit(deployments) ==
    /\ Started(deployments)
    /\ mem = [pc |-> setup.call, conf |-> <<>>]
    /\ db = [installed |-> FALSE, dirs |-> {}]
    /\ ghost = <<>>

AtAgent(pc) == Serves("agent configuration") /\ mem.pc = pc
Interactive == setup.call = "decode"
AgentGoes(pc) == mem' = [mem EXCEPT !.pc = pc]
AgentStep == Quiet /\ UNCHANGED <<reqs, ghost>>

(* Flags and arguments count only where a person starts the agent; there the      *)
(* options of all tunnels come from the flags alone.                              *)
Flags == setup.flags @@ AgentDefault
readArgsFromCLI(c) ==
    [c EXCEPT !.server = IF setup.args = <<>> THEN @ ELSE setup.args[1],
              !.remotes = IF setup.args = <<>> THEN @ ELSE Tail(setup.args),
              !.scheme = Flags.scheme, !.reverseProxy = Flags.reverseProxy, !.hostHeader = Flags.hostHeader]
DecodeConfig(override) ==
    LET file == setup.config @@ AgentDefault IN IF override THEN readArgsFromCLI(setup.flags @@ file) ELSE file
Decoded == DecodeConfig(Interactive)

ManageService ==
    /\ AtAgent("install")
    /\ LET ok == AgentParseAndValidate(DecodeConfig(FALSE), TRUE)
       IN  AgentGoes(IF ok THEN "decode" ELSE "refused") /\ db' = [db EXCEPT !.installed = ok]
    /\ AgentStep

(* From here on runClient, as the service or for a person.                        *)
StartLog ==
    /\ AtAgent("decode")
    /\ AgentGoes("dirs") /\ UNCHANGED db /\ AgentStep

MkdirAll ==
    /\ AtAgent("dirs") /\ Decoded.dataDir
    /\ AgentGoes("scripts") /\ db' = [db EXCEPT !.dirs = @ \cup {"data"}]
    /\ AgentStep
PrepareDirs ==
    /\ AtAgent("scripts")
    /\ AgentGoes("parse") /\ db' = [db EXCEPT !.dirs = @ \cup {"scripts"}]
    /\ AgentStep
NoDataDir ==
    /\ AtAgent("dirs") /\ ~Decoded.dataDir
    /\ AgentGoes("failed") /\ UNCHANGED db /\ AgentStep

ParseConfig ==
    /\ AtAgent("parse")
    /\ mem' = IF AgentParseAndValidate(Decoded, FALSE) THEN [pc |-> "root", conf |-> Understood(Decoded)] ELSE [mem EXCEPT !.pc = "refused"]
    /\ UNCHANGED db /\ AgentStep

checkRootOK ==
    /\ AtAgent("root")
    /\ AgentGoes(IF setup.root /\ ~Decoded.allowRoot THEN "not as root" ELSE "watchdog")
    /\ UNCHANGED db /\ AgentStep

NewWatchdog ==
    /\ AtAgent("watchdog")
    /\ AgentGoes("chain") /\ db' = [db EXCEPT !.dirs = @ \cup (IF mem.conf.watchdog THEN {"state.json"} ELSE {})]
    /\ AgentStep

NewAgent ==
    /\ AtAgent("chain")
    /\ AgentGoes(IF ParsesAsChain(mem.conf.specs) THEN "running" ELSE "failed")
    /\ UNCHANGED db /\ AgentStep

StartFails ==
    /\ Fault("agent configuration", "disk")
    /\ mem.pc \in {"decode", "dirs", "scripts"} \/ (mem.pc = "watchdog" /\ mem.conf.watchdog)
    /\ AgentGoes("failed") /\ UNCHANGED <<db, reqs, ghost>>

AgentConfigurationNext ==
    ManageService \/ StartLog \/ MkdirAll \/ PrepareDirs \/ NoDataDir \/ ParseConfig \/ checkRootOK \/ NewWatchdog \/ NewAgent
    \/ StartFails

(* ---- property ---------------------------------------------------------------------------- *)
(* What a candidate's first hop leads to: the proxy it names, or the server.      *)
FirstHops(spec) == {p \in {Apply(spec).proxy, Apply(spec).net} : p # NoProxy}
DialsDirectly(spec) == FirstHops(spec) = {}

(* A configuration that "service install" accepts is one the service runs with:   *)
(* where no disk fails and the service's account may run it, ParseAndValidate     *)
(* does not refuse it the second time and NewClient builds its chain, except for  *)
(* scripts without commands, which only the start looks at. And a running agent   *)
(* keeps to what was written: it dials without a proxy only where "direct" is the *)
(* last transport or neither key is set, through one proxy at a time otherwise;   *)
(* next to a proxy nothing looks up its address; an onion name in a chain is      *)
(* pinned; a proxy on this host is not reached through the bound interface; and   *)
(* each of its tunnels is one that tunnel_allowed admits, with a host header only *)
(* behind the reverse proxy.                                                      *)
AgentStarts ==
    Serves("agent configuration") =>
        LET c == Decoded IN
        /\ (db.installed /\ budget.faults = 0 /\ (c.scripts => c.commands)) => mem.pc \notin {"refused", "failed"}
        /\ mem.pc = "running" =>
              /\ \A i \in DOMAIN mem.conf.specs :
                    LET spec == mem.conf.specs[i] IN
                    /\ DialsDirectly(spec) => i = Len(mem.conf.specs) /\ (Proxy("direct", "") \in Range(c.transports) \cup {c.proxy}
                                                                          \/ (c.transports = <<>> /\ c.proxy = NoProxy))
                    /\ Cardinality(FirstHops(spec)) <= 1
                    /\ setupDialer(spec, mem.conf.bind) => \A p \in FirstHops(spec) : ~isLoopbackHost(p.host)
              /\ (c.transports # <<>> \/ c.proxy # NoProxy) => mem.conf.ipapi = ""
              /\ (c.transports # <<>> /\ \E u \in mem.conf.servers : IsOnion(u)) => c.fingerprint
              /\ \A t \in mem.conf.tunnels : TunnelIsAllowed(c.allowed, Reached(t)) /\ (t.header # "" => t.proxy)
=============================================================================
