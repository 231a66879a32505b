----------------------------- MODULE MCServices -----------------------------
(* The services of the server under two concurrent requests and one fault: each   *)
(* initial state is one deployment of one service, and requests of the kinds and  *)
(* numbers it names arrive in any order.                                          *)
EXTENDS Vault, Library, UserStore, Credentials, Uploads, Measurements, AuditLog, Notifications, Lifecycle, Listing, Datagrams, Commands, TunnelOrders,
        AgentConfiguration, EndToEnd, AtRest, Execution

CONSTANTS r1, r2, c1, c2

FreshVault == [service |-> "vault", legacy |-> -1, admins |-> 1, faults |-> {"statement"},
               sends |-> [init |-> 2, unlock |-> 1, lock |-> 1, store |-> 1]]
OldVault == [service |-> "vault", legacy |-> 1, admins |-> 1, faults |-> {"restart"},
             sends |-> [unlock |-> 1, lock |-> 1, store |-> 1, delete |-> 1]]
OldVaultRead == [service |-> "vault", legacy |-> 1, admins |-> 1, faults |-> {},
                 sends |-> [unlock |-> 1, lock |-> 1, store |-> 1, delete |-> 1, read |-> 1]]
VaultTwice(legacy) == [service |-> "vault", legacy |-> legacy, admins |-> 2, faults |-> {"restart"}, sends |-> [unlock |-> 2, lock |-> 1, store |-> 1]]

LibraryOf(table, sends, faults) == [service |-> "library", table |-> table, faults |-> faults, sends |-> sends]
Scripts == LibraryOf("scripts", [create |-> 2, update |-> 1, delete |-> 1], {"statement"})
ScriptsTwice == LibraryOf("scripts", [create |-> 2, update |-> 2], {"statement"})
Commands == LibraryOf("commands", [create |-> 2, update |-> 1, delete |-> 1], {})
Groups == LibraryOf("groups", "post group" :> 1 @@ "put group" :> 2 @@ "delete group" :> 1, {})
Stored == LibraryOf("stored", [post |-> 2, put |-> 1, drop |-> 1], {"purge"})

UsersIn(provider, sends, faults) == [service |-> "users", provider |-> provider, faults |-> faults, sends |-> sends]
UserFile == UsersIn("file", [add |-> 1, update |-> 1, delete |-> 1], {"file"})
UserFileRead == UsersIn("file", [add |-> 1, update |-> 2], {"reload"})
UserTable == UsersIn("database", "add" :> 1 @@ "update" :> 1 @@ "delete" :> 1 @@ "put group" :> 1 @@ "delete group" :> 1, {})
UserTableTwice == UsersIn("database", "add" :> 1 @@ "update" :> 2 @@ "put group" :> 1 @@ "delete group" :> 1, {})
UserStatic == UsersIn("static", [add |-> 1, update |-> 1, delete |-> 1], {})

CredsIn(provider, authWrite, sends, faults, tries, peers) ==
    [service |-> "credentials", provider |-> provider, authWrite |-> authWrite, pairing |-> authWrite,
     tries |-> tries, peers |-> peers, faults |-> faults, sends |-> sends]
CredFiles == CredsIn("file", TRUE, [post |-> 1, delete |-> 1, login |-> 1], {"expiry", "crash", "disk"}, {"p"}, {"remote"})
CredTable == CredsIn("database", TRUE, [post |-> 1, delete |-> 1, login |-> 2], {"crash"}, {"p", "q"}, {"loopback"})
CredSingle == CredsIn("single", TRUE, [post |-> 1, delete |-> 1, login |-> 2], {"wait"}, {"p", "q", ""}, {"remote", "loopback"})
CredReadOnly == CredsIn("file", FALSE, [post |-> 1, delete |-> 1, login |-> 1, pair |-> 1, shred |-> 1], {}, {"p"}, {"remote"})
CredPairing == CredsIn("file", TRUE, [pair |-> 1, shred |-> 1], {}, {"p"}, {"remote"})

Site(at) == [abs |-> TRUE, at |-> at]
Form == [parses |-> TRUE, tags |-> "none", file |-> TRUE, id |-> "f", data |-> "A", targets |-> {c1}, dest |-> Site(<<"srv", "f">>), mode |-> 0,
         owner |-> "", group |-> "", force |-> "", sync |-> ""]
PushesOf(forms, former, reception, sends, faults) ==
    [service |-> "uploads", ids |-> {f.id : f \in forms}, forms |-> forms, accessible |-> {c1, c2}, former |-> former, reception |-> reception,
     dirs |-> {<<>>, <<"srv">>}, links |-> <<>>, protected |-> {}, denied |-> [dirs |-> {}, files |-> {}], privileged |-> TRUE, crosses |-> FALSE,
     sends |-> sends, faults |-> faults]
AllOn == [c \in Clients |-> "on"]
SameId == PushesOf({[Form EXCEPT !.force = "true", !.targets = {c1, c2}], [Form EXCEPT !.force = "true", !.data = "B"]}, "file", AllOn, [push |-> 2], {})
OneAgent == PushesOf({[Form EXCEPT !.data = d, !.mode = m] : d \in {"A", "B"}, m \in {0, 1}} \cup {[Form EXCEPT !.sync = "true", !.mode = m] : m \in {0, 1}}
                     \cup {[Form EXCEPT !.force = "true"]}, "file", AllOn, [push |-> 2], {"agent", "staging"})
NoDir == PushesOf({[Form EXCEPT !.targets = {c1, c2}, !.mode = m] : m \in {0, 1}}, "none", [AllOn EXCEPT ![c2] = "off"], [push |-> 1, listen |-> 1], {"agent"})
Device == PushesOf({[Form EXCEPT !.force = "true", !.mode = m] : m \in {0, 1}}, "other", AllOn, [push |-> 1], {"agent"})
Loses == PushesOf({[Form EXCEPT !.sync = "true", !.id = i] : i \in {"f", "g"}}, "none", AllOn, [push |-> 2, listen |-> 1], {"lost"})
Crosses(former) == [PushesOf({[Form EXCEPT !.force = "true", !.mode = m] : m \in {0, 1}}, former, [AllOn EXCEPT ![c2] = "hidden"], [push |-> 1], {"agent"})
            EXCEPT !.crosses = TRUE]
Owners == {[PushesOf({[Form EXCEPT !.owner = o, !.group = g, !.sync = "true"]}, former, AllOn, [push |-> IF p THEN 2 ELSE 1], {})
             EXCEPT !.privileged = p] : o, g \in {"", "agent", "web", "unknown"}, former \in {"none", "file"}, p \in BOOLEAN}
FormChoices == {"parses" :> FALSE, "file" :> FALSE, "id" :> "", "id" :> "a/b", "targets" :> {}, "dest" :> [abs |-> FALSE, at |-> <<"srv", "f">>], "dest" :> Site(<<".ssh", "f">>),
                "dest" :> Site(<<"proc", "f">>), "dest" :> Site(<<"passwd">>)} \cup {"tags" :> x : x \in {"one", "two", "junk"}} \cup {"mode" :> x : x \in {-1, 2, 3}}
               \cup {"force" :> x : x \in {"true", "false", "junk"}} \cup {"sync" :> x : x \in {"true", "false", "junk"}}
OneForm == {[PushesOf({x @@ y @@ Form}, "file", AllOn, [push |-> 1], {}) EXCEPT !.accessible = {c1}, !.denied = [dirs |-> {<<"proc">>}, files |-> {<<"passwd">>}]]
            : x, y \in FormChoices}
Trees == {<<>>, <<"srv">>, <<"etc">>, <<"etc", "d">>, <<"home">>, <<"home", "u">>}
Spellings == {[PushesOf({[Form EXCEPT !.dest = Site(at)]}, "none", AllOn, [push |-> 1], {})
               EXCEPT !.dirs = Trees, !.links = l, !.protected = {[glob |-> q, subtree |-> s]}]
              : at \in {<<"etc", "d", "f">>, <<"alias", "d", "f">>, <<"alias", "f">>, <<"etc", "e", "x", "f">>, <<"alias", "e", "f">>, <<"home", "u", "k", "f">>, <<"srv", "f">>, <<"srv", "d", "f">>},
                l \in {<<>>, <<"alias">> :> <<"etc">>, (<<"alias">> :> <<"etc">>) @@ (<<"srv", "d">> :> <<"etc", "d">>),
                       <<"home", "u", "k">> :> <<"srv">>},
                q \in {<<"etc", "d">>, <<"alias", "d">>, <<"alias", "e">>, <<"home", "*", "k">>, <<"alias">>, <<"etc", "e", "x">>}, s \in BOOLEAN}

MeasuresOf(enabled, encrypts, legacy, queue, chunk, texts, faults, sends) ==
    [service |-> "measurements", enabled |-> enabled, encrypts |-> encrypts, legacy |-> legacy, queue |-> queue, texts |-> texts, chunk |-> chunk,
     keep |-> 2, vacuumEvery |-> 3, perSecond |-> 2, minSpan |-> 1, maxSpan |-> 1, zones |-> {-1, 0, 1}, faults |-> faults, sends |-> sends]
Collects == MeasuresOf(TRUE, TRUE, {c1, c2}, 1, 1, {"json"}, {"statement", "backfill", "close"}, [measure |-> 3, read |-> 0, cleanup |-> 1])
Plots == MeasuresOf(TRUE, TRUE, {c1}, 2, 2, {"json", "junk"}, {}, [measure |-> 2, read |-> 1, cleanup |-> 1])
InClear == MeasuresOf(TRUE, FALSE, {c1}, 1, 1, {""}, {"statement"}, [measure |-> 3, read |-> 1, cleanup |-> 1])
MonitorOff == MeasuresOf(FALSE, FALSE, {}, 1, 1, {"json"}, {}, [measure |-> 2, read |-> 1, cleanup |-> 1])

Leaf(t) == [kind |-> "leaf", text |-> t]
Map(f) == [kind |-> "map", fields |-> f]
OneBody == {Leaf("b")}
SecretBody == {Map([name |-> Map([password |-> Leaf("p")]), password |-> Leaf("")])}
AuditOf(enabled, key, keys, users, concerns, bodies, retention, faults, sends) ==
    [service |-> "audit", enabled |-> enabled, key |-> key, keys |-> keys, users |-> users, concerns |-> concerns, bodies |-> bodies,
     retention |-> retention, period |-> 1, faults |-> faults, sends |-> sends]
Chained == AuditOf(TRUE, "k", {"k", "none"}, {"u"}, {<<c1>>}, OneBody, 0,
                   {"statement", "rename", "open", "restart", "clock"}, [save |-> 3, tick |-> 2])
ForTwo == AuditOf(TRUE, "k", {"k"}, {"u"}, {<<c1, c2>>}, SecretBody, 1, {"prune", "clock"}, [save |-> 2, tick |-> 2, close |-> 1])
Unchained == AuditOf(TRUE, "none", {"none"}, {"u", "v"}, {<<c1>>}, OneBody, 1, {"open"}, [save |-> 2, tick |-> 2, list |-> 1])
AuditOff == AuditOf(FALSE, "none", {"none"}, {"u"}, {<<c1>>}, OneBody, 1, {}, [save |-> 1, list |-> 1])
DiskFails == AuditOf(TRUE, "k", {"k"}, {"u"}, {<<c1>>}, OneBody, 0, {"open"}, [save |-> 2, tick |-> 2])

NotifiesOf(names, sizes, faults, sends) ==
    [service |-> "notifications", names |-> names, sizes |-> sizes, queue |-> 2, limit |-> 0, hanging |-> 1, textLimit |-> 4, keepFor |-> 2,
     faults |-> faults, sends |-> sends]
ByMail == NotifiesOf({"smtp"}, {0}, {"statement"}, [dispatch |-> 3])
ByMailKept == NotifiesOf({"smtp"}, {0}, {"close", "restart"}, [dispatch |-> 2, clean |-> 2])
ByScript == NotifiesOf({"run.sh"}, {3, 5}, {"close", "statement"}, [dispatch |-> 3])
ByBoth == NotifiesOf({"smtp", "run.sh"}, {5}, {"restart"}, [dispatch |-> 2, clean |-> 1])

(* Every configuration that differs from the default in one setting, and in one   *)
(* that decides whether others matter, is started; a few are stopped again, with  *)
(* something failing on the way.                                                  *)
Choices ==
    {"placeholders" :> {"jwt_secret"}, "sealed" :> {"k"}, "listen" :> "junk", "listen" :> "3000", "listen" :> "443", "url" :> {},
     "url" :> {Url("ftp", TRUE, FALSE)}, "PairingURL" :> {Url("https", FALSE, TRUE)}, "excluded" :> {<<0, 9>>}, "used" :> {<<5, 1>>},
     "trusted" :> {"name"}, "dataDir" :> FALSE, "keyType" :> "file", "keyType" :> "env", "keyType" :> "vault", "keyFile" :> "k",
     "keyFile" :> "readable by others", "keyFile" :> "short", "KeepDisconnectedClients" :> 0, "purge" :> FALSE, "purgeInterval" :> 0,
     "KeepLostClients" :> MaxKeepDisconnectedClients, "KeepLostClients" :> MaxKeepDisconnectedClients + 1, "CleanupLostClients" :> TRUE,
     "CleanupClientsInterval" :> 1, "CleanupClientsInterval" :> -1, "checkInterval" :> 0, "auth" :> {}, "auth" :> {"pair", "file"},
     "auth" :> {"table"}, "auth" :> {"file"}, "authText" :> "id", "dbType" :> "mysql", "dbType" :> "oracle", "proxy" :> {Web},
     "proxy" :> {Url("", FALSE, TRUE)}, "handshakes" :> 0, "handshakes" :> -1, "CheckPortTimeout" :> 61, "tpCert" :> "good",
     "tpKey" :> "good", "tpKey" :> "bad", "tpAcme" :> TRUE, "guacd" :> "silent", "tpHost" :> "a b", "tpTLSMin" :> "1.1", "targetCA" :> "bad",
     "tpCORS" :> {Web, Url("ftp", TRUE, FALSE)}, "CORS" :> {Url("*", FALSE, FALSE), Url("https", TRUE, TRUE)}, "api" :> "", "api" :> "443",
     "api" :> "junk", "apiAuth" :> {}, "apiAuth" :> {"file"}, "apiAuth" :> {"table"}, "apiAuth" :> {"file", "table"}, "apiAuthText" :> "user",
     "usersFile" :> "missing", "usersFile" :> "malformed", "usersTable" :> "missing" @@ "dbType" :> "sqlite", "usersTable" :> "plain text" @@ "dbType" :> "sqlite",
     "groupTable" :> FALSE, "AuthHeader" :> TRUE, "UserHeader" :> FALSE, "BaseURL" :> {Web}, "BaseURL" :> {Url("junk", FALSE, FALSE)},
     "EnableAcme" :> TRUE, "CertFile" :> "good", "KeyFile" :> "good", "KeyFile" :> "bad", "JWTSecret" :> "own", "delivery" :> "smtp",
     "delivery" :> "pushover", "delivery" :> "script", "delivery" :> "url", "delivery" :> "pigeon", "SendToType" :> "regex",
     "SendToType" :> "fax", "regex" :> "bad", "pushover" :> "bad", "smtp" :> "bad", "smtpAnswers" :> FALSE, "TotPEnabled" :> TRUE,
     "TLSMin" :> "1.1", "MaxTokenLifeTimeHours" :> 2161, "MaxTokenLifeTimeHours" :> 2562048, "DocRoot" :> TRUE, "auditLog" :> FALSE,
     "rotation" :> "hourly", "caddy" :> {"exec"}, "caddy" :> CaddySet, "caddyVersion" :> 1, "caddyAddress" :> "junk", "caddyPair" :> "bad",
     "apiHostname" :> TRUE, "apiPort" :> TRUE, "apiCert" :> "good", "apiKey" :> "good", "apiKey" :> "missing", "caddyTLSMin" :> "1.0",
     "monitoring" :> FALSE, "DataStorageDuration" :> <<>>, "DataStorageDuration" :> <<7>>, "DataStorageDuration" :> <<0, "h">>,
     "DataStorageDuration" :> <<106752, "d">>, "DataStorageDuration" :> <<3, "w">>, "DataStorageDays" :> 3, "logStorage" :> "junk",
     "cleanup" :> "junk", "cleanup" :> "0s"}
Boots(config, watched, faults, sends) ==
    [service |-> "lifecycle", config |-> config, watched |-> watched, faults |-> faults, sends |-> sends]
\* The settings that decide which of the others matter.
Switches == {c \in Choices : DOMAIN c \subseteq {"listen", "dataDir", "keyType", "keyFile", "auth", "dbType", "tpCert", "tpKey", "tpAcme", "api", "apiAuth", "AuthHeader",
    "BaseURL", "EnableAcme", "CertFile", "KeyFile", "JWTSecret", "delivery", "SendToType", "TotPEnabled", "caddy", "apiHostname", "apiCert", "DataStorageDuration"}}
Pairs == {Boots(a @@ b, {}, {}, <<>>) : a \in Choices, b \in Switches}
Stops == {Boots("api" :> "3000", {"purge", "status"}, {"open", "port"}, [signal |-> 1]),
          Boots("api" :> "3000", {"jobs"}, {"serve"}, [signal |-> 1]),
          Boots("api" :> "", {}, {"serve"}, [signal |-> 1]),
          Boots("caddy" :> CaddySet, {}, {"caddy", "port"}, [signal |-> 1])}

(* The lists: one user reads all pages of one list, of many filters, orders and   *)
(* pages, or of a few while things change.                                        *)
W(c) == <<c>>
Patterns == {W("a"), W("*"), <<"a", "*">>, <<"*", "a">>, <<"a", "*", "b">>, <<"%", "*">>, <<"*", "%">>, <<"A", "*">>, <<"b">>,
             <<"a", "_", "*">>, <<"a", ".", "*">>, <<"a", "+", "b", "*">>, <<"+", "*">>, <<"*", "+">>, <<"a", "_">>, <<"a", ".", "b">>}

FilterOn(columns, block, operands) == [named |-> TRUE, columns |-> columns, operator |-> "", values |-> <<[block |-> block, operands |-> operands]>>]
AsksFor(filters, sorts, fields, limit, offset) == [filters |-> filters, sorts |-> sorts, fields |-> fields, limit |-> limit, offset |-> offset]
By(column, minus) == <<[column |-> column, minus |-> minus]>>

RowOf(id, name, tags) == [id |-> <<id>>, name |-> <<name>>, tags |-> tags]
Three == W("a") :> RowOf(W("a"), <<"A", "_">>, <<<<"a", ".", "b">>>>) @@ W("b") :> RowOf(W("b"), <<"a", "b">>, <<W("b"), W("a")>>)
         @@ <<"a", "b">> :> RowOf(<<"a", "b">>, <<"a", "%", "b">>, <<W("A")>>)
ClientOf(name, tags, connected, allowed) == [name |-> name, tags |-> tags, connected |-> connected, allowed |-> allowed, obsolete |-> FALSE]
TagList(operands) == <<[kind |-> "list", operands |-> operands]>>
TagsAnd(operator, operands) == <<[kind |-> "object", operator |-> operator, operands |-> operands]>>
GroupOf(name, names, tag, allowed) == [name |-> name, params |-> [name |-> names, tag |-> tag], allowed |-> allowed]

Fleet == W("a") :> ClientOf(W("b"), <<W("a")>>, TRUE, {"u"}) @@ W("b") :> ClientOf(<<"a", "b", "a">>, <<W("a"), W("b")>>, FALSE, {})
         @@ <<"a", "b">> :> ClientOf(<<"a", "+", "b">>, <<>>, FALSE, {})
Admin == [name |-> "root", admin |-> TRUE, groups |-> {"Administrators"}]
User == [name |-> "ann", admin |-> FALSE, groups |-> {"u"}]
NoTargets == [ids |-> <<>>, groups |-> <<>>, tags |-> <<>>]

ListOf(list, user, query, groups, targets, faults, sends) ==
    [service |-> "lists", list |-> list, user |-> user, query |-> query, rows |-> Three, groups |-> groups, clients |-> Fleet,
     targets |-> targets, creator |-> "ann", page |-> [max |-> 2, default |-> 1], entries |-> 3, newTags |-> {<<W("b")>>, <<>>}, ages |-> {W("b")},
     faults |-> faults, sends |-> sends]

Whole(filters) == AsksFor(filters, <<>>, <<>>, Absent, Absent)
TwoGroups == W("a") :> GroupOf(W("a"), <<<<<<"a", "*">>>>>>, <<>>, {"u"}) @@ W("b") :> GroupOf(<<"a", "b">>, <<>>, TagsAnd("and", <<W("a"), W("b")>>), {"u"})
GroupBy(names, tag) == W("a") :> GroupOf(W("a"), names, tag, {"u"})
Walk == [walk |-> 1]
Filtered == {<<FilterOn(cols, block, <<p>>)>> : cols \in {<<"name">>, <<"name", "tags">>, <<"*">>}, block \in {"", "and"}, p \in Patterns}
            \cup {<<FilterOn(<<"tags">>, block, <<W("a"), W("b")>>)>> : block \in {"and", "or"}}
            \cup {<<FilterOn(<<"name">>, "", <<<<"a", "*">>>>), FilterOn(<<"tags">>, "", <<W("b")>>)>>, <<FilterOn(<<"none">>, "", <<W("a")>>)>>}
Orders == {AsksFor(<<>>, s, <<>>, limit, offset) : s \in {<<>>, By("id", TRUE), By("name", FALSE), By("none", FALSE)},
                                             limit \in {Absent, 1, 2, 3, 0, NotANumber}, offset \in {Absent, 1, 3, MaxInt, -1, NotANumber}}
         \cup {AsksFor(<<>>, By("name", TRUE) \o By("id", TRUE), <<>>, 2, 0)}
         \cup {AsksFor(<<>>, <<>>, <<[resource |-> r, fields |-> <<"id">>]>>, 2, 0) : r \in {"commands", "scripts", "clients", "none"}}
         \cup {AsksFor(<<FilterOn(<<"tags">>, "", <<W("a")>>)>>, <<>>, <<[resource |-> r, fields |-> f]>>, 2, 0) :
                r \in {"commands", "scripts"}, f \in {<<"id">>, <<"id", "tags">>}}
GlobGroups == {GroupBy(<<<<p>>>>, <<>>) : p \in Patterns \cup {<<"*", "b", "*", "a">>, <<"a", "*", "a">>, <<"*", "b", "*">>, <<"a", "b", "*", "b", "a">>}}
              \cup {GroupBy(<<>>, t) : t \in {TagList(<<>>), TagList(<<W("b"), W("a")>>), TagsAnd("and", <<W("a"), W("*")>>), TagsAnd("or", <<W("b")>>)}}
              \cup {GroupBy(<<>>, <<>>), GroupBy(<<<<W("b"), W("*")>>>>, TagList(<<W("a")>>))}
Lists ==
    {ListOf("commands", Admin, Whole(f), TwoGroups, NoTargets, {}, Walk) : f \in Filtered}
    \cup {ListOf(l, Admin, q, TwoGroups, NoTargets, {}, Walk) : l \in {"commands", "scripts", "clients", "groups", "credentials"}, q \in Orders}
    \cup {ListOf("clients", u, Whole(f), TwoGroups, NoTargets, {}, Walk) : u \in {Admin, User}, f \in Filtered}
    \cup {ListOf("clients", u, Whole(<<FilterOn(<<"groups">>, "", <<W("a")>>)>>), g, NoTargets, {}, Walk) : u \in {Admin, User}, g \in GlobGroups}
Ids(ids) == [NoTargets EXCEPT !.ids = <<ids>>]
InGroups(ids, groups) == [ids |-> <<ids>>, groups |-> <<groups>>, tags |-> <<>>]
ByTags(operator, tags) == [NoTargets EXCEPT !.tags = <<[operator |-> operator, tags |-> tags]>>]
TargetSets == {Ids(<<W("b"), W("b")>>), Ids(<<W("a"), W("b")>>), Ids(<<W("a"), <<"%">>>>), InGroups(<<W("b")>>, <<W("a"), W("b")>>), InGroups(<<>>, <<W("b")>>),
            InGroups(<<>>, <<>>), InGroups(<<>>, <<<<"%">>>>), ByTags("and", <<W("a"), W("b")>>), ByTags("or", <<W("a")>>), ByTags("or", <<>>), NoTargets,
            [Ids(<<W("a")>>) EXCEPT !.tags = <<[operator |-> "or", tags |-> <<W("a")>>]>>]}
(* Only one of the groups grants its clients to the user, and a client that it     *)
(* does not match may take the tags of the other.                                  *)
OneGrants == [TwoGroups EXCEPT ![W("b")].allowed = {}]
WithStranger == <<"b", "a">> :> ClientOf(W("b"), <<>>, TRUE, {}) @@ Fleet
Changes ==
    {[ListOf("schedules", User, Whole(<<>>), OneGrants, t, {"time", "statement"}, "walk" :> 1 @@ "delete client" :> 1 @@ "delete group" :> 1 @@ x :> 1)
        EXCEPT !.clients = WithStranger, !.newTags = {<<W("a"), W("b")>>, <<>>}] : t \in TargetSets, x \in {"acl", "attributes"}}
    \cup {[ListOf("schedules", u, Whole(<<>>), OneGrants, Ids(<<W("a")>>), {}, "walk" :> 1 @@ "acl" :> 1) EXCEPT !.creator = "bob"] : u \in {User, Admin}}
    \cup {ListOf(l, User, Whole(<<>>), TwoGroups, NoTargets, {"agent", "statement"}, "walk" :> 1 @@ "attributes" :> 1 @@ "delete group" :> 1) : l \in {"clients", "tags", "groups"}}

(* UDP tunnels: peers in the order given, access lists that narrow, termination.   *)
NetOf(ip, ips) == [kind |-> "net", ip |-> ip, ips |-> ips]
AllowedEntry(host, ips, port, parts) == [host |-> host, ips |-> ips, port |-> port, parts |-> parts]
UdpTunnel(comes, allowed, acl, acls, sends, faults) ==
    [service |-> "datagrams", comes |-> comes, peers |-> 1..3, udpPeerTTL |-> 1, maxTrackedUDPPeers |-> 2, activeConnectionTimeout |-> 1,
     allowed |-> allowed, remote |-> [resolves |-> TRUE, ips |-> {1, 2}, port |-> "443"], acl |-> acl, acls |-> acls, sends |-> sends, faults |-> faults]
UdpBusy(comes, ticks) == UdpTunnel(comes, <<>>, <<>>, {}, [tick |-> ticks], {})
UdpNarrows == UdpTunnel(<<1, 2>>, <<>>, <<>>, {<<NetOf(1, {1})>>, <<[kind |-> "text"]>>, <<NetOf(0, 0..3)>>}, [acl |-> 1, tick |-> 1], {})
UdpEnds == UdpTunnel(<<2, 3, 1>>, <<>>, <<NetOf(1, {1, 2})>>, {}, [terminate |-> 1], {"connection"})
UdpFails == UdpTunnel(<<1, 1>>, <<>>, <<>>, {}, [terminate |-> 1], {"socket", "target"})
AllowedSettings ==
    {<<AllowedEntry("net", {1, 2}, "", 1)>>, <<AllowedEntry("net", {1}, "443", 2), AllowedEntry("text", {}, "443", 1)>>, <<AllowedEntry("net", {1}, "", 1)>>,
     <<AllowedEntry("", {}, "80", 2)>>, <<AllowedEntry("text", {}, "80", 2), AllowedEntry("", {}, "443", 2)>>, <<AllowedEntry("", {}, "", 1)>>,
     <<AllowedEntry("text", {}, "text", 1)>>, <<AllowedEntry("net", {1, 2}, "", 3)>>}
UdpTunnels == {UdpBusy(<<1, 1>>, 2), UdpBusy(<<1, 2, 3>>, 1), UdpNarrows, UdpEnds, UdpFails} \cup {UdpTunnel(<<1>>, a, <<>>, {}, [tick |-> 0], {}) : a \in AllowedSettings}

(* Commands: one order through each entry point, of many texts and aims, and the  *)
(* clean-up beside two of them.                                                   *)
OrderOf(via, user, p, command, script, interpreter, timeout) ==
    [via |-> via, user |-> user, p |-> p, command |-> command, script |-> script, interpreter |-> interpreter, timeout |-> timeout]
Manned(c, paused) == [c EXCEPT !.connected = TRUE] @@ [paused |-> paused]
Crew == W("a") :> Manned(ClientOf(W("a"), <<W("a")>>, TRUE, {"u"}), FALSE) @@ W("b") :> Manned(ClientOf(W("b"), <<W("a")>>, TRUE, {}), TRUE)
Staff == [root |-> [admin |-> TRUE, groups |-> {"Administrators"}, permissions |-> {"commands", "scripts"}],
          ann |-> [admin |-> FALSE, groups |-> {"u"}, permissions |-> {"commands"}]]
ShiftGroups == W("a") :> GroupOf(W("a"), <<<<W("b")>>>>, <<>>, {"u"})
Desk(orders, sends, faults, maxJobs) ==
    [service |-> "commands", orders |-> orders, users |-> Staff, groups |-> ShiftGroups, clients |-> Crew, grouped |-> TRUE,
     runRemoteCmdTimeoutSec |-> 1, maxJobs |-> maxJobs, sends |-> sends, faults |-> faults]
EntryPoints == {"single", "multi", "multi-script", "ws", "schedule"}
Texts == {<<"text", "no">>, <<"", "no">>, <<"", "good">>, <<"", "blank">>, <<"", "malformed">>, <<"", "missing">>}
TextsOf(via) == CASE via = "multi" -> {t \in Texts : t[2] = "no"} [] via = "multi-script" -> {t \in Texts : t[2] # "no"} [] OTHER -> Texts
Aims == {Ids(<<W("a")>>), Ids(<<W("a"), W("b")>>), InGroups(<<W("a")>>, <<W("a")>>), ByTags("or", <<W("a")>>), Ids(<<W("c")>>)}
AimsOf(via) == IF via = "single" THEN {Ids(<<W("a")>>), Ids(<<W("b")>>), Ids(<<W("c")>>)} ELSE Aims
OneOrder == UNION {UNION {UNION {{Desk({OrderOf(via, u, p, t[1], t[2], i, timeout)}, via :> 1, {}, 1) : t \in TextsOf(via), p \in {Ids(<<W("a")>>)}}
     : i \in {"", "cmd", "other"}, timeout \in {-1, 2}} : u \in {"root", "ann"}} : via \in EntryPoints}
Aimed == UNION {{Desk({OrderOf(via, u, p, IF via = "multi-script" THEN "" ELSE "text", IF via = "multi-script" THEN "good" ELSE "no", "", 0)},
     via :> 1 @@ "revoke" :> 1, {"groups", "save", "create", "connection", "refused"}, 1) : p \in AimsOf(via), u \in {"root", "ann"}} : via \in EntryPoints}
Cleans == {Desk({OrderOf("single", "ann", Ids(<<W("a")>>), "text", "no", "", 0), OrderOf("ws", "ann", InGroups(<<W("a")>>, <<W("a")>>), "text", "no", "", 0)},
      "single" :> 1 @@ "ws" :> 1 @@ "cleanup" :> 2, {"cleanup"}, n) : n \in {1, 2}}

(* Tunnels: one query of any two options, two requests at a time, and an agent    *)
(* that comes back with the remotes it had or with others.                        *)
Part(kind, text) == [kind |-> kind, text |-> text]
Pt(text) == Part("port", text)
Ht(text) == Part("host", text)
Login(user, password) == [decodes |-> TRUE, json |-> FALSE, user |-> user, password |-> password]
PlainQuery == [parts |-> <<Ht("a"), Pt("80")>>, protocol |-> "tcp", scheme |-> "", acl |-> "", http_proxy |-> "", host_header |-> "", skip_tls_verify |-> "",
          allow_insecure_http |-> FALSE, body |-> Login("", ""), auth |-> Login("", ""), idle_timeout_minutes |-> <<>>, skip_idle_timeout |-> FALSE,
          auto_close |-> <<>>, check_port |-> FALSE, user |-> "ann"]
ToSite(order) == order @@ PlainQuery
QueryChoices ==
   {("parts" :> p) : p \in {<<>>, <<Pt("80")>>, <<Pt("1"), Ht("a"), Pt("80")>>, <<Ht("l"), Pt("2"), Ht("a"), Pt("80")>>, <<Pt("1"), Pt("2"), Pt("80")>>,
        <<Ht("a")>>, <<Part("junk", "a"), Pt("80")>>, <<Ht("x"), Ht("l"), Pt("2"), Ht("a"), Pt("80")>>, <<Ht("a"), Pt("4")>>, <<Pt("4"), Ht("a"), Pt("80")>>}}
   \cup {("protocol" :> x) : x \in {"udp", "tcp+udp"}} \cup {("scheme" :> x) : x \in {"http", "ssh", "too long"}} \cup {("acl" :> x) : x \in {"junk", "net"}}
   \cup {("http_proxy" :> x) : x \in {"true", "false", "junk"}} \cup {("host_header" :> "h")} \cup {("skip_tls_verify" :> x) : x \in {"true", "false", "junk"}}
   \cup {("allow_insecure_http" :> TRUE)} \cup {("auth" :> x) : x \in {Login("u", ""), Login("", "p"), Login("u", "p")}}
   \cup {("body" :> x) : x \in {[Login("u", "p") EXCEPT !.json = TRUE], [Login("u", "p") EXCEPT !.decodes = FALSE], [Login("u", "") EXCEPT !.json = TRUE]}}
   \cup {("idle_timeout_minutes" :> <<x>>) : x \in {-1, 0, 10080, 10081, 21846}} \cup {("skip_idle_timeout" :> TRUE)}
   \cup {("auto_close" :> <<x>>) : x \in {-1, 0, 267840, 267841}} \cup {("check_port" :> TRUE)}
OrdersOf(queries, agents, policy, proxy, sends, faults) ==
   [service |-> "orders", queries |-> queries, agents |-> agents, policy |-> policy, asks |-> TRUE, proxy |-> proxy, caddy |-> proxy, paused |-> FALSE,
    sends |-> sends, faults |-> faults]
Anywhere == {<<h, p>> : h \in {"a", "127.0.0.1"}, p \in {"80", "4"}}
OneQuery == {OrdersOf({ToSite(a @@ b)}, {<<>>}, Anywhere, TRUE, [put |-> 1, connect |-> 1], {}) : a, b \in QueryChoices}
AgentRemote(order) == [Ordered(ToSite(order), FALSE) EXCEPT !.owner = ""]
TwoOrders == {OrdersOf({ToSite(<<>>), ToSite("protocol" :> "tcp+udp")}, {<<>>}, Anywhere, TRUE, [put |-> 2, connect |-> 2], {"restart", "drop", "disk", "bind"})}
Comes == {OrdersOf({ToSite(w[1])}, {<<AgentRemote(w[2])>>}, Anywhere, TRUE, [put |-> 1, connect |-> 2], {"restart"})
   : w \in {<<"acl" :> "net", <<>>>>, <<"acl" :> "net", "protocol" :> "udp">>, <<"http_proxy" :> "true" @@ "parts" :> <<Ht("a"), Pt("4")>>, <<>>>>}}
   \cup {OrdersOf({ToSite("acl" :> "net")}, {<<AgentRemote(<<>>)>>}, {<<"a", "80">>}, TRUE, [put |-> 1, connect |-> 2], {"restart", "drop"})}
   \cup {OrdersOf({ToSite("acl" :> "net")}, {<<AgentRemote(<<>>)>>, <<AgentRemote("parts" :> <<Pt("1"), Ht("a"), Pt("80")>>)>>}, Anywhere, TRUE,
        [put |-> 1, connect |-> 2], {"restart"})}

(* ---- the agent's configuration ------------------------------------------------------------ *)
Tor == Proxy("socks5h", "127.0.0.1:9050")
Gate == Proxy("http", "gate")
Dials == {<<>>, [proxy |-> Tor], [proxy |-> Proxy("direct", "")], [proxy |-> Proxy("https", "gate")],
          [transports |-> <<Tor, Gate, Proxy("direct", "")>>], [transports |-> <<Proxy("direct", ""), Gate>>],
          [transports |-> <<Gate>>], [transports |-> <<Tor, Proxy("text", "")>>], [transports |-> <<Tor>>, proxy |-> Gate]}
Onion == Address("http", "name.onion", 0)
Egress ==
    {d @@ [server |-> s, fallback |-> f, ipapi |-> i, fingerprint |-> p, bind |-> p] :
        d \in Dials, s \in {Address("", "name", 0), Address("", "", 0), Onion}, f \in {<<>>, <<Onion>>, <<Address("https", "junk", 0)>>},
        i \in {"", "https", "ftp"}, p \in BOOLEAN}
PortPart == [kind |-> "port", text |-> "443"]
Option(key, val) == [key |-> key, val |-> val]
RemoteEntries ==
    {[parts |-> p, options |-> o] :
        p \in {<<PortPart>>, <<[kind |-> "host", text |-> "lan"], PortPart>>, <<[kind |-> "junk", text |-> ""]>>},
        o \in {<<>>, <<Option("host_header", "lan")>>, <<Option("reverse_proxy", "-"), Option("host_header", "lan")>>,
               <<Option("reverse_proxy", "false")>>, <<Option("scheme", "")>>, <<Option("user", "x")>>}}
TunnelSettings ==
    {[remotes |-> <<e>>, allowed |-> a, reverseProxy |-> h[1], hostHeader |-> h[2]] :
        e \in RemoteEntries, h \in {<<FALSE, "">>, <<TRUE, "all">>, <<FALSE, "all">>},
        a \in {<<>>, <<[parts |-> 2, host |-> "net", ips |-> {2, 3}, port |-> "443"]>>, <<[parts |-> 1, host |-> "text", ips |-> {}, port |-> "text"]>>}}
OtherSettings ==
    {<<>>, [headers |-> {"X"}, hostname |-> TRUE], [headers |-> {"junk"}], [aliases |-> {<<"sh", "utf-8">>, <<"sh">>}], [aliases |-> {<<"sh", "utf-8", "cp0">>}],
     [aliases |-> {<<"number">>}], [dataDir |-> FALSE], [sendBackLimit |-> -1], [deny |-> {"junk"}], [order |-> "deny"], [scripts |-> TRUE],
     [scripts |-> TRUE, commands |-> FALSE], [netWan |-> "junk"], [protected |-> {"junk"}], [watchdog |-> TRUE], [watchdog |-> TRUE, keepAlive |-> 0],
     [watchdog |-> TRUE, maxRetryCount |-> 3], [e2e |-> TRUE], [e2e |-> TRUE, e2eListen |-> "far"], [e2e |-> TRUE, authorizedKeys |-> FALSE],
     [monitoringInterval |-> 1, maxRetryInterval |-> 0], [allowRoot |-> TRUE]}
AgentRun(call, config, flags, args, root, faults) ==
    [service |-> "agent configuration", call |-> call, config |-> config, flags |-> flags, args |-> args, root |-> root, faults |-> faults, sends |-> <<>>]
AgentConfigurations ==
    {AgentRun(call, c, <<>>, <<>>, FALSE, {}) : call \in {"install", "decode"}, c \in Egress}
    \cup {AgentRun(call, c, f, <<>>, FALSE, {}) : call \in {"install", "decode"}, c \in TunnelSettings, f \in {<<>>, [hostHeader |-> "flag", reverseProxy |-> TRUE]}}
    \cup {AgentRun(call, c, <<>>, <<>>, root, {"disk"}) : call \in {"install", "decode"}, c \in OtherSettings, root \in BOOLEAN}
    \cup {AgentRun("decode", [server |-> Address("", "", 0)], [proxy |-> Gate], <<Onion, [parts |-> <<PortPart>>, options |-> <<>>]>>, FALSE, {})}

(* ---- end-to-end forwards ------------------------------------------------------------------ *)
Dest(parses, ip, port, number) == [parses |-> parses, resolves |-> TRUE, ips |-> {ip}, port |-> port, number |-> number]
E2EServer(key, private, readable, agents, stops, faults, sends) ==
    [service |-> "end to end", key |-> key, private |-> private, readable |-> readable, authorized |-> {"op1"}, agents |-> agents,
     stops |-> stops, faults |-> faults, sends |-> sends,
     allowed |-> <<[parts |-> 2, host |-> "net", ips |-> {1}, port |-> "443"]>>,
     dests |-> <<Dest(TRUE, 1, "443", 443), Dest(TRUE, 2, "443", 443), Dest(FALSE, 1, "443", 443), Dest(TRUE, 1, "65979", 65979)>>]
EndToEndServers ==
    {E2EServer(0, TRUE, TRUE, 2, FALSE, {"crash", "disk"}, [fingerprint |-> 1, connect |-> 1, edit |-> 0]),
     E2EServer(0, TRUE, TRUE, 1, TRUE, {}, [fingerprint |-> 0, connect |-> 2, edit |-> 1]),
     E2EServer(2, TRUE, TRUE, 1, TRUE, {"crash"}, [fingerprint |-> 1, connect |-> 1, edit |-> 1])}
    \cup {E2EServer(k, p, d, 1, FALSE, {}, [fingerprint |-> 1, connect |-> 1, edit |-> 0]) : k \in {0, 1, 2}, p \in BOOLEAN, d \in BOOLEAN}

(* Texts and secrets before and after there is a key, and with another one.       *)
JobText(error, out) == [error |-> error, stdout |-> out]
SealedServer(jobs, totp, password, keys, texts, faults, sends) ==
    [service |-> "at rest", jobs |-> jobs, jids |-> {1, 2}, texts |-> texts, totp |-> totp, keys |-> keys,
     users |-> <<[password |-> password, totp |-> "old"]>>,
     stored |-> <<[credentials |-> TRUE, rest |-> "config"], [credentials |-> FALSE, rest |-> "config"]>>,
     faults |-> faults, sends |-> sends]
SealedServers ==
    {SealedServer(<<JobText("", "old"), JobText("old", "enc:v1:x")>>, TRUE, "hash", {"", "k"}, {"new"}, {"crash", "statement"}, [result |-> 1, totp |-> 1]),
     SealedServer(<<JobText("old", "")>>, TRUE, "hash", {"", "k", "l"}, {"new", "enc:v1:x"}, {"crash"}, [create |-> 1, result |-> 2]),
     SealedServer(<<>>, FALSE, "plain", {"", "k"}, {"", "enc:v1:x"}, {"crash"}, [create |-> 1, result |-> 1])}

(* A command at the agent: what it may run, what it writes, and a second request. *)
Line(script, allow, deny) == [script |-> script, allow |-> allow, deny |-> deny]
AnyLine == {Line(s, a, d) : s \in BOOLEAN, a \in BOOLEAN, d \in BOOLEAN}
RunsAt(commands, scripts, order, dir, orders, output, limit, stream, faults, sends) ==
    [service |-> "execution", commands |-> commands, scripts |-> scripts, order |-> order, dir |-> dir, orders |-> orders,
     output |-> output, limit |-> limit, stream |-> stream, socket |-> stream, faults |-> faults, sends |-> sends]
Executions ==
    {RunsAt(c, s, o, "good", AnyLine, <<<<"x">>>>, 1, FALSE, {}, [run |-> 1]) : c \in BOOLEAN, s \in BOOLEAN, o \in {"allow,deny", "deny,allow"}}
    \cup {RunsAt(TRUE, TRUE, "deny,allow", "missing", {Line(TRUE, FALSE, FALSE)}, <<>>, 1, FALSE, {}, [run |-> 1])}
    \cup {RunsAt(TRUE, TRUE, "deny,allow", "good", {Line(TRUE, FALSE, FALSE)}, out, 4, TRUE, {"timeout", "connection"}, [run |-> 1, upload |-> 1, other |-> 1]) :
            out \in {<<<<"a", "<">>, <<"b", "n">>, <<"c", ">">>>>, <<<<"<", "a">>, <<"L">>, <<"b">>>>}}
    \cup {RunsAt(TRUE, TRUE, "deny,allow", "good", {Line(TRUE, FALSE, FALSE)}, <<<<"<", "b">>, <<"n">>>>, 2, FALSE, {"timeout", "connection"}, [run |-> 2])}
    \cup {RunsAt(TRUE, TRUE, "deny,allow", "good", {Line(TRUE, FALSE, FALSE)}, <<t>>, 9, FALSE, {}, [run |-> 1]) : t \in [1..3 -> {"a", "<", ">", "n"}]}

Init == \/ VaultInit({FreshVault, OldVault, OldVaultRead, VaultTwice(0), VaultTwice(1)})
        \/ LibraryInit({Scripts, ScriptsTwice, Commands, Groups, Stored})
        \/ UserStoreInit({UserFile, UserFileRead, UserTable, UserTableTwice, UserStatic})
        \/ CredentialsInit({CredFiles, CredTable, CredSingle, CredReadOnly, CredPairing})
        \/ UploadsInit({SameId, OneAgent, NoDir, Device, Loses} \cup {Crosses("none"), Crosses("file")} \cup Owners \cup OneForm \cup Spellings)
        \/ MeasurementsInit({Collects, Plots, InClear, MonitorOff})
        \/ AuditLogInit({Chained, ForTwo, Unchained, AuditOff})
        \/ NotificationsInit({ByMail, ByMailKept, ByScript, ByBoth})
        \/ LifecycleInit(Pairs \cup Stops)
        \/ ListingInit(Lists \cup Changes)
        \/ DatagramsInit(UdpTunnels)
        \/ CommandsInit(OneOrder \cup Aimed \cup Cleans)
        \/ TunnelOrdersInit(OneQuery \cup TwoOrders \cup Comes)
        \/ AgentConfigurationInit(AgentConfigurations)
        \/ EndToEndInit(EndToEndServers)
        \/ AtRestInit(SealedServers)
        \/ ExecutionInit(Executions)

Next == VaultNext \/ LibraryNext \/ UserStoreNext \/ CredentialsNext \/ UploadsNext \/ MeasurementsNext \/ AuditLogNext \/ NotificationsNext
        \/ LifecycleNext \/ ListingNext \/ DatagramsNext \/ CommandsNext \/ TunnelOrdersNext \/ AgentConfigurationNext \/ EndToEndNext
        \/ AtRestNext \/ ExecutionNext

Spec == Init /\ [][Next]_serviceVars

(* The audit log alone, on a disk that fails once and may then refuse to reopen.  *)
DiskFailsSpec == AuditLogInit({DiskFails}) /\ [][AuditLogNext]_serviceVars

(* A configuration that was checked and accepted, by proxiportd's check-config or  *)
(* by the agent's service install, is one the program starts with and keeps to.   *)
AcceptedConfigStarts == ServerStarts /\ AgentStarts

(* What is stored encrypted can be read by whoever holds the key it was stored    *)
(* with: a value of the vault (vault/manager.go), the output of a job and the     *)
(* secrets of users and clients (share/enc), after any restart or broken step.    *)
ValuesReadable == VaultReadable /\ AtRestReadable

(* A command is accounted for from the order to the result: it reaches only the   *)
(* clients it may and is logged (StartMultiClientJob), and its result tells what  *)
(* the process did and wrote (HandleRunCmdRequest).                               *)
CommandsAccounted == OrdersAccounted /\ ExecutionReported

Symmetry == Permutations(Reqs)
=============================================================================
