--------------------------- MODULE Configuration ---------------------------
(* The configuration of the server: what ParseAndValidate refuses, what it       *)
(* changes in what it accepts, and what the constructors of the server need of   *)
(* it. A URL is its scheme ("junk" when it does not parse) and whether it has a  *)
(* host and more than that; an address is the port it names, "" when not set and *)
(* "junk" when it has none; a file is "" when not named, or what it holds.       *)
EXTENDS Integers, FiniteSets, Sequences, TLC

Hour == 3600
MinKeepDisconnectedClients == 1
MaxKeepDisconnectedClients == 7 * 24 * Hour
CheckClientsConnectionIntervalMinimum == 120
DefaultMaxCheckPortTimeout == 60
DefaultMaxTokenLifetime == 90 * 24
maxHours == 2562047

Url(scheme, host, rest) == [scheme |-> scheme, host |-> host, rest |-> rest]
Web == Url("https", TRUE, FALSE)

(* The defaults of the command, with the settings an installation has to add.    *)
Default ==
    [placeholders |-> {}, sealed |-> {}, listen |-> "8080", url |-> {Web}, PairingURL |-> {}, used |-> {<<1, 5>>}, excluded |-> {<<1, 2>>},
     trusted |-> {"cidr"}, dataDir |-> TRUE, keyType |-> "none", keyFile |-> "", KeepDisconnectedClients |-> Hour, KeepLostClients |-> 0,
     purge |-> TRUE, CleanupLostClients |-> FALSE, purgeInterval |-> 60, CleanupClientsInterval |-> 0, checkInterval |-> 300,
     auth |-> {"pair"}, authText |-> "id:password", dbType |-> "", proxy |-> {}, handshakes |-> 8, CheckPortTimeout |-> 2,
     tpCert |-> "", tpKey |-> "", tpAcme |-> FALSE, guacd |-> "", tpHost |-> "", tpTLSMin |-> "", targetCA |-> "", tpCORS |-> {},
     api |-> "3000", apiAuth |-> {"pair"}, apiAuthText |-> "user:password", usersFile |-> "good", usersTable |-> "good", groupTable |-> TRUE, AuthHeader |-> FALSE, UserHeader |-> TRUE,
     BaseURL |-> {}, EnableAcme |-> FALSE, CertFile |-> "", KeyFile |-> "", JWTSecret |-> "", delivery |-> "", SendToType |-> "none",
     regex |-> "good", pushover |-> "good", smtp |-> "good", smtpAnswers |-> TRUE, TotPEnabled |-> FALSE, TLSMin |-> "1.3",
     MaxTokenLifeTimeHours |-> 0, CORS |-> {}, DocRoot |-> FALSE, auditLog |-> TRUE, rotation |-> "monthly",
     caddy |-> {}, caddyVersion |-> 2, caddyAddress |-> "443", caddyPair |-> "good", apiHostname |-> FALSE, apiPort |-> FALSE,
     apiCert |-> "", apiKey |-> "", caddyTLSMin |-> "", logLevel |-> "info",
     monitoring |-> TRUE, DataStorageDuration |-> <<30, "d">>, DataStorageDays |-> 0, logStorage |-> "", cleanup |-> ""]

validateHTTPorHTTPSURL(u) == u.scheme \in {"http", "https"} /\ u.host

SplitHostPort(address) == address \notin {"", "junk"}

validateNoPlaceholderSecrets(c) == c.placeholders = {}

(* A deprecated setting that is set replaces the new one.                        *)
ConfigReplaceDeprecated(c) ==
    [c EXCEPT !.KeepDisconnectedClients = IF c.KeepLostClients # 0 THEN c.KeepLostClients ELSE @,
              !.purge = @ \/ c.CleanupLostClients,
              !.purgeInterval = IF c.CleanupClientsInterval # 0 THEN c.CleanupClientsInterval ELSE @]

parseAndValidateURLs(c) ==
    LET urls == IF c.url = {} THEN {Url("http", c.listen # "", FALSE)} ELSE c.url
    IN  \A u \in urls \cup c.PairingURL : validateHTTPorHTTPSURL(u)

tryParsePortNumberRange(r) == 0 <= r[1] /\ r[1] <= r[2] /\ r[2] <= 65535

parseAndValidatePorts(c) ==
    LET ports(ranges) == UNION {r[1]..r[2] : r \in ranges}
    IN  /\ \A r \in c.used \cup c.excluded : tryParsePortNumberRange(r)
        /\ ports(c.used) \ ports(c.excluded) # {}

SetTrustedProxies(c) == c.trusted \subseteq {"", "cidr", "ip"}

validateGuacd(c) == c.guacd \in {"", "answers"}
validateHost(c) == c.tpHost \in {"", "name", "ip"}
TunnelProxyOn(c) == c.tpCert # "" \/ c.tpKey # "" \/ c.tpAcme

TunnelProxyParseAndValidate(c) ==
    TunnelProxyOn(c) =>
        /\ (c.tpCert = "") = (c.tpKey = "")
        /\ ~(c.tpAcme /\ c.tpCert # "")
        /\ c.tpCert # "" => (c.tpCert = "good" /\ c.tpKey = "good")
        /\ validateGuacd(c) /\ validateHost(c)
        /\ c.tpTLSMin \in {"", "1.2", "1.3"}
        /\ c.targetCA \in {"", "good"}

validateCORSOrigin(u) == u.scheme = "*" \/ (u.scheme \in {"http", "https"} /\ u.host /\ ~u.rest)
parseAndValidateCORS(origins) == {u \in origins : validateCORSOrigin(u)}

APIReverseProxyEnabled(c) == c.apiHostname /\ c.apiPort

(* Anything wrong here leaves the integration off and is only logged.            *)
CaddySet == {"exec", "address", "domain", "cert", "key"}
CaddyParseAndValidate(c) ==
    /\ c.caddy = CaddySet
    /\ c.caddyVersion >= 2
    /\ SplitHostPort(c.caddyAddress)
    /\ c.caddyPair = "good"
    /\ c.apiHostname = c.apiPort
    /\ c.apiCert # "" => (c.apiCert = "good" /\ c.apiKey = "good")
    /\ c.apiKey # "" => c.apiKey # "missing"
    /\ c.caddyTLSMin \in {"", "1.2", "1.3"}
    /\ c.logLevel \in {"", "debug", "info", "error"}

(* The key file may be read by nobody else and holds a key of the right length.  *)
NewFileProvider(file) == file \notin {"missing", "readable by others", "short"}
NewEnvProvider(variable) == variable \notin {"missing", "short"}

KeyProviderParseAndValidate(c) ==
    \/ c.keyType \in {"", "none"}
    \/ c.keyType = "file" /\ c.keyFile # "" /\ NewFileProvider(c.keyFile)
    \/ c.keyType = "env" /\ c.keyFile # "" /\ NewEnvProvider(c.keyFile)

(* Every enveloped setting is opened with the key, or the start is refused.      *)
decryptSecrets(c) == c.sealed # {} => (c.keyType \in {"file", "env"} /\ c.sealed = {c.keyFile})

KeepInRange(c) ==
    (c.purge /\ c.KeepDisconnectedClients # 0) =>
        c.KeepDisconnectedClients \in MinKeepDisconnectedClients..MaxKeepDisconnectedClients

parseAndValidateClientAuth(c) ==
    /\ Cardinality(c.auth) = 1
    /\ "table" \in c.auth => c.dbType # ""
    /\ "pair" \in c.auth => c.authText = "id:password"

parseAndValidateAPIAuthNoDB(c) ==
    /\ Cardinality(c.apiAuth) = 1
    /\ "table" \in c.apiAuth => c.groupTable
    /\ c.AuthHeader => ("pair" \notin c.apiAuth /\ c.UserHeader)

parseAndValidateAPIAuth(c) ==
    /\ Cardinality(c.apiAuth) = 1
    /\ "table" \in c.apiAuth => (c.groupTable /\ c.dbType # "")
    /\ c.AuthHeader => ("pair" \notin c.apiAuth /\ c.UserHeader)

parseAndValidateBaseURL(c) ==
    /\ \A u \in c.BaseURL : u.scheme # "junk"
    /\ c.EnableAcme => \E u \in c.BaseURL : u.host

parseAndValidateAPIHTTPSOptions(c) ==
    \/ c.CertFile = "" /\ c.KeyFile = ""
    \/ ~c.EnableAcme /\ c.CertFile = "good" /\ c.KeyFile = "good"

(* The SMTP server is called and the credentials are tried.                      *)
SMTPValidate(c) == c.smtp = "good" /\ c.smtpAnswers
PushoverValidate(c) == c.pushover = "good"

parseAndValidate2FASendToType(c) ==
    c.SendToType \in {"none", "email", "regex"} /\ (c.SendToType = "regex" => c.regex = "good")

parseAndValidate2FA(c) ==
    c.delivery # "" =>
        /\ "pair" \notin c.apiAuth
        /\ \/ c.delivery = "pushover" /\ PushoverValidate(c)
           \/ c.delivery = "smtp" /\ SMTPValidate(c)
           \/ c.delivery = "script" /\ parseAndValidate2FASendToType(c)
           \/ c.delivery = "url" /\ c.BaseURL # {}

parseAndValidateTotPSecret(c) == ~(c.delivery # "" /\ c.TotPEnabled)

AuditLogValidate(c) == c.auditLog => c.rotation \in {"daily", "weekly", "monthly", "yearly"}

validateAPIWhenCaddyIntegration(c) ==
    (c.caddyOn /\ ~APIReverseProxyEnabled(c)) => (SplitHostPort(c.api) /\ c.api # c.caddyAddress)

(* Hours times an hour in 64 bits of nanoseconds, to the hour.                    *)
AsDuration(hours) ==
    LET h == hours % (2 * maxHours + 2) IN IF h > maxHours THEN h - (2 * maxHours + 2) ELSE h

parseAndValidateAPI(c) ==
    /\ IF c.api # ""
       THEN /\ parseAndValidateAPIAuth(c) /\ parseAndValidateBaseURL(c) /\ parseAndValidateAPIHTTPSOptions(c)
            /\ parseAndValidate2FA(c) /\ parseAndValidateTotPSecret(c)
            /\ c.TLSMin \in {"", "1.2", "1.3"}
            /\ c.MaxTokenLifeTimeHours >= 0 /\ AsDuration(c.MaxTokenLifeTimeHours) <= DefaultMaxTokenLifetime
       ELSE ~c.DocRoot
    /\ AuditLogValidate(c)
    /\ validateAPIWhenCaddyIntegration(c)

DatabaseParseAndValidate(c) == c.dbType \in {"", "mysql", "sqlite"}

(* Hours of a text such as "30d", -1 when it is refused; a value that does not   *)
(* parse is -1 already, and one that would overflow the nanoseconds is refused.  *)
convertHourOrDayStringToDuration(text) ==
    IF Len(text) < 2 \/ text[2] \notin {"h", "d"} \/ text[1] < 0
       \/ text[1] > (IF text[2] = "h" THEN maxHours ELSE maxHours \div 24) THEN -1
    ELSE text[1] * (IF text[2] = "h" THEN 1 ELSE 24)

parseAndValidateMonitoring(c) == c.monitoring => convertHourOrDayStringToDuration(c.DataStorageDuration) >= 1

(* Any duration that parses is taken, zero and negative ones as well.            *)
parseAndValidateAndSetDefaults(c) == c.logStorage # "junk" /\ c.cleanup # "junk"

(* What is changed on the way, then what is checked, in the order of the code.   *)
Parsed(c) ==
    LET d == ConfigReplaceDeprecated(c)
    IN  [d EXCEPT !.checkInterval = IF @ < CheckClientsConnectionIntervalMinimum THEN CheckClientsConnectionIntervalMinimum ELSE @,
                  !.CORS = parseAndValidateCORS(@), !.tpCORS = parseAndValidateCORS(@),
                  !.JWTSecret = IF @ = "" THEN "generated" ELSE @]
        @@ [caddyOn |-> CaddyParseAndValidate(c)]

ParseAndValidate(c) ==
    LET d == Parsed(c)
    IN  /\ validateNoPlaceholderSecrets(c)
        /\ parseAndValidateURLs(d) /\ parseAndValidatePorts(d) /\ SetTrustedProxies(d) /\ TunnelProxyParseAndValidate(d)
        /\ d.dataDir /\ KeyProviderParseAndValidate(d) /\ decryptSecrets(d) /\ KeepInRange(d)
        /\ parseAndValidateClientAuth(d) /\ parseAndValidateAPI(d) /\ DatabaseParseAndValidate(d)
        /\ parseAndValidateMonitoring(d) /\ parseAndValidateAndSetDefaults(d)

(* What the constructors and the first steps of Run do with it: "panics" and      *)
(* "fails" end the process, "deaf" is a server that takes no agent.               *)
NewClientListener(c) ==
    IF c.handshakes < 0 THEN "panics"
    ELSE IF \E u \in c.proxy : u.scheme = "junk" \/ ~u.host THEN "fails" ELSE "starts"

(* The users are read at once: a file that is missing or cannot be parsed, tables  *)
(* that are missing, and a password in one that is no hash end the start.          *)
NewFileAdapter(c) == IF c.usersFile = "good" THEN "starts" ELSE "fails"
NewUserDatabase(c) == IF c.dbType = "" THEN "panics" ELSE IF c.usersTable = "good" THEN "starts" ELSE "fails"

NewAPIServiceFromConfig(c) ==
    CASE "file" \in c.apiAuth -> NewFileAdapter(c)
      [] "file" \notin c.apiAuth /\ "pair" \in c.apiAuth -> IF c.apiAuthText = "user:password" THEN "starts" ELSE "fails"
      [] c.apiAuth = {"table"} -> NewUserDatabase(c)
      [] OTHER -> "starts"

(* The constructors, in their order: each step opens a file or tries a setting.   *)
Opens(f) == <<[file |-> {f}, goes |-> "starts"]>>
Tries(outcome) == <<[file |-> {}, goes |-> outcome]>>
OnlyIf(condition, steps) == IF condition THEN steps ELSE <<>>

NewAPIListener(c) ==
    Tries(IF c.CheckPortTimeout > DefaultMaxCheckPortTimeout THEN "fails" ELSE "starts")
    \o Opens("notifications") \o Tries(IF c.cleanup = "0s" THEN "panics" ELSE "starts")
    \o Opens("vault") \o Opens("library") \o Opens("tokens") \o Tries(NewAPIServiceFromConfig(c))
    \o Tries(IF c.delivery = "smtp" /\ c.smtp # "good" THEN "fails" ELSE "starts")
    \o Opens("sessions")

WriteCaddyBaseConfig(c) == IF c.caddyOn /\ ~SplitHostPort(c.api) THEN "fails" ELSE "starts"

getClientProvider(c) == IF c.auth = {} THEN "fails" ELSE "starts"

Construction(c) ==
    Opens("jobs") \o Opens("groups") \o Opens("measurements") \o Opens("clients")
    \o OnlyIf(c.auditLog, Opens("audit")) \o OnlyIf(c.dbType # "", Opens("auth"))
    \o Tries(getClientProvider(c)) \o Tries(NewClientListener(c)) \o NewAPIListener(c)
    \o OnlyIf(c.caddyOn, Tries(WriteCaddyBaseConfig(c)))

(* The settings, and the users they lead to, that nothing looks at before the     *)
(* server is built with them.                                                     *)
Unchecked(c) ==
    \/ c.handshakes <= 0
    \/ \E u \in c.proxy : ~u.host
    \/ c.CheckPortTimeout > DefaultMaxCheckPortTimeout
    \/ c.cleanup = "0s"
    \/ c.purgeInterval <= 0 \/ c.CleanupClientsInterval < 0
    \/ "pair" \in c.apiAuth /\ c.apiAuthText # "user:password"
    \/ "file" \in c.apiAuth /\ c.usersFile # "good"
    \/ "table" \in c.apiAuth /\ c.usersTable # "good"
    \/ c.api = "" /\ (c.caddy # {} \/ "table" \in c.apiAuth \/ c.delivery = "smtp")
    \/ ~SplitHostPort(c.listen)
    \/ c.api \in {"junk", c.listen}
=============================================================================
