----------------------------- MODULE ApiAccess -----------------------------
(* Who may call the API: the password step and the second factor, the API       *)
(* sessions behind bearer tokens (a cache over a table), API tokens, one-time   *)
(* tickets of web sockets, and the two ban lists that throttle failures.        *)
(*                                                                              *)
(* A request is a handler with its own program counter. Its steps are the       *)
(* stretches between two locks or statements, so what one of them read may be   *)
(* stale when the next one uses it. One unit of time is the life a session      *)
(* gets without being used, a step of a TotP clock, and the length of a ban.    *)
EXTENDS Integers, FiniteSets, Functions, FiniteSetsExt, TLC

CONSTANTS
    Reqs,                    \* handlers that may run at the same time
    MaxTime,                 \* how far the clock goes
    MaxMinted,               \* cap on sessions, logins, secrets, tokens and tickets that are made
    maxTwoFAFailures,        \* wrong codes one pending login tolerates
    maxBadAttempts,          \* failures after which an address is banned
    maxOutstandingTickets,   \* live tickets of all users
    maxTicketsPerUser,       \* live tickets of one user
    MaxFaults,
    Deployments

VARIABLES
    deployment,
    now,
    accounts,   \* the users' table: password, whether it expired, TotP secret
    pending,    \* tokensByUser: the login of a user that waits for its code
    lastTotPStep,
    table,      \* the rows of api_sessions
    cache,      \* the sessions in memory
    jwts,       \* the bearer tokens that were handed out
    tokens,     \* the rows of api_tokens
    tickets,    \* the web socket tickets
    bans,       \* bannedUsers and bannedIPs
    req,        \* the handlers
    ghost       \* counters, and history for the properties

accessVars == <<deployment, now, accounts, pending, lastTotPStep, table, cache, jwts, tokens, tickets, bans, req, ghost>>

None == "none"
Passwords == {"first", "second"}
DefaultTokenLifetime == 1
DefaultMaxTokenLifetime == 2
TokenTTL == 2
minTwoFAResendInterval == 1
banDuration == 1
wsTicketTTL == 1

(* The requests of a user with a token, by what their handler does.             *)
Routes == {"ticket", "me", "enrol", "unenrol", "change", "remove", "kill", "logout", "post", "put", "revoke", "read"}

(* second: the second factor. users and loggedIn: the accounts, and those with  *)
(* a session at the start. addresses: where requests come from. sends: how many *)
(* requests of a kind are sent. faults: failing statements and messages,        *)
(* restarts.                                                                    *)
ASSUME DeploymentsAssumption ==
    \A d \in Deployments :
      /\ d.second \in {"off", "sent", "totp"}
      /\ d.loggedIn \subseteq d.users
      /\ DOMAIN d.sends \subseteq Routes \cup {"login", "verify", "basic", "socket", "rotate", "long", "cleanup"}
      /\ Range(d.sends) \subseteq Nat
      /\ d.faults \subseteq {"statement", "message", "restart"}

ASSUME LimitsAssumption ==
    /\ IsFiniteSet(Reqs)
    /\ maxTwoFAFailures \in Nat \ {0} /\ maxBadAttempts \in Nat \ {0}
    /\ maxOutstandingTickets \in Nat /\ maxTicketsPerUser \in Nat

Users == deployment.users
Addresses == deployment.addresses
Sends(kind) == kind \in DOMAIN deployment.sends
NoLogin == [id |-> 0, until |-> 0, failures |-> 0, new |-> None]
NoRow == [user |-> None, until |-> 0]
NoJWT == [sid |-> 0, user |-> None, scope |-> {}, exp |-> 0]
NewRequest(kind, ip, user) ==
    [pc |-> kind, kind |-> kind, ip |-> ip, user |-> user, jwt |-> NoJWT, row |-> NoRow, sid |-> 0, round |-> 0,
     pend |-> NoLogin, code |-> 0, pwd |-> None, new |-> None, expired |-> FALSE, totp |-> 0, life |-> 1]
Idle == NewRequest("idle", None, None)
NoVisitor == [bad |-> 0, until |-> 0, seen |-> {}, codes |-> 0]   \* codes: history, wrong codes since a ban or a login

(* The scopes of a bearer token, as the requests they let through.              *)
ScopesAllExcluding2FaCheck == Routes
Scopes2FaCheckOnly == {"verify"}
ScopesTotPCreateOnly == {"enrol"}
currentURIMatchesTokenScopes(kind, scope) == kind \in scope

Minus(f, S) == Restrict(f, DOMAIN f \ S)
With(f, k, v) == [x \in DOMAIN f \cup {k} |-> IF x = k THEN v ELSE f[x]]
Count(f, k) == IF k \in DOMAIN f THEN f[k] ELSE 0
Counted(f, k) == With(f, k, Count(f, k) + 1)
Live(until) == until > now
Fault(f) == f \in deployment.faults /\ ghost.faults < MaxFaults /\ ghost' = [ghost EXCEPT !.faults = @ + 1]
Made(what) == ghost' = [ghost EXCEPT ![what] = @ + 1]
Left(what) == ghost[what] < MaxMinted

Init ==
    /\ deployment \in Deployments
    /\ now = 0
    /\ accounts = [u \in Users |-> [pwd |-> "first", expired |-> FALSE, totp |-> IF deployment.second = "totp" /\ ~Sends("enrol") THEN 1 ELSE 0]]
    /\ pending = [u \in Users |-> NoLogin]
    /\ lastTotPStep = [u \in Users |-> -2]
    /\ \E ids \in Bijection(deployment.loggedIn, 1..Cardinality(deployment.loggedIn)) :
         /\ table = [s \in Range(ids) |-> [user |-> CHOOSE u \in deployment.loggedIn : ids[u] = s, until |-> 2]]
         /\ jwts = {[sid |-> ids[u], user |-> u, scope |-> ScopesAllExcluding2FaCheck, exp |-> 2] : u \in deployment.loggedIn}
    /\ cache = table
    /\ tokens = <<>>
    /\ tickets = <<>>
    /\ bans = [user |-> [k \in Addresses \X Users |-> 0], ip |-> [a \in Addresses |-> NoVisitor]]
    /\ req = [r \in Reqs |-> Idle]
    /\ ghost = [faults |-> 0, sent |-> [k \in DOMAIN deployment.sends |-> 0], sessions |-> Cardinality(deployment.loggedIn), logins |-> 0, secrets |-> 1, tokens |-> 0,
                issued |-> 0, redeemed |-> {}, twice |-> FALSE, steps |-> <<>>, tried |-> <<>>,
                revoked |-> {}, revived |-> FALSE]

-----------------------------------------------------------------------------
(* The ban lists                                                               *)

loginBanKey(ip, u) == <<ip, u>>

IsBanned(r) == Live(bans.user[loginBanKey(req[r].ip, req[r].user)])

AddBadAttempt(b, ip) ==
    IF b.ip[ip].bad + 1 = maxBadAttempts
    THEN [b EXCEPT !.ip[ip].bad = 0, !.ip[ip].until = now + banDuration, !.ip[ip].codes = 0]
    ELSE [b EXCEPT !.ip[ip].bad = @ + 1]

(* One credential that is tried again counts once.                              *)
AddDistinctBadAttempt(b, ip, credential) ==
    IF credential \in b.ip[ip].seen THEN b
    ELSE LET counted == AddBadAttempt([b EXCEPT !.ip[ip].seen = @ \cup {credential}], ip)
         IN IF counted.ip[ip].bad = 0 THEN [counted EXCEPT !.ip[ip].seen = {}] ELSE counted

AddSuccessAttempt(b, ip) == [b EXCEPT !.ip[ip] = [NoVisitor EXCEPT !.codes = b.ip[ip].codes]]

Add(b, ip, u) == [b EXCEPT !.user[loginBanKey(ip, u)] = now + banDuration]

(* Failures are counted; an authorised request does not clear the count.        *)
handleBannedIPs(b, ip, authorized) == IF authorized THEN b ELSE AddBadAttempt(b, ip)

(* A wrong password, a wrong code, a refused logout: the address and the user   *)
(* at that address are both charged.                                            *)
Denied(r) == Add(handleBannedIPs(bans, req[r].ip, FALSE), req[r].ip, req[r].user)

-----------------------------------------------------------------------------
(* Steps of a handler. At(r, pc): where it stands; Goto and Return move it.     *)

At(r, pc) == req[r].pc = pc
Goto(r, pc) == req' = [req EXCEPT ![r].pc = pc]
Return(r) == req' = [req EXCEPT ![r] = Idle]

dataVars == <<deployment, now, accounts, pending, lastTotPStep, table, cache, jwts, tokens, tickets, bans>>

(* RejectBannedIPs stands before every handler.                                 *)
Arrives(r, kind, ip) ==
    /\ Sends(kind) /\ At(r, "idle") /\ ~Live(bans.ip[ip].until)
    /\ ghost.sent[kind] < deployment.sends[kind]
    /\ ghost' = [ghost EXCEPT !.sent[kind] = @ + 1]

(* A login: with the right or a wrong password, perhaps with a new one.         *)
handlePostLogin(r) ==
    \E ip \in Addresses, u \in Users, pwd \in Passwords, new \in {None, "second"} :
      /\ Arrives(r, "login", ip)
      /\ new # None => Sends("rotate")
      /\ req' = [req EXCEPT ![r] = [NewRequest("login", ip, u) EXCEPT !.pwd = pwd, !.new = new,
                                     !.life = IF Sends("long") THEN DefaultMaxTokenLifetime ELSE DefaultTokenLifetime]]
      /\ UNCHANGED dataVars

(* Every other request brings a bearer token, or a password or an API token     *)
(* with basic authentication.                                                   *)
BearerRequest(r) ==
    \E kind \in Routes \cup {"verify"}, ip \in Addresses, j \in jwts :
      /\ Arrives(r, kind, ip)
      /\ req' = [req EXCEPT ![r] = [NewRequest(kind, ip, j.user) EXCEPT !.jwt = j, !.pc = IF kind = "logout" THEN "logout" ELSE "auth"]]
      /\ UNCHANGED dataVars

BasicRequest(r) ==
    \E ip \in Addresses, u \in Users, pwd \in Passwords, t \in 0..ghost.tokens :
      /\ Arrives(r, "basic", ip)
      /\ req' = [req EXCEPT ![r] = [NewRequest("read", ip, u) EXCEPT !.pc = "basic", !.pwd = IF t = 0 THEN pwd ELSE None, !.sid = t]]
      /\ UNCHANGED dataVars

-----------------------------------------------------------------------------
(* The password step                                                           *)

deferPasswordChange(r) == req[r].new # None /\ deployment.second # "off"

validateCredentials(r) == accounts[req[r].user].pwd = req[r].pwd /\ req[r].pwd # None

LoginRefused(r) ==
    /\ At(r, "login")
    /\ IsBanned(r) \/ ~validateCredentials(r)
    /\ bans' = IF IsBanned(r) THEN bans ELSE Denied(r)
    /\ Return(r)
    /\ UNCHANGED <<deployment, now, accounts, pending, lastTotPStep, table, cache, jwts, tokens, tickets, ghost>>

(* The user that was read is used until the end of the login.                   *)
LoginAccepted(r) ==
    /\ At(r, "login")
    /\ ~IsBanned(r) /\ validateCredentials(r)
    /\ bans' = handleBannedIPs(bans, req[r].ip, TRUE)
    /\ req' = [req EXCEPT ![r].pc = IF req[r].new # None /\ ~deferPasswordChange(r) THEN "set" ELSE "factor",
                          ![r].expired = accounts[req[r].user].expired, ![r].totp = accounts[req[r].user].totp]
    /\ UNCHANGED <<deployment, now, accounts, pending, lastTotPStep, table, cache, jwts, tokens, tickets, ghost>>

(* userService.Change with a password: of a login, a verified login, of the     *)
(* user or of an administrator. An expiry is the administrator's, too.          *)
Change(r) ==
    /\ At(r, "set")
    /\ LET u == req[r].user
       IN IF accounts[u].pwd = None
          THEN Return(r) /\ UNCHANGED accounts
          ELSE /\ accounts' = [accounts EXCEPT ![u].pwd = IF req[r].new = None THEN @ ELSE req[r].new, ![u].expired = req[r].new = None]
               /\ Goto(r, "retire")
    /\ UNCHANGED <<deployment, now, pending, lastTotPStep, table, cache, jwts, tokens, tickets, bans, ghost>>

(* DeleteAllByUser: first the cache, then the table.                            *)
DeleteAllByUser(r) ==
    /\ At(r, "retire")
    /\ cache' = RestrictValues(cache, LAMBDA row : row.user # req[r].user)
    /\ Goto(r, "retire rows")
    /\ UNCHANGED <<deployment, now, accounts, pending, lastTotPStep, table, jwts, tokens, tickets, bans, ghost>>

AfterRetire(r) == CASE req[r].kind = "login" -> "factor" [] req[r].kind = "verify" -> "grant" [] OTHER -> "done"

deleteUserSessionsFromStorage(r) ==
    /\ At(r, "retire rows")
    /\ table' = RestrictValues(table, LAMBDA row : row.user # req[r].user)
    /\ req' = [req EXCEPT ![r] = IF AfterRetire(r) = "done" THEN Idle ELSE [req[r] EXCEPT !.pc = AfterRetire(r), !.expired = FALSE]]
    /\ UNCHANGED <<deployment, now, accounts, pending, lastTotPStep, cache, jwts, tokens, tickets, bans, ghost>>

(* A login that waits for its code: one code is sent for logins in short order. *)
PasswordExpired(r) == ~deferPasswordChange(r) /\ req[r].expired

HasExpired(r) ==
    /\ At(r, "factor") /\ PasswordExpired(r)
    /\ Return(r)
    /\ UNCHANGED <<dataVars, ghost>>

NoSecondFactor(r) ==
    /\ At(r, "factor") /\ ~PasswordExpired(r) /\ deployment.second = "off"
    /\ Goto(r, "grant")
    /\ UNCHANGED <<dataVars, ghost>>

SendToken(r) ==
    LET existing == pending[req[r].user]
    IN /\ At(r, "factor") /\ ~PasswordExpired(r) /\ deployment.second = "sent"
       /\ Goto(r, IF existing.id # 0 /\ now < existing.until - minTwoFAResendInterval THEN "mint" ELSE "send")
       /\ UNCHANGED <<dataVars, ghost>>

Sent(r) ==
    /\ At(r, "send") /\ Left("logins")
    /\ pending' = [pending EXCEPT ![req[r].user] = [NoLogin EXCEPT !.id = ghost.logins + 1, !.until = now + TokenTTL]]
    /\ Made("logins")
    /\ Goto(r, "mint")
    /\ UNCHANGED <<deployment, now, accounts, lastTotPStep, table, cache, jwts, tokens, tickets, bans>>

SetTotPLoginSession(r) ==
    /\ At(r, "factor") /\ ~PasswordExpired(r) /\ deployment.second = "totp" /\ Left("logins")
    /\ pending' = [pending EXCEPT ![req[r].user] = [NoLogin EXCEPT !.id = ghost.logins + 1, !.until = now + TokenTTL]]
    /\ Made("logins")
    /\ Goto(r, IF deferPasswordChange(r) THEN "defer" ELSE "mint")
    /\ UNCHANGED <<deployment, now, accounts, lastTotPStep, table, cache, jwts, tokens, tickets, bans>>

(* The new password goes to whatever login of the user is pending.              *)
SetPendingPasswordChange(r) ==
    /\ At(r, "defer")
    /\ pending' = IF pending[req[r].user].id = 0 THEN pending ELSE [pending EXCEPT ![req[r].user].new = req[r].new]
    /\ req' = [req EXCEPT ![r] = IF deployment.second = "totp" THEN [@ EXCEPT !.pc = "mint"] ELSE Idle]
    /\ UNCHANGED <<deployment, now, accounts, lastTotPStep, table, cache, jwts, tokens, tickets, bans, ghost>>

-----------------------------------------------------------------------------
(* Sessions                                                                    *)

(* recordAuthSuccess, once the last factor is proved.                           *)
recordAuthSuccess(r) ==
    /\ At(r, "grant")
    /\ bans' = [AddSuccessAttempt(bans, req[r].ip) EXCEPT !.ip[req[r].ip].codes = 0]
    /\ Goto(r, "mint")
    /\ UNCHANGED <<deployment, now, accounts, pending, lastTotPStep, table, cache, jwts, tokens, tickets, ghost>>

NextSessionID == IF DOMAIN table = {} THEN 1 ELSE Max(DOMAIN table) + 1

GrantedScope(r) ==
    IF req[r].kind = "verify" \/ deployment.second = "off" THEN ScopesAllExcluding2FaCheck
    ELSE Scopes2FaCheckOnly \cup (IF deployment.second = "totp" /\ req[r].totp = 0 THEN ScopesTotPCreateOnly ELSE {})

(* CreateAuthToken: the row, then the cached session and the token.             *)
CreateAuthToken(r) ==
    /\ At(r, "mint") /\ Left("sessions")
    /\ table' = With(table, NextSessionID, [user |-> req[r].user, until |-> now + req[r].life])
    /\ req' = [req EXCEPT ![r].pc = "minted", ![r].sid = NextSessionID, ![r].row = [user |-> req[r].user, until |-> now + req[r].life]]
    /\ Made("sessions")
    /\ UNCHANGED <<deployment, now, accounts, pending, lastTotPStep, cache, jwts, tokens, tickets, bans>>

Minted(r) ==
    /\ At(r, "minted")
    /\ cache' = With(cache, req[r].sid, req[r].row)
    /\ jwts' = jwts \cup {[sid |-> req[r].sid, user |-> req[r].user, scope |-> GrantedScope(r), exp |-> req[r].row.until]}
    /\ req' = [req EXCEPT ![r] = IF deployment.second = "sent" /\ req[r].kind = "login" /\ deferPasswordChange(r) THEN [@ EXCEPT !.pc = "defer"] ELSE Idle]
    /\ UNCHANGED <<deployment, now, accounts, pending, lastTotPStep, table, tokens, tickets, bans, ghost>>

(* ValidateBearerToken: the scope, the token's own end, the cached session.     *)
ValidateBearerToken(r) ==
    LET j == req[r].jwt
    IN /\ currentURIMatchesTokenScopes(req[r].kind, j.scope)
       /\ Live(j.exp)
       /\ j.sid \in DOMAIN cache /\ Live(cache[j.sid].until)

IncreaseSessionLifetime(row) == [row EXCEPT !.until = Max({@, now + DefaultTokenLifetime})]

(* checkBearerToken in the middleware, and again in the check of a code.        *)
Unauthorized(r) ==
    /\ At(r, "auth") \/ At(r, "recheck")
    /\ IF Live(req[r].jwt.exp) /\ IsBanned(r)
       THEN IF At(r, "auth") THEN Return(r) ELSE Goto(r, "deny")
       ELSE ~ValidateBearerToken(r) /\ (IF At(r, "auth") THEN Return(r) ELSE Goto(r, "deny"))
    /\ bans' = IF At(r, "auth") /\ ~(Live(req[r].jwt.exp) /\ IsBanned(r)) THEN AddDistinctBadAttempt(bans, req[r].ip, req[r].jwt) ELSE bans
    /\ UNCHANGED <<deployment, now, accounts, pending, lastTotPStep, table, cache, jwts, tokens, tickets, ghost>>

checkBearerToken(r) ==
    /\ At(r, "auth") \/ At(r, "recheck")
    /\ ~IsBanned(r) /\ ValidateBearerToken(r)
    /\ req' = [req EXCEPT ![r].pc = "save", ![r].round = IF At(r, "auth") THEN 1 ELSE 3,
                          ![r].row = IncreaseSessionLifetime(cache[req[r].jwt.sid])]
    /\ UNCHANGED <<dataVars, ghost>>

(* updateTokenAccess reads the session again and saves what it read.            *)
updateTokenAccess(r) ==
    LET sid == req[r].jwt.sid
        found == sid \in DOMAIN cache /\ Live(cache[sid].until)
    IN /\ At(r, "touch")
       /\ req' = [req EXCEPT ![r].pc = IF found THEN "save" ELSE "handle", ![r].round = 2, ![r].row = IF found THEN cache[sid] ELSE @]
       /\ UNCHANGED <<dataVars, ghost>>

AfterSave(r) == CASE req[r].round = 1 -> "touch" [] req[r].round = 2 -> "handle" [] req[r].round = 3 -> "code"

(* Save: the row if it is still there, then the cached session in any case.     *)
Save(r) ==
    /\ At(r, "save")
    /\ table' = IF req[r].jwt.sid \in DOMAIN table THEN [table EXCEPT ![req[r].jwt.sid] = req[r].row] ELSE table
    /\ Goto(r, "saved")
    /\ UNCHANGED <<deployment, now, accounts, pending, lastTotPStep, cache, jwts, tokens, tickets, bans, ghost>>

Saved(r) ==
    /\ At(r, "saved")
    /\ cache' = With(cache, req[r].jwt.sid, req[r].row)
    /\ Goto(r, AfterSave(r))
    /\ UNCHANGED <<deployment, now, accounts, pending, lastTotPStep, table, jwts, tokens, tickets, bans, ghost>>

(* Delete: first the row, then the cached session.                              *)
handleDeleteLogout(r) ==
    /\ At(r, "logout")
    /\ ~(Live(req[r].jwt.exp) /\ IsBanned(r)) /\ ValidateBearerToken(r)
    /\ table' = Minus(table, {req[r].jwt.sid})
    /\ Goto(r, "forget")
    /\ UNCHANGED <<deployment, now, accounts, pending, lastTotPStep, cache, jwts, tokens, tickets, bans, ghost>>

(* A token that does not parse is only refused, one without session is charged. *)
LogoutRefused(r) ==
    /\ At(r, "logout")
    /\ IsBanned(r) \/ ~ValidateBearerToken(r)
    /\ bans' = IF ~Live(req[r].jwt.exp) \/ IsBanned(r) THEN bans ELSE Denied(r)
    /\ Return(r)
    /\ UNCHANGED <<deployment, now, accounts, pending, lastTotPStep, table, cache, jwts, tokens, tickets, ghost>>

Forget(r) ==
    /\ At(r, "forget")
    /\ cache' = Minus(cache, {req[r].jwt.sid})
    /\ Return(r)
    /\ UNCHANGED <<deployment, now, accounts, pending, lastTotPStep, table, jwts, tokens, tickets, bans, ghost>>

(* handleDeleteUserAPISession: first the cached session, then the row.          *)
DeleteByID(r) ==
    \E sid \in DOMAIN table \cup DOMAIN cache, u \in Users :
      /\ At(r, "handle") /\ req[r].kind = "kill"
      /\ cache' = Minus(cache, {sid})
      /\ req' = [req EXCEPT ![r].pc = "kill row", ![r].sid = sid, ![r].user = u]
      /\ UNCHANGED <<deployment, now, accounts, pending, lastTotPStep, table, jwts, tokens, tickets, bans, ghost>>

deleteUserSessionFromStorage(r) ==
    /\ At(r, "kill row")
    /\ table' = Minus(table, {s \in DOMAIN table : s = req[r].sid /\ table[s].user = req[r].user})
    /\ Return(r)
    /\ UNCHANGED <<deployment, now, accounts, pending, lastTotPStep, cache, jwts, tokens, tickets, bans, ghost>>

DeleteExpired ==
    /\ Sends("cleanup")
    /\ table # RestrictValues(table, LAMBDA row : Live(row.until))
    /\ table' = RestrictValues(table, LAMBDA row : Live(row.until))
    /\ UNCHANGED <<deployment, now, accounts, pending, lastTotPStep, cache, jwts, tokens, tickets, bans, req, ghost>>

-----------------------------------------------------------------------------
(* The second factor                                                           *)

registerFailureKeeps(r, p) ==
    LET cur == pending[req[r].user]
    IN IF p.id = 0 \/ cur.id # p.id THEN pending ELSE [pending EXCEPT ![req[r].user].failures = @ + 1]

(* registerFailure: the login is dropped at the limit; another is left alone.   *)
registerFailure(r, p) ==
    LET cur == pending[req[r].user]
    IN IF p.id = 0 \/ cur.id # p.id THEN pending
       ELSE IF cur.failures + 1 >= maxTwoFAFailures THEN [pending EXCEPT ![req[r].user] = NoLogin]
       ELSE [pending EXCEPT ![req[r].user].failures = @ + 1]

(* The middleware let the request through; the handler checks the token again.  *)
handlePostVerify2FAToken(r) ==
    /\ At(r, "handle") /\ req[r].kind = "verify"
    /\ \E code \in IF deployment.second = "totp" THEN (now - 2)..(now + 1) ELSE {0, pending[req[r].user].id} :
         req' = [req EXCEPT ![r].pc = "recheck", ![r].code = code, ![r].totp = accounts[req[r].user].totp]
    /\ UNCHANGED <<dataVars, ghost>>

(* ValidateToken and ValidateTotPCode read the login under one lock ...          *)
ReadLogin(r) ==
    LET p == pending[req[r].user]
    IN /\ At(r, "code")
       /\ req' = [req EXCEPT ![r].pend = p,
                             ![r].pc = IF p.id = 0 \/ now > p.until \/ (deployment.second = "totp" /\ req[r].totp = 0) THEN "deny" ELSE "compare"]
       /\ UNCHANGED <<dataVars, ghost>>

(* A code of the app is good for its own step and for the ones next to it.      *)
CheckTotPCodeStep(r) == req[r].code \in (now - 1)..(now + 1)
CodeMatches(r) == IF deployment.second = "totp" THEN CheckTotPCodeStep(r) ELSE req[r].code = req[r].pend.id

(* acceptTotPStep: a step is good for one login, and no earlier one after it.   *)
acceptTotPStep(u, step) == step > lastTotPStep[u]

WrongCode(r) ==
    /\ At(r, "compare")
    /\ ~CodeMatches(r) \/ (deployment.second = "totp" /\ ~acceptTotPStep(req[r].user, req[r].code))
    /\ pending' = registerFailure(r, req[r].pend)
    /\ ghost' = [ghost EXCEPT !.tried = Counted(@, req[r].pend.id)]
    /\ Goto(r, "deny")
    /\ UNCHANGED <<deployment, now, accounts, lastTotPStep, table, cache, jwts, tokens, tickets, bans>>

RightCode(r) ==
    /\ At(r, "compare") /\ CodeMatches(r)
    /\ IF deployment.second = "totp"
       THEN /\ acceptTotPStep(req[r].user, req[r].code)
            /\ lastTotPStep' = [lastTotPStep EXCEPT ![req[r].user] = req[r].code]
            /\ ghost' = [ghost EXCEPT !.steps = Counted(@, <<req[r].user, req[r].code>>)]
       ELSE UNCHANGED <<lastTotPStep, ghost>>
    /\ Goto(r, "consume")
    /\ UNCHANGED <<deployment, now, accounts, pending, table, cache, jwts, tokens, tickets, bans>>

(* ... and consume it under another, if it is still the pending one.            *)
Consume(r) ==
    LET u == req[r].user
        new == IF pending[u].id = req[r].pend.id THEN pending[u].new ELSE None
    IN /\ At(r, "consume")
       /\ pending' = IF pending[u].id = req[r].pend.id THEN [pending EXCEPT ![u] = NoLogin] ELSE pending
       /\ req' = [req EXCEPT ![r].new = new, ![r].pc = IF new # None THEN "set" ELSE "grant"]
       /\ UNCHANGED <<deployment, now, accounts, lastTotPStep, table, cache, jwts, tokens, tickets, bans, ghost>>

Deny(r) ==
    /\ At(r, "deny")
    /\ bans' = LET counted == [bans EXCEPT !.ip[req[r].ip].codes = @ + 1]
               IN Add(handleBannedIPs(counted, req[r].ip, FALSE), req[r].ip, req[r].user)
    /\ Return(r)
    /\ UNCHANGED <<deployment, now, accounts, pending, lastTotPStep, table, cache, jwts, tokens, tickets, ghost>>

-----------------------------------------------------------------------------
(* What a user does once the token is accepted                                 *)

(* handleChangeMe asks for the old password before it sets a new one.           *)
handleChangeMe(r) ==
    \E old \in Passwords, new \in Passwords :
      /\ At(r, "handle") /\ req[r].kind = "me"
      /\ req' = [req EXCEPT ![r] = IF accounts[req[r].user].pwd = old THEN [@ EXCEPT !.pc = "set", !.new = new] ELSE Idle]
      /\ UNCHANGED <<dataVars, ghost>>

(* handleChangeUser: an administrator sets a password, or marks it expired.     *)
handleChangeUser(r) ==
    \E u \in Users, new \in {"second", None} :
      /\ At(r, "handle") /\ req[r].kind = "change"
      /\ req' = [req EXCEPT ![r].pc = "set", ![r].user = u, ![r].new = new]
      /\ UNCHANGED <<dataVars, ghost>>

handleDeleteUser(r) ==
    \E u \in Users :
      /\ At(r, "handle") /\ req[r].kind = "remove"
      /\ accounts' = [accounts EXCEPT ![u] = [pwd |-> None, expired |-> FALSE, totp |-> 0]]
      /\ Return(r)
      /\ UNCHANGED <<deployment, now, pending, lastTotPStep, table, cache, jwts, tokens, tickets, bans, ghost>>

(* handleManageTotP: a secret is only made where there was none to be read; a   *)
(* removal asks for the password, which the caller is taken to know.            *)
Enrols(r) ==
    /\ At(r, "handle") /\ req[r].kind = "enrol" /\ Left("secrets")
    /\ req' = [req EXCEPT ![r] = IF accounts[req[r].user].totp = 0 THEN [@ EXCEPT !.pc = "secret", !.totp = ghost.secrets + 1] ELSE Idle]
    /\ Made("secrets")
    /\ UNCHANGED dataVars

handleDeleteTotP(r) ==
    /\ At(r, "handle") /\ req[r].kind = "unenrol"
    /\ req' = [req EXCEPT ![r].pc = "secret", ![r].totp = 0]
    /\ UNCHANGED <<dataVars, ghost>>

StoreTotPCodeInUser(r) ==
    /\ At(r, "secret")
    /\ accounts' = IF accounts[req[r].user].pwd = None THEN accounts ELSE [accounts EXCEPT ![req[r].user].totp = req[r].totp]
    /\ Return(r)
    /\ UNCHANGED <<deployment, now, pending, lastTotPStep, table, cache, jwts, tokens, tickets, bans, ghost>>

-----------------------------------------------------------------------------
(* API tokens: rows with a unique name for each user. A row's prefix is its     *)
(* number; hash is 0 for a row that was written without a secret. A token       *)
(* expires at once or with the year it gets by default, which is after MaxTime. *)

NoExpiry == -1

NameTaken(u, name) == \E t \in DOMAIN tokens : tokens[t].user = u /\ tokens[t].name = name

(* checkNameExist comes before the statement, whose unique index checks again.  *)
handlePostToken(r) ==
    \E name \in {"a", "b"}, scope \in {"read", "read+write", "clients-auth"}, until \in {now, MaxTime} :
      /\ At(r, "handle") /\ req[r].kind = "post" /\ Left("tokens")
      /\ req' = [req EXCEPT ![r] = IF NameTaken(req[r].user, name) THEN Idle
                                   ELSE [@ EXCEPT !.pc = "upsert", !.sid = ghost.tokens + 1,
                                                  !.row = [user |-> req[r].user, name |-> name, scope |-> scope, hash |-> ghost.tokens + 1, until |-> until]]]
      /\ Made("tokens")
      /\ UNCHANGED dataVars

(* The row an update brings: a name, perhaps an expiry, no secret and no scope. *)
PutRow(u, t, name, until) == [user |-> u, name |-> name, scope |-> "", hash |-> 0, until |-> until]

(* handlePutToken looks the token up, checks the new name and writes the row.   *)
handlePutToken(r) ==
    \E t \in DOMAIN tokens, name \in {"a", "b"}, until \in {NoExpiry, now} :
      /\ At(r, "handle") /\ req[r].kind = "put" /\ tokens[t].user = req[r].user
      /\ req' = [req EXCEPT ![r] = IF NameTaken(req[r].user, name) THEN Idle
                                   ELSE [@ EXCEPT !.pc = "upsert", !.sid = t, !.row = PutRow(req[r].user, t, name, until)]]
      /\ UNCHANGED <<dataVars, ghost>>

(* The upsert: a row that exists keeps its secret and its scope, and its expiry *)
(* when the update brings none.                                                 *)
SaveToken(r) ==
    LET t == req[r].sid
        row == req[r].row
    IN /\ At(r, "upsert")
       /\ tokens' = IF \E o \in DOMAIN tokens \ {t} : tokens[o].user = row.user /\ tokens[o].name = row.name THEN tokens
                    ELSE IF t \in DOMAIN tokens THEN [tokens EXCEPT ![t].name = row.name, ![t].until = IF row.until = NoExpiry THEN @ ELSE row.until]
                    ELSE With(tokens, t, row)
       /\ Return(r)
       /\ UNCHANGED <<deployment, now, accounts, pending, lastTotPStep, table, cache, jwts, tickets, bans, ghost>>

handleDeleteToken(r) ==
    \E t \in DOMAIN tokens :
      /\ At(r, "handle") /\ req[r].kind = "revoke" /\ tokens[t].user = req[r].user
      /\ tokens' = Minus(tokens, {t})
      /\ ghost' = [ghost EXCEPT !.revoked = @ \cup {t}]
      /\ Return(r)
      /\ UNCHANGED <<deployment, now, accounts, pending, lastTotPStep, table, cache, jwts, tickets, bans>>

(* verifyPassword: an empty hash verifies nothing.                              *)
verifyPassword(saved, provided) == saved # 0 /\ saved = provided

HasNotExpired(until) == until = NoExpiry \/ until >= now

(* handleBasicAuth: the password where there is no second factor, an API token  *)
(* whose scope covers the route; a basic request here is a plain GET.           *)
handleBasicAuth(r) ==
    LET u == accounts[req[r].user]
        t == req[r].sid
        byPassword == deployment.second = "off" /\ req[r].pwd = u.pwd
        byToken == t \in DOMAIN tokens /\ tokens[t].user = req[r].user /\ HasNotExpired(tokens[t].until) /\ verifyPassword(tokens[t].hash, t)
        known == ~IsBanned(r) /\ u.pwd # None /\ ~u.expired /\ (byPassword \/ byToken)
    IN /\ At(r, "basic")
       /\ IF known /\ (byPassword \/ tokens[t].scope \in {"read", "read+write"})
          THEN /\ ghost' = [ghost EXCEPT !.revived = @ \/ t \in ghost.revoked]
               /\ Goto(r, "handle") /\ UNCHANGED bans
          ELSE /\ bans' = IF IsBanned(r) \/ u.expired \/ known THEN bans ELSE Denied(r)
               /\ Return(r) /\ UNCHANGED ghost
       /\ UNCHANGED <<deployment, now, accounts, pending, lastTotPStep, table, cache, jwts, tokens, tickets>>

(* Any other handler: it reads.                                                 *)
Reads(r) ==
    /\ At(r, "handle") /\ req[r].kind = "read"
    /\ Return(r)
    /\ UNCHANGED <<dataVars, ghost>>

-----------------------------------------------------------------------------
(* Web socket tickets                                                          *)

issue(u) ==
    LET kept == RestrictValues(tickets, LAMBDA t : now <= t.until)
        held == {k \in DOMAIN kept : kept[k].user = u}
    IN IF Cardinality(DOMAIN kept) >= maxOutstandingTickets \/ Cardinality(held) >= maxTicketsPerUser
       THEN kept
       ELSE With(kept, ghost.issued + 1, [user |-> u, until |-> now + wsTicketTTL])

handleGetWSTicket(r) ==
    /\ At(r, "handle") /\ req[r].kind = "ticket" /\ Left("issued")
    /\ tickets' = IF accounts[req[r].user].pwd = None THEN tickets ELSE issue(req[r].user)
    /\ Made("issued")
    /\ Return(r)
    /\ UNCHANGED <<deployment, now, accounts, pending, lastTotPStep, table, cache, jwts, tokens, bans>>

redeemKeeps(t) == tickets

(* redeem: a ticket is gone once it was presented, valid or not.                *)
redeem(t) == Minus(tickets, {t})

(* wsAuth with a ticket.                                                        *)
wsAuth(ip) ==
    \E t \in 1..ghost.issued :
      LET ok == t \in DOMAIN tickets /\ now <= tickets[t].until
      IN /\ Sends("socket") /\ ~Live(bans.ip[ip].until)
         /\ tickets' = redeem(t)
         /\ bans' = handleBannedIPs(bans, ip, ok)
         /\ ghost' = IF ok THEN [ghost EXCEPT !.redeemed = @ \cup {t}, !.twice = @ \/ t \in ghost.redeemed] ELSE ghost
         /\ UNCHANGED <<deployment, now, accounts, pending, lastTotPStep, table, cache, jwts, tokens, req>>

-----------------------------------------------------------------------------
(* Time, failures and restarts                                                 *)

Tick ==
    /\ now < MaxTime
    /\ now' = now + 1
    /\ UNCHANGED <<deployment, accounts, pending, lastTotPStep, table, cache, jwts, tokens, tickets, bans, req, ghost>>

(* The code cannot be delivered: nothing is stored.                             *)
MessageFails(r) ==
    /\ At(r, "send") /\ Fault("message")
    /\ Return(r)
    /\ UNCHANGED dataVars

(* A statement fails. Most handlers answer with an error; a session that could  *)
(* not be saved by checkBearerToken, and rows that could not be deleted after a *)
(* verified code, are only logged.                                              *)
StatementFails(r) ==
    /\ req[r].pc \in {"set", "retire rows", "mint", "save", "logout", "kill row", "secret", "upsert"}
    /\ At(r, "logout") => ~IsBanned(r) /\ ValidateBearerToken(r)
    /\ Fault("statement")
    /\ req' = [req EXCEPT ![r] = IF At(r, "save") /\ req[r].round # 2 THEN [@ EXCEPT !.pc = AfterSave(r)]
                                 ELSE IF At(r, "retire rows") /\ req[r].kind = "verify" THEN [@ EXCEPT !.pc = "grant"]
                                 ELSE Idle]
    /\ UNCHANGED dataVars

(* A restart: tables stay, memory is lost, the cache is filled from the rows.   *)
Restart ==
    /\ Fault("restart")
    /\ pending' = [u \in Users |-> NoLogin]
    /\ lastTotPStep' = [u \in Users |-> -2]
    /\ cache' = RestrictValues(table, LAMBDA row : row.until >= now)
    /\ tickets' = <<>>
    /\ bans' = [user |-> [k \in Addresses \X Users |-> 0], ip |-> [a \in Addresses |-> NoVisitor]]
    /\ req' = [r \in Reqs |-> Idle]
    /\ UNCHANGED <<deployment, now, accounts, table, jwts, tokens>>

Handles(r) ==
    \/ handlePostLogin(r) \/ BearerRequest(r) \/ BasicRequest(r)
    \/ LoginRefused(r) \/ LoginAccepted(r) \/ Change(r) \/ DeleteAllByUser(r) \/ deleteUserSessionsFromStorage(r)
    \/ HasExpired(r) \/ NoSecondFactor(r) \/ SendToken(r) \/ Sent(r) \/ SetTotPLoginSession(r) \/ SetPendingPasswordChange(r)
    \/ recordAuthSuccess(r) \/ CreateAuthToken(r) \/ Minted(r)
    \/ Unauthorized(r) \/ checkBearerToken(r) \/ updateTokenAccess(r) \/ Save(r) \/ Saved(r)
    \/ handleDeleteLogout(r) \/ LogoutRefused(r) \/ Forget(r) \/ DeleteByID(r) \/ deleteUserSessionFromStorage(r)
    \/ handlePostVerify2FAToken(r) \/ ReadLogin(r) \/ WrongCode(r) \/ RightCode(r) \/ Consume(r) \/ Deny(r)
    \/ handleChangeMe(r) \/ handleChangeUser(r) \/ handleDeleteUser(r) \/ Enrols(r) \/ handleDeleteTotP(r) \/ StoreTotPCodeInUser(r)
    \/ handlePostToken(r) \/ handlePutToken(r) \/ SaveToken(r) \/ handleDeleteToken(r) \/ handleBasicAuth(r) \/ Reads(r)
    \/ handleGetWSTicket(r)
    \/ MessageFails(r) \/ StatementFails(r)

Next ==
    \/ \E r \in Reqs : Handles(r)
    \/ \E ip \in Addresses : wsAuth(ip)
    \/ DeleteExpired \/ Tick \/ Restart

Spec == Init /\ [][Next]_accessVars

-----------------------------------------------------------------------------

(* What was used up or deleted opens nothing again, whatever goes on at the same *)
(* time: a time step of an app opens at most one login of a user                *)
(* (acceptTotPStep decides and records in one go; what it recorded is lost with *)
(* the process), a ticket opens one socket, and a deleted API token never       *)
(* authenticates again, even when a PUT that looked it up before wrote its row  *)
(* back: that row has no hash. A code that was sent is left out: two handlers   *)
(* that read it before either of them consumed it are both let in, although     *)
(* 2fa_auth.go:277 calls it "Single-use".                                       *)
SpentStaysSpent ==
    /\ "restart" \notin deployment.faults => \A k \in DOMAIN ghost.steps : ghost.steps[k] <= 1
    /\ ~ghost.twice
    /\ ~ghost.revived

(* One pending login is compared with at most maxTwoFAFailures wrong codes,     *)
(* beyond that only with those whose handlers had read it before it was         *)
(* dropped. Failed second factors from one address, counted since its last ban  *)
(* or completed login, never reach maxBadAttempts: the limiter engages, although *)
(* each of those requests carried a bearer token that was accepted. Expired     *)
(* tickets are only swept when new ones are issued, yet no user holds more live *)
(* ones than allowed and the store never more than it may hold.                 *)
LimitsHold ==
    /\ \A id \in DOMAIN ghost.tried : ghost.tried[id] < maxTwoFAFailures + Cardinality(Reqs)
    /\ \A a \in Addresses : bans.ip[a].codes < maxBadAttempts
    /\ Cardinality(DOMAIN tickets) <= maxOutstandingTickets
    /\ \A u \in Users : Cardinality({t \in DOMAIN tickets : tickets[t].user = u /\ now <= tickets[t].until}) <= maxTicketsPerUser
=============================================================================
