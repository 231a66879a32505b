------------------------ MODULE ApiAccessLoginProofs ------------------------
(***************************************************************************)
(* Proofs about ApiAccess, first part: the inductive invariant, and the    *)
(* statements of the handlers that keep API tokens and pending logins in   *)
(* order.                                                                  *)
(***************************************************************************)
EXTENDS ApiAccess, FiniteSetTheorems, TLAPS

(***************************************************************************)
(* The inductive invariant. Of the many fields of a record only those a    *)
(* property depends on have their values stated; of the others it is only  *)
(* said that they are there.                                               *)
(***************************************************************************)
IsRequest(q) ==
    q = [pc |-> q.pc, kind |-> q.kind, ip |-> q.ip, user |-> q.user, jwt |-> q.jwt, row |-> q.row,
         sid |-> q.sid, round |-> q.round, pend |-> q.pend, code |-> q.code, pwd |-> q.pwd, new |-> q.new,
         expired |-> q.expired, totp |-> q.totp, life |-> q.life]
IsGhost(g) ==
    g = [faults |-> g.faults, sent |-> g.sent, sessions |-> g.sessions, logins |-> g.logins,
         secrets |-> g.secrets, tokens |-> g.tokens, issued |-> g.issued, redeemed |-> g.redeemed,
         twice |-> g.twice, steps |-> g.steps, tried |-> g.tried, revoked |-> g.revoked, revived |-> g.revived]
IsLogin(p) == p = [id |-> p.id, until |-> p.until, failures |-> p.failures, new |-> p.new]
IsTokenRow(t) == t = [user |-> t.user, name |-> t.name, scope |-> t.scope, hash |-> t.hash, until |-> t.until]
IsVisitor(v) == v = [bad |-> v.bad, until |-> v.until, seen |-> v.seen, codes |-> v.codes]

\* A handler knows its address and its user; basic authentication brings a
\* password or the number of an API token.
RequestOK(q) ==
    /\ IsRequest(q) /\ q.code \in Int
    /\ q.pc # "idle" => q.ip \in Addresses /\ q.user \in Users
    /\ q.pc = "basic" /\ q.pwd # None => q.sid = 0
    /\ q.pc \in {"save", "saved"} => q.round \in {1, 2, 3}

HandlersOK ==
    /\ req = [r \in Reqs |-> req[r]] /\ \A r \in Reqs : RequestOK(req[r])
    /\ \A j \in jwts : j.user \in Users
    /\ IsGhost(ghost) /\ now \in Int

\* A deleted API token has no row, or one without a secret; a row that is about
\* to be inserted with a secret has a number of its own.
Inserts(r) == At(r, "upsert") /\ req[r].row.hash # 0
TokensOK ==
    /\ tokens = [t \in DOMAIN tokens |-> tokens[t]] /\ ghost.tokens \in Nat
    /\ \A t \in DOMAIN tokens : t \in 1..ghost.tokens /\ IsTokenRow(tokens[t])
    /\ \A t \in ghost.revoked : t \in 1..ghost.tokens /\ (t \in DOMAIN tokens => tokens[t].hash = 0)
    /\ \A r \in Reqs : At(r, "upsert") => IsTokenRow(req[r].row) /\ req[r].sid \in 1..ghost.tokens
    /\ \A r \in Reqs : Inserts(r) =>
          /\ req[r].sid \notin DOMAIN tokens \cup ghost.revoked
          /\ \A q \in Reqs \ {r} : At(q, "upsert") => req[q].sid # req[r].sid
    /\ ghost.revived = FALSE

\* The wrong codes of a pending login are its failures; with the handlers that
\* still compare they stay below the bound.
Comparing(id) == {r \in Reqs : At(r, "compare") /\ req[r].pend.id = id}
LoginsOK ==
    /\ ghost.logins \in Nat
    /\ pending = [u \in Users |-> pending[u]]
    /\ \A u \in Users : /\ IsLogin(pending[u]) /\ pending[u].id \in 0..ghost.logins
                        /\ pending[u].failures \in Nat /\ pending[u].failures < maxTwoFAFailures
    /\ \A u \in Users : pending[u].id # 0 =>
          /\ Count(ghost.tried, pending[u].id) = pending[u].failures
          /\ \A v \in Users : pending[v].id = pending[u].id => v = u
    /\ \A r \in Reqs : At(r, "compare") =>
          /\ req[r].pend.id \in 1..ghost.logins
          /\ \A u \in Users : pending[u].id = req[r].pend.id => u = req[r].user
    /\ \A id \in DOMAIN ghost.tried : id \in 1..ghost.logins
    /\ \A id \in 1..ghost.logins :
          /\ Count(ghost.tried, id) \in Nat
          /\ Count(ghost.tried, id) + Cardinality(Comparing(id)) < maxTwoFAFailures + Cardinality(Reqs)

\* The last accepted step of a user is not before any step that was accepted.
StepsOK ==
    "restart" \notin deployment.faults =>
        /\ lastTotPStep \in [Users -> Int]
        /\ \A k \in DOMAIN ghost.steps :
              /\ ghost.steps[k] = 1
              /\ k[1] \in Users /\ k[2] \in Int /\ k[2] <= lastTotPStep[k[1]]

\* Every wrong code is one of the failures that are counted.
VisitorOK(v) ==
    IsVisitor(v) /\ v.bad \in Nat /\ v.codes \in Nat /\ v.codes <= v.bad /\ v.bad < maxBadAttempts
IsBans(b) == b = [user |-> b.user, ip |-> b.ip] /\ b.ip = [a \in Addresses |-> b.ip[a]]
BansOK(b) == IsBans(b) /\ \A a \in Addresses : VisitorOK(b.ip[a])

\* A redeemed ticket is not in the store, and the store keeps to both limits.
Held(u) == {t \in DOMAIN tickets : tickets[t].user = u /\ now <= tickets[t].until}
TicketsOK ==
    /\ tickets = [t \in DOMAIN tickets |-> tickets[t]] /\ ghost.issued \in Nat
    /\ \A t \in DOMAIN tickets : t \in 1..ghost.issued /\ tickets[t].until \in Int
    /\ \A t \in ghost.redeemed : t \in 1..ghost.issued /\ t \notin DOMAIN tickets
    /\ ghost.twice = FALSE
    /\ Cardinality(DOMAIN tickets) <= maxOutstandingTickets
    /\ \A u \in Users : Cardinality(Held(u)) <= maxTicketsPerUser

AccessInv ==
    HandlersOK /\ TokensOK /\ LoginsOK /\ StepsOK /\ BansOK(bans) /\ TicketsOK

-----------------------------------------------------------------------------
(* One handler moves on. *)

\* The handler's next state is in order, and neither inserts a row nor compares
\* a code.
Moves(r) ==
    /\ req' = [req EXCEPT ![r] = req'[r]] /\ RequestOK(req'[r])
    /\ UNCHANGED deployment
Elsewhere(r) == Moves(r) /\ req'[r].pc \notin {"upsert", "compare"}

\* A handler that answers is idle again.
LEMMA ReturnMoves ==
    ASSUME HandlersOK, NEW r \in Reqs, Return(r), UNCHANGED deployment
    PROVE  Elsewhere(r)
  BY DEF HandlersOK, Return, Idle, NewRequest, Elsewhere, Moves, RequestOK, IsRequest

\* A handler that goes on to another statement keeps what it has read.
LEMMA GotoMoves ==
    ASSUME HandlersOK, NEW r \in Reqs, NEW x, Goto(r, x), UNCHANGED deployment, req[r].pc # "idle",
           x \notin {"upsert", "compare", "basic", "save"}, x = "saved" => req[r].pc = "save"
    PROVE  Elsewhere(r)
<1>1. RequestOK(req[r])
  BY Zenon DEF HandlersOK
<1>2. req'[r] = [req[r] EXCEPT !.pc = x] /\ req' = [req EXCEPT ![r] = req'[r]]
  BY Zenon DEF HandlersOK, Goto
<1> QED BY ZenonT(60), <1>1, <1>2 DEF Elsewhere, Moves, RequestOK, IsRequest

\* Requests arrive.
LEMMA ArrivalMoves ==
    ASSUME HandlersOK, NEW r \in Reqs, handlePostLogin(r) \/ BearerRequest(r) \/ BasicRequest(r)
    PROVE  Elsewhere(r)
<1>0. UNCHANGED deployment
  BY Zenon DEF handlePostLogin, BearerRequest, BasicRequest, dataVars
<1>9. 0 \in Int
  OBVIOUS
<1>1. CASE handlePostLogin(r)
  <2>1. PICK ip \in Addresses, u \in Users, pwd \in Passwords, new \in {None, "second"} :
           /\ Arrives(r, "login", ip)
           /\ new # None => Sends("rotate")
           /\ req' = [req EXCEPT ![r] = [NewRequest("login", ip, u) EXCEPT !.pwd = pwd, !.new = new,
                                          !.life = IF Sends("long") THEN DefaultMaxTokenLifetime ELSE DefaultTokenLifetime]]
           /\ UNCHANGED dataVars
    BY Zenon, <1>1 DEF handlePostLogin
  <2>2. PICK life : req' = [req EXCEPT ![r] = [NewRequest("login", ip, u) EXCEPT !.pwd = pwd, !.new = new, !.life = life]]
    BY Zenon, <2>1
  <2>3. /\ req' = [req EXCEPT ![r] = req'[r]]
        /\ req'[r] = [NewRequest("login", ip, u) EXCEPT !.pwd = pwd, !.new = new, !.life = life]
    BY Zenon, <2>2 DEF HandlersOK
  <2> QED BY ZenonT(60), <1>0, <1>9, <2>3 DEF Elsewhere, Moves, RequestOK, IsRequest, NewRequest
<1>2. CASE BearerRequest(r)
  <2>1. PICK kind \in Routes \cup {"verify"}, ip \in Addresses, j \in jwts :
           req' = [req EXCEPT ![r] = [NewRequest(kind, ip, j.user) EXCEPT !.jwt = j, !.pc = IF kind = "logout" THEN "logout" ELSE "auth"]]
    BY Zenon, <1>2 DEF BearerRequest
  <2>2. PICK pc \in {"logout", "auth"} : req' = [req EXCEPT ![r] = [NewRequest(kind, ip, j.user) EXCEPT !.jwt = j, !.pc = pc]]
    BY Zenon, <2>1
  <2>3. /\ req' = [req EXCEPT ![r] = req'[r]] /\ j.user \in Users
        /\ req'[r] = [NewRequest(kind, ip, j.user) EXCEPT !.jwt = j, !.pc = pc]
    BY Zenon, <2>2 DEF HandlersOK
  <2> QED BY Zenon, <1>0, <1>9, <2>3 DEF Elsewhere, Moves, RequestOK, IsRequest, NewRequest
<1>3. CASE BasicRequest(r)
  <2>1. PICK ip \in Addresses, u \in Users, pwd \in Passwords, t \in 0..ghost.tokens :
           req' = [req EXCEPT ![r] = [NewRequest("read", ip, u) EXCEPT !.pc = "basic", !.pwd = IF t = 0 THEN pwd ELSE None, !.sid = t]]
    BY Zenon, <1>3 DEF BasicRequest
  <2>2. PICK p : /\ p # None => t = 0
                 /\ req' = [req EXCEPT ![r] = [NewRequest("read", ip, u) EXCEPT !.pc = "basic", !.pwd = p, !.sid = t]]
    BY Zenon, <2>1
  <2>3. /\ req' = [req EXCEPT ![r] = req'[r]]
        /\ req'[r] = [NewRequest("read", ip, u) EXCEPT !.pc = "basic", !.pwd = p, !.sid = t]
    BY Zenon, <2>2 DEF HandlersOK
  <2>4. /\ IsRequest(req'[r]) /\ req'[r].code = 0 /\ req'[r].ip = ip /\ req'[r].user = u
        /\ req'[r].pc = "basic" /\ req'[r].pwd = p /\ req'[r].sid = t
    BY ZenonT(60), <2>3 DEF IsRequest, NewRequest
  <2> QED BY <1>0, <2>2, <2>3, <2>4 DEF Elsewhere, Moves, RequestOK
<1> QED BY Zenon, <1>1, <1>2, <1>3

\* Handlers that answer, or go on to their next stretch.
LEMMA SimpleMoves ==
    ASSUME HandlersOK, NEW r \in Reqs,
           \/ LoginRefused(r) \/ HasExpired(r) \/ LogoutRefused(r) \/ Forget(r) \/ deleteUserSessionFromStorage(r)
           \/ Deny(r) \/ handleDeleteUser(r) \/ StoreTotPCodeInUser(r) \/ SaveToken(r) \/ handleDeleteToken(r)
           \/ Reads(r) \/ handleGetWSTicket(r) \/ MessageFails(r)
           \/ DeleteAllByUser(r) \/ NoSecondFactor(r) \/ SendToken(r) \/ Sent(r) \/ SetTotPLoginSession(r)
           \/ recordAuthSuccess(r) \/ Save(r) \/ Saved(r) \/ handleDeleteLogout(r) \/ WrongCode(r) \/ RightCode(r)
           \/ Change(r) \/ Unauthorized(r) \/ handleBasicAuth(r)
    PROVE  Elsewhere(r)
<1>1. CASE \/ LoginRefused(r) \/ HasExpired(r) \/ LogoutRefused(r) \/ Forget(r) \/ deleteUserSessionFromStorage(r)
           \/ Deny(r) \/ handleDeleteUser(r) \/ StoreTotPCodeInUser(r) \/ SaveToken(r) \/ handleDeleteToken(r)
           \/ Reads(r) \/ handleGetWSTicket(r) \/ MessageFails(r)
  <2>1. Return(r) /\ UNCHANGED deployment
    BY Zenon, <1>1 DEF LoginRefused, HasExpired, LogoutRefused, Forget, deleteUserSessionFromStorage, Deny,
       handleDeleteUser, StoreTotPCodeInUser, SaveToken, handleDeleteToken, Reads, handleGetWSTicket, MessageFails, dataVars
  <2> QED BY Zenon, <2>1, ReturnMoves
<1>2. CASE DeleteAllByUser(r) \/ NoSecondFactor(r) \/ recordAuthSuccess(r) \/ handleDeleteLogout(r) \/ WrongCode(r) \/ RightCode(r) \/ Sent(r)
  <2>1. /\ req[r].pc # "idle" /\ UNCHANGED deployment
        /\ \E x \in {"retire rows", "grant", "mint", "forget", "deny", "consume"} : Goto(r, x)
    BY Zenon, <1>2 DEF At, DeleteAllByUser, NoSecondFactor, recordAuthSuccess, handleDeleteLogout, WrongCode, RightCode, Sent, dataVars
  <2> QED BY Zenon, <2>1, GotoMoves
<1>3. CASE SendToken(r) \/ SetTotPLoginSession(r)
  <2>1. req[r].pc # "idle" /\ UNCHANGED deployment /\ \E x \in {"mint", "send", "defer"} : Goto(r, x)
    BY Zenon, <1>3 DEF At, SendToken, SetTotPLoginSession, dataVars
  <2> QED BY Zenon, <2>1, GotoMoves
<1>4. CASE Save(r)
  BY Zenon, <1>4, GotoMoves DEF At, Save
<1>5. CASE Saved(r)
  <2>1. AfterSave(r) \in {"touch", "handle", "code"}
    BY Zenon, <1>5 DEF At, Saved, AfterSave, HandlersOK, RequestOK
  <2> QED BY Zenon, <1>5, <2>1, GotoMoves DEF At, Saved
<1>6. CASE Change(r) \/ Unauthorized(r) \/ handleBasicAuth(r)
  <2>1. /\ req[r].pc # "idle" /\ UNCHANGED deployment
        /\ Return(r) \/ \E x \in {"retire", "deny", "handle"} : Goto(r, x)
    BY Zenon, <1>6 DEF At, Change, Unauthorized, handleBasicAuth
  <2> QED BY Zenon, <2>1, GotoMoves, ReturnMoves
<1> QED BY Zenon, <1>1, <1>2, <1>3, <1>4, <1>5, <1>6

\* Handlers that note what they read.
LEMMA LoginMoves ==
    ASSUME HandlersOK, NEW r \in Reqs,
           \/ LoginAccepted(r) \/ deleteUserSessionsFromStorage(r) \/ SetPendingPasswordChange(r)
           \/ CreateAuthToken(r) \/ Minted(r) \/ checkBearerToken(r) \/ updateTokenAccess(r)
    PROVE  Elsewhere(r)
<1>0. RequestOK(req[r]) /\ UNCHANGED deployment
  BY Zenon DEF HandlersOK, LoginAccepted, deleteUserSessionsFromStorage, SetPendingPasswordChange,
     CreateAuthToken, Minted, checkBearerToken, updateTokenAccess, dataVars
<1>1. RequestOK(Idle) /\ Idle.pc = "idle"
  BY DEF RequestOK, IsRequest, Idle, NewRequest
<1>2. CASE LoginAccepted(r)
  <2>1. req[r].pc = "login" /\ req' = [req EXCEPT ![r] = req'[r]] /\ \E x \in {"set", "factor"} :
           req'[r] = [req[r] EXCEPT !.pc = x, !.expired = accounts[req[r].user].expired, !.totp = accounts[req[r].user].totp]
    BY Zenon, <1>2 DEF LoginAccepted, At, HandlersOK
  <2> QED BY ZenonT(60), <1>0, <2>1 DEF Elsewhere, Moves, RequestOK, IsRequest
<1>3. CASE deleteUserSessionsFromStorage(r)
  <2>1. /\ req[r].pc = "retire rows" /\ req' = [req EXCEPT ![r] = req'[r]]
        /\ req'[r] = Idle \/ \E x \in {"factor", "grant"} : req'[r] = [req[r] EXCEPT !.pc = x, !.expired = FALSE]
    BY Zenon, <1>3 DEF deleteUserSessionsFromStorage, AfterRetire, At, HandlersOK
  <2> QED BY Zenon, <1>0, <1>1, <2>1 DEF Elsewhere, Moves, RequestOK, IsRequest
<1>4. CASE SetPendingPasswordChange(r)
  <2>1. /\ req[r].pc = "defer" /\ req' = [req EXCEPT ![r] = req'[r]]
        /\ req'[r] = Idle \/ req'[r] = [req[r] EXCEPT !.pc = "mint"]
    BY Zenon, <1>4 DEF SetPendingPasswordChange, At, HandlersOK
  <2> QED BY Zenon, <1>0, <1>1, <2>1 DEF Elsewhere, Moves, RequestOK, IsRequest
<1>5. CASE CreateAuthToken(r)
  <2>1. /\ req[r].pc = "mint" /\ req' = [req EXCEPT ![r] = req'[r]]
        /\ req'[r] = [req[r] EXCEPT !.pc = "minted", !.sid = NextSessionID,
                                    !.row = [user |-> req[r].user, until |-> now + req[r].life]]
    BY Zenon, <1>5 DEF CreateAuthToken, At, HandlersOK
  <2> QED BY ZenonT(60), <1>0, <2>1 DEF Elsewhere, Moves, RequestOK, IsRequest
<1>6. CASE Minted(r)
  <2>1. /\ req[r].pc = "minted" /\ req' = [req EXCEPT ![r] = req'[r]]
        /\ req'[r] = Idle \/ req'[r] = [req[r] EXCEPT !.pc = "defer"]
    BY Zenon, <1>6 DEF Minted, At, HandlersOK
  <2> QED BY <1>0, <1>1, <2>1 DEF Elsewhere, Moves, RequestOK, IsRequest
<1>7. CASE checkBearerToken(r)
  <2>1. /\ req[r].pc \in {"auth", "recheck"} /\ req' = [req EXCEPT ![r] = req'[r]]
        /\ \E x \in {1, 3} : req'[r] = [req[r] EXCEPT !.pc = "save", !.round = x,
                                                      !.row = IncreaseSessionLifetime(cache[req[r].jwt.sid])]
    BY Zenon, <1>7 DEF checkBearerToken, At, HandlersOK
  <2> QED BY ZenonT(60), <1>0, <2>1 DEF Elsewhere, Moves, RequestOK, IsRequest
<1>8. CASE updateTokenAccess(r)
  <2>1. /\ req[r].pc = "touch" /\ req' = [req EXCEPT ![r] = req'[r]]
        /\ \/ req'[r] = [req[r] EXCEPT !.pc = "save", !.round = 2, !.row = cache[req[r].jwt.sid]]
           \/ req'[r] = [req[r] EXCEPT !.pc = "handle", !.round = 2, !.row = req[r].row]
    BY Zenon, <1>8 DEF updateTokenAccess, At, HandlersOK
  <2> QED BY ZenonT(60), <1>0, <2>1 DEF Elsewhere, Moves, RequestOK, IsRequest
<1> QED BY Zenon, <1>2, <1>3, <1>4, <1>5, <1>6, <1>7, <1>8

\* The handlers that change a user, verify a code or delete a session, and a
\* statement that fails.
LEMMA HandlerMoves ==
    ASSUME HandlersOK, LoginsOK, NEW r \in Reqs,
           \/ DeleteByID(r) \/ handlePostVerify2FAToken(r) \/ Consume(r) \/ handleChangeMe(r) \/ handleChangeUser(r)
           \/ Enrols(r) \/ handleDeleteTotP(r) \/ StatementFails(r)
    PROVE  Elsewhere(r)
<1>0. RequestOK(req[r]) /\ UNCHANGED deployment /\ req = [q \in Reqs |-> req[q]]
  BY Zenon DEF HandlersOK, DeleteByID, handlePostVerify2FAToken, Consume, handleChangeMe, handleChangeUser,
     Enrols, handleDeleteTotP, StatementFails, dataVars
<1>1. RequestOK(Idle) /\ Idle.pc = "idle"
  BY DEF RequestOK, IsRequest, Idle, NewRequest
<1>2. CASE DeleteByID(r)
  <2>0. PICK x \in DOMAIN table \cup DOMAIN cache, u \in Users :
           At(r, "handle") /\ req' = [req EXCEPT ![r].pc = "kill row", ![r].sid = x, ![r].user = u]
    BY Zenon, <1>2 DEF DeleteByID
  <2>1. /\ req[r].pc = "handle" /\ req' = [req EXCEPT ![r] = req'[r]]
        /\ req'[r] = [req[r] EXCEPT !.pc = "kill row", !.sid = x, !.user = u]
    BY Zenon, <1>0, <2>0 DEF At
  <2> QED BY ZenonT(60), <1>0, <2>1 DEF Elsewhere, Moves, RequestOK, IsRequest
<1>3. CASE handlePostVerify2FAToken(r)
  <2>1. /\ req[r].pc = "handle" /\ req' = [req EXCEPT ![r] = req'[r]]
        /\ \E c \in Int : req'[r] = [req[r] EXCEPT !.pc = "recheck", !.code = c, !.totp = accounts[req[r].user].totp]
    <3>0. req[r].pc = "handle" /\ req[r].user \in Users /\ now \in Int
      BY Zenon, <1>0, <1>3 DEF handlePostVerify2FAToken, At, HandlersOK, RequestOK
    <3>1. now \in Int /\ pending[req[r].user].id \in Int /\ req[r].pc = "handle"
      BY <3>0 DEF LoginsOK
    <3>2. (now - 2)..(now + 1) \subseteq Int /\ {0, pending[req[r].user].id} \subseteq Int
      BY SMTT(60), <3>1
    <3>3. PICK c \in Int : req' = [req EXCEPT ![r].pc = "recheck", ![r].code = c, ![r].totp = accounts[req[r].user].totp]
      BY Zenon, <1>3, <3>2 DEF handlePostVerify2FAToken
    <3> QED BY ZenonT(60), <1>0, <3>1, <3>3
  <2> QED BY ZenonT(60), <1>0, <2>1 DEF Elsewhere, Moves, RequestOK, IsRequest
<1>4. CASE Consume(r)
  <2>1. /\ req[r].pc = "consume" /\ req' = [req EXCEPT ![r] = req'[r]]
        /\ \E new : \E x \in {"set", "grant"} : req'[r] = [req[r] EXCEPT !.new = new, !.pc = x]
    BY Zenon, <1>0, <1>4 DEF Consume, At
  <2> QED BY ZenonT(60), <1>0, <2>1 DEF Elsewhere, Moves, RequestOK, IsRequest
<1>5. CASE handleChangeMe(r)
  <2>1. /\ req[r].pc = "handle" /\ req' = [req EXCEPT ![r] = req'[r]]
        /\ req'[r] = Idle \/ \E new : req'[r] = [req[r] EXCEPT !.pc = "set", !.new = new]
    BY Zenon, <1>0, <1>5 DEF handleChangeMe, At
  <2> QED BY ZenonT(60), <1>0, <1>1, <2>1 DEF Elsewhere, Moves, RequestOK, IsRequest
<1>6. CASE handleChangeUser(r)
  <2>0. PICK u \in Users, new \in {"second", None} :
           At(r, "handle") /\ req' = [req EXCEPT ![r].pc = "set", ![r].user = u, ![r].new = new]
    BY Zenon, <1>6 DEF handleChangeUser
  <2>1. /\ req[r].pc = "handle" /\ req' = [req EXCEPT ![r] = req'[r]]
        /\ req'[r] = [req[r] EXCEPT !.pc = "set", !.user = u, !.new = new]
    BY Zenon, <1>0, <2>0 DEF At
  <2> QED BY ZenonT(60), <1>0, <2>1 DEF Elsewhere, Moves, RequestOK, IsRequest
<1>7. CASE Enrols(r) \/ handleDeleteTotP(r)
  <2>1. /\ req[r].pc = "handle" /\ req' = [req EXCEPT ![r] = req'[r]]
        /\ req'[r] = Idle \/ \E x : req'[r] = [req[r] EXCEPT !.pc = "secret", !.totp = x]
    BY Zenon, <1>0, <1>7 DEF Enrols, handleDeleteTotP, At
  <2> QED BY ZenonT(60), <1>0, <1>1, <2>1 DEF Elsewhere, Moves, RequestOK, IsRequest
<1>8. CASE StatementFails(r)
  <2>1. /\ req[r].pc # "idle" /\ req' = [req EXCEPT ![r] = req'[r]]
        /\ \/ req'[r] = Idle \/ req'[r] = [req[r] EXCEPT !.pc = "grant"]
           \/ At(r, "save") /\ req'[r] = [req[r] EXCEPT !.pc = AfterSave(r)]
    BY Zenon, <1>0, <1>8 DEF StatementFails, At
  <2>2. At(r, "save") => AfterSave(r) \in {"touch", "handle", "code"}
    BY Zenon, <1>0 DEF At, AfterSave, RequestOK
  <2> QED BY ZenonT(60), <1>0, <1>1, <2>1, <2>2 DEF Elsewhere, Moves, RequestOK, IsRequest
<1> QED BY Zenon, <1>2, <1>3, <1>4, <1>5, <1>6, <1>7, <1>8

\* The three stretches after which a row is inserted or a code compared.
LEMMA NotedMoves ==
    ASSUME HandlersOK, NEW r \in Reqs, ReadLogin(r) \/ handlePostToken(r) \/ handlePutToken(r)
    PROVE  /\ Moves(r)
           /\ ReadLogin(r) => req'[r].pc # "upsert"
           /\ ~ReadLogin(r) => req'[r].pc # "compare"
<1>0. RequestOK(req[r]) /\ req = [q \in Reqs |-> req[q]]
  BY Zenon DEF HandlersOK
<1>1. RequestOK(Idle) /\ Idle.pc = "idle"
  BY DEF RequestOK, IsRequest, Idle, NewRequest
<1>2. UNCHANGED deployment
  BY Zenon DEF ReadLogin, handlePostToken, handlePutToken, dataVars
<1>3. CASE ReadLogin(r)
  <2>1. PICK x, p : /\ x \in {"deny", "compare"} /\ req[r].pc = "code"
                    /\ req' = [req EXCEPT ![r].pend = p, ![r].pc = x]
    BY Zenon, <1>3 DEF ReadLogin, At
  <2>2. req' = [req EXCEPT ![r] = req'[r]] /\ req'[r] = [req[r] EXCEPT !.pend = p, !.pc = x]
    BY Zenon, <1>0, <2>1
  <2> QED BY Zenon, <1>0, <1>2, <1>3, <2>1, <2>2 DEF Moves, RequestOK, IsRequest
<1>4. CASE handlePostToken(r) \/ handlePutToken(r)
  <2>1. /\ req[r].pc = "handle" /\ req' = [req EXCEPT ![r] = req'[r]]
        /\ req'[r] = Idle \/ \E t : \E row : req'[r] = [req[r] EXCEPT !.pc = "upsert", !.sid = t, !.row = row]
    <3>1. /\ req[r].pc = "handle"
          /\ \E t : \E row : \E taken \in BOOLEAN :
                req' = [req EXCEPT ![r] = IF taken THEN Idle ELSE [@ EXCEPT !.pc = "upsert", !.sid = t, !.row = row]]
      <4>1. CASE handlePostToken(r)
        <5>1. PICK name \in {"a", "b"}, scope \in {"read", "read+write", "clients-auth"}, until \in {now, MaxTime} :
                 /\ At(r, "handle")
                 /\ req' = [req EXCEPT ![r] = IF NameTaken(req[r].user, name) THEN Idle
                                              ELSE [@ EXCEPT !.pc = "upsert", !.sid = ghost.tokens + 1,
                                                             !.row = [user |-> req[r].user, name |-> name, scope |-> scope, hash |-> ghost.tokens + 1, until |-> until]]]
          BY Zenon, <4>1 DEF handlePostToken
        <5>2. NameTaken(req[r].user, name) \in BOOLEAN
          BY Zenon DEF NameTaken
        <5> QED BY Zenon, <5>1, <5>2 DEF At
      <4>2. CASE handlePutToken(r)
        <5>1. PICK t \in DOMAIN tokens, name \in {"a", "b"}, until \in {NoExpiry, now} :
                 /\ At(r, "handle")
                 /\ req' = [req EXCEPT ![r] = IF NameTaken(req[r].user, name) THEN Idle
                                              ELSE [@ EXCEPT !.pc = "upsert", !.sid = t, !.row = PutRow(req[r].user, t, name, until)]]
          BY Zenon, <4>2 DEF handlePutToken
        <5>2. NameTaken(req[r].user, name) \in BOOLEAN
          BY Zenon DEF NameTaken
        <5> QED BY Zenon, <5>1, <5>2 DEF At
      <4> QED BY Zenon, <1>4, <4>1, <4>2
    <3>2. PICK t, row, taken : /\ taken \in BOOLEAN
                               /\ req' = [req EXCEPT ![r] = IF taken THEN Idle ELSE [@ EXCEPT !.pc = "upsert", !.sid = t, !.row = row]]
      BY Zenon, <3>1
    <3>3. /\ req' = [req EXCEPT ![r] = req'[r]]
          /\ req'[r] = IF taken THEN Idle ELSE [req[r] EXCEPT !.pc = "upsert", !.sid = t, !.row = row]
      BY Zenon, <1>0, <3>2
    <3>4. CASE taken
      BY Zenon, <3>1, <3>3, <3>4
    <3>5. CASE ~taken
      BY Zenon, <3>1, <3>3, <3>5
    <3> QED BY Zenon, <3>4, <3>5
  <2>2. CASE req'[r] = Idle
    BY Zenon, <1>1, <1>2, <2>1, <2>2 DEF Moves
  <2>3. CASE \E t : \E row : req'[r] = [req[r] EXCEPT !.pc = "upsert", !.sid = t, !.row = row]
    <3>1. RequestOK(req'[r]) /\ req'[r].pc = "upsert"
      BY ZenonT(60), <1>0, <2>1, <2>3 DEF RequestOK, IsRequest
    <3>2. ~ReadLogin(r)
      BY Zenon, <2>1 DEF ReadLogin, At
    <3> QED BY Zenon, <1>2, <2>1, <3>1, <3>2 DEF Moves
  <2> QED BY Zenon, <2>1, <2>2, <2>3
<1> QED BY Zenon, <1>3, <1>4

-----------------------------------------------------------------------------
(* What a step leaves as it was. *)

TokensSame == /\ UNCHANGED tokens /\ ghost'.tokens = ghost.tokens
              /\ ghost'.revoked = ghost.revoked /\ ghost'.revived = ghost.revived
LoginsSame == UNCHANGED pending /\ ghost'.logins = ghost.logins /\ ghost'.tried = ghost.tried
StepsSame == UNCHANGED lastTotPStep /\ ghost'.steps = ghost.steps
TicketsSame == /\ UNCHANGED tickets /\ ghost'.issued = ghost.issued
               /\ ghost'.redeemed = ghost.redeemed /\ ghost'.twice = ghost.twice
AllSame == TokensSame /\ LoginsSame /\ StepsSame /\ TicketsSame /\ IsGhost(ghost')

Quiet(r) ==
    \/ LoginRefused(r) \/ LoginAccepted(r) \/ Change(r) \/ DeleteAllByUser(r) \/ deleteUserSessionsFromStorage(r)
    \/ HasExpired(r) \/ NoSecondFactor(r) \/ SendToken(r) \/ recordAuthSuccess(r) \/ Minted(r)
    \/ Unauthorized(r) \/ checkBearerToken(r) \/ updateTokenAccess(r) \/ Save(r) \/ Saved(r)
    \/ handleDeleteLogout(r) \/ LogoutRefused(r) \/ Forget(r) \/ DeleteByID(r) \/ deleteUserSessionFromStorage(r)
    \/ handlePostVerify2FAToken(r) \/ ReadLogin(r) \/ Deny(r) \/ handleChangeMe(r) \/ handleChangeUser(r) \/ handleDeleteUser(r)
    \/ handleDeleteTotP(r) \/ StoreTotPCodeInUser(r) \/ handlePutToken(r) \/ Reads(r)
Counting(r) ==
    \/ handlePostLogin(r) \/ BearerRequest(r) \/ BasicRequest(r) \/ CreateAuthToken(r) \/ Enrols(r)
    \/ MessageFails(r) \/ StatementFails(r)

\* Most statements leave API tokens, pending logins, accepted TOTP steps and
\* web-socket tickets alone.
LEMMA QuietSame ==
    ASSUME HandlersOK, NEW r \in Reqs, Quiet(r) \/ Counting(r)
    PROVE  AllSame
<1>0. IsGhost(ghost)
  BY Zenon DEF HandlersOK
<1>1. CASE Quiet(r)
  <2>1. UNCHANGED <<pending, lastTotPStep, tokens, tickets, ghost>>
    BY Zenon, <1>1 DEF Quiet, LoginRefused, LoginAccepted, Change, DeleteAllByUser, deleteUserSessionsFromStorage,
       HasExpired, NoSecondFactor, SendToken, recordAuthSuccess, Minted, Unauthorized, checkBearerToken, updateTokenAccess,
       Save, Saved, handleDeleteLogout, LogoutRefused, Forget, DeleteByID, deleteUserSessionFromStorage,
       handlePostVerify2FAToken, ReadLogin, Deny, handleChangeMe, handleChangeUser, handleDeleteUser, handleDeleteTotP,
       StoreTotPCodeInUser, handlePutToken, Reads, dataVars
  <2> QED BY Zenon, <1>0, <2>1 DEF AllSame, TokensSame, LoginsSame, StepsSame, TicketsSame
<1>2. CASE Counting(r)
  <2>1. /\ UNCHANGED <<pending, lastTotPStep, tokens, tickets>>
        /\ \/ \E x : ghost' = [ghost EXCEPT !.faults = x]
           \/ \E x : ghost' = [ghost EXCEPT !.sent = x]
           \/ \E x : ghost' = [ghost EXCEPT !.sessions = x]
           \/ \E x : ghost' = [ghost EXCEPT !.secrets = x]
    BY ZenonT(60), <1>2 DEF Counting, handlePostLogin, BearerRequest, BasicRequest, CreateAuthToken, Enrols, MessageFails,
       StatementFails, Arrives, Made, Fault, dataVars
  <2> QED BY Zenon, <1>0, <2>1 DEF AllSame, TokensSame, LoginsSame, StepsSame, TicketsSame, IsGhost
<1> QED BY Zenon, <1>1, <1>2

\* The statements that touch one of the four leave the other three alone.
LEMMA OtherSame ==
    ASSUME HandlersOK, NEW r \in Reqs,
           \/ Sent(r) \/ SetTotPLoginSession(r) \/ SetPendingPasswordChange(r) \/ WrongCode(r) \/ RightCode(r) \/ Consume(r)
           \/ handlePostToken(r) \/ SaveToken(r) \/ handleDeleteToken(r) \/ handleBasicAuth(r) \/ handleGetWSTicket(r)
    PROVE  /\ IsGhost(ghost')
           /\ ~(handlePostToken(r) \/ SaveToken(r) \/ handleDeleteToken(r) \/ handleBasicAuth(r)) => TokensSame
           /\ ~(Sent(r) \/ SetTotPLoginSession(r) \/ SetPendingPasswordChange(r) \/ WrongCode(r) \/ Consume(r)) => LoginsSame
           /\ ~RightCode(r) => StepsSame
           /\ ~handleGetWSTicket(r) => TicketsSame
<1>0. IsGhost(ghost)
  BY Zenon DEF HandlersOK
<1>1. CASE Sent(r) \/ SetTotPLoginSession(r)
  <2>1. UNCHANGED <<lastTotPStep, tokens, tickets>> /\ \E x : ghost' = [ghost EXCEPT !.logins = x]
    BY Zenon, <1>1 DEF Sent, SetTotPLoginSession, Made
  <2> QED BY Zenon, <1>0, <1>1, <2>1 DEF TokensSame, StepsSame, TicketsSame, IsGhost
<1>2. CASE SetPendingPasswordChange(r) \/ Consume(r)
  <2>1. UNCHANGED <<lastTotPStep, tokens, tickets, ghost>>
    BY Zenon, <1>2 DEF SetPendingPasswordChange, Consume
  <2> QED BY Zenon, <1>0, <1>2, <2>1 DEF TokensSame, StepsSame, TicketsSame
<1>3. CASE WrongCode(r)
  <2>1. UNCHANGED <<lastTotPStep, tokens, tickets>> /\ \E x : ghost' = [ghost EXCEPT !.tried = x]
    BY Zenon, <1>3 DEF WrongCode
  <2> QED BY Zenon, <1>0, <1>3, <2>1 DEF TokensSame, StepsSame, TicketsSame, IsGhost
<1>4. CASE RightCode(r)
  <2>1. UNCHANGED <<pending, tokens, tickets>> /\ (ghost' = ghost \/ \E x : ghost' = [ghost EXCEPT !.steps = x])
    BY Zenon, <1>4 DEF RightCode
  <2> QED BY Zenon, <1>0, <1>4, <2>1 DEF TokensSame, LoginsSame, TicketsSame, IsGhost
<1>5. CASE handlePostToken(r)
  <2>1. UNCHANGED <<pending, lastTotPStep, tickets>> /\ \E x : ghost' = [ghost EXCEPT !.tokens = x]
    BY Zenon, <1>5 DEF handlePostToken, Made, dataVars
  <2> QED BY Zenon, <1>0, <1>5, <2>1 DEF LoginsSame, StepsSame, TicketsSame, IsGhost
<1>6. CASE SaveToken(r) \/ handleDeleteToken(r)
  <2>1. UNCHANGED <<pending, lastTotPStep, tickets>> /\ (ghost' = ghost \/ \E x : ghost' = [ghost EXCEPT !.revoked = x])
    BY Zenon, <1>6 DEF SaveToken, handleDeleteToken
  <2> QED BY Zenon, <1>0, <1>6, <2>1 DEF LoginsSame, StepsSame, TicketsSame, IsGhost
<1>7. CASE handleBasicAuth(r)
  <2>1. UNCHANGED <<pending, lastTotPStep, tickets>> /\ (ghost' = ghost \/ \E x : ghost' = [ghost EXCEPT !.revived = x])
    BY Zenon, <1>7 DEF handleBasicAuth
  <2> QED BY Zenon, <1>0, <1>7, <2>1 DEF LoginsSame, StepsSame, TicketsSame, IsGhost
<1>8. CASE handleGetWSTicket(r)
  <2>1. UNCHANGED <<pending, lastTotPStep, tokens>> /\ \E x : ghost' = [ghost EXCEPT !.issued = x]
    BY Zenon, <1>8 DEF handleGetWSTicket, Made
  <2> QED BY Zenon, <1>0, <1>8, <2>1 DEF TokensSame, LoginsSame, StepsSame, IsGhost
<1> QED BY SMTT(60), <1>1, <1>2, <1>3, <1>4, <1>5, <1>6, <1>7, <1>8

\* The handlers stay in order when one of them moves.
LEMMA HandlersKept ==
    ASSUME HandlersOK, NEW r \in Reqs, Moves(r), IsGhost(ghost'), UNCHANGED now,
           UNCHANGED jwts \/ Minted(r)
    PROVE  HandlersOK'
<1>1. req' = [q \in Reqs |-> req'[q]] /\ \A q \in Reqs : q # r => req'[q] = req[q]
  BY Zenon DEF HandlersOK, Moves
<1>2. \A q \in Reqs : RequestOK(req'[q])
  BY Zenon, <1>1 DEF HandlersOK, Moves
<1>3. \A q \in Reqs : RequestOK(req[q])'
  BY Zenon, <1>2 DEF RequestOK, Moves, Users, Addresses
<1>4. \A j \in jwts' : j.user \in Users
  <2>1. CASE Minted(r)
    <3>1. req[r].user \in Users
      BY Zenon, <2>1 DEF Minted, At, HandlersOK, RequestOK
    <3>2. \A j \in jwts' : j \in jwts \/ j.user = req[r].user
      BY <2>1 DEF Minted
    <3> QED BY Zenon, <3>1, <3>2 DEF HandlersOK
  <2> QED BY Zenon, <2>1 DEF HandlersOK
<1>5. now \in Int /\ UNCHANGED Users
  BY Zenon DEF HandlersOK, Moves, Users
<1> QED BY Zenon, <1>1, <1>3, <1>4, <1>5 DEF HandlersOK

\* The rows of the handlers that do not move are the same.
LEMMA OthersStay ==
    ASSUME HandlersOK, NEW r \in Reqs, Moves(r)
    PROVE  /\ \A q \in Reqs : q # r => req'[q] = req[q]
           /\ \A x : \A q \in Reqs : q # r => (At(q, x)' <=> At(q, x))
  BY Zenon DEF HandlersOK, Moves, At

\* A statement that neither changes the table api_token nor asks for a row keeps
\* it in order.
LEMMA TokensKept ==
    ASSUME HandlersOK, TokensOK, NEW r \in Reqs, Moves(r), req'[r].pc # "upsert", TokensSame
    PROVE  TokensOK'
<1>1. /\ \A q \in Reqs : At(q, "upsert")' => At(q, "upsert") /\ req'[q] = req[q]
      /\ \A q \in Reqs : Inserts(q)' => Inserts(q)
  BY ZenonT(60), OthersStay DEF At, Inserts
<1>2. \A q \in Reqs : At(q, "upsert")' => IsTokenRow(req[q].row)' /\ req'[q].sid \in 1..ghost'.tokens
  <2> SUFFICES ASSUME NEW q \in Reqs, At(q, "upsert")'
               PROVE  IsTokenRow(req[q].row)' /\ req'[q].sid \in 1..ghost'.tokens
    BY Zenon
  <2>1. At(q, "upsert") /\ req'[q] = req[q]
    BY Zenon, <1>1
  <2> QED BY Zenon, <2>1 DEF TokensOK, TokensSame, IsTokenRow
<1>3. \A q \in Reqs : Inserts(q)' =>
         /\ req'[q].sid \notin DOMAIN tokens' \cup ghost'.revoked
         /\ \A o \in Reqs \ {q} : At(o, "upsert")' => req'[o].sid # req'[q].sid
  <2> SUFFICES ASSUME NEW q \in Reqs, Inserts(q)'
               PROVE  /\ req'[q].sid \notin DOMAIN tokens' \cup ghost'.revoked
                      /\ \A o \in Reqs \ {q} : At(o, "upsert")' => req'[o].sid # req'[q].sid
    BY Zenon
  <2>1. Inserts(q) /\ req'[q] = req[q]
    BY Zenon, <1>1 DEF Inserts
  <2>2. /\ req[q].sid \notin DOMAIN tokens \cup ghost.revoked
        /\ \A o \in Reqs \ {q} : At(o, "upsert") => req[o].sid # req[q].sid
    BY Zenon, <2>1 DEF TokensOK
  <2> QED BY Zenon, <1>1, <2>1, <2>2 DEF TokensSame
<1>4. /\ tokens' = [t \in DOMAIN tokens' |-> tokens'[t]] /\ ghost'.tokens \in Nat
      /\ \A t \in DOMAIN tokens' : t \in 1..ghost'.tokens /\ IsTokenRow(tokens[t])'
      /\ \A t \in ghost'.revoked : t \in 1..ghost'.tokens /\ (t \in DOMAIN tokens' => tokens'[t].hash = 0)
      /\ ghost'.revived = FALSE
  BY Zenon DEF TokensOK, TokensSame, IsTokenRow
<1> QED BY Zenon, <1>2, <1>3, <1>4 DEF TokensOK

\* Fewer handlers that compare leave the sum below its bound.
LEMMA Below ==
    ASSUME LoginsOK, NEW id \in 1..ghost.logins, NEW S, S \subseteq Comparing(id)
    PROVE  Count(ghost.tried, id) + Cardinality(S) < maxTwoFAFailures + Cardinality(Reqs)
<1>1. /\ IsFiniteSet(Comparing(id)) /\ Cardinality(Comparing(id)) \in Nat /\ Cardinality(Reqs) \in Nat
      /\ Cardinality(S) \in Nat /\ Cardinality(S) <= Cardinality(Comparing(id))
  <2>1. Comparing(id) \subseteq Reqs
    BY Zenon DEF Comparing
  <2>2. IsFiniteSet(Comparing(id)) /\ IsFiniteSet(Reqs)
    BY Zenon, <2>1, FS_Subset, LimitsAssumption
  <2>3. IsFiniteSet(S)
    BY Zenon, <2>2, FS_Subset
  <2> QED BY Zenon, <2>2, <2>3, FS_Subset, FS_CardinalityType
<1>2. /\ Count(ghost.tried, id) \in Nat
      /\ Count(ghost.tried, id) + Cardinality(Comparing(id)) < maxTwoFAFailures + Cardinality(Reqs)
  BY Zenon DEF LoginsOK
<1>3. maxTwoFAFailures \in Nat
  BY Zenon, LimitsAssumption
<1> QED BY <1>1, <1>2, <1>3

\* Logins stay, or are dropped.
LEMMA LoginsShrink ==
    ASSUME LoginsOK, UNCHANGED deployment,
           \A q \in Reqs : At(q, "compare")' => At(q, "compare") /\ req'[q] = req[q],
           ghost'.logins = ghost.logins, ghost'.tried = ghost.tried, pending' = [u \in Users |-> pending'[u]],
           \A u \in Users : /\ IsLogin(pending'[u])
                            /\ \/ pending'[u].id = pending[u].id /\ pending'[u].failures = pending[u].failures
                               \/ pending'[u].id = 0 /\ pending'[u].failures = 0
    PROVE  LoginsOK'
<1>0. UNCHANGED Users /\ 0 \in Nat /\ 0 < maxTwoFAFailures /\ 0 \in 0..ghost.logins /\ \A x \in 1..ghost.logins : x # 0
  BY LimitsAssumption DEF Users, LoginsOK
<1>1. \A q \in Reqs : At(q, "compare")' => At(q, "compare") /\ req'[q] = req[q]
  BY Zenon
<1>2. \A id \in 1..ghost.logins : Comparing(id)' \subseteq Comparing(id)
  BY Zenon, <1>1 DEF Comparing
<1>3. \A id \in 1..ghost'.logins :
          /\ Count(ghost.tried, id)' \in Nat
          /\ Count(ghost.tried, id)' + Cardinality(Comparing(id))' < maxTwoFAFailures + Cardinality(Reqs)
  <2> SUFFICES ASSUME NEW id \in 1..ghost.logins
               PROVE  /\ Count(ghost.tried, id) \in Nat
                      /\ Count(ghost.tried, id) + Cardinality(Comparing(id)') < maxTwoFAFailures + Cardinality(Reqs)
    BY Zenon DEF Count
  <2>1. Count(ghost.tried, id) + Cardinality(Comparing(id)') < maxTwoFAFailures + Cardinality(Reqs)
    BY Zenon, <1>2, Below
  <2> QED BY Zenon, <2>1 DEF LoginsOK
<1>4. /\ ghost'.logins \in Nat /\ pending' = [u \in Users' |-> pending'[u]]
      /\ \A id \in DOMAIN ghost'.tried : id \in 1..ghost'.logins
  BY Zenon, <1>0 DEF LoginsOK
<1>5. \A u \in Users' : /\ IsLogin(pending[u])' /\ pending'[u].id \in 0..ghost'.logins
                        /\ pending'[u].failures \in Nat /\ pending'[u].failures < maxTwoFAFailures
  BY Zenon, <1>0 DEF LoginsOK, IsLogin
<1>6. \A u \in Users' : pending'[u].id # 0 =>
            /\ Count(ghost.tried, pending[u].id)' = pending'[u].failures
            /\ \A v \in Users' : pending'[v].id = pending'[u].id => v = u
  <2> SUFFICES ASSUME NEW u \in Users, pending'[u].id # 0
               PROVE  /\ Count(ghost.tried, pending'[u].id) = pending'[u].failures
                      /\ \A v \in Users : pending'[v].id = pending'[u].id => v = u
    BY Zenon, <1>0 DEF Count
  <2>1. pending'[u].id = pending[u].id /\ pending'[u].failures = pending[u].failures
    BY Zenon
  <2>2. /\ Count(ghost.tried, pending[u].id) = pending[u].failures
        /\ \A v \in Users : pending[v].id = pending[u].id => v = u
    BY Zenon, <2>1 DEF LoginsOK
  <2> QED BY Zenon, <2>1, <2>2
<1>7. \A q \in Reqs : At(q, "compare")' =>
          /\ req'[q].pend.id \in 1..ghost'.logins
          /\ \A u \in Users' : pending'[u].id = req'[q].pend.id => u = req'[q].user
  <2> SUFFICES ASSUME NEW q \in Reqs, At(q, "compare")'
               PROVE  /\ req'[q].pend.id \in 1..ghost.logins
                      /\ \A u \in Users : pending'[u].id = req'[q].pend.id => u = req'[q].user
    BY Zenon, <1>0
  <2>1. At(q, "compare") /\ req'[q] = req[q]
    BY Zenon, <1>1
  <2>2. /\ req[q].pend.id \in 1..ghost.logins /\ req[q].pend.id # 0
        /\ \A u \in Users : pending[u].id = req[q].pend.id => u = req[q].user
    BY Zenon, <1>0, <2>1 DEF LoginsOK
  <2> QED BY Zenon, <2>1, <2>2
<1> QED BY Zenon, <1>3, <1>4, <1>5, <1>6, <1>7 DEF LoginsOK

\* The same when the cause is a handler's statement.
LEMMA LoginsEdited ==
    ASSUME HandlersOK, LoginsOK, NEW r \in Reqs, Moves(r), req'[r].pc # "compare",
           ghost'.logins = ghost.logins, ghost'.tried = ghost.tried, pending' = [u \in Users |-> pending'[u]],
           \A u \in Users : /\ IsLogin(pending'[u])
                            /\ \/ pending'[u].id = pending[u].id /\ pending'[u].failures = pending[u].failures
                               \/ pending'[u].id = 0 /\ pending'[u].failures = 0
    PROVE  LoginsOK'
<1>1. \A q \in Reqs : At(q, "compare")' => At(q, "compare") /\ req'[q] = req[q]
  BY Zenon, OthersStay DEF At
<1>2. UNCHANGED deployment
  BY Zenon DEF Moves
<1> QED BY Zenon, <1>1, <1>2, LoginsShrink

\* A statement that leaves the pending logins alone keeps them in order.
LEMMA LoginsKept ==
    ASSUME HandlersOK, LoginsOK, NEW r \in Reqs, Moves(r), req'[r].pc # "compare", LoginsSame
    PROVE  LoginsOK'
<1>1. /\ ghost'.logins = ghost.logins /\ ghost'.tried = ghost.tried /\ pending' = pending
      /\ pending = [u \in Users |-> pending[u]] /\ \A u \in Users : IsLogin(pending[u])
  BY Zenon DEF LoginsOK, LoginsSame
<1> QED BY Zenon, <1>1, LoginsEdited

\* A statement that accepts no TOTP code keeps the accepted steps in order.
LEMMA StepsKept ==
    ASSUME StepsOK, StepsSame, UNCHANGED deployment
    PROVE  StepsOK'
  BY Zenon DEF StepsOK, StepsSame, Users

\* A statement that neither issues nor redeems a ticket keeps them in order.
LEMMA TicketsKept ==
    ASSUME TicketsOK, TicketsSame, UNCHANGED <<deployment, now>>
    PROVE  TicketsOK'
  BY ZenonT(60) DEF TicketsOK, TicketsSame, Held, Users

-----------------------------------------------------------------------------
(* API tokens. *)

\* What a token step leaves to be shown about the handler that moves.
LEMMA TokensMoved ==
    ASSUME HandlersOK, TokensOK, NEW r \in Reqs, Moves(r), ghost'.tokens \in Nat, ghost'.tokens >= ghost.tokens,
           ghost'.revoked = ghost.revoked, ghost'.revived = ghost.revived, UNCHANGED tokens,
           req'[r].pc = "upsert" =>
              /\ IsTokenRow(req'[r].row) /\ req'[r].sid \in 1..ghost'.tokens
              /\ req'[r].row.hash = 0 \/ (req'[r].sid = ghost.tokens + 1),
           req'[r].pc = "upsert" =>
              req'[r].sid \in DOMAIN tokens \/ req'[r].sid = ghost.tokens + 1
    PROVE  TokensOK'
<1>0. ghost.tokens \in Nat /\ \A x \in 1..ghost.tokens : x \in 1..ghost'.tokens /\ x # ghost.tokens + 1
  BY DEF TokensOK
<1>1. \A q \in Reqs : q # r => req'[q] = req[q] /\ (At(q, "upsert")' <=> At(q, "upsert")) /\ (Inserts(q)' <=> Inserts(q))
  BY Zenon, OthersStay DEF At, Inserts
<1>2. /\ tokens' = [t \in DOMAIN tokens' |-> tokens'[t]] /\ ghost'.tokens \in Nat
      /\ \A t \in DOMAIN tokens' : t \in 1..ghost'.tokens /\ IsTokenRow(tokens[t])'
      /\ \A t \in ghost'.revoked : t \in 1..ghost'.tokens /\ (t \in DOMAIN tokens' => tokens'[t].hash = 0)
      /\ ghost'.revived = FALSE
  BY ZenonT(60), <1>0 DEF TokensOK, IsTokenRow
<1>3. \A q \in Reqs : At(q, "upsert")' => IsTokenRow(req[q].row)' /\ req'[q].sid \in 1..ghost'.tokens
  <2> SUFFICES ASSUME NEW q \in Reqs, At(q, "upsert")'
               PROVE  IsTokenRow(req[q].row)' /\ req'[q].sid \in 1..ghost'.tokens
    BY Zenon
  <2>1. CASE q = r
    BY Zenon, <2>1 DEF At, IsTokenRow
  <2>2. CASE q # r
    BY Zenon, <1>0, <1>1, <2>2 DEF TokensOK, IsTokenRow
  <2> QED BY Zenon, <2>1, <2>2
<1>4. \A q \in Reqs : Inserts(q)' =>
         /\ req'[q].sid \notin DOMAIN tokens' \cup ghost'.revoked
         /\ \A o \in Reqs \ {q} : At(o, "upsert")' => req'[o].sid # req'[q].sid
  <2> SUFFICES ASSUME NEW q \in Reqs, Inserts(q)'
               PROVE  /\ req'[q].sid \notin DOMAIN tokens' \cup ghost'.revoked
                      /\ \A o \in Reqs \ {q} : At(o, "upsert")' => req'[o].sid # req'[q].sid
    BY Zenon
  <2>1. CASE q = r
    <3>1. req'[q].sid = ghost.tokens + 1
      BY Zenon, <2>1 DEF Inserts, At
    <3>2. ghost.tokens + 1 \notin DOMAIN tokens \cup ghost.revoked
      BY Zenon, <1>0 DEF TokensOK
    <3>3. \A o \in Reqs \ {q} : At(o, "upsert")' => req'[o].sid \in 1..ghost.tokens
      BY Zenon, <1>1, <2>1 DEF TokensOK
    <3> QED BY Zenon, <1>0, <3>1, <3>2, <3>3
  <2>2. CASE q # r
    <3>1. Inserts(q) /\ req'[q] = req[q]
      BY Zenon, <1>1, <2>2
    <3>2. /\ req[q].sid \notin DOMAIN tokens \cup ghost.revoked /\ req[q].sid \in 1..ghost.tokens
          /\ \A o \in Reqs \ {q} : At(o, "upsert") => req[o].sid # req[q].sid
      BY Zenon, <3>1 DEF TokensOK, Inserts
    <3>3. At(r, "upsert")' => req'[r].sid # req[q].sid
      BY Zenon, <1>0, <3>2 DEF At
    <3> QED BY Zenon, <1>1, <3>1, <3>2, <3>3
  <2> QED BY Zenon, <2>1, <2>2
<1> QED BY Zenon, <1>2, <1>3, <1>4 DEF TokensOK

\* POST and PUT of an API token build the row they will store: a new row has an
\* id nobody used before.
LEMMA TokensAsked ==
    ASSUME HandlersOK, TokensOK, NEW r \in Reqs, handlePostToken(r) \/ handlePutToken(r)
    PROVE  TokensOK'
<1>0. Moves(r)
  BY Zenon, NotedMoves
<1>1. req = [q \in Reqs |-> req[q]] /\ IsGhost(ghost) /\ IsRequest(req[r]) /\ ghost.tokens \in Nat /\ Idle.pc = "idle"
  BY Zenon DEF HandlersOK, RequestOK, TokensOK, Idle, NewRequest
<1>2. CASE handlePostToken(r)
  <2>1. PICK name \in {"a", "b"}, scope \in {"read", "read+write", "clients-auth"}, until \in {now, MaxTime} :
           req' = [req EXCEPT ![r] = IF NameTaken(req[r].user, name) THEN Idle
                                     ELSE [@ EXCEPT !.pc = "upsert", !.sid = ghost.tokens + 1,
                                                    !.row = [user |-> req[r].user, name |-> name, scope |-> scope, hash |-> ghost.tokens + 1, until |-> until]]]
    BY Zenon, <1>2 DEF handlePostToken
  <2>2. req'[r].pc = "upsert" =>
           /\ req'[r].sid = ghost.tokens + 1
           /\ req'[r].row = [user |-> req[r].user, name |-> name, scope |-> scope, hash |-> ghost.tokens + 1, until |-> until]
    BY Zenon, <1>1, <2>1 DEF IsRequest
  <2>3. UNCHANGED tokens /\ ghost' = [ghost EXCEPT !.tokens = ghost.tokens + 1]
    BY Zenon, <1>2 DEF handlePostToken, Made, dataVars
  <2>4. ghost'.tokens = ghost.tokens + 1 /\ ghost'.revoked = ghost.revoked /\ ghost'.revived = ghost.revived
    BY Zenon, <1>1, <2>3 DEF IsGhost
  <2>5. req'[r].pc = "upsert" => IsTokenRow(req'[r].row)
    BY <2>2 DEF IsTokenRow
  <2>6. ghost'.tokens \in Nat /\ ghost'.tokens >= ghost.tokens /\ ghost.tokens + 1 \in 1..ghost'.tokens
    BY <1>1, <2>4
  <2> QED BY ZenonT(60), <1>0, <2>2, <2>3, <2>4, <2>5, <2>6, TokensMoved
<1>3. CASE handlePutToken(r)
  <2>1. PICK t \in DOMAIN tokens, name \in {"a", "b"}, until \in {NoExpiry, now} :
           req' = [req EXCEPT ![r] = IF NameTaken(req[r].user, name) THEN Idle
                                     ELSE [@ EXCEPT !.pc = "upsert", !.sid = t, !.row = PutRow(req[r].user, t, name, until)]]
    BY Zenon, <1>3 DEF handlePutToken
  <2>2. req'[r].pc = "upsert" => req'[r].sid = t /\ req'[r].row = PutRow(req[r].user, t, name, until)
    BY Zenon, <1>1, <2>1 DEF IsRequest
  <2>3. UNCHANGED <<tokens, ghost>>
    BY Zenon, <1>3 DEF handlePutToken, dataVars
  <2>4. req'[r].pc = "upsert" => IsTokenRow(req'[r].row) /\ req'[r].row.hash = 0
    <3>1. IsTokenRow(PutRow(req[r].user, t, name, until)) /\ PutRow(req[r].user, t, name, until).hash = 0
      BY Zenon DEF IsTokenRow, PutRow
    <3> QED BY Zenon, <2>2, <3>1
  <2>5. t \in 1..ghost.tokens /\ ghost.tokens >= ghost.tokens
    BY <1>1, <2>1 DEF TokensOK
  <2> QED BY ZenonT(60), <1>0, <1>1, <2>1, <2>2, <2>3, <2>4, <2>5, TokensMoved
<1> QED BY Zenon, <1>2, <1>3

\* A row that is stored under the number of a deleted token has no hash: it
\* opens nothing.
LEMMA TokenWritten ==
    ASSUME HandlersOK, TokensOK, NEW r \in Reqs, SaveToken(r)
    PROVE  TokensOK'
<1>0. Moves(r) /\ req'[r].pc # "upsert"
  BY Zenon, SimpleMoves DEF Elsewhere
<1>1. /\ \A q \in Reqs : At(q, "upsert")' => q # r /\ At(q, "upsert") /\ req'[q] = req[q]
      /\ \A q \in Reqs : Inserts(q)' => q # r /\ Inserts(q)
  BY Zenon, <1>0, OthersStay DEF At, Inserts
<1>2. UNCHANGED ghost /\ At(r, "upsert") /\ IsTokenRow(req[r].row) /\ req[r].sid \in 1..ghost.tokens
  BY Zenon DEF SaveToken, TokensOK
<1>3. \/ tokens' = tokens
      \/ req[r].sid \in DOMAIN tokens /\ \E until : tokens' = [tokens EXCEPT ![req[r].sid].name = req[r].row.name, ![req[r].sid].until = until]
      \/ req[r].sid \notin DOMAIN tokens /\ tokens' = With(tokens, req[r].sid, req[r].row)
  BY Zenon DEF SaveToken
<1>4. /\ tokens' = [t \in DOMAIN tokens' |-> tokens'[t]]
      /\ DOMAIN tokens' \subseteq DOMAIN tokens \cup {req[r].sid}
      /\ \A t \in DOMAIN tokens' : IsTokenRow(tokens'[t])
      /\ \A t \in DOMAIN tokens' : tokens'[t].hash = IF t \in DOMAIN tokens THEN tokens[t].hash ELSE req[r].row.hash
  <2>1. tokens = [t \in DOMAIN tokens |-> tokens[t]] /\ \A t \in DOMAIN tokens : IsTokenRow(tokens[t])
    BY Zenon DEF TokensOK
  <2>2. CASE tokens' = tokens
    BY Zenon, <2>1, <2>2
  <2>3. CASE req[r].sid \in DOMAIN tokens /\ \E until : tokens' = [tokens EXCEPT ![req[r].sid].name = req[r].row.name, ![req[r].sid].until = until]
    <3>0. PICK until : tokens' = [tokens EXCEPT ![req[r].sid].name = req[r].row.name, ![req[r].sid].until = until]
      BY Zenon, <2>3
    <3>1. /\ DOMAIN tokens' = DOMAIN tokens /\ tokens' = [t \in DOMAIN tokens' |-> tokens'[t]]
          /\ \A t \in DOMAIN tokens : t # req[r].sid => tokens'[t] = tokens[t]
          /\ tokens'[req[r].sid] = [tokens[req[r].sid] EXCEPT !.name = req[r].row.name, !.until = until]
      BY Zenon, <2>1, <2>3, <3>0
    <3>2. IsTokenRow(tokens[req[r].sid])
      BY Zenon, <2>1, <2>3
    <3>3. IsTokenRow(tokens'[req[r].sid]) /\ tokens'[req[r].sid].hash = tokens[req[r].sid].hash
      BY Zenon, <3>1, <3>2 DEF IsTokenRow
    <3> QED BY Zenon, <2>1, <3>1, <3>3
  <2>4. CASE req[r].sid \notin DOMAIN tokens /\ tokens' = With(tokens, req[r].sid, req[r].row)
    <3>1. /\ DOMAIN tokens' = DOMAIN tokens \cup {req[r].sid} /\ tokens' = [t \in DOMAIN tokens' |-> tokens'[t]]
          /\ \A t \in DOMAIN tokens : tokens'[t] = tokens[t]
          /\ tokens'[req[r].sid] = req[r].row
      BY Zenon, <2>1, <2>4 DEF With
    <3> QED BY Zenon, <1>2, <2>1, <2>4, <3>1
  <2> QED BY Zenon, <1>3, <2>2, <2>3, <2>4
<1>5. \A t \in ghost.revoked : t \in DOMAIN tokens' => tokens'[t].hash = 0
  <2> SUFFICES ASSUME NEW t \in ghost.revoked, t \in DOMAIN tokens'
               PROVE  tokens'[t].hash = 0
    BY Zenon
  <2>1. CASE t \in DOMAIN tokens
    BY Zenon, <1>4, <2>1 DEF TokensOK
  <2>2. CASE t \notin DOMAIN tokens
    <3>1. t = req[r].sid /\ tokens'[t].hash = req[r].row.hash
      BY Zenon, <1>4, <2>2
    <3>2. ~Inserts(r)
      BY Zenon, <3>1 DEF TokensOK
    <3> QED BY Zenon, <1>2, <3>1, <3>2 DEF Inserts
  <2> QED BY Zenon, <2>1, <2>2
<1>6. \A q \in Reqs : At(q, "upsert")' => IsTokenRow(req[q].row)' /\ req'[q].sid \in 1..ghost'.tokens
  BY Zenon, <1>1, <1>2 DEF TokensOK, IsTokenRow
<1>7. \A q \in Reqs : Inserts(q)' =>
         /\ req'[q].sid \notin DOMAIN tokens' \cup ghost'.revoked
         /\ \A o \in Reqs \ {q} : At(o, "upsert")' => req'[o].sid # req'[q].sid
  <2> SUFFICES ASSUME NEW q \in Reqs, Inserts(q)'
               PROVE  /\ req'[q].sid \notin DOMAIN tokens' \cup ghost'.revoked
                      /\ \A o \in Reqs \ {q} : At(o, "upsert")' => req'[o].sid # req'[q].sid
    BY Zenon
  <2>1. q # r /\ Inserts(q) /\ req'[q] = req[q]
    BY Zenon, <1>1 DEF Inserts
  <2>2. /\ req[q].sid \notin DOMAIN tokens \cup ghost.revoked /\ req[r].sid # req[q].sid
        /\ \A o \in Reqs \ {q} : At(o, "upsert") => req[o].sid # req[q].sid
    BY Zenon, <1>2, <2>1 DEF TokensOK
  <2> QED BY Zenon, <1>1, <1>2, <1>4, <2>1, <2>2
<1>8. \A t \in DOMAIN tokens' : t \in 1..ghost'.tokens /\ IsTokenRow(tokens[t])'
  BY Zenon, <1>2, <1>4 DEF TokensOK, IsTokenRow
<1> QED BY Zenon, <1>2, <1>4, <1>5, <1>6, <1>7, <1>8 DEF TokensOK

\* DELETE of an API token takes its row away.
LEMMA TokenDeleted ==
    ASSUME HandlersOK, TokensOK, NEW r \in Reqs, handleDeleteToken(r)
    PROVE  TokensOK'
<1>0. Moves(r) /\ req'[r].pc # "upsert"
  BY Zenon, SimpleMoves DEF Elsewhere
<1>1. /\ \A q \in Reqs : At(q, "upsert")' => At(q, "upsert") /\ req'[q] = req[q]
      /\ \A q \in Reqs : Inserts(q)' => Inserts(q)
  BY ZenonT(60), <1>0, OthersStay DEF At, Inserts
<1>2. PICK t \in DOMAIN tokens : tokens' = Minus(tokens, {t}) /\ ghost' = [ghost EXCEPT !.revoked = ghost.revoked \cup {t}]
  BY Zenon DEF handleDeleteToken
<1>3. ghost'.tokens = ghost.tokens /\ ghost'.revoked = ghost.revoked \cup {t} /\ ghost'.revived = ghost.revived
  BY Zenon, <1>2 DEF HandlersOK, IsGhost
<1>4. /\ DOMAIN tokens' = DOMAIN tokens \ {t} /\ tokens' = [x \in DOMAIN tokens' |-> tokens'[x]]
      /\ \A x \in DOMAIN tokens' : tokens'[x] = tokens[x]
  BY Zenon, <1>2 DEF Minus, Restrict
<1>5. \A q \in Reqs : At(q, "upsert")' => IsTokenRow(req[q].row)' /\ req'[q].sid \in 1..ghost'.tokens
  BY Zenon, <1>1, <1>3 DEF TokensOK, IsTokenRow
<1>6. \A q \in Reqs : Inserts(q)' =>
         /\ req'[q].sid \notin DOMAIN tokens' \cup ghost'.revoked
         /\ \A o \in Reqs \ {q} : At(o, "upsert")' => req'[o].sid # req'[q].sid
  <2> SUFFICES ASSUME NEW q \in Reqs, Inserts(q)'
               PROVE  /\ req'[q].sid \notin DOMAIN tokens' \cup ghost'.revoked
                      /\ \A o \in Reqs \ {q} : At(o, "upsert")' => req'[o].sid # req'[q].sid
    BY Zenon
  <2>1. Inserts(q) /\ req'[q] = req[q]
    BY Zenon, <1>1 DEF Inserts
  <2>2. /\ req[q].sid \notin DOMAIN tokens \cup ghost.revoked
        /\ \A o \in Reqs \ {q} : At(o, "upsert") => req[o].sid # req[q].sid
    BY Zenon, <2>1 DEF TokensOK
  <2> QED BY ZenonT(60), <1>1, <1>2, <1>3, <1>4, <2>1, <2>2
<1>7. \A x \in DOMAIN tokens' : x \in 1..ghost'.tokens /\ IsTokenRow(tokens[x])'
  BY Zenon, <1>3, <1>4 DEF TokensOK, IsTokenRow
<1>8. \A x \in ghost'.revoked : x \in 1..ghost'.tokens /\ (x \in DOMAIN tokens' => tokens'[x].hash = 0)
  BY ZenonT(60), <1>2, <1>3, <1>4 DEF TokensOK
<1>9. ghost'.revived = FALSE /\ ghost'.tokens \in Nat
  BY Zenon, <1>3 DEF TokensOK
<1> QED BY Zenon, <1>4, <1>5, <1>6, <1>7, <1>8, <1>9 DEF TokensOK

\* Basic authentication with an API token reads the row.
LEMMA TokenUsed ==
    ASSUME HandlersOK, TokensOK, NEW r \in Reqs, handleBasicAuth(r)
    PROVE  TokensOK'
<1>0. Moves(r) /\ req'[r].pc # "upsert"
  BY Zenon, SimpleMoves DEF Elsewhere
<1>1. UNCHANGED tokens /\ (ghost' = ghost \/ ghost' = [ghost EXCEPT !.revived = ghost.revived \/ req[r].sid \in ghost.revoked])
  BY Zenon DEF handleBasicAuth
<1>2. ghost' # ghost => req[r].sid \notin ghost.revoked
  <2> SUFFICES ASSUME ghost' # ghost
               PROVE  req[r].sid \notin ghost.revoked
    BY Zenon
  <2>1. /\ At(r, "basic")
        /\ \/ req[r].pwd = accounts[req[r].user].pwd /\ accounts[req[r].user].pwd # None
           \/ req[r].sid \in DOMAIN tokens /\ tokens[req[r].sid].hash # 0
    BY Zenon DEF handleBasicAuth, verifyPassword
  <2>2. CASE req[r].pwd = accounts[req[r].user].pwd /\ accounts[req[r].user].pwd # None
    <3>1. req[r].sid = 0
      BY Zenon, <2>1, <2>2 DEF HandlersOK, RequestOK, At
    <3>2. ghost.tokens \in Nat /\ \A x \in ghost.revoked : x \in 1..ghost.tokens
      BY Zenon DEF TokensOK
    <3> QED BY <3>1, <3>2
  <2>3. CASE req[r].sid \in DOMAIN tokens /\ tokens[req[r].sid].hash # 0
    BY Zenon, <2>3 DEF TokensOK
  <2> QED BY Zenon, <2>1, <2>2, <2>3
<1>3. ghost.revived = FALSE
  BY Zenon DEF TokensOK
<1>4. TokensSame
  <2>1. CASE ghost' = ghost
    BY Zenon, <1>1, <2>1 DEF TokensSame
  <2>2. CASE ghost' # ghost
    <3>1. /\ ghost'.tokens = ghost.tokens /\ ghost'.revoked = ghost.revoked
          /\ ghost'.revived = (ghost.revived \/ req[r].sid \in ghost.revoked)
      BY Zenon, <1>1, <2>2 DEF HandlersOK, IsGhost
    <3> QED BY ZenonT(60), <1>1, <1>2, <1>3, <2>2, <3>1 DEF TokensSame
  <2> QED BY Zenon, <2>1, <2>2
<1> QED BY Zenon, <1>0, <1>4, TokensKept

-----------------------------------------------------------------------------
(* Pending logins. *)

\* A new pending login has a new number and no failures.
LEMMA LoginMade ==
    ASSUME HandlersOK, LoginsOK, NEW r \in Reqs, Sent(r) \/ SetTotPLoginSession(r)
    PROVE  LoginsOK'
<1> DEFINE n == ghost.logins + 1
           w == req[r].user
<1>0. Elsewhere(r) /\ IsGhost(ghost)
  BY Zenon, SimpleMoves DEF HandlersOK
<1>1. Moves(r) /\ req'[r].pc # "compare" /\ UNCHANGED Users
  BY Zenon, <1>0 DEF Elsewhere, Moves, Users
<1>2. \A q \in Reqs : At(q, "compare")' => At(q, "compare") /\ req'[q] = req[q]
  BY Zenon, <1>1, OthersStay DEF At
<1>3. /\ ghost' = [ghost EXCEPT !.logins = n]
      /\ pending' = [pending EXCEPT ![w] = [NoLogin EXCEPT !.id = n, !.until = now + TokenTTL]]
      /\ req[r].pc # "idle"
  BY Zenon DEF Sent, SetTotPLoginSession, Made, At
<1>4. w \in Users /\ ghost'.logins = n /\ ghost'.tried = ghost.tried
  BY Zenon, <1>0, <1>3 DEF HandlersOK, RequestOK, IsGhost
<1>5. /\ pending' = [u \in Users |-> pending'[u]] /\ \A u \in Users : u # w => pending'[u] = pending[u]
      /\ pending'[w] = [NoLogin EXCEPT !.id = n, !.until = now + TokenTTL]
  BY Zenon, <1>3, <1>4 DEF LoginsOK
<1>6. IsLogin(pending'[w]) /\ pending'[w].id = n /\ pending'[w].failures = 0
  BY Zenon, <1>5 DEF IsLogin, NoLogin
<1>7. /\ n \in Nat \ {0} /\ \A x \in 1..ghost.logins : x \in 1..n /\ x # n /\ x # 0
      /\ \A x \in 0..ghost.logins : x \in 0..n /\ x # n
      /\ \A x \in 1..n : x # n => x \in 1..ghost.logins
      /\ n \in 0..n /\ 0 \in Nat /\ 0 < maxTwoFAFailures
  BY LimitsAssumption DEF LoginsOK
<1>8. n \notin DOMAIN ghost.tried /\ Count(ghost.tried, n) = 0
  BY Zenon, <1>7 DEF LoginsOK, Count
<1> HIDE DEF n, w
<1>9. /\ ghost'.logins \in Nat /\ pending' = [u \in Users' |-> pending'[u]]
      /\ \A id \in DOMAIN ghost'.tried : id \in 1..ghost'.logins
  BY ZenonT(60), <1>1, <1>4, <1>5, <1>7 DEF LoginsOK
<1>10. \A u \in Users' : /\ IsLogin(pending[u])' /\ pending'[u].id \in 0..ghost'.logins
                         /\ pending'[u].failures \in Nat /\ pending'[u].failures < maxTwoFAFailures
  <2> SUFFICES ASSUME NEW u \in Users
               PROVE  /\ IsLogin(pending[u])' /\ pending'[u].id \in 0..n
                      /\ pending'[u].failures \in Nat /\ pending'[u].failures < maxTwoFAFailures
    BY Zenon, <1>1, <1>4
  <2>1. CASE u = w
    BY ZenonT(60), <1>6, <1>7, <2>1 DEF IsLogin
  <2>2. CASE u # w
    BY ZenonT(60), <1>5, <1>7, <2>2 DEF LoginsOK, IsLogin
  <2> QED BY Zenon, <2>1, <2>2
<1>11. \A u \in Users' : pending'[u].id # 0 =>
            /\ Count(ghost.tried, pending[u].id)' = pending'[u].failures
            /\ \A v \in Users' : pending'[v].id = pending'[u].id => v = u
  <2> SUFFICES ASSUME NEW u \in Users, pending'[u].id # 0
               PROVE  /\ Count(ghost.tried, pending'[u].id) = pending'[u].failures
                      /\ \A v \in Users : pending'[v].id = pending'[u].id => v = u
    BY Zenon, <1>1, <1>4 DEF Count
  <2>0. \A v \in Users : v # w => pending'[v].id # n
    BY Zenon, <1>5, <1>7 DEF LoginsOK
  <2>1. CASE u = w
    BY ZenonT(60), <1>6, <1>8, <2>0, <2>1
  <2>2. CASE u # w
    <3>1. pending'[u] = pending[u] /\ pending[u].id # 0 /\ pending[u].id # n
      BY ZenonT(60), <1>5, <2>0, <2>2
    <3>2. /\ Count(ghost.tried, pending[u].id) = pending[u].failures
          /\ \A v \in Users : pending[v].id = pending[u].id => v = u
      BY Zenon, <3>1 DEF LoginsOK
    <3> QED BY ZenonT(60), <1>5, <1>6, <3>1, <3>2
  <2> QED BY Zenon, <2>1, <2>2
<1>12. \A q \in Reqs : At(q, "compare")' =>
          /\ req'[q].pend.id \in 1..ghost'.logins
          /\ \A u \in Users' : pending'[u].id = req'[q].pend.id => u = req'[q].user
  <2> SUFFICES ASSUME NEW q \in Reqs, At(q, "compare")'
               PROVE  /\ req'[q].pend.id \in 1..n
                      /\ \A u \in Users : pending'[u].id = req'[q].pend.id => u = req'[q].user
    BY Zenon, <1>1, <1>4
  <2>1. At(q, "compare") /\ req'[q] = req[q]
    BY Zenon, <1>2
  <2>2. /\ req[q].pend.id \in 1..ghost.logins
        /\ \A u \in Users : pending[u].id = req[q].pend.id => u = req[q].user
    BY Zenon, <2>1 DEF LoginsOK
  <2>3. req[q].pend.id \in 1..n /\ req[q].pend.id # n
    BY Zenon, <1>7, <2>2
  <2> QED BY ZenonT(60), <1>5, <1>6, <2>1, <2>2, <2>3
<1>13. \A id \in 1..ghost'.logins :
          /\ Count(ghost.tried, id)' \in Nat
          /\ Count(ghost.tried, id)' + Cardinality(Comparing(id))' < maxTwoFAFailures + Cardinality(Reqs)
  <2> SUFFICES ASSUME NEW id \in 1..n
               PROVE  /\ Count(ghost.tried, id) \in Nat
                      /\ Count(ghost.tried, id) + Cardinality(Comparing(id)') < maxTwoFAFailures + Cardinality(Reqs)
    BY Zenon, <1>4 DEF Count
  <2>1. Comparing(id)' \subseteq Comparing(id)
    BY Zenon, <1>2 DEF Comparing
  <2>2. CASE id = n
    <3>1. Comparing(id) = {}
      BY Zenon, <1>7, <2>2 DEF Comparing, LoginsOK
    <3>2. Cardinality(Comparing(id)') = 0
      BY ZenonT(60), <2>1, <3>1, FS_EmptySet
    <3>3. Cardinality(Reqs) \in Nat /\ maxTwoFAFailures \in Nat \ {0}
      BY Zenon, FS_CardinalityType, LimitsAssumption
    <3> QED BY <1>8, <2>2, <3>2, <3>3
  <2>3. CASE id # n
    <3>1. id \in 1..ghost.logins
      BY Zenon, <1>7, <2>3
    <3> QED BY ZenonT(60), <2>1, <3>1, Below DEF LoginsOK
  <2> QED BY Zenon, <2>2, <2>3
<1> QED BY ZenonT(60), <1>9, <1>10, <1>11, <1>12, <1>13 DEF LoginsOK

\* A password waiting for the second factor and the acceptance of a code leave the
\* number and the failures of the login alone, or end it.
LEMMA LoginTouched ==
    ASSUME HandlersOK, LoginsOK, NEW r \in Reqs, SetPendingPasswordChange(r) \/ Consume(r)
    PROVE  LoginsOK'
<1> DEFINE w == req[r].user
<1>1. Elsewhere(r) /\ req[r].pc # "idle"
  BY Zenon, LoginMoves, HandlerMoves DEF SetPendingPasswordChange, Consume, At
<1>2. Moves(r) /\ req'[r].pc # "compare"
  BY Zenon, <1>1 DEF Elsewhere
<1>3. w \in Users
  BY Zenon, <1>1 DEF HandlersOK, RequestOK
<1>4. /\ ghost' = ghost
      /\ pending' = pending \/ pending' = [pending EXCEPT ![w] = NoLogin] \/ pending' = [pending EXCEPT ![w].new = req[r].new]
  BY Zenon DEF SetPendingPasswordChange, Consume
<1>5. pending = [u \in Users |-> pending[u]] /\ \A u \in Users : IsLogin(pending[u])
  BY Zenon DEF LoginsOK
<1> HIDE DEF w
<1>6. CASE pending' = pending
  BY ZenonT(60), <1>2, <1>4, <1>5, <1>6, LoginsEdited
<1>7. CASE pending' = [pending EXCEPT ![w] = NoLogin]
  <2>1. /\ pending' = [u \in Users |-> pending'[u]] /\ pending'[w] = NoLogin
        /\ \A u \in Users : u # w => pending'[u] = pending[u]
    BY ZenonT(60), <1>3, <1>5, <1>7
  <2>2. IsLogin(NoLogin) /\ NoLogin.id = 0 /\ NoLogin.failures = 0
    BY Zenon DEF IsLogin, NoLogin
  <2> QED BY ZenonT(60), <1>2, <1>4, <1>5, <2>1, <2>2, LoginsEdited
<1>8. CASE pending' = [pending EXCEPT ![w].new = req[r].new]
  <2>1. /\ pending' = [u \in Users |-> pending'[u]] /\ pending'[w] = [pending[w] EXCEPT !.new = req[r].new]
        /\ \A u \in Users : u # w => pending'[u] = pending[u]
    BY ZenonT(60), <1>3, <1>5, <1>8
  <2>2. IsLogin(pending[w])
    BY Zenon, <1>3, <1>5
  <2>3. IsLogin(pending'[w]) /\ pending'[w].id = pending[w].id /\ pending'[w].failures = pending[w].failures
    BY Zenon, <2>1, <2>2 DEF IsLogin
  <2> QED BY ZenonT(60), <1>2, <1>4, <1>5, <2>1, <2>3, LoginsEdited
<1> QED BY ZenonT(60), <1>4, <1>6, <1>7, <1>8

\* A handler starts to compare: it read the pending login, whose failures are
\* below the bound.
LEMMA LoginRead ==
    ASSUME HandlersOK, LoginsOK, NEW r \in Reqs, ReadLogin(r)
    PROVE  LoginsOK'
<1> DEFINE p == pending[req[r].user]
<1>1. Moves(r) /\ UNCHANGED Users
  BY Zenon, NotedMoves DEF Moves, Users
<1>2. UNCHANGED <<pending, ghost>> /\ req[r].user \in Users
  BY Zenon DEF ReadLogin, dataVars, HandlersOK, RequestOK, At
<1>3. IsRequest(req[r]) /\ req = [q \in Reqs |-> req[q]]
  BY Zenon DEF HandlersOK, RequestOK
<1>4. req'[r].pend = p /\ req'[r].user = req[r].user /\ (p.id = 0 => req'[r].pc = "deny")
  <2>1. PICK x : /\ p.id = 0 => x = "deny"
                 /\ req' = [req EXCEPT ![r].pend = p, ![r].pc = x]
    BY Zenon DEF ReadLogin
  <2>2. req'[r] = [req[r] EXCEPT !.pend = p, !.pc = x]
    BY Zenon, <1>3, <2>1
  <2> QED BY ZenonT(60), <1>3, <2>1, <2>2 DEF IsRequest
<1>5. LoginsSame
  BY Zenon, <1>2 DEF LoginsSame
<1>6. CASE req'[r].pc # "compare"
  BY ZenonT(60), <1>1, <1>5, <1>6, LoginsKept
<1>7. CASE req'[r].pc = "compare"
  <2>0. /\ p.id \in 1..ghost.logins /\ p.failures \in Nat /\ p.failures < maxTwoFAFailures
        /\ Count(ghost.tried, p.id) = p.failures
        /\ \A v \in Users : pending[v].id = p.id => v = req[r].user
    <3>1. p.id # 0
      BY Zenon, <1>4, <1>7
    <3>2. p.id \in 0..ghost.logins /\ ghost.logins \in Nat /\ p.failures \in Nat /\ p.failures < maxTwoFAFailures
      BY Zenon, <1>2 DEF LoginsOK
    <3>3. Count(ghost.tried, p.id) = p.failures /\ \A v \in Users : pending[v].id = p.id => v = req[r].user
      BY Zenon, <1>2, <3>1 DEF LoginsOK
    <3> HIDE DEF p
    <3> QED BY <3>1, <3>2, <3>3
  <2> HIDE DEF p
  <2>1. \A q \in Reqs : q # r => req'[q] = req[q] /\ (At(q, "compare")' <=> At(q, "compare"))
    BY Zenon, <1>1, OthersStay DEF At
  <2>2. \A q \in Reqs : At(q, "compare")' =>
            /\ req'[q].pend.id \in 1..ghost'.logins
            /\ \A u \in Users' : pending'[u].id = req'[q].pend.id => u = req'[q].user
    <3> SUFFICES ASSUME NEW q \in Reqs, At(q, "compare")'
                 PROVE  /\ req'[q].pend.id \in 1..ghost.logins
                        /\ \A u \in Users : pending[u].id = req'[q].pend.id => u = req'[q].user
      BY Zenon, <1>1, <1>2
    <3>1. CASE q = r
      BY ZenonT(60), <1>4, <2>0, <3>1
    <3>2. CASE q # r
      BY ZenonT(60), <2>1, <3>2 DEF LoginsOK
    <3> QED BY Zenon, <3>1, <3>2
  <2>3. \A id \in 1..ghost'.logins :
            /\ Count(ghost.tried, id)' \in Nat
            /\ Count(ghost.tried, id)' + Cardinality(Comparing(id))' < maxTwoFAFailures + Cardinality(Reqs)
    <3> SUFFICES ASSUME NEW id \in 1..ghost.logins
                 PROVE  /\ Count(ghost.tried, id) \in Nat
                        /\ Count(ghost.tried, id) + Cardinality(Comparing(id)') < maxTwoFAFailures + Cardinality(Reqs)
      BY Zenon, <1>2 DEF Count
    <3>0. Count(ghost.tried, id) \in Nat
      BY Zenon DEF LoginsOK
    <3>1. CASE id = p.id
      <4>1. Comparing(id)' \subseteq Reqs
        BY Zenon DEF Comparing
      <4>2. Cardinality(Comparing(id)') \in Nat /\ Cardinality(Reqs) \in Nat /\ Cardinality(Comparing(id)') <= Cardinality(Reqs)
        BY ZenonT(60), <4>1, FS_Subset, FS_CardinalityType, LimitsAssumption
      <4>3. maxTwoFAFailures \in Nat
        BY Zenon, LimitsAssumption
      <4> QED BY <2>0, <3>0, <3>1, <4>2, <4>3
    <3>2. CASE id # p.id
      <4>1. Comparing(id)' \subseteq Comparing(id)
        BY ZenonT(60), <1>4, <2>1, <3>2 DEF Comparing
      <4> QED BY ZenonT(60), <3>0, <4>1, Below
    <3> QED BY Zenon, <3>1, <3>2
  <2>4. /\ ghost'.logins \in Nat /\ pending' = [u \in Users' |-> pending'[u]]
        /\ \A id \in DOMAIN ghost'.tried : id \in 1..ghost'.logins
        /\ \A u \in Users' : /\ IsLogin(pending[u])' /\ pending'[u].id \in 0..ghost'.logins
                             /\ pending'[u].failures \in Nat /\ pending'[u].failures < maxTwoFAFailures
        /\ \A u \in Users' : pending'[u].id # 0 =>
              /\ Count(ghost.tried, pending[u].id)' = pending'[u].failures
              /\ \A v \in Users' : pending'[v].id = pending'[u].id => v = u
    BY ZenonT(60), <1>1, <1>2 DEF LoginsOK, IsLogin, Count
  <2> QED BY ZenonT(60), <2>2, <2>3, <2>4 DEF LoginsOK
<1> QED BY Zenon, <1>6, <1>7

\* What counting does to the counts.
LEMMA CountedFacts ==
    ASSUME NEW f, NEW k
    PROVE  /\ DOMAIN Counted(f, k) = DOMAIN f \cup {k}
           /\ Count(Counted(f, k), k) = Count(f, k) + 1
           /\ \A x : x # k => Count(Counted(f, k), x) = Count(f, x)
<1>1. DOMAIN Counted(f, k) = DOMAIN f \cup {k}
  BY Zenon DEF Counted, With
<1>2. Counted(f, k)[k] = Count(f, k) + 1
  BY Zenon DEF Counted, With
<1>3. \A x \in DOMAIN f : x # k => Counted(f, k)[x] = f[x]
  BY Zenon DEF Counted, With
<1> QED BY Zenon, <1>1, <1>2, <1>3 DEF Count

\* A wrong code: one handler fewer compares, one more failure is counted.
LEMMA LoginFails ==
    ASSUME HandlersOK, LoginsOK, NEW r \in Reqs, WrongCode(r)
    PROVE  LoginsOK'
<1> DEFINE w == req[r].user
           k == req[r].pend.id
<1>0. Elsewhere(r) /\ IsGhost(ghost)
  BY Zenon, SimpleMoves DEF HandlersOK
<1>1. Moves(r) /\ req'[r].pc # "compare" /\ UNCHANGED Users
  BY Zenon, <1>0 DEF Elsewhere, Moves, Users
<1>2. \A q \in Reqs : At(q, "compare")' => q # r /\ At(q, "compare") /\ req'[q] = req[q]
  BY Zenon, <1>1, OthersStay DEF At
<1>3. /\ At(r, "compare") /\ w \in Users
      /\ k \in 1..ghost.logins /\ \A u \in Users : pending[u].id = k => u = w
  <2>1. At(r, "compare")
    BY Zenon DEF WrongCode
  <2> QED BY Zenon, <2>1 DEF HandlersOK, RequestOK, At, LoginsOK
<1>4. /\ ghost'.logins = ghost.logins /\ ghost'.tried = Counted(ghost.tried, k)
  BY Zenon, <1>0 DEF WrongCode, IsGhost
<1>5. /\ pending = [u \in Users |-> pending[u]] /\ ghost.logins \in Nat
      /\ \A u \in Users : /\ IsLogin(pending[u]) /\ pending[u].id \in 0..ghost.logins
                          /\ pending[u].failures \in Nat /\ pending[u].failures < maxTwoFAFailures
  BY Zenon DEF LoginsOK
<1>6. \/ pending' = pending /\ pending[w].id # k
      \/ pending' = [pending EXCEPT ![w] = NoLogin]
      \/ /\ pending' = [pending EXCEPT ![w].failures = pending[w].failures + 1] /\ pending[w].id = k
         /\ ~(pending[w].failures + 1 >= maxTwoFAFailures)
  <2>1. pending' = registerFailure(r, req[r].pend)
    BY Zenon DEF WrongCode
  <2>2. k # 0
    BY <1>3, <1>5
  <2> QED BY Zenon, <2>1, <2>2 DEF registerFailure
<1> HIDE DEF w, k
<1>7. /\ pending' = [u \in Users |-> pending'[u]] /\ \A u \in Users : u # w => pending'[u] = pending[u]
      /\ IsLogin(pending'[w])
      /\ \/ pending'[w] = pending[w] /\ pending[w].id # k
         \/ pending'[w].id = 0 /\ pending'[w].failures = 0
         \/ pending'[w].id = k /\ pending[w].id = k /\ pending'[w].failures = pending[w].failures + 1
            /\ pending[w].failures + 1 < maxTwoFAFailures
  <2>1. CASE pending' = pending /\ pending[w].id # k
    BY Zenon, <1>3, <1>5, <2>1
  <2>2. CASE pending' = [pending EXCEPT ![w] = NoLogin]
    <3>1. pending' = [u \in Users |-> pending'[u]] /\ pending'[w] = NoLogin /\ \A u \in Users : u # w => pending'[u] = pending[u]
      BY Zenon, <1>3, <1>5, <2>2
    <3>2. IsLogin(NoLogin) /\ NoLogin.id = 0 /\ NoLogin.failures = 0
      BY Zenon DEF IsLogin, NoLogin
    <3> QED BY Zenon, <3>1, <3>2
  <2>3. CASE /\ pending' = [pending EXCEPT ![w].failures = pending[w].failures + 1] /\ pending[w].id = k
             /\ ~(pending[w].failures + 1 >= maxTwoFAFailures)
    <3>1. /\ pending' = [u \in Users |-> pending'[u]] /\ \A u \in Users : u # w => pending'[u] = pending[u]
          /\ pending'[w] = [pending[w] EXCEPT !.failures = pending[w].failures + 1]
      BY Zenon, <1>3, <1>5, <2>3
    <3>2. IsLogin(pending[w]) /\ pending[w].failures \in Nat /\ maxTwoFAFailures \in Nat
      BY Zenon, <1>3, <1>5, LimitsAssumption
    <3>3. IsLogin(pending'[w]) /\ pending'[w].id = pending[w].id /\ pending'[w].failures = pending[w].failures + 1
      BY Zenon, <3>1, <3>2 DEF IsLogin
    <3>4. pending[w].failures + 1 < maxTwoFAFailures
      BY <2>3, <3>2
    <3> QED BY Zenon, <2>3, <3>1, <3>3, <3>4
  <2> QED BY ZenonT(60), <1>6, <2>1, <2>2, <2>3
<1>8. /\ \A x \in 1..ghost.logins : x # k => Count(ghost'.tried, x) = Count(ghost.tried, x)
      /\ Count(ghost'.tried, k) = Count(ghost.tried, k) + 1
      /\ DOMAIN ghost'.tried = DOMAIN ghost.tried \cup {k}
  <2>1. /\ DOMAIN Counted(ghost.tried, k) = DOMAIN ghost.tried \cup {k}
        /\ Count(Counted(ghost.tried, k), k) = Count(ghost.tried, k) + 1
        /\ \A x : x # k => Count(Counted(ghost.tried, k), x) = Count(ghost.tried, x)
    BY Zenon, CountedFacts
  <2>2. ghost'.tried = Counted(ghost.tried, k)
    BY Zenon, <1>4
  <2> QED BY Zenon, <2>1, <2>2
<1>9. /\ ghost'.logins \in Nat /\ pending' = [u \in Users' |-> pending'[u]]
      /\ \A id \in DOMAIN ghost'.tried : id \in 1..ghost'.logins
  BY ZenonT(60), <1>1, <1>3, <1>4, <1>5, <1>7, <1>8 DEF LoginsOK
<1>10. \A u \in Users' : /\ IsLogin(pending[u])' /\ pending'[u].id \in 0..ghost'.logins
                         /\ pending'[u].failures \in Nat /\ pending'[u].failures < maxTwoFAFailures
  <2> SUFFICES ASSUME NEW u \in Users
               PROVE  /\ IsLogin(pending'[u]) /\ pending'[u].id \in 0..ghost.logins
                      /\ pending'[u].failures \in Nat /\ pending'[u].failures < maxTwoFAFailures
    BY Zenon, <1>1, <1>4 DEF IsLogin
  <2>1. CASE u = w
    <3>1. 0 \in 0..ghost.logins /\ 0 \in Nat /\ 0 < maxTwoFAFailures
      BY <1>5, LimitsAssumption
    <3>2. pending[w].failures + 1 \in Nat /\ pending[w].id \in 0..ghost.logins
      BY <1>3, <1>5
    <3> QED BY Zenon, <1>5, <1>7, <2>1, <3>1, <3>2
  <2>2. CASE u # w
    BY Zenon, <1>5, <1>7, <2>2
  <2> QED BY Zenon, <2>1, <2>2
<1>11. \A u \in Users' : pending'[u].id # 0 =>
            /\ Count(ghost.tried, pending[u].id)' = pending'[u].failures
            /\ \A v \in Users' : pending'[v].id = pending'[u].id => v = u
  <2> SUFFICES ASSUME NEW u \in Users, pending'[u].id # 0
               PROVE  /\ Count(ghost'.tried, pending'[u].id) = pending'[u].failures
                      /\ \A v \in Users : pending'[v].id = pending'[u].id => v = u
    BY Zenon, <1>1 DEF Count
  <2>1. \A v \in Users : pending'[v].id # 0 => pending'[v].id = pending[v].id
    BY Zenon, <1>7
  <2>2. /\ Count(ghost.tried, pending[u].id) = pending[u].failures /\ pending[u].id \in 1..ghost.logins
        /\ \A v \in Users : pending[v].id = pending[u].id => v = u
    <3>1. pending[u].id # 0 /\ pending[u].id \in 0..ghost.logins /\ ghost.logins \in Nat
      BY Zenon, <1>5, <2>1
    <3>2. pending[u].id \in 1..ghost.logins
      BY <3>1
    <3> QED BY Zenon, <3>1, <3>2 DEF LoginsOK
  <2>3. CASE u = w
    BY Zenon, <1>7, <1>8, <2>1, <2>2, <2>3
  <2>4. CASE u # w
    BY ZenonT(60), <1>3, <1>7, <1>8, <2>1, <2>2, <2>4
  <2> QED BY Zenon, <2>3, <2>4
<1>12. \A q \in Reqs : At(q, "compare")' =>
          /\ req'[q].pend.id \in 1..ghost'.logins
          /\ \A u \in Users' : pending'[u].id = req'[q].pend.id => u = req'[q].user
  <2> SUFFICES ASSUME NEW q \in Reqs, At(q, "compare")'
               PROVE  /\ req'[q].pend.id \in 1..ghost.logins
                      /\ \A u \in Users : pending'[u].id = req'[q].pend.id => u = req'[q].user
    BY Zenon, <1>1, <1>4
  <2>1. At(q, "compare") /\ req'[q] = req[q]
    BY Zenon, <1>2
  <2>2. /\ req[q].pend.id \in 1..ghost.logins
        /\ \A u \in Users : pending[u].id = req[q].pend.id => u = req[q].user
    BY Zenon, <2>1 DEF LoginsOK
  <2>3. \A u \in Users : pending'[u].id # 0 => pending'[u].id = pending[u].id
    BY Zenon, <1>7
  <2>4. req[q].pend.id # 0
    BY <1>5, <2>2
  <2> QED BY Zenon, <2>1, <2>2, <2>3, <2>4
<1>13. \A id \in 1..ghost'.logins :
          /\ Count(ghost.tried, id)' \in Nat
          /\ Count(ghost.tried, id)' + Cardinality(Comparing(id))' < maxTwoFAFailures + Cardinality(Reqs)
  <2> SUFFICES ASSUME NEW id \in 1..ghost.logins
               PROVE  /\ Count(ghost'.tried, id) \in Nat
                      /\ Count(ghost'.tried, id) + Cardinality(Comparing(id)') < maxTwoFAFailures + Cardinality(Reqs)
    BY Zenon, <1>4 DEF Count
  <2>0. /\ Count(ghost.tried, id) \in Nat
        /\ Count(ghost.tried, id) + Cardinality(Comparing(id)) < maxTwoFAFailures + Cardinality(Reqs)
    BY Zenon DEF LoginsOK
  <2>1. CASE id = k
    <3>1. Comparing(id)' = Comparing(id) \ {r} /\ r \in Comparing(id) /\ Comparing(id) \subseteq Reqs
      <4>1. \A q \in Reqs : q # r => (At(q, "compare")' <=> At(q, "compare")) /\ req'[q] = req[q]
        BY Zenon, <1>1, OthersStay
      <4>2. ~At(r, "compare")'
        BY Zenon, <1>1 DEF At
      <4> QED BY ZenonT(60), <1>3, <2>1, <4>1, <4>2 DEF Comparing, k
    <3>2. IsFiniteSet(Comparing(id))
      BY ZenonT(60), <3>1, FS_Subset, LimitsAssumption
    <3>3. ASSUME NEW A, NEW x \in A, IsFiniteSet(A)
          PROVE  Cardinality(A \ {x}) = Cardinality(A) - 1
      BY Zenon, <3>3, FS_RemoveElement
    <3>4. Cardinality(Comparing(id)') = Cardinality(Comparing(id)) - 1
      BY Zenon, <3>1, <3>2, <3>3
    <3>5. Cardinality(Comparing(id)) \in Nat /\ Cardinality(Reqs) \in Nat /\ maxTwoFAFailures \in Nat
      BY ZenonT(60), <3>2, FS_CardinalityType, LimitsAssumption
    <3>6. Count(ghost'.tried, id) = Count(ghost.tried, id) + 1
      BY Zenon, <1>8, <2>1
    <3> QED BY <2>0, <3>4, <3>5, <3>6
  <2>2. CASE id # k
    <3>1. Comparing(id)' \subseteq Comparing(id)
      BY Zenon, <1>2 DEF Comparing
    <3>2. Count(ghost.tried, id) + Cardinality(Comparing(id)') < maxTwoFAFailures + Cardinality(Reqs)
      BY Zenon, <3>1, Below
    <3> QED BY ZenonT(60), <1>8, <2>0, <2>2, <3>2
  <2> QED BY Zenon, <2>1, <2>2
<1> QED BY Zenon, <1>9, <1>10, <1>11, <1>12, <1>13 DEF LoginsOK
=============================================================================
