-------------------------- MODULE ApiAccessProofs ---------------------------
(***************************************************************************)
(* Proofs about ApiAccess, second part: TOTP steps, bans, tickets, and the *)
(* theorems. What was used up opens nothing again (SpentStaysSpent) and    *)
(* the limits hold (LimitsHold), for any number of handlers at the same    *)
(* time, users, addresses and limits.                                      *)
(***************************************************************************)
EXTENDS ApiAccessLoginProofs

-----------------------------------------------------------------------------
(* Steps of an app. *)

\* A right TOTP code is of a later step than every one accepted before.
LEMMA StepAccepted ==
    ASSUME HandlersOK, StepsOK, NEW r \in Reqs, RightCode(r)
    PROVE  StepsOK'
<1> DEFINE w == req[r].user
           c == req[r].code
<1>1. UNCHANGED deployment /\ UNCHANGED Users
  BY Zenon DEF RightCode, Users
<1>2. w \in Users /\ c \in Int
  BY Zenon DEF RightCode, At, HandlersOK, RequestOK
<1>3. CASE deployment.second # "totp"
  BY Zenon, <1>1, <1>3, StepsKept DEF RightCode, StepsSame
<1>4. CASE deployment.second = "totp"
  <2>1. /\ c > lastTotPStep[w] /\ lastTotPStep' = [lastTotPStep EXCEPT ![w] = c]
        /\ ghost' = [ghost EXCEPT !.steps = Counted(ghost.steps, <<w, c>>)]
    BY Zenon, <1>4 DEF RightCode, acceptTotPStep
  <2>2. ghost'.steps = Counted(ghost.steps, <<w, c>>)
    BY Zenon, <2>1 DEF HandlersOK, IsGhost
  <2> HIDE DEF w, c
  <2> SUFFICES ASSUME "restart" \notin deployment.faults
               PROVE  /\ lastTotPStep' \in [Users -> Int]
                      /\ \A k \in DOMAIN ghost'.steps :
                            /\ ghost'.steps[k] = 1
                            /\ k[1] \in Users /\ k[2] \in Int /\ k[2] <= lastTotPStep'[k[1]]
    BY Zenon, <1>1 DEF StepsOK
  <2>3. /\ lastTotPStep \in [Users -> Int]
        /\ \A k \in DOMAIN ghost.steps :
              ghost.steps[k] = 1 /\ k[1] \in Users /\ k[2] \in Int /\ k[2] <= lastTotPStep[k[1]]
    BY Zenon DEF StepsOK
  <2>4. /\ lastTotPStep' \in [Users -> Int] /\ lastTotPStep'[w] = c /\ lastTotPStep[w] <= c
        /\ \A u \in Users : u # w => lastTotPStep'[u] = lastTotPStep[u]
    BY <1>2, <2>1, <2>3
  <2>5. <<w, c>> \notin DOMAIN ghost.steps
    <3> SUFFICES ASSUME <<w, c>> \in DOMAIN ghost.steps
                 PROVE  FALSE
      BY Zenon
    <3>1. <<w, c>>[2] <= lastTotPStep[<<w, c>>[1]]
      BY Zenon, <2>3
    <3>2. c <= lastTotPStep[w] /\ lastTotPStep[w] \in Int
      BY Zenon, <1>2, <2>3, <3>1
    <3> QED BY <1>2, <2>1, <3>2
  <2>6. /\ DOMAIN ghost'.steps = DOMAIN ghost.steps \cup {<<w, c>>}
        /\ ghost'.steps[<<w, c>>] = 1
        /\ \A k \in DOMAIN ghost.steps : ghost'.steps[k] = ghost.steps[k]
    <3>1. Count(ghost.steps, <<w, c>>) = 0
      BY Zenon, <2>5 DEF Count
    <3>2. Count(ghost.steps, <<w, c>>) + 1 = 1
      BY <3>1
    <3> QED BY Zenon, <2>2, <2>5, <3>2 DEF Counted, With
  <2>7. \A k \in DOMAIN ghost.steps : k[2] <= lastTotPStep'[k[1]]
    <3> SUFFICES ASSUME NEW k \in DOMAIN ghost.steps
                 PROVE  k[2] <= lastTotPStep'[k[1]]
      BY Zenon
    <3>1. k[1] \in Users /\ k[2] \in Int /\ k[2] <= lastTotPStep[k[1]]
      BY Zenon, <2>3
    <3> QED BY <1>2, <2>3, <2>4, <3>1
  <2>8. <<w, c>>[1] = w /\ <<w, c>>[2] = c /\ c <= c
    BY <1>2
  <2> QED BY ZenonT(60), <1>2, <2>3, <2>4, <2>6, <2>7, <2>8
<1> QED BY Zenon, <1>3, <1>4

-----------------------------------------------------------------------------
(* The ban lists. *)

\* A change of one visitor that is in order keeps the ban list in order.
LEMMA VisitorEdit ==
    ASSUME NEW b, IsBans(b), NEW a \in Addresses, NEW v, VisitorOK(v),
           \A x \in Addresses : x # a => VisitorOK(b.ip[x]), NEW c, c = [b EXCEPT !.ip[a] = v]
    PROVE  BansOK(c) /\ c.ip[a] = v
<1>0. b = [user |-> b.user, ip |-> b.ip] /\ b.ip = [x \in Addresses |-> b.ip[x]]
  BY Zenon DEF IsBans
<1>1. c = [user |-> b.user, ip |-> [b.ip EXCEPT ![a] = v]]
  BY Zenon, <1>0
<1>2. c.user = b.user /\ c.ip = [b.ip EXCEPT ![a] = v]
  BY Zenon, <1>1
<1>3. c.ip = [x \in Addresses |-> IF x = a THEN v ELSE b.ip[x]]
  BY Zenon, <1>0, <1>2
<1>4. /\ c = [user |-> c.user, ip |-> c.ip] /\ c.ip = [x \in Addresses |-> c.ip[x]] /\ c.ip[a] = v
      /\ \A x \in Addresses : x # a => c.ip[x] = b.ip[x]
  BY Zenon, <1>1, <1>2, <1>3
<1> QED BY Zenon, <1>4 DEF BansOK, IsBans

\* A failure that is charged makes up for a code that was just counted.
LEMMA BadAttempt ==
    ASSUME NEW b, IsBans(b), NEW a \in Addresses, \A x \in Addresses : x # a => VisitorOK(b.ip[x]),
           IsVisitor(b.ip[a]), b.ip[a].bad \in Nat, b.ip[a].codes \in Nat, b.ip[a].bad < maxBadAttempts,
           b.ip[a].codes <= b.ip[a].bad + 1
    PROVE  BansOK(AddBadAttempt(b, a))
<1>0. maxBadAttempts \in Nat \ {0}
  BY Zenon, LimitsAssumption
<1>1. CASE b.ip[a].bad + 1 = maxBadAttempts
  <2>1. PICK v : v = [b.ip[a] EXCEPT !.bad = 0, !.until = now + banDuration, !.codes = 0]
    BY Zenon
  <2>2. AddBadAttempt(b, a) = [b EXCEPT !.ip[a] = v]
    BY ZenonT(60), <1>1, <2>1 DEF AddBadAttempt
  <2>3. IsVisitor(v) /\ v.bad = 0 /\ v.codes = 0
    BY Zenon, <2>1 DEF IsVisitor
  <2>4. VisitorOK(v)
    BY <1>0, <2>3 DEF VisitorOK
  <2> QED BY ZenonT(60), <2>2, <2>4, VisitorEdit
<1>2. CASE b.ip[a].bad + 1 # maxBadAttempts
  <2>1. PICK v : v = [b.ip[a] EXCEPT !.bad = b.ip[a].bad + 1]
    BY Zenon
  <2>2. AddBadAttempt(b, a) = [b EXCEPT !.ip[a] = v]
    BY Zenon, <1>2, <2>1 DEF AddBadAttempt
  <2>3. IsVisitor(v) /\ v.bad = b.ip[a].bad + 1 /\ v.codes = b.ip[a].codes
    BY ZenonT(60), <2>1 DEF IsVisitor
  <2>4. VisitorOK(v)
    BY <1>0, <1>2, <2>3 DEF VisitorOK
  <2> QED BY Zenon, <2>2, <2>4, VisitorEdit
<1> QED BY Zenon, <1>1, <1>2

\* A ban of a user changes no visitor.
LEMMA UserBanned ==
    ASSUME NEW b, BansOK(b), NEW a, NEW u
    PROVE  BansOK(Add(b, a, u))
<1>0. IsBans(b) /\ b = [user |-> b.user, ip |-> b.ip]
  BY Zenon DEF BansOK, IsBans
<1>1. PICK c : c = Add(b, a, u)
  BY Zenon
<1>2. c.ip = b.ip /\ c = [user |-> c.user, ip |-> c.ip]
  BY Zenon, <1>0, <1>1 DEF Add
<1>3. BansOK(c)
  BY Zenon, <1>0, <1>2 DEF BansOK, IsBans
<1> QED BY Zenon, <1>1, <1>3

\* A bad attempt below the limit is counted, one at the limit bans and starts
\* the count again.
LEMMA Charged ==
    ASSUME NEW b, BansOK(b), NEW a \in Addresses
    PROVE  BansOK(AddBadAttempt(b, a))
<1>1. IsBans(b) /\ VisitorOK(b.ip[a]) /\ \A x \in Addresses : x # a => VisitorOK(b.ip[x])
  BY Zenon DEF BansOK
<1>2. IsVisitor(b.ip[a]) /\ b.ip[a].bad \in Nat /\ b.ip[a].codes \in Nat /\ b.ip[a].bad < maxBadAttempts /\ b.ip[a].codes <= b.ip[a].bad
  BY Zenon, <1>1 DEF VisitorOK
<1>3. b.ip[a].codes <= b.ip[a].bad + 1
  BY <1>2
<1> QED BY ZenonT(60), <1>1, <1>2, <1>3, BadAttempt

\* The same for the attempts counted once per credential.
LEMMA DistinctCharged ==
    ASSUME NEW b, BansOK(b), NEW a \in Addresses, NEW credential
    PROVE  BansOK(AddDistinctBadAttempt(b, a, credential))
<1>1. CASE credential \in b.ip[a].seen
  BY Zenon, <1>1 DEF AddDistinctBadAttempt
<1>2. CASE credential \notin b.ip[a].seen
  <2>1. PICK v : v = [b.ip[a] EXCEPT !.seen = b.ip[a].seen \cup {credential}]
    BY Zenon
  <2>2. PICK s : s = [b EXCEPT !.ip[a] = v]
    BY Zenon
  <2>3. VisitorOK(b.ip[a]) /\ IsBans(b) /\ \A x \in Addresses : VisitorOK(b.ip[x])
    BY Zenon DEF BansOK
  <2>4. IsVisitor(v) /\ v.bad = b.ip[a].bad /\ v.codes = b.ip[a].codes
    BY Zenon, <2>1, <2>3 DEF VisitorOK, IsVisitor
  <2>5. VisitorOK(v)
    BY Zenon, <2>3, <2>4 DEF VisitorOK
  <2>6. BansOK(s)
    BY ZenonT(60), <2>2, <2>3, <2>5, VisitorEdit
  <2>7. PICK counted : counted = AddBadAttempt(s, a)
    BY Zenon
  <2>8. BansOK(counted) /\ AddDistinctBadAttempt(b, a, credential) \in {counted, [counted EXCEPT !.ip[a].seen = {}]}
    BY ZenonT(60), <1>2, <2>1, <2>2, <2>6, <2>7, Charged DEF AddDistinctBadAttempt
  <2>9. BansOK([counted EXCEPT !.ip[a].seen = {}])
    <3>1. PICK w : w = [counted.ip[a] EXCEPT !.seen = {}]
      BY Zenon
    <3>2. VisitorOK(counted.ip[a]) /\ IsBans(counted) /\ \A x \in Addresses : VisitorOK(counted.ip[x])
      BY Zenon, <2>8 DEF BansOK
    <3>3. IsVisitor(w) /\ w.bad = counted.ip[a].bad /\ w.codes = counted.ip[a].codes
      BY Zenon, <3>1, <3>2 DEF VisitorOK, IsVisitor
    <3>4. VisitorOK(w)
      BY Zenon, <3>2, <3>3 DEF VisitorOK
    <3>5. BansOK([counted EXCEPT !.ip[a] = w])
      BY Zenon, <3>2, <3>4, VisitorEdit
    <3> QED BY Zenon, <3>1, <3>5
  <2> QED BY Zenon, <2>8, <2>9
<1> QED BY Zenon, <1>1, <1>2

\* A success forgets the bad attempts of its address.
LEMMA Cleared ==
    ASSUME NEW b, BansOK(b), NEW a \in Addresses
    PROVE  BansOK([AddSuccessAttempt(b, a) EXCEPT !.ip[a].codes = 0])
<1>1. IsBans(b) /\ VisitorOK(b.ip[a]) /\ \A x \in Addresses : VisitorOK(b.ip[x])
  BY Zenon DEF BansOK
<1>2. PICK v : v = [NoVisitor EXCEPT !.codes = b.ip[a].codes]
  BY Zenon
<1>3. PICK c : c = [b EXCEPT !.ip[a] = v]
  BY Zenon
<1>4. AddSuccessAttempt(b, a) = c
  BY Zenon, <1>2, <1>3 DEF AddSuccessAttempt
<1>5. VisitorOK([v EXCEPT !.codes = 0])
  <2>1. IsVisitor(v) /\ v.bad = 0
    BY Zenon, <1>2 DEF IsVisitor, NoVisitor
  <2>2. PICK w : w = [v EXCEPT !.codes = 0]
    BY Zenon
  <2>3. IsVisitor(w) /\ w.bad = 0 /\ w.codes = 0
    BY Zenon, <2>1, <2>2 DEF IsVisitor
  <2>4. VisitorOK(w)
    BY <2>3, LimitsAssumption DEF VisitorOK
  <2> QED BY Zenon, <2>2, <2>4
<1>6. [c EXCEPT !.ip[a].codes = 0] = [b EXCEPT !.ip[a] = [v EXCEPT !.codes = 0]]
  <2>1. b = [user |-> b.user, ip |-> b.ip] /\ b.ip = [x \in Addresses |-> b.ip[x]]
    BY Zenon, <1>1 DEF IsBans
  <2>2. PICK w : w = [v EXCEPT !.codes = 0]
    BY Zenon
  <2>3. c = [user |-> b.user, ip |-> [b.ip EXCEPT ![a] = v]] /\ c.ip[a] = v
    BY Zenon, <1>3, <2>1
  <2>4. [c EXCEPT !.ip[a].codes = 0] = [c EXCEPT !.ip[a] = w]
    BY Zenon, <2>2, <2>3
  <2>5. [c EXCEPT !.ip[a] = w] = [user |-> b.user, ip |-> [b.ip EXCEPT ![a] = w]]
    BY SMT, <2>1, <2>3
  <2>6. [b EXCEPT !.ip[a] = w] = [user |-> b.user, ip |-> [b.ip EXCEPT ![a] = w]]
    BY SMT, <2>1
  <2> QED BY ZenonT(60), <2>2, <2>4, <2>5, <2>6
<1>7. BansOK([b EXCEPT !.ip[a] = [v EXCEPT !.codes = 0]])
  BY Zenon, <1>1, <1>5, VisitorEdit
<1> QED BY Zenon, <1>4, <1>6, <1>7

\* A failed second factor is one code more and one charge more.
LEMMA CodeCharged ==
    ASSUME BansOK(bans), NEW a \in Addresses
    PROVE  BansOK(AddBadAttempt([bans EXCEPT !.ip[a].codes = bans.ip[a].codes + 1], a))
<1>1. IsBans(bans) /\ VisitorOK(bans.ip[a]) /\ \A x \in Addresses : VisitorOK(bans.ip[x])
  BY Zenon DEF BansOK
<1>2. PICK v : v = [bans.ip[a] EXCEPT !.codes = bans.ip[a].codes + 1]
  BY Zenon
<1>3. PICK c : c = [bans EXCEPT !.ip[a] = v]
  BY Zenon
<1>4. IsVisitor(v) /\ v.bad = bans.ip[a].bad /\ v.codes = bans.ip[a].codes + 1
  BY Zenon, <1>1, <1>2 DEF VisitorOK, IsVisitor
<1>5. /\ IsBans(c) /\ c.ip[a] = v /\ \A x \in Addresses : x # a => VisitorOK(c.ip[x])
  <2>1. bans = [user |-> bans.user, ip |-> bans.ip] /\ bans.ip = [x \in Addresses |-> bans.ip[x]]
    BY Zenon, <1>1 DEF IsBans
  <2>2. c = [user |-> bans.user, ip |-> [bans.ip EXCEPT ![a] = v]]
    BY Zenon, <1>3, <2>1
  <2>3. c.ip = [bans.ip EXCEPT ![a] = v] /\ c = [user |-> c.user, ip |-> c.ip]
    BY Zenon, <2>2
  <2>4. c.ip = [x \in Addresses |-> c.ip[x]] /\ c.ip[a] = v /\ \A x \in Addresses : x # a => c.ip[x] = bans.ip[x]
    BY ZenonT(60), <2>1, <2>3
  <2> QED BY ZenonT(60), <1>1, <2>3, <2>4 DEF IsBans
<1>6. v.bad \in Nat /\ v.codes \in Nat /\ v.bad < maxBadAttempts /\ v.codes <= v.bad + 1
  BY <1>1, <1>4 DEF VisitorOK
<1>7. BansOK(AddBadAttempt(c, a))
  BY ZenonT(60), <1>4, <1>5, <1>6, BadAttempt
<1> QED BY ZenonT(60), <1>2, <1>3, <1>7

\* Every statement of a handler keeps the ban list in order.
LEMMA BansStep ==
    ASSUME HandlersOK, BansOK(bans), NEW r \in Reqs,
           \/ UNCHANGED bans \/ LoginRefused(r) \/ LoginAccepted(r) \/ recordAuthSuccess(r) \/ Unauthorized(r)
           \/ LogoutRefused(r) \/ Deny(r) \/ handleBasicAuth(r)
    PROVE  BansOK(bans')
<1>1. CASE UNCHANGED bans
  BY Zenon, <1>1
<1>2. CASE ~UNCHANGED bans
  <2>0. req[r].ip \in Addresses
    <3>1. req[r].pc # "idle"
      BY ZenonT(60), <1>2 DEF LoginRefused, LoginAccepted, recordAuthSuccess, Unauthorized, LogoutRefused, Deny, handleBasicAuth, At
    <3> QED BY Zenon, <3>1 DEF HandlersOK, RequestOK
  <2>1. CASE LoginRefused(r) \/ LogoutRefused(r) \/ handleBasicAuth(r)
    <3>1. bans' = Denied(r)
      BY ZenonT(60), <1>2, <2>1 DEF LoginRefused, LogoutRefused, handleBasicAuth
    <3>2. bans' = Add(AddBadAttempt(bans, req[r].ip), req[r].ip, req[r].user)
      BY Zenon, <3>1 DEF Denied, handleBannedIPs
    <3>3. BansOK(AddBadAttempt(bans, req[r].ip))
      BY Zenon, <2>0, Charged
    <3> QED BY ZenonT(60), <3>2, <3>3, UserBanned
  <2>2. CASE LoginAccepted(r)
    BY Zenon, <1>2, <2>2 DEF LoginAccepted, handleBannedIPs
  <2>3. CASE recordAuthSuccess(r)
    <3>1. bans' = [AddSuccessAttempt(bans, req[r].ip) EXCEPT !.ip[req[r].ip].codes = 0]
      BY Zenon, <2>3 DEF recordAuthSuccess
    <3> QED BY ZenonT(60), <2>0, <3>1, Cleared
  <2>4. CASE Unauthorized(r)
    <3>1. bans' = AddDistinctBadAttempt(bans, req[r].ip, req[r].jwt)
      BY Zenon, <1>2, <2>4 DEF Unauthorized
    <3> QED BY Zenon, <2>0, <3>1, DistinctCharged
  <2>5. CASE Deny(r)
    <3>1. bans' = Add(AddBadAttempt([bans EXCEPT !.ip[req[r].ip].codes = bans.ip[req[r].ip].codes + 1], req[r].ip), req[r].ip, req[r].user)
      BY Zenon, <2>5 DEF Deny, handleBannedIPs
    <3> QED BY ZenonT(60), <2>0, <3>1, CodeCharged, UserBanned
  <2> QED BY ZenonT(60), <1>2, <2>1, <2>2, <2>3, <2>4, <2>5
<1> QED BY Zenon, <1>1, <1>2

-----------------------------------------------------------------------------
(* Web socket tickets. *)

\* Tickets are taken out, or time passes.
LEMMA TicketsShrink ==
    ASSUME TicketsOK, UNCHANGED deployment, now \in Int, now' \in Int, now <= now',
           tickets' = [t \in DOMAIN tickets' |-> tickets'[t]], DOMAIN tickets' \subseteq DOMAIN tickets,
           \A t \in DOMAIN tickets' : tickets'[t] = tickets[t],
           ghost'.issued \in Nat, ghost.issued <= ghost'.issued, ghost'.twice = FALSE,
           \A t \in ghost'.redeemed : t \notin DOMAIN tickets' /\ (t \in ghost.redeemed \/ t \in DOMAIN tickets)
    PROVE  TicketsOK'
<1>1. /\ ghost.issued \in Nat /\ maxOutstandingTickets \in Nat /\ maxTicketsPerUser \in Nat
      /\ \A t \in 1..ghost.issued : t \in 1..ghost'.issued
  BY LimitsAssumption DEF TicketsOK
<1>2. /\ \A t \in DOMAIN tickets : t \in 1..ghost.issued /\ tickets[t].until \in Int
      /\ \A t \in ghost.redeemed : t \in 1..ghost.issued
  BY Zenon DEF TicketsOK
<1>3. IsFiniteSet(DOMAIN tickets)
  <2>0. 1 \in Int /\ ghost.issued \in Int
    BY <1>1
  <2>1. IsFiniteSet(1..ghost.issued)
    BY Zenon, <2>0, FS_Interval
  <2> QED BY ZenonT(60), <1>2, <2>1, FS_Subset
<1>4. ASSUME NEW A, NEW B, A \subseteq B, B \subseteq DOMAIN tickets, NEW k \in Nat, Cardinality(B) <= k
      PROVE  Cardinality(A) <= k
  <2>1. IsFiniteSet(B)
    BY ZenonT(60), <1>3, <1>4, FS_Subset
  <2>2. Cardinality(A) <= Cardinality(B) /\ IsFiniteSet(A)
    BY ZenonT(60), <1>4, <2>1, FS_Subset
  <2>3. Cardinality(A) \in Nat /\ Cardinality(B) \in Nat
    BY ZenonT(60), <2>1, <2>2, FS_CardinalityType
  <2> QED BY <1>4, <2>2, <2>3
<1>5. Cardinality(DOMAIN tickets') <= maxOutstandingTickets
  BY Zenon, <1>1, <1>4 DEF TicketsOK
<1>6. \A u \in Users' : Cardinality(Held(u)') <= maxTicketsPerUser
  <2> SUFFICES ASSUME NEW u \in Users
               PROVE  Cardinality(Held(u)') <= maxTicketsPerUser
    BY Zenon DEF Users
  <2>1. Held(u)' \subseteq Held(u)
    <3> SUFFICES ASSUME NEW t \in DOMAIN tickets', tickets'[t].user = u, now' <= tickets'[t].until
                 PROVE  t \in DOMAIN tickets /\ tickets[t].user = u /\ now <= tickets[t].until
      BY Zenon DEF Held
    <3>1. t \in DOMAIN tickets /\ tickets'[t] = tickets[t] /\ tickets[t].until \in Int
      BY Zenon, <1>2
    <3>2. now <= tickets[t].until
      BY <3>1
    <3> QED BY Zenon, <3>1, <3>2
  <2>2. Held(u) \subseteq DOMAIN tickets /\ Cardinality(Held(u)) <= maxTicketsPerUser
    BY Zenon DEF TicketsOK, Held
  <2> QED BY ZenonT(60), <1>1, <1>4, <2>1, <2>2
<1>7. \A t \in DOMAIN tickets' : t \in 1..ghost'.issued /\ tickets'[t].until \in Int
  BY Zenon, <1>1, <1>2
<1>8. \A t \in ghost'.redeemed : t \in 1..ghost'.issued /\ t \notin DOMAIN tickets'
  BY Zenon, <1>1, <1>2
<1> QED BY ZenonT(60), <1>5, <1>6, <1>7, <1>8 DEF TicketsOK

\* A ticket is issued below both limits, after the expired ones are dropped, with
\* a number nobody had before.
LEMMA TicketIssued ==
    ASSUME HandlersOK, TicketsOK, NEW r \in Reqs, handleGetWSTicket(r)
    PROVE  TicketsOK'
<1> DEFINE w == req[r].user
           K == {t \in DOMAIN tickets : now <= tickets[t].until}
           n == ghost.issued + 1
<1>1. /\ UNCHANGED <<deployment, now>> /\ ghost' = [ghost EXCEPT !.issued = n]
      /\ tickets' = tickets \/ tickets' = issue(w)
  BY Zenon DEF handleGetWSTicket, Made
<1>2. ghost'.issued = n /\ ghost'.redeemed = ghost.redeemed /\ ghost'.twice = ghost.twice
  BY Zenon, <1>1 DEF HandlersOK, IsGhost
<1>3. /\ ghost.issued \in Nat /\ now \in Int /\ n \in Nat /\ ghost.issued <= n /\ now <= now
      /\ maxOutstandingTickets \in Nat /\ maxTicketsPerUser \in Nat
      /\ n \in 1..n /\ \A t \in 1..ghost.issued : t \in 1..n /\ t # n
  BY LimitsAssumption DEF TicketsOK, HandlersOK
<1>4. /\ \A t \in DOMAIN tickets : t \in 1..ghost.issued /\ tickets[t].until \in Int
      /\ \A t \in ghost.redeemed : t \in 1..ghost.issued /\ t \notin DOMAIN tickets
      /\ ghost.twice = FALSE /\ tickets = [t \in DOMAIN tickets |-> tickets[t]]
  BY Zenon DEF TicketsOK
<1> DEFINE kept == [t \in K |-> tickets[t]]
<1>5. issue(w) = IF Cardinality(K) >= maxOutstandingTickets \/ Cardinality(Held(w)) >= maxTicketsPerUser THEN kept
                 ELSE With(kept, n, [user |-> w, until |-> now + wsTicketTTL])
  <2>1. RestrictValues(tickets, LAMBDA t : now <= t.until) = kept
    BY Zenon DEF RestrictValues, Restrict
  <2>2. DOMAIN kept = K /\ {t \in DOMAIN kept : kept[t].user = w} = Held(w)
    BY Zenon DEF Held
  <2> QED BY Zenon, <2>1, <2>2 DEF issue
<1>6. CASE tickets' = tickets
  BY ZenonT(60), <1>1, <1>2, <1>3, <1>4, <1>6, TicketsShrink
<1>7. CASE tickets' = kept
  <2>1. /\ DOMAIN tickets' \subseteq DOMAIN tickets /\ tickets' = [t \in DOMAIN tickets' |-> tickets'[t]]
        /\ \A t \in DOMAIN tickets' : tickets'[t] = tickets[t]
    BY Zenon, <1>7
  <2> HIDE DEF K, kept, n
  <2> QED BY ZenonT(60), <1>1, <1>2, <1>3, <1>4, <2>1, TicketsShrink
<1>8. CASE /\ tickets' = With(kept, n, [user |-> w, until |-> now + wsTicketTTL])
           /\ ~(Cardinality(K) >= maxOutstandingTickets) /\ ~(Cardinality(Held(w)) >= maxTicketsPerUser)
  <2>1. /\ DOMAIN tickets' = K \cup {n} /\ tickets' = [t \in DOMAIN tickets' |-> tickets'[t]]
        /\ tickets'[n] = [user |-> w, until |-> now + wsTicketTTL] /\ \A t \in K : t # n => tickets'[t] = tickets[t]
    BY Zenon, <1>8 DEF With
  <2>2. n \notin DOMAIN tickets /\ n \notin K /\ K \subseteq DOMAIN tickets /\ n \notin ghost.redeemed
    BY Zenon, <1>3, <1>4
  <2>3. tickets'[n].user = w /\ tickets'[n].until \in Int /\ now <= tickets'[n].until
    BY <1>3, <2>1 DEF wsTicketTTL
  <2>4. IsFiniteSet(DOMAIN tickets)
    <3>1. IsFiniteSet(1..ghost.issued)
      BY <1>3, FS_Interval
    <3> QED BY ZenonT(60), <1>4, <3>1, FS_Subset
  <2> HIDE DEF K, kept, n, w
  <2>5. ASSUME NEW A, A \subseteq DOMAIN tickets, NEW m \in Nat, ~(Cardinality(A) >= m)
        PROVE  Cardinality(A \cup {n}) <= m
    <3>1. IsFiniteSet(A) /\ n \notin A
      BY ZenonT(60), <2>2, <2>4, <2>5, FS_Subset
    <3>2. Cardinality(A \cup {n}) = Cardinality(A) + 1
      BY Zenon, <3>1, FS_AddElement
    <3>3. Cardinality(A) \in Nat
      BY Zenon, <3>1, FS_CardinalityType
    <3> QED BY <2>5, <3>2, <3>3
  <2>6. Cardinality(DOMAIN tickets') <= maxOutstandingTickets
    BY ZenonT(60), <1>3, <1>8, <2>1, <2>2, <2>5
  <2>7. \A u \in Users' : Cardinality(Held(u)') <= maxTicketsPerUser
    <3> SUFFICES ASSUME NEW u \in Users
                 PROVE  Cardinality(Held(u)') <= maxTicketsPerUser
      BY Zenon, <1>1 DEF Users
    <3>1. CASE u = w
      <4>1. Held(u)' = Held(w) \cup {n}
        BY ZenonT(60), <1>1, <2>1, <2>2, <2>3, <3>1 DEF Held, K
      <4>2. Held(w) \subseteq DOMAIN tickets
        BY Zenon DEF Held
      <4> QED BY ZenonT(60), <1>3, <1>8, <2>5, <4>1, <4>2
    <3>2. CASE u # w
      <4>1. Held(u)' = Held(u)
        BY ZenonT(60), <1>1, <2>1, <2>2, <2>3, <3>2 DEF Held, K
      <4> QED BY Zenon, <4>1 DEF TicketsOK
    <3> QED BY Zenon, <3>1, <3>2
  <2>8. \A t \in DOMAIN tickets' : t \in 1..ghost'.issued /\ tickets'[t].until \in Int
    BY ZenonT(60), <1>2, <1>3, <1>4, <2>1, <2>2, <2>3
  <2>9. \A t \in ghost'.redeemed : t \in 1..ghost'.issued /\ t \notin DOMAIN tickets'
    BY ZenonT(60), <1>2, <1>3, <1>4, <2>1, <2>2
  <2> QED BY ZenonT(60), <1>2, <1>3, <1>4, <2>1, <2>6, <2>7, <2>8, <2>9 DEF TicketsOK
<1> QED BY ZenonT(60), <1>1, <1>5, <1>6, <1>7, <1>8

-----------------------------------------------------------------------------
(* The steps together. *)

\* Whatever the statement, the handler stays in order; only ReadLogin goes on to
\* compare a code, only POST and PUT of a token to store a row.
LEMMA HandlerMoved ==
    ASSUME HandlersOK, LoginsOK, NEW r \in Reqs, Handles(r)
    PROVE  /\ Moves(r)
           /\ req'[r].pc # "compare" \/ ReadLogin(r)
           /\ req'[r].pc # "upsert" \/ handlePostToken(r) \/ handlePutToken(r)
<1>1. CASE handlePostLogin(r) \/ BearerRequest(r) \/ BasicRequest(r)
  BY Zenon, <1>1, ArrivalMoves DEF Elsewhere
<1>2. CASE \/ LoginRefused(r) \/ HasExpired(r) \/ LogoutRefused(r) \/ Forget(r) \/ deleteUserSessionFromStorage(r)
           \/ Deny(r) \/ handleDeleteUser(r) \/ StoreTotPCodeInUser(r) \/ SaveToken(r) \/ handleDeleteToken(r)
           \/ Reads(r) \/ handleGetWSTicket(r) \/ MessageFails(r)
           \/ DeleteAllByUser(r) \/ NoSecondFactor(r) \/ SendToken(r) \/ Sent(r) \/ SetTotPLoginSession(r)
           \/ recordAuthSuccess(r) \/ Save(r) \/ Saved(r) \/ handleDeleteLogout(r) \/ WrongCode(r) \/ RightCode(r)
           \/ Change(r) \/ Unauthorized(r) \/ handleBasicAuth(r)
  BY Zenon, <1>2, SimpleMoves DEF Elsewhere
<1>3. CASE \/ LoginAccepted(r) \/ deleteUserSessionsFromStorage(r) \/ SetPendingPasswordChange(r)
           \/ CreateAuthToken(r) \/ Minted(r) \/ checkBearerToken(r) \/ updateTokenAccess(r)
  BY Zenon, <1>3, LoginMoves DEF Elsewhere
<1>4. CASE \/ DeleteByID(r) \/ handlePostVerify2FAToken(r) \/ Consume(r) \/ handleChangeMe(r) \/ handleChangeUser(r)
           \/ Enrols(r) \/ handleDeleteTotP(r) \/ StatementFails(r)
  BY Zenon, <1>4, HandlerMoves DEF Elsewhere
<1>5. CASE ReadLogin(r) \/ handlePostToken(r) \/ handlePutToken(r)
  BY Zenon, <1>5, NotedMoves
<1> QED BY ZenonT(60), <1>1, <1>2, <1>3, <1>4, <1>5 DEF Handles

\* What no handler changes, and the statements that change the ban list and the
\* signed tokens.
LEMMA HandlerFrame ==
    ASSUME NEW r \in Reqs, Handles(r)
    PROVE  /\ UNCHANGED <<deployment, now>>
           /\ UNCHANGED jwts \/ Minted(r)
           /\ \/ UNCHANGED bans \/ LoginRefused(r) \/ LoginAccepted(r) \/ recordAuthSuccess(r) \/ Unauthorized(r)
              \/ LogoutRefused(r) \/ Deny(r) \/ handleBasicAuth(r)
<1>1. CASE Quiet(r)
  BY ZenonT(60), <1>1 DEF Quiet, LoginRefused, LoginAccepted, Change, DeleteAllByUser, deleteUserSessionsFromStorage,
     HasExpired, NoSecondFactor, SendToken, recordAuthSuccess, Minted, Unauthorized, checkBearerToken, updateTokenAccess,
     Save, Saved, handleDeleteLogout, LogoutRefused, Forget, DeleteByID, deleteUserSessionFromStorage,
     handlePostVerify2FAToken, ReadLogin, Deny, handleChangeMe, handleChangeUser, handleDeleteUser, handleDeleteTotP,
     StoreTotPCodeInUser, handlePutToken, Reads, dataVars
<1>2. CASE Counting(r)
  BY ZenonT(60), <1>2 DEF Counting, handlePostLogin, BearerRequest, BasicRequest, CreateAuthToken, Enrols, MessageFails,
     StatementFails, dataVars
<1>3. CASE \/ Sent(r) \/ SetTotPLoginSession(r) \/ SetPendingPasswordChange(r) \/ WrongCode(r) \/ RightCode(r) \/ Consume(r)
           \/ handlePostToken(r) \/ SaveToken(r) \/ handleDeleteToken(r) \/ handleBasicAuth(r) \/ handleGetWSTicket(r)
  BY ZenonT(60), <1>3 DEF Sent, SetTotPLoginSession, SetPendingPasswordChange, WrongCode, RightCode, Consume,
     handlePostToken, SaveToken, handleDeleteToken, handleBasicAuth, handleGetWSTicket, dataVars
<1> QED BY ZenonT(60), <1>1, <1>2, <1>3 DEF Handles, Quiet, Counting

\* Each part of the invariant is disturbed by its own few actions.
LEMMA HandlerStep ==
    ASSUME AccessInv, NEW r \in Reqs, Handles(r)
    PROVE  AccessInv'
<1>0. HandlersOK /\ TokensOK /\ LoginsOK /\ StepsOK /\ BansOK(bans) /\ TicketsOK
  BY Zenon DEF AccessInv
<1>1. /\ Moves(r)
      /\ req'[r].pc # "compare" \/ ReadLogin(r)
      /\ req'[r].pc # "upsert" \/ handlePostToken(r) \/ handlePutToken(r)
  BY Zenon, <1>0, HandlerMoved
<1>2. /\ UNCHANGED deployment /\ UNCHANGED now /\ (UNCHANGED jwts \/ Minted(r))
      /\ \/ UNCHANGED bans \/ LoginRefused(r) \/ LoginAccepted(r) \/ recordAuthSuccess(r) \/ Unauthorized(r)
         \/ LogoutRefused(r) \/ Deny(r) \/ handleBasicAuth(r)
  BY Zenon, HandlerFrame
<1>3. /\ IsGhost(ghost')
      /\ TokensSame \/ handlePostToken(r) \/ SaveToken(r) \/ handleDeleteToken(r) \/ handleBasicAuth(r)
      /\ \/ LoginsSame \/ Sent(r) \/ SetTotPLoginSession(r) \/ SetPendingPasswordChange(r) \/ WrongCode(r) \/ Consume(r)
      /\ StepsSame \/ RightCode(r)
      /\ TicketsSame \/ handleGetWSTicket(r)
  <2>1. CASE Quiet(r) \/ Counting(r)
    BY Zenon, <1>0, <2>1, QuietSame DEF AllSame
  <2>2. CASE \/ Sent(r) \/ SetTotPLoginSession(r) \/ SetPendingPasswordChange(r) \/ WrongCode(r) \/ RightCode(r) \/ Consume(r)
             \/ handlePostToken(r) \/ SaveToken(r) \/ handleDeleteToken(r) \/ handleBasicAuth(r) \/ handleGetWSTicket(r)
    BY ZenonT(60), <1>0, <2>2, OtherSame
  <2> QED BY Zenon, <2>1, <2>2 DEF Handles, Quiet, Counting
<1>4. HandlersOK'
  BY ZenonT(60), <1>0, <1>1, <1>2, <1>3, HandlersKept
<1>5. TokensOK'
  BY ZenonT(60), <1>0, <1>1, <1>3, TokensKept, TokensAsked, TokenWritten, TokenDeleted, TokenUsed
<1>6. LoginsOK'
  BY ZenonT(60), <1>0, <1>1, <1>3, LoginsKept, LoginMade, LoginTouched, LoginRead, LoginFails
<1>7. StepsOK'
  BY ZenonT(60), <1>0, <1>2, <1>3, StepsKept, StepAccepted
<1>8. BansOK(bans)'
  <2>1. BansOK(bans')
    BY ZenonT(60), <1>0, <1>2, BansStep
  <2> QED BY ZenonT(60), <1>2, <2>1 DEF BansOK, IsBans, Addresses, VisitorOK, IsVisitor
<1>9. TicketsOK'
  BY ZenonT(60), <1>0, <1>2, <1>3, TicketsKept, TicketIssued
<1> QED BY ZenonT(60), <1>4, <1>5, <1>6, <1>7, <1>8, <1>9 DEF AccessInv

\* Steps that move no handler.
LEMMA Unmoved ==
    ASSUME HandlersOK, TokensOK, LoginsOK, UNCHANGED <<req, deployment, jwts>>, now' \in Int, IsGhost(ghost'),
           TokensSame, LoginsSame
    PROVE  HandlersOK' /\ TokensOK' /\ LoginsOK'
<1>1. HandlersOK'
  BY ZenonT(60) DEF HandlersOK, RequestOK, IsRequest, Users, Addresses
<1>2. TokensOK'
  BY Zenon DEF TokensOK, TokensSame, At, Inserts, IsTokenRow
<1>3. LoginsOK'
  <2>1. \A q \in Reqs : At(q, "compare")' => At(q, "compare") /\ req'[q] = req[q]
    BY Zenon DEF At
  <2>2. /\ ghost'.logins = ghost.logins /\ ghost'.tried = ghost.tried /\ pending' = pending
        /\ pending = [u \in Users |-> pending[u]] /\ \A u \in Users : IsLogin(pending[u])
    BY Zenon DEF LoginsOK, LoginsSame
  <2> QED BY ZenonT(60), <2>1, <2>2, LoginsShrink
<1> QED BY ZenonT(60), <1>1, <1>2, <1>3

\* The opening of a web socket redeems a ticket.
LEMMA SocketStep ==
    ASSUME AccessInv, NEW a \in Addresses, wsAuth(a)
    PROVE  AccessInv'
<1>0. HandlersOK /\ TokensOK /\ LoginsOK /\ StepsOK /\ BansOK(bans) /\ TicketsOK
  BY Zenon DEF AccessInv
<1>1. PICK t \in 1..ghost.issued :
         /\ tickets' = redeem(t)
         /\ bans' \in {bans, AddBadAttempt(bans, a)}
         /\ \/ ghost' = ghost
            \/ /\ t \in DOMAIN tickets
               /\ ghost' = [ghost EXCEPT !.redeemed = ghost.redeemed \cup {t}, !.twice = ghost.twice \/ t \in ghost.redeemed]
         /\ UNCHANGED <<deployment, now, accounts, pending, lastTotPStep, table, cache, jwts, tokens, req>>
  BY Zenon DEF wsAuth, handleBannedIPs
<1>2. IsGhost(ghost) /\ now \in Int /\ now <= now /\ ghost.issued \in Nat /\ ghost.issued <= ghost.issued
  BY <1>0 DEF HandlersOK, TicketsOK
<1>3. ghost.twice = FALSE /\ \A x \in ghost.redeemed : x \notin DOMAIN tickets
  BY Zenon, <1>0 DEF TicketsOK
<1>4. /\ IsGhost(ghost') /\ TokensSame /\ LoginsSame /\ StepsSame /\ ghost'.issued = ghost.issued
      /\ ghost'.twice = FALSE /\ \A x \in ghost'.redeemed : x \in ghost.redeemed \/ (x = t /\ t \in DOMAIN tickets)
  <2>1. CASE ghost' = ghost
    BY ZenonT(60), <1>1, <1>2, <1>3, <2>1 DEF TokensSame, LoginsSame, StepsSame
  <2>2. CASE /\ t \in DOMAIN tickets
             /\ ghost' = [ghost EXCEPT !.redeemed = ghost.redeemed \cup {t}, !.twice = ghost.twice \/ t \in ghost.redeemed]
    <3>1. /\ IsGhost(ghost') /\ ghost'.tokens = ghost.tokens /\ ghost'.revoked = ghost.revoked
          /\ ghost'.revived = ghost.revived /\ ghost'.logins = ghost.logins /\ ghost'.tried = ghost.tried
          /\ ghost'.steps = ghost.steps /\ ghost'.issued = ghost.issued
          /\ ghost'.redeemed = ghost.redeemed \cup {t} /\ ghost'.twice = (ghost.twice \/ t \in ghost.redeemed)
      BY Zenon, <1>2, <2>2 DEF IsGhost
    <3> QED BY ZenonT(60), <1>1, <1>3, <2>2, <3>1 DEF TokensSame, LoginsSame, StepsSame
  <2> QED BY ZenonT(60), <1>1, <2>1, <2>2
<1>5. /\ tickets' = [x \in DOMAIN tickets' |-> tickets'[x]] /\ DOMAIN tickets' = DOMAIN tickets \ {t}
      /\ \A x \in DOMAIN tickets' : tickets'[x] = tickets[x]
  BY Zenon, <1>1 DEF redeem, Minus, Restrict
<1>6. TicketsOK'
  <2>1. \A x \in ghost'.redeemed : x \notin DOMAIN tickets' /\ (x \in ghost.redeemed \/ x \in DOMAIN tickets)
    BY ZenonT(60), <1>3, <1>4, <1>5
  <2> QED BY ZenonT(60), <1>0, <1>1, <1>2, <1>4, <1>5, <2>1, TicketsShrink
<1>7. HandlersOK' /\ TokensOK' /\ LoginsOK'
  BY ZenonT(60), <1>0, <1>1, <1>2, <1>4, Unmoved
<1>8. StepsOK'
  BY ZenonT(60), <1>0, <1>1, <1>4, StepsKept
<1>9. BansOK(bans)'
  <2>1. BansOK(bans')
    <3>1. BansOK(AddBadAttempt(bans, a))
      BY Zenon, <1>0, Charged
    <3> QED BY ZenonT(60), <1>0, <1>1, <3>1
  <2> QED BY Zenon, <1>1, <2>1 DEF BansOK, IsBans, Addresses, VisitorOK, IsVisitor
<1> QED BY ZenonT(60), <1>6, <1>7, <1>8, <1>9 DEF AccessInv

\* Time passes, and the clean-up of expired sessions.
LEMMA ClockStep ==
    ASSUME AccessInv, Tick \/ DeleteExpired \/ UNCHANGED accessVars
    PROVE  AccessInv'
<1>0. HandlersOK /\ TokensOK /\ LoginsOK /\ StepsOK /\ BansOK(bans) /\ TicketsOK
  BY Zenon DEF AccessInv
<1>1. /\ UNCHANGED <<deployment, pending, lastTotPStep, jwts, tokens, tickets, bans, req, ghost>>
      /\ now' = now \/ now' = now + 1
  BY Zenon DEF Tick, DeleteExpired, accessVars
<1>2. IsGhost(ghost) /\ now \in Int /\ now' \in Int /\ now <= now' /\ ghost.issued \in Nat /\ ghost.issued <= ghost.issued
  BY <1>0, <1>1 DEF HandlersOK, TicketsOK
<1>3. TokensSame /\ LoginsSame /\ StepsSame
  BY Zenon, <1>1 DEF TokensSame, LoginsSame, StepsSame
<1>4. HandlersOK' /\ TokensOK' /\ LoginsOK'
  BY ZenonT(60), <1>0, <1>1, <1>2, <1>3, Unmoved
<1>5. TicketsOK'
  <2>1. /\ tickets = [x \in DOMAIN tickets |-> tickets[x]] /\ ghost.twice = FALSE
        /\ \A x \in ghost.redeemed : x \notin DOMAIN tickets
    BY Zenon, <1>0 DEF TicketsOK
  <2> QED BY ZenonT(60), <1>0, <1>1, <1>2, <2>1, TicketsShrink
<1>6. StepsOK'
  BY ZenonT(60), <1>0, <1>1, <1>3, StepsKept
<1>7. BansOK(bans)'
  BY ZenonT(60), <1>0, <1>1 DEF BansOK, IsBans, Addresses, VisitorOK, IsVisitor
<1> QED BY ZenonT(60), <1>4, <1>5, <1>6, <1>7 DEF AccessInv

\* An empty ban list is in order.
LEMMA NoBans ==
    ASSUME NEW f
    PROVE  BansOK([user |-> f, ip |-> [a \in Addresses |-> NoVisitor]])
<1>1. VisitorOK(NoVisitor)
  <2>1. IsVisitor(NoVisitor) /\ NoVisitor.bad = 0 /\ NoVisitor.codes = 0
    BY Zenon DEF IsVisitor, NoVisitor
  <2> QED BY <2>1, LimitsAssumption DEF VisitorOK
<1> QED BY Zenon, <1>1 DEF BansOK, IsBans

\* A restart: no handler is left, and the logins, tickets and bans are gone.
LEMMA RestartStep ==
    ASSUME AccessInv, Restart
    PROVE  AccessInv'
<1>0. HandlersOK /\ TokensOK /\ LoginsOK /\ StepsOK /\ BansOK(bans) /\ TicketsOK
  BY Zenon DEF AccessInv
<1>1. /\ "restart" \in deployment.faults /\ \E x : ghost' = [ghost EXCEPT !.faults = x]
      /\ pending' = [u \in Users |-> NoLogin] /\ tickets' = <<>> /\ req' = [r \in Reqs |-> Idle]
      /\ bans' = [user |-> [k \in Addresses \X Users |-> 0], ip |-> [a \in Addresses |-> NoVisitor]]
      /\ UNCHANGED <<deployment, now, jwts, tokens>>
  BY Zenon DEF Restart, Fault
<1>2. /\ IsGhost(ghost') /\ TokensSame /\ ghost'.logins = ghost.logins /\ ghost'.tried = ghost.tried
      /\ ghost'.issued = ghost.issued /\ ghost'.redeemed = ghost.redeemed /\ ghost'.twice = ghost.twice
  BY ZenonT(60), <1>0, <1>1 DEF HandlersOK, IsGhost, TokensSame
<1>3. RequestOK(Idle) /\ Idle.pc = "idle"
  BY DEF RequestOK, IsRequest, Idle, NewRequest
<1>4. req' = [q \in Reqs |-> req'[q]] /\ \A q \in Reqs : req'[q] = Idle /\ req'[q].pc = "idle"
  BY ZenonT(60), <1>1, <1>3
<1>5. HandlersOK'
  <2>1. \A q \in Reqs : RequestOK(req[q])'
    BY ZenonT(60), <1>1, <1>3, <1>4 DEF RequestOK, IsRequest, Users, Addresses
  <2> QED BY ZenonT(60), <1>0, <1>1, <1>2, <1>4, <2>1 DEF HandlersOK, Users
<1>6. TokensOK'
  <2>1. \A q \in Reqs : ~At(q, "upsert")' /\ ~Inserts(q)'
    BY Zenon, <1>4 DEF At, Inserts
  <2>2. /\ tokens' = [t \in DOMAIN tokens' |-> tokens'[t]] /\ ghost'.tokens \in Nat
        /\ \A t \in DOMAIN tokens' : t \in 1..ghost'.tokens /\ IsTokenRow(tokens[t])'
        /\ \A t \in ghost'.revoked : t \in 1..ghost'.tokens /\ (t \in DOMAIN tokens' => tokens'[t].hash = 0)
        /\ ghost'.revived = FALSE
    BY ZenonT(60), <1>0, <1>2 DEF TokensOK, TokensSame, IsTokenRow
  <2> QED BY Zenon, <2>1, <2>2 DEF TokensOK
<1>7. LoginsOK'
  <2>1. \A q \in Reqs : At(q, "compare")' => At(q, "compare") /\ req'[q] = req[q]
    BY Zenon, <1>4 DEF At
  <2>2. IsLogin(NoLogin) /\ NoLogin.id = 0 /\ NoLogin.failures = 0
    BY Zenon DEF IsLogin, NoLogin
  <2>3. pending' = [u \in Users |-> pending'[u]] /\ \A u \in Users : pending'[u] = NoLogin
    BY Zenon, <1>1
  <2> QED BY ZenonT(60), <1>0, <1>1, <1>2, <2>1, <2>2, <2>3, LoginsShrink
<1>8. StepsOK'
  BY Zenon, <1>1 DEF StepsOK
<1>9. BansOK(bans)'
  <2>1. BansOK(bans')
    BY Zenon, <1>1, NoBans
  <2> QED BY Zenon, <1>1, <2>1 DEF BansOK, IsBans, Addresses, VisitorOK, IsVisitor
<1>10. TicketsOK'
  <2>1. DOMAIN tickets' = {} /\ tickets' = [t \in DOMAIN tickets' |-> tickets'[t]]
    BY SMT, <1>1
  <2>2. now \in Int /\ now' \in Int /\ now <= now' /\ ghost.issued \in Nat /\ ghost.issued <= ghost'.issued
    BY <1>0, <1>1, <1>2 DEF HandlersOK, TicketsOK
  <2>3. ghost'.twice = FALSE
    BY Zenon, <1>0, <1>2 DEF TicketsOK
  <2> QED BY ZenonT(60), <1>0, <1>1, <1>2, <2>1, <2>2, <2>3, TicketsShrink
<1> QED BY ZenonT(60), <1>5, <1>6, <1>7, <1>8, <1>9, <1>10 DEF AccessInv

\* The invariant holds when the server starts for the first time.
LEMMA InitHolds ==
    ASSUME Init
    PROVE  AccessInv
<1>1. /\ deployment \in Deployments /\ now = 0 /\ tokens = <<>> /\ tickets = <<>> /\ req = [r \in Reqs |-> Idle]
      /\ pending = [u \in Users |-> NoLogin] /\ lastTotPStep = [u \in Users |-> -2]
      /\ bans = [user |-> [k \in Addresses \X Users |-> 0], ip |-> [a \in Addresses |-> NoVisitor]]
      /\ \E x, y : ghost = [faults |-> 0, sent |-> x, sessions |-> y, logins |-> 0, secrets |-> 1, tokens |-> 0,
                            issued |-> 0, redeemed |-> {}, twice |-> FALSE, steps |-> <<>>, tried |-> <<>>,
                            revoked |-> {}, revived |-> FALSE]
  BY Zenon DEF Init
<1>2. /\ IsGhost(ghost) /\ ghost.logins = 0 /\ ghost.tokens = 0 /\ ghost.issued = 0 /\ ghost.redeemed = {} /\ ghost.twice = FALSE
      /\ ghost.steps = <<>> /\ ghost.tried = <<>> /\ ghost.revoked = {} /\ ghost.revived = FALSE
  <2>1. PICK x, y : ghost = [faults |-> 0, sent |-> x, sessions |-> y, logins |-> 0, secrets |-> 1, tokens |-> 0,
                             issued |-> 0, redeemed |-> {}, twice |-> FALSE, steps |-> <<>>, tried |-> <<>>,
                             revoked |-> {}, revived |-> FALSE]
    BY Zenon, <1>1
  <2> QED BY Zenon, <2>1 DEF IsGhost
<1>3. RequestOK(Idle) /\ Idle.pc = "idle"
  BY DEF RequestOK, IsRequest, Idle, NewRequest
<1>4. req = [q \in Reqs |-> req[q]] /\ \A q \in Reqs : req[q] = Idle
  BY Zenon, <1>1
<1>5. DOMAIN <<>> = {} /\ <<>> = [t \in DOMAIN <<>> |-> <<>>[t]] /\ 0 \in Int /\ 0 \in Nat /\ -2 \in Int /\ 1..0 = {} /\ 0 \in 0..0
  BY SMT
<1>6. HandlersOK
  <2>1. \A j \in jwts : j.user \in Users
    <3>1. deployment.loggedIn \subseteq deployment.users
      BY Zenon, <1>1, DeploymentsAssumption
    <3>2. PICK ids \in Bijection(deployment.loggedIn, 1..Cardinality(deployment.loggedIn)) :
             /\ table = [s \in Range(ids) |-> [user |-> CHOOSE u \in deployment.loggedIn : ids[u] = s, until |-> 2]]
             /\ jwts = {[sid |-> ids[u], user |-> u, scope |-> ScopesAllExcluding2FaCheck, exp |-> 2] : u \in deployment.loggedIn}
      BY Zenon DEF Init
    <3>3. \A j \in jwts : j.user \in deployment.loggedIn
      BY <3>2
    <3> QED BY Zenon, <3>1, <3>3 DEF Users
  <2> QED BY ZenonT(60), <1>1, <1>2, <1>3, <1>4, <1>5, <2>1 DEF HandlersOK
<1>7. TokensOK
  <2>1. \A q \in Reqs : ~At(q, "upsert") /\ ~Inserts(q)
    BY Zenon, <1>3, <1>4 DEF At, Inserts
  <2> QED BY ZenonT(60), <1>1, <1>2, <1>5, <2>1 DEF TokensOK
<1>8. LoginsOK
  <2>1. \A q \in Reqs : ~At(q, "compare")
    BY Zenon, <1>3, <1>4 DEF At
  <2>2. IsLogin(NoLogin) /\ NoLogin.id = 0 /\ NoLogin.failures = 0
    BY Zenon DEF IsLogin, NoLogin
  <2>3. pending = [u \in Users |-> pending[u]] /\ \A u \in Users : pending[u] = NoLogin
    BY Zenon, <1>1
  <2>4. 0 < maxTwoFAFailures
    BY LimitsAssumption
  <2> QED BY ZenonT(60), <1>2, <1>5, <2>1, <2>2, <2>3, <2>4 DEF LoginsOK
<1>9. StepsOK
  <2>1. lastTotPStep \in [Users -> Int]
    BY Zenon, <1>1, <1>5
  <2> QED BY Zenon, <1>2, <1>5, <2>1 DEF StepsOK
<1>10. BansOK(bans)
  BY Zenon, <1>1, NoBans
<1>11. TicketsOK
  <2>1. Cardinality({}) = 0 /\ 0 <= maxOutstandingTickets /\ 0 <= maxTicketsPerUser
    BY FS_EmptySet, LimitsAssumption
  <2>2. DOMAIN tickets = {} /\ \A u \in Users : Held(u) = {}
    BY Zenon, <1>1, <1>5 DEF Held
  <2> QED BY ZenonT(60), <1>1, <1>2, <1>5, <2>1, <2>2 DEF TicketsOK
<1> QED BY ZenonT(60), <1>6, <1>7, <1>8, <1>9, <1>10, <1>11 DEF AccessInv

(***************************************************************************)
(* The invariant holds in every reachable state.                           *)
(***************************************************************************)
THEOREM AccessInvariant == Spec => []AccessInv
<1>1. Init => AccessInv
  BY Zenon, InitHolds
<1>2. ASSUME AccessInv, [Next]_accessVars
      PROVE  AccessInv'
  <2>1. CASE \E r \in Reqs : Handles(r)
    BY Zenon, <1>2, <2>1, HandlerStep
  <2>2. CASE \E a \in Addresses : wsAuth(a)
    BY Zenon, <1>2, <2>2, SocketStep
  <2>3. CASE DeleteExpired \/ Tick \/ UNCHANGED accessVars
    BY Zenon, <1>2, <2>3, ClockStep
  <2>4. CASE Restart
    BY Zenon, <1>2, <2>4, RestartStep
  <2> QED BY ZenonT(60), <1>2, <2>1, <2>2, <2>3, <2>4 DEF Next
<1> QED BY <1>1, <1>2, PTL DEF Spec

(***************************************************************************)
(* What was used up opens nothing again, with any number of handlers at    *)
(* the same time: acceptTotPStep decides and records in one stretch, a     *)
(* ticket leaves the store with the request that presents it, and the row  *)
(* that a late PUT writes for a deleted API token has no hash.             *)
(***************************************************************************)
THEOREM SpentStaysSpentAlways == Spec => []SpentStaysSpent
<1>1. AccessInv => SpentStaysSpent
  <2> SUFFICES ASSUME AccessInv
               PROVE  SpentStaysSpent
    BY Zenon
  <2>1. ASSUME "restart" \notin deployment.faults, NEW k \in DOMAIN ghost.steps
        PROVE  ghost.steps[k] <= 1
    <3>1. ghost.steps[k] = 1
      BY Zenon, <2>1 DEF AccessInv, StepsOK
    <3> QED BY <3>1
  <2>2. ~ghost.twice /\ ~ghost.revived
    BY Zenon DEF AccessInv, TokensOK, TicketsOK
  <2> QED BY Zenon, <2>1, <2>2 DEF SpentStaysSpent
<1> QED BY <1>1, AccessInvariant, PTL

(***************************************************************************)
(* The limits hold, for any limits, users and addresses: wrong codes of    *)
(* one pending login, failed second factors of one address, live tickets   *)
(* of one user and tickets in the store.                                   *)
(***************************************************************************)
THEOREM LimitsHoldAlways == Spec => []LimitsHold
<1>1. AccessInv => LimitsHold
  <2> SUFFICES ASSUME AccessInv
               PROVE  LimitsHold
    BY Zenon
  <2>1. ASSUME NEW id \in DOMAIN ghost.tried
        PROVE  ghost.tried[id] < maxTwoFAFailures + Cardinality(Reqs)
    <3>1. LoginsOK /\ id \in 1..ghost.logins /\ Count(ghost.tried, id) = ghost.tried[id] /\ Count(ghost.tried, id) \in Nat
      BY Zenon, <2>1 DEF AccessInv, LoginsOK, Count
    <3>2. Count(ghost.tried, id) + Cardinality({}) < maxTwoFAFailures + Cardinality(Reqs)
      BY Zenon, <3>1, Below
    <3>3. Cardinality({}) = 0
      BY Zenon, FS_EmptySet
    <3>4. Cardinality(Reqs) \in Nat /\ maxTwoFAFailures \in Nat
      BY ZenonT(60), FS_CardinalityType, LimitsAssumption
    <3> QED BY <3>1, <3>2, <3>3, <3>4
  <2>2. ASSUME NEW a \in Addresses
        PROVE  bans.ip[a].codes < maxBadAttempts
    <3>1. VisitorOK(bans.ip[a])
      BY Zenon, <2>2 DEF AccessInv, BansOK
    <3> QED BY <3>1, LimitsAssumption DEF VisitorOK
  <2>3. /\ Cardinality(DOMAIN tickets) <= maxOutstandingTickets
        /\ \A u \in Users : Cardinality({t \in DOMAIN tickets : tickets[t].user = u /\ now <= tickets[t].until}) <= maxTicketsPerUser
    BY Zenon DEF AccessInv, TicketsOK, Held
  <2> QED BY ZenonT(60), <2>1, <2>2, <2>3 DEF LimitsHold
<1> QED BY <1>1, AccessInvariant, PTL
=============================================================================
