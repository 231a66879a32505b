------------------------------ MODULE AuditLog ------------------------------
(* The audit log: entries of handlers are appended to a database whose rows are  *)
(* chained by keyed hashes; a ticker closes the database, renames it to a name   *)
(* made of the instant, opens a new one and removes the oldest rotated files     *)
(* beyond the retention. Readers and writers share a lock the rotation takes     *)
(* alone; writers of a chained log are serialised by a second lock.              *)
(*                                                                               *)
(* db.live is the sequence of rows of auditlog.db and db.rotated maps the name   *)
(* of a rotated file to its rows. mem.provider is "open", "nil" after a reopen   *)
(* that failed, or "closed". A hash is the tuple it is computed from.            *)
EXTENDS Service

AuditAt(r, pc) == Serves("audit") /\ ~mem.crashed /\ reqs[r].pc = pc
RotationAt(pc) == Serves("audit") /\ ~mem.crashed /\ mem.rotation.pc = pc
NotRotating == [pc |-> "idle", name |-> 0]
NoBody == [kind |-> "leaf", text |-> ""]

---------------------------------------------------------------------------
(* What a handler records: bodies are trees of maps and texts; the value of a    *)
(* secret field is replaced at any depth, unless it is empty.                    *)
secretFields == {"password"}
isSet(v) == v # NoBody
Redacted == [kind |-> "leaf", text |-> "[redacted]"]

RECURSIVE redactValue(_)
redactValue(v) ==
    IF v.kind = "leaf" THEN v
    ELSE [v EXCEPT !.fields = [k \in DOMAIN v.fields |->
             IF k \in secretFields /\ isSet(v.fields[k]) THEN Redacted ELSE redactValue(v.fields[k])]]

(* Where a secret is supplied, as the paths of keys that lead to it.             *)
RECURSIVE Exposed(_)
Exposed(v) == v.kind # "leaf" /\ \E k \in DOMAIN v.fields :
                 \/ k \in secretFields /\ v.fields[k] \notin {NoBody, Redacted}
                 \/ Exposed(v.fields[k])

---------------------------------------------------------------------------
(* The chain.                                                                    *)
computeMAC(key, e) == <<key, e.seq, e.prev, e.id, e.client>>
NoMAC == <<>>

Row(e) == [e EXCEPT !.mac = computeMAC(mem.key, e)]

(* The verdict on the rows of one file, in order of their numbers: the first     *)
(* chained row is taken as it is, each later one follows the one before.         *)
verifyChain(key, rows) ==
    LET chained == SelectSeq(rows, LAMBDA e : e.seq # 0)
    IN  \A i \in 1 .. Len(chained) :
            LET e == chained[i]
            IN  /\ i > 1 => e.seq = chained[i - 1].seq + 1 /\ e.prev = chained[i - 1].mac
                /\ e.mac = computeMAC(key, e)

NoHead == [seq |-> 0, mac |-> NoMAC]

loadChainHead(key, rows) ==
    LET chained == SelectSeq(rows, LAMBDA e : e.seq # 0)
    IN  IF key = "none" \/ chained = <<>> THEN NoHead ELSE [seq |-> chained[Len(chained)].seq, mac |-> chained[Len(chained)].mac]

AuditLogInit(deployments) ==
    /\ Started(deployments)
    /\ db = [live |-> <<>>, rotated |-> <<>>]
    /\ mem = [provider |-> "open", key |-> setup.key, head |-> NoHead, readers |-> {}, writer |-> "none",
              rotation |-> NotRotating, now |-> 1, crashed |-> FALSE]
    /\ ghost = [saved |-> <<>>, next |-> 1, exposed |-> FALSE, misread |-> FALSE]

---------------------------------------------------------------------------
(* Entry and its With... calls, then Save once for each client concerned.        *)
Entry(r) ==
    /\ Arrives("audit", r, "save") /\ ~mem.crashed
    /\ \E user \in setup.users, clients \in setup.concerns, body \in setup.bodies :
          IF setup.enabled
          THEN /\ Becomes(r, [pc |-> "save", clients |-> clients,
                              e |-> [id |-> ghost.next, user |-> user, at |-> mem.now, client |-> "none", body |-> redactValue(body),
                                     seq |-> 0, prev |-> NoMAC, mac |-> NoMAC]])
               /\ ghost' = [ghost EXCEPT !.next = @ + 1]
          ELSE UNCHANGED <<reqs, ghost>>
    /\ UNCHANGED <<db, mem>>

(* Save waits for a rotation, fails without a provider, and for a chained log    *)
(* waits for the other writer before it reads the head.                          *)
(* Breaks AuditKept: the head is read without the writers' lock.                 *)
MayWriteAnyTime == TRUE

MayWrite == mem.key = "none" \/ mem.writer = "none"

SaveLocks(r) ==
    /\ AuditAt(r, "save") /\ RotationAt("idle") /\ mem.provider # "nil" /\ MayWrite
    /\ LET named == [reqs[r].e EXCEPT !.client = Head(reqs[r].clients)]
           e == IF mem.key = "none" THEN named ELSE Row([named EXCEPT !.seq = mem.head.seq + 1, !.prev = mem.head.mac])
       IN  Becomes(r, [reqs[r] EXCEPT !.pc = "insert", !.e = e])
    /\ mem' = [mem EXCEPT !.readers = @ \cup {r}, !.writer = IF mem.key = "none" THEN @ ELSE r]
    /\ Quiet /\ UNCHANGED <<db, ghost>>

SaveUnavailable(r) ==
    /\ AuditAt(r, "save") /\ RotationAt("idle") /\ mem.provider = "nil"
    /\ IF Len(reqs[r].clients) > 1 THEN Becomes(r, [reqs[r] EXCEPT !.clients = Tail(@)]) ELSE Return(r)
    /\ Quiet /\ UNCHANGED <<db, mem, ghost>>

SaveForMultipleClients(r) ==
    IF Len(reqs[r].clients) > 1 THEN Becomes(r, [reqs[r] EXCEPT !.clients = Tail(@), !.pc = "save"]) ELSE Return(r)

Unlocked(m, r) == [m EXCEPT !.readers = @ \ {r}, !.writer = IF @ = r THEN "none" ELSE @]

Insert(r) ==
    /\ AuditAt(r, "insert") /\ mem.provider = "open"
    /\ LET e == reqs[r].e
       IN  /\ db' = [db EXCEPT !.live = Append(@, e)]
           /\ mem' = Unlocked(IF mem.key = "none" THEN mem ELSE [mem EXCEPT !.head = [seq |-> e.seq, mac |-> e.mac]], r)
           /\ ghost' = [ghost EXCEPT !.saved = Append(@, <<e.id, e.client>>), !.exposed = @ \/ Exposed(e.body)]
    /\ SaveForMultipleClients(r) /\ Quiet

InsertFails(r) ==
    /\ AuditAt(r, "insert")
    /\ IF mem.provider = "closed" THEN Quiet ELSE Fault("audit", "statement")
    /\ mem' = Unlocked(mem, r)
    /\ SaveForMultipleClients(r) /\ UNCHANGED <<db, ghost>>

---------------------------------------------------------------------------
(* The rotation, under the lock alone. Its first call closes the database        *)
(* without asking whether there is one: after a reopen that failed the process   *)
(* ends there.                                                                   *)
RotationDue(rows) == rows # <<>> /\ mem.now - Head(rows).at > setup.period

Tick == /\ Serves("audit") /\ ~mem.crashed /\ mem.rotation.pc = "idle"
        /\ "tick" \in DOMAIN setup.sends /\ budget.sent["tick"] < setup.sends["tick"]
        /\ budget' = [budget EXCEPT !.sent["tick"] = @ + 1]
        /\ mem' = [mem EXCEPT !.now = @ + 1, !.rotation.pc = IF mem.provider = "closed" THEN @ ELSE "due"]
        /\ UNCHANGED <<setup, db, reqs, ghost>>

ClockSetBack == /\ Fault("audit", "clock") /\ mem.now > 1
                /\ mem' = [mem EXCEPT !.now = @ - 1] /\ UNCHANGED <<db, reqs, ghost>>

rotatedName(now) == now

RotateCloses ==
    /\ RotationAt("due") /\ mem.readers = {}
    /\ LET name == rotatedName(mem.now)
       IN  mem' = IF mem.provider = "nil" THEN [mem EXCEPT !.crashed = TRUE]
                  ELSE [mem EXCEPT !.provider = "closed",
                                   !.rotation = [pc |-> IF name \in DOMAIN db.rotated THEN "reopen" ELSE "rename", name |-> name]]
    /\ Quiet /\ UNCHANGED <<db, reqs, ghost>>

RotateRenames ==
    /\ RotationAt("rename")
    /\ db' = [live |-> <<>>, rotated |-> mem.rotation.name :> db.live @@ db.rotated]
    /\ mem' = [mem EXCEPT !.rotation.pc = "open"]
    /\ Quiet /\ UNCHANGED <<reqs, ghost>>

RenameFails == /\ Fault("audit", "rename") /\ RotationAt("rename")
               /\ mem' = [mem EXCEPT !.rotation.pc = "reopen"] /\ UNCHANGED <<db, reqs, ghost>>

(* Rotated files beyond the retention are removed oldest first; a removal that   *)
(* fails ends the pruning and is logged.                                         *)
Beyond(files) == {n \in DOMAIN files : Cardinality({k \in DOMAIN files : k > n}) >= setup.retention}

pruneRotated(files) == IF setup.retention <= 0 THEN files ELSE Restrict(files, DOMAIN files \ Beyond(files))

RotateOpens ==
    /\ RotationAt("open")
    /\ mem' = [mem EXCEPT !.provider = "open", !.head = loadChainHead(mem.key, <<>>), !.rotation = NotRotating]
    /\ db' = [db EXCEPT !.rotated = pruneRotated(@)]
    /\ Quiet /\ UNCHANGED <<reqs, ghost>>

PruneFails ==
    /\ Fault("audit", "prune") /\ RotationAt("open")
    /\ mem' = [mem EXCEPT !.provider = "open", !.head = loadChainHead(mem.key, <<>>), !.rotation = NotRotating]
    /\ UNCHANGED <<db, reqs, ghost>>

(* The rotated file is put back before the reopen, if it can be; a reopen        *)
(* without it starts an empty log.                                               *)
OpenFails ==
    /\ Fault("audit", "open") /\ RotationAt("open")
    /\ \/ db' = [live |-> db.rotated[mem.rotation.name], rotated |-> Without(db.rotated, mem.rotation.name)]
       \/ UNCHANGED db
    /\ mem' = [mem EXCEPT !.rotation.pc = "reopen"]
    /\ UNCHANGED <<reqs, ghost>>

reopen ==
    /\ RotationAt("reopen")
    /\ mem' = [mem EXCEPT !.provider = "open", !.head = loadChainHead(mem.key, db.live), !.rotation = NotRotating]
    /\ Quiet /\ UNCHANGED <<db, reqs, ghost>>

(* The disk that failed before has not recovered.                                *)
ReopenFails ==
    /\ RotationAt("reopen") /\ "open" \in setup.faults
    /\ mem' = [mem EXCEPT !.provider = "nil", !.rotation = NotRotating]
    /\ Quiet /\ UNCHANGED <<db, reqs, ghost>>

CloseAudit(r) ==
    /\ Arrives("audit", r, "close") /\ RotationAt("idle") /\ mem.readers = {}
    /\ mem' = [mem EXCEPT !.provider = IF @ = "nil" THEN @ ELSE "closed"]
    /\ UNCHANGED <<db, reqs, ghost>>

(* A restart, orderly or not, possibly with another key configuration; a log     *)
(* whose oldest entry is older than the period is rotated at once.               *)
AuditRestart ==
    /\ Fault("audit", "restart")
    /\ \E key \in setup.keys :
          mem' = [mem EXCEPT !.provider = "open", !.key = key, !.readers = {}, !.writer = "none", !.crashed = FALSE,
                             !.head = loadChainHead(key, db.live),
                             !.rotation.pc = IF RotationDue(db.live) THEN "due" ELSE "idle"]
    /\ reqs' = [r \in Reqs |-> Idle]
    /\ UNCHANGED <<db, ghost>>

---------------------------------------------------------------------------
(* Listing: who is no administrator sees their own entries and may not filter by *)
(* user; the bound on the time is turned into UTC before it is compared.         *)
listOptionsFor(admin, user, e) == admin \/ e.user = user
normalizeTimestampFilters(since) == since.wall - since.offset

handleListAuditLog(r) ==
    /\ Arrives("audit", r, "list") /\ ~mem.crashed /\ RotationAt("idle") /\ mem.provider = "open"
    /\ \E user \in setup.users, admin \in BOOLEAN, offset \in {-1, 0, 1} :
          LET since == [wall |-> 2 + offset, offset |-> offset]
              listed == {e \in Range(db.live) : listOptionsFor(admin, user, e) /\ e.at >= normalizeTimestampFilters(since)}
          IN  ghost' = [ghost EXCEPT !.misread = @ \/ listed # {e \in Range(db.live) : (admin \/ e.user = user) /\ e.at >= 2}]
    /\ UNCHANGED <<db, mem, reqs>>

---------------------------------------------------------------------------
AuditLogNext ==
    \/ \E r \in Reqs : \/ Entry(r)
                       \/ SaveLocks(r)
                       \/ SaveUnavailable(r)
                       \/ Insert(r)
                       \/ InsertFails(r)
                       \/ CloseAudit(r)
                       \/ handleListAuditLog(r)
    \/ Tick
    \/ ClockSetBack
    \/ RotateCloses
    \/ RotateRenames
    \/ RenameFails
    \/ RotateOpens
    \/ PruneFails
    \/ OpenFails
    \/ reopen
    \/ ReopenFails
    \/ AuditRestart

---------------------------------------------------------------------------
Files == {db.live} \cup Range(db.rotated)
Holding(k) == {rows \in Files : \E i \in DOMAIN rows : <<rows[i].id, rows[i].client>> = k}

(* Saved entries are neither lost nor doubled by the rotation: each is in one    *)
(* file, once, unless retention has removed its file, and then all that was      *)
(* saved before it is gone as well; every file's chain verifies under the key,   *)
(* whatever writers, rotations, failures and restarts came between; no body      *)
(* holds a secret, and a listing shows what its user may see from the instant    *)
(* they named. (server/auditlog: sqlite.go Save, chain.go verifyChain,           *)
(* rotation.go rotate and pruneRotated, redact.go, auditlog.go List)             *)
AuditKept ==
    Serves("audit") =>
        /\ \A rows \in Files : verifyChain(setup.key, rows)
        /\ \A rows \in Files : IsInjective([i \in DOMAIN rows |-> <<rows[i].id, rows[i].client>>])
        /\ \A i \in DOMAIN ghost.saved :
              \/ Cardinality(Holding(ghost.saved[i])) = 1
              \/ setup.retention > 0 /\ \A j \in 1 .. i : Holding(ghost.saved[j]) = {}
        /\ ~ghost.exposed /\ ~ghost.misread

(* A rotation that could not reopen the database leaves an audit log whose       *)
(* callers get an error; it does not end the process.                            *)
(* (server/auditlog/rotation.go:64, errAuditLogUnavailable)                      *)
RotationSurvives == Serves("audit") => ~mem.crashed
=============================================================================
