------------------------------- MODULE AtRest -------------------------------
(* What the server encrypts in its tables: the output and the error of a job and *)
(* the TOTP secret of a user, each sealed under the key of the key provider when *)
(* it is written, and what an older server has left in the clear when the server *)
(* starts. The start also takes the credentials out of the stored clients and    *)
(* refuses a table of users with a password in the clear.                        *)
(* A stored field is a text and the keys it has been sealed under, the last one  *)
(* outermost; the text "enc:v1:x" only looks sealed. mem.pc: what the start is   *)
(* at, mem.rows: the rows it has yet to change. ghost.said: what was saved last, *)
(* ghost.under: the key in use then, ghost.ran: every key the server has had.    *)
EXTENDS Service
LOCAL INSTANCE SequencesExt

Clear(text) == [text |-> text, seals |-> <<>>]
Looks == "enc:v1:x"
OutputFields == {"error", "stdout"}

-----------------------------------------------------------------------------
(* The envelope                                                                *)

EnvelopeEnabled(key) == key # ""
IsEncrypted(v) == v.seals # <<>> \/ v.text = Looks
EnvelopeEncrypt(key, v) == IF EnvelopeEnabled(key) THEN [v EXCEPT !.seals = Append(@, key)] ELSE v

(* Without the shape of an envelope a value is what it says; with it, only the   *)
(* key that sealed it opens it.                                                  *)
EnvelopeOpens(key, v) == IsEncrypted(v) => EnvelopeEnabled(key) /\ v.seals # <<>> /\ Last(v.seals) = key
EnvelopeDecrypt(v) == IF IsEncrypted(v) THEN [v EXCEPT !.seals = Front(@)] ELSE v
IsEncryptedBy(key, v) == EnvelopeEnabled(key) /\ IsEncrypted(v) /\ EnvelopeOpens(key, v)

-----------------------------------------------------------------------------
(* Jobs                                                                        *)

encryptStringField(key, v, skip) == IF v = Clear("") \/ skip THEN v ELSE EnvelopeEncrypt(key, v)
isPlaintextField(v) == v # Clear("") /\ ~IsEncrypted(v)

(* What is saved has come from an agent: only what this key has sealed is left   *)
(* as it is. What is in the table is left as it is when it looks sealed.         *)
toSqlite(key, job) == [f \in OutputFields |-> encryptStringField(key, job[f], IsEncryptedBy(key, job[f]))]
encryptDetailsResult(key, job) == [f \in OutputFields |-> encryptStringField(key, job[f], IsEncrypted(job[f]))]

decryptJobResult(key, job) == \A f \in OutputFields : EnvelopeOpens(key, job[f])
GetByJID(j) == j \in DOMAIN db.jobs /\ decryptJobResult(mem.key, db.jobs[j])

decryptFieldOrNotice(key, v) == IF EnvelopeOpens(key, v) THEN EnvelopeDecrypt(v).text ELSE "<unavailable>"
decryptJobResultInList(key, job) == [f \in OutputFields |-> decryptFieldOrNotice(key, job[f])]
ListJobs == [j \in DOMAIN db.jobs |-> decryptJobResultInList(mem.key, db.jobs[j])]

-----------------------------------------------------------------------------
(* Users and clients                                                           *)

Blank(v) == v.text \in {"", " "}
encryptTotP(key, v) == IF Blank(v) THEN v ELSE EnvelopeEncrypt(key, v)
GetByUsername(u) == setup.totp => EnvelopeOpens(mem.key, db.users[u].totp)
PlaintextPasswords == {u \in DOMAIN db.users : db.users[u].password = "plain"}

(* A stored client: the keys of its configuration, and whether those an older    *)
(* server has stored with it hold credentials.                                   *)
scrubClientDetails(client) == [client EXCEPT !.credentials = FALSE]

-----------------------------------------------------------------------------
(* setup.jobs, setup.users, setup.stored: what an older server has left in the   *)
(* clear; setup.keys: the keys the operator configures, "" for none.             *)
AtRestInit(deployments) ==
    /\ Started(deployments)
    /\ db = [jobs |-> [j \in DOMAIN setup.jobs |-> [f \in OutputFields |-> Clear(setup.jobs[j][f])]],
             users |-> [u \in DOMAIN setup.users |-> [password |-> setup.users[u].password, totp |-> Clear(setup.users[u].totp)]],
             clients |-> setup.stored]
    /\ mem = [pc |-> "down", key |-> "", rows |-> {}]
    /\ ghost = [said |-> setup.jobs, secret |-> [u \in DOMAIN setup.users |-> setup.users[u].totp],
                under |-> [j \in DOMAIN setup.jobs |-> ""], ran |-> {}, filled |-> FALSE, scrubbed |-> FALSE]

(* The rows a step of the start changes, read before the first of them is.       *)
StillToSeal(pc, key) ==
    CASE pc = "jobs" -> {j \in DOMAIN db.jobs : EnvelopeEnabled(key) /\ \E f \in OutputFields : isPlaintextField(db.jobs[j][f])}
      [] pc = "clients" -> {c \in DOMAIN db.clients : db.clients[c].credentials}
      [] pc = "users" -> {u \in DOMAIN db.users : EnvelopeEnabled(key) /\ setup.totp /\ ~Blank(db.users[u].totp) /\ ~IsEncrypted(db.users[u].totp)}
      [] OTHER -> {}

StartGoesTo(pc, key) == mem' = [pc |-> pc, key |-> key, rows |-> StillToSeal(pc, key)]

NewJobsProvider ==
    /\ Serves("at rest") /\ mem.pc = "down"
    /\ \E key \in setup.keys :
         /\ StartGoesTo("jobs", key)
         /\ ghost' = [ghost EXCEPT !.ran = @ \cup ({key} \ {""})]
    /\ Quiet /\ UNCHANGED <<db, reqs>>

encryptExistingResults(j) ==
    /\ Serves("at rest") /\ mem.pc = "jobs" /\ j \in mem.rows
    /\ db' = [db EXCEPT !.jobs[j] = encryptDetailsResult(mem.key, @)]
    /\ mem' = [mem EXCEPT !.rows = @ \ {j}]
    /\ Quiet /\ UNCHANGED <<reqs, ghost>>

(* A failure ends the walk over the jobs, and the server goes on.                *)
ResultsDone(completed) ==
    /\ Serves("at rest") /\ mem.pc = "jobs"
    /\ IF completed THEN mem.rows = {} /\ Quiet ELSE EnvelopeEnabled(mem.key) /\ Fault("at rest", "statement")
    /\ StartGoesTo("clients", mem.key)
    /\ ghost' = [ghost EXCEPT !.filled = completed /\ EnvelopeEnabled(mem.key)]
    /\ UNCHANGED <<db, reqs>>

ScrubStoredCredentials(c) ==
    /\ Serves("at rest") /\ mem.pc = "clients" /\ c \in mem.rows
    /\ db' = [db EXCEPT !.clients[c] = scrubClientDetails(@)]
    /\ mem' = [mem EXCEPT !.rows = @ \ {c}]
    /\ Quiet /\ UNCHANGED <<reqs, ghost>>

ScrubDone(completed) ==
    /\ Serves("at rest") /\ mem.pc = "clients"
    /\ IF completed THEN mem.rows = {} /\ Quiet ELSE Fault("at rest", "statement")
    /\ StartGoesTo("users", mem.key)
    /\ ghost' = [ghost EXCEPT !.scrubbed = @ \/ completed]
    /\ UNCHANGED <<db, reqs>>

encryptExistingTotP(u) ==
    /\ Serves("at rest") /\ mem.pc = "users" /\ u \in mem.rows
    /\ db' = [db EXCEPT !.users[u].totp = encryptTotP(mem.key, @)]
    /\ mem' = [mem EXCEPT !.rows = @ \ {u}]
    /\ Quiet /\ UNCHANGED <<reqs, ghost>>

(* Here a failure, and a password in the clear, refuse the start.                *)
newAPIAuthDatabase(completed) ==
    /\ Serves("at rest") /\ mem.pc = "users"
    /\ IF completed THEN mem.rows = {} /\ Quiet ELSE Fault("at rest", "statement")
    /\ StartGoesTo(IF completed /\ PlaintextPasswords = {} THEN "up" ELSE "down", mem.key)
    /\ UNCHANGED <<db, reqs, ghost>>

(* The operator hashes the password, as the message asks.                        *)
HashByHand ==
    /\ Serves("at rest") /\ mem.pc = "down" /\ PlaintextPasswords # {}
    /\ db' = [db EXCEPT !.users = [u \in DOMAIN @ |-> [@[u] EXCEPT !.password = "hash"]]]
    /\ Quiet /\ UNCHANGED <<mem, reqs, ghost>>

ServerGoesDown ==
    /\ Fault("at rest", "crash")
    /\ mem.pc # "down" /\ StartGoesTo("down", "")
    /\ reqs' = [r \in Reqs |-> Idle]
    /\ UNCHANGED <<db, ghost>>

-----------------------------------------------------------------------------
(* A result: the row is read for what the server knows of the job, and written   *)
(* back with what the agent has reported.                                        *)
ResultComes(r) ==
    /\ Serves("at rest") /\ mem.pc = "up"
    /\ Arrives("at rest", r, "result")
    /\ \E j \in setup.jids, report \in [OutputFields -> setup.texts] :
         Becomes(r, IF GetByJID(j) THEN [pc |-> "save", job |-> j, report |-> report] ELSE Idle)
    /\ UNCHANGED <<db, mem, ghost>>

SaveJob(r) ==
    LET j == reqs[r].job
    IN /\ Serves("at rest") /\ reqs[r].pc = "save"
       /\ db' = [db EXCEPT !.jobs = (j :> toSqlite(mem.key, [f \in OutputFields |-> Clear(reqs[r].report[f])])) @@ @]
       /\ ghost' = [ghost EXCEPT !.said = (j :> reqs[r].report) @@ @, !.under = (j :> mem.key) @@ @]
       /\ Return(r)
       /\ Quiet /\ UNCHANGED mem

(* A job is created before it has any output; one that exists stays as it is.    *)
CreateNewJob(r) ==
    /\ Serves("at rest") /\ mem.pc = "up"
    /\ Arrives("at rest", r, "create")
    /\ \E j \in setup.jids :
         /\ db' = [db EXCEPT !.jobs = @ @@ (j :> toSqlite(mem.key, [f \in OutputFields |-> Clear("")]))]
         /\ ghost' = [ghost EXCEPT !.said = @ @@ (j :> [f \in OutputFields |-> ""]), !.under = @ @@ (j :> mem.key)]
    /\ UNCHANGED <<mem, reqs>>

(* A secret is set, or cleared with a blank.                                     *)
UpdateTotP(r) ==
    /\ Serves("at rest") /\ mem.pc = "up" /\ setup.totp
    /\ Arrives("at rest", r, "totp")
    /\ \E u \in DOMAIN db.users, secret \in {" ", "new"} :
         /\ db' = [db EXCEPT !.users[u].totp = encryptTotP(mem.key, Clear(secret))]
         /\ ghost' = [ghost EXCEPT !.secret[u] = secret]
    /\ UNCHANGED <<mem, reqs>>

AtRestNext ==
    \/ NewJobsProvider \/ HashByHand \/ ServerGoesDown
    \/ \E row \in 1..2 : encryptExistingResults(row) \/ ScrubStoredCredentials(row) \/ encryptExistingTotP(row)
    \/ \E completed \in BOOLEAN : ResultsDone(completed) \/ ScrubDone(completed) \/ newAPIAuthDatabase(completed)
    \/ \E r \in Reqs : ResultComes(r) \/ SaveJob(r) \/ CreateNewJob(r) \/ UpdateTotP(r)

-----------------------------------------------------------------------------
(* What is stored stays what was saved, through every start that ends half way,  *)
(* and is sealed once at most. With a key nothing new is in the clear, whatever  *)
(* it looks like, nor, once the walks are through, is anything old that does not *)
(* look sealed. While the server has used one key only, a result it cannot read  *)
(* is one that looked sealed before there was a key; a cleared secret is always  *)
(* read as cleared. A list shows every job, with its text or with the notice,    *)
(* never with another text.                                                      *)
AtRestReadable ==
    Serves("at rest") =>
    LET up == mem.pc = "up"
        sealed(v) == v = Clear("") \/ v.seals # <<>>
        others == ghost.ran \ {mem.key}
    IN /\ \A j \in DOMAIN db.jobs, f \in OutputFields :
            LET v == db.jobs[j][f]
            IN /\ v.text = ghost.said[j][f] /\ Len(v.seals) <= 1
               /\ ghost.under[j] # "" => sealed(v)
               /\ up /\ ghost.filled => sealed(v) \/ v.text = Looks
               /\ up => ListJobs[j][f] \in {ghost.said[j][f], "<unavailable>"}
       /\ \A j \in DOMAIN db.jobs :
            up /\ others = {} /\ ~GetByJID(j) => ghost.under[j] = "" /\ \E f \in OutputFields : ghost.said[j][f] = Looks
       /\ \A u \in DOMAIN db.users :
            /\ db.users[u].totp.text = ghost.secret[u] /\ Len(db.users[u].totp.seals) <= 1
            /\ up /\ EnvelopeEnabled(mem.key) /\ setup.totp => sealed(db.users[u].totp) \/ Blank(db.users[u].totp)
            /\ up /\ (others = {} \/ Blank(db.users[u].totp)) => GetByUsername(u)
       /\ up => PlaintextPasswords = {}
       /\ ghost.scrubbed => \A c \in DOMAIN db.clients : ~db.clients[c].credentials
       /\ \A c \in DOMAIN db.clients : db.clients[c].rest = setup.stored[c].rest
=============================================================================
