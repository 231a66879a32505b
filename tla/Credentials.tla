---------------------------- MODULE Credentials ----------------------------
(* The credentials agents log in with: kept in a JSON file behind a cache, in a  *)
(* database table, or as a single configured pair that cannot be changed. The    *)
(* file provider has no lock: it reads the whole file, changes its copy,         *)
(* truncates the file and writes it back. A login by a credential that is still  *)
(* plain text replaces it by its hash.                                           *)
(* db.creds: what is stored, by id; db.torn: the file has been truncated and not *)
(* written yet; db.installer: the files the installer left. mem.cache: the       *)
(* cached credentials; mem.bound: ids with a client; mem.wait: ids that have to  *)
(* wait; mem.visitor: failures counted for the remote address.                   *)
(* ghost.given: every id and password an administrator stored; ghost.last: the   *)
(* password of each id if every change were one step; ghost.outdated: ids whose  *)
(* credential an upgrade has overwritten by the one that was there before;       *)
(* ghost.overlap: two changes of the file overlapped; ghost.accepted, ghost.wrong: logins that passed, *)
(* and remote ones that failed.                                                  *)
EXTENDS Service

AgentIds == {"one", "two"}
AgentPasswords == {"p", "q"}
InstallerFiles == {"initial-admin-password", "initial-client-auth"}
CredFile == setup.provider = "file"
IsWriteable == setup.provider # "single"
MaxBadAttempts == 2

Credential(pass, hashed) == [pass |-> pass, hashed |-> hashed]
NewVisitor == [bad |-> 0, banned |-> FALSE, seen |-> {}]

CredentialsInit(deployments) ==
    /\ Started(deployments)
    /\ db = [creds |-> "one" :> Credential("p", FALSE), torn |-> FALSE, installer |-> InstallerFiles]
    /\ mem = [cache |-> <<>>, bound |-> {}, wait |-> {}, visitor |-> NewVisitor]
    /\ ghost = [given |-> {<<"one", "p">>}, last |-> "one" :> "p", outdated |-> {}, overlap |-> FALSE, accepted |-> {}, wrong |-> {}]

CredAt(r, pc) == Serves("credentials") /\ reqs[r].pc = pc

-----------------------------------------------------------------------------
(* Passwords. The hash of a password is told from other text by its prefix.      *)

HashPassword(c) == [c EXCEPT !.hashed = TRUE]
VerifyPassword(c, provided) == c.pass # "" /\ provided # "" /\ c.pass = provided

(* Refused before they reach a provider: a read-only deployment, ids and         *)
(* passwords that are too short.                                                 *)
allowClientAuthWrite == IsWriteable /\ setup.authWrite

handlePostClientsAuth(r) ==
    /\ Arrives("credentials", r, "post")
    /\ \E id \in AgentIds, p \in AgentPasswords \cup {""} :
         Becomes(r, IF allowClientAuthWrite /\ p # ""
                    THEN [pc |-> "write", kind |-> "add", id |-> id, cred |-> HashPassword(Credential(p, FALSE))] ELSE Idle)
    /\ UNCHANGED <<db, mem, ghost>>

handleDeleteClientAuth(r) ==
    /\ Arrives("credentials", r, "delete")
    /\ \E id \in AgentIds, force \in BOOLEAN :
         Becomes(r, IF allowClientAuthWrite THEN [pc |-> "get", kind |-> "delete", id |-> id, force |-> force] ELSE Idle)
    /\ UNCHANGED <<db, mem, ghost>>

-----------------------------------------------------------------------------
(* Reading a credential                                                        *)

Lookup(creds, id) == IF id \in DOMAIN creds THEN {creds[id]} ELSE {}

(* The cached entry, or the one of the file; a file that is being rewritten      *)
(* cannot be decoded.                                                            *)
FileGet(r) ==
    LET id == reqs[r].id
    IN /\ CredAt(r, "get") /\ CredFile
       /\ IF id \in DOMAIN mem.cache THEN Becomes(r, [pc |-> "found", found |-> Lookup(mem.cache, id)] @@ reqs[r])
          ELSE IF db.torn THEN Return(r)
          ELSE Becomes(r, [pc |-> IF id \in DOMAIN db.creds THEN "keep" ELSE "found", found |-> Lookup(db.creds, id)] @@ reqs[r])
       /\ Quiet /\ UNCHANGED <<db, mem, ghost>>

(* Keeping what was read for an hour fails when another request has kept it      *)
(* meanwhile.                                                                    *)
CacheAdd(r) ==
    LET id == reqs[r].id
    IN /\ CredAt(r, "keep")
       /\ IF id \in DOMAIN mem.cache THEN Return(r) /\ UNCHANGED mem
          ELSE /\ mem' = [mem EXCEPT !.cache = (id :> CHOOSE c \in reqs[r].found : TRUE) @@ @]
               /\ Goto(r, "found")
       /\ Quiet /\ UNCHANGED <<db, ghost>>

DatabaseGet(r) ==
    /\ CredAt(r, "get") /\ ~CredFile
    /\ Becomes(r, [pc |-> "found", found |-> Lookup(db.creds, reqs[r].id)] @@ reqs[r])
    /\ Quiet /\ UNCHANGED <<db, mem, ghost>>

CacheExpires ==
    /\ Fault("credentials", "expiry")
    /\ mem' = [mem EXCEPT !.cache = <<>>]
    /\ UNCHANGED <<db, reqs, ghost>>

(* The rest of handleDeleteClientAuth: a credential in use is only deleted by    *)
(* force, and then together with its clients.                                    *)
DeleteClients(r) ==
    LET q == reqs[r]
    IN /\ CredAt(r, "found") /\ q.kind = "delete"
       /\ IF q.found = {} \/ (q.id \in mem.bound /\ ~q.force) THEN Return(r) /\ UNCHANGED mem
          ELSE mem' = [mem EXCEPT !.bound = @ \ {q.id}] /\ Becomes(r, [pc |-> "write", kind |-> "delete", id |-> q.id])
       /\ Quiet /\ UNCHANGED <<db, ghost>>

-----------------------------------------------------------------------------
(* The login of an agent                                                       *)

RejectBannedAddress(from) == from = "remote" /\ mem.visitor.banned

(* An id that failed has to wait; a banned address is turned away before that.   *)
authUser(r) ==
    /\ Arrives("credentials", r, "login")
    /\ \E id \in AgentIds, p \in setup.tries, from \in setup.peers :
         Becomes(r, IF RejectBannedAddress(from) \/ id \in mem.wait THEN Idle
                    ELSE [pc |-> "get", kind |-> "login", id |-> id, pass |-> p, from |-> from])
    /\ UNCHANGED <<db, mem, ghost>>

WaitOver ==
    /\ Fault("credentials", "wait")
    /\ mem' = [mem EXCEPT !.wait = {}]
    /\ UNCHANGED <<db, reqs, ghost>>

(* A relay on the server's own host stands for many agents and is never banned   *)
(* by its address; other addresses are banned by distinct wrong credentials.     *)
AddDistinctAttempt(v, from, fingerprint) ==
    IF from = "loopback" \/ fingerprint \in v.seen THEN v
    ELSE IF v.bad + 1 = MaxBadAttempts THEN [NewVisitor EXCEPT !.banned = TRUE]
    ELSE [v EXCEPT !.bad = @ + 1, !.seen = @ \cup {fingerprint}]

credentialFingerprint(q) == <<q.id, q.pass>>
LoginFails(r) ==
    LET q == reqs[r]
    IN /\ CredAt(r, "found") /\ q.kind = "login"
       /\ ~\E c \in q.found : VerifyPassword(c, q.pass)
       /\ mem' = [mem EXCEPT !.wait = @ \cup {q.id}, !.visitor = AddDistinctAttempt(@, q.from, credentialFingerprint(q))]
       /\ ghost' = [ghost EXCEPT !.wrong = IF q.from = "remote" THEN @ \cup {credentialFingerprint(q)} ELSE @]
       /\ Return(r)
       /\ Quiet /\ UNCHANGED db

(* A login by a plain text credential goes on to replace it by its hash.         *)
maybeUpgradeClientAuthHash(r) ==
    LET q == reqs[r]
    IN /\ CredAt(r, "found") /\ q.kind = "login"
       /\ \E c \in q.found :
            /\ VerifyPassword(c, q.pass)
            /\ Becomes(r, IF c.hashed \/ ~IsWriteable THEN [pc |-> "passed", id |-> q.id, from |-> q.from]
                          ELSE [pc |-> "write", kind |-> "upgrade", id |-> q.id, from |-> q.from, cred |-> HashPassword(c)])
       /\ ghost' = [ghost EXCEPT !.accepted = @ \cup {credentialFingerprint(q)}]
       /\ Quiet /\ UNCHANGED <<db, mem>>

LoginPasses(r) ==
    /\ CredAt(r, "passed")
    /\ mem' = [mem EXCEPT !.bound = @ \cup {reqs[r].id}, !.visitor = IF reqs[r].from = "loopback" THEN @ ELSE NewVisitor]
    /\ Return(r)
    /\ Quiet /\ UNCHANGED <<db, ghost>>

-----------------------------------------------------------------------------
(* Writing                                                                     *)

(* A login goes on whether its upgrade worked or not.                            *)
WriteEnds(r) == IF reqs[r].kind = "upgrade" THEN Becomes(r, [pc |-> "passed", id |-> reqs[r].id, from |-> reqs[r].from]) ELSE Return(r)

Given(q) == IF q.kind = "add" THEN {<<q.id, q.cred.pass>>} ELSE {}
Outdated(q) == q.kind = "upgrade" /\ q.id \in DOMAIN ghost.last /\ ghost.last[q.id] # q.cred.pass
Recorded(q) ==
    [ghost EXCEPT !.given = @ \cup Given(q),
                  !.last = CASE q.kind = "add" -> (q.id :> q.cred.pass) @@ @ [] q.kind = "delete" -> Without(@, q.id) [] OTHER -> @,
                  !.outdated = IF Outdated(q) THEN @ \cup {q.id} ELSE IF q.kind = "upgrade" THEN @ ELSE @ \ {q.id}]

DatabaseWrites(creds, q) ==
    CASE q.kind = "add" -> creds @@ (q.id :> q.cred)
      [] q.kind = "delete" -> Without(creds, q.id)
      [] q.kind = "upgrade" -> IF q.id \in DOMAIN creds THEN [creds EXCEPT ![q.id] = q.cred] ELSE creds

DatabaseStatement(r) ==
    LET q == reqs[r]
        refused == q.kind = "add" /\ q.id \in DOMAIN db.creds
    IN /\ CredAt(r, "write") /\ ~CredFile
       /\ db' = [db EXCEPT !.creds = DatabaseWrites(@, q)]
       /\ ghost' = IF refused THEN ghost ELSE Recorded(q)
       /\ WriteEnds(r)
       /\ Quiet /\ UNCHANGED mem

FileTakesAll(copy, q) == q.kind = "add" /\ q.id \in DOMAIN copy

(* An id that is taken is not added, one that is gone not updated.               *)
FileTurnsDown(copy, q) ==
    \/ q.kind = "add" /\ q.id \in DOMAIN copy
    \/ q.kind = "upgrade" /\ q.id \notin DOMAIN copy

FileChange(copy, q) == IF q.kind = "delete" THEN Without(copy, q.id) ELSE (q.id :> q.cred) @@ copy

Saving == {r \in Reqs : reqs[r].pc \in {"truncate", "encode"}}

(* load and the change of the copy; the cached entry goes before the file is     *)
(* written.                                                                      *)
FileLoad(r) ==
    LET q == reqs[r]
    IN /\ CredAt(r, "write") /\ CredFile
       /\ IF db.torn \/ FileTurnsDown(db.creds, q) THEN WriteEnds(r) /\ UNCHANGED <<mem, ghost>>
          ELSE /\ Becomes(r, [pc |-> "truncate", copy |-> FileChange(db.creds, q)] @@ q)
               /\ mem' = IF q.kind = "add" THEN mem ELSE [mem EXCEPT !.cache = Without(@, q.id)]
               /\ ghost' = [ghost EXCEPT !.given = @ \cup Given(q), !.overlap = @ \/ Saving # {}]
       /\ Quiet /\ UNCHANGED db

Truncate(r) ==
    /\ CredAt(r, "truncate")
    /\ db' = [db EXCEPT !.torn = TRUE]
    /\ Goto(r, "encode")
    /\ Quiet /\ UNCHANGED <<mem, ghost>>

save(r) ==
    /\ CredAt(r, "encode")
    /\ \/ /\ db' = [db EXCEPT !.creds = reqs[r].copy, !.torn = FALSE]
          /\ ghost' = Recorded(reqs[r])
          /\ Quiet
       \/ Fault("credentials", "disk") /\ UNCHANGED <<db, ghost>>
    /\ WriteEnds(r)
    /\ UNCHANGED mem

(* The server stops: what is in memory is gone, a truncated file stays so.       *)
CredentialsCrash ==
    /\ Fault("credentials", "crash")
    /\ mem' = [cache |-> <<>>, bound |-> {}, wait |-> {}, visitor |-> NewVisitor]
    /\ reqs' = [r \in Reqs |-> Idle]
    /\ UNCHANGED <<db, ghost>>

-----------------------------------------------------------------------------
(* Pairing and the installer's files                                           *)

(* The deposit is relayed to the pairing service, whose code goes to the browser.*)
handlePostPairing(r) ==
    /\ Arrives("credentials", r, "pair")
    /\ Becomes(r, IF setup.pairing THEN [pc |-> "deposit"] ELSE Idle)
    /\ UNCHANGED <<db, mem, ghost>>

(* Unreachable, refused, not understood or answered: all end the request.        *)
PairingAnswers(r) ==
    /\ CredAt(r, "deposit")
    /\ Return(r)
    /\ Quiet /\ UNCHANGED <<db, mem, ghost>>

(* A password login to the API removes the files, overwritten first where they   *)
(* can be; a file that cannot be removed stays for the next login.               *)
shredConsumedInstallerCreds(r) ==
    /\ Arrives("credentials", r, "shred")
    /\ \E removed \in SUBSET db.installer : db' = [db EXCEPT !.installer = @ \ removed]
    /\ UNCHANGED <<mem, reqs, ghost>>

CredentialsNext ==
    \/ \E r \in Reqs :
         \/ handlePostClientsAuth(r) \/ handleDeleteClientAuth(r) \/ FileGet(r) \/ CacheAdd(r) \/ DatabaseGet(r) \/ DeleteClients(r)
         \/ authUser(r) \/ LoginFails(r) \/ maybeUpgradeClientAuthHash(r) \/ LoginPasses(r) \/ DatabaseStatement(r)
         \/ FileLoad(r) \/ Truncate(r) \/ save(r) \/ handlePostPairing(r) \/ PairingAnswers(r) \/ shredConsumedInstallerCreds(r)
    \/ CacheExpires \/ WaitOver \/ CredentialsCrash

-----------------------------------------------------------------------------
(* Every credential stored or cached is one an administrator gave for that id,   *)
(* and so is every login that passed, whatever hash upgrades, changes and        *)
(* crashes interleave. The stored ids are the acknowledged ones: a deleted       *)
(* credential does not come back through the upgrade of a login under way. Each  *)
(* has the password that was given last, with one exception: an id that was      *)
(* deleted and added again while a login by its old plain text credential was    *)
(* under way gets the old password back, because the upgrade compares nothing    *)
(* (client_listener.go:259, clientsauth/database.go:85, file.go:136). For the    *)
(* file, which has no lock, this takes changes that do not overlap, and none     *)
(* that breaks off after the file was emptied. An agent that retries one wrong   *)
(* credential never bans its address: a ban takes as many distinct credentials   *)
(* as are allowed.                                                               *)
CredentialsHold ==
    Serves("credentials") =>
    /\ \A id \in DOMAIN db.creds : <<id, db.creds[id].pass>> \in ghost.given
    /\ \A id \in DOMAIN mem.cache : <<id, mem.cache[id].pass>> \in ghost.given
    /\ ghost.accepted \subseteq ghost.given
    /\ ~ghost.overlap /\ ~db.torn =>
         /\ DOMAIN db.creds = DOMAIN ghost.last
         /\ \A id \in DOMAIN db.creds \ ghost.outdated : db.creds[id].pass = ghost.last[id]
    /\ mem.visitor.banned => Cardinality(ghost.wrong) >= MaxBadAttempts
=============================================================================
