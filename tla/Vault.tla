------------------------------- MODULE Vault -------------------------------
(* The vault of the server: values encrypted under a key that is derived from a  *)
(* passphrase and held in memory while the vault is unlocked, and wrapped once   *)
(* more at rest when a key provider is configured. The passphrase lock covers    *)
(* the key, a statement or a transaction the rows.                               *)
(* db.open: the factory has opened the database; db.status: the status row;      *)
(* db.values: the rows by id. mem.enc: a key provider is configured; mem.key:    *)
(* the derived key. ghost: salts and row ids used up so far.                     *)
EXTENDS Service

NoKey == <<>>
ValueNames == {"a", "b"}

(* The salt 0 stands for the unsalted hash of a vault made by an old version;    *)
(* every other salt is fresh.                                                    *)
DeriveKey(pass, salt) == <<pass, salt>>
NewStatusFor(pass, salt, on) == [name |-> "setup-completed", check |-> DeriveKey(pass, salt), salt |-> salt, wrapped |-> on]
NoStatus == [name |-> "", check |-> NoKey, salt |-> 0, wrapped |-> FALSE]

(* setup.legacy: values that an old version has left, -1 for no vault at all;    *)
(* setup.admins: how many requests of administrators overlap.                    *)
VaultInit(deployments) ==
    /\ Started(deployments)
    /\ db = [open |-> setup.legacy >= 0,
             status |-> IF setup.legacy < 0 THEN NoStatus ELSE NewStatusFor("right", 0, FALSE),
             values |-> [i \in 1..setup.legacy |-> [name |-> "a", group |-> "", enc |-> DeriveKey("right", 0), wrapped |-> FALSE]]]
    /\ mem = [enc |-> FALSE, key |-> NoKey]
    /\ ghost = [salts |-> 0, rows |-> IF setup.legacy < 0 THEN 0 ELSE setup.legacy]

VaultAt(r, pc) == Serves("vault") /\ reqs[r].pc = pc
AdminSteps == {"init", "open", "set status", "read status", "rekey", "set key", "lock", "clear key"}
AdminArrives(r, kind) == Arrives("vault", r, kind) /\ Cardinality({q \in Reqs : reqs[q].pc \in AdminSteps}) < setup.admins

-----------------------------------------------------------------------------
(* The database                                                                *)

IsLocked == mem.key = NoKey
unwrap(row) == row.wrapped => mem.enc
GetStatus == [ok |-> db.open /\ unwrap(db.status), name |-> db.status.name]
isDatabaseInitialized == db.open /\ db.status.name = "setup-completed"
GetValue(i) == i \in DOMAIN db.values /\ unwrap(db.values[i])
FindByKeyAndClientID(name) == {i \in DOMAIN db.values : db.values[i].name = name}

(* A provider that is opened wraps what is not wrapped yet.                      *)
wrapExistingSecrets(d, on) ==
    [d EXCEPT !.values = [i \in DOMAIN @ |-> [@[i] EXCEPT !.wrapped = @ \/ on]],
              !.status.wrapped = @ \/ (on /\ d.status.check # NoKey)]
NewSqliteProvider(on) == [wrapExistingSecrets(db, on) EXCEPT !.open = TRUE]

ReKeySkips(old, new, pass, salt) ==
    [db EXCEPT !.values = [i \in DOMAIN @ |-> [@[i] EXCEPT !.enc = IF @ = old THEN new ELSE @, !.wrapped = mem.enc]],
               !.status = NewStatusFor(pass, salt, mem.enc)]

(* ReKey: values, check and descriptor change in one transaction, or nothing     *)
(* does: a value that the old key does not open ends it.                         *)
ReKey(old, new, pass, salt) ==
    IF \E i \in DOMAIN db.values : db.values[i].enc # old \/ ~unwrap(db.values[i]) THEN db
    ELSE [db EXCEPT !.values = [i \in DOMAIN @ |-> [@[i] EXCEPT !.enc = new, !.wrapped = mem.enc]],
                    !.status = NewStatusFor(pass, salt, mem.enc)]

-----------------------------------------------------------------------------
(* Init: the check, the database file, the status row and the key are four steps *)

ValidatePass(pass) == pass # "short"

handleVaultInit(r) ==
    /\ AdminArrives(r, "init")
    /\ \E pass \in {"short", "right", "wrong"} :
         Becomes(r, IF ValidatePass(pass) THEN [pc |-> "init", pass |-> pass] ELSE Idle)
    /\ UNCHANGED <<db, mem, ghost>>

InitChecks(r) ==
    /\ VaultAt(r, "init")
    /\ IF isDatabaseInitialized \/ (db.open /\ ~GetStatus.ok) THEN Return(r) ELSE Goto(r, "open")
    /\ Quiet /\ UNCHANGED <<db, mem, ghost>>

InitOpens(r) ==
    /\ VaultAt(r, "open")
    /\ db' = NewSqliteProvider(mem.enc)
    /\ Becomes(r, [pc |-> "set status", pass |-> reqs[r].pass, salt |-> ghost.salts + 1])
    /\ ghost' = [ghost EXCEPT !.salts = @ + 1]
    /\ Quiet /\ UNCHANGED mem

SetStatus(r) ==
    /\ VaultAt(r, "set status")
    /\ db' = [db EXCEPT !.status = NewStatusFor(reqs[r].pass, reqs[r].salt, mem.enc)]
    /\ Becomes(r, [pc |-> "set key", enc |-> DeriveKey(reqs[r].pass, reqs[r].salt)])
    /\ Quiet /\ UNCHANGED <<mem, ghost>>

(* passLock: a reader keeps it from the encryption until its row is written.     *)
NoReader == \A q \in Reqs : reqs[q].pc # "save"

SetKey(r) ==
    /\ VaultAt(r, "set key") /\ NoReader
    /\ mem' = [mem EXCEPT !.key = reqs[r].enc]
    /\ Return(r)
    /\ Quiet /\ UNCHANGED <<db, ghost>>

-----------------------------------------------------------------------------
(* UnLock and Lock                                                             *)

handleVaultUnlock(r) ==
    /\ AdminArrives(r, "unlock")
    /\ \E pass \in {"right", "wrong"} :
         Becomes(r, IF IsLocked THEN [pc |-> "read status", pass |-> pass] ELSE Idle)
    /\ UNCHANGED <<db, mem, ghost>>

Verify(status, k) == status.check # NoKey /\ status.check = k

UnLock(r) ==
    LET k == DeriveKey(reqs[r].pass, db.status.salt)
    IN /\ VaultAt(r, "read status")
       /\ Becomes(r, IF ~GetStatus.ok \/ db.status.name = "" \/ ~Verify(db.status, k) THEN Idle
                     ELSE IF db.status.salt = 0 THEN [pc |-> "rekey", pass |-> reqs[r].pass, enc |-> k, salt |-> ghost.salts + 1]
                     ELSE [pc |-> "set key", enc |-> k])
       /\ ghost' = IF reqs'[r].pc = "rekey" THEN [ghost EXCEPT !.salts = @ + 1] ELSE ghost
       /\ Quiet /\ UNCHANGED <<db, mem>>

rekeyLegacyVault(r) ==
    LET new == DeriveKey(reqs[r].pass, reqs[r].salt)
    IN /\ VaultAt(r, "rekey")
       /\ db' = ReKey(reqs[r].enc, new, reqs[r].pass, reqs[r].salt)
       /\ Becomes(r, IF db' = db THEN Idle ELSE [pc |-> "set key", enc |-> new])
       /\ Quiet /\ UNCHANGED <<mem, ghost>>

handleVaultLock(r) ==
    /\ AdminArrives(r, "lock")
    /\ Becomes(r, IF IsLocked THEN Idle ELSE [pc |-> "lock"])
    /\ UNCHANGED <<db, mem, ghost>>

LockReads(r) ==
    /\ VaultAt(r, "lock")
    /\ IF GetStatus.ok /\ db.status.name # "" THEN Goto(r, "clear key") ELSE Return(r)
    /\ Quiet /\ UNCHANGED <<db, mem, ghost>>

LockVault(r) ==
    /\ VaultAt(r, "clear key") /\ NoReader
    /\ mem' = [mem EXCEPT !.key = NoKey]
    /\ Return(r)
    /\ Quiet /\ UNCHANGED <<db, ghost>>

-----------------------------------------------------------------------------
(* Values                                                                      *)

checkGroupAccess(group, member) == group = "" \/ member
checkUnlockedAndInitialized == ~IsLocked /\ GetStatus.ok /\ isDatabaseInitialized
ValueAllowed(r) == GetValue(reqs[r].id) /\ checkGroupAccess(db.values[reqs[r].id].group, reqs[r].member)

(* Validate refuses a value without key, value or type before anything changes.  *)
handleVaultStoreValue(r) ==
    /\ Arrives("vault", r, "store")
    /\ \E id \in {0} \cup DOMAIN db.values, name \in ValueNames, group \in {"", "staff"}, member \in BOOLEAN :
         Becomes(r, IF IsLocked THEN Idle ELSE [pc |-> "check", id |-> id, name |-> name, group |-> group, member |-> member])
    /\ UNCHANGED <<db, mem, ghost>>

StoreChecks(r) ==
    /\ VaultAt(r, "check")
    /\ IF GetStatus.ok /\ isDatabaseInitialized THEN Goto(r, "look up") ELSE Return(r)
    /\ Quiet /\ UNCHANGED <<db, mem, ghost>>

(* By name and by id.                                                            *)
StoreLooksUp(r) ==
    LET same == FindByKeyAndClientID(reqs[r].name)
    IN /\ VaultAt(r, "look up")
       /\ IF (\A i \in same : unwrap(db.values[i])) /\ (reqs[r].id # 0 => ValueAllowed(r)) /\ same \subseteq {reqs[r].id}
          THEN Goto(r, "encrypt") ELSE Return(r)
       /\ Quiet /\ UNCHANGED <<db, mem, ghost>>

(* The vault may have been locked meanwhile: without a key nothing is encrypted. *)
StoreValue(r) ==
    /\ VaultAt(r, "encrypt")
    /\ Becomes(r, IF IsLocked THEN Idle ELSE [pc |-> "save", enc |-> mem.key] @@ reqs[r])
    /\ Quiet /\ UNCHANGED <<db, mem, ghost>>

(* The unique index may refuse the statement, and an update of a row that is     *)
(* gone changes nothing.                                                         *)
SaveValue(r) ==
    LET q == reqs[r]
        row == [name |-> q.name, group |-> q.group, enc |-> q.enc, wrapped |-> mem.enc]
        taken == FindByKeyAndClientID(q.name) \ {q.id} # {}
        id == IF q.id = 0 THEN ghost.rows + 1 ELSE q.id
        writes == ~taken /\ (q.id = 0 \/ q.id \in DOMAIN db.values)
    IN /\ VaultAt(r, "save")
       /\ db' = IF writes THEN [db EXCEPT !.values = (id :> row) @@ @] ELSE db
       /\ ghost' = IF writes /\ q.id = 0 THEN [ghost EXCEPT !.rows = id] ELSE ghost
       /\ Return(r)
       /\ Quiet /\ UNCHANGED mem

handleReadVaultValue(r) ==
    /\ Arrives("vault", r, "read")
    /\ \E id \in DOMAIN db.values, member \in BOOLEAN :
         Becomes(r, [pc |-> "get", id |-> id, member |-> member, then |-> "return"])
    /\ UNCHANGED <<db, mem, ghost>>

(* A deletion first reads the value as GetOne does, which has to decrypt it.     *)
handleVaultDeleteValue(r) ==
    /\ Arrives("vault", r, "delete")
    /\ \E id \in DOMAIN db.values, member \in BOOLEAN :
         Becomes(r, [pc |-> "get", id |-> id, member |-> member, then |-> "delete"])
    /\ UNCHANGED <<db, mem, ghost>>

(* GetOne: the row is read first, the key is taken when the row is decrypted.    *)
GetOneValue(r) ==
    /\ VaultAt(r, "get")
    /\ Becomes(r, IF checkUnlockedAndInitialized /\ ValueAllowed(r) THEN [pc |-> "decrypt", enc |-> db.values[reqs[r].id].enc] @@ reqs[r] ELSE Idle)
    /\ Quiet /\ UNCHANGED <<db, mem, ghost>>

GetOneDecrypts(r) ==
    /\ VaultAt(r, "decrypt")
    /\ IF reqs[r].enc = mem.key /\ reqs[r].then = "delete" THEN Goto(r, "delete") ELSE Return(r)
    /\ Quiet /\ UNCHANGED <<db, mem, ghost>>

DeleteValue(r) ==
    /\ VaultAt(r, "delete")
    /\ db' = IF checkUnlockedAndInitialized /\ ValueAllowed(r) THEN [db EXCEPT !.values = Without(@, reqs[r].id)] ELSE db
    /\ Return(r)
    /\ Quiet /\ UNCHANGED <<mem, ghost>>

-----------------------------------------------------------------------------
VaultStatementFails(r) ==
    /\ Serves("vault")
    /\ reqs[r].pc \in {"init", "open", "set status", "read status", "rekey", "lock", "check", "look up", "save", "get", "delete"}
    /\ Fault("vault", "statement")
    /\ Return(r)
    /\ UNCHANGED <<db, mem, ghost>>

(* A restart: locked again, opened if the file exists, perhaps with another      *)
(* choice of the key provider; without it nothing that was wrapped can be read.  *)
VaultRestart ==
    \E on \in BOOLEAN :
      /\ Fault("vault", "restart")
      /\ db' = IF db.open THEN NewSqliteProvider(on) ELSE db
      /\ mem' = [enc |-> on, key |-> NoKey]
      /\ reqs' = [r \in Reqs |-> Idle]
      /\ UNCHANGED ghost

VaultNext ==
    \/ \E r \in Reqs :
         \/ handleVaultInit(r) \/ InitChecks(r) \/ InitOpens(r) \/ SetStatus(r) \/ SetKey(r)
         \/ handleVaultUnlock(r) \/ UnLock(r) \/ rekeyLegacyVault(r)
         \/ handleVaultLock(r) \/ LockReads(r) \/ LockVault(r)
         \/ handleVaultStoreValue(r) \/ StoreChecks(r) \/ StoreLooksUp(r) \/ StoreValue(r) \/ SaveValue(r)
         \/ handleReadVaultValue(r) \/ handleVaultDeleteValue(r) \/ GetOneValue(r) \/ GetOneDecrypts(r) \/ DeleteValue(r)
         \/ VaultStatementFails(r)
    \/ VaultRestart

-----------------------------------------------------------------------------
(* What is stored can be read again: every value is encrypted under the key that *)
(* the status row verifies, and so is what an unlocked vault encrypts next. This *)
(* holds where administrators take turns, and also when they unlock a vault of   *)
(* an old version together as long as it holds a value, because the value that   *)
(* the first re-keying has encrypted ends the second. An old vault that holds    *)
(* none is re-keyed twice, and the key of the first may be set last: what is     *)
(* stored then cannot be read once the vault is locked (manager.go:188, 207).    *)
(* With a key provider everything in the open database is wrapped, always.       *)
VaultReadable ==
    Serves("vault") =>
    /\ setup.admins = 1 \/ (setup.legacy > 0 /\ "delete" \notin DOMAIN setup.sends) =>
         /\ ~IsLocked => mem.key = db.status.check
         /\ \A i \in DOMAIN db.values : db.values[i].enc = db.status.check
    /\ mem.enc /\ db.open => (\A i \in DOMAIN db.values : db.values[i].wrapped) /\ (db.status.check # NoKey => db.status.wrapped)
=============================================================================
