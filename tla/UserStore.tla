----------------------------- MODULE UserStore -----------------------------
(* The users of the API: kept in a database table, in a JSON file behind a       *)
(* cache, or as one static user that cannot be changed. The service checks a     *)
(* name first and lets the provider write afterwards; the database provider      *)
(* writes in one transaction, the file provider reads, changes and writes the    *)
(* whole file under its mutex and then loads the cache.                          *)
(* db.users: rows by name; db.cut: a failed write has left a part of the file;   *)
(* db.members: pairs of user and group (database only); db.details: permissions  *)
(* by group. mem.cache: the users of the file provider,  *)
(* mem.mtx: who holds its mutex, mem.signal: what a reload by signal has read.   *)
(* ghost.users: the users if every change were one atomic step; ghost.stale: the *)
(* cache has been loaded out of turn; ghost.lost: a failed write has emptied or  *)
(* cut the file, "kept" while the cache has not been loaded since.               *)
EXTENDS Service

UserNames == {"ann", "ben"}
UserGroups == {"Administrators", "ops"}
NoRequest == "nobody"
File == setup.provider = "file"
Database == setup.provider = "database"

Account(pass, groups) == [pass |-> pass, expired |-> FALSE, groups |-> groups]
FirstUser == "ann" :> Account("old", {"ops"})
NoMembers == {}

(* The groups of a row of the database provider live in their own table.         *)
MembersOf(users) == {<<u, g>> \in (DOMAIN users) \X UserGroups : g \in users[u].groups}

UserStoreInit(deployments) ==
    /\ Started(deployments)
    /\ db = [users |-> FirstUser, cut |-> FALSE, members |-> IF Database THEN MembersOf(FirstUser) ELSE NoMembers, details |-> "ops" :> {"vault"}]
    /\ mem = [cache |-> IF Database THEN <<>> ELSE FirstUser, mtx |-> NoRequest, signal |-> {}]
    /\ ghost = [users |-> FirstUser, stale |-> FALSE, lost |-> "no"]

UsersAt(r, pc) == Serves("users") /\ reqs[r].pc = pc

-----------------------------------------------------------------------------
(* What one change makes of the users                                          *)

(* Unset columns are the empty string, FALSE or no groups at all.                *)
NoChange == [name |-> "", pass |-> "", expired |-> FALSE, groups |-> {}]
NewUsers == {[NoChange EXCEPT !.name = n, !.pass = p] : n \in UserNames, p \in {"", "new"}}
NewColumns == {NoChange, [NoChange EXCEPT !.pass = "new"], [NoChange EXCEPT !.expired = TRUE], [NoChange EXCEPT !.groups = {"Administrators"}],
               [NoChange EXCEPT !.name = "ben", !.groups = {"Administrators"}]}
Columns(row, c) ==
    [pass |-> IF c.pass = "" THEN row.pass ELSE c.pass,
     expired |-> c.expired \/ (row.expired /\ ~(c.pass # "" /\ File)),
     groups |-> IF c.groups = {} THEN row.groups ELSE c.groups]
NewName(c, name) == IF c.name = "" THEN name ELSE c.name

AddTo(users, c) == IF c.name \in DOMAIN users THEN users ELSE (c.name :> Columns(Account("", {}), c)) @@ users
UpdateIn(users, c, name) ==
    IF name \notin DOMAIN users \/ NewName(c, name) \in DOMAIN users \ {name} THEN users
    ELSE (NewName(c, name) :> Columns(users[name], c)) @@ Without(users, name)
DeleteFrom(users, name) == Without(users, name)
Change(users, q) ==
    CASE q.kind = "add" -> AddTo(users, q.change)
      [] q.kind = "update" -> UpdateIn(users, q.change, q.name)
      [] q.kind = "delete" -> DeleteFrom(users, q.name)

-----------------------------------------------------------------------------
(* The service                                                                 *)

Provided == IF Database THEN db.users ELSE mem.cache

(* validate: a new user needs a name and a password, a change has to change      *)
(* something.                                                                    *)
validate(c, name) ==
    IF name = "" THEN c.name # "" /\ c.pass # ""
    ELSE ~(c.name \in {"", name} /\ c.pass = "" /\ ~c.expired /\ c.groups = {})

(* Without a name in the route the user is new.                                  *)
handleChangeUser(r) ==
    \/ /\ Arrives("users", r, "add")
       /\ \E c \in NewUsers : Becomes(r, IF validate(c, "") THEN [pc |-> "find", kind |-> "add", name |-> "", change |-> c] ELSE Idle)
       /\ UNCHANGED <<db, mem, ghost>>
    \/ /\ Arrives("users", r, "update")
       /\ \E c \in NewColumns, name \in UserNames :
            Becomes(r, IF validate(c, name) THEN [pc |-> "find", kind |-> "update", name |-> name, change |-> c] ELSE Idle)
       /\ UNCHANGED <<db, mem, ghost>>

handleDeleteUser(r) ==
    /\ Arrives("users", r, "delete")
    /\ \E name \in UserNames : Becomes(r, [pc |-> "find", kind |-> "delete", name |-> name])
    /\ UNCHANGED <<db, mem, ghost>>

(* The static provider refuses every change.                                     *)
Proceeds(r) == Goto(r, IF Database THEN "transaction" ELSE IF File THEN "lock" ELSE "refused")

addUser(r) ==
    /\ UsersAt(r, "find") /\ reqs[r].kind = "add"
    /\ IF reqs[r].change.name \in DOMAIN Provided THEN Return(r) ELSE Proceeds(r)
    /\ Quiet /\ UNCHANGED <<db, mem, ghost>>

updateUser(r) ==
    LET name == reqs[r].name
    IN /\ UsersAt(r, "find") /\ reqs[r].kind = "update"
       /\ IF name \in DOMAIN Provided /\ NewName(reqs[r].change, name) \notin DOMAIN Provided \ {name} THEN Proceeds(r) ELSE Return(r)
       /\ Quiet /\ UNCHANGED <<db, mem, ghost>>

DeleteUser(r) ==
    /\ UsersAt(r, "find") /\ reqs[r].kind = "delete"
    /\ IF reqs[r].name \in DOMAIN Provided THEN Proceeds(r) ELSE Return(r)
    /\ Quiet /\ UNCHANGED <<db, mem, ghost>>

StaticRefuses(r) ==
    /\ UsersAt(r, "refused")
    /\ Return(r)
    /\ Quiet /\ UNCHANGED <<db, mem, ghost>>

-----------------------------------------------------------------------------
(* The database provider: one transaction, which a unique index may roll back    *)

GroupsIn(members, u) == {g \in UserGroups : <<u, g>> \in members}
Fits(members, u, groups) == GroupsIn(members, u) \cap groups = {}

DatabaseAdd(c) ==
    [ok |-> c.name \notin DOMAIN db.users /\ Fits(db.members, c.name, c.groups),
     users |-> AddTo(db.users, c), members |-> db.members \cup ({c.name} \X c.groups)]

(* An update of a row that is gone is no error, and still writes the groups.     *)
DatabaseUpdate(c, name) ==
    LET new == NewName(c, name)
        renamed == {<<IF m[1] = name THEN new ELSE m[1], m[2]>> : m \in db.members}
        cleared == {m \in renamed : m[1] # new}
    IN [ok |-> /\ name \in DOMAIN db.users => new \notin DOMAIN db.users \ {name}
               /\ Cardinality(renamed) = Cardinality(db.members),
        users |-> UpdateIn(db.users, c, name),
        members |-> IF c.groups = {} THEN renamed ELSE cleared \cup ({new} \X c.groups)]

DatabaseDelete(name) ==
    [ok |-> TRUE, users |-> DeleteFrom(db.users, name), members |-> {m \in db.members : m[1] # name}]

Transaction(r) ==
    LET q == reqs[r]
        after == CASE q.kind = "add" -> DatabaseAdd(q.change)
                   [] q.kind = "update" -> DatabaseUpdate(q.change, q.name)
                   [] q.kind = "delete" -> DatabaseDelete(q.name)
    IN /\ UsersAt(r, "transaction")
       /\ IF after.ok THEN /\ db' = [db EXCEPT !.users = after.users, !.members = after.members]
                           /\ ghost' = [ghost EXCEPT !.users = Change(@, q)]
          ELSE UNCHANGED <<db, ghost>>
       /\ Return(r)
       /\ Quiet /\ UNCHANGED mem

(* The built-in group can neither be changed nor deleted.                        *)
UpdateGroup(g, perms) == IF g = "Administrators" THEN db.details ELSE (g :> perms) @@ db.details

handleUpdateUserGroup(r) ==
    /\ Arrives("users", r, "put group") /\ Database
    /\ \E g \in UserGroups, perms \in {{}, {"tunnels"}} : db' = [db EXCEPT !.details = UpdateGroup(g, perms)]
    /\ UNCHANGED <<mem, reqs, ghost>>

DeleteGroup(g) == [db EXCEPT !.members = {m \in @ : m[2] # g}, !.details = Without(@, g)]

handleDeleteUserGroup(r) ==
    /\ Arrives("users", r, "delete group") /\ Database
    /\ \E g \in UserGroups :
         IF g = "Administrators" THEN UNCHANGED <<db, ghost>>
         ELSE /\ db' = DeleteGroup(g)
              /\ ghost' = [ghost EXCEPT !.users = [u \in DOMAIN @ |-> [@[u] EXCEPT !.groups = @ \ {g}]]]
    /\ UNCHANGED <<mem, reqs>>

-----------------------------------------------------------------------------
(* The file provider                                                           *)

ReadsUnlocked(r) ==
    /\ UsersAt(r, "lock")
    /\ Becomes(r, [pc |-> "save", copy |-> db.users] @@ reqs[r])
    /\ Quiet /\ UNCHANGED <<db, mem, ghost>>

(* The mutex is taken before the file is read and kept until the cache is        *)
(* loaded. A file that was cut cannot be parsed, an empty one holds no users.    *)
ReadUsersFromFile(r) ==
    /\ UsersAt(r, "lock") /\ mem.mtx = NoRequest
    /\ IF db.cut THEN Return(r) /\ UNCHANGED mem
       ELSE /\ mem' = [mem EXCEPT !.mtx = r]
            /\ Becomes(r, [pc |-> "save", copy |-> db.users] @@ reqs[r])
    /\ Quiet /\ UNCHANGED <<db, ghost>>

(* The name is checked once more against what was read: a change that does not   *)
(* fit ends here.                                                                *)
FileRefuses(q) ==
    CASE q.kind = "add" -> q.change.name \in DOMAIN q.copy
      [] q.kind = "update" -> q.name \notin DOMAIN q.copy \/ NewName(q.change, q.name) \in DOMAIN q.copy \ {q.name}
      [] q.kind = "delete" -> q.name \notin DOMAIN q.copy

SaveUsersToFile(r) ==
    /\ UsersAt(r, "save")
    /\ IF FileRefuses(reqs[r])
       THEN Return(r) /\ mem' = [mem EXCEPT !.mtx = NoRequest] /\ UNCHANGED <<db, ghost>>
       ELSE /\ db' = [db EXCEPT !.users = Change(reqs[r].copy, reqs[r])]
            /\ ghost' = [ghost EXCEPT !.users = Change(@, reqs[r]), !.lost = IF @ = "kept" THEN "yes" ELSE @]
            /\ Goto(r, "load") /\ UNCHANGED mem
    /\ Quiet

load(r) ==
    /\ UsersAt(r, "load")
    /\ mem' = [mem EXCEPT !.cache = db.users, !.mtx = NoRequest]
    /\ ghost' = [ghost EXCEPT !.stale = FALSE]
    /\ Return(r)
    /\ Quiet /\ UNCHANGED db

(* SIGUSR1: the file is read and the cache replaced, without the mutex.          *)
reload ==
    \/ /\ Fault("users", "reload") /\ ~db.cut
       /\ mem' = [mem EXCEPT !.signal = {db.users}]
       /\ UNCHANGED <<db, reqs, ghost>>
    \/ /\ Serves("users") /\ mem.signal # {}
       /\ \E users \in mem.signal : mem' = [mem EXCEPT !.cache = users, !.signal = {}]
       /\ ghost' = [ghost EXCEPT !.stale = TRUE]
       /\ Quiet /\ UNCHANGED <<db, reqs>>

(* A file that cannot be opened for writing keeps what it held; WriteFile        *)
(* empties it first, so that a write that fails leaves nothing or a part of the  *)
(* users. One that cannot be read back leaves the cache.                         *)
FileFails(r) ==
    /\ Fault("users", "file")
    /\ mem' = [mem EXCEPT !.mtx = NoRequest]
    /\ \/ /\ reqs[r].pc = "load"
          /\ ghost' = [ghost EXCEPT !.stale = TRUE] /\ UNCHANGED db
       \/ /\ reqs[r].pc = "save" /\ ~FileRefuses(reqs[r])
          /\ \/ UNCHANGED <<db, ghost>>
             \/ /\ \E cut \in BOOLEAN : db' = [db EXCEPT !.users = <<>>, !.cut = cut]
                /\ ghost' = [ghost EXCEPT !.lost = "kept"]
    /\ Return(r)

UserStoreNext ==
    \/ \E r \in Reqs :
         \/ handleChangeUser(r) \/ handleDeleteUser(r) \/ addUser(r) \/ updateUser(r) \/ DeleteUser(r) \/ StaticRefuses(r)
         \/ Transaction(r) \/ handleUpdateUserGroup(r) \/ handleDeleteUserGroup(r)
         \/ ReadUsersFromFile(r) \/ SaveUsersToFile(r) \/ load(r) \/ FileFails(r)
    \/ reload

-----------------------------------------------------------------------------
(* However the changes of several administrators interleave, the stored users    *)
(* are what the acknowledged changes make of them one after the other: none is   *)
(* lost or applied twice. Between changes the cache of the file provider shows   *)
(* the file, unless a reload came in between. A failed write of the file may     *)
(* lose every user (users/file.go:76); the server then goes on with the users    *)
(* its cache holds, all of them, until the next change or reload. The groups are *)
(* left out for the database provider, whose update of a row that is gone still  *)
(* writes them.                                                                  *)
UsersAsChanged ==
    Serves("users") =>
    /\ ghost.lost = "no" =>
         /\ DOMAIN db.users = DOMAIN ghost.users
         /\ \A u \in DOMAIN db.users :
              /\ db.users[u].pass = ghost.users[u].pass /\ db.users[u].expired = ghost.users[u].expired
              /\ ~Database => db.users[u].groups = ghost.users[u].groups
         /\ (~Database /\ mem.mtx = NoRequest /\ ~ghost.stale) => mem.cache = db.users
    /\ ghost.lost = "kept" => mem.cache = ghost.users
=============================================================================
