------------------------------ MODULE Library ------------------------------
(* What users keep in the server: scripts and commands, client groups, and       *)
(* tunnels stored for a client. A handler checks with one statement and writes   *)
(* with another; nothing but the tables' indexes holds between the two.          *)
(* db.scripts, db.commands, db.stored: rows by id, with the name and who made    *)
(* them (for a stored tunnel, its client); db.groups: the text of a group by id. *)
(* mem.clients: the clients in memory. ghost: per table, the creator of every id *)
(* ever given and the ids deleted.                                               *)
EXTENDS Service

CONSTANT RowNames

Tables == {"scripts", "commands", "stored"}
Users == {"alice", "bob"}

(* setup.table: the table that the requests are about.                           *)
LibraryInit(deployments) ==
    /\ Started(deployments)
    /\ db = [t \in Tables |-> <<>>] @@ [groups |-> <<>>]
    /\ mem = [clients |-> Clients]
    /\ ghost = [made |-> [t \in Tables |-> <<>>], deleted |-> [t \in Tables |-> {}]]

LibraryAt(r, pc) == Serves("library") /\ reqs[r].pc = pc
LibraryQuiet == Quiet /\ UNCHANGED <<mem>>
NewID(t) == Cardinality(DOMAIN ghost.made[t]) + 1

Add(t, row, by) ==
    /\ db' = [db EXCEPT ![t] = (NewID(t) :> row) @@ @]
    /\ ghost' = [ghost EXCEPT !.made[t] = (NewID(t) :> by) @@ @]
Remove(t, id) ==
    /\ db' = [db EXCEPT ![t] = Without(@, id)]
    /\ ghost' = [ghost EXCEPT !.deleted[t] = @ \cup {id}]

-----------------------------------------------------------------------------
(* Scripts and commands                                                        *)

ListByName(t, name) == {i \in DOMAIN db[t] : db[t][i].name = name}

(* Validate refuses an input without a name.                                     *)
Asks(t, r, kind) ==
    /\ Arrives("library", r, kind) /\ setup.table = t
    /\ \E name \in RowNames \cup {""}, by \in Users, id \in IF kind = "create" THEN {0} ELSE DOMAIN ghost.made[t] :
         Becomes(r, IF name = "" THEN Idle ELSE [pc |-> kind, table |-> t, id |-> id, name |-> name, by |-> by])
    /\ UNCHANGED <<db, mem, ghost>>

handleScriptCreate(r) == Asks("scripts", r, "create")
handleScriptUpdate(r) == Asks("scripts", r, "update")
handleCommandCreate(r) == Asks("commands", r, "create")
handleCommandUpdate(r) == Asks("commands", r, "update")

Creates(t, r) ==
    /\ LibraryAt(r, "create") /\ reqs[r].table = t
    /\ IF ListByName(t, reqs[r].name) = {} THEN Goto(r, "save") ELSE Return(r)
    /\ LibraryQuiet /\ UNCHANGED <<db, ghost>>

(* Update: found by id, then the name looked up; two statements.                 *)
UpdateFinds(t, r) ==
    /\ LibraryAt(r, "update") /\ reqs[r].table = t
    /\ IF reqs[r].id \in DOMAIN db[t] THEN Goto(r, "update name") ELSE Return(r)
    /\ LibraryQuiet /\ UNCHANGED <<db, ghost>>

UpdateChecksName(t, r) ==
    /\ LibraryAt(r, "update name") /\ reqs[r].table = t
    /\ IF ListByName(t, reqs[r].name) \subseteq {reqs[r].id} THEN Goto(r, "save") ELSE Return(r)
    /\ LibraryQuiet /\ UNCHANGED <<db, ghost>>

UpsertRow(t, q) == (q.id :> [name |-> q.name, by |-> q.by]) @@ db[t]

(* The columns that UPDATE sets, in a row that may be gone: not the creator.     *)
UpdateRow(t, q) == IF q.id \in DOMAIN db[t] THEN [db[t] EXCEPT ![q.id].name = q.name] ELSE db[t]

(* The unique index on the name refuses what another request was faster with.    *)
SaveRow(t, r) ==
    LET q == reqs[r]
        taken == ListByName(t, q.name) \ {q.id} # {}
    IN /\ LibraryAt(r, "save") /\ q.table = t
       /\ IF taken THEN UNCHANGED <<db, ghost>>
          ELSE IF q.id = 0 THEN Add(t, [name |-> q.name, by |-> q.by], q.by)
          ELSE db' = [db EXCEPT ![t] = UpdateRow(t, q)] /\ UNCHANGED ghost
       /\ Return(r)
       /\ LibraryQuiet

ScriptCreate(r) == Creates("scripts", r)
ScriptUpdate(r) == UpdateFinds("scripts", r) \/ UpdateChecksName("scripts", r)
ScriptSave(r) == SaveRow("scripts", r)
CommandCreate(r) == Creates("commands", r)
CommandUpdate(r) == UpdateFinds("commands", r) \/ UpdateChecksName("commands", r)
CommandSave(r) == SaveRow("commands", r)

AsksDelete(t, r) ==
    /\ Arrives("library", r, "delete") /\ setup.table = t
    /\ \E id \in DOMAIN ghost.made[t] : Becomes(r, [pc |-> "delete", table |-> t, id |-> id])
    /\ UNCHANGED <<db, mem, ghost>>

handleDeleteScript(r) == AsksDelete("scripts", r)
handleDeleteCommand(r) == AsksDelete("commands", r)

DeleteFinds(t, r) ==
    /\ LibraryAt(r, "delete") /\ reqs[r].table = t
    /\ IF reqs[r].id \in DOMAIN db[t] THEN Goto(r, "delete row") ELSE Return(r)
    /\ LibraryQuiet /\ UNCHANGED <<db, ghost>>

DeleteRow(t, r) ==
    /\ LibraryAt(r, "delete row") /\ reqs[r].table = t
    /\ Remove(t, reqs[r].id)
    /\ Return(r)
    /\ LibraryQuiet

ScriptDelete(r) == DeleteFinds("scripts", r)
ScriptDeleteRow(r) == DeleteRow("scripts", r)
CommandDelete(r) == DeleteFinds("commands", r)
CommandDeleteRow(r) == DeleteRow("commands", r)

-----------------------------------------------------------------------------
(* Client groups: one statement each. PUT replaces or makes the row.             *)

validateInputClientGroup(id) == id # ""
GroupIDs == {"", "g"}
GroupCreate(id, text) == IF id \in DOMAIN db.groups THEN db.groups ELSE (id :> text) @@ db.groups
GroupReplace(id, text) == (id :> text) @@ db.groups
GroupDelete(id) == Without(db.groups, id)

handlePostClientGroups(r) ==
    /\ Arrives("library", r, "post group")
    /\ \E id \in GroupIDs, text \in RowNames :
         db' = IF validateInputClientGroup(id) THEN [db EXCEPT !.groups = GroupCreate(id, text)] ELSE db
    /\ UNCHANGED <<mem, reqs, ghost>>

handlePutClientGroup(r) ==
    /\ Arrives("library", r, "put group")
    /\ \E param, id \in GroupIDs, text \in RowNames :
         db' = IF param # "" /\ param = id /\ validateInputClientGroup(id) THEN [db EXCEPT !.groups = GroupReplace(id, text)] ELSE db
    /\ UNCHANGED <<mem, reqs, ghost>>

handleDeleteClientGroup(r) ==
    /\ Arrives("library", r, "delete group")
    /\ \E id \in GroupIDs : db' = IF id # "" THEN [db EXCEPT !.groups = GroupDelete(id)] ELSE db
    /\ UNCHANGED <<mem, reqs, ghost>>

-----------------------------------------------------------------------------
(* Stored tunnels: the client is found in memory, then one statement runs.       *)

AsksStored(r, kind) ==
    /\ Arrives("library", r, kind)
    /\ \E c \in Clients, name \in RowNames, id \in IF kind = "post" THEN {0} ELSE DOMAIN ghost.made.stored :
         Becomes(r, IF c \in mem.clients THEN [pc |-> kind, id |-> id, by |-> c, name |-> name] ELSE Idle)
    /\ UNCHANGED <<db, mem, ghost>>

handlePostStoredTunnels(r) == AsksStored(r, "post")
handlePutStoredTunnel(r) == AsksStored(r, "put")
handleDeleteStoredTunnel(r) == AsksStored(r, "drop")

StoredInsert(r) ==
    /\ LibraryAt(r, "post")
    /\ Add("stored", [name |-> reqs[r].name, by |-> reqs[r].by], reqs[r].by)
    /\ Return(r)
    /\ LibraryQuiet

Owned(q) == q.id \in DOMAIN db.stored /\ db.stored[q.id].by = q.by

StoredUpdate(r) ==
    /\ LibraryAt(r, "put")
    /\ db' = IF Owned(reqs[r]) THEN [db EXCEPT !.stored[reqs[r].id].name = reqs[r].name] ELSE db
    /\ Return(r)
    /\ LibraryQuiet /\ UNCHANGED ghost

StoredDelete(r) ==
    /\ LibraryAt(r, "drop")
    /\ IF Owned(reqs[r]) THEN Remove("stored", reqs[r].id) ELSE UNCHANGED <<db, ghost>>
    /\ Return(r)
    /\ LibraryQuiet

(* The client is purged: its stored tunnels stay, foreign keys are not enforced. *)
StoredOwnerPurged ==
    /\ Fault("library", "purge")
    /\ \E c \in mem.clients : mem' = [mem EXCEPT !.clients = @ \ {c}]
    /\ UNCHANGED <<db, reqs, ghost>>

LibraryStatementFails(r) ==
    /\ Fault("library", "statement")
    /\ reqs[r] # Idle
    /\ Return(r)
    /\ UNCHANGED <<db, mem, ghost>>

LibraryNext ==
    \/ \E r \in Reqs :
         \/ handleScriptCreate(r) \/ handleScriptUpdate(r) \/ handleDeleteScript(r)
         \/ ScriptCreate(r) \/ ScriptUpdate(r) \/ ScriptSave(r) \/ ScriptDelete(r) \/ ScriptDeleteRow(r)
         \/ handleCommandCreate(r) \/ handleCommandUpdate(r) \/ handleDeleteCommand(r)
         \/ CommandCreate(r) \/ CommandUpdate(r) \/ CommandSave(r) \/ CommandDelete(r) \/ CommandDeleteRow(r)
         \/ handlePostClientGroups(r) \/ handlePutClientGroup(r) \/ handleDeleteClientGroup(r)
         \/ handlePostStoredTunnels(r) \/ handlePutStoredTunnel(r) \/ handleDeleteStoredTunnel(r)
         \/ StoredInsert(r) \/ StoredUpdate(r) \/ StoredDelete(r)
         \/ LibraryStatementFails(r)
    \/ StoredOwnerPurged

-----------------------------------------------------------------------------
(* Between the check and the statement of a handler others may write: still no   *)
(* two scripts and no two commands share a name, a row keeps the creator (or the *)
(* client) it was made with, and what was deleted does not come back with a late *)
(* update.                                                                       *)
LibraryKeepsRows ==
    Serves("library") =>
    /\ \A t \in {"scripts", "commands"} : \A i, j \in DOMAIN db[t] : db[t][i].name = db[t][j].name => i = j
    /\ \A t \in Tables : \A i \in DOMAIN db[t] : i \notin ghost.deleted[t] /\ db[t][i].by = ghost.made[t][i]
=============================================================================
