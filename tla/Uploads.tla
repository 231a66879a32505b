------------------------------ MODULE Uploads ------------------------------
(* File pushes. The server stages the uploaded file under a path made from the   *)
(* id of the push, entitles each target agent to that path and asks it to        *)
(* collect the file; the agent fetches it, verifies the checksum it was told,    *)
(* and renames it into place. A push is a request of this module, what an agent  *)
(* does for it is mem.work.                                                      *)
(* db.staged: files in the server's staging directory, by id; db.temp: those in  *)
(* an agent's; db.dest: the destination at each agent, db.dir: its directory     *)
(* exists. mem.allowed: the pushes that entitle an agent to an id, counted;      *)
(* mem.work: the request an agent handles. ghost.outcomes: pushes and targets    *)
(* that were told an outcome; ghost.left: files that faults may have left.       *)
EXTENDS Destinations

NoWork == [pc |-> "none"]
NoPush == "no push"
Torn == "torn"

(* The account the agent runs under, and those it can look up.                    *)
AgentAccount == "agent"
KnownAccounts == {AgentAccount, "web"}
NoFile == [kind |-> "none"]
(* The group of an owner without one is its login group, of the same name here.   *)
lookupOwnerAndGroup(q) == [owner |-> IF q.owner = "" THEN AgentAccount ELSE q.owner,
                           group |-> IF q.group # "" THEN q.group ELSE IF q.owner # "" THEN q.owner ELSE AgentAccount]
PushedFile(q, data) == [kind |-> "file", data |-> data, mode |-> q.mode] @@ lookupOwnerAndGroup(q)
FormerFile(kind) == IF kind = "none" THEN NoFile ELSE [kind |-> kind, data |-> "former", mode |-> 0, owner |-> AgentAccount, group |-> AgentAccount]

UploadsInit(deployments) ==
    /\ Started(deployments)
    /\ db = [staged |-> <<>>, temp |-> [c \in Clients |-> <<>>], dest |-> [c \in Clients |-> FormerFile(setup.former)],
             dir |-> [c \in Clients |-> setup.former # "none"], beside |-> [c \in Clients |-> <<>>]]
    /\ mem = [allowed |-> <<>>, work |-> [c \in Clients |-> NoWork]]
    /\ ghost = [outcomes |-> {}, left |-> {}]

PushAt(r, pc) == Serves("uploads") /\ reqs[r].pc = pc
WorkAt(c, pc) == Serves("uploads") /\ mem.work[c].pc = pc

-----------------------------------------------------------------------------
(* The server: taking a push                                                   *)

(* A field of the form is absent, or a text that may not be what it should be. A  *)
(* mode that is no octal number is refused like a negative one.                   *)
FormBool == {"", "true", "false"}
FromMultipartRequest(form) == form.mode \in 0..MaxPushedFileMode /\ form.force \in FormBool /\ form.sync \in FormBool
getClientTagsFromReqForm(form) == form.tags \in {"none", "one"}

(* What is made of a form that can be read; one without an id gets a new one.     *)
uploadRequestFromRequest(r, form) ==
    [ok |-> form.parses /\ getClientTagsFromReqForm(form) /\ form.targets # {} /\ FromMultipartRequest(form) /\ form.file,
     push |-> [id |-> IF form.id = "" THEN r ELSE form.id, data |-> form.data, targets |-> form.targets, dest |-> form.dest, mode |-> form.mode,
               owner |-> form.owner, group |-> form.group, force |-> form.force = "true", sync |-> form.sync = "true", shared |-> FALSE]]

WithSeparator == {"a/b"}
handleFileUploads(r) ==
    /\ Arrives("uploads", r, "push")
    /\ \E form \in setup.forms :
         LET u == uploadRequestFromRequest(r, form)
             taken == u.ok /\ u.push.id \notin WithSeparator /\ Validate(u.push) /\ validateRemoteDestination(u.push.dest)
                      /\ u.push.targets \subseteq setup.accessible
         IN  Becomes(r, IF taken THEN [pc |-> "stage"] @@ u.push ELSE Idle)
    /\ UNCHANGED <<db, mem, ghost>>

IsStaged(id) == \E k \in DOMAIN mem.allowed : k[2] = id

(* The other pushes of the id of r that were not refused and have not ended.     *)
Sharing(r) == {o \in Reqs \ {r} : reqs[o].pc \in {"create", "copy", "digest", "push"} /\ reqs[o].id = reqs[r].id}

(* A path some agent is still entitled to is not written. A push that is not      *)
(* refused although another one of its id is under way is noted as shared, and so *)
(* is the other one.                                                              *)
RefuseStaged(r) ==
    /\ PushAt(r, "stage")
    /\ IF IsStaged(reqs[r].id) THEN Return(r)
       ELSE reqs' = [o \in Reqs |-> CASE o = r -> [reqs[r] EXCEPT !.pc = "create", !.shared = Sharing(r) # {}]
                                     [] o \in Sharing(r) -> [reqs[o] EXCEPT !.shared = TRUE]
                                     [] OTHER -> reqs[o]]
    /\ Quiet /\ UNCHANGED <<db, mem, ghost>>

(* CreateFile truncates what is there and copies the payload; two that copy to   *)
(* one path at a time may mix.                                                   *)
CreateFile(r) ==
    \/ /\ PushAt(r, "create")
       /\ db' = [db EXCEPT !.staged = (reqs[r].id :> Torn) @@ @]
       /\ Goto(r, "copy")
       /\ Quiet /\ UNCHANGED <<mem, ghost>>
    \/ /\ PushAt(r, "copy")
       /\ \E data \in {reqs[r].data} \cup {Torn : o \in {o \in Sharing(r) : reqs[o].pc = "copy"}} :
            db' = [db EXCEPT !.staged = IF reqs[r].id \in DOMAIN @ THEN [@ EXCEPT ![reqs[r].id] = data] ELSE @]
       /\ Goto(r, "digest")
       /\ Quiet /\ UNCHANGED <<mem, ghost>>

(* A path that cannot be opened is left as it is; a copy that breaks off, on a    *)
(* full disk or because the body ends early, leaves what was written.             *)
CreateFileFails(r) ==
    /\ Fault("uploads", "staging")
    /\ reqs[r].pc \in {"create", "copy"}
    /\ Return(r)
    /\ ghost' = [ghost EXCEPT !.left = @ \cup {reqs[r].id}]
    /\ UNCHANGED <<db, mem>>

(* The checksum is that of the file as it is read back; one that cannot be read  *)
(* ends the push and leaves the file.                                            *)
Md5HashFromReader(r) ==
    LET id == reqs[r].id
    IN /\ PushAt(r, "digest")
       /\ IF id \notin DOMAIN db.staged THEN Return(r)
          ELSE Becomes(r, [pc |-> "push", sum |-> db.staged[id], tasks |-> [c \in reqs[r].targets |-> "start"]] @@ reqs[r])
       /\ Quiet /\ UNCHANGED <<db, mem, ghost>>

DigestFails(r) ==
    /\ Fault("uploads", "staging")
    /\ reqs[r].pc = "digest"
    /\ Return(r)
    /\ ghost' = [ghost EXCEPT !.left = @ \cup {reqs[r].id}]
    /\ UNCHANGED <<db, mem>>

-----------------------------------------------------------------------------
(* The server: one target of a push                                            *)

Allow(allowed, c, id) == IF <<c, id>> \in DOMAIN allowed THEN [allowed EXCEPT ![<<c, id>>] = @ + 1] ELSE (<<c, id>> :> 1) @@ allowed
Release(allowed, c, id) == IF allowed[<<c, id>>] = 1 THEN Without(allowed, <<c, id>>) ELSE [allowed EXCEPT ![<<c, id>>] = @ - 1]
IsAllowed(c, id) == <<c, id>> \in DOMAIN mem.allowed

(* Every outcome is written to the audit log, an error as failed, and told to the  *)
(* sockets that listen.                                                           *)
consumeUploadResults(pushes, c, action) ==
    /\ ghost' = [ghost EXCEPT !.outcomes = @ \cup {<<r, c, action>> : r \in pushes}]
    /\ reqs' = [o \in Reqs |-> CASE o \in pushes -> [reqs[o] EXCEPT !.tasks[c] = "done"]
                                [] reqs[o].pc = "listening" -> [reqs[o] EXCEPT !.heard = @ \cup {<<r, c>> : r \in pushes}]
                                [] OTHER -> reqs[o]]

handleUploadsWS(r) ==
    /\ Arrives("uploads", r, "listen")
    /\ Becomes(r, [pc |-> "listening", heard |-> {<<o[1], o[2]>> : o \in ghost.outcomes}])
    /\ UNCHANGED <<db, mem, ghost>>

UploadsSocketCloses(r) ==
    /\ PushAt(r, "listening")
    /\ Return(r)
    /\ Quiet /\ UNCHANGED <<db, mem, ghost>>

(* A target that takes no files or is not connected gets its outcome at once.    *)
sendFileToClient(r, c) ==
    /\ PushAt(r, "push") /\ c \in reqs[r].targets /\ reqs[r].tasks[c] = "start"
    /\ IF setup.reception[c] \in {"off", "gone"} THEN consumeUploadResults({r}, c, "failed") /\ UNCHANGED mem
       ELSE /\ mem' = [mem EXCEPT !.allowed = Allow(@, c, reqs[r].id)]
            /\ reqs' = [reqs EXCEPT ![r].tasks[c] = "sent"]
            /\ UNCHANGED ghost
    /\ Quiet /\ UNCHANGED db

(* The staged file goes with the last outcome, whoever has staged the same path   *)
(* by then.                                                                      *)
RemoveStaged(r) ==
    /\ PushAt(r, "push") /\ \A c \in reqs[r].targets : reqs[r].tasks[c] = "done"
    /\ db' = [db EXCEPT !.staged = Without(@, reqs[r].id)]
    /\ ghost' = [ghost EXCEPT !.outcomes = {o \in @ : o[1] # r}]
    /\ Return(r)
    /\ Quiet /\ UNCHANGED mem

-----------------------------------------------------------------------------
(* The agent                                                                   *)

Step(c, pc) == mem' = [mem EXCEPT !.work[c].pc = pc]
Answer(c, result) == mem' = [mem EXCEPT !.work[c].pc = "reply", !.work[c].result = result]
DropTemp(c) == db' = [db EXCEPT !.temp[c] = Without(@, mem.work[c].id)]

(* A name that cannot be looked up is an error.                                  *)
fileOwnerOrGroupMatch(q, dest) ==
    CASE q.owner \notin KnownAccounts \cup {""} -> "error"
      [] q.owner \in KnownAccounts /\ dest.owner # q.owner -> "no"
      [] q.group \notin KnownAccounts \cup {""} -> "error"
      [] OTHER -> IF q.group \in {"", dest.group} THEN "yes" ELSE "no"

(* Another checksum, another mode, another owner.                                *)
fileShouldBeSynched(q, dest) ==
    CASE ~q.sync -> "ignored"
      [] dest.data # q.sum \/ (q.mode > 0 /\ dest.mode # q.mode) -> "fetch"
      [] OTHER -> CASE fileOwnerOrGroupMatch(q, dest) = "yes" -> "ignored"
                    [] fileOwnerOrGroupMatch(q, dest) = "no" -> "fetch"
                    [] OTHER -> "error"

getUploadedFile(q) == Validate(q) /\ ValidateDestinationPath(q.dest)

(* Requests of a connection are handled one after the other. A file that is      *)
(* there is only replaced by force or when it should be synched.                 *)
HandleUploadRequest(r, c) ==
    LET q == reqs[r]
        does == CASE setup.reception[c] # "on" \/ ~getUploadedFile(q) -> "error"
                  [] db.dest[c].kind = "none" \/ q.force -> "fetch"
                  [] OTHER -> fileShouldBeSynched(q, db.dest[c])
    IN /\ PushAt(r, "push") /\ c \in q.targets /\ q.tasks[c] = "sent"
       /\ mem.work[c] = NoWork
       /\ mem' = [mem EXCEPT !.work[c] = [pc |-> IF does = "fetch" THEN "fetch" ELSE "reply", push |-> r, q |-> Restrict(q, DOMAIN q \ {"pc", "tasks"}),
                                         id |-> q.id, result |-> does, written |-> FALSE, before |-> db.dest[c], dirBefore |-> db.dir[c]]]
       /\ Quiet /\ UNCHANGED <<db, reqs, ghost>>

(* The file is served while the agent is entitled to it and it is there.         *)
copyFileToTempLocation(c) ==
    LET id == mem.work[c].id
    IN /\ WorkAt(c, "fetch")
       /\ IF IsAllowed(c, id) /\ id \in DOMAIN db.staged
          THEN db' = [db EXCEPT !.temp[c] = (id :> db.staged[id]) @@ @] /\ Step(c, "verify")
          ELSE DropTemp(c) /\ Answer(c, "error")
       /\ Quiet /\ UNCHANGED <<reqs, ghost>>

Unverified(c) == TRUE
Md5HashMatch(c) == db.temp[c][mem.work[c].id] = mem.work[c].q.sum

Verifies(c) ==
    /\ WorkAt(c, "verify")
    /\ IF Md5HashMatch(c) THEN Step(c, "own") /\ UNCHANGED db ELSE DropTemp(c) /\ Answer(c, "error")
    /\ Quiet /\ UNCHANGED <<reqs, ghost>>

(* Nothing to do when the account of the agent is the one asked for; another one   *)
(* takes an agent that is root or may become it.                                   *)
ownerOrGroupMatchesCurrentUser(q) ==
    \/ q.owner = AgentAccount /\ q.group = ""
    \/ q.owner = "" /\ q.group = AgentAccount
    \/ q.owner = AgentAccount /\ q.group = AgentAccount
ChangeOwner(q) == setup.privileged /\ {q.owner, q.group} \subseteq KnownAccounts \cup {""}
chownFile(q) ==
    \/ q.owner = "" /\ q.group = ""
    \/ ownerOrGroupMatchesCurrentUser(q)
    \/ ChangeOwner(q)

(* Mode and owner are set on the temporary file.                                 *)
handleWritingFile(c) ==
    /\ WorkAt(c, "own")
    /\ IF chownFile(mem.work[c].q) THEN Step(c, "move") /\ UNCHANGED db ELSE DropTemp(c) /\ Answer(c, "error")
    /\ Quiet /\ UNCHANGED <<reqs, ghost>>

(* A missing directory is made, and what is at the destination is removed unless  *)
(* it is a regular file.                                                         *)
prepareDestinationDir(c) ==
    /\ WorkAt(c, "move")
    /\ db' = [db EXCEPT !.dir[c] = TRUE, !.dest[c] = IF @.kind = "other" THEN NoFile ELSE @]
    /\ Step(c, IF setup.crosses THEN "copy" ELSE "rename")
    /\ Quiet /\ UNCHANGED <<reqs, ghost>>

moveFileToDestination(c) ==
    LET w == mem.work[c]
    IN /\ WorkAt(c, "rename")
       /\ db' = [db EXCEPT !.dest[c] = PushedFile(w.q, db.temp[c][w.id]), !.temp[c] = Without(@, w.id)]
       /\ Answer(c, "success")
       /\ Quiet /\ UNCHANGED <<reqs, ghost>>

(* To another file system: the file is copied beside the destination, renamed      *)
(* over it, and removed from the staging directory.                               *)
copyReplace(c) ==
    LET w == mem.work[c]
    IN \/ /\ WorkAt(c, "copy")
          /\ db' = [db EXCEPT !.beside[c] = <<PushedFile(w.q, db.temp[c][w.id])>>]
          /\ Step(c, "replace")
          /\ Quiet /\ UNCHANGED <<reqs, ghost>>
       \/ /\ WorkAt(c, "replace")
          /\ db' = [db EXCEPT !.dest[c] = db.beside[c][1], !.beside[c] = <<>>]
          /\ mem' = [mem EXCEPT !.work[c].pc = "unlink", !.work[c].written = TRUE]
          /\ Quiet /\ UNCHANGED <<reqs, ghost>>
       \/ /\ WorkAt(c, "unlink")
          /\ DropTemp(c) /\ Answer(c, "success")
          /\ Quiet /\ UNCHANGED <<reqs, ghost>>

(* A directory that cannot be made and a rename or a copy that fails leave neither *)
(* the temporary file nor a copy nor a new directory.                              *)
AgentStepFails(c) ==
    LET w == mem.work[c]
    IN /\ Fault("uploads", "agent")
       /\ w.pc \in {"fetch", "verify", "own", "move", "rename", "copy", "replace"}
       /\ db' = [db EXCEPT !.temp[c] = Without(@, w.id), !.beside[c] = <<>>, !.dir[c] = w.dirBefore]
       /\ Answer(c, "error")
       /\ UNCHANGED <<reqs, ghost>>

(* The file is in place, but the staged one cannot be removed: an error, and the   *)
(* directory, which is not empty, stays.                                           *)
UnlinkFails(c) ==
    /\ Fault("uploads", "agent") /\ WorkAt(c, "unlink")
    /\ Answer(c, "error")
    /\ UNCHANGED <<db, reqs, ghost>>

Reply(c) ==
    LET w == mem.work[c]
    IN /\ WorkAt(c, "reply")
       /\ IF w.push = NoPush THEN mem' = [mem EXCEPT !.work[c] = NoWork] /\ UNCHANGED <<reqs, ghost>>
          ELSE /\ mem' = [mem EXCEPT !.work[c] = NoWork, !.allowed = Release(@, c, w.id)]
               /\ consumeUploadResults({w.push}, c, IF w.result = "error" THEN "failed" ELSE "success")
       /\ Quiet /\ UNCHANGED db

(* The connection of an agent is lost: the server takes that for the outcome,    *)
(* the agent goes on with what it is doing.                                      *)
ConnectionLost(c) ==
    LET sent == {r \in Reqs : reqs[r].pc = "push" /\ c \in reqs[r].targets /\ reqs[r].tasks[c] = "sent"}
    IN /\ Fault("uploads", "lost")
       /\ sent # {}
       /\ consumeUploadResults(sent, c, "failed")
       /\ mem' = [mem EXCEPT !.allowed = Restrict(@, {k \in DOMAIN @ : k[1] # c}),
                             !.work[c] = IF @ = NoWork THEN @ ELSE [@ EXCEPT !.push = NoPush]]
       /\ UNCHANGED db

UploadsNext ==
    \/ \E r \in Reqs :
         \/ handleFileUploads(r) \/ RefuseStaged(r) \/ CreateFile(r) \/ CreateFileFails(r) \/ Md5HashFromReader(r) \/ DigestFails(r) \/ RemoveStaged(r)
         \/ handleUploadsWS(r) \/ UploadsSocketCloses(r)
         \/ \E c \in Clients : sendFileToClient(r, c) \/ HandleUploadRequest(r, c)
    \/ \E c \in Clients :
         \/ copyFileToTempLocation(c) \/ Verifies(c) \/ handleWritingFile(c) \/ prepareDestinationDir(c) \/ moveFileToDestination(c)
         \/ copyReplace(c) \/ AgentStepFails(c) \/ UnlinkFails(c)
         \/ Reply(c) \/ ConnectionLost(c)

-----------------------------------------------------------------------------
(* An agent that answers a push has either put the whole file whose checksum it  *)
(* was told into place, with the mode and the owner asked for, or left a regular  *)
(* file and the directory as they were (or says that only the staged file could   *)
(* not be removed); either way nothing else stays behind. The file is the payload *)
(* of the push unless another push of its id was under way: IsStaged only sees a  *)
(* push once an agent is entitled to its file, so that two pushes of one id can    *)
(* pass it together, and the agents of one then get the payload of the other, or   *)
(* a mix, with the checksum of what was read back (upload.go:122, 147), although   *)
(* upload.go:118 and staged_uploads.go:66 say that the second one is refused. A    *)
(* file in place does not lie in a protected subtree, spelled as the operator or   *)
(* as the file system does (see Guarded for the one name that is left out). An     *)
(* agent is entitled to a staged file exactly while a push asks it to collect it,  *)
(* every target of a push gets its outcome, which every socket that listens hears, *)
(* before the push ends, and when no push is under way no staged file is left but  *)
(* those of pushes whose staging failed (upload.go:128-151 removes nothing then).  *)
PushWholeOrNot ==
    Serves("uploads") =>
    /\ \A c \in Clients :
         LET w == mem.work[c]
             wrote == w.result = "success" \/ w.written
         IN w.pc = "reply" =>
            /\ wrote => /\ db.dest[c] = PushedFile(w.q, w.q.sum) /\ ~Guarded(w.q.dest.at)
                        /\ w.q.shared \/ w.q.sum = w.q.data
            /\ (~wrote /\ w.before.kind # "other") => db.dest[c] = w.before /\ db.dir[c] = w.dirBefore
            /\ (w.written /\ w.result = "error") \/ w.id \notin DOMAIN db.temp[c]
            /\ db.beside[c] = <<>>
    /\ \A c \in Clients, id \in setup.ids :
         IsAllowed(c, id) <=> \E r \in Reqs : reqs[r].pc = "push" /\ reqs[r].id = id /\ c \in reqs[r].targets /\ reqs[r].tasks[c] = "sent"
    /\ \A r \in Reqs : reqs[r].pc = "push" => \A c \in reqs[r].targets : reqs[r].tasks[c] = "done" <=> \E o \in ghost.outcomes : o[1] = r /\ o[2] = c
    /\ \A r \in Reqs : reqs[r].pc = "listening" => \A o \in ghost.outcomes : <<o[1], o[2]>> \in reqs[r].heard
    /\ (\A r \in Reqs : reqs[r] = Idle) => DOMAIN db.staged \subseteq ghost.left
=============================================================================
