--------------------------- MODULE Notifications ---------------------------
(* Notifications: a dispatcher puts each one into the channel of its target, one *)
(* consumer per target runs a script or sends a mail within a time limit and     *)
(* stores the outcome, a cleaner removes old outcomes. Mails are sent by         *)
(* goroutines that may hang and outlive the time limit; how many may do so at a  *)
(* time is bounded.                                                              *)
(*                                                                               *)
(* mem.sinks holds the channels, mem.consumers what each consumer is doing,      *)
(* mem.mails the goroutines that send; db.log the stored outcomes. A text is     *)
(* given by its length.                                                          *)
EXTENDS Service

Targets == {"smtp", "script"}
Free == [pc |-> "waiting", n |-> 0]
NotifiesAt(r, pc) == Serves("notifications") /\ reqs[r].pc = pc
ConsumerAt(t, pc) == Serves("notifications") /\ mem.consumers[t].pc = pc
NewProcessor == [sinks |-> [t \in Targets |-> <<>>], consumers |-> [t \in Targets |-> Free], mails |-> {}, stopping |-> FALSE]

NotificationsInit(deployments) ==
    /\ Started(deployments)
    /\ db = [log |-> <<>>, now |-> 0]
    /\ mem = NewProcessor
    /\ ghost = [accepted |-> <<>>, sent |-> <<>>, ran |-> {}, gone |-> {}, next |-> 1]

---------------------------------------------------------------------------
(* Dispatch refuses an unknown content type; everything but smtp is a script.    *)
FigureOutTarget(name) == IF name = "smtp" THEN "smtp" ELSE "script"

Dispatch(r) ==
    /\ Arrives("notifications", r, "dispatch")
    /\ \E name \in setup.names, valid \in BOOLEAN :
          IF valid THEN /\ Becomes(r, [pc |-> "create", n |-> ghost.next, target |-> FigureOutTarget(name)])
                        /\ ghost' = [ghost EXCEPT !.next = @ + 1]
                   ELSE UNCHANGED <<reqs, ghost>>
    /\ UNCHANGED <<db, mem>>

(* Create rejects when the channel is nearly full, then waits for a place.       *)
Create(r) ==
    /\ NotifiesAt(r, "create")
    /\ IF Len(mem.sinks[reqs[r].target]) > setup.limit THEN Return(r) ELSE Goto(r, "put")
    /\ Quiet /\ UNCHANGED <<db, mem, ghost>>

Put(r) ==
    /\ NotifiesAt(r, "put")
    /\ Len(mem.sinks[reqs[r].target]) < setup.queue
    /\ mem' = [mem EXCEPT !.sinks[reqs[r].target] = Append(@, reqs[r].n)]
    /\ ghost' = [ghost EXCEPT !.accepted = Append(@, <<reqs[r].target, reqs[r].n>>)]
    /\ Return(r) /\ Quiet /\ UNCHANGED db

---------------------------------------------------------------------------
(* The consumers. Once the processor is told to die a consumer may still take    *)
(* what waits, or end.                                                           *)
startConsumer(t) ==
    /\ ConsumerAt(t, "waiting") /\ mem.sinks[t] # <<>>
    /\ mem' = [mem EXCEPT !.sinks[t] = Tail(@), !.consumers[t] = [pc |-> "process", n |-> Head(mem.sinks[t])]]
    /\ Quiet /\ UNCHANGED <<db, reqs, ghost>>

ConsumerEnds(t) ==
    /\ ConsumerAt(t, "waiting") /\ mem.stopping
    /\ mem' = [mem EXCEPT !.consumers[t].pc = "ended"]
    /\ Quiet /\ UNCHANGED <<db, reqs, ghost>>

Outcome(t, state, size) == [mem.consumers[t] EXCEPT !.pc = "store"] @@ [state |-> state, size |-> size]

(* A script runs: done when it exits well with nothing on stderr; else, or when  *)
(* it is killed at the time limit or hangs on, an error.                         *)
RunCancelableScript ==
    /\ ConsumerAt("script", "process")
    /\ \E end \in {"exit 0", "stderr", "exit 1", "killed", "not started"}, size \in setup.sizes :
          /\ mem' = [mem EXCEPT !.consumers["script"] = Outcome("script", IF end = "exit 0" THEN "done" ELSE "error", size)]
          /\ ghost' = IF end = "exit 0" THEN [ghost EXCEPT !.ran = @ \cup {mem.consumers["script"].n}] ELSE ghost
    /\ Quiet /\ UNCHANGED <<db, reqs>>

(* A mail: a goroutine is started; it needs a place among the hanging ones. The  *)
(* number of places taken is looked at before or after it has taken its own.     *)
Mails == IF Serves("notifications") THEN mem.mails ELSE {}
Sending == {m \in mem.mails : m.pc # "waiting"}

enqueueSend ==
    /\ ConsumerAt("smtp", "process")
    /\ mem' = [mem EXCEPT !.mails = @ \cup {[n |-> mem.consumers["smtp"].n, pc |-> "waiting", live |-> TRUE]}, !.consumers["smtp"].pc = "check"]
    /\ Quiet /\ UNCHANGED <<db, reqs, ghost>>

TakePlace(m) ==
    /\ m.pc = "waiting" /\ Cardinality(Sending) < setup.hanging
    /\ mem' = [mem EXCEPT !.mails = (@ \ {m}) \cup {[m EXCEPT !.pc = "sending"]}]
    /\ Quiet /\ UNCHANGED <<db, reqs, ghost>>

(* The context of a mail ends with its Process: it is not sent after that unless *)
(* it is on its way.                                                             *)
Ended(n) == {IF m.n = n THEN [m EXCEPT !.live = FALSE] ELSE m : m \in mem.mails}

SendChecks ==
    /\ ConsumerAt("smtp", "check")
    /\ mem' = IF Cardinality(Sending) >= setup.hanging
              THEN [mem EXCEPT !.consumers["smtp"] = Outcome("smtp", "error", 0), !.mails = Ended(mem.consumers["smtp"].n)]
              ELSE [mem EXCEPT !.consumers["smtp"].pc = "await"]
    /\ Quiet /\ UNCHANGED <<db, reqs, ghost>>

(* The mail server accepts the mail; the goroutine then reports it, or refuses.  *)
Deliver(m) ==
    /\ m.pc = "sending"
    /\ mem' = [mem EXCEPT !.mails = (@ \ {m}) \cup {[m EXCEPT !.pc = "sent"]}]
    /\ ghost' = [ghost EXCEPT !.sent = Append(@, m.n)]
    /\ Quiet /\ UNCHANGED <<db, reqs>>

Refuse(m) ==
    /\ m.pc = "sending"
    /\ mem' = [mem EXCEPT !.mails = (@ \ {m}) \cup {[m EXCEPT !.pc = "refused"]}]
    /\ Quiet /\ UNCHANGED <<db, reqs, ghost>>

Leave(m) ==
    /\ ~m.live /\ m.pc # "waiting"
    /\ mem' = [mem EXCEPT !.mails = @ \ {m}]
    /\ Quiet /\ UNCHANGED <<db, reqs, ghost>>

Send ==
    /\ ConsumerAt("smtp", "await")
    /\ \E m \in mem.mails :
          /\ m.n = mem.consumers["smtp"].n /\ m.pc \in {"sent", "refused"}
          /\ mem' = [mem EXCEPT !.mails = @ \ {m}, !.consumers["smtp"] = Outcome("smtp", IF m.pc = "sent" THEN "done" ELSE "error", 0)]
    /\ Quiet /\ UNCHANGED <<db, reqs, ghost>>

(* Breaks OutcomesStored: a mail that takes too long counts as sent.             *)
SendAssumesSent ==
    /\ ConsumerAt("smtp", "await")
    /\ mem' = [mem EXCEPT !.consumers["smtp"] = Outcome("smtp", "done", 0), !.mails = Ended(mem.consumers["smtp"].n)]
    /\ Quiet /\ UNCHANGED <<db, reqs, ghost>>

SendTimesOut ==
    /\ ConsumerAt("smtp", "await")
    /\ mem' = [mem EXCEPT !.consumers["smtp"] = Outcome("smtp", "error", 0), !.mails = Ended(mem.consumers["smtp"].n)]
    /\ Quiet /\ UNCHANGED <<db, reqs, ghost>>

---------------------------------------------------------------------------
(* The outcome. A text longer than MaxNotificationsQueue is cut to               *)
(* MaxOutAndErrorSize; cutting one that is shorter ends the process.             *)
Panics(size) == size > setup.queue /\ size < setup.textLimit
Cut(size) == IF size > setup.queue THEN setup.textLimit ELSE size

saveOutcome(t) ==
    /\ ConsumerAt(t, "store")
    /\ LET c == mem.consumers[t]
       IN  IF Panics(c.size)
           THEN /\ mem' = NewProcessor
                /\ reqs' = [r \in Reqs |-> Idle]
                /\ ghost' = [ghost EXCEPT !.gone = Range(ghost.accepted)]
                /\ UNCHANGED db
           ELSE /\ db' = [db EXCEPT !.log = Append(@, [n |-> c.n, target |-> t, state |-> c.state, size |-> Cut(c.size), at |-> db.now])]
                /\ mem' = [mem EXCEPT !.consumers[t] = Free]
                /\ UNCHANGED <<reqs, ghost>>
    /\ Quiet

SaveFails(t) ==
    /\ Fault("notifications", "statement") /\ ConsumerAt(t, "store")
    /\ mem' = [mem EXCEPT !.consumers[t] = Free]
    /\ ghost' = [ghost EXCEPT !.gone = @ \cup {<<t, mem.consumers[t].n>>}]
    /\ UNCHANGED <<db, reqs>>

(* The processor is closed: consumers finish what they have in hand.             *)
CloseProcessor ==
    /\ Fault("notifications", "close") /\ ~mem.stopping
    /\ mem' = [mem EXCEPT !.stopping = TRUE] /\ UNCHANGED <<db, reqs, ghost>>

NotificationsRestart ==
    /\ Fault("notifications", "restart")
    /\ mem' = NewProcessor /\ reqs' = [r \in Reqs |-> Idle]
    /\ ghost' = [ghost EXCEPT !.gone = Range(ghost.accepted)]
    /\ UNCHANGED db

(* The cleaner: one statement at start and at every tick.                        *)
cleanOld ==
    /\ Serves("notifications")
    /\ "clean" \in DOMAIN setup.sends /\ budget.sent["clean"] < setup.sends["clean"]
    /\ LET now == db.now + 1
           before == now - setup.keepFor
           old == {row \in Range(db.log) : row.at <= before}
       IN  /\ db' = [now |-> now, log |-> SelectSeq(db.log, LAMBDA row : row \notin old)]
           /\ ghost' = [ghost EXCEPT !.gone = @ \cup {<<row.target, row.n>> : row \in old}]
    /\ budget' = [budget EXCEPT !.sent["clean"] = @ + 1]
    /\ UNCHANGED <<setup, mem, reqs>>

---------------------------------------------------------------------------
NotificationsNext ==
    \/ \E r \in Reqs : \/ Dispatch(r)
                       \/ Create(r)
                       \/ Put(r)
    \/ \E t \in Targets : \/ startConsumer(t)
                          \/ ConsumerEnds(t)
                          \/ saveOutcome(t)
                          \/ SaveFails(t)
    \/ RunCancelableScript
    \/ enqueueSend
    \/ SendChecks
    \/ Send
    \/ SendTimesOut
    \/ \E m \in Mails : \/ TakePlace(m)
                        \/ Deliver(m)
                        \/ Refuse(m)
                        \/ Leave(m)
    \/ CloseProcessor
    \/ NotificationsRestart
    \/ cleanOld

---------------------------------------------------------------------------
Pending(t) == Range(mem.sinks[t]) \cup (IF mem.consumers[t].pc \in {"waiting", "ended"} THEN {} ELSE {mem.consumers[t].n})
Logged(t) == SelectSeq(db.log, LAMBDA row : row.target = t)
AcceptedBy(t) == SelectSeq(ghost.accepted, LAMBDA a : a[1] = t)

(* A notification the channel took waits, is being processed or has one stored   *)
(* outcome, unless a statement failed, the process ended or the outcome grew     *)
(* old; outcomes of a target are stored in the order of their dispatch; done     *)
(* means that the script succeeded or the mail server took the mail, and no mail *)
(* is sent twice; a stored text keeps to its limit. (processor.go startConsumer, *)
(* repository.go Create and save, cleaner.go cleanOld, rmailer/mail.go Send)     *)
OutcomesStored ==
    Serves("notifications") =>
        /\ \A a \in Range(ghost.accepted) : a[2] \in Pending(a[1]) \/ a \in ghost.gone \/ \E row \in Range(db.log) : row.n = a[2]
        /\ \A t \in Targets : LET rows == Logged(t) IN \A i, j \in DOMAIN rows : i < j =>
              \E x, y \in DOMAIN AcceptedBy(t) : x < y /\ AcceptedBy(t)[x][2] = rows[i].n /\ AcceptedBy(t)[y][2] = rows[j].n
        /\ \A row \in Range(db.log) : /\ row.state = "done" => row.n \in ghost.ran \cup Range(ghost.sent)
                                      /\ row.size <= setup.textLimit
        /\ IsInjective(ghost.sent)
=============================================================================
