---------------------------- MODULE Measurements ----------------------------
(* The server's store of what agents measure. A connection's handler stamps a    *)
(* measurement and hands it to a bounded queue; one goroutine takes from the     *)
(* queue and inserts, encrypting the two texts an agent composes; a cleanup task *)
(* deletes what is too old in chunks and now and then rewrites the file. At      *)
(* shutdown the queue's context is cancelled, then the queue is drained.         *)
(*                                                                               *)
(* db.rows holds measurements; mem.now is the clock, which moves when something  *)
(* is measured; mem.saving is the measurement in the worker's hand.              *)
EXTENDS Service

NoMeasurement == [client |-> "none", at |-> -1, blob |-> ""]
NoCleanup == [pc |-> "waiting", before |-> -1, deleted |-> 0, found |-> {}]
MeasuresAt(r, pc) == Serves("measurements") /\ reqs[r].pc = pc
Monitoring(pc) == Serves("measurements") /\ mem.open /\ mem.cleanup.pc = pc

---------------------------------------------------------------------------
(* What is encrypted at rest. A stored text is [text, sealed].                   *)
Encrypt(text) == [text |-> text, sealed |-> setup.encrypts /\ text # ""]
Decrypt(stored) == stored.text

MeasurementsInit(deployments) ==
    /\ Started(deployments)
    /\ db = [rows |-> {[client |-> c, at |-> 0, blob |-> [text |-> "old", sealed |-> FALSE]] : c \in setup.legacy}]
    /\ mem = [open |-> FALSE, queue |-> <<>>, saving |-> NoMeasurement, stopping |-> FALSE, worker |-> "running",
              now |-> 1, lastVacuum |-> 0, cleanup |-> NoCleanup]
    /\ ghost = [accepted |-> {}, saved |-> db.rows, lost |-> {}, vacuums |-> {0}, misread |-> FALSE]

(* At start the rows an older server wrote in clear are encrypted one by one; a  *)
(* failure is logged and ends it.                                                *)
encryptExistingMeasurements ==
    /\ Serves("measurements") /\ ~mem.open
    /\ \E row \in {x \in db.rows : setup.encrypts /\ ~x.blob.sealed /\ x.blob.text # ""} :
          db' = [rows |-> (db.rows \ {row}) \cup {[row EXCEPT !.blob = Encrypt(row.blob.text)]}]
    /\ Quiet /\ UNCHANGED <<mem, reqs, ghost>>

BackfillFails == /\ Fault("measurements", "backfill") /\ ~mem.open
                 /\ mem' = [mem EXCEPT !.open = TRUE] /\ UNCHANGED <<db, reqs, ghost>>

NewMeasurementsProvider ==
    /\ Serves("measurements") /\ ~mem.open
    /\ setup.encrypts => \A x \in db.rows : x.blob.sealed \/ x.blob.text = ""
    /\ mem' = [mem EXCEPT !.open = TRUE]
    /\ Quiet /\ UNCHANGED <<db, reqs, ghost>>

---------------------------------------------------------------------------
(* The handler of a connection: the agent's identity and the server's clock are  *)
(* set by the server, and a text that is not JSON is dropped. An agent has one   *)
(* connection, whose requests are handled one after the other.                   *)
dropNonJSONMeasurementBlobs(text) == IF text = "json" THEN text ELSE ""

SaveMeasurementRequest(r) ==
    /\ Arrives("measurements", r, "measure") /\ mem.open
    /\ \E c \in Clients, text \in setup.texts :
          /\ \A q \in Reqs : reqs[q] # Idle => reqs[q].m.client # c
          /\ IF setup.enabled
             THEN Becomes(r, [pc |-> "notify", m |-> [client |-> c, at |-> mem.now, blob |-> dropNonJSONMeasurementBlobs(text)]])
             ELSE UNCHANGED reqs
    /\ mem' = [mem EXCEPT !.now = @ + 1]
    /\ UNCHANGED <<db, ghost>>

(* Notify waits while the queue is full and gives up when the queue is closed.   *)
Notify(r) ==
    /\ MeasuresAt(r, "notify")
    /\ Len(mem.queue) < setup.queue
    /\ mem' = [mem EXCEPT !.queue = Append(@, reqs[r].m)]
    /\ ghost' = [ghost EXCEPT !.accepted = @ \cup {reqs[r].m}]
    /\ Return(r) /\ Quiet /\ UNCHANGED db

NotifyClosed(r) == MeasuresAt(r, "notify") /\ mem.stopping /\ Return(r) /\ Quiet /\ UNCHANGED <<db, mem, ghost>>

---------------------------------------------------------------------------
(* The worker. process prefers nothing between a measurement and the end of its  *)
(* context, and draining takes the measurements the same way.                    *)
process ==
    /\ Serves("measurements") /\ mem.worker = "running" /\ mem.saving = NoMeasurement /\ mem.queue # <<>>
    /\ mem' = [mem EXCEPT !.queue = Tail(@), !.saving = Head(mem.queue)]
    /\ Quiet /\ UNCHANGED <<db, reqs, ghost>>

saveAllEnqueuedMeasurements ==
    /\ Serves("measurements") /\ mem.worker = "running" /\ mem.saving = NoMeasurement /\ mem.queue = <<>> /\ mem.stopping
    /\ mem' = [mem EXCEPT !.worker = "stopped"]
    /\ Quiet /\ UNCHANGED <<db, reqs, ghost>>

InHand == Serves("measurements") /\ mem.saving # NoMeasurement

(* The insertion, with the context of the queue: once that is cancelled the      *)
(* statement is refused and the measurement is gone.                             *)
CreateMeasurement ==
    /\ InHand
    /\ IF mem.stopping
       THEN /\ ghost' = [ghost EXCEPT !.lost = @ \cup {mem.saving}]
            /\ UNCHANGED db
       ELSE LET row == [mem.saving EXCEPT !.blob = Encrypt(@)]
            IN  /\ db' = [rows |-> db.rows \cup {row}]
                /\ ghost' = [ghost EXCEPT !.saved = @ \cup {row}]
    /\ mem' = [mem EXCEPT !.saving = NoMeasurement]
    /\ Quiet /\ UNCHANGED reqs

(* Busy past the retries, or refused: logged, not repeated.                      *)
SaveMeasurementFails ==
    /\ Fault("measurements", "statement") /\ InHand
    /\ ghost' = [ghost EXCEPT !.lost = @ \cup {mem.saving}]
    /\ mem' = [mem EXCEPT !.saving = NoMeasurement]
    /\ UNCHANGED <<db, reqs>>

CloseQueue == /\ Fault("measurements", "close") /\ mem.open /\ ~mem.stopping
              /\ mem' = [mem EXCEPT !.stopping = TRUE] /\ UNCHANGED <<db, reqs, ghost>>

---------------------------------------------------------------------------
(* The cleanup task of the scheduler.                                            *)
OlderThan(before) == {row \in db.rows : row.at < before}

DeleteMeasurementsOlderThan ==
    /\ Monitoring("waiting") /\ mem.now > setup.keep /\ budget.sent["cleanup"] < setup.sends["cleanup"]
    /\ LET before == mem.now - setup.keep
       IN  mem' = [mem EXCEPT !.cleanup = [pc |-> "deleting", before |-> before, deleted |-> 0, found |-> OlderThan(before)]]
    /\ budget' = [budget EXCEPT !.sent["cleanup"] = @ + 1]
    /\ UNCHANGED <<setup, db, reqs, ghost>>

(* One statement deletes all rows of the oldest MaxDeletedEntries timestamps and *)
(* the loop goes on while a statement deleted that many rows or more.            *)
Oldest(rows, n) == {x \in rows : Cardinality({y.at : y \in {z \in rows : z.at < x.at}}) < n}

(* Breaks MeasurementsKept: one statement, whatever it has left.                    *)
GoesOnNever(deleted) == FALSE

GoesOn(deleted) == deleted >= setup.chunk

DeleteMeasurementsBefore ==
    /\ Monitoring("deleting")
    /\ LET gone == Oldest(OlderThan(mem.cleanup.before), setup.chunk)
           n == Cardinality(gone)
       IN  /\ db' = [rows |-> db.rows \ gone]
           /\ mem' = [mem EXCEPT !.cleanup.deleted = @ + n, !.cleanup.pc = IF GoesOn(n) THEN @ ELSE "deleted"]
    /\ Quiet /\ UNCHANGED <<reqs, ghost>>

DeleteFails == /\ Fault("measurements", "statement") /\ Monitoring("deleting")
               /\ mem' = [mem EXCEPT !.cleanup = NoCleanup] /\ UNCHANGED <<db, reqs, ghost>>

VacuumDue == mem.cleanup.deleted > 0 /\ mem.now - mem.lastVacuum >= setup.vacuumEvery

CleanupRun ==
    /\ Monitoring("deleted")
    /\ mem' = [mem EXCEPT !.cleanup = NoCleanup, !.lastVacuum = IF VacuumDue THEN mem.now ELSE @]
    /\ ghost' = [ghost EXCEPT !.vacuums = IF VacuumDue THEN @ \cup {mem.now} ELSE @]
    /\ Quiet /\ UNCHANGED <<db, reqs>>

VacuumFails == /\ Fault("measurements", "statement") /\ Monitoring("deleted") /\ VacuumDue
               /\ mem' = [mem EXCEPT !.cleanup = NoCleanup] /\ UNCHANGED <<db, reqs, ghost>>

---------------------------------------------------------------------------
(* Reading. A bound is an operator with a text: gt and lt are for seconds since   *)
(* the epoch, since and until for a time with an offset; anything else is refused *)
(* (<<>>). The second in UTC is left, without a fraction. The times of rows are   *)
(* finer, setup.perSecond to a second, and are compared as texts: of two that     *)
(* begin alike the longer one, which is the row's, is the later.                  *)
Instant(b) == b.wall - b.offset

parseAndConvertFilterValues(b) ==
    IF b.form = IF b.op \in {"gt", "lt"} THEN "epoch" ELSE "zoned" THEN <<Instant(b)>> ELSE <<>>

After(row, second) == row.at \div setup.perSecond >= second

(* A graph needs two bounds of one kind the right way round, and a span within    *)
(* the limits.                                                                    *)
validateAndParseGraphOptions(lower, upper) ==
    /\ <<lower.op, upper.op>> \in {<<"gt", "lt">>, <<"since", "until">>}
    /\ Instant(upper) - Instant(lower) \in setup.minSpan .. setup.maxSpan

ListByClientID(c, l, u) ==
    {[at |-> row.at, text |-> Decrypt(row.blob)] : row \in {x \in db.rows : x.client = c /\ After(x, l) /\ ~After(x, u)}}

(* What was meant: the time a bound names in its own zone, whatever the format.   *)
Asked(c, lower, upper) ==
    {[at |-> x.at, text |-> x.blob.text] : x \in {y \in db.rows : /\ y.client = c
                                                                /\ y.at + lower.offset * setup.perSecond >= lower.wall * setup.perSecond
                                                                /\ y.at + upper.offset * setup.perSecond < upper.wall * setup.perSecond}}

Bounds(ops, seconds) ==
    [op : ops, form : {"epoch"}, wall : seconds, offset : {0}]
    \cup {[op |-> p, form |-> "zoned", wall |-> s + o, offset |-> o] : p \in ops, s \in seconds, o \in setup.zones}
    \cup [op : ops, form : {"junk"}, wall : {0}, offset : {0}]

(* The request is answered, and with other rows than were meant.                  *)
Misread(c, graph, lower, upper) ==
    LET l == parseAndConvertFilterValues(lower)
        u == parseAndConvertFilterValues(upper)
    IN  /\ l # <<>> /\ u # <<>> /\ (graph => validateAndParseGraphOptions(lower, upper))
        /\ Asked(c, lower, upper) # ListByClientID(c, l[1], u[1])

(* Reading changes nothing, so one step stands for every request of a moment.     *)
handleGetClientMeasurements(r) ==
    /\ Arrives("measurements", r, "read") /\ mem.open
    /\ ghost' = [ghost EXCEPT !.misread = @ \/ \E c \in Clients, graph \in BOOLEAN, lower \in Bounds({"gt", "since"}, 0 .. 1), upper \in Bounds({"lt", "until"}, 1 .. 2) :
                                                  Misread(c, graph, lower, upper)]
    /\ UNCHANGED <<db, mem, reqs>>

---------------------------------------------------------------------------
MeasurementsNext ==
    \/ encryptExistingMeasurements
    \/ BackfillFails
    \/ NewMeasurementsProvider
    \/ \E r \in Reqs : \/ SaveMeasurementRequest(r)
                       \/ Notify(r)
                       \/ NotifyClosed(r)
                       \/ handleGetClientMeasurements(r)
    \/ process
    \/ saveAllEnqueuedMeasurements
    \/ CreateMeasurement
    \/ SaveMeasurementFails
    \/ CloseQueue
    \/ DeleteMeasurementsOlderThan
    \/ DeleteMeasurementsBefore
    \/ DeleteFails
    \/ CleanupRun
    \/ VacuumFails

---------------------------------------------------------------------------
Key(m) == <<m.client, m.at>>
Keys(S) == {Key(m) : m \in S}

LossesCounted ==
    /\ Keys(ghost.accepted) \subseteq Keys(Range(mem.queue) \cup {mem.saving} \cup ghost.lost \cup ghost.saved)
    /\ Keys(ghost.lost) \cap Keys(ghost.saved) = {}
    /\ ~mem.stopping => Cardinality(ghost.lost) <= budget.faults

RetentionKept ==
    /\ {Key(m) : m \in {x \in ghost.saved : x.at >= mem.now - setup.keep}} \subseteq Keys(db.rows)
    /\ mem.cleanup.pc = "deleted" => Keys(mem.cleanup.found) \cap Keys(db.rows) = {}

VacuumsApart == \A a, b \in ghost.vacuums : a < b => b - a >= setup.vacuumEvery

(* A measurement the queue took is stored under its agent and time, once, unless *)
(* its statement failed (one measurement per failure) or the server is stopping; *)
(* a cleanup pass leaves nothing that was too old when it began, in however many *)
(* chunks, and none takes anything younger than the retention; a read returns    *)
(* the rows from the first second asked for to before the last, in whatever zone *)
(* these were written (gt and since, lt and until do not differ: the texts are   *)
(* of unequal length) and whether or not a row was encrypted later; the file is  *)
(* not rewritten more often than the interval allows. (measurement_queuing.go,       *)
(* service.go, sqlite.go and cleanup.go of server/monitoring)                    *)
MeasurementsKept ==
    Serves("measurements") => /\ LossesCounted /\ RetentionKept /\ VacuumsApart
                              /\ ~ghost.misread
=============================================================================
