----------------------------- MODULE Execution -----------------------------
(* The agent runs a command. Its loop of requests takes one at a time: it checks *)
(* a command, writes the script, opens the channels that stream the output and   *)
(* starts the process. What the process writes is copied, chunk by chunk, to the *)
(* buffer of the summary, to the buffer of the result and to the channel, while  *)
(* an observer waits for the end or the timeout and sends the result. The server *)
(* accepts the channels of a connection one after the other, an upload's session *)
(* up to its end. Standard error takes the same way but for the summary, and is  *)
(* left out. A chunk is a sequence of tokens, counted against the limit.         *)
(* db.scripts: the script files. mem.epoch: the connection, 0 when there is none;*)
(* mem.loop: the request the loop is at; mem.opens: channels not yet accepted;   *)
(* mem.session: the upload being served. ghost: what runs wrote and reported.    *)
EXTENDS Service
LOCAL INSTANCE SequencesExt

NewStream == [inside |-> FALSE, out |-> <<>>, line |-> FALSE, reads |-> TRUE, closed |-> FALSE]
Written(r) == FlattenSeq(ghost.wrote[r])

ExecutionInit(deployments) ==
    /\ Started(deployments)
    /\ db = [scripts |-> {}]
    /\ mem = [epoch |-> 1, loop |-> "free", opens |-> <<>>, session |-> "none"]
    /\ ghost = [wrote |-> [r \in Reqs |-> <<>>], screen |-> [r \in Reqs |-> <<>>], results |-> {}, epochs |-> 1, left |-> {}]

ExecAt(r, pc) == Serves("execution") /\ reqs[r].pc = pc
Updates(r, changes) == Becomes(r, changes @@ reqs[r])

-----------------------------------------------------------------------------
(* The loop of the agent and the checks of a command                            *)

isAllowed(command) ==
    CASE setup.order = "allow,deny" -> command.allow /\ ~command.deny
      [] setup.order = "deny,allow" -> command.allow \/ ~command.deny

Refuses(command) ==
    \/ ~setup.commands
    \/ command.script /\ ~setup.scripts
    \/ ~command.script /\ ~isAllowed(command)
ValidateScriptDir == setup.dir = "good"

(* A ping, a port to check, an unknown request: answered at once.                *)
handleSSHRequests(r) ==
    /\ Serves("execution") /\ mem.epoch # 0 /\ mem.loop = "free"
    /\ \/ /\ Arrives("execution", r, "run")
          /\ \E command \in setup.orders : Becomes(r, [pc |-> "check", command |-> command, epoch |-> mem.epoch])
          /\ mem' = [mem EXCEPT !.loop = r]
       \/ /\ Arrives("execution", r, "upload")
          /\ Becomes(r, [pc |-> "session", epoch |-> mem.epoch])
          /\ mem' = [mem EXCEPT !.loop = r, !.opens = Append(@, [kind |-> "session", req |-> r])]
       \/ Arrives("execution", r, "other") /\ UNCHANGED <<mem, reqs>>
    /\ UNCHANGED <<db, ghost>>

Frees(r) == [mem EXCEPT !.loop = IF @ = r THEN "free" ELSE @]
GivesUp(r) == mem' = Frees(r) /\ Return(r) /\ Quiet

HandleRunCmdRequest(r) ==
    /\ ExecAt(r, "check")
    /\ IF Refuses(reqs[r].command) THEN GivesUp(r) ELSE Goto(r, "script") /\ Quiet /\ UNCHANGED mem
    /\ UNCHANGED <<db, ghost>>

OpensChannel(r, kind) == mem' = [mem EXCEPT !.opens = Append(@, [kind |-> kind, req |-> r])]

CreateScriptFile(r) ==
    /\ ExecAt(r, "script")
    /\ IF ValidateScriptDir
       THEN /\ db' = [db EXCEPT !.scripts = @ \cup {r}]
            /\ Goto(r, IF setup.stream THEN "open" ELSE "start")
            /\ Quiet /\ UNCHANGED mem
       ELSE GivesUp(r) /\ UNCHANGED db
    /\ UNCHANGED ghost

OpenChannel(r) ==
    /\ ExecAt(r, "open") /\ mem.epoch # 0
    /\ Updates(r, [pc |-> "opening", epoch |-> mem.epoch])
    /\ OpensChannel(r, "stdout")
    /\ Quiet /\ UNCHANGED <<db, ghost>>

(* Without a connection, or when it breaks, the request ends and the script stays.*)
ChannelFails(r) ==
    /\ Serves("execution") /\ reqs[r].pc \in {"open", "opening"}
    /\ IF reqs[r].pc = "open" THEN mem.epoch = 0 ELSE mem.epoch # reqs[r].epoch
    /\ GivesUp(r)
    /\ ghost' = [ghost EXCEPT !.left = @ \cup {r}]
    /\ UNCHANGED db

StartCommand(r, works) ==
    /\ ExecAt(r, "start")
    /\ mem' = Frees(r)
    /\ IF works
       THEN /\ Becomes(r, [pc |-> "watch", epoch |-> reqs[r].epoch, chunks |-> setup.output, copy |-> "idle", sum |-> NewStream,
                           buf |-> <<>>, over |-> FALSE, limit |-> setup.limit, pipe |-> <<>>, ended |-> "no", status |-> "", noted |-> FALSE])
            /\ UNCHANGED db
       ELSE Return(r) /\ db' = [db EXCEPT !.scripts = @ \ {r}]
    /\ Quiet /\ UNCHANGED ghost

-----------------------------------------------------------------------------
(* The output                                                                  *)

(* The summary is what stands between the marks "<" and ">"; a newline inside is *)
(* kept, and the end of the output ends a line. A line that is too long, "L",    *)
(* ends the reader.                                                              *)
SummaryToken(s, t) ==
    IF ~s.reads THEN s
    ELSE CASE t = "L" -> [s EXCEPT !.reads = FALSE]
           [] t = "n" -> [s EXCEPT !.out = IF s.inside THEN Append(@, "n") ELSE @, !.line = FALSE]
           [] t = "<" /\ ~s.inside -> [s EXCEPT !.inside = TRUE, !.line = TRUE]
           [] t = ">" /\ s.inside -> [s EXCEPT !.inside = FALSE, !.line = TRUE]
           [] OTHER -> [s EXCEPT !.out = IF s.inside THEN Append(@, t) ELSE @, !.line = TRUE]
processSummary(s, chunk) == FoldLeft(SummaryToken, s, chunk)
StopSummary(s) == [s EXCEPT !.closed = TRUE, !.out = IF s.reads /\ s.inside /\ s.line THEN Append(@, "n") ELSE @]

UpTo(chunk, free) == SubSeq(chunk, 1, IF Len(chunk) <= free THEN Len(chunk) ELSE free)
CapacityWrite(buf, chunk) == [data |-> buf \o UpTo(chunk, setup.limit - Len(buf)), over |-> Len(buf) + Len(chunk) > setup.limit]

Running(r) == Serves("execution") /\ reqs[r].pc \in {"watch", "error", "summary", "send", "done"} /\ reqs[r].ended = "no"

ProcessWrites(r) ==
    /\ Running(r) /\ reqs[r].copy = "idle" /\ reqs[r].chunks # <<>>
    /\ Updates(r, [copy |-> "summary", chunks |-> Tail(reqs[r].chunks)])
    /\ ghost' = [ghost EXCEPT !.wrote[r] = Append(@, Head(reqs[r].chunks))]
    /\ Quiet /\ UNCHANGED <<db, mem>>

(* io.MultiWriter: the summary, the buffer, the channel; an error ends the copy, *)
(* and nothing reads what the process writes then. A write to a reader that has  *)
(* given up waits for the buffer to be closed.                                   *)
WriteSummary(r) ==
    LET q == reqs[r]
        sum == processSummary(q.sum, Last(ghost.wrote[r]))
    IN /\ Running(r) /\ q.copy = "summary"
       /\ \/ q.sum.closed /\ Updates(r, [copy |-> "broken"])
          \/ ~q.sum.closed /\ q.sum.reads /\ Updates(r, [copy |-> "buffer", sum |-> sum])
          \/ ~q.sum.closed /\ q.sum.reads /\ ~sum.reads /\ Updates(r, [sum |-> sum])
       /\ Quiet /\ UNCHANGED <<db, mem, ghost>>

WriteBuffer(r) ==
    LET w == CapacityWrite(reqs[r].buf, Last(ghost.wrote[r]))
    IN /\ Running(r) /\ reqs[r].copy = "buffer"
       /\ Updates(r, [copy |-> IF setup.stream THEN "channel" ELSE "idle", buf |-> w.data, over |-> reqs[r].over \/ w.over])
       /\ Quiet /\ UNCHANGED <<db, mem, ghost>>

LimitedWrite(r) ==
    LET q == reqs[r]
        data == UpTo(Last(ghost.wrote[r]), q.limit)
    IN /\ Running(r) /\ q.copy = "channel"
       /\ Updates(r, IF data = <<>> THEN [copy |-> "idle"]
                     ELSE IF q.epoch = mem.epoch /\ q.pc # "done"
                     THEN [copy |-> "idle", limit |-> q.limit - Len(data), pipe |-> q.pipe \o data]
                     ELSE [copy |-> "broken"])
       /\ Quiet /\ UNCHANGED <<db, mem, ghost>>

(* Wait answers when the process is over and all is copied, and with an error    *)
(* when the copy broke or the process failed.                                    *)
ProcessEnds(r, ok) ==
    /\ Running(r)
    /\ \/ reqs[r].copy = "idle" /\ (ok => reqs[r].chunks = <<>>)
       \/ reqs[r].copy = "broken" /\ ~ok
    /\ Updates(r, [ended |-> IF ok THEN "well" ELSE "badly"])
    /\ Quiet /\ UNCHANGED <<db, mem, ghost>>

-----------------------------------------------------------------------------
(* The observer                                                                *)

CommandDone(r) ==
    /\ ExecAt(r, "watch") /\ reqs[r].ended # "no"
    /\ Updates(r, [pc |-> "error", status |-> IF reqs[r].ended = "well" THEN "successful" ELSE "failed"])
    /\ Quiet /\ UNCHANGED <<db, mem, ghost>>

CommandTimesOut(r) ==
    /\ ExecAt(r, "watch") /\ Fault("execution", "timeout")
    /\ Updates(r, [pc |-> "error", status |-> "unknown"])
    /\ UNCHANGED <<db, mem, ghost>>

buildErrText(r) ==
    /\ ExecAt(r, "error")
    /\ Updates(r, [pc |-> "summary", noted |-> reqs[r].over])
    /\ Quiet /\ UNCHANGED <<db, mem, ghost>>

SummaryStops(r) ==
    /\ ExecAt(r, "summary")
    /\ Updates(r, [pc |-> "send", sum |-> StopSummary(reqs[r].sum)])
    /\ Quiet /\ UNCHANGED <<db, mem, ghost>>

(* The result, or nothing when there is no connection; then the channels are     *)
(* closed and the script is removed. After a timeout the buffer is read while a  *)
(* chunk may be on its way into it, without a lock.                              *)
SendResult(r) ==
    LET q == reqs[r]
    IN /\ ExecAt(r, "send")
       /\ \E out \in {q.buf} \cup (IF q.copy = "buffer" THEN {<<"torn">>} ELSE {}) :
            ghost' = IF mem.epoch = 0 THEN ghost
                     ELSE [ghost EXCEPT !.results = @ \cup {[req |-> r, status |-> q.status, out |-> out, noted |-> q.noted, cut |-> q.copy = "broken",
                                                             summary |-> q.sum.out, whole |-> q.sum.reads, wrote |-> Written(r)]}]
       /\ Goto(r, "done")
       /\ db' = [db EXCEPT !.scripts = @ \ {r}]
       /\ Quiet /\ UNCHANGED mem

-----------------------------------------------------------------------------
(* The server                                                                  *)

(* handleSSHChannels: nothing else is accepted while a session is served.        *)
handleSSHChannels ==
    LET o == Head(mem.opens)
    IN /\ Serves("execution") /\ mem.session = "none" /\ mem.opens # <<>>
       /\ IF o.kind = "session"
          THEN mem' = [mem EXCEPT !.opens = Tail(@), !.session = o.req] /\ Goto(o.req, "serving")
          ELSE IF o.kind = "stdout"
          THEN mem' = [mem EXCEPT !.opens = Append(Tail(@), [o EXCEPT !.kind = "stderr"])] /\ UNCHANGED reqs
          ELSE mem' = [mem EXCEPT !.opens = Tail(@)] /\ Goto(o.req, "start")
       /\ Quiet /\ UNCHANGED <<db, ghost>>

(* The file is read and the agent closes the session.                            *)
handleSessionChannel(r) ==
    /\ ExecAt(r, "serving")
    /\ mem' = [Frees(r) EXCEPT !.session = IF @ = r THEN "none" ELSE @]
    /\ Return(r)
    /\ Quiet /\ UNCHANGED <<db, ghost>>

(* The socket of the user is looked up when the channel is accepted.             *)
handleOutputChannel(r) ==
    /\ Serves("execution") /\ reqs[r].pc \in {"watch", "error", "summary", "send", "done"} /\ reqs[r].pipe # <<>>
    /\ reqs[r].epoch = mem.epoch
    /\ Updates(r, [pipe |-> Tail(reqs[r].pipe)])
    /\ ghost' = IF setup.socket THEN [ghost EXCEPT !.screen[r] = Append(@, Head(reqs[r].pipe))] ELSE ghost
    /\ Quiet /\ UNCHANGED <<db, mem>>

-----------------------------------------------------------------------------
(* The connection breaks, with what it was carrying; the agent connects again,   *)
(* with a loop of its own.                                                       *)
AgentDrops ==
    /\ Fault("execution", "connection")
    /\ mem.epoch # 0
    /\ mem' = [epoch |-> 0, loop |-> "free", opens |-> <<>>, session |-> "none"]
    /\ reqs' = [r \in Reqs |-> IF reqs[r].pc \in {"session", "serving"} THEN Idle ELSE reqs[r]]
    /\ UNCHANGED <<db, ghost>>

AgentReturns ==
    /\ Serves("execution") /\ mem.epoch = 0
    /\ mem' = [mem EXCEPT !.epoch = ghost.epochs + 1]
    /\ ghost' = [ghost EXCEPT !.epochs = @ + 1]
    /\ Quiet /\ UNCHANGED <<db, reqs>>

ExecutionNext ==
    \/ \E r \in Reqs :
        \/ handleSSHRequests(r) \/ HandleRunCmdRequest(r) \/ CreateScriptFile(r) \/ OpenChannel(r) \/ ChannelFails(r)
        \/ ProcessWrites(r) \/ WriteSummary(r) \/ WriteBuffer(r) \/ LimitedWrite(r)
        \/ CommandDone(r) \/ CommandTimesOut(r) \/ buildErrText(r) \/ SummaryStops(r) \/ SendResult(r)
        \/ handleSessionChannel(r) \/ handleOutputChannel(r)
        \/ \E ok \in BOOLEAN : StartCommand(r, ok) \/ ProcessEnds(r, ok)
    \/ handleSSHChannels \/ AgentDrops \/ AgentReturns

-----------------------------------------------------------------------------
(* What stands between marks, by position: a token is inside when the last mark  *)
(* before it that counts has opened.                                             *)
Between(s) ==
    LET opens(i) == s[i] = "<"
        inside(i) == \E j \in 1..i-1 : opens(j) /\ \A k \in j+1..i-1 : s[k] # ">"
        kept == {i \in 1..Len(s) : inside(i) /\ s[i] # ">"}
        text == [n \in 1..Cardinality(kept) |-> s[CHOOSE i \in kept : Cardinality({k \in kept : k < i}) = n - 1]]
        last == Len(s)
        open == last > 0 /\ s[last] # "n" /\ s[last] # ">" /\ (inside(last) \/ opens(last))
    IN IF open THEN Append(text, "n") ELSE text

(* A result says what happened: what it holds of the output is what the process  *)
(* wrote first, up to the limit, and so is what the user saw of it, unless the   *)
(* command timed out just as more came. Of a process that has ended it holds     *)
(* that whole, the error tells of an overflow exactly when there was one, and    *)
(* the summary is what stood between the marks, unless a line was too long. A    *)
(* script file belongs to a command on its way, or to one whose channels could   *)
(* not be opened (HandleRunCmdRequest, handleOutputChannel).                     *)
ExecutionReported ==
    Serves("execution") =>
    /\ \A x \in ghost.results :
         /\ \/ IsPrefix(x.out, UpTo(x.wrote, setup.limit))
            \/ x.out = <<"torn">> /\ x.status = "unknown"
         /\ x.status = "successful" => ~x.cut /\ x.wrote = FlattenSeq(setup.output)
         /\ x.status # "unknown" /\ ~x.cut =>
              /\ x.out = UpTo(x.wrote, setup.limit) /\ (x.noted <=> Len(x.wrote) > setup.limit)
              /\ x.whole => x.summary = Between(x.wrote)
         /\ \A y \in ghost.results : y.req = x.req => y = x
    /\ \A r \in Reqs : IsPrefix(ghost.screen[r], UpTo(Written(r), setup.limit))
    /\ \A r \in db.scripts : r \in ghost.left \/ reqs[r].pc \in {"open", "opening", "start", "watch", "error", "summary", "send"}
=============================================================================
