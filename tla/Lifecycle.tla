----------------------------- MODULE Lifecycle -----------------------------
(* The life of the server process: check of the configuration, construction,     *)
(* start of the two HTTP listeners and of Caddy, background tasks, the wait, the *)
(* signal, and the closing of everything at once.                                *)
(*   mem.main    where runMain, Run and Start are;                               *)
(*   mem.http    an HTTPServer: its socket, its flag and its channel, and where  *)
(*               its serving goroutine, its Wait and its Close are;              *)
(*   mem.caddy   the child process and the goroutine that reaps it;              *)
(*   mem.left    what Close still waits for, db.open the files still open.       *)
EXTENDS Service, Configuration
LOCAL INSTANCE FiniteSetsExt

Listeners == {"client", "api"}
Over == {"refused", "failed", "crashed", "ended"}
Resources == {"databases", "api files", "queue"}

NotStarted == [socket |-> FALSE, isRunning |-> FALSE, running |-> 0, serve |-> "none", wait |-> "none", close |-> "none"]

LifecycleInit(deployments) ==
    /\ Started(deployments)
    /\ mem = [main |-> "check", conf |-> <<>>, cancelled |-> FALSE, err |-> "none", http |-> [l \in Listeners |-> NotStarted],
              caddy |-> "none", caddyWait |-> "none", tasks |-> {}, left |-> {}]
    /\ db = [open |-> {}]
    /\ ghost = [failedAlone |-> {}]

(* The settings of the deployment, and what the life cycle needs of them once     *)
(* they are parsed.                                                              *)
Settings == setup.config @@ Default
Used(c) == [listen |-> c.listen, api |-> c.api, caddyOn |-> c.caddyOn, purge |-> c.purge, purgeInterval |-> c.purgeInterval,
            monitoring |-> c.monitoring, handshakes |-> c.handshakes, builds |-> Construction(c)]
Conf == mem.conf
On == Serves("lifecycle") /\ mem.main \notin Over
At(pc) == On /\ mem.main = pc
Same == UNCHANGED <<reqs, ghost>>
LifecycleStep == Quiet /\ Same

(* decodeAndValidateConfig.                                                      *)
decodeAndValidateConfig ==
    /\ At("check")
    /\ mem' = IF ParseAndValidate(Settings) THEN [mem EXCEPT !.main = "new", !.conf = Used(Parsed(Settings))]
              ELSE [mem EXCEPT !.main = "refused"]
    /\ UNCHANGED db /\ LifecycleStep

(* The constructors, in their order, up to the first that fails or panics.        *)
OpenedBy(n) == [open |-> UNION {Conf.builds[i].file : i \in 1..n}]
Stoppers == {i \in DOMAIN Conf.builds : Conf.builds[i].goes # "starts"}
NewServer ==
    /\ At("new")
    /\ IF Stoppers = {}
       THEN mem' = [mem EXCEPT !.main = "start client"] /\ db' = OpenedBy(Len(Conf.builds))
       ELSE /\ mem' = [mem EXCEPT !.main = IF Conf.builds[Min(Stoppers)].goes = "panics" THEN "crashed" ELSE "failed"]
            /\ db' = OpenedBy(Min(Stoppers))
    /\ LifecycleStep

(* A database that cannot be opened, or a context cancelled while the clients    *)
(* and schedules are read, ends the process like a setting it cannot work with:  *)
(* with what was opened before still open.                                       *)
NewServerFails ==
    /\ At("new") /\ \E n \in 0..Len(Conf.builds) - 1 : Stoppers \cap 1..n = {} /\ db' = OpenedBy(n)
    /\ mem' = [mem EXCEPT !.main = "failed"]
    /\ Same
    /\ \/ Fault("lifecycle", "open")
       \/ mem.cancelled /\ Quiet

Listening(l) == [mem.http EXCEPT ![l] = [NotStarted EXCEPT !.socket = TRUE, !.isRunning = TRUE, !.serve = "serving"]]
AddressOf(l) == IF l = "client" THEN Conf.listen ELSE Conf.api
Taken(l) == \E o \in Listeners \ {l} : mem.http[o].socket /\ AddressOf(o) = AddressOf(l)

(* GoListenAndServe, up to the goroutine it starts.                              *)
GoListenAndServe(l, next) ==
    /\ SplitHostPort(AddressOf(l)) /\ ~Taken(l)
    /\ mem' = [mem EXCEPT !.http = Listening(l), !.main = next]
    /\ LifecycleStep
CannotListen(l, next) ==
    /\ mem' = [mem EXCEPT !.err = "listen", !.main = next]
    /\ Same
    /\ \/ (~SplitHostPort(AddressOf(l)) \/ Taken(l)) /\ Quiet
       \/ Fault("lifecycle", "port")

StartClientListener ==
    At("start client") /\ UNCHANGED db /\ (GoListenAndServe("client", "start api") \/ CannotListen("client", "failed"))

StartAPIListener ==
    /\ At("start api") /\ UNCHANGED db
    /\ IF Conf.api = "" THEN mem' = [mem EXCEPT !.main = "start caddy"] /\ LifecycleStep
       ELSE GoListenAndServe("api", "start caddy") \/ CannotListen("api", "start caddy")

(* What Caddy's start returns takes the place of what the API's returned.        *)
StartCaddy ==
    /\ At("start caddy") /\ UNCHANGED db /\ Same
    /\ \/ ~Conf.caddyOn /\ mem' = [mem EXCEPT !.main = IF mem.err = "none" THEN "run" ELSE "failed"] /\ Quiet
       \/ Conf.caddyOn /\ mem' = [mem EXCEPT !.main = "run", !.err = "none", !.caddy = "up"] /\ Quiet
       \/ Conf.caddyOn /\ mem' = [mem EXCEPT !.main = "failed"] /\ Fault("lifecycle", "caddy")

AllTasks == {"status", "sessions", "jobs", "purge", "monitoring"}
Tasks == {"status", "sessions", "jobs"} \cup (IF Conf.purge THEN {"purge"} ELSE {}) \cup (IF Conf.monitoring THEN {"monitoring"} ELSE {})
Waiters == Listeners \cup (IF Conf.caddyOn THEN {"caddy"} ELSE {})

(* The tasks get a ticker each, which needs a positive interval.                 *)
RunTasks ==
    /\ At("run")
    /\ mem' = IF Conf.purge /\ Conf.purgeInterval <= 0 THEN [mem EXCEPT !.main = "crashed"]
              ELSE [mem EXCEPT !.main = "wait", !.tasks = setup.watched \cap Tasks,
                               !.http = [l \in Listeners |-> [@[l] EXCEPT !.wait = "begin"]],
                               !.caddyWait = IF Conf.caddyOn THEN "select" ELSE "returned"]
    /\ UNCHANGED db /\ LifecycleStep

(* A task leaves its loop once the context is cancelled; nobody waits for it.    *)
TaskStops(t) ==
    /\ On /\ mem.cancelled /\ t \in mem.tasks
    /\ mem' = [mem EXCEPT !.tasks = @ \ {t}]
    /\ UNCHANGED db /\ LifecycleStep

FirstError(e) == IF mem.err = "none" THEN e ELSE mem.err

(* HTTPServer.Wait: a server that is not running at first is an error.           *)
WaitBegins(l) ==
    /\ At("wait") /\ mem.http[l].wait = "begin"
    /\ mem' = IF mem.http[l].isRunning THEN [mem EXCEPT !.http[l].wait = "select"]
              ELSE [mem EXCEPT !.http[l].wait = "returned", !.err = FirstError("closed")]
    /\ UNCHANGED db /\ LifecycleStep
WaitReturnsOnError(l) ==
    /\ At("wait") /\ mem.http[l].wait = "select" /\ UNCHANGED db /\ LifecycleStep
    /\ mem.http[l].running > 0 /\ mem' = [mem EXCEPT !.http[l].running = @ - 1, !.http[l].wait = "returned"]
WaitReturns(l) ==
    /\ At("wait") /\ mem.http[l].wait = "select" /\ UNCHANGED db /\ LifecycleStep
    /\ \/ mem.http[l].running > 0 /\ mem' = [mem EXCEPT !.http[l].running = @ - 1, !.http[l].wait = "returned"]
       \/ mem.cancelled /\ mem' = [mem EXCEPT !.http[l].wait = "returned", !.err = FirstError("cancelled")]

(* Caddy ends by itself or is killed with the context; the goroutine that reaps  *)
(* it hands its error to Wait, or closes the channel.                            *)
CaddyExits ==
    /\ On /\ mem.caddy = "up" /\ UNCHANGED db /\ Same
    /\ \/ mem' = [mem EXCEPT !.caddy = "sends"] /\ (Fault("lifecycle", "caddy") \/ (mem.cancelled /\ Quiet))
       \/ mem' = [mem EXCEPT !.caddy = "gone"] /\ Fault("lifecycle", "caddy")
CaddyWait ==
    /\ At("wait") /\ mem.caddyWait = "select" /\ UNCHANGED db /\ LifecycleStep
    /\ \/ mem.caddy = "sends" /\ mem' = [mem EXCEPT !.caddy = "gone", !.caddyWait = "returned", !.err = FirstError("caddy")]
       \/ mem.caddy = "gone" /\ mem' = [mem EXCEPT !.caddyWait = "returned"]
       \/ mem.cancelled /\ mem' = [mem EXCEPT !.caddyWait = "returned", !.err = FirstError("cancelled")]

Returned == mem.caddyWait = "returned" /\ \A l \in Listeners : mem.http[l].wait = "returned"

(* The group of waits returns when all have: then everything is closed at once.  *)
Wait ==
    /\ At("wait") /\ Returned
    /\ mem' = [mem EXCEPT !.main = "close", !.left = Resources \cup Waiters, !.http = [l \in Listeners |-> [@[l] EXCEPT !.close = "closeWith"]]]
    /\ UNCHANGED db /\ LifecycleStep

Closed(x) == [mem EXCEPT !.left = @ \ {x}]

(* The files that the server's Close and the API listener's Close shut; nobody    *)
(* shuts those of the measurements and of the API tokens.                         *)
ServerCloses == {"auth", "clients", "jobs", "groups", "audit"}
APICloses == {"vault", "library", "sessions", "notifications"}
Shuts(x) == CASE x = "databases" -> ServerCloses [] x = "api files" -> APICloses [] OTHER -> {}

CloseFile(f) ==
    /\ At("close") /\ f \in mem.left \cap Resources
    /\ mem' = Closed(f) /\ db' = [open |-> db.open \ Shuts(f)]
    /\ LifecycleStep
CloseCaddy ==
    /\ At("close") /\ "caddy" \in mem.left
    /\ mem' = Closed("caddy")
    /\ UNCHANGED db /\ LifecycleStep

(* The capacity of the channel a closing server leaves its error in.             *)
NewHTTPServer == 1

(* closeWith, called by the serving goroutine and by Close: the flag is read,    *)
(* then cleared, and the channel may be full.                                    *)
CloseWithReads(l, who) ==
    /\ On /\ mem.http[l][who] = "closeWith"
    /\ mem' = [mem EXCEPT !.http[l][who] = IF mem.http[l].isRunning THEN "clears" ELSE "socket"]
    /\ UNCHANGED db /\ LifecycleStep
CloseWithClears(l, who) ==
    /\ On /\ mem.http[l][who] = "clears"
    /\ mem' = [mem EXCEPT !.http[l][who] = "sends", !.http[l].isRunning = FALSE]
    /\ UNCHANGED db /\ LifecycleStep
CloseWithSends(l, who) ==
    /\ On /\ mem.http[l][who] = "sends" /\ mem.http[l].running < NewHTTPServer
    /\ mem' = [mem EXCEPT !.http[l][who] = "socket", !.http[l].running = @ + 1]
    /\ UNCHANGED db /\ LifecycleStep

(* Close ends with the socket, and Serve returns when its socket is closed.      *)
CloseSocket(l) ==
    /\ At("close") /\ mem.http[l].close = "socket"
    /\ mem' = [Closed(l) EXCEPT !.http[l].close = "closed", !.http[l].socket = FALSE]
    /\ UNCHANGED db /\ LifecycleStep
ServeReturns(l) ==
    /\ On /\ mem.http[l].serve = "serving" /\ UNCHANGED <<db, reqs>>
    /\ mem' = [mem EXCEPT !.http[l].serve = "closeWith"]
    /\ \/ ~mem.http[l].socket /\ Quiet /\ UNCHANGED ghost
       \/ mem.http[l].socket /\ Fault("lifecycle", "serve") /\ ghost' = [failedAlone |-> ghost.failedAlone \cup {l}]

(* Run returns the first error of the wait; a cancelled context is no failure.   *)
RunReturns ==
    /\ At("close") /\ mem.left = {}
    /\ mem' = [mem EXCEPT !.main = IF mem.err \in {"none", "cancelled"} THEN "ended" ELSE "failed"]
    /\ UNCHANGED db /\ LifecycleStep

Signal ==
    /\ On /\ "signal" \in DOMAIN setup.sends /\ budget.sent["signal"] < setup.sends["signal"]
    /\ budget' = [budget EXCEPT !.sent["signal"] = @ + 1]
    /\ mem' = [mem EXCEPT !.cancelled = TRUE]
    /\ UNCHANGED <<setup, db>> /\ Same

LifecycleNext ==
    \/ decodeAndValidateConfig \/ NewServer \/ NewServerFails \/ StartClientListener \/ StartAPIListener \/ StartCaddy \/ RunTasks
    \/ \E t \in AllTasks : TaskStops(t)
    \/ \E l \in Listeners : WaitBegins(l) \/ WaitReturns(l) \/ CloseSocket(l) \/ ServeReturns(l)
    \/ \E l \in Listeners, who \in {"serve", "close"} : CloseWithReads(l, who) \/ CloseWithClears(l, who) \/ CloseWithSends(l, who)
    \/ CaddyExits \/ CaddyWait \/ Wait \/ CloseCaddy \/ \E f \in Resources : CloseFile(f)
    \/ RunReturns \/ Signal

(* A configuration that check-config accepts is one the server starts with: when *)
(* nothing outside fails and nobody stops it, it comes to its wait with every     *)
(* configured listener serving and room for an agent's handshake. Unchecked names  *)
(* every exception, settings that only the constructors look at: an API auth_file  *)
(* or user table that cannot be read (users/service.go:59, 83), a malformed pair,  *)
(* no handshake or a negative number of them, a proxy without a host, a port check *)
(* of more than a minute, an interval of the purge or of the notification log that *)
(* is zero or negative and panics the ticker, listen addresses that are no address *)
(* or the same, and the settings of the API and of Caddy when there is no API.     *)
ServerStarts ==
    (Serves("lifecycle") /\ budget.faults = 0 /\ ~mem.cancelled /\ ~Unchecked(Settings)) =>
        /\ mem.main \notin {"failed", "crashed"}
        /\ mem.main = "wait" => (/\ Conf.handshakes > 0
                                 /\ \A l \in Listeners : AddressOf(l) # "" => mem.http[l].serve = "serving")

(* A server told to stop comes to its end: none of the goroutines that Wait and   *)
(* Close start stays blocked, whatever failed before, except when a listener      *)
(* failed on its own while it was being closed and both filled its channel. And   *)
(* it ends without an error when nothing failed, the API is configured (its Wait  *)
(* is an error otherwise) and no Caddy is killed with the context (whose error    *)
(* may come first). A server that was closed leaves no table open except the two *)
(* that nobody closes.                                                            *)
ShutdownCompletes ==
    (Serves("lifecycle") /\ mem.cancelled) =>
        /\ \/ mem.main \in Over
           \/ ENABLED LifecycleNext
           \/ \E l \in ghost.failedAlone : mem.http[l].close = "sends"
        /\ (mem.main = "failed" /\ budget.faults = 0 /\ mem.http["client"].close = "closed") => (Conf.api = "" \/ Conf.caddyOn)
        /\ (mem.main = "ended" \/ (mem.main = "failed" /\ mem.http["client"].close = "closed")) => db.open \subseteq {"measurements", "tokens"}
=============================================================================
