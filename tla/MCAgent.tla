------------------------------ MODULE MCAgent ------------------------------
(* Agents for TLC.                                                             *)
EXTENDS Agent

Base == [transports |-> <<>>, proxy |-> "", servers |-> <<"main">>, maxRetry |-> -1, switchback |-> FALSE,
         keepAlive |-> TRUE, pin |-> FALSE, requirePin |-> FALSE, reports |-> {},
         late |-> FALSE, start |-> {"up", "down"}, faults |-> {}]

(* Two transports and two servers, one of them a hidden service.                *)
Chain == [Base EXCEPT !.transports = <<"socks", "direct">>, !.servers = <<"main", "onion">>,
                      !.pin = TRUE,
                      !.start = {"up", "down", "refusing", "otherkey"}, !.faults = {"reset", "up", "down"}]
(* A proxy and a fallback server, faulty answers.                               *)
Answers == [Base EXCEPT !.proxy = "connect", !.servers = <<"main", "fallback">>,
                        !.faults = {"already", "identity", "refused", "garbled", "stall", "reset", "quiet"}]
(* A limit on retries.                                                          *)
Limited == [Base EXCEPT !.maxRetry = 1, !.faults = {"stall", "reset", "up", "down"}]
(* One reporter at a time; requests that outlive their connection.              *)
Reporting == {[Base EXCEPT !.reports = r, !.start = {"up"}, !.faults = {"reset", "already"}] :
                r \in {{"updates"}, {"monitor"}, {"addresses"}}}
(* Replies that cannot be decoded.                                              *)
Garbled == {[d EXCEPT !.faults = {"garbled"}] : d \in Reporting}
ReportingLate == {[Base EXCEPT !.reports = r, !.late = TRUE, !.start = {"up"}, !.faults = {"reset", "quiet"}] :
                    r \in {{"updates"}, {"monitor"}, {"addresses"}}}
(* A fallback server and the way back.                                          *)
Fallback == [Base EXCEPT !.servers = <<"main", "fallback">>, !.switchback = TRUE, !.keepAlive = FALSE,
                         !.faults = {"up"}]
FallbackBreaks == [Fallback EXCEPT !.faults = {"reset"}]
Returning == [Fallback EXCEPT !.faults = {"up", "down", "reset"}]
(* No candidate at all, and no pin where one is required.                       *)
Unpinned == [Base EXCEPT !.requirePin = TRUE, !.maxRetry = 1]
Unusable == [Base EXCEPT !.servers = <<"onion">>, !.maxRetry = 1]

All == {Chain, Answers, Limited, Fallback, FallbackBreaks, Unusable, Unpinned} \cup Reporting \cup ReportingLate \cup Garbled
Flapping == {Returning}
=============================================================================
