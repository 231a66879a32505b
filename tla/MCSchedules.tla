---------------------------- MODULE MCSchedules ----------------------------
\* Instances of Schedules for TLC: one or two schedules, handlers and runs.
EXTENDS Schedules

CONSTANTS s1, s2, hourly, daily, h1, h2, r1, r2

Base ==
    [ids |-> {s1}, specs |-> {hourly, daily}, overlaps |-> {FALSE}, handlers |-> {h1},
     runs |-> {r1}, targets |-> 1, concurrent |-> FALSE, maxEntries |-> 3,
     storeFails |-> {}, crashes |-> FALSE]

\* Requests interleave, fail and are cut off by a restart; requests for two
\* schedules one at a time; runs that may overlap; runs over two clients whose
\* results may never come.
All ==
    {[Base EXCEPT !.specs = {hourly}, !.handlers = {h1, h2}, !.concurrent = TRUE,
                  !.storeFails = {"insert", "delete", "job"}, !.crashes = TRUE],
     [Base EXCEPT !.ids = {s1, s2}, !.maxEntries = 4, !.storeFails = {"insert"}, !.crashes = TRUE],
     [Base EXCEPT !.specs = {hourly}, !.overlaps = BOOLEAN, !.runs = {r1, r2}],
     [Base EXCEPT !.specs = {hourly}, !.runs = {r1, r2}, !.targets = 2, !.maxEntries = 2,
                  !.storeFails = {"job"}]}
=============================================================================
