-------------------------- MODULE MCClientSession --------------------------
\* Instances of ClientSession: which connections claim which client id, with
\* which credential, from which agent process, and what else happens.
EXTENDS ClientSession, TLC

CONSTANTS k1, k2, k3, a, b, w1, auth1, auth2, s1, s2, s3

OneId == [k \in Conns |-> a]
Auth == [k \in Conns |-> IF k = k3 THEN auth2 ELSE auth1]

\* Agent processes that each connect once.
OwnSession == k1 :> s1 @@ k2 :> s2 @@ k3 :> s3
\* An agent too old to send a session id, and others.
OldAgent == k1 :> None @@ k2 :> None @@ k3 :> s3
\* One agent process that reconnects.
SameSession == [k \in Conns |-> s1]

Of(conns, sessions, keep, ops) ==
    [conns |-> conns, sessionOf |-> sessions, stored |-> {a},
     keep |-> keep, multiuse |-> TRUE, ops |-> ops]

\* Two restarts of an agent, with failing saves and a crashing server; old agents
\* that send no session id; an agent
\* restarted while it reports and its access list is edited; a credential that
\* another client of the table uses already; then a reconnecting agent, each
\* time with some of the operations of the server on it; and clients that
\* expire at once.
Everything ==
    {Of(Conns, OwnSession, None, {"fail", "crash"}),
     Of(Conns, OldAgent, None, {"fail"}),
     Of({k1, k2}, OwnSession, None, {"acl", "update", "fail", "crash"}),
     [Of({k1, k3}, OwnSession, None, {"fail"}) EXCEPT !.multiuse = FALSE, !.stored = {a, b}],
     Of({k1, k2}, SameSession, None, {"again", "fail"}),
     Of({k1, k2}, SameSession, None, {"force", "offline"}),
     Of({k1, k2}, SameSession, 0, {"purge"}),
     Of({k1, k2}, OwnSession, 0, {"fail", "crash"})}

\* A reconnecting agent under the status check.
Checked == {Of({k1, k2}, SameSession, None, {"status"})}
=============================================================================
