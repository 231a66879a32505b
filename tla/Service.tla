------------------------------ MODULE Service ------------------------------
(* What the services of the server have in common. Requests run side by side and *)
(* each takes one step per statement, file operation, lock or message. A service *)
(* is a module that extends this one: db is what it keeps in tables and files,   *)
(* mem what it holds in memory, ghost the history its properties speak of. The   *)
(* deployment, chosen at the start and never changed, names the service, the     *)
(* faults that may happen and how many requests of each kind arrive.             *)
EXTENDS Integers, FiniteSets, Sequences, Functions, TLC

CONSTANTS Reqs, Clients, MaxFaults

VARIABLES setup, db, mem, reqs, ghost, budget

serviceVars == <<setup, db, mem, reqs, ghost, budget>>

Idle == [pc |-> "idle"]
Serves(service) == setup.service = service

Started(deployments) ==
    /\ setup \in deployments
    /\ reqs = [r \in Reqs |-> Idle]
    /\ budget = [faults |-> 0, sent |-> [k \in DOMAIN setup.sends |-> 0]]

Goto(r, pc) == reqs' = [reqs EXCEPT ![r].pc = pc]
Becomes(r, request) == reqs' = [reqs EXCEPT ![r] = request]
Return(r) == Becomes(r, Idle)

(* A request of this kind arrives at an idle handler.                            *)
Arrives(service, r, kind) ==
    /\ Serves(service)
    /\ reqs[r] = Idle
    /\ kind \in DOMAIN setup.sends /\ budget.sent[kind] < setup.sends[kind]
    /\ budget' = [budget EXCEPT !.sent[kind] = @ + 1]
    /\ UNCHANGED setup

Fault(service, f) ==
    /\ Serves(service)
    /\ f \in setup.faults /\ budget.faults < MaxFaults
    /\ budget' = [budget EXCEPT !.faults = @ + 1]
    /\ UNCHANGED setup

Quiet == UNCHANGED <<setup, budget>>

Without(f, k) == Restrict(f, DOMAIN f \ {k})
=============================================================================
