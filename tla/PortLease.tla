------------------------------ MODULE PortLease ------------------------------
(***************************************************************************)
(* What the port distributor promises to a deployment whose tunnels use    *)
(* one protocol: a caller is given a port nobody else has, keeps that very *)
(* port until it gives it up, and only then can somebody else be given it. *)
(***************************************************************************)
CONSTANTS Callers, AllowedPorts, NoPort

VARIABLE leased   \* the port of each caller, or NoPort

Init == leased = [c \in Callers |-> NoPort]

Acquire(c, n) ==
    /\ leased[c] = NoPort
    /\ \A d \in Callers : leased[d] # n
    /\ leased' = [leased EXCEPT ![c] = n]

Release(c) ==
    /\ leased[c] # NoPort
    /\ leased' = [leased EXCEPT ![c] = NoPort]

Next == \E c \in Callers : Release(c) \/ \E n \in AllowedPorts : Acquire(c, n)

Spec == Init /\ [][Next]_leased
=============================================================================
