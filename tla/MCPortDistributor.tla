-------------------------- MODULE MCPortDistributor --------------------------
(***************************************************************************)
(* Finite instances of PortDistributor for TLC.                            *)
(***************************************************************************)
EXTENDS PortDistributor, TLC

CONSTANTS c1, c2, c3, p1, p2

ThreeCallers == {c1, c2, c3}
TwoPorts == {p1, p2}
Symmetry == Permutations(ThreeCallers) \cup Permutations(TwoPorts)

Plain(requests) ==
    [requests |-> requests, overlapping |-> FALSE, pinning |-> FALSE, others |-> {}]

\* One protocol, both at once, and everything that can go on besides.
AllDeployments ==
    {Plain({"tcp"}), Plain({"tcp+udp"}),
     [Plain({"tcp"}) EXCEPT !.pinning = TRUE, !.overlapping = TRUE],
     [Plain({"tcp"}) EXCEPT !.others = {"tcp"}]}

Overlapping == {[Plain({"tcp"}) EXCEPT !.overlapping = TRUE]}
=============================================================================
