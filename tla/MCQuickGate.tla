----------------------------- MODULE MCQuickGate -----------------------------
(* Instances of QuickGate for TLC.                                          *)
EXTENDS QuickGate

CONSTANTS g1, g2, r1, r2, p1, p2

TwoGates == {g1, g2}
TwoRoots == {r1, r2}
TwoPorts == {p1, p2}

\* Every configuration of two gates, up to the names of gates, directories and
\* ports: the first gate has r1 and p1, and is managed if either is.
TwoConfigs ==
  {c \in [TwoGates -> Setups] : /\ c[g1].root = r1 /\ c[g1].port = p1
                                /\ c[g2].managed => c[g1].managed}
=============================================================================
