------------------------------ MODULE MCLedger ------------------------------
(***************************************************************************)
(* Instances of Ledger for TLC.  One tick stands for the rate window.      *)
(***************************************************************************)
EXTENDS Ledger, TLC

\* Three enforcers of one agent, the third under a mandate of its own.
ThreeEnforcers == {"e1", "e2", "e3"}
AllMandates == {"m1", "m2"}
ThreeMandateOf == [p \in ThreeEnforcers |-> IF p = "e3" THEN "m2" ELSE "m1"]
ThreeChainOf == [p \in ThreeEnforcers |-> <<>>]
OneAgent == [m \in AllMandates |-> "a1"]
OneCall == [m \in AllMandates |-> 1]
NoTarget == [r \in {} |-> "m1"]

\* Two enforcers with and without a chain, and revocations of the mandate and,
\* twice, of the root delegation.
TwoEnforcers == {"e1", "e2"}
TwoMandateOf == [p \in TwoEnforcers |-> "m1"]
TwoChainOf == [p \in TwoEnforcers |-> IF p = "e1" THEN <<"d1", "d2">> ELSE <<>>]
ThreeRevokers == {"r1", "r2", "r3"}
ThreeTargets == [r \in ThreeRevokers |-> IF r = "r1" THEN "m1" ELSE "d1"]
=============================================================================
