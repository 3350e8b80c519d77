----------------------------- MODULE MCProposal -----------------------------
(***************************************************************************)
(* An instance of Proposal for TLC: one reviewer who runs the command      *)
(* twice and another one.  The two runs of the first differ in nothing, so *)
(* exchanging them is a symmetry; the run checks invariants only.          *)
(***************************************************************************)
EXTENDS Proposal, TLC

CONSTANTS r1, r2, r3

MCReviewerOf == [r \in Reviews |-> IF r = r3 THEN "bob" ELSE "alice"]

MCSymmetry == Permutations({r1, r2})
=============================================================================
