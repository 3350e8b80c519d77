---------------------------- MODULE MCAuthority ----------------------------
(***************************************************************************)
(* Instances of Authority for TLC.  A tick is an hour: a root delegation   *)
(* ends in the second hour after it was made, one below it in the first.   *)
(***************************************************************************)
EXTENDS Authority

MCRootToolArgs == {{}}
MCToolArgs == {{"read"}, {"write"}}
MCEditTools == {{"write"}}
MCMandates == [issuer : Actors, tools : SUBSET {"read", "write"} \ {{}}, max_calls : {1, 3}]

\* The two keys are interchangeable.
MCSymmetry == Permutations(Actors)
=============================================================================
