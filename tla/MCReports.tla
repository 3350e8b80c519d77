------------------------------ MODULE MCReports -----------------------------
(***************************************************************************)
(* An instance of Reports for TLC.                                         *)
(***************************************************************************)
EXTENDS Reports, TLC

TwoAgents == {"a1", "a2"}
\* One agent acts under a delegation, the other on a mandate alone.
MCCaptured == [a \in TwoAgents |-> IF a = "a1" THEN Fields ELSE {"mandate_hash", "issuer_did"}]
MCWindows == {<<0, 1>>, <<1, 1>>}
MCMaxDepth == [c \in {"verify-lineage", "visual-receipt"} |->
                 IF c = "verify-lineage" THEN 2 ELSE 1]
=============================================================================
