----------------------------- MODULE MCGateway -----------------------------
(***************************************************************************)
(* Instances of Gateway for TLC.  One clock tick stands for the two seconds *)
(* a receipt is fresh either way; an attestation, fresh for half a second, *)
(* is good within its tick only.                                           *)
(***************************************************************************)
EXTENDS Gateway

MCNonces == {"n1", "n2", "n3", "n4", "n5"}
MCBindingIds == {"b1"}
MCBinding == [b \in MCBindingIds |-> [request_hash |-> "h1", ttl_expires_at |-> 3]]

Plain(n, t) ==
    [nonce_hex |-> n, issued_at_ms |-> t, tool |-> "other", decision |-> "ALLOW",
     binding_id |-> NoBinding, signature_ok |-> TRUE, request_hash |-> "right",
     state_trust |-> "none", attested_ok |-> FALSE, attested_at |-> 0]

Phase2(n, t, b) == [Plain(n, t) EXCEPT !.tool = "cockpit_hitl", !.binding_id = b]

SensitivePhase2(n, t, b) ==
    [Plain(n, t) EXCEPT !.tool = "sensitive", !.binding_id = b,
                        !.state_trust = "attested", !.attested_ok = TRUE, !.attested_at = t]

Granted(b, h, t) ==
    [binding_id |-> b, request_hash |-> h, expires_at |-> t,
     approver_pubkey |-> "right", signature_ok |-> TRUE]

\* Two plain receipts, and two for the same approved request.
CoreReceipts ==
    {Plain("n1", 1), Plain("n2", 2), Phase2("n3", 1, "b1"), SensitivePhase2("n4", 2, "b1")}

\* One of these is signed and carries a request_hash too short to be quoted.
PersistReceipts == CoreReceipts \cup {[Plain("n1", 2) EXCEPT !.request_hash = "short"]}

(***************************************************************************)
(* Three admissible nonces in one window, receipts that some step of the   *)
(* verification must turn away, and, once that window is over, two more    *)
(* nonces for a ring of three.                                             *)
(***************************************************************************)
EarlyReceipts ==
    {Plain("n1", 1), SensitivePhase2("n2", 1, "b1"),
     [Plain("n3", 1) EXCEPT !.request_hash = "wrong"],
     [Plain("n3", 1) EXCEPT !.request_hash = "short"],
     [Plain("n3", 1) EXCEPT !.tool = "forbidden"],
     [Plain("n3", 1) EXCEPT !.signature_ok = FALSE],
     [Plain("n3", 1) EXCEPT !.decision = "DENY"],
     [Plain("n3", 1) EXCEPT !.tool = "cockpit_hitl"]}

LateReceipts == {Plain("n4", 4), Plain("n5", 4)}

WindowedReceipts == EarlyReceipts \cup LateReceipts

OneGrant == {Granted("b1", "h1", 3)}
CoreGrants ==
    OneGrant \cup
    {Granted("b1", "h2", 3), [Granted("b1", "h1", 3) EXCEPT !.approver_pubkey = "wrong"],
     [Granted("b1", "h1", 3) EXCEPT !.approver_pubkey = "short"]}
=============================================================================
