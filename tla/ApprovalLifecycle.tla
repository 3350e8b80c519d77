------------------------- MODULE ApprovalLifecycle -------------------------
(***************************************************************************)
(* What the pending-approval queue promises (SPEC 9.7), whatever crashes,  *)
(* expires or is presented again: a binding is queued, an operator approves*)
(* it, a Phase 2 receipt reserves the approval, and one frame spends it.   *)
(* A reservation is never given back: it ends in a frame or in nothing.    *)
(***************************************************************************)
CONSTANTS
    BindingIds,
    Receipts,    \* records with a binding_id
    NoBinding

VARIABLES
    status,      \* of each binding
    frames       \* the receipts written to the bus

Status == {"none", "pending", "approved", "reserved"}

TypeOK ==
    /\ status \in [BindingIds -> Status]
    /\ frames \subseteq Receipts

Init ==
    /\ status = [b \in BindingIds |-> "none"]
    /\ frames = {}

\* Any bindings of the set S may be forgotten along with the step.
Forgetting(S, st) == [b \in BindingIds |-> IF b \in S THEN "none" ELSE st[b]]

Forget(S) ==
    /\ status' = Forgetting(S, status)
    /\ UNCHANGED frames

\* Registering a binding again forgets an approval it had.
Register(b, S) ==
    /\ status[b] # "reserved"
    /\ status' = [Forgetting(S, status) EXCEPT ![b] = "pending"]
    /\ UNCHANGED frames

Approve(b, S) ==
    /\ status[b] \in {"pending", "approved"}
    /\ status' = [Forgetting(S, status) EXCEPT ![b] = "approved"]
    /\ UNCHANGED frames

Reserve(b) ==
    /\ status[b] = "approved"
    /\ status' = [status EXCEPT ![b] = "reserved"]
    /\ UNCHANGED frames

Spend(r) ==
    /\ status[r.binding_id] = "reserved"
    /\ status' = [status EXCEPT ![r.binding_id] = "none"]
    /\ frames' = frames \cup {r}

\* A receipt without a binding needs no approval.
Perform(r) ==
    /\ frames' = frames \cup {r}
    /\ UNCHANGED status

Next ==
    \/ \E S \in SUBSET BindingIds :
          \/ Forget(S)
          \/ \E b \in BindingIds : Register(b, S) \/ Approve(b, S)
    \/ \E b \in BindingIds : Reserve(b)
    \/ \E r \in Receipts : IF r.binding_id = NoBinding THEN Perform(r) ELSE Spend(r)

Spec == Init /\ [][Next]_<<status, frames>>
=============================================================================
