---------------------------- MODULE DecisionLog ----------------------------
(***************************************************************************)
(* What the ledger promises of the `enforce` command, whatever runs beside *)
(* it and wherever it dies: a command opens the ledger, may count the      *)
(* calls of its agent, records one decision at the end of the chain, and   *)
(* answers what it has recorded.  One whose chain of delegations is revoked*)
(* is answered without a record.  Each of these is one step.               *)
(***************************************************************************)
EXTENDS Integers, Sequences, FiniteSets

CONSTANTS
    Enforcers, Mandates, Delegations, MandateOf, ChainOf, AgentOf, MaxCalls,
    RateWindow,
    Times,       \* the times a row may carry
    Genesis,
    NoAnswer

VARIABLES
    rows,        \* the recorded decisions, oldest first
    revoked,     \* mandates and delegations revoked so far
    life,        \* of each command: "new", "open", "counted", "ended"
    known,       \* what was revoked when a command opened the ledger
    seen,        \* how many rows there were when it counted
    answer       \* what it has printed

Counted == {"ALLOW", "DENY_RATE"}
Uncounted == {"DENY_POLICY", "DENY_REVOKED", "EXPIRED", "PENDING_APPROVAL"}

Recorded(p) == \E i \in DOMAIN rows : rows[i].by = p
ChainMeets(p, S) == \E k \in DOMAIN ChainOf[p] : ChainOf[p][k] \in S

\* The calls of its agent that p has counted, as far as they lie in the window at t.
Calls(p, t) ==
    {i \in 1..seen[p] :
        rows[i].agent = AgentOf[MandateOf[p]] /\ rows[i].timestamp > t - RateWindow}

Init ==
    /\ rows = <<>> /\ revoked = {}
    /\ life = [p \in Enforcers |-> "new"]
    /\ known = [p \in Enforcers |-> {}]
    /\ seen = [p \in Enforcers |-> 0]
    /\ answer = [p \in Enforcers |-> NoAnswer]

Open(p) ==
    /\ life[p] = "new"
    /\ life' = [life EXCEPT ![p] = "open"]
    /\ known' = [known EXCEPT ![p] = revoked]
    /\ UNCHANGED <<rows, revoked, seen, answer>>

Count(p) ==
    /\ life[p] = "open"
    /\ life' = [life EXCEPT ![p] = "counted"]
    /\ seen' = [seen EXCEPT ![p] = Len(rows)]
    /\ UNCHANGED <<rows, revoked, known, answer>>

\* The decisions open to p at time t.
MayDecide(p, v, t) ==
    /\ v \in IF life[p] = "counted" THEN Counted ELSE Uncounted
    /\ v = "ALLOW" => Cardinality(Calls(p, t)) < MaxCalls[MandateOf[p]]
    /\ v = "DENY_REVOKED" => MandateOf[p] \in revoked
    /\ MandateOf[p] \in known[p] => v \in {"DENY_POLICY", "DENY_REVOKED"}
    /\ ~ChainMeets(p, known[p])

\* One row, linked to the last one and, as long as the clock is not set back, no older
\* than any.
Record(p, v, t) ==
    /\ life[p] \in {"open", "counted"} /\ ~Recorded(p)
    /\ MayDecide(p, v, t)
    /\ \A i \in DOMAIN rows : rows[i].timestamp <= t
    /\ rows' = Append(rows,
           [by |-> p, agent |-> AgentOf[MandateOf[p]], mandate |-> MandateOf[p],
            decision |-> v, timestamp |-> t,
            prev_hash |-> IF rows = <<>> THEN Genesis ELSE rows[Len(rows)].receipt_hash,
            receipt_hash |-> p])
    /\ UNCHANGED <<revoked, life, known, seen, answer>>

End(p, a) ==
    /\ life[p] # "ended"
    /\ life' = [life EXCEPT ![p] = "ended"]
    /\ answer' = [answer EXCEPT ![p] = a]
    /\ UNCHANGED <<rows, revoked, known, seen>>

Answer(p) == \E i \in DOMAIN rows : rows[i].by = p /\ End(p, rows[i].decision)

Refuse(p) == life[p] = "open" /\ ~Recorded(p) /\ ChainMeets(p, revoked) /\ End(p, "DENY_DELEGATION")

GiveUp(p) == End(p, NoAnswer)

Revoke(x) ==
    /\ revoked' = revoked \cup {x}
    /\ UNCHANGED <<rows, life, known, seen, answer>>

Next ==
    \/ \E p \in Enforcers :
          \/ Open(p) \/ Count(p) \/ Answer(p) \/ Refuse(p) \/ GiveUp(p)
          \/ \E v \in Counted \cup Uncounted, t \in Times : Record(p, v, t)
    \/ \E x \in Mandates \cup Delegations : Revoke(x)

Spec == Init /\ [][Next]_<<rows, revoked, life, known, seen, answer>>
=============================================================================
