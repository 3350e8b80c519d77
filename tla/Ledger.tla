------------------------------- MODULE Ledger -------------------------------
(***************************************************************************)
(* The decision ledger of the command line tool: one SQLite file, opened   *)
(* by any number of short processes.  `enforce` processes read the         *)
(* revocations and the recent decisions, decide, and then append a         *)
(* hash-chained receipt in one write transaction; `revoke` and             *)
(* `revoke-delegation` processes add revocations.                          *)
(*                                                                         *)
(* A statement outside a transaction is one action.  A write transaction   *)
(* (BEGIN IMMEDIATE .. COMMIT) is several, during which `writer` holds the *)
(* file's write lock and other processes read the last committed state.    *)
(* A receipt's hash covers a fresh receipt id, so it is identified with    *)
(* the process that produced the receipt.                                  *)
(***************************************************************************)
EXTENDS Integers, Sequences, FiniteSets

CONSTANTS
    Enforcers,      \* `enforce` processes, each one run of the command
    Revokers,       \* `revoke` and `revoke-delegation` processes
    Mandates, Delegations, Agents,
    MandateOf,      \* [Enforcers -> Mandates]
    ChainOf,        \* [Enforcers -> Seq(Delegations)], root first, empty when no chain is given
    AgentOf,        \* [Mandates -> Agents]
    MaxCalls,       \* [Mandates -> Nat], max_calls_per_minute
    Target,         \* [Revokers -> Mandates \cup Delegations]
    RateWindow,     \* the 60 seconds of count_recent, in ticks
    Genesis,        \* the hash before the first receipt
    NoWriter,       \* nobody holds the write lock
    MaxTime         \* bound on the clock

Commands == Enforcers \cup Revokers

ASSUME CommandAssumption ==
    /\ Enforcers \cap Revokers = {}
    /\ NoWriter \notin Commands
    /\ Genesis \notin Enforcers

ASSUME RequestAssumption ==
    /\ Mandates \cap Delegations = {}
    /\ MandateOf \in [Enforcers -> Mandates]
    /\ ChainOf \in [Enforcers -> Seq(Delegations)]
    /\ AgentOf \in [Mandates -> Agents]
    /\ MaxCalls \in [Mandates -> Nat]
    /\ Target \in [Revokers -> Mandates \cup Delegations]

ASSUME TimeAssumption == RateWindow \in Nat /\ MaxTime \in Nat

VARIABLES
    decisions,      \* committed rows of the decisions table, in order of seq
    revocations,    \* committed rows of the revocations table
    authority_log,  \* delegations whose revocation is in the authority log
    writer,         \* the holder of the write lock
    now,            \* the wall clock
    pc,             \* how far each process has come
    next,           \* the next delegation of the chain to look up, per enforcer
    verdict,        \* what each enforcer has decided
    prev_hash,      \* PREV_HASH of each enforcer's process
    staged,         \* the row inserted and not yet committed
    revokedAtOpen,  \* history: what was revoked when an enforcer opened the ledger
    seen            \* history: rows committed when an enforcer counted its calls

tables == <<decisions, revocations, authority_log>>
history == <<revokedAtOpen, seen>>
vars == <<tables, writer, now, pc, next, verdict, prev_hash, staged, history>>

-----------------------------------------------------------------------------
\* What the ledger records: the decision with the rule that made it.
RecordedVerdicts ==
    {"ALLOW", "DENY_POLICY", "DENY_REVOKED", "DENY_RATE", "EXPIRED", "PENDING_APPROVAL"}
\* What `enforce` may print; the answer for a revoked delegation is printed only.
Verdicts == RecordedVerdicts \cup {"DENY_DELEGATION"}
NoVerdict == "none"

Row == [by : Enforcers, agent : Agents, mandate : Mandates, decision : RecordedVerdicts,
        timestamp : Nat, prev_hash : Enforcers \cup {Genesis}, receipt_hash : Enforcers]
NoRow == <<>>

InTransaction == {"link", "insert", "commit"}
EnforceStages ==
    {"start", "delegations", "tool", "revocation", "policy", "rate", "begin"}
        \cup InTransaction \cup {"print", "done", "failed"}
RevokeStages == {"start", "log", "done", "failed"}
Ended == {"done", "failed"}

LastHash(rows) == IF rows = <<>> THEN Genesis ELSE rows[Len(rows)].receipt_hash

\* The rows of an agent that are younger than the window at time t.
Recent(rows, agent, t) ==
    {i \in DOMAIN rows : rows[i].agent = agent /\ rows[i].timestamp > t - RateWindow}

Goto(c, stage) == pc' = [pc EXCEPT ![c] = stage]
Decide(p, v) == verdict' = [verdict EXCEPT ![p] = v]

Init ==
    /\ decisions = <<>> /\ revocations = {} /\ authority_log = {}
    /\ writer = NoWriter
    /\ now = 0
    /\ pc = [c \in Commands |-> "start"]
    /\ next = [p \in Enforcers |-> 1]
    /\ verdict = [p \in Enforcers |-> NoVerdict]
    /\ prev_hash = [p \in Enforcers |-> Genesis]
    /\ staged = [p \in Enforcers |-> NoRow]
    /\ revokedAtOpen = [p \in Enforcers |-> {}]
    /\ seen = [p \in Enforcers |-> 0]

-----------------------------------------------------------------------------
(* enforce: everything up to the verdict reads outside any transaction.    *)

\* The ledger is opened and PREV_HASH set from its last row.
Open(p) ==
    /\ pc[p] = "start"
    /\ prev_hash' = [prev_hash EXCEPT ![p] = LastHash(decisions)]
    /\ Goto(p, IF ChainOf[p] = <<>> THEN "tool" ELSE "delegations")
    /\ revokedAtOpen' = [revokedAtOpen EXCEPT ![p] = revocations]
    /\ UNCHANGED <<tables, writer, now, next, verdict, staged, seen>>

\* Mutant: Only the leaf of the chain is looked up.
CheckDelegationSlip(p) ==
    /\ pc[p] = "delegations"
    /\ \/ /\ ChainOf[p][Len(ChainOf[p])] \in revocations
          /\ Decide(p, "DENY_DELEGATION")
          /\ Goto(p, "done")
       \/ /\ ChainOf[p][Len(ChainOf[p])] \notin revocations
          /\ Goto(p, "tool")
          /\ UNCHANGED verdict
    /\ UNCHANGED <<tables, writer, now, next, prev_hash, staged, history>>

\* Mutant: The loop over the chain does not advance.
CheckDelegationStuck(p) ==
    /\ pc[p] = "delegations"
    /\ ChainOf[p][next[p]] \in revocations
    /\ Decide(p, "DENY_DELEGATION")
    /\ Goto(p, "done")
    /\ UNCHANGED <<tables, writer, now, next, prev_hash, staged, history>>

\* One turn of the loop over the chain; a revoked delegation ends the process
\* with a printed denial and no row.
CheckDelegation(p) ==
    /\ pc[p] = "delegations"
    /\ \/ /\ ChainOf[p][next[p]] \in revocations
          /\ Decide(p, "DENY_DELEGATION")
          /\ Goto(p, "done")
          /\ UNCHANGED next
       \/ /\ ChainOf[p][next[p]] \notin revocations
          /\ next' = [next EXCEPT ![p] = @ + 1]
          /\ Goto(p, IF next[p] = Len(ChainOf[p]) THEN "tool" ELSE "delegations")
          /\ UNCHANGED verdict
    /\ UNCHANGED <<tables, writer, now, prev_hash, staged, history>>

\* The checks on the tool name alone come before anything else.
CheckTool(p) ==
    /\ pc[p] = "tool"
    /\ \/ Decide(p, "DENY_POLICY") /\ Goto(p, "begin")
       \/ Goto(p, "revocation") /\ UNCHANGED verdict
    /\ UNCHANGED <<tables, writer, now, next, prev_hash, staged, history>>

CheckRevoked(p) ==
    /\ pc[p] = "revocation"
    /\ IF MandateOf[p] \in revocations
         THEN Decide(p, "DENY_REVOKED") /\ Goto(p, "begin")
         ELSE Goto(p, "policy") /\ UNCHANGED verdict
    /\ UNCHANGED <<tables, writer, now, next, prev_hash, staged, history>>

\* Steps 1 to 6: signature, issuer, lifetime, boundaries, state, escalation.
CheckPolicy(p) ==
    /\ pc[p] = "policy"
    /\ \/ /\ \E v \in {"DENY_POLICY", "EXPIRED", "PENDING_APPROVAL"} : Decide(p, v)
          /\ Goto(p, "begin")
       \/ Goto(p, "rate") /\ UNCHANGED verdict
    /\ UNCHANGED <<tables, writer, now, next, prev_hash, staged, history>>

\* Mutant: A greater-than where the limit is reached, not passed.
CheckRateSlip(p) ==
    /\ pc[p] = "rate"
    /\ LET m == MandateOf[p] IN
       Decide(p, IF Cardinality(Recent(decisions, AgentOf[m], now)) > MaxCalls[m]
                   THEN "DENY_RATE" ELSE "ALLOW")
    /\ Goto(p, "begin")
    /\ seen' = [seen EXCEPT ![p] = Len(decisions)]
    /\ UNCHANGED <<tables, writer, now, next, prev_hash, staged, revokedAtOpen>>

\* Step 7 counts every recent decision of the agent, denials included.
CheckRate(p) ==
    /\ pc[p] = "rate"
    /\ LET m == MandateOf[p] IN
       Decide(p, IF Cardinality(Recent(decisions, AgentOf[m], now)) >= MaxCalls[m]
                   THEN "DENY_RATE" ELSE "ALLOW")
    /\ Goto(p, "begin")
    /\ seen' = [seen EXCEPT ![p] = Len(decisions)]
    /\ UNCHANGED <<tables, writer, now, next, prev_hash, staged, revokedAtOpen>>

-----------------------------------------------------------------------------
(* enforce_and_record: the verdict becomes a row.                          *)

\* Mutant: BEGIN DEFERRED instead of BEGIN IMMEDIATE.
BeginSlip(p) ==
    /\ pc[p] = "begin"
    /\ writer' = p
    /\ Goto(p, "link")
    /\ UNCHANGED <<tables, now, next, verdict, prev_hash, staged, history>>

\* BEGIN IMMEDIATE
Begin(p) ==
    /\ pc[p] = "begin"
    /\ writer = NoWriter
    /\ writer' = p
    /\ Goto(p, "link")
    /\ UNCHANGED <<tables, now, next, verdict, prev_hash, staged, history>>

\* Mutant: PREV_HASH is not read again inside the transaction.
LinkSlip(p) ==
    /\ pc[p] = "link"
    /\ Goto(p, "insert")
    /\ UNCHANGED <<tables, writer, now, next, verdict, prev_hash, staged, history>>

Link(p) ==
    /\ pc[p] = "link"
    /\ prev_hash' = [prev_hash EXCEPT ![p] = LastHash(decisions)]
    /\ Goto(p, "insert")
    /\ UNCHANGED <<tables, writer, now, next, verdict, staged, history>>

Receipt(p) ==
    [by |-> p, agent |-> AgentOf[MandateOf[p]], mandate |-> MandateOf[p],
     decision |-> verdict[p], timestamp |-> now, prev_hash |-> prev_hash[p],
     receipt_hash |-> p]

\* generate_receipt advances PREV_HASH before the row is committed.
Insert(p) ==
    /\ pc[p] = "insert"
    /\ staged' = [staged EXCEPT ![p] = Receipt(p)]
    /\ prev_hash' = [prev_hash EXCEPT ![p] = Receipt(p).receipt_hash]
    /\ Goto(p, "commit")
    /\ UNCHANGED <<tables, writer, now, next, verdict, history>>

Commit(p) ==
    /\ pc[p] = "commit"
    /\ decisions' = Append(decisions, staged[p])
    /\ staged' = [staged EXCEPT ![p] = NoRow]
    /\ writer' = NoWriter
    /\ Goto(p, "print")
    /\ UNCHANGED <<revocations, authority_log, now, next, verdict, prev_hash, history>>

\* The verdict is printed and the process exits.
Output(p) ==
    /\ pc[p] = "print"
    /\ Goto(p, "done")
    /\ UNCHANGED <<tables, writer, now, next, verdict, prev_hash, staged, history>>

-----------------------------------------------------------------------------
(* revoke and revoke-delegation: each INSERT is a transaction of its own.  *)

\* INSERT OR IGNORE: revoking twice succeeds twice.
RevokeMandate(r) ==
    /\ pc[r] = "start" /\ Target[r] \in Mandates
    /\ writer = NoWriter
    /\ revocations' = revocations \cup {Target[r]}
    /\ Goto(r, "done")
    /\ UNCHANGED <<decisions, authority_log, writer, now, next, verdict, prev_hash, staged, history>>

\* A plain INSERT: the second revocation violates UNIQUE and ends the process.
RevokeDelegation(r) ==
    /\ pc[r] = "start" /\ Target[r] \in Delegations
    /\ writer = NoWriter
    /\ revocations' = revocations \cup {Target[r]}
    /\ Goto(r, IF Target[r] \in revocations THEN "failed" ELSE "log")
    /\ UNCHANGED <<decisions, authority_log, writer, now, next, verdict, prev_hash, staged, history>>

LogRevocation(r) ==
    /\ pc[r] = "log"
    /\ writer = NoWriter
    /\ authority_log' = authority_log \cup {Target[r]}
    /\ Goto(r, "done")
    /\ UNCHANGED <<decisions, revocations, writer, now, next, verdict, prev_hash, staged, history>>

-----------------------------------------------------------------------------
(* Failures and the clock.                                                 *)

WaitsForLock(c) ==
    \/ c \in Enforcers /\ pc[c] = "begin"
    \/ c \in Revokers /\ pc[c] \in {"start", "log"}

\* Mutant: An error of enforce_and_record is ignored and the verdict printed.
LockTimeoutSlip(c) ==
    /\ WaitsForLock(c)
    /\ writer # NoWriter
    /\ Goto(c, IF c \in Enforcers THEN "print" ELSE "failed")
    /\ UNCHANGED <<tables, writer, now, next, verdict, prev_hash, staged, history>>

\* busy_timeout has passed: the statement fails and the command with it.
LockTimeout(c) ==
    /\ WaitsForLock(c)
    /\ writer # NoWriter
    /\ Goto(c, "failed")
    /\ UNCHANGED <<tables, writer, now, next, verdict, prev_hash, staged, history>>

\* The process dies, or a `?` returns an error.  An open transaction is rolled
\* back, by the code or by SQLite, and the lock is free again.
Abandon(c) ==
    /\ pc[c] \notin Ended
    /\ Goto(c, "failed")
    /\ writer' = IF writer = c THEN NoWriter ELSE writer
    /\ staged' = IF c \in Enforcers THEN [staged EXCEPT ![c] = NoRow] ELSE staged
    /\ UNCHANGED <<tables, now, next, verdict, prev_hash, history>>

\* An assumption of this module: the wall clock is not set back while it runs.  What a
\* clock set back does to the rows is in module Reports.
Tick ==
    /\ now < MaxTime
    /\ now' = now + 1
    /\ UNCHANGED <<tables, writer, pc, next, verdict, prev_hash, staged, history>>

EnforceStep(p) ==
    \/ Open(p) \/ CheckDelegation(p) \/ CheckTool(p) \/ CheckRevoked(p)
    \/ CheckPolicy(p) \/ CheckRate(p)
    \/ Begin(p) \/ Link(p) \/ Insert(p) \/ Commit(p) \/ Output(p)
    \/ LockTimeout(p)

RevokeStep(r) ==
    \/ RevokeMandate(r) \/ RevokeDelegation(r) \/ LogRevocation(r)
    \/ LockTimeout(r)

Next ==
    \/ \E p \in Enforcers : EnforceStep(p)
    \/ \E r \in Revokers : RevokeStep(r)
    \/ \E c \in Commands : Abandon(c)
    \/ Tick

Spec == Init /\ [][Next]_vars

\* Every started process is scheduled by the system until it ends.
FairSpec ==
    /\ Spec
    /\ \A p \in Enforcers : WF_vars(EnforceStep(p))
    /\ \A r \in Revokers : WF_vars(RevokeStep(r))

-----------------------------------------------------------------------------
TypeOK ==
    /\ decisions \in Seq(Row)
    /\ revocations \subseteq Mandates \cup Delegations
    /\ authority_log \subseteq Delegations
    /\ writer \in Commands \cup {NoWriter}
    /\ now \in 0..MaxTime
    /\ pc \in [Commands -> EnforceStages \cup RevokeStages]
    /\ \A p \in Enforcers : pc[p] \in EnforceStages
    /\ \A r \in Revokers : pc[r] \in RevokeStages
    /\ next \in [Enforcers -> Nat]
    /\ verdict \in [Enforcers -> Verdicts \cup {NoVerdict}]
    /\ prev_hash \in [Enforcers -> Enforcers \cup {Genesis}]
    /\ staged \in [Enforcers -> Row \cup {NoRow}]
    /\ revokedAtOpen \in [Enforcers -> SUBSET (Mandates \cup Delegations)]
    /\ seen \in [Enforcers -> Nat]

\* verify_chain finds no fault, whatever processes append side by side and
\* wherever they die: the first row points at the genesis hash and every other
\* at the row before it.
ChainIntact ==
    \A i \in DOMAIN decisions :
        decisions[i].prev_hash =
            IF i = 1 THEN Genesis ELSE decisions[i - 1].receipt_hash

\* An enforcer that printed a verdict of the pipeline left exactly one row,
\* with that verdict; any other left at most one.
PrintedIsRecorded ==
    \A p \in Enforcers :
        LET rows == {i \in DOMAIN decisions : decisions[i].by = p} IN
        /\ Cardinality(rows) <= 1
        /\ pc[p] = "done" /\ verdict[p] \in RecordedVerdicts =>
               \E i \in rows : decisions[i].decision = verdict[p]

\* A revocation that was committed before the ledger was opened is honoured:
\* by the mandate the answer is a denial, by a delegation of the chain it is
\* the denial for the delegation.
EarlierRevocationDenies ==
    \A p \in Enforcers :
        pc[p] \in {"begin", "print", "done"} \cup InTransaction =>
            /\ MandateOf[p] \in revokedAtOpen[p] =>
                   verdict[p] \in {"DENY_POLICY", "DENY_REVOKED", "DENY_DELEGATION"}
            /\ (\E k \in DOMAIN ChainOf[p] : ChainOf[p][k] \in revokedAtOpen[p]) =>
                   verdict[p] = "DENY_DELEGATION"

\* The limit can be overrun only by rows committed between the count and the
\* commit of an allowed call: without them the window ending at an ALLOW holds
\* fewer than max_calls_per_minute earlier rows of the agent.
OverrunIsOverlap ==
    \A i \in DOMAIN decisions :
        LET row == decisions[i]
            earlier == {j \in Recent(decisions, row.agent, row.timestamp) : j < i}
        IN  row.decision = "ALLOW" =>
                Cardinality(earlier) < MaxCalls[row.mandate] + (i - 1 - seen[row.by])

\* Every command ends: nobody waits for the write lock for ever and no holder
\* waits for anything.
EveryCommandEnds == \A c \in Commands : <>(pc[c] \in Ended)
-----------------------------------------------------------------------------
(* A command as its user sees it: opened, counted, ended, and its answer.  *)

LifeOf(p) ==
    IF pc[p] = "start" THEN "new"
    ELSE IF pc[p] \in Ended THEN "ended"
    ELSE IF pc[p] \in {"begin", "print"} \cup InTransaction
                /\ verdict[p] \in {"ALLOW", "DENY_RATE"} THEN "counted"
    ELSE "open"

AnswerOf(p) == IF pc[p] = "done" THEN verdict[p] ELSE NoVerdict

Life == [p \in Enforcers |-> LifeOf(p)]
Answers == [p \in Enforcers |-> AnswerOf(p)]

Log == INSTANCE DecisionLog WITH
           Times <- 0..MaxTime, NoAnswer <- NoVerdict,
           rows <- decisions, revoked <- revocations,
           life <- Life, known <- revokedAtOpen, answer <- Answers

\* Commands that interleave statement by statement, wait for the lock, time out
\* and die are commands that open, count, record and answer in one step each.
ImplementsLog == Log!Spec
=============================================================================
