------------------------------ MODULE Reports -------------------------------
(***************************************************************************)
(* The commands that read the decision ledger and report on it: `audit`,   *)
(* `verify-lineage`, `visual-receipt`, and `compress` with the             *)
(* `verify-summary` of the file it wrote.  Each command reads in several   *)
(* statements outside any transaction, while `enforce` processes append    *)
(* and while rows may go missing from the file (a restored copy, a row     *)
(* deleted by hand): the damage the chain of receipt hashes is there to    *)
(* show.                                                                   *)
(*                                                                         *)
(* An append is one action, the transaction of module Ledger.  A receipt's *)
(* hash covers a fresh id, so row i's id and hash are both i; the hash of  *)
(* two hashes is their pair.                                               *)
(***************************************************************************)
EXTENDS Integers, Sequences, FiniteSets, SequencesExt, FiniteSetsExt

CONSTANTS
    Agents, Decisions,
    Captured,       \* [Agents -> SUBSET Fields], the authority context the agent's receipts hold
    Windows,        \* set of <<start, end>> asked of `compress`
    MinDecisions,   \* --min-decisions of `compress`
    Limit,          \* --last of `audit`
    MaxDepth,       \* [{"verify-lineage", "visual-receipt"} -> Nat], 10 and 5 in the code
    MaxRows, MaxTime, MaxLosses     \* bounds

Commands == {"audit", "verify-lineage", "visual-receipt", "compress"}
Fields == {"mandate_hash", "proposal_hash", "issuer_did", "delegation_chain_hash",
           "authority_level", "scope_hash"}

ASSUME ReportsAssumption ==
    /\ Captured \in [Agents -> SUBSET Fields]
    /\ Windows \subseteq Nat \X Nat
    /\ MinDecisions \in Nat /\ Limit \in Nat
    /\ MaxDepth \in [{"verify-lineage", "visual-receipt"} -> Nat]
    /\ MaxRows \in Nat /\ MaxTime \in Nat /\ MaxLosses \in Nat

Genesis == 0        \* the hash before the first receipt
NoParent == 0       \* an empty parent_receipt_hash
Stray == -1         \* a --parent-receipt that names no receipt
Nothing == <<>>

VARIABLES
    decisions,      \* every row ever committed, by seq, which is never used twice
    present,        \* the seqs the file still holds
    command,        \* the command being run
    pc,             \* how far it has come
    receipt,        \* the receipt it was asked about
    lineage,        \* rows of the lineage found so far, the receipt first
    want,           \* the parent to look up next
    output,         \* what was printed or written
    history         \* history: the rows each row found in the file when it was appended

table == <<decisions, present, history>>
vars == <<table, command, pc, receipt, lineage, want, output>>

Init ==
    /\ decisions = <<>> /\ present = {} /\ history = <<>>
    /\ command \in Commands
    /\ pc = "start"
    /\ receipt = NoParent /\ lineage = <<>> /\ want = NoParent
    /\ output = Nothing

-----------------------------------------------------------------------------
(* The ledger file.                                                        *)

last_receipt_hash == IF present = {} THEN Genesis ELSE Max(present)

\* `enforce` links the new row to the last one and names the parent it was given.  The
\* timestamp is the wall clock's, which may have been set back.
enforce_and_record(agent, decision, parent, timestamp) ==
    /\ Len(decisions) < MaxRows
    /\ decisions' = Append(decisions,
          [agent_did |-> agent, decision |-> decision, timestamp |-> timestamp,
           prev_hash |-> last_receipt_hash, parent |-> parent])
    /\ present' = present \cup {Len(decisions')}
    /\ history' = Append(history, present)
    /\ UNCHANGED <<command, pc, receipt, lineage, want, output>>

LoseRow ==
    /\ Len(decisions) - Cardinality(present) < MaxLosses
    /\ \E i \in present : present' = present \ {i}
    /\ UNCHANGED <<decisions, history, command, pc, receipt, lineage, want, output>>

\* The rows by seq: row k of the answer has k - 1 rows before it.
InOrder(rows) == [k \in 1..Cardinality(rows) |->
    CHOOSE i \in rows : Cardinality({j \in rows : j < i}) = k - 1]

\* The youngest `Limit` rows that pass the filters of `audit`.
query(agents, kinds) ==
    LET found == InOrder({i \in present : /\ decisions[i].agent_did \in agents
                                          /\ decisions[i].decision \in kinds})
    IN  Range(SubSeq(found, Max({1, Len(found) - Limit + 1}), Len(found)))

query_window(agent, window) ==
    InOrder({i \in present : /\ decisions[i].agent_did = agent
                             /\ window[1] <= decisions[i].timestamp
                             /\ decisions[i].timestamp <= window[2]})

count_window(agent, window) == Len(query_window(agent, window))

\* Each row links to the one before it, the first to the genesis hash.
verify_chain ==
    LET rows == InOrder(present)
    IN  \A k \in DOMAIN rows :
           decisions[rows[k]].prev_hash = IF k = 1 THEN Genesis ELSE rows[k - 1]

-----------------------------------------------------------------------------
(* audit, verify-lineage, visual-receipt.                                  *)

\* One listing; the receipt that the two other commands are asked about comes from it.
cmd_audit ==
    /\ pc = "start"
    /\ \E agents \in {Agents} \cup {{a} : a \in Agents},
          kinds \in {Decisions} \cup {{d} : d \in Decisions} :
          LET entries == query(agents, kinds) IN
          IF command = "audit" \/ entries = {}
            THEN /\ output' = InOrder(entries)
                 /\ pc' = IF command = "audit" THEN "done" ELSE "failed"
                 /\ UNCHANGED <<receipt, want>>
            ELSE /\ \E i \in entries : receipt' = i /\ want' = i
                 /\ pc' = IF command = "visual-receipt" THEN "entry" ELSE "lineage"
                 /\ UNCHANGED output
    /\ command # "compress"
    /\ UNCHANGED <<table, command, lineage>>

\* visual-receipt looks the receipt up before the lineage does so again.
ReadEntry ==
    /\ pc = "entry"
    /\ pc' = IF receipt \in present THEN "lineage" ELSE "failed"
    /\ UNCHANGED <<table, command, receipt, lineage, want, output>>

EndOfLineage == IF command = "visual-receipt" THEN "chain" ELSE "print"

\* Mutant: the walk follows the chain of the ledger.
reconstruct_recursiveSlip ==
    /\ pc = "lineage"
    /\ Len(lineage) < MaxDepth[command]
    /\ want \in present
    /\ lineage' = Append(lineage, want)
    /\ want' = decisions[want].prev_hash
    /\ pc' = IF want' = NoParent THEN EndOfLineage ELSE pc
    /\ UNCHANGED <<table, command, receipt, output>>

\* One call of the recursion finds its row and turns to the parent.
reconstruct_recursive ==
    /\ pc = "lineage"
    /\ Len(lineage) < MaxDepth[command]
    /\ want \in present
    /\ lineage' = Append(lineage, want)
    /\ want' = decisions[want].parent
    /\ pc' = IF want' = NoParent THEN EndOfLineage ELSE pc
    /\ UNCHANGED <<table, command, receipt, output>>

\* A parent too deep or not in the file is left out; a missing receipt itself is an
\* error, which visual-receipt ignores.
CutLineage ==
    /\ pc = "lineage"
    /\ Len(lineage) >= MaxDepth[command] \/ want \notin present
    /\ pc' = IF lineage = <<>> /\ command = "verify-lineage" THEN "failed" ELSE EndOfLineage
    /\ UNCHANGED <<table, command, receipt, lineage, want, output>>

missing_fields(i) == Fields \ Captured[decisions[i].agent_did]

\* A receipt counts as complete by its own fields, whatever became of its parents.  The
\* text form cuts the parent to 16 characters and panics if it was given with fewer.
cmd_verify_lineage ==
    /\ pc = "print"
    /\ \/ /\ output' = [lineage_complete |-> missing_fields(receipt) = {}]
          /\ pc' = "done"
       \/ /\ decisions[receipt].parent = Stray
          /\ pc' = "failed"
          /\ UNCHANGED output
    /\ UNCHANGED <<table, command, receipt, lineage, want>>

\* The rule decides between HIGH and MEDIUM for a denial; PENDING_APPROVAL, which the
\* source spells ESCALATE here, falls through.
classify_severity(decision) ==
    CASE decision = "DENY" -> {"HIGH", "MEDIUM"}
      [] decision = "EXPIRED" -> {"HIGH"}
      [] decision = "ALLOW" -> {"NONE"}
      [] OTHER -> {"LOW"}

render_json(i, severity, intact) ==
    [severity |-> severity,
     status |-> IF decisions[i].decision = "ALLOW" THEN "PASS" ELSE "FAIL",
     chain_intact |-> intact,
     lineage_complete |-> lineage # <<>> /\ missing_fields(i) = {}]

\* The chain is verified by a third statement, after the entry and the lineage are read.
cmd_visual_receipt ==
    /\ pc = "chain"
    /\ \E severity \in classify_severity(decisions[receipt].decision) :
          output' = render_json(receipt, severity, verify_chain)
    /\ pc' = "done"
    /\ UNCHANGED <<table, command, receipt, lineage, want>>

-----------------------------------------------------------------------------
(* compress and verify-summary.                                            *)

\* Pairs are hashed level by level; an odd last hash moves up as it is.
merkle_root(hashes) ==
    LET NextLevel(s) == [k \in 1..((Len(s) + 1) \div 2) |->
                            IF 2 * k <= Len(s) THEN <<s[2 * k - 1], s[2 * k]>> ELSE s[2 * k - 1]]
        level[n \in 0..Len(hashes)] == IF n = 0 THEN hashes ELSE NextLevel(level[n - 1])
    IN  level[Len(hashes)][1]

ReceiptHashes(rows) == [k \in DOMAIN rows |-> <<rows[k]>>]

\* Mutant: only the order of the rows is checked, which the query gives.
chain_intactSlip(rows) == \A k \in 2..Len(rows) : rows[k - 1] < rows[k]

chain_intact(rows) ==
    \A k \in 2..Len(rows) : /\ decisions[rows[k]].prev_hash = rows[k - 1]
                            /\ rows[k - 1] < rows[k]

compress_window(agent, window, rows) ==
    [agent_did |-> agent, window |-> window,
     total_decisions |-> Len(rows),
     decision_counts |-> [d \in Decisions |->
        Cardinality({k \in DOMAIN rows : decisions[rows[k]].decision = d})],
     issuer_coverage |-> "issuer_did" \in Captured[agent],
     first_receipt_hash |-> rows[1], last_receipt_hash |-> rows[Len(rows)],
     merkle_root |-> merkle_root(ReceiptHashes(rows)),
     chain_intact |-> chain_intact(rows)]

\* The hash covers the counts and the chain; rules, levels and issuers are not in it.
hash_input(s) ==
    <<s.agent_did, s.window, s.total_decisions, s.decision_counts,
      s.first_receipt_hash, s.last_receipt_hash, s.merkle_root, s.chain_intact>>

sign_summary(data) == [data |-> data, summary_hash |-> hash_input(data)]

\* The signature is over the stored hash, which the fault below leaves alone.
verify_summary(summary) == summary.summary_hash = hash_input(summary.data)

\* The count is one statement, the rows are read by the next.
CountDecisions ==
    /\ pc = "start" /\ command = "compress"
    /\ \E agent \in Agents, window \in Windows :
          /\ output' = [agent_did |-> agent, window |-> window]
          /\ pc' = IF count_window(agent, window) < MinDecisions THEN "failed" ELSE "compress"
    /\ UNCHANGED <<table, command, receipt, lineage, want>>

cmd_compress ==
    /\ pc = "compress"
    /\ LET rows == query_window(output.agent_did, output.window) IN
       IF rows = <<>>
         THEN pc' = "failed" /\ UNCHANGED output
         ELSE /\ output' = sign_summary(compress_window(output.agent_did, output.window, rows))
              /\ pc' = "written"
    /\ UNCHANGED <<table, command, receipt, lineage, want>>

\* One field of the summary file is altered on its way to the reader.
DamageSummary ==
    /\ pc = "written"
    /\ \/ output' = [output EXCEPT !.data.chain_intact = ~@]
       \/ output' = [output EXCEPT !.data.total_decisions = @ + 1]
       \/ output' = [output EXCEPT !.data.issuer_coverage = ~@]
    /\ pc' = "delivered"
    /\ UNCHANGED <<table, command, receipt, lineage, want>>

cmd_verify_summary ==
    /\ pc \in {"written", "delivered"}
    /\ pc' = IF verify_summary(output) THEN "verified" ELSE "invalid"
    /\ UNCHANGED <<table, command, receipt, lineage, want, output>>

-----------------------------------------------------------------------------
\* A bound: what happens to the file after the command has ended concerns nobody.
Running == pc \notin {"done", "failed", "verified", "invalid"}

Step ==
    \/ \E agent \in Agents, decision \in Decisions, timestamp \in 0..MaxTime,
          parent \in DOMAIN decisions \cup {NoParent, Stray} :
          enforce_and_record(agent, decision, parent, timestamp)
    \/ LoseRow
    \/ cmd_audit
    \/ ReadEntry
    \/ reconstruct_recursive
    \/ CutLineage
    \/ cmd_verify_lineage
    \/ cmd_visual_receipt
    \/ CountDecisions
    \/ cmd_compress
    \/ DamageSummary
    \/ cmd_verify_summary

Next == Running /\ Step

Spec == Init /\ [][Next]_vars

-----------------------------------------------------------------------------
(* Properties.                                                             *)

\* The rows that were in the file from `first` on when `last` was appended.
Stretch(first, last) == {i \in history[last] : first <= i} \cup {last}

\* Each of the rows found in the file the earlier ones, and from `first` on no other: a
\* row missing between two of them had gone before the later one was appended, when no
\* row of the file was younger that is still shown.
Unbroken(rows, first) ==
    \A m \in rows : {i \in history[m] : first <= i} = {i \in rows : i < m}

\* A summary that verifies and says its chain is intact stands for every decision that was
\* in the ledger from its first receipt on when its last was appended, and for every one
\* that was there when any receipt between was: all of them the agent's, as many as it
\* counts and no others under its root (compress_window's links, sign_summary's hash, the
\* atomic append).
IntactSummary ==
    (pc = "verified" /\ output.data.chain_intact) =>
        LET s == output.data
            rows == Stretch(s.first_receipt_hash, s.last_receipt_hash)
        IN  /\ Unbroken(rows, s.first_receipt_hash)
            /\ \A i \in rows : decisions[i].agent_did = s.agent_did
            /\ s.total_decisions = Cardinality(rows)
            /\ s.merkle_root = merkle_root(ReceiptHashes(InOrder(rows)))

\* "Chain INTACT" on a visual receipt means that no row of the file found, when it was
\* appended, one that is gone since (verify_chain).
IntactChain ==
    (pc = "done" /\ command = "visual-receipt" /\ output.chain_intact) =>
        Unbroken(present, 1)

\* What a summary that verifies or a visual receipt calls intact hides no loss but of rows
\* that had gone from the end of the file before the next row shown was appended, which
\* leaves no trace in the links; whatever else was lost, appended between the reads or
\* damaged in the summary file, and however the clock was set back.
OnlyLostEndsAreHidden == IntactSummary /\ IntactChain

\* A receipt's ancestry as the rows recorded it: the receipt, its parent, and so on.
Parent(i) == IF i \in DOMAIN decisions THEN decisions[i].parent ELSE NoParent
IsAncestry(rows) == \A k \in 2..Len(rows) : rows[k] = Parent(rows[k - 1])

\* The lineage a command reports is the true beginning of the receipt's ancestry, though
\* each row is looked up in a statement of its own; it stops at a first decision, at a
\* parent the file does not hold, or at the depth limit, and it never comes round to a row
\* twice (reconstruct_recursive and the parent recorded by the append).
LineageIsAncestry ==
    lineage # <<>> =>
        /\ lineage[1] = receipt
        /\ IsAncestry(lineage)
        /\ IsInjective(lineage)
        /\ Len(lineage) <= MaxDepth[command]
        /\ (pc \in {"print", "chain", "done"}) =>
              LET next == Parent(lineage[Len(lineage)])
              IN  \/ next \in {NoParent, Stray}
                  \/ Len(lineage) = MaxDepth[command]
                  \/ next \notin present
=============================================================================
