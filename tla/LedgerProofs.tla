---------------------------- MODULE LedgerProofs ----------------------------
(***************************************************************************)
(* Theorems about Ledger.tla, for any processes, mandates, chains, limits  *)
(* and bounds.                                                             *)
(***************************************************************************)
EXTENDS Ledger, FiniteSetTheorems, TLAPS

\* Appending keeps the old elements and adds one at the end.
LEMMA AppendFacts ==
    ASSUME NEW S, NEW s \in Seq(S), NEW e \in S
    PROVE  /\ Append(s, e) \in Seq(S)
           /\ Len(Append(s, e)) = Len(s) + 1
           /\ DOMAIN Append(s, e) = 1..(Len(s) + 1)
           /\ Append(s, e)[Len(s) + 1] = e
           /\ \A i \in DOMAIN s : Append(s, e)[i] = s[i]
  OBVIOUS

\* Changing a function at one argument keeps its type.
LEMMA ExceptType ==
    ASSUME NEW S, NEW T, NEW f \in [S -> T], NEW x \in S, NEW y \in T
    PROVE  [f EXCEPT ![x] = y] \in [S -> T]
  OBVIOUS

\* The last hash of a ledger is the hash of a receipt or the genesis hash.
LEMMA LastHashType ==
    ASSUME NEW rows \in Seq(Row) PROVE LastHash(rows) \in Enforcers \cup {Genesis}
  <1>1. CASE rows = <<>>
    BY <1>1 DEF LastHash
  <1>2. CASE rows # <<>>
    <2>1. rows[Len(rows)] \in Row
      BY <1>2
    <2> QED
      BY <1>2, <2>1 DEF LastHash, Row
  <1> QED
    BY <1>1, <1>2

-----------------------------------------------------------------------------
(***************************************************************************)
(* Type correctness, with what each stage has established.  The write lock *)
(* is held exactly by the process that is inside its transaction, so at    *)
(* most one is.                                                            *)
(***************************************************************************)

LockInv ==
    \A c \in Commands : writer = c <=> c \in Enforcers /\ pc[c] \in InTransaction

Recording == {"begin", "print"} \cup InTransaction

StageInv ==
    /\ \A p \in Enforcers :
          /\ pc[p] = "start" => next[p] = 1
          /\ pc[p] = "delegations" => next[p] \in DOMAIN ChainOf[p]
          /\ pc[p] \in Recording => verdict[p] \in RecordedVerdicts
          /\ pc[p] = "commit" => staged[p] \in Row
    /\ \A r \in Revokers : pc[r] = "log" => Target[r] \in Delegations

TypeInv == TypeOK /\ LockInv /\ StageInv

\* Every step keeps the types, the lock and what the stages have established.
LEMMA TypeInductive == TypeInv /\ [Next]_vars => TypeInv'
  <1> SUFFICES ASSUME TypeInv, [Next]_vars PROVE TypeInv'
    OBVIOUS
  <1> USE CommandAssumption, RequestAssumption
      DEF TypeInv, TypeOK, LockInv, StageInv, Recording, Commands, tables, history, Goto, Decide,
          EnforceStages, RevokeStages, InTransaction, Ended, Verdicts, RecordedVerdicts
  <1>1. ASSUME NEW p \in Enforcers, Open(p) PROVE TypeInv'
    <2>1. LastHash(decisions) \in Enforcers \cup {Genesis}
      BY LastHashType
    <2>2. ChainOf[p] # <<>> => 1 \in DOMAIN ChainOf[p]
      BY ChainOf[p] \in Seq(Delegations)
    <2>3. TypeOK'
      BY <1>1, <2>1 DEF Open
    <2>4. LockInv'
      BY <1>1 DEF Open
    <2>5. StageInv'
      BY <1>1, <2>2 DEF Open
    <2> QED
      BY <2>3, <2>4, <2>5
  <1>2. ASSUME NEW p \in Enforcers, CheckDelegation(p) PROVE TypeInv'
    <2>1. next[p] # Len(ChainOf[p]) /\ next[p] \in DOMAIN ChainOf[p]
              => next[p] + 1 \in DOMAIN ChainOf[p]
      BY ChainOf[p] \in Seq(Delegations)
    <2>2. PICK s \in {"done", "tool", "delegations"} : pc' = [pc EXCEPT ![p] = s]
      BY <1>2 DEF CheckDelegation
    <2>a. /\ verdict' \in [Enforcers -> Verdicts \cup {NoVerdict}]
          /\ next' \in [Enforcers -> Nat]
      <3>1. verdict' = verdict \/ verdict' = [verdict EXCEPT ![p] = "DENY_DELEGATION"]
        BY <1>2 DEF CheckDelegation
      <3>2. next' = next \/ next' = [next EXCEPT ![p] = next[p] + 1]
        BY <1>2 DEF CheckDelegation
      <3>3. verdict' \in [Enforcers -> Verdicts \cup {NoVerdict}]
        BY <3>1
      <3>4. next \in [Enforcers -> Nat] /\ next[p] + 1 \in Nat
        OBVIOUS
      <3>5. [next EXCEPT ![p] = next[p] + 1] \in [Enforcers -> Nat]
        BY <3>4, ExceptType, Zenon
      <3>6. next' \in [Enforcers -> Nat]
        BY <3>2, <3>4, <3>5, Zenon
      <3> QED
        BY <3>3, <3>6
    <2>3. TypeOK'
      BY <1>2, <2>2, <2>a DEF CheckDelegation
    <2>4. LockInv'
      BY <1>2, <2>2 DEF CheckDelegation
    <2>5. s = "delegations" => next'[p] \in DOMAIN ChainOf[p]
      BY <1>2, <2>1, <2>2 DEF CheckDelegation
    <2>6. \A q \in Enforcers \ {p} :
              next'[q] = next[q] /\ verdict'[q] = verdict[q] /\ pc'[q] = pc[q]
      BY <1>2, <2>2 DEF CheckDelegation
    <2>7. staged' = staged /\ \A r \in Revokers : pc'[r] = pc[r]
      BY <1>2, <2>2 DEF CheckDelegation
    <2>8. StageInv'
      <3>1. \A q \in Enforcers :
                /\ pc'[q] = "start" => next'[q] = 1
                /\ pc'[q] = "delegations" => next'[q] \in DOMAIN ChainOf[q]
                /\ pc'[q] \in Recording => verdict'[q] \in RecordedVerdicts
                /\ pc'[q] = "commit" => staged'[q] \in Row
        BY <1>2, <2>2, <2>5, <2>6, <2>7 DEF CheckDelegation
      <3> QED
        BY <3>1, <2>7
    <2> QED
      BY <2>3, <2>4, <2>8
  <1>3. ASSUME NEW p \in Enforcers, CheckTool(p) PROVE TypeInv'
    <2>1. CASE pc' = [pc EXCEPT ![p] = "begin"]
      BY <1>3, <2>1 DEF CheckTool
    <2>2. CASE pc' = [pc EXCEPT ![p] = "revocation"]
      BY <1>3, <2>2 DEF CheckTool
    <2> QED
      BY <1>3, <2>1, <2>2 DEF CheckTool
  <1>4. ASSUME NEW p \in Enforcers, CheckRevoked(p) PROVE TypeInv'
    <2>1. PICK s \in {"begin", "policy"} :
              /\ pc' = [pc EXCEPT ![p] = s]
              /\ s = "begin" => verdict'[p] = "DENY_REVOKED"
      BY <1>4 DEF CheckRevoked
    <2>a. verdict' \in [Enforcers -> Verdicts \cup {NoVerdict}]
      BY <1>4 DEF CheckRevoked
    <2>2. TypeOK'
      BY <1>4, <2>1, <2>a DEF CheckRevoked
    <2>3. LockInv'
      BY <1>4, <2>1 DEF CheckRevoked
    <2>4. UNCHANGED <<next, staged>> /\ \A q \in Enforcers \ {p} : verdict'[q] = verdict[q]
      BY <1>4 DEF CheckRevoked
    <2> QED
      BY <2>1, <2>2, <2>3, <2>4
  <1>5. ASSUME NEW p \in Enforcers, CheckPolicy(p) PROVE TypeInv'
    <2>1. PICK s \in {"begin", "rate"} :
              /\ pc' = [pc EXCEPT ![p] = s]
              /\ s = "begin" => verdict'[p] \in RecordedVerdicts
      BY <1>5 DEF CheckPolicy
    <2>a. verdict' \in [Enforcers -> Verdicts \cup {NoVerdict}]
      BY <1>5 DEF CheckPolicy
    <2>2. TypeOK'
      BY <1>5, <2>1, <2>a DEF CheckPolicy
    <2>3. LockInv'
      BY <1>5, <2>1 DEF CheckPolicy
    <2>4. UNCHANGED <<next, staged>> /\ \A q \in Enforcers \ {p} : verdict'[q] = verdict[q]
      BY <1>5 DEF CheckPolicy
    <2> QED
      BY <2>1, <2>2, <2>3, <2>4
  <1>6. ASSUME NEW p \in Enforcers, CheckRate(p) PROVE TypeInv'
    BY <1>6 DEF CheckRate
  <1>7. ASSUME NEW p \in Enforcers, Begin(p) PROVE TypeInv'
    BY <1>7 DEF Begin
  <1>8. ASSUME NEW p \in Enforcers, Link(p) PROVE TypeInv'
    BY <1>8, LastHashType DEF Link
  <1>9. ASSUME NEW p \in Enforcers, Insert(p) PROVE TypeInv'
    <2>1. Receipt(p) \in Row
      BY <1>9, TimeAssumption DEF Insert, Receipt, Row
    <2> QED
      BY <1>9, <2>1 DEF Insert, Receipt
  <1>10. ASSUME NEW p \in Enforcers, Commit(p) PROVE TypeInv'
    <2>1. decisions' \in Seq(Row)
      BY <1>10, AppendFacts DEF Commit
    <2> QED
      BY <1>10, <2>1 DEF Commit
  <1>11. ASSUME NEW p \in Enforcers, Output(p) PROVE TypeInv'
    BY <1>11 DEF Output
  <1>12. ASSUME NEW c \in Commands, LockTimeout(c) PROVE TypeInv'
    BY <1>12 DEF LockTimeout, WaitsForLock
  <1>13. ASSUME NEW r \in Revokers, RevokeMandate(r) PROVE TypeInv'
    BY <1>13 DEF RevokeMandate
  <1>14. ASSUME NEW r \in Revokers, RevokeDelegation(r) PROVE TypeInv'
    BY <1>14 DEF RevokeDelegation
  <1>15. ASSUME NEW r \in Revokers, LogRevocation(r) PROVE TypeInv'
    BY <1>15 DEF LogRevocation
  <1>16. ASSUME NEW c \in Commands, Abandon(c) PROVE TypeInv'
    BY <1>16 DEF Abandon
  <1>17. CASE Tick
    BY <1>17, TimeAssumption DEF Tick
  <1>18. CASE UNCHANGED vars
    BY <1>18 DEF vars
  <1> QED
    BY <1>1, <1>2, <1>3, <1>4, <1>5, <1>6, <1>7, <1>8, <1>9, <1>10, <1>11, <1>12, <1>13, <1>14,
       <1>15, <1>16, <1>17, <1>18 DEF Next, EnforceStep, RevokeStep

\* The types hold initially.
LEMMA TypeInitially == Init => TypeInv
  BY CommandAssumption, TimeAssumption
     DEF Init, TypeInv, TypeOK, LockInv, StageInv, Recording, Commands, InTransaction,
         EnforceStages, RevokeStages

\* They hold in every reachable state.
LEMMA TypeAlways == Spec => []TypeInv
  BY TypeInitially, TypeInductive, PTL DEF Spec

\* The ledger, the processes and the lock have their types in every state.
THEOREM TypeCorrect == Spec => []TypeOK
  <1>1. TypeInv => TypeOK
    BY DEF TypeInv
  <1> QED
    BY <1>1, TypeAlways, PTL

-----------------------------------------------------------------------------
(***************************************************************************)
(* The chain of receipts.  Between reading the last hash and the commit    *)
(* the process holds the write lock, so the hash it links to is still the  *)
(* last one when its row is added.                                         *)
(***************************************************************************)

Written == {"print", "done", "failed"}

\* What a step leaves alone unless it links, inserts or commits a row.
Quiet ==
    /\ decisions' = decisions
    /\ now <= now'
    /\ \A p \in Enforcers :
          /\ pc'[p] = "insert" => pc[p] = "insert" /\ prev_hash'[p] = prev_hash[p]
          /\ pc'[p] = "commit" => pc[p] = "commit" /\ staged'[p] = staged[p]
          /\ pc[p] \in Recording \cup Ended => verdict'[p] = verdict[p]
          /\ pc[p] \in Recording \cup Ended => seen'[p] = seen[p]
          /\ pc[p] \in Written => pc'[p] \in Written
          /\ pc'[p] = "print" => pc[p] = "print"
          /\ pc'[p] = "done" /\ verdict'[p] \in RecordedVerdicts => pc[p] \in {"print", "done"}

\* Every other step is quiet.
LEMMA QuietSteps ==
    ASSUME TypeInv, [Next]_vars
    PROVE  Quiet \/ \E p \in Enforcers : Link(p) \/ Insert(p) \/ Commit(p)
  <1> USE CommandAssumption, RequestAssumption
      DEF Quiet, TypeInv, TypeOK, Commands, tables, history, Goto, Decide, Recording, Written,
          InTransaction, Ended, RecordedVerdicts
  <1>1. ASSUME NEW p \in Enforcers, Open(p) PROVE Quiet
    BY <1>1 DEF Open
  <1>2. ASSUME NEW p \in Enforcers, CheckDelegation(p) PROVE Quiet
    <2>1. PICK s \in {"done", "tool", "delegations"} :
              /\ pc' = [pc EXCEPT ![p] = s]
              /\ s = "done" => verdict'[p] = "DENY_DELEGATION"
      BY <1>2 DEF CheckDelegation
    <2>2. \A q \in Enforcers \ {p} : verdict'[q] = verdict[q]
      BY <1>2 DEF CheckDelegation
    <2> QED
      BY <1>2, <2>1, <2>2 DEF CheckDelegation
  <1>3. ASSUME NEW p \in Enforcers, CheckTool(p) PROVE Quiet
    BY <1>3 DEF CheckTool
  <1>4. ASSUME NEW p \in Enforcers, CheckRevoked(p) PROVE Quiet
    <2>1. PICK s \in {"begin", "policy"} : pc' = [pc EXCEPT ![p] = s]
      BY <1>4 DEF CheckRevoked
    <2>2. \A q \in Enforcers \ {p} : verdict'[q] = verdict[q]
      BY <1>4 DEF CheckRevoked
    <2> QED
      BY <1>4, <2>1, <2>2 DEF CheckRevoked
  <1>5. ASSUME NEW p \in Enforcers, CheckPolicy(p) PROVE Quiet
    <2>1. PICK s \in {"begin", "rate"} : pc' = [pc EXCEPT ![p] = s]
      BY <1>5 DEF CheckPolicy
    <2>2. \A q \in Enforcers \ {p} : verdict'[q] = verdict[q]
      BY <1>5 DEF CheckPolicy
    <2> QED
      BY <1>5, <2>1, <2>2 DEF CheckPolicy
  <1>6. ASSUME NEW p \in Enforcers, CheckRate(p) PROVE Quiet
    BY <1>6 DEF CheckRate
  <1>7. ASSUME NEW p \in Enforcers, Begin(p) PROVE Quiet
    BY <1>7 DEF Begin
  <1>8. ASSUME NEW p \in Enforcers, Output(p) PROVE Quiet
    BY <1>8 DEF Output
  <1>9. ASSUME NEW c \in Commands, LockTimeout(c) PROVE Quiet
    BY <1>9 DEF LockTimeout, WaitsForLock
  <1>10. ASSUME NEW r \in Revokers, RevokeStep(r) PROVE Quiet
    BY <1>9, <1>10 DEF RevokeStep, RevokeMandate, RevokeDelegation, LogRevocation
  <1>11. ASSUME NEW c \in Commands, Abandon(c) PROVE Quiet
    BY <1>11 DEF Abandon
  <1>12. CASE Tick
    BY <1>12 DEF Tick
  <1>13. CASE UNCHANGED vars
    BY <1>13 DEF vars
  <1> QED
    BY <1>1, <1>2, <1>3, <1>4, <1>5, <1>6, <1>7, <1>8, <1>9, <1>10, <1>11, <1>12, <1>13
       DEF Next, EnforceStep

ChainInv ==
    /\ ChainIntact
    /\ \A p \in Enforcers :
          /\ pc[p] = "insert" => prev_hash[p] = LastHash(decisions)
          /\ pc[p] = "commit" => staged[p].prev_hash = LastHash(decisions)

\* The chain grows by rows that point at its end.
LEMMA ChainInductive == TypeInv /\ ChainInv /\ [Next]_vars => ChainInv'
  <1> SUFFICES ASSUME TypeInv, ChainInv, [Next]_vars PROVE ChainInv'
    OBVIOUS
  <1> USE DEF TypeInv, TypeOK, tables, history, Goto, Commands
  <1>1. CASE Quiet
    BY <1>1 DEF Quiet, ChainInv, ChainIntact
  <1>2. ASSUME NEW p \in Enforcers, Link(p) PROVE ChainInv'
    <2>1. ChainIntact' /\ decisions' = decisions
      BY <1>2 DEF Link, ChainInv, ChainIntact
    <2> QED
      BY <1>2, <2>1 DEF Link, ChainInv
  <1>3. ASSUME NEW p \in Enforcers, Insert(p) PROVE ChainInv'
    <2>1. ChainIntact' /\ decisions' = decisions
      BY <1>3 DEF Insert, ChainInv, ChainIntact
    <2> QED
      BY <1>3, <2>1 DEF Insert, ChainInv, Receipt
  <1>4. ASSUME NEW p \in Enforcers, Commit(p) PROVE ChainInv'
    <2>1. /\ staged[p] \in Row
          /\ staged[p].prev_hash = LastHash(decisions)
      BY <1>4 DEF Commit, ChainInv, StageInv
    <2>2. /\ DOMAIN decisions' = 1..(Len(decisions) + 1)
          /\ decisions'[Len(decisions) + 1] = staged[p]
          /\ \A i \in DOMAIN decisions : decisions'[i] = decisions[i]
          /\ DOMAIN decisions = 1..Len(decisions) /\ Len(decisions) \in Nat
      BY <1>4, <2>1, AppendFacts DEF Commit
    <2>3. ChainIntact'
      <3>1. ASSUME NEW i \in DOMAIN decisions'
            PROVE  decisions'[i].prev_hash =
                       IF i = 1 THEN Genesis ELSE decisions'[i - 1].receipt_hash
        <4>1. CASE i \in DOMAIN decisions
          BY <2>2, <4>1 DEF ChainInv, ChainIntact
        <4>2. CASE i = Len(decisions) + 1 /\ decisions = <<>>
          <5>1. Len(decisions) = 0
            BY <4>2
          <5> QED
            BY <2>1, <2>2, <4>2, <5>1 DEF LastHash
        <4>3. CASE i = Len(decisions) + 1 /\ decisions # <<>>
          <5>1. Len(decisions) # 0
            BY <4>3
          <5> QED
            BY <2>1, <2>2, <4>3, <5>1 DEF LastHash
        <4> QED
          BY <2>2, <4>1, <4>2, <4>3
      <3> QED
        BY <3>1 DEF ChainIntact
    <2>4. \A q \in Enforcers : pc'[q] \notin {"insert", "commit"}
      BY <1>4, CommandAssumption DEF Commit, LockInv, InTransaction
    <2> QED
      BY <2>3, <2>4 DEF ChainInv
  <1> QED
    BY <1>1, <1>2, <1>3, <1>4, QuietSteps

\* verify_chain finds no fault: every receipt points at the one before it, and
\* the first at the genesis hash, in every state of any number of processes
\* that append, time out and die.
THEOREM ChainAlwaysIntact == Spec => []ChainIntact
  <1>1. Init => ChainInv
    BY DEF Init, ChainInv, ChainIntact, Commands
  <1>2. ChainInv => ChainIntact
    BY DEF ChainInv
  <1> QED
    BY <1>1, <1>2, ChainInductive, TypeAlways, PTL DEF Spec

-----------------------------------------------------------------------------
(***************************************************************************)
(* What a committed row says: who wrote it, for what, and when.            *)
(***************************************************************************)

\* The row p has inserted and not yet committed is p's own.
OwnRow(p, row) ==
    /\ row.by = p /\ row.decision = verdict[p]
    /\ row.mandate = MandateOf[p] /\ row.agent = AgentOf[MandateOf[p]]

RowsOwned ==
    \A i \in DOMAIN decisions :
        OwnRow(decisions[i].by, decisions[i]) /\ pc[decisions[i].by] \in Written
RowsDistinct ==
    \A i, j \in DOMAIN decisions : decisions[i].by = decisions[j].by => i = j
RowsStaged == \A p \in Enforcers : pc[p] = "commit" => OwnRow(p, staged[p])
RowsPrinted ==
    \A p \in Enforcers :
        pc[p] = "print" \/ (pc[p] = "done" /\ verdict[p] \in RecordedVerdicts) =>
            \E i \in DOMAIN decisions : decisions[i].by = p

RowInv == RowsOwned /\ RowsDistinct /\ RowsStaged /\ RowsPrinted

\* A process writes one row, the verdict it has decided on, and then prints.
LEMMA RowInductive == TypeInv /\ RowInv /\ [Next]_vars => RowInv'
  <1> SUFFICES ASSUME TypeInv, RowInv, [Next]_vars PROVE RowInv'
    OBVIOUS
  <1> USE DEF TypeInv, TypeOK, tables, history, Goto, Commands, Recording, Written, InTransaction,
              Ended, RowsOwned, RowsDistinct, RowsStaged, RowsPrinted
  <1>a. \A i \in DOMAIN decisions : decisions[i] \in Row
    OBVIOUS
  <1>b. \A i \in DOMAIN decisions : decisions[i].by \in Enforcers
    BY <1>a DEF Row
  <1>1. CASE Quiet
    <2>1. RowsOwned'
      <3>1. ASSUME NEW i \in DOMAIN decisions
            PROVE  /\ OwnRow(decisions[i].by, decisions[i])'
                   /\ pc'[decisions'[i].by] \in Written
        <4>1. OwnRow(decisions[i].by, decisions[i]) /\ pc[decisions[i].by] \in Written
          BY DEF RowInv
        <4>2. verdict'[decisions[i].by] = verdict[decisions[i].by] /\ decisions' = decisions
          BY <1>1, <1>b, <4>1 DEF Quiet
        <4> QED
          BY <1>1, <1>b, <4>1, <4>2 DEF Quiet, OwnRow
      <3> QED
        BY <1>1, <3>1 DEF Quiet
    <2>2. RowsStaged'
      BY <1>1 DEF Quiet, RowInv, OwnRow
    <2>3. RowsDistinct' /\ RowsPrinted'
      BY <1>1 DEF Quiet, RowInv
    <2> QED
      BY <2>1, <2>2, <2>3 DEF RowInv
  <1>2. ASSUME NEW p \in Enforcers, Link(p) PROVE RowInv'
    BY <1>2, <1>b DEF Link, RowInv, OwnRow
  <1>3. ASSUME NEW p \in Enforcers, Insert(p) PROVE RowInv'
    BY <1>3, <1>b DEF Insert, RowInv, OwnRow, Receipt
  <1>4. ASSUME NEW p \in Enforcers, Commit(p) PROVE RowInv'
    <2>1. staged[p] \in Row /\ OwnRow(p, staged[p])
      BY <1>4 DEF Commit, RowInv, StageInv
    <2>2. /\ DOMAIN decisions' = 1..(Len(decisions) + 1)
          /\ decisions'[Len(decisions) + 1] = staged[p]
          /\ \A i \in DOMAIN decisions : decisions'[i] = decisions[i]
          /\ DOMAIN decisions = 1..Len(decisions) /\ Len(decisions) \in Nat
      BY <1>4, <2>1, AppendFacts DEF Commit
    <2>a. \A i \in DOMAIN decisions' :
              i \in DOMAIN decisions \/ (i = Len(decisions) + 1 /\ decisions'[i] = staged[p])
      BY <2>2
    <2>b. DOMAIN decisions \subseteq DOMAIN decisions' /\ Len(decisions) + 1 \in DOMAIN decisions'
      BY <2>2
    <2>3. \A i \in DOMAIN decisions : decisions[i].by # p
      BY <1>4 DEF Commit, RowInv
    <2>4. pc' = [pc EXCEPT ![p] = "print"] /\ verdict' = verdict /\ pc[p] = "commit"
      BY <1>4 DEF Commit
    <2>5. RowsStaged'
      BY <1>4, CommandAssumption DEF Commit, LockInv
    <2>6. RowsOwned'
      <3>1. ASSUME NEW i \in DOMAIN decisions
            PROVE  /\ OwnRow(decisions[i].by, decisions[i])'
                   /\ pc'[decisions'[i].by] \in Written
        <4>1. decisions'[i] = decisions[i] /\ decisions[i].by \in Enforcers
          BY <1>b, <2>2
        <4>2. OwnRow(decisions[i].by, decisions[i]) /\ pc[decisions[i].by] \in Written
          BY DEF RowInv
        <4> QED
          BY <2>4, <4>1, <4>2 DEF OwnRow
      <3>2. ASSUME NEW i \in DOMAIN decisions', decisions'[i] = staged[p]
            PROVE  /\ OwnRow(decisions[i].by, decisions[i])'
                   /\ pc'[decisions'[i].by] \in Written
        BY <2>1, <2>4, <3>2 DEF OwnRow
      <3> QED
        BY <2>a, <3>1, <3>2
    <2>7. RowsDistinct'
      <3>1. staged[p].by = p
        BY <2>1 DEF OwnRow
      <3>2. \A i, j \in DOMAIN decisions : decisions'[i].by = decisions'[j].by => i = j
        BY <2>2 DEF RowInv
      <3> QED
        BY <2>2, <2>3, <2>a, <3>1, <3>2
    <2>8. RowsPrinted'
      <3>1. decisions'[Len(decisions) + 1].by = p
        BY <2>1, <2>2 DEF OwnRow
      <3>2. ASSUME NEW q \in Enforcers, q # p,
                   pc'[q] = "print" \/ (pc'[q] = "done" /\ verdict'[q] \in RecordedVerdicts)
            PROVE  \E i \in DOMAIN decisions' : decisions'[i].by = q
        <4>1. PICK i \in DOMAIN decisions : decisions[i].by = q
          BY <2>4, <3>2 DEF RowInv
        <4> QED
          BY <2>2, <2>b, <4>1
      <3> QED
        BY <2>b, <3>1, <3>2
    <2> QED
      BY <2>5, <2>6, <2>7, <2>8 DEF RowInv
  <1> QED
    BY <1>1, <1>2, <1>3, <1>4, QuietSteps

\* Rows and stages agree in every reachable state.
LEMMA RowAlways == Spec => []RowInv
  <1>1. Init => RowInv
    BY DEF Init, RowInv, RowsOwned, RowsDistinct, RowsStaged, RowsPrinted, Commands
  <1> QED
    BY <1>1, RowInductive, TypeAlways, PTL DEF Spec

\* A printed verdict of the pipeline is in the ledger, exactly once; whatever
\* happens to a process it leaves at most one row.
THEOREM PrintedAlwaysRecorded == Spec => []PrintedIsRecorded
  <1>1. TypeInv /\ RowInv => PrintedIsRecorded
    <2> SUFFICES ASSUME TypeInv, RowInv, NEW p \in Enforcers,
                        NEW rows, rows = {i \in DOMAIN decisions : decisions[i].by = p}
                 PROVE  /\ Cardinality(rows) <= 1
                        /\ pc[p] = "done" /\ verdict[p] \in RecordedVerdicts =>
                               \E i \in rows : decisions[i].decision = verdict[p]
      BY DEF PrintedIsRecorded
    <2>1. \A i, j \in rows : i = j
      BY DEF RowInv, RowsDistinct
    <2>2. rows = {} \/ \E i \in rows : rows = {i}
      BY <2>1
    <2>3. Cardinality(rows) <= 1
      <3>1. CASE rows = {}
        BY <3>1, FS_EmptySet
      <3>2. ASSUME NEW i \in rows, rows = {i} PROVE Cardinality(rows) <= 1
        <4>1. Cardinality({i}) = 1
          BY FS_Singleton
        <4> QED
          BY <3>2, <4>1
      <3> QED
        BY <2>2, <3>1, <3>2
    <2> QED
      BY <2>3 DEF RowInv, RowsOwned, RowsPrinted, OwnRow
  <1> QED
    BY <1>1, TypeAlways, RowAlways, PTL

\* The clock of Ledger only rises, and whoever holds the lock stamps its row with it: what
\* Record of DecisionLog asks of a row's timestamp.
TimestampsFollowChain ==
    \A i, j \in DOMAIN decisions :
        i < j => decisions[i].timestamp <= decisions[j].timestamp
TimeInv ==
    /\ TimestampsFollowChain
    /\ \A i \in DOMAIN decisions : decisions[i].timestamp <= now
    /\ \A p \in Enforcers : pc[p] = "commit" =>
          /\ staged[p].timestamp <= now
          /\ \A i \in DOMAIN decisions : decisions[i].timestamp <= staged[p].timestamp

\* Rows are stamped inside the transaction, so in the order of the chain.
LEMMA TimeInductive == TypeInv /\ TimeInv /\ [Next]_vars => TimeInv'
  <1> SUFFICES ASSUME TypeInv, TimeInv, [Next]_vars PROVE TimeInv'
    OBVIOUS
  <1> USE DEF TypeInv, TypeOK, tables, history, Goto, Commands, InTransaction
  <1>c. \A i \in DOMAIN decisions : decisions[i] \in Row
    OBVIOUS
  <1>d. now' \in 0..MaxTime
    BY TypeInductive
  <1>a. /\ \A i \in DOMAIN decisions : decisions[i].timestamp \in Nat
        /\ now \in Nat /\ now' \in Nat
    BY <1>c, <1>d, TimeAssumption DEF Row
  <1>b. \A p \in Enforcers : pc[p] = "commit" => staged[p].timestamp \in Nat
    BY DEF StageInv, Row
  <1>1. CASE Quiet
    BY <1>1, <1>a, <1>b DEF Quiet, TimeInv, TimestampsFollowChain
  <1>2. ASSUME NEW p \in Enforcers, Link(p) PROVE TimeInv'
    BY <1>2 DEF Link, TimeInv, TimestampsFollowChain
  <1>3. ASSUME NEW p \in Enforcers, Insert(p) PROVE TimeInv'
    <2>1. staged'[p].timestamp = now
      BY <1>3 DEF Insert, Receipt
    <2>2. \A q \in Enforcers : q # p => pc'[q] = pc[q] /\ staged'[q] = staged[q]
      BY <1>3 DEF Insert
    <2> QED
      BY <1>3, <1>a, <2>1, <2>2 DEF Insert, TimeInv, TimestampsFollowChain
  <1>4. ASSUME NEW p \in Enforcers, Commit(p) PROVE TimeInv'
    <2>1. staged[p] \in Row /\ now' = now
      BY <1>4 DEF Commit, StageInv
    <2>2. /\ DOMAIN decisions' = 1..(Len(decisions) + 1)
          /\ decisions'[Len(decisions) + 1] = staged[p]
          /\ \A i \in DOMAIN decisions : decisions'[i] = decisions[i]
          /\ DOMAIN decisions = 1..Len(decisions) /\ Len(decisions) \in Nat
      BY <1>4, <2>1, AppendFacts DEF Commit
    <2>3. /\ staged[p].timestamp <= now
          /\ \A i \in DOMAIN decisions : decisions[i].timestamp <= staged[p].timestamp
      BY <1>4 DEF Commit, TimeInv
    <2>4. \A q \in Enforcers : pc'[q] # "commit"
      BY <1>4, CommandAssumption DEF Commit, LockInv
    <2>5. TimestampsFollowChain'
      <3> SUFFICES ASSUME NEW i \in DOMAIN decisions', NEW j \in DOMAIN decisions', i < j
                   PROVE  decisions'[i].timestamp <= decisions'[j].timestamp
        BY DEF TimestampsFollowChain
      <3>1. i \in DOMAIN decisions
        BY <2>2
      <3>2. CASE j \in DOMAIN decisions
        BY <2>2, <3>1, <3>2 DEF TimeInv, TimestampsFollowChain
      <3>3. CASE j = Len(decisions) + 1
        BY <2>2, <2>3, <3>1, <3>3
      <3> QED
        BY <2>2, <3>2, <3>3
    <2>6. \A i \in DOMAIN decisions' : decisions'[i].timestamp <= now'
      <3>1. ASSUME NEW i \in DOMAIN decisions' PROVE decisions'[i].timestamp <= now
        <4>1. i \in DOMAIN decisions \/ i = Len(decisions) + 1
          BY <2>2
        <4> QED
          BY <2>2, <2>3, <4>1 DEF TimeInv
      <3> QED
        BY <2>1, <3>1
    <2> QED
      BY <2>4, <2>5, <2>6 DEF TimeInv
  <1> QED
    BY <1>1, <1>2, <1>3, <1>4, QuietSteps

-----------------------------------------------------------------------------
(***************************************************************************)
(* Revocations committed before the ledger was opened.                     *)
(***************************************************************************)

Cleared == {"tool", "revocation", "policy", "rate"} \cup Recording
Denials == {"DENY_POLICY", "DENY_REVOKED", "DENY_DELEGATION"}

OpenedEarlier == \A p \in Enforcers : revokedAtOpen[p] \subseteq revocations
ChainCleared ==
    \A p \in Enforcers : \A k \in DOMAIN ChainOf[p] :
        ChainOf[p][k] \in revokedAtOpen[p] =>
            /\ pc[p] = "delegations" => next[p] <= k
            /\ pc[p] \notin Cleared
            /\ pc[p] = "done" => verdict[p] = "DENY_DELEGATION"
MandateCleared ==
    \A p \in Enforcers :
        MandateOf[p] \in revokedAtOpen[p] =>
            /\ pc[p] \notin {"policy", "rate"}
            /\ pc[p] \in Recording \cup {"done"} => verdict[p] \in Denials

RevokeInv == OpenedEarlier /\ ChainCleared /\ MandateCleared

\* Steps that neither open the ledger nor decide.
Undecided ==
    /\ UNCHANGED <<next, verdict, revokedAtOpen>>
    /\ revocations \subseteq revocations'
    /\ \A p \in Enforcers :
          \/ pc'[p] = pc[p]
          \/ pc'[p] = "failed"
          \/ pc[p] \in Recording /\ pc'[p] \in Recording \cup {"done"}

\* Steps that neither open the ledger nor decide keep the invariant.
LEMMA UndecidedKeeps == ASSUME TypeInv, RevokeInv, Undecided PROVE RevokeInv'
  <1> USE DEF RevokeInv, Undecided, Cleared, Recording, InTransaction
  <1>1. OpenedEarlier'
    BY DEF OpenedEarlier
  <1>2. ChainCleared'
    BY DEF ChainCleared
  <1>3. MandateCleared'
    BY DEF MandateCleared
  <1> QED
    BY <1>1, <1>2, <1>3

\* A revocation found at opening is met by the look-ups that follow.
LEMMA RevokeInductive == TypeInv /\ RevokeInv /\ [Next]_vars => RevokeInv'
  <1> SUFFICES ASSUME TypeInv, RevokeInv, [Next]_vars PROVE RevokeInv'
    OBVIOUS
  <1> USE CommandAssumption, RequestAssumption
      DEF TypeInv, TypeOK, tables, history, Goto, Decide, Commands, Recording, InTransaction, Ended
  <1>1. ASSUME NEW p \in Enforcers, Open(p) PROVE RevokeInv'
    <2>1. /\ pc[p] = "start" /\ next[p] = 1 /\ next' = next /\ revocations' = revocations
          /\ revokedAtOpen' = [revokedAtOpen EXCEPT ![p] = revocations] /\ verdict' = verdict
      BY <1>1 DEF Open, StageInv
    <2>2. pc' = [pc EXCEPT ![p] = IF ChainOf[p] = <<>> THEN "tool" ELSE "delegations"]
      BY <1>1 DEF Open
    <2>3. OpenedEarlier'
      BY <2>1 DEF RevokeInv, OpenedEarlier
    <2>4. ChainCleared'
      <3> SUFFICES ASSUME NEW q \in Enforcers, NEW k \in DOMAIN ChainOf[q],
                          (ChainOf[q][k] \in revokedAtOpen[q])'
                   PROVE  (/\ pc[q] = "delegations" => next[q] <= k
                           /\ pc[q] \notin Cleared
                           /\ pc[q] = "done" => verdict[q] = "DENY_DELEGATION")'
        BY DEF ChainCleared
      <3>1. CASE q = p
        <4>1. k \in Nat /\ 1 <= k /\ ChainOf[p] # <<>>
          BY <3>1, ChainOf[p] \in Seq(Delegations)
        <4> QED
          BY <2>1, <2>2, <3>1, <4>1 DEF Cleared
      <3>2. CASE q # p
        BY <2>1, <2>2, <3>2 DEF RevokeInv, ChainCleared
      <3> QED
        BY <3>1, <3>2
    <2>5. MandateCleared'
      <3>1. pc'[p] \in {"tool", "delegations"}
        BY <2>2
      <3> QED
        BY <2>1, <2>2, <3>1 DEF RevokeInv, MandateCleared
    <2> QED
      BY <2>3, <2>4, <2>5 DEF RevokeInv
  <1>2. ASSUME NEW p \in Enforcers, CheckDelegation(p) PROVE RevokeInv'
    <2>1. OpenedEarlier'
      BY <1>2 DEF CheckDelegation, RevokeInv, OpenedEarlier
    <2>2. /\ pc[p] = "delegations" /\ revokedAtOpen' = revokedAtOpen
          /\ next[p] \in DOMAIN ChainOf[p] /\ next[p] \in Nat /\ Len(ChainOf[p]) \in Nat
          /\ DOMAIN ChainOf[p] = 1..Len(ChainOf[p])
      BY <1>2, ChainOf[p] \in Seq(Delegations) DEF CheckDelegation, StageInv
    <2>3. CASE ChainOf[p][next[p]] \in revocations
      <3>1. /\ pc' = [pc EXCEPT ![p] = "done"]
            /\ verdict' = [verdict EXCEPT ![p] = "DENY_DELEGATION"] /\ next' = next
        BY <1>2, <2>3 DEF CheckDelegation
      <3>2. ChainCleared'
        BY <2>2, <3>1 DEF RevokeInv, ChainCleared, Cleared
      <3>3. MandateCleared'
        BY <2>2, <3>1 DEF RevokeInv, MandateCleared, Denials
      <3> QED
        BY <2>1, <3>2, <3>3 DEF RevokeInv
    <2>4. CASE ChainOf[p][next[p]] \notin revocations
      <3>1. /\ pc' = [pc EXCEPT ![p] = IF next[p] = Len(ChainOf[p]) THEN "tool" ELSE "delegations"]
            /\ verdict' = verdict
        BY <1>2, <2>4 DEF CheckDelegation
      <3>2. next'[p] = next[p] + 1 /\ \A q \in Enforcers \ {p} : next'[q] = next[q]
        BY <1>2, <2>4 DEF CheckDelegation
      <3>3. ChainOf[p][next[p]] \notin revokedAtOpen[p]
        BY <2>4 DEF RevokeInv, OpenedEarlier
      <3>4. ASSUME NEW k \in DOMAIN ChainOf[p], ChainOf[p][k] \in revokedAtOpen[p]
            PROVE  next[p] < k /\ next[p] # Len(ChainOf[p])
        <4>1. next[p] <= k /\ next[p] # k
          BY <2>2, <3>3, <3>4 DEF RevokeInv, ChainCleared
        <4> QED
          BY <2>2, <4>1
      <3>5. ChainCleared'
        <4> SUFFICES ASSUME NEW q \in Enforcers, NEW k \in DOMAIN ChainOf[q],
                            ChainOf[q][k] \in revokedAtOpen[q]
                     PROVE  (/\ pc[q] = "delegations" => next[q] <= k
                             /\ pc[q] \notin Cleared
                             /\ pc[q] = "done" => verdict[q] = "DENY_DELEGATION")'
          BY <2>2 DEF ChainCleared
        <4>1. CASE q = p
          <5>1. pc'[p] = "delegations" /\ next'[p] <= k
            BY <2>2, <3>1, <3>2, <3>4, <4>1
          <5> QED
            BY <4>1, <5>1 DEF Cleared
        <4>2. CASE q # p
          BY <3>1, <3>2, <4>2 DEF RevokeInv, ChainCleared
        <4> QED
          BY <4>1, <4>2
      <3>6. MandateCleared'
        <4>1. pc'[p] \in {"tool", "delegations"}
          BY <3>1
        <4> QED
          BY <2>2, <3>1, <4>1 DEF RevokeInv, MandateCleared
      <3> QED
        BY <2>1, <3>5, <3>6 DEF RevokeInv
    <2> QED
      BY <2>3, <2>4
  <1>3. ASSUME NEW p \in Enforcers, CheckTool(p) \/ CheckRevoked(p) \/ CheckPolicy(p) \/ CheckRate(p)
        PROVE  RevokeInv'
    <2>1. PICK s \in {"begin", "revocation", "policy", "rate"} : pc' = [pc EXCEPT ![p] = s]
      BY <1>3 DEF CheckTool, CheckRevoked, CheckPolicy, CheckRate
    <2>2. /\ pc[p] \in {"tool", "revocation", "policy", "rate"}
          /\ next' = next /\ revokedAtOpen' = revokedAtOpen /\ revocations' = revocations
          /\ \A q \in Enforcers \ {p} : verdict'[q] = verdict[q]
      BY <1>3 DEF CheckTool, CheckRevoked, CheckPolicy, CheckRate
    <2>3. OpenedEarlier'
      BY <2>2 DEF RevokeInv, OpenedEarlier
    <2>4. ChainCleared'
      BY <2>1, <2>2 DEF RevokeInv, ChainCleared, Cleared
    <2>5. MandateOf[p] \in revokedAtOpen[p] =>
              s \in {"begin", "revocation"} /\ (s = "begin" => verdict'[p] \in Denials)
      <3>1. CASE CheckTool(p)
        BY <2>1, <3>1 DEF CheckTool, Denials
      <3>2. CASE CheckRevoked(p)
        <4>1. MandateOf[p] \in revokedAtOpen[p] => MandateOf[p] \in revocations
          BY DEF RevokeInv, OpenedEarlier
        <4>2. MandateOf[p] \in revocations => s = "begin" /\ verdict'[p] = "DENY_REVOKED"
          BY <2>1, <3>2 DEF CheckRevoked
        <4> QED
          BY <4>1, <4>2 DEF Denials
      <3>3. CASE CheckPolicy(p) \/ CheckRate(p)
        BY <3>3 DEF CheckPolicy, CheckRate, RevokeInv, MandateCleared
      <3> QED
        BY <1>3, <3>1, <3>2, <3>3
    <2>6. MandateCleared'
      BY <2>1, <2>2, <2>5 DEF RevokeInv, MandateCleared
    <2> QED
      BY <2>3, <2>4, <2>6 DEF RevokeInv
  <1>4. ASSUME NEW p \in Enforcers, Begin(p) \/ Link(p) \/ Insert(p) \/ Commit(p) \/ Output(p)
        PROVE  Undecided
    BY <1>4 DEF Begin, Link, Insert, Commit, Output, Undecided
  <1>5. ASSUME NEW c \in Commands, LockTimeout(c) \/ Abandon(c) PROVE Undecided
    BY <1>5 DEF LockTimeout, WaitsForLock, Abandon, Undecided
  <1>6. ASSUME NEW r \in Revokers, RevokeStep(r) PROVE Undecided
    BY <1>5, <1>6 DEF RevokeStep, RevokeMandate, RevokeDelegation, LogRevocation, Undecided
  <1>7. Tick => Undecided
    BY DEF Tick, Undecided
  <1>8. UNCHANGED vars => Undecided
    BY DEF vars, Undecided
  <1> QED
    BY <1>1, <1>2, <1>3, <1>4, <1>5, <1>6, <1>7, <1>8, UndecidedKeeps DEF Next, EnforceStep

\* A revocation is honoured by every command that opened the ledger after it
\* was committed, at whatever place of the chain.
THEOREM RevocationIsHonoured == Spec => []EarlierRevocationDenies
  <1>1. Init => RevokeInv
    BY DEF Init, RevokeInv, OpenedEarlier, ChainCleared, MandateCleared
  <1>2. RevokeInv => EarlierRevocationDenies
    BY DEF RevokeInv, ChainCleared, MandateCleared, EarlierRevocationDenies, Cleared, Denials,
           Recording, InTransaction
  <1> QED
    BY <1>1, <1>2, RevokeInductive, TypeAlways, PTL DEF Spec

-----------------------------------------------------------------------------
(***************************************************************************)
(* The rate limit.  The rows in the window when the call was counted are   *)
(* below the limit; the window only slides forward, so whatever else is in *)
(* it at the commit was committed in between.                              *)
(***************************************************************************)

\* The rows of a window are finitely many.
LEMMA RecentFinite ==
    ASSUME NEW rows \in Seq(Row), NEW a, NEW t \in Nat
    PROVE  IsFiniteSet(Recent(rows, a, t)) /\ Cardinality(Recent(rows, a, t)) \in Nat
  <1>1. DOMAIN rows = 1..Len(rows) /\ Len(rows) \in Nat
    OBVIOUS
  <1>2. IsFiniteSet(1..Len(rows))
    BY <1>1, FS_Interval
  <1>3. Recent(rows, a, t) \in SUBSET (1..Len(rows))
    BY <1>1 DEF Recent
  <1>4. IsFiniteSet(Recent(rows, a, t))
    BY <1>2, <1>3, FS_Subset
  <1> QED
    BY <1>4, FS_CardinalityType

\* A later window holds fewer of the same rows.
LEMMA RecentShrinks ==
    ASSUME NEW rows \in Seq(Row), NEW a, NEW t \in Nat, NEW u \in Nat, t <= u
    PROVE  Cardinality(Recent(rows, a, u)) <= Cardinality(Recent(rows, a, t))
  <1>1. ASSUME NEW i \in Recent(rows, a, u) PROVE i \in Recent(rows, a, t)
    <2>1. rows[i] \in Row
      BY <1>1 DEF Recent
    <2>2. rows[i].timestamp \in Nat
      BY <2>1 DEF Row
    <2> QED
      BY <1>1, <2>2, TimeAssumption DEF Recent
  <1>2. Recent(rows, a, u) \in SUBSET Recent(rows, a, t)
    BY <1>1
  <1> QED
    BY <1>2, RecentFinite, FS_Subset

\* One more row is at most one more in the window.
LEMMA RecentGrowsByOne ==
    ASSUME NEW rows \in Seq(Row), NEW row \in Row, NEW a, NEW t \in Nat
    PROVE  Cardinality(Recent(Append(rows, row), a, t)) <= Cardinality(Recent(rows, a, t)) + 1
  <1> DEFINE old == Recent(rows, a, t)
             new == Recent(Append(rows, row), a, t)
             last == Len(rows) + 1
  <1>1. IsFiniteSet(old) /\ Cardinality(old) \in Nat
    BY RecentFinite
  <1>2. /\ IsFiniteSet(old \cup {last})
        /\ Cardinality(old \cup {last}) <= Cardinality(old) + 1
        /\ Cardinality(old \cup {last}) \in Nat
    <2>1. /\ IsFiniteSet(old \cup {last})
          /\ Cardinality(old \cup {last}) =
                 IF last \in old THEN Cardinality(old) ELSE Cardinality(old) + 1
      BY <1>1, FS_AddElement, Zenon
    <2> QED
      BY <1>1, <2>1
  <1>3. new \in SUBSET (old \cup {last})
    BY AppendFacts DEF Recent
  <1>4. Append(rows, row) \in Seq(Row)
    BY AppendFacts
  <1>5. Cardinality(new) \in Nat
    BY <1>4, RecentFinite
  <1>6. Cardinality(new) <= Cardinality(old \cup {last})
    BY <1>2, <1>3, FS_Subset
  <1> QED
    BY <1>1, <1>2, <1>5, <1>6

\* The rows of p's agent in the window at t, against the limit and the rows
\* committed since p counted.
Overrun(p, t) ==
    Cardinality(Recent(decisions, AgentOf[MandateOf[p]], t))
        < MaxCalls[MandateOf[p]] + (Len(decisions) - seen[p])

RateInv ==
    /\ \A p \in Enforcers :
          /\ seen[p] \in 0..Len(decisions)
          /\ pc[p] \in {"begin", "link", "insert"} /\ verdict[p] = "ALLOW" => Overrun(p, now)
          /\ pc[p] = "commit" /\ verdict[p] = "ALLOW" => Overrun(p, staged[p].timestamp)
    /\ OverrunIsOverlap

\* Steps that do not count.
Uncounted ==
    \A p \in Enforcers :
        /\ seen'[p] = seen[p]
        /\ pc'[p] \in {"begin", "link"} /\ verdict'[p] = "ALLOW" =>
               pc[p] \in {"begin", "link"} /\ verdict[p] = "ALLOW"

\* Only CheckRate counts; every other step leaves the counts alone or adds a row.
LEMMA CountSteps ==
    ASSUME TypeInv, [Next]_vars
    PROVE  Uncounted \/ \E p \in Enforcers : CheckRate(p)
  <1> USE CommandAssumption, RequestAssumption
      DEF Uncounted, TypeInv, TypeOK, Commands, tables, history, Goto, Decide
  <1>1. ASSUME NEW p \in Enforcers, Open(p) \/ CheckTool(p) PROVE Uncounted
    BY <1>1 DEF Open, CheckTool
  <1>2. ASSUME NEW p \in Enforcers, CheckDelegation(p) PROVE Uncounted
    <2>1. PICK s \in {"done", "tool", "delegations"} : pc' = [pc EXCEPT ![p] = s]
      BY <1>2 DEF CheckDelegation
    <2>2. seen' = seen /\ \A q \in Enforcers \ {p} : verdict'[q] = verdict[q]
      BY <1>2 DEF CheckDelegation
    <2> QED
      BY <2>1, <2>2
  <1>3. ASSUME NEW p \in Enforcers, CheckRevoked(p) \/ CheckPolicy(p) PROVE Uncounted
    <2>1. PICK s \in {"begin", "policy", "rate"} :
              /\ pc' = [pc EXCEPT ![p] = s]
              /\ s = "begin" => verdict'[p] # "ALLOW"
      BY <1>3 DEF CheckRevoked, CheckPolicy
    <2>2. seen' = seen /\ \A q \in Enforcers \ {p} : verdict'[q] = verdict[q]
      BY <1>3 DEF CheckRevoked, CheckPolicy
    <2> QED
      BY <2>1, <2>2
  <1>4. ASSUME NEW p \in Enforcers, Begin(p) \/ Link(p) \/ Insert(p) \/ Commit(p) \/ Output(p)
        PROVE  Uncounted
    BY <1>4 DEF Begin, Link, Insert, Commit, Output
  <1>5. ASSUME NEW c \in Commands, LockTimeout(c) \/ Abandon(c) PROVE Uncounted
    BY <1>5 DEF LockTimeout, Abandon
  <1>6. ASSUME NEW r \in Revokers, RevokeStep(r) PROVE Uncounted
    BY <1>5, <1>6 DEF RevokeStep, RevokeMandate, RevokeDelegation, LogRevocation
  <1>7. Tick => Uncounted
    BY DEF Tick
  <1>8. UNCHANGED vars => Uncounted
    BY DEF vars
  <1> QED
    BY <1>1, <1>2, <1>3, <1>4, <1>5, <1>6, <1>7, <1>8 DEF Next, EnforceStep

\* Rows are added one at a time, and so are rows of the window.
LEMMA RateInductive == TypeInv /\ RowInv /\ RateInv /\ [Next]_vars => RateInv'
  <1> SUFFICES ASSUME TypeInv, RowInv, RateInv, [Next]_vars PROVE RateInv'
    OBVIOUS
  <1> USE DEF TypeInv, TypeOK, tables, history, Goto, Decide, Commands
  <1>a. /\ \A i \in DOMAIN decisions : decisions[i] \in Row
        /\ decisions \in Seq(Row) /\ Len(decisions) \in Nat /\ DOMAIN decisions = 1..Len(decisions)
        /\ now \in Nat /\ now' \in 0..MaxTime
    BY TypeInductive, TimeAssumption
  <1>b. \A i \in DOMAIN decisions : decisions[i].by \in Enforcers /\ decisions[i].timestamp \in Nat
    BY <1>a DEF Row
  <1>c. \A p \in Enforcers : MaxCalls[MandateOf[p]] \in Nat /\ seen[p] \in Nat
    BY RequestAssumption
  <1>d. now' \in Nat
    BY <1>a, TimeAssumption
  <1>1. CASE Quiet /\ Uncounted
    <2>1. OverrunIsOverlap'
      BY <1>1, <1>b DEF Quiet, Uncounted, RateInv, OverrunIsOverlap, Recent
    <2>2. ASSUME NEW p \in Enforcers,
                 pc'[p] \in {"begin", "link", "insert"}, verdict'[p] = "ALLOW"
          PROVE  Overrun(p, now)'
      <3>1. pc[p] \in {"begin", "link", "insert"} /\ verdict[p] = "ALLOW"
        BY <1>1, <2>2 DEF Quiet, Uncounted, Recording, InTransaction
      <3>2. Overrun(p, now) /\ decisions' = decisions /\ seen'[p] = seen[p] /\ now <= now'
        BY <1>1, <3>1 DEF Quiet, Uncounted, RateInv
      <3> DEFINE a == AgentOf[MandateOf[p]]
      <3>3. Cardinality(Recent(decisions, a, now')) <= Cardinality(Recent(decisions, a, now))
        BY <1>a, <1>d, <3>2, RecentShrinks
      <3>4. /\ Cardinality(Recent(decisions, a, now')) \in Nat
            /\ Cardinality(Recent(decisions, a, now)) \in Nat
        BY <1>a, <1>d, RecentFinite
      <3>5. Cardinality(Recent(decisions, a, now'))
                < MaxCalls[MandateOf[p]] + (Len(decisions) - seen[p])
        BY <1>a, <1>c, <3>2, <3>3, <3>4 DEF Overrun
      <3> QED
        BY <3>2, <3>5 DEF Overrun, Recent
    <2>3. ASSUME NEW p \in Enforcers, pc'[p] = "commit", verdict'[p] = "ALLOW"
          PROVE  Overrun(p, staged[p].timestamp)'
      BY <1>1, <2>3 DEF Quiet, Uncounted, RateInv, Overrun, Recent, Recording, InTransaction
    <2>4. \A p \in Enforcers : seen'[p] \in 0..Len(decisions')
      BY <1>1 DEF Quiet, Uncounted, RateInv
    <2> QED
      BY <2>1, <2>2, <2>3, <2>4 DEF RateInv
  <1>2. ASSUME NEW p \in Enforcers, CheckRate(p) PROVE RateInv'
    <2> DEFINE m == MandateOf[p]
               n == Cardinality(Recent(decisions, AgentOf[m], now))
    <2>1. /\ decisions' = decisions /\ now' = now /\ staged' = staged /\ pc[p] = "rate"
          /\ pc' = [pc EXCEPT ![p] = "begin"] /\ seen' = [seen EXCEPT ![p] = Len(decisions)]
      BY <1>2 DEF CheckRate
    <2>2. verdict' = [verdict EXCEPT ![p] = IF n >= MaxCalls[m] THEN "DENY_RATE" ELSE "ALLOW"]
      BY <1>2 DEF CheckRate
    <2>3. n \in Nat
      BY <1>a, RecentFinite
    <2>4. verdict'[p] = "ALLOW" => Overrun(p, now)'
      BY <1>a, <1>c, <2>1, <2>2, <2>3 DEF Overrun, Recent
    <2>5. \A i \in DOMAIN decisions : decisions[i].by # p
      BY <2>1 DEF RowInv, RowsOwned, Written
    <2>6. OverrunIsOverlap'
      BY <1>b, <2>1, <2>5 DEF RateInv, OverrunIsOverlap, Recent
    <2>7. ASSUME NEW q \in Enforcers, q # p
          PROVE  /\ pc'[q] = pc[q] /\ seen'[q] = seen[q] /\ verdict'[q] = verdict[q]
                 /\ Overrun(q, now)' <=> Overrun(q, now)
                 /\ Overrun(q, staged[q].timestamp)' <=> Overrun(q, staged[q].timestamp)
      BY <2>1, <2>2, <2>7 DEF Overrun, Recent
    <2>8. \A q \in Enforcers : seen'[q] \in 0..Len(decisions')
      BY <1>a, <2>1 DEF RateInv
    <2>9. pc'[p] = "begin"
      BY <2>1
    <2> QED
      BY <2>4, <2>6, <2>7, <2>8, <2>9 DEF RateInv
  <1>3. ASSUME NEW p \in Enforcers, Link(p) PROVE RateInv'
    <2>1. /\ UNCHANGED <<decisions, now, seen, verdict, staged>>
          /\ pc[p] = "link" /\ pc' = [pc EXCEPT ![p] = "insert"]
      BY <1>3 DEF Link
    <2> QED
      BY <2>1 DEF RateInv, OverrunIsOverlap, Overrun, Recent
  <1>4. ASSUME NEW p \in Enforcers, Insert(p) PROVE RateInv'
    <2>1. /\ UNCHANGED <<decisions, now, seen, verdict>>
          /\ pc[p] = "insert" /\ pc' = [pc EXCEPT ![p] = "commit"]
          /\ staged'[p].timestamp = now
          /\ \A q \in Enforcers : q # p => staged'[q] = staged[q]
      BY <1>4 DEF Insert, Receipt
    <2> QED
      BY <2>1 DEF RateInv, OverrunIsOverlap, Overrun, Recent
  <1>5. ASSUME NEW p \in Enforcers, Commit(p) PROVE RateInv'
    <2>1. /\ UNCHANGED <<now, seen, verdict>>
          /\ pc[p] = "commit" /\ pc' = [pc EXCEPT ![p] = "print"]
          /\ decisions' = Append(decisions, staged[p]) /\ staged[p] \in Row
      BY <1>5 DEF Commit, StageInv
    <2>2. /\ DOMAIN decisions' = 1..(Len(decisions) + 1) /\ Len(decisions') = Len(decisions) + 1
          /\ decisions'[Len(decisions) + 1] = staged[p]
          /\ \A i \in DOMAIN decisions : decisions'[i] = decisions[i]
      BY <1>a, <2>1, AppendFacts
    <2>3. staged[p].timestamp \in Nat
      BY <2>1 DEF Row
    <2>4. \A q \in Enforcers : pc'[q] # "commit"
      BY <1>5, CommandAssumption DEF Commit, LockInv, InTransaction
    <2>5. ASSUME NEW q \in Enforcers,
                 pc'[q] \in {"begin", "link", "insert"}, verdict'[q] = "ALLOW"
          PROVE  Overrun(q, now)'
      <3> DEFINE a == AgentOf[MandateOf[q]]
                 old == Cardinality(Recent(decisions, a, now))
                 new == Cardinality(Recent(decisions', a, now))
      <3>1. old < MaxCalls[MandateOf[q]] + (Len(decisions) - seen[q])
        BY <2>1, <2>5 DEF RateInv, Overrun
      <3>2. new <= old + 1
        BY <1>a, <2>1, RecentGrowsByOne
      <3>3. old \in Nat /\ new \in Nat
        BY <1>a, <2>1, AppendFacts, RecentFinite
      <3>4. new < MaxCalls[MandateOf[q]] + (Len(decisions') - seen[q])
        <4> HIDE DEF old, new
        <4>1. MaxCalls[MandateOf[q]] \in Nat /\ seen[q] \in Nat
          BY <1>c
        <4>2. Len(decisions) \in Nat /\ Len(decisions') = Len(decisions) + 1
          BY <1>a, <2>2
        <4> QED
          BY <3>1, <3>2, <3>3, <4>1, <4>2
      <3> QED
        BY <2>1, <3>4 DEF Overrun, Recent
    <2>6. OverrunIsOverlap'
      <3> SUFFICES ASSUME NEW i \in DOMAIN decisions', decisions'[i].decision = "ALLOW"
                   PROVE  Cardinality({j \in Recent(decisions', decisions'[i].agent,
                                                    decisions'[i].timestamp) : j < i})
                              < MaxCalls[decisions'[i].mandate]
                                    + (i - 1 - seen'[decisions'[i].by])
        BY DEF OverrunIsOverlap, Recent
      <3>1. {j \in Recent(decisions', decisions'[i].agent, decisions'[i].timestamp) : j < i} =
            {j \in Recent(decisions, decisions'[i].agent, decisions'[i].timestamp) : j < i}
        BY <1>a, <2>2 DEF Recent
      <3>2. CASE i \in DOMAIN decisions
        BY <2>1, <2>2, <3>1, <3>2 DEF RateInv, OverrunIsOverlap
      <3>3. CASE i = Len(decisions) + 1
        <4>1. OwnRow(p, staged[p]) /\ decisions'[i] = staged[p]
          BY <2>1, <2>2, <3>3 DEF RowInv, RowsStaged
        <4>2. Overrun(p, staged[p].timestamp)
          BY <2>1, <2>2, <3>3, <4>1 DEF RateInv, OwnRow
        <4>3. {j \in Recent(decisions, staged[p].agent, staged[p].timestamp) : j < i} =
              Recent(decisions, staged[p].agent, staged[p].timestamp)
          BY <1>a, <3>3 DEF Recent
        <4>4. i - 1 = Len(decisions)
          BY <1>a, <3>3
        <4> QED
          BY <2>1, <3>1, <4>1, <4>2, <4>3, <4>4 DEF Overrun, OwnRow
      <3> QED
        BY <1>a, <2>2, <3>2, <3>3
    <2>7. \A q \in Enforcers : seen'[q] \in 0..Len(decisions')
      BY <1>a, <2>1, <2>2 DEF RateInv
    <2> QED
      BY <2>4, <2>5, <2>6, <2>7 DEF RateInv
  <1> QED
    BY <1>1, <1>2, <1>3, <1>4, <1>5, QuietSteps, CountSteps

\* Every allowed call is within its limit but for the rows that were committed
\* between its count and its own row.
THEOREM RateOverrunBounded == Spec => []OverrunIsOverlap
  <1>1. Init => RateInv
    BY DEF Init, RateInv, OverrunIsOverlap, Commands
  <1>2. RateInv => OverrunIsOverlap
    BY DEF RateInv
  <1> QED
    BY <1>1, <1>2, RateInductive, TypeAlways, RowAlways, PTL DEF Spec

-----------------------------------------------------------------------------
(***************************************************************************)
(* The ledger implements its promise, DecisionLog: each command is a few   *)
(* atomic steps, whatever its statements interleave with.                  *)
(***************************************************************************)
LogVars == <<decisions, revocations, Life, revokedAtOpen, seen, Answers>>

\* The calls that p counted, as far as they lie in the window at t.
CallsOf(p, t) ==
    {i \in 1..seen[p] : decisions[i].agent = AgentOf[MandateOf[p]]
                            /\ decisions[i].timestamp > t - RateWindow}
WithinLimit(p, t) == Cardinality(CallsOf(p, t)) < MaxCalls[MandateOf[p]]

SeenRows == \A p \in Enforcers : seen[p] \in 0..Len(decisions)
LimitKept ==
    \A p \in Enforcers : verdict[p] = "ALLOW" =>
        /\ pc[p] \in {"begin", "link", "insert"} => WithinLimit(p, now)
        /\ pc[p] = "commit" => WithinLimit(p, staged[p].timestamp)
DenialHasCause ==
    \A p \in Enforcers :
        pc[p] \in Recording /\ verdict[p] = "DENY_REVOKED" => MandateOf[p] \in revocations
StagedWhole ==
    \A p \in Enforcers : pc[p] = "commit" =>
        /\ staged[p].timestamp \in 0..MaxTime
        /\ staged[p] = [by |-> p, agent |-> AgentOf[MandateOf[p]], mandate |-> MandateOf[p],
                        decision |-> verdict[p], timestamp |-> staged[p].timestamp,
                        prev_hash |-> staged[p].prev_hash, receipt_hash |-> p]

LogInv == SeenRows /\ LimitKept /\ DenialHasCause /\ StagedWhole

\* The calls that were counted are finitely many.
LEMMA CallsFinite ==
    ASSUME TypeOK, SeenRows, NEW p \in Enforcers, NEW t
    PROVE  IsFiniteSet(CallsOf(p, t)) /\ Cardinality(CallsOf(p, t)) \in Nat
  <1>1. seen[p] \in Nat
    BY DEF TypeOK
  <1>2. CallsOf(p, t) \in SUBSET (1..seen[p])
    BY DEF CallsOf
  <1>3. IsFiniteSet(1..seen[p])
    BY <1>1, FS_Interval
  <1> QED
    BY <1>2, <1>3, FS_Subset, FS_CardinalityType

\* What p has counted stays within its limit while the clock moves on.
LEMMA LimitStays ==
    ASSUME TypeOK, SeenRows, NEW p \in Enforcers, NEW t \in Nat, NEW u \in Nat, t <= u,
           WithinLimit(p, t)
    PROVE  WithinLimit(p, u)
  <1>1. seen[p] \in 0..Len(decisions) /\ decisions \in Seq(Row)
    BY DEF TypeOK, SeenRows
  <1>2. \A i \in 1..seen[p] : decisions[i].timestamp \in Nat
    <2>1. \A i \in 1..seen[p] : decisions[i] \in Row
      BY <1>1
    <2> QED
      BY <2>1 DEF Row
  <1>3. CallsOf(p, u) \in SUBSET CallsOf(p, t)
    BY <1>2, TimeAssumption DEF CallsOf
  <1>4. /\ IsFiniteSet(CallsOf(p, t)) /\ Cardinality(CallsOf(p, t)) \in Nat
        /\ Cardinality(CallsOf(p, u)) \in Nat
    BY CallsFinite
  <1>5. Cardinality(CallsOf(p, u)) <= Cardinality(CallsOf(p, t))
    BY <1>3, <1>4, FS_Subset
  <1>6. MaxCalls[MandateOf[p]] \in Nat
    BY RequestAssumption
  <1> QED
    BY <1>4, <1>5, <1>6 DEF WithinLimit

\* Steps that leave the rows, the counts and the verdicts of recording commands alone.
Settled ==
    /\ Quiet
    /\ revocations \subseteq revocations' /\ now' \in Nat
    /\ \A p \in Enforcers :
          /\ seen'[p] = seen[p]
          /\ pc'[p] \in Recording => pc[p] \in Recording
          /\ pc'[p] \in {"begin", "link"} => pc[p] \in {"begin", "link"}

\* They keep the invariant.
LEMMA SettledKeeps == ASSUME TypeInv, TypeInv', LogInv, Settled PROVE LogInv'
  <1> USE DEF TypeInv, LogInv, Settled, Quiet, Recording, InTransaction, Ended
  <1>a. now \in Nat /\ now' \in Nat /\ now <= now'
    BY TimeAssumption DEF TypeOK
  <1>1. SeenRows'
    BY DEF SeenRows
  <1>2. DenialHasCause'
    BY DEF DenialHasCause
  <1>3. StagedWhole'
    BY DEF StagedWhole
  <1>4. LimitKept'
    <2> SUFFICES ASSUME NEW p \in Enforcers, verdict'[p] = "ALLOW"
                 PROVE  /\ pc'[p] \in {"begin", "link", "insert"} => WithinLimit(p, now)'
                        /\ pc'[p] = "commit" => WithinLimit(p, staged[p].timestamp)'
      BY DEF LimitKept
    <2>1. ASSUME pc'[p] \in {"begin", "link", "insert"} PROVE WithinLimit(p, now)'
      <3>1. pc[p] \in {"begin", "link", "insert"} /\ verdict[p] = "ALLOW"
        BY <2>1
      <3>2. WithinLimit(p, now)
        BY <3>1 DEF LimitKept
      <3>3. WithinLimit(p, now')
        BY <1>a, <3>2, LimitStays
      <3> QED
        BY <3>3 DEF WithinLimit, CallsOf
    <2>2. ASSUME pc'[p] = "commit" PROVE WithinLimit(p, staged[p].timestamp)'
      BY <2>2 DEF LimitKept, WithinLimit, CallsOf
    <2> QED
      BY <2>1, <2>2
  <1> QED
    BY <1>1, <1>2, <1>3, <1>4

\* Steps that take a command towards its verdict without counting calls.
Judging(p) ==
    /\ UNCHANGED <<decisions, revocations, now, staged, seen>>
    /\ pc[p] \notin Recording /\ pc'[p] \notin InTransaction
    /\ pc'[p] \in Recording => verdict'[p] # "ALLOW"
    /\ pc'[p] \in Recording /\ verdict'[p] = "DENY_REVOKED" => MandateOf[p] \in revocations
    /\ \A q \in Enforcers \ {p} : pc'[q] = pc[q] /\ verdict'[q] = verdict[q]

\* They keep the invariant.
LEMMA JudgingKeeps == ASSUME LogInv, NEW p \in Enforcers, Judging(p) PROVE LogInv'
  <1> USE DEF LogInv, Judging, Recording, InTransaction
  <1>1. SeenRows'
    BY DEF SeenRows
  <1>2. DenialHasCause'
    BY DEF DenialHasCause
  <1>3. StagedWhole'
    BY DEF StagedWhole
  <1>4. \A q \in Enforcers :
            /\ WithinLimit(q, now)' <=> WithinLimit(q, now)
            /\ WithinLimit(q, staged[q].timestamp)' <=> WithinLimit(q, staged[q].timestamp)
    BY DEF WithinLimit, CallsOf
  <1>5. LimitKept'
    BY <1>4 DEF LimitKept
  <1> QED
    BY <1>1, <1>2, <1>3, <1>5

\* Every step settles, judges, counts, links, inserts or commits.
LEMMA StepKinds ==
    ASSUME TypeInv, [Next]_vars
    PROVE  \/ Settled
           \/ \E p \in Enforcers : Judging(p)
           \/ \E p \in Enforcers : CheckRate(p) \/ Link(p) \/ Insert(p) \/ Commit(p)
  <1>a. TypeInv'
    BY TypeInductive
  <1>b. now' \in Nat
    BY <1>a, TimeAssumption DEF TypeInv, TypeOK
  <1> USE CommandAssumption, RequestAssumption
      DEF TypeInv, TypeOK, Commands, tables, history, Goto, Decide, Recording, InTransaction
  <1>1. ASSUME NEW p \in Enforcers, CheckTool(p) \/ CheckPolicy(p) PROVE Judging(p)
    <2>1. PICK s \in {"begin", "revocation", "rate"} :
              /\ pc' = [pc EXCEPT ![p] = s]
              /\ s = "begin" => verdict'[p] \in {"DENY_POLICY", "EXPIRED", "PENDING_APPROVAL"}
      BY <1>1 DEF CheckTool, CheckPolicy
    <2>2. /\ \A q \in Enforcers \ {p} : verdict'[q] = verdict[q]
          /\ UNCHANGED <<decisions, revocations, now, staged, seen>>
          /\ pc[p] \in {"tool", "policy"}
      BY <1>1 DEF CheckTool, CheckPolicy
    <2> QED
      BY <2>1, <2>2 DEF Judging
  <1>2. ASSUME NEW p \in Enforcers, CheckRevoked(p) PROVE Judging(p)
    <2>1. PICK s \in {"begin", "policy"} :
              /\ pc' = [pc EXCEPT ![p] = s]
              /\ s = "begin" => verdict'[p] = "DENY_REVOKED" /\ MandateOf[p] \in revocations
      BY <1>2 DEF CheckRevoked
    <2>2. /\ \A q \in Enforcers \ {p} : verdict'[q] = verdict[q]
          /\ UNCHANGED <<decisions, revocations, now, staged, seen>>
          /\ pc[p] = "revocation"
      BY <1>2 DEF CheckRevoked
    <2> QED
      BY <2>1, <2>2 DEF Judging
  <1> DEFINE Settles ==
        /\ revocations \subseteq revocations'
        /\ \A p \in Enforcers :
              /\ seen'[p] = seen[p]
              /\ pc'[p] \in Recording => pc[p] \in Recording
              /\ pc'[p] \in {"begin", "link"} => pc[p] \in {"begin", "link"}
  <1>3. ASSUME NEW p \in Enforcers, Open(p) PROVE Settles
    BY <1>3 DEF Open
  <1>4. ASSUME NEW p \in Enforcers, CheckDelegation(p) PROVE Settles
    <2>1. PICK s \in {"done", "tool", "delegations"} : pc' = [pc EXCEPT ![p] = s]
      BY <1>4 DEF CheckDelegation
    <2>2. UNCHANGED <<seen, revocations>>
      BY <1>4 DEF CheckDelegation
    <2> QED
      BY <2>1, <2>2
  <1>5. ASSUME NEW p \in Enforcers, Begin(p) \/ Output(p) PROVE Settles
    BY <1>5 DEF Begin, Output
  <1>6. ASSUME NEW c \in Commands, LockTimeout(c) \/ Abandon(c) PROVE Settles
    BY <1>6 DEF LockTimeout, Abandon
  <1>7. ASSUME NEW r \in Revokers, RevokeStep(r) PROVE Settles
    BY <1>6, <1>7 DEF RevokeStep, RevokeMandate, RevokeDelegation, LogRevocation
  <1>8. Tick \/ UNCHANGED vars => Settles
    BY DEF Tick, vars
  <1>9. Settles => Settled \/ \E p \in Enforcers : Link(p) \/ Insert(p) \/ Commit(p)
    BY <1>b, QuietSteps DEF Settled
  <1> QED
    BY <1>1, <1>2, <1>3, <1>4, <1>5, <1>6, <1>7, <1>8, <1>9 DEF Next, EnforceStep

\* A counted call is within its limit until its row is there, and a row is whole.
LEMMA LogInductive == TypeInv /\ LogInv /\ [Next]_vars => LogInv'
  <1> SUFFICES ASSUME TypeInv, LogInv, [Next]_vars PROVE LogInv'
    OBVIOUS
  <1>a. TypeInv'
    BY TypeInductive
  <1>b. /\ decisions \in Seq(Row) /\ Len(decisions) \in Nat
        /\ DOMAIN decisions = 1..Len(decisions)
        /\ \A p \in Enforcers : seen[p] \in 0..Len(decisions)
    BY DEF TypeInv, TypeOK, LogInv, SeenRows
  <1> USE DEF TypeInv, TypeOK, tables, history, Goto, Decide, Commands
  <1>1. CASE Settled
    BY <1>1, <1>a, SettledKeeps
  <1>2. ASSUME NEW p \in Enforcers, Judging(p) PROVE LogInv'
    BY <1>2, JudgingKeeps
  <1>3. ASSUME NEW p \in Enforcers, CheckRate(p) PROVE LogInv'
    <2> DEFINE m == MandateOf[p]
               n == Cardinality(Recent(decisions, AgentOf[m], now))
    <2>1. /\ UNCHANGED <<decisions, revocations, now, staged>>
          /\ pc' = [pc EXCEPT ![p] = "begin"] /\ seen' = [seen EXCEPT ![p] = Len(decisions)]
      BY <1>3 DEF CheckRate
    <2>2. verdict' = [verdict EXCEPT ![p] = IF n >= MaxCalls[m] THEN "DENY_RATE" ELSE "ALLOW"]
      BY <1>3 DEF CheckRate
    <2>3. CallsOf(p, now)' = Recent(decisions, AgentOf[m], now)
      BY <1>b, <2>1 DEF CallsOf, Recent
    <2>4. n \in Nat /\ MaxCalls[m] \in Nat
      BY <1>b, RecentFinite, RequestAssumption, TimeAssumption
    <2>5. verdict'[p] = "ALLOW" => WithinLimit(p, now)'
      <3> HIDE DEF n
      <3>1. verdict'[p] = "ALLOW" => ~(n >= MaxCalls[m])
        BY <2>2
      <3>2. verdict'[p] = "ALLOW" => n < MaxCalls[m]
        BY <2>4, <3>1
      <3> QED
        BY <2>3, <3>2 DEF WithinLimit, n
    <2>6. ASSUME NEW q \in Enforcers, q # p
          PROVE  /\ pc'[q] = pc[q] /\ seen'[q] = seen[q] /\ verdict'[q] = verdict[q]
                 /\ WithinLimit(q, now)' <=> WithinLimit(q, now)
                 /\ WithinLimit(q, staged[q].timestamp)' <=> WithinLimit(q, staged[q].timestamp)
      BY <2>1, <2>2, <2>6 DEF WithinLimit, CallsOf
    <2>7. pc'[p] = "begin" /\ verdict'[p] \in {"ALLOW", "DENY_RATE"}
      BY <2>1, <2>2
    <2>8. SeenRows'
      BY <1>b, <2>1 DEF SeenRows
    <2>9. DenialHasCause'
      BY <2>1, <2>6, <2>7 DEF LogInv, DenialHasCause
    <2>10. StagedWhole'
      BY <2>1, <2>6, <2>7 DEF LogInv, StagedWhole
    <2>11. LimitKept'
      BY <2>5, <2>6, <2>7 DEF LogInv, LimitKept
    <2> QED
      BY <2>8, <2>9, <2>10, <2>11 DEF LogInv
  <1>4. ASSUME NEW p \in Enforcers, Link(p) PROVE LogInv'
    <2>1. /\ UNCHANGED <<decisions, revocations, now, staged, seen, verdict>>
          /\ pc[p] = "link" /\ pc' = [pc EXCEPT ![p] = "insert"]
      BY <1>4 DEF Link
    <2> QED
      BY <2>1 DEF LogInv, SeenRows, LimitKept, DenialHasCause, StagedWhole, WithinLimit, CallsOf,
                  Recording, InTransaction
  <1>5. ASSUME NEW p \in Enforcers, Insert(p) PROVE LogInv'
    <2>1. /\ UNCHANGED <<decisions, revocations, now, seen, verdict>>
          /\ pc[p] = "insert" /\ pc' = [pc EXCEPT ![p] = "commit"]
          /\ staged' = [staged EXCEPT ![p] = Receipt(p)]
      BY <1>5 DEF Insert
    <2>2. staged'[p] = Receipt(p) /\ \A q \in Enforcers \ {p} : staged'[q] = staged[q]
      BY <2>1
    <2>3. Receipt(p).timestamp = now /\ Receipt(p).prev_hash = prev_hash[p]
      BY DEF Receipt
    <2>4. SeenRows' /\ DenialHasCause'
      BY <2>1 DEF LogInv, SeenRows, DenialHasCause, Recording, InTransaction
    <2>5. StagedWhole'
      BY <2>1, <2>2, <2>3 DEF LogInv, StagedWhole, Receipt
    <2>6. LimitKept'
      BY <2>1, <2>2, <2>3 DEF LogInv, LimitKept, WithinLimit, CallsOf
    <2> QED
      BY <2>4, <2>5, <2>6 DEF LogInv
  <1>6. ASSUME NEW p \in Enforcers, Commit(p) PROVE LogInv'
    <2>1. /\ UNCHANGED <<now, seen, verdict, revocations>>
          /\ pc[p] = "commit" /\ pc' = [pc EXCEPT ![p] = "print"]
          /\ decisions' = Append(decisions, staged[p]) /\ staged[p] \in Row
      BY <1>6 DEF Commit, StageInv
    <2>2. /\ Len(decisions') = Len(decisions) + 1
          /\ \A i \in DOMAIN decisions : decisions'[i] = decisions[i]
      BY <1>b, <2>1, AppendFacts
    <2>3. \A q \in Enforcers : pc'[q] # "commit"
      BY <1>6, CommandAssumption DEF Commit, LockInv, InTransaction
    <2>4. SeenRows'
      BY <1>b, <2>1, <2>2 DEF SeenRows
    <2>5. DenialHasCause' /\ StagedWhole'
      BY <2>1, <2>3 DEF LogInv, DenialHasCause, StagedWhole, Recording, InTransaction
    <2>6. \A q \in Enforcers : CallsOf(q, now)' = CallsOf(q, now)
      <3> TAKE q \in Enforcers
      <3>1. \A i \in 1..seen[q] : decisions'[i] = decisions[i]
        BY <1>b, <2>2
      <3> QED
        BY <2>1, <3>1 DEF CallsOf
    <2>7. LimitKept'
      BY <2>1, <2>3, <2>6 DEF LogInv, LimitKept, WithinLimit
    <2> QED
      BY <2>4, <2>5, <2>7 DEF LogInv
  <1> QED
    BY <1>1, <1>2, <1>3, <1>4, <1>5, <1>6, StepKinds

-----------------------------------------------------------------------------
\* Nothing changes that a command's user sees.
LEMMA Stays ==
    ASSUME UNCHANGED <<decisions, revocations, revokedAtOpen, seen>>,
           \A p \in Enforcers : LifeOf(p)' = LifeOf(p) /\ AnswerOf(p)' = AnswerOf(p)
    PROVE  UNCHANGED LogVars
  BY DEF LogVars, Life, Answers

\* One command ends with the answer a.
LEMMA Ends ==
    ASSUME NEW p \in Enforcers, NEW a, LifeOf(p) # "ended", LifeOf(p)' = "ended",
           AnswerOf(p)' = a,
           UNCHANGED <<decisions, revocations, revokedAtOpen, seen>>,
           \A q \in Enforcers \ {p} : LifeOf(q)' = LifeOf(q) /\ AnswerOf(q)' = AnswerOf(q)
    PROVE  Log!End(p, a)
  BY DEF Log!End, Life, Answers

\* A command that moves between two stages of the same life changes nothing.
LEMMA WithinLife ==
    ASSUME TypeInv, NEW p \in Enforcers, NEW s, pc' = [pc EXCEPT ![p] = s],
           pc[p] \notin Ended \cup {"start"}, s \notin Ended \cup {"start"},
           LifeOf(p)' = LifeOf(p), \A q \in Enforcers \ {p} : verdict'[q] = verdict[q],
           UNCHANGED <<decisions, revocations, revokedAtOpen, seen>>
    PROVE  UNCHANGED LogVars
  <1>1. \A q \in Enforcers \ {p} : pc'[q] = pc[q]
    BY DEF TypeInv, TypeOK, Commands
  <1>2. pc'[p] = s
    BY DEF TypeInv, TypeOK, Commands
  <1>3. \A q \in Enforcers : LifeOf(q)' = LifeOf(q) /\ AnswerOf(q)' = AnswerOf(q)
    BY <1>1, <1>2 DEF LifeOf, AnswerOf, Ended
  <1> QED
    BY <1>3, Stays

LogStep == [Log!Next]_LogVars

\* A committed row is the record of a decision that was open to its command.
LEMMA CommitRecords ==
    ASSUME TypeInv, ChainInv, RowInv, TimeInv, RevokeInv, LogInv, NEW p \in Enforcers, Commit(p)
    PROVE  LogStep
  <1> DEFINE v == verdict[p]
             t == staged[p].timestamp
  <1>1. /\ pc[p] = "commit" /\ pc' = [pc EXCEPT ![p] = "print"]
        /\ decisions' = Append(decisions, staged[p])
        /\ UNCHANGED <<revocations, now, verdict, seen, revokedAtOpen>>
    BY DEF Commit, Goto, history
  <1>2. /\ t \in 0..MaxTime
        /\ staged[p] = [by |-> p, agent |-> AgentOf[MandateOf[p]], mandate |-> MandateOf[p],
                        decision |-> v, timestamp |-> t,
                        prev_hash |-> staged[p].prev_hash, receipt_hash |-> p]
        /\ staged[p].prev_hash = LastHash(decisions)
    BY <1>1 DEF LogInv, StagedWhole, ChainInv
  <1>3. v \in RecordedVerdicts
    BY <1>1 DEF TypeInv, StageInv, Recording, InTransaction
  <1>4. LifeOf(p) = (IF v \in {"ALLOW", "DENY_RATE"} THEN "counted" ELSE "open")
    BY <1>1 DEF LifeOf, Ended, InTransaction
  <1>5. \A q \in Enforcers : LifeOf(q)' = LifeOf(q) /\ AnswerOf(q)' = AnswerOf(q)
    BY <1>1 DEF LifeOf, AnswerOf, Ended, InTransaction, TypeInv, TypeOK, Commands
  <1>6. UNCHANGED <<Life, Answers>>
    BY <1>5 DEF Life, Answers
  <1>7. ~Log!Recorded(p)
    BY <1>1 DEF Log!Recorded, RowInv, RowsOwned, Written
  <1>8. Log!MayDecide(p, v, t)
    <2>1. v \in IF Life[p] = "counted" THEN Log!Counted ELSE Log!Uncounted
      BY <1>3, <1>4 DEF Life, Log!Counted, Log!Uncounted, RecordedVerdicts
    <2>2. v = "ALLOW" => Log!Cardinality(Log!Calls(p, t)) < MaxCalls[MandateOf[p]]
      <3>1. v = "ALLOW" => Cardinality(CallsOf(p, t)) < MaxCalls[MandateOf[p]]
        BY <1>1 DEF LogInv, LimitKept, WithinLimit
      <3>2. Log!Calls(p, t) = CallsOf(p, t)
        BY DEF Log!Calls, CallsOf
      <3>3. Log!Cardinality(CallsOf(p, t)) = Cardinality(CallsOf(p, t))
        BY Zenon DEF Log!Cardinality, Cardinality
      <3> QED
        BY <3>1, <3>2, <3>3
    <2>3. v = "DENY_REVOKED" => MandateOf[p] \in revocations
      BY <1>1 DEF LogInv, DenialHasCause, Recording, InTransaction
    <2>4. MandateOf[p] \in revokedAtOpen[p] => v \in {"DENY_POLICY", "DENY_REVOKED"}
      BY <1>1, <1>3 DEF RevokeInv, MandateCleared, Recording, InTransaction, Denials,
                        RecordedVerdicts
    <2>5. ~Log!ChainMeets(p, revokedAtOpen[p])
      BY <1>1 DEF Log!ChainMeets, RevokeInv, ChainCleared, Cleared, Recording, InTransaction
    <2> HIDE DEF v, t
    <2> QED
      BY <2>1, <2>2, <2>3, <2>4, <2>5 DEF Log!MayDecide
  <1>9. \A i \in DOMAIN decisions : decisions[i].timestamp <= t
    BY <1>1 DEF TimeInv
  <1>10. Log!Record(p, v, t)
    <2>1. Life[p] \in {"open", "counted"}
      BY <1>4 DEF Life
    <2> HIDE DEF v, t
    <2> QED
      BY <1>1, <1>2, <1>6, <1>7, <1>8, <1>9, <2>1 DEF Log!Record, LastHash
  <1> QED
    BY <1>2, <1>3, <1>10 DEF LogStep, Log!Next, Log!Counted, Log!Uncounted, RecordedVerdicts

\* Every step of the ledger is a step of the log or changes nothing of it.
LEMMA StepRefines ==
    ASSUME TypeInv, ChainInv, RowInv, TimeInv, RevokeInv, LogInv, [Next]_vars
    PROVE  LogStep
  <1>t. pc \in [Commands -> EnforceStages \cup RevokeStages] /\ Enforcers \subseteq Commands
           /\ verdict \in [Enforcers -> Verdicts \cup {NoVerdict}]
    BY DEF TypeInv, TypeOK, Commands
  <1>s. ASSUME UNCHANGED LogVars PROVE LogStep
    BY <1>s DEF LogStep
  <1> USE DEF tables, history, Goto, Decide
  <1>1. ASSUME NEW p \in Enforcers, Open(p) PROVE LogStep
    <2>1. PICK s \in {"tool", "delegations"} : pc' = [pc EXCEPT ![p] = s]
      BY <1>1 DEF Open
    <2>2. /\ pc[p] = "start" /\ revokedAtOpen' = [revokedAtOpen EXCEPT ![p] = revocations]
          /\ UNCHANGED <<decisions, revocations, verdict, seen>>
      BY <1>1 DEF Open
    <2>3. LifeOf(p) = "new" /\ LifeOf(p)' = "open" /\ AnswerOf(p)' = AnswerOf(p)
      BY <1>t, <2>1, <2>2 DEF LifeOf, AnswerOf, Ended, InTransaction
    <2>4. \A q \in Enforcers \ {p} : LifeOf(q)' = LifeOf(q) /\ AnswerOf(q)' = AnswerOf(q)
      BY <1>t, <2>1, <2>2 DEF LifeOf, AnswerOf
    <2>5. Log!Open(p)
      BY <2>2, <2>3, <2>4 DEF Log!Open, Life, Answers
    <2> QED
      BY <2>5 DEF LogStep, Log!Next
  <1>2. ASSUME NEW p \in Enforcers, CheckDelegation(p) PROVE LogStep
    <2>1. /\ pc[p] = "delegations" /\ next[p] \in DOMAIN ChainOf[p]
          /\ UNCHANGED <<decisions, revocations, revokedAtOpen, seen>>
      BY <1>2 DEF CheckDelegation, TypeInv, StageInv
    <2>2. LifeOf(p) = "open"
      BY <2>1 DEF LifeOf, Ended, InTransaction
    <2>3. CASE ChainOf[p][next[p]] \in revocations
      <3>1. /\ pc' = [pc EXCEPT ![p] = "done"]
            /\ verdict' = [verdict EXCEPT ![p] = "DENY_DELEGATION"]
        BY <1>2, <2>3 DEF CheckDelegation
      <3>2. LifeOf(p)' = "ended" /\ AnswerOf(p)' = "DENY_DELEGATION"
        BY <1>t, <3>1 DEF LifeOf, AnswerOf, Ended
      <3>3. \A q \in Enforcers \ {p} : LifeOf(q)' = LifeOf(q) /\ AnswerOf(q)' = AnswerOf(q)
        BY <1>t, <3>1 DEF LifeOf, AnswerOf
      <3>4. Log!End(p, "DENY_DELEGATION")
        BY <2>1, <2>2, <3>2, <3>3, Ends
      <3>5. ~Log!Recorded(p)
        BY <2>1 DEF Log!Recorded, RowInv, RowsOwned, Written
      <3>6. Log!ChainMeets(p, revocations)
        BY <2>1, <2>3 DEF Log!ChainMeets
      <3>7. Life[p] = "open"
        BY <2>2 DEF Life
      <3>8. Log!Refuse(p)
        BY <3>4, <3>5, <3>6, <3>7 DEF Log!Refuse
      <3> QED
        BY <3>8 DEF LogStep, Log!Next
    <2>4. CASE ChainOf[p][next[p]] \notin revocations
      <3>1. PICK s \in {"tool", "delegations"} : pc' = [pc EXCEPT ![p] = s]
        BY <1>2, <2>4 DEF CheckDelegation
      <3>2. verdict' = verdict
        BY <1>2, <2>4 DEF CheckDelegation
      <3>3. LifeOf(p)' = LifeOf(p)
        BY <1>t, <2>2, <3>1 DEF LifeOf, Ended, InTransaction
      <3>4. UNCHANGED LogVars
        BY <2>1, <3>1, <3>2, <3>3, WithinLife DEF Ended
      <3> QED
        BY <1>s, <3>4
    <2> QED
      BY <2>3, <2>4
  <1>3. ASSUME NEW p \in Enforcers, CheckTool(p) \/ CheckRevoked(p) \/ CheckPolicy(p)
        PROVE  LogStep
    <2>1. PICK s \in {"begin", "revocation", "policy", "rate"} :
              /\ pc' = [pc EXCEPT ![p] = s]
              /\ s = "begin" => verdict'[p] \notin {"ALLOW", "DENY_RATE"}
      BY <1>3, <1>t DEF CheckTool, CheckRevoked, CheckPolicy
    <2>2. /\ pc[p] \in {"tool", "revocation", "policy"}
          /\ UNCHANGED <<decisions, revocations, revokedAtOpen, seen>>
          /\ \A q \in Enforcers \ {p} : verdict'[q] = verdict[q]
      BY <1>3, <1>t DEF CheckTool, CheckRevoked, CheckPolicy
    <2>3. LifeOf(p) = "open" /\ LifeOf(p)' = "open"
      BY <1>t, <2>1, <2>2 DEF LifeOf, Ended, InTransaction
    <2>4. UNCHANGED LogVars
      BY <2>1, <2>2, <2>3, WithinLife DEF Ended
    <2> QED
      BY <1>s, <2>4
  <1>4. ASSUME NEW p \in Enforcers, CheckRate(p) PROVE LogStep
    <2>1. /\ pc[p] = "rate" /\ pc' = [pc EXCEPT ![p] = "begin"]
          /\ UNCHANGED <<decisions, revocations, revokedAtOpen>>
          /\ seen' = [seen EXCEPT ![p] = Len(decisions)]
      BY <1>4 DEF CheckRate
    <2>2. /\ verdict'[p] \in {"ALLOW", "DENY_RATE"}
          /\ \A q \in Enforcers \ {p} : verdict'[q] = verdict[q]
      BY <1>4, <1>t DEF CheckRate
    <2>3. LifeOf(p) = "open" /\ LifeOf(p)' = "counted" /\ AnswerOf(p)' = AnswerOf(p)
      BY <1>t, <2>1, <2>2 DEF LifeOf, AnswerOf, Ended, InTransaction
    <2>4. \A q \in Enforcers \ {p} : LifeOf(q)' = LifeOf(q) /\ AnswerOf(q)' = AnswerOf(q)
      BY <1>t, <2>1, <2>2 DEF LifeOf, AnswerOf
    <2>5. Log!Count(p)
      BY <2>1, <2>3, <2>4 DEF Log!Count, Life, Answers
    <2> QED
      BY <2>5 DEF LogStep, Log!Next
  <1>5. ASSUME NEW p \in Enforcers, Begin(p) \/ Link(p) \/ Insert(p) PROVE LogStep
    <2>1. PICK s \in InTransaction : pc' = [pc EXCEPT ![p] = s]
      BY <1>5 DEF Begin, Link, Insert, InTransaction
    <2>2. /\ pc[p] \in {"begin", "link", "insert"} /\ verdict' = verdict
          /\ UNCHANGED <<decisions, revocations, revokedAtOpen, seen>>
      BY <1>5 DEF Begin, Link, Insert
    <2>3. LifeOf(p)' = LifeOf(p)
      BY <1>t, <2>1, <2>2 DEF LifeOf, Ended, InTransaction
    <2>4. UNCHANGED LogVars
      BY <2>1, <2>2, <2>3, WithinLife DEF Ended, InTransaction
    <2> QED
      BY <1>s, <2>4
  <1>6. ASSUME NEW p \in Enforcers, Commit(p) PROVE LogStep
    BY <1>6, CommitRecords
  <1>7. ASSUME NEW p \in Enforcers, Output(p) PROVE LogStep
    <2>1. /\ pc[p] = "print" /\ pc' = [pc EXCEPT ![p] = "done"] /\ verdict' = verdict
          /\ UNCHANGED <<decisions, revocations, revokedAtOpen, seen>>
      BY <1>7 DEF Output
    <2>2. PICK i \in DOMAIN decisions : decisions[i].by = p
      BY <2>1 DEF RowInv, RowsPrinted
    <2>3. decisions[i].decision = verdict[p]
      BY <2>2 DEF RowInv, RowsOwned, OwnRow
    <2>4. LifeOf(p) # "ended" /\ LifeOf(p)' = "ended" /\ AnswerOf(p)' = decisions[i].decision
      BY <1>t, <2>1, <2>3 DEF LifeOf, AnswerOf, Ended
    <2>5. \A q \in Enforcers \ {p} : LifeOf(q)' = LifeOf(q) /\ AnswerOf(q)' = AnswerOf(q)
      BY <1>t, <2>1 DEF LifeOf, AnswerOf
    <2>6. Log!End(p, decisions[i].decision)
      BY <2>1, <2>4, <2>5, Ends
    <2>7. Log!Answer(p)
      BY <2>2, <2>6 DEF Log!Answer
    <2> QED
      BY <2>7 DEF LogStep, Log!Next
  <1>8. ASSUME NEW c \in Commands, LockTimeout(c) \/ Abandon(c) PROVE LogStep
    <2>1. /\ pc[c] \notin Ended /\ pc' = [pc EXCEPT ![c] = "failed"] /\ verdict' = verdict
          /\ UNCHANGED <<decisions, revocations, revokedAtOpen, seen>>
      BY <1>8 DEF LockTimeout, WaitsForLock, Abandon, Ended
    <2>2. \A q \in Enforcers \ {c} : LifeOf(q)' = LifeOf(q) /\ AnswerOf(q)' = AnswerOf(q)
      BY <1>t, <2>1 DEF LifeOf, AnswerOf
    <2>3. CASE c \in Enforcers
      <3>1. LifeOf(c) # "ended" /\ LifeOf(c)' = "ended" /\ AnswerOf(c)' = NoVerdict
        BY <1>t, <2>1, <2>3 DEF LifeOf, AnswerOf, Ended, InTransaction
      <3>2. Log!GiveUp(c)
        BY <2>1, <2>2, <2>3, <3>1, Ends DEF Log!GiveUp
      <3> QED
        BY <2>3, <3>2 DEF LogStep, Log!Next
    <2>4. CASE c \notin Enforcers
      BY <1>s, <2>1, <2>2, <2>4, Stays
    <2> QED
      BY <2>3, <2>4
  <1>9. ASSUME NEW r \in Revokers, RevokeMandate(r) \/ RevokeDelegation(r) \/ LogRevocation(r)
        PROVE  LogStep
    <2>1. PICK s : pc' = [pc EXCEPT ![r] = s]
      BY <1>9 DEF RevokeMandate, RevokeDelegation, LogRevocation
    <2>2. UNCHANGED <<decisions, verdict, revokedAtOpen, seen>>
      BY <1>9 DEF RevokeMandate, RevokeDelegation, LogRevocation
    <2>3. \A q \in Enforcers : LifeOf(q)' = LifeOf(q) /\ AnswerOf(q)' = AnswerOf(q)
      BY <1>t, <2>1, <2>2, CommandAssumption DEF LifeOf, AnswerOf
    <2>4. CASE revocations' = revocations
      BY <1>s, <2>2, <2>3, <2>4, Stays
    <2>5. CASE revocations' = revocations \cup {Target[r]}
      <3>1. Log!Revoke(Target[r])
        BY <2>2, <2>3, <2>5 DEF Log!Revoke, Life, Answers
      <3>2. Target[r] \in Mandates \cup Delegations
        BY RequestAssumption
      <3> QED
        BY <3>1, <3>2 DEF LogStep, Log!Next
    <2> QED
      BY <1>9, <2>4, <2>5 DEF RevokeMandate, RevokeDelegation, LogRevocation
  <1>10. CASE Tick \/ UNCHANGED vars
    <2>1. UNCHANGED <<pc, verdict, decisions, revocations, revokedAtOpen, seen>>
      BY <1>10 DEF Tick, vars
    <2> QED
      BY <1>s, <2>1 DEF LogVars, Life, Answers, LifeOf, AnswerOf
  <1> QED
    BY <1>1, <1>2, <1>3, <1>4, <1>5, <1>6, <1>7, <1>8, <1>9, <1>10
       DEF Next, EnforceStep, RevokeStep, Commands

\* The ledger keeps its promise (DecisionLog) for any number of commands that
\* interleave statement by statement, wait for the lock, time out and die: each
\* row is one decision made on what was known and counted before, at the end of
\* an unbroken chain, and what is printed is that row.
THEOREM LedgerImplementsLog == Spec => ImplementsLog
  <1>1. Init => Log!Init
    BY DEF Init, Log!Init, Life, LifeOf, Answers, AnswerOf, Commands, Ended, NoVerdict
  <1>2. Init => ChainInv /\ TimeInv /\ RevokeInv
    BY DEF Init, ChainInv, ChainIntact, TimeInv, TimestampsFollowChain, RevokeInv,
           OpenedEarlier, ChainCleared, MandateCleared, Commands
  <1>3. Init => LogInv
    BY DEF Init, LogInv, SeenRows, LimitKept, DenialHasCause, StagedWhole, NoVerdict, Recording,
           InTransaction, Commands
  <1>4. TypeInv /\ ChainInv /\ RowInv /\ TimeInv /\ RevokeInv /\ LogInv /\ [Next]_vars
            => [Log!Next]_LogVars
    BY StepRefines DEF LogStep
  <1> QED
    BY <1>1, <1>2, <1>3, <1>4, ChainInductive, TimeInductive, RevokeInductive, LogInductive,
       RowAlways, TypeAlways, PTL DEF Spec, ImplementsLog, Log!Spec, LogVars

-----------------------------------------------------------------------------
(***************************************************************************)
(* No command goes on for ever: a measure that each of its own steps makes *)
(* smaller and nobody else changes.  (That a command is scheduled until it *)
(* ends is fairness and stays with the run of EveryCommandEnds.)           *)
(***************************************************************************)

Stage ==
    [tool |-> 9, revocation |-> 8, policy |-> 7, rate |-> 6, begin |-> 5, link |-> 4,
     insert |-> 3, commit |-> 2, print |-> 1, log |-> 1, done |-> 0, failed |-> 0]

\* How many more steps c can take: one for each delegation, nine from the first check on.
StepsLeft(c) ==
    IF pc[c] = "start" THEN IF c \in Enforcers THEN Len(ChainOf[c]) + 10 ELSE 2
    ELSE IF pc[c] = "delegations" THEN Len(ChainOf[c]) - next[c] + 10
    ELSE Stage[pc[c]]

OwnStep(c) ==
    \/ c \in Enforcers /\ EnforceStep(c)
    \/ c \in Revokers /\ RevokeStep(c)
    \/ Abandon(c)

\* The measure is a number, and zero when the command has ended.
LEMMA StepsLeftType ==
    ASSUME TypeInv, NEW c \in Commands
    PROVE  StepsLeft(c) \in Nat /\ (StepsLeft(c) = 0 <=> pc[c] \in Ended)
  <1>1. CASE c \in Enforcers
    <2>1. /\ pc[c] \in EnforceStages /\ Len(ChainOf[c]) \in Nat
          /\ pc[c] = "delegations" => next[c] \in 1..Len(ChainOf[c])
      BY <1>1, RequestAssumption DEF TypeInv, TypeOK, StageInv
    <2>2. CASE pc[c] = "start"
      <3>1. StepsLeft(c) = Len(ChainOf[c]) + 10
        BY <1>1, <2>2 DEF StepsLeft
      <3> QED
        BY <2>1, <2>2, <3>1 DEF Ended
    <2>3. CASE pc[c] = "delegations"
      <3>1. StepsLeft(c) = Len(ChainOf[c]) - next[c] + 10
        BY <2>3 DEF StepsLeft
      <3> QED
        BY <2>1, <2>3, <3>1 DEF Ended
    <2>4. CASE pc[c] \notin {"start", "delegations"}
      <3>1. StepsLeft(c) = Stage[pc[c]]
        BY <2>4 DEF StepsLeft
      <3>2. pc[c] \in {"tool", "revocation", "policy", "rate", "begin", "link", "insert",
                       "commit", "print", "done", "failed"}
        BY <2>1, <2>4, Zenon DEF EnforceStages, InTransaction
      <3>3. Stage[pc[c]] \in Nat /\ (Stage[pc[c]] = 0 <=> pc[c] \in Ended)
        BY <3>2 DEF Stage, Ended
      <3> QED
        BY <3>1, <3>3
    <2> QED
      BY <2>2, <2>3, <2>4
  <1>2. CASE c \in Revokers
    <2>1. pc[c] \in RevokeStages /\ c \notin Enforcers
      BY <1>2, CommandAssumption DEF TypeInv, TypeOK
    <2> QED
      BY <2>1 DEF StepsLeft, Stage, RevokeStages, Ended
  <1> QED
    BY <1>1, <1>2 DEF Commands

\* A step moves the one command that takes it, and no other.
LEMMA OthersKeepSteps ==
    ASSUME TypeInv, NEW c \in Commands, OwnStep(c), NEW d \in Commands, d # c
    PROVE  StepsLeft(d)' = StepsLeft(d)
  <1>1. \E s : pc' = [pc EXCEPT ![c] = s]
    BY DEF OwnStep, EnforceStep, RevokeStep, Goto, Open, CheckDelegation, CheckTool,
           CheckRevoked, CheckPolicy, CheckRate, Begin, Link, Insert, Commit, Output,
           LockTimeout, RevokeMandate, RevokeDelegation, LogRevocation, Abandon
  <1>2. pc'[d] = pc[d]
    BY <1>1 DEF TypeInv, TypeOK
  <1>3. next' = next \/ (c \in Enforcers /\ next' = [next EXCEPT ![c] = next[c] + 1])
    BY DEF OwnStep, EnforceStep, RevokeStep, Open, CheckDelegation, CheckTool,
           CheckRevoked, CheckPolicy, CheckRate, Begin, Link, Insert, Commit, Output,
           LockTimeout, RevokeMandate, RevokeDelegation, LogRevocation, Abandon
  <1>4. pc[d] = "delegations" => d \in Enforcers
    BY DEF TypeInv, TypeOK, RevokeStages, Ended, Commands
  <1>5. pc[d] = "delegations" => next'[d] = next[d]
    BY <1>3, <1>4 DEF TypeInv, TypeOK
  <1> QED
    BY <1>2, <1>5 DEF StepsLeft

\* Each step of a command makes its measure smaller.
LEMMA StepsRunOut ==
    ASSUME TypeInv, NEW c \in Commands, OwnStep(c)
    PROVE  StepsLeft(c)' < StepsLeft(c)
  <1>1. ASSUME c \in Enforcers, EnforceStep(c)
        PROVE  StepsLeft(c)' < StepsLeft(c)
    <2> USE DEF Goto, TypeInv, TypeOK, StepsLeft, Stage
    <2>t. c \in Commands /\ Len(ChainOf[c]) \in Nat
      BY <1>1, RequestAssumption DEF Commands
    <2>1. CASE Open(c)
      <3>1. pc[c] = "start" /\ next[c] = 1 /\ next' = next
        BY <1>1, <2>1 DEF Open, StageInv
      <3>2. pc'[c] = "tool" \/ pc'[c] = "delegations"
        BY <2>1, <2>t DEF Open
      <3> QED
        BY <1>1, <2>t, <3>1, <3>2
    <2>2. CASE CheckDelegation(c)
      <3>1. pc[c] = "delegations" /\ next[c] \in 1..Len(ChainOf[c])
        BY <1>1, <2>2, RequestAssumption DEF CheckDelegation, StageInv
      <3>2. \/ pc'[c] = "done" \/ pc'[c] = "tool"
            \/ pc'[c] = "delegations" /\ next'[c] = next[c] + 1
        <4>1. CASE pc' = [pc EXCEPT ![c] = "done"]
          BY <2>t, <4>1
        <4>2. CASE /\ next' = [next EXCEPT ![c] = next[c] + 1]
                   /\ \/ pc' = [pc EXCEPT ![c] = "tool"]
                      \/ pc' = [pc EXCEPT ![c] = "delegations"]
          BY <1>1, <2>t, <4>2
        <4> QED
          BY <2>2, <4>1, <4>2 DEF CheckDelegation
      <3>3. StepsLeft(c) = Len(ChainOf[c]) - next[c] + 10
        BY <3>1
      <3>4. CASE pc'[c] = "done" \/ pc'[c] = "tool"
        <4>1. StepsLeft(c)' \in 0..9
          BY <3>4
        <4> HIDE DEF StepsLeft
        <4> QED
          BY <2>t, <3>1, <3>3, <4>1
      <3>5. CASE pc'[c] = "delegations" /\ next'[c] = next[c] + 1
        <4>1. StepsLeft(c)' = Len(ChainOf[c]) - (next[c] + 1) + 10
          BY <3>5
        <4> HIDE DEF StepsLeft
        <4> QED
          BY <2>t, <3>1, <3>3, <4>1
      <3> QED
        BY <3>2, <3>4, <3>5
    <2>3. CASE CheckTool(c) \/ CheckRevoked(c) \/ CheckPolicy(c) \/ CheckRate(c)
      <3>1. \/ pc[c] = "tool" /\ pc'[c] \in {"begin", "revocation"}
            \/ pc[c] = "revocation" /\ pc'[c] \in {"begin", "policy"}
            \/ pc[c] = "policy" /\ pc'[c] \in {"begin", "rate"}
            \/ pc[c] = "rate" /\ pc'[c] = "begin"
        BY <2>3, <2>t DEF CheckTool, CheckRevoked, CheckPolicy, CheckRate
      <3> QED
        BY <3>1
    <2>4. CASE Begin(c) \/ Link(c) \/ Insert(c) \/ Commit(c) \/ Output(c)
      <3>1. \/ pc[c] = "begin" /\ pc'[c] = "link"
            \/ pc[c] = "link" /\ pc'[c] = "insert"
            \/ pc[c] = "insert" /\ pc'[c] = "commit"
            \/ pc[c] = "commit" /\ pc'[c] = "print"
            \/ pc[c] = "print" /\ pc'[c] = "done"
        <4>1. Begin(c) => pc[c] = "begin" /\ pc'[c] = "link"
          BY <2>t DEF Begin
        <4>2. Link(c) => pc[c] = "link" /\ pc'[c] = "insert"
          BY <2>t DEF Link
        <4>3. Insert(c) => pc[c] = "insert" /\ pc'[c] = "commit"
          BY <2>t DEF Insert
        <4>4. Commit(c) => pc[c] = "commit" /\ pc'[c] = "print"
          BY <2>t DEF Commit
        <4>5. Output(c) => pc[c] = "print" /\ pc'[c] = "done"
          BY <2>t DEF Output
        <4> QED
          BY <2>4, <4>1, <4>2, <4>3, <4>4, <4>5
      <3> QED
        BY <3>1
    <2>5. CASE LockTimeout(c)
      <3>1. pc[c] = "begin" /\ pc'[c] = "failed"
        BY <1>1, <2>5, <2>t, CommandAssumption DEF LockTimeout, WaitsForLock
      <3> QED
        BY <3>1
    <2> QED
      BY <1>1, <2>1, <2>2, <2>3, <2>4, <2>5 DEF EnforceStep
  <1>2. ASSUME c \in Revokers, RevokeStep(c)
        PROVE  StepsLeft(c)' < StepsLeft(c)
    <2>1. c \notin Enforcers /\ c \in Commands
      BY <1>2, CommandAssumption DEF Commands
    <2>2. /\ pc[c] = "start" \/ pc[c] = "log"
          /\ pc'[c] \in {"done", "failed"} \/ (pc[c] = "start" /\ pc'[c] = "log")
      BY <1>2, <2>1 DEF RevokeStep, RevokeMandate, RevokeDelegation, LogRevocation, LockTimeout,
                        WaitsForLock, Goto, TypeInv, TypeOK
    <2> QED
      BY <2>1, <2>2 DEF StepsLeft, Stage
  <1>3. ASSUME Abandon(c)
        PROVE  StepsLeft(c)' < StepsLeft(c)
    <2>1. pc[c] \notin Ended /\ pc'[c] = "failed"
      BY <1>3 DEF Abandon, Goto, TypeInv, TypeOK
    <2>2. StepsLeft(c) \in Nat /\ StepsLeft(c) # 0
      BY <2>1, StepsLeftType
    <2>3. StepsLeft(c)' = 0
      BY <2>1 DEF StepsLeft, Stage
    <2> QED
      BY <2>2, <2>3
  <1> QED
    BY <1>1, <1>2, <1>3 DEF OwnStep

\* Nothing is done twice and no loop turns without advancing: `enforce` has at
\* most ten statements and one for each delegation, `revoke-delegation` two, each
\* step of a command uses one of them up, and nobody else's step adds any.
THEOREM NoCommandGoesOn ==
    Spec => [][\A c \in Commands :
                  /\ StepsLeft(c)' <= StepsLeft(c)
                  /\ OwnStep(c) => StepsLeft(c)' < StepsLeft(c)]_vars
  <1> DEFINE Fewer == \A c \in Commands :
                          /\ StepsLeft(c)' <= StepsLeft(c)
                          /\ OwnStep(c) => StepsLeft(c)' < StepsLeft(c)
  <1>n. TypeInv => \A c \in Commands : StepsLeft(c) \in Nat
    BY StepsLeftType
  <1>m. TypeInv' => (\A c \in Commands : StepsLeft(c) \in Nat)'
    BY <1>n, PTL
  <1>1. TypeInv /\ Next => Fewer
    <2> SUFFICES ASSUME TypeInv, Next, NEW c \in Commands
                 PROVE  /\ StepsLeft(c)' <= StepsLeft(c)
                        /\ OwnStep(c) => StepsLeft(c)' < StepsLeft(c)
      OBVIOUS
    <2>1. StepsLeft(c) \in Nat
      BY StepsLeftType
    <2>2. TypeInv'
      BY TypeInductive
    <2>3. StepsLeft(c)' \in Nat
      BY <2>2, <1>m
    <2>4. CASE OwnStep(c)
      BY <2>1, <2>3, <2>4, StepsRunOut
    <2>5. CASE ~OwnStep(c) /\ \E d \in Commands : OwnStep(d)
      <3>1. StepsLeft(c)' = StepsLeft(c)
        BY <2>5, OthersKeepSteps
      <3> QED
        BY <2>1, <2>5, <3>1
    <2>6. CASE Tick
      <3>1. StepsLeft(c)' = StepsLeft(c)
        BY <2>6 DEF Tick, StepsLeft
      <3>2. ~OwnStep(c)
        <4>1. OwnStep(c) => StepsLeft(c)' < StepsLeft(c)
          BY StepsRunOut
        <4> QED
          BY <2>1, <3>1, <4>1
      <3> QED
        BY <2>1, <3>1, <3>2
    <2> QED
      BY <2>4, <2>5, <2>6 DEF Next, OwnStep, Commands
  <1> QED
    BY <1>1, TypeAlways, PTL DEF Spec

=============================================================================
