--------------------------- MODULE ReportsProofs ----------------------------
(***************************************************************************)
(* Theorems about Reports.tla, for any agents, decisions, windows, limits  *)
(* and bounds.                                                             *)
(***************************************************************************)
EXTENDS Reports, FiniteSetTheorems, WellFoundedInduction, TLAPS

(***************************************************************************)
(* The inductive invariant.                                                *)
(*                                                                         *)
(* The table: a row links to the largest of the rows it found, and names   *)
(* an older row as its parent or none.  A lost row stays lost, so that     *)
(* what a row found, every row between found too, and what the file still  *)
(* holds every later row has found.                                        *)
(***************************************************************************)
Rows == DOMAIN decisions
Row == [agent_did : Agents, decision : Decisions, timestamp : Nat,
        prev_hash : Nat, parent : Int]

TableOK ==
    /\ decisions \in Seq(Row)
    /\ history \in Seq(SUBSET Nat) /\ Len(history) = Len(decisions)
    /\ present \subseteq Rows
    /\ \A i \in Rows :
          /\ history[i] \subseteq 1..i - 1
          /\ decisions[i].prev_hash = IF history[i] = {} THEN Genesis ELSE Max(history[i])
          /\ decisions[i].parent \in 1..i - 1 \cup {NoParent, Stray}

LostForGood ==
    /\ \A l, m \in Rows : \A i \in history[l] : (i < m /\ m <= l) => i \in history[m]
    /\ \A i \in present : \A m \in Rows : i < m => i \in history[m]

(***************************************************************************)
(* The walk: the lineage goes from each row to its parent, hence to ever   *)
(* older rows, and the parent to look up next is that of its last row.     *)
(***************************************************************************)
Reading == {"verify-lineage", "visual-receipt"}
Oldest == lineage[Len(lineage)]

WalkEnded ==
    \/ Parent(Oldest) \in {NoParent, Stray}
    \/ Len(lineage) = MaxDepth[command]
    \/ Parent(Oldest) \notin present

WalkOK ==
    /\ command \in Commands
    /\ lineage \in Seq(Rows)
    /\ pc \in {"start", "entry"} => lineage = <<>>
    /\ pc \in {"entry", "lineage", "print", "chain"} =>
          command \in Reading /\ receipt \in Rows
    /\ pc = "print" => command = "verify-lineage"
    /\ (pc \in {"entry", "lineage"} /\ lineage = <<>>) => want = receipt
    /\ lineage # <<>> =>
          /\ command \in Reading
          /\ lineage[1] = receipt
          /\ Len(lineage) <= MaxDepth[command]
          /\ pc = "lineage" => want = Parent(Oldest)
          /\ pc \in {"print", "chain", "done"} => WalkEnded
    /\ IsAncestry(lineage)
    /\ \A j, k \in 1..Len(lineage) : j < k => lineage[k] < lineage[j]

(***************************************************************************)
(* The summary: the hash that was signed is the hash of data that stand    *)
(* for an unbroken stretch, whatever became of the file since.             *)
(***************************************************************************)
Gapless(s) ==
    s.chain_intact =>
        LET rows == Stretch(s.first_receipt_hash, s.last_receipt_hash)
        IN  /\ s.last_receipt_hash \in Rows
            /\ Unbroken(rows, s.first_receipt_hash)
            /\ \A i \in rows : decisions[i].agent_did = s.agent_did
            /\ s.total_decisions = Cardinality(rows)
            /\ s.merkle_root = merkle_root(ReceiptHashes(InOrder(rows)))

SummaryOK ==
    /\ pc = "compress" => \E agent \in Agents, window \in Windows :
                              output = [agent_did |-> agent, window |-> window]
    /\ pc = "written" => \E s : Gapless(s) /\ output = sign_summary(s)
    /\ pc \in {"delivered", "verified"} =>
           \E s : Gapless(s) /\ output.summary_hash = hash_input(s)
    /\ pc = "verified" => output.summary_hash = hash_input(output.data)

IInv == TableOK /\ LostForGood /\ WalkOK /\ SummaryOK /\ IntactChain

----------------------------------------------------------------------------
(* Lemmas about the operators.                                             *)

\* Every set of natural numbers that is not empty has a least member: the form in
\* which the proofs below make an induction.
LEMMA LeastMember ==
    ASSUME NEW T \in SUBSET Nat, T # {}
    PROVE  \E n \in T : \A m \in T : n <= m
  <1> DEFINE R == OpToRel(<, Nat)
  <1>1. IsWellFoundedOn(R, Nat)
    BY NatLessThanWellFounded
  <1>2. R = {ss \in Nat \X Nat : ss[1] < ss[2]}
    BY DEF OpToRel
  <1> HIDE DEF R
  <1>3. PICK n \in T : \A m \in T : <<m, n>> \notin R
    BY <1>1, WFMin, Zenon
  <1>4. ASSUME NEW m \in T
        PROVE  n <= m
    <2>1. m \in Nat /\ n \in Nat /\ <<m, n>> \notin R
      BY <1>3
    <2>2. ~(m < n)
      BY <2>1, <1>2, Z3
    <2> QED
      BY <2>1, <2>2
  <1> QED
    BY <1>3, <1>4


\* Max chooses the largest of some seqs.
LEMMA MaxFacts ==
    ASSUME NEW n \in Nat, NEW S \in SUBSET (0..n), S # {}
    PROVE  Max(S) \in S /\ \A y \in S : y <= Max(S)
  <1> DEFINE T == {k \in Nat : \A y \in S : y <= k}
  <1>1. n \in T
    OBVIOUS
  <1>2. PICK k \in T : \A m \in T : k <= m
    BY <1>1, LeastMember
  <1>3. k \in S
    <2> SUFFICES ASSUME k \notin S
                 PROVE  FALSE
      OBVIOUS
    <2>1. \A y \in S : y <= k - 1
      BY <1>2
    <2>2. k - 1 \in Nat
      <3>1. PICK y \in S : TRUE
        OBVIOUS
      <3> QED
        BY <2>1, <3>1, <1>2
    <2>3. k - 1 \in T
      BY <2>1, <2>2
    <2> QED
      BY <2>3, <1>2
  <1>4. \E x \in S : \A y \in S : x >= y
    BY <1>2, <1>3
  <1>5. Max(S) \in S /\ \A y \in S : Max(S) >= y
    BY <1>4 DEF Max
  <1> QED
    BY <1>5

\* The rows in order are the rows of the set, each of them once, rising: the answer of a
\* SELECT with ORDER BY seq.
LEMMA InOrderFacts ==
    ASSUME NEW n \in Nat, NEW S \in SUBSET (0..n)
    PROVE  /\ IsFiniteSet(S) /\ Cardinality(S) \in Nat
           /\ InOrder(S) \in Seq(S) /\ Len(InOrder(S)) = Cardinality(S)
           /\ \A i \in S : \E k \in 1..Cardinality(S) : InOrder(S)[k] = i
           /\ \A j, k \in 1..Cardinality(S) : j < k => InOrder(S)[j] < InOrder(S)[k]
  <1> DEFINE Below(i) == {j \in S : j < i}
             c == Cardinality(S)
             Rank == [i \in S |-> Cardinality(Below(i))]
  <1>1. IsFiniteSet(S) /\ c \in Nat
    <2>1. IsFiniteSet(0..n)
      BY FS_Interval
    <2> QED
      BY <2>1, FS_Subset, FS_CardinalityType
  <1>2. \A i \in S : IsFiniteSet(Below(i)) /\ Cardinality(Below(i)) \in Nat
    BY <1>1, FS_Subset, FS_CardinalityType
  <1>3. ASSUME NEW i \in S, NEW j \in S, i < j
        PROVE  Cardinality(Below(i)) < Cardinality(Below(j))
    <2> i \in Nat /\ j \in Nat
      OBVIOUS
    <2>1. Below(i) \subseteq Below(j) /\ i \in Below(j) /\ i \notin Below(i)
      <3>1. \A k \in S : k < i => k < j
        BY <1>3
      <3>2. i < j /\ ~(i < i)
        BY <1>3
      <3> QED
        BY <3>1, <3>2, Zenon
    <2>2. Cardinality(Below(i)) <= Cardinality(Below(j))
      BY <1>2, <2>1, FS_Subset
    <2>3. Cardinality(Below(i)) # Cardinality(Below(j))
      BY <1>2, <2>1, FS_Subset
    <2> QED
      BY <1>2, <2>2, <2>3
  <1>4. \A i \in S : Cardinality(Below(i)) \in 0..c - 1
    <2> SUFFICES ASSUME NEW i \in S
                 PROVE  Cardinality(Below(i)) \in 0..c - 1
      OBVIOUS
    <2>1. Below(i) \subseteq S /\ i \notin Below(i)
      OBVIOUS
    <2>2. Cardinality(Below(i)) <= c /\ Cardinality(Below(i)) # c
      BY <1>1, <2>1, FS_Subset
    <2> QED
      BY <1>1, <1>2, <2>2
  <1>5. \A i, j \in S : Cardinality(Below(i)) = Cardinality(Below(j)) => i = j
    <2> SUFFICES ASSUME NEW i \in S, NEW j \in S, i # j
                 PROVE  Cardinality(Below(i)) # Cardinality(Below(j))
      OBVIOUS
    <2>1. i < j \/ j < i
      OBVIOUS
    <2> QED
      BY <1>2, <1>3, <2>1
  <1>6. \A k \in 1..c : \E i \in S : Cardinality(Below(i)) = k - 1
    <2> HIDE DEF Below
    <2>1. Rank \in [S -> 0..c - 1]
      BY <1>4
    <2>2. Rank \in Injection(S, 0..c - 1)
      BY <1>5, <2>1 DEF Injection, IsInjective
    <2>3. IsFiniteSet(0..c - 1) /\ Cardinality(0..c - 1) = c
      BY <1>1, FS_Interval
    <2>4. Rank \in Surjection(S, 0..c - 1)
      BY <2>2, <2>3, FS_Injection
    <2>5. \A t \in 0..c - 1 : \E i \in S : Rank[i] = t
      BY <2>4 DEF Surjection
    <2> QED
      BY <1>1, <2>5
  <1>7. \A k \in 1..c : /\ InOrder(S)[k] \in S
                        /\ Cardinality(Below(InOrder(S)[k])) = k - 1
    BY <1>6 DEF InOrder
  <1>8. InOrder(S) \in Seq(S) /\ Len(InOrder(S)) = c
    <2>1. InOrder(S) \in [1..c -> S]
      BY <1>7 DEF InOrder
    <2> HIDE DEF c
    <2> QED
      BY <1>1, <2>1
  <1>9. \A i \in S : \E k \in 1..c : InOrder(S)[k] = i
    <2> SUFFICES ASSUME NEW i \in S
                 PROVE  \E k \in 1..c : InOrder(S)[k] = i
      OBVIOUS
    <2> DEFINE k == Cardinality(Below(i)) + 1
    <2>1. k \in 1..c /\ k - 1 = Cardinality(Below(i))
      BY <1>1, <1>4
    <2>2. InOrder(S)[k] \in S /\ Cardinality(Below(InOrder(S)[k])) = Cardinality(Below(i))
      BY <1>7, <2>1
    <2> HIDE DEF k
    <2>3. InOrder(S)[k] = i
      BY <1>5, <2>2
    <2> QED
      BY <2>1, <2>3
  <1>10. ASSUME NEW j \in 1..c, NEW k \in 1..c, j < k
         PROVE  InOrder(S)[j] < InOrder(S)[k]
    <2> DEFINE x == InOrder(S)[j]
               y == InOrder(S)[k]
    <2>1. /\ x \in S /\ y \in S
          /\ Cardinality(Below(x)) = j - 1
          /\ Cardinality(Below(y)) = k - 1
      BY <1>7
    <2> HIDE DEF x, y
    <2>2. x # y /\ ~(y < x)
      BY <1>3, <1>10, <2>1
    <2>3. x < y
      <3>1. x \in Nat /\ y \in Nat
        BY <2>1
      <3> QED
        BY <3>1, <2>2
    <2> QED
      BY <2>3 DEF x, y
  <1> QED
    BY <1>1, <1>8, <1>9, <1>10

----------------------------------------------------------------------------
(* The table.                                                              *)

\* What a command that waits can rely on: a row once written stays as it was, and the
\* file gains none of the rows there already were.
TableGrows ==
    /\ Rows \subseteq Rows'
    /\ \A i \in Rows : decisions'[i] = decisions[i] /\ history'[i] = history[i]
    /\ present' \cap Rows \subseteq present

Waiting == UNCHANGED <<command, pc, receipt, lineage, want, output>>

\* Seqs count the rows from one.
LEMMA RowsFacts ==
    ASSUME TableOK
    PROVE  /\ Rows = 1..Len(decisions) /\ Len(decisions) \in Nat
           /\ \A i \in Rows : decisions[i] \in Row /\ history[i] \in SUBSET Nat
  BY DEF TableOK, Rows

\* An append links the new row to the last one the file holds and finds the others.
LEMMA AppendTable ==
    ASSUME TableOK, LostForGood,
           NEW agent \in Agents, NEW decision \in Decisions, NEW timestamp \in 0..MaxTime,
           NEW parent \in Rows \cup {NoParent, Stray},
           enforce_and_record(agent, decision, parent, timestamp)
    PROVE  TableOK' /\ LostForGood' /\ TableGrows /\ Waiting
  <1> DEFINE n == Len(decisions) + 1
             row == [agent_did |-> agent, decision |-> decision, timestamp |-> timestamp,
                     prev_hash |-> last_receipt_hash, parent |-> parent]
  <1>1. /\ Rows = 1..Len(decisions) /\ Len(decisions) \in Nat /\ present \subseteq Rows
        /\ Len(history) = Len(decisions)
    BY RowsFacts DEF TableOK
  <1>2. last_receipt_hash \in Nat
    <2>1. present \in SUBSET (0..Len(decisions))
      BY <1>1
    <2>2. present # {} => Max(present) \in present
      BY <2>1, <1>1, MaxFacts
    <2>3. \A i \in present : i \in Nat
      BY <1>1
    <2>4. present # {} => Max(present) \in Nat
      BY <2>2, <2>3, Zenon
    <2> QED
      BY <2>4 DEF last_receipt_hash, Genesis
  <1>3. row \in Row
    BY <1>1, <1>2, ReportsAssumption DEF Row, NoParent, Stray
  <1> HIDE DEF row
  <1>4. /\ decisions' = Append(decisions, row)
        /\ history' = Append(history, present)
        /\ Waiting
    BY DEF enforce_and_record, row, Waiting
  <1>5. /\ Len(decisions') = n /\ Rows' = 1..n /\ decisions' \in Seq(Row)
        /\ decisions'[n] = row
        /\ \A i \in Rows : decisions'[i] = decisions[i]
    BY <1>1, <1>3, <1>4 DEF TableOK, Rows
  <1>6. /\ Len(history') = n /\ history' \in Seq(SUBSET Nat)
        /\ history'[n] = present
        /\ \A i \in Rows : history'[i] = history[i]
    <2>1. present \in SUBSET Nat
      BY <1>1
    <2> QED
      BY <2>1, <1>1, <1>4 DEF TableOK, Rows
  <1>7. present' = present \cup {n}
    BY <1>5 DEF enforce_and_record
  <1>8. /\ n \notin Rows /\ Rows' = Rows \cup {n} /\ n \in Nat
        /\ \A i \in Rows : i < n /\ i \in Nat
    BY <1>1, <1>5
  <1> HIDE DEF n
  <1>9. TableGrows
    BY <1>5, <1>6, <1>7, <1>8 DEF TableGrows
  <1>10. TableOK'
    <2>1. ASSUME NEW i \in Rows'
          PROVE  /\ history'[i] \subseteq 1..i - 1
                 /\ decisions'[i].prev_hash =
                       IF history'[i] = {} THEN Genesis ELSE Max(history'[i])
                 /\ decisions'[i].parent \in 1..i - 1 \cup {NoParent, Stray}
      <3>1. CASE i \in Rows
        BY <3>1, <1>5, <1>6 DEF TableOK
      <3>2. CASE i = n
        <4>1. 1..n - 1 = Rows
          BY <1>1 DEF n
        <4> QED
          BY <3>2, <4>1, <1>1, <1>5, <1>6 DEF row, last_receipt_hash
      <3> QED
        BY <3>1, <3>2, <1>8
    <2> QED
      BY <2>1, <1>1, <1>5, <1>6, <1>7, <1>8 DEF TableOK
  <1>11. LostForGood'
    <2>1. ASSUME NEW l \in Rows', NEW m \in Rows', NEW i \in history'[l], i < m, m <= l
          PROVE  i \in history'[m]
      <3>1. CASE l \in Rows
        <4>1. m \in Rows
          BY <3>1, <2>1, <1>8
        <4> QED
          BY <3>1, <4>1, <2>1, <1>6 DEF LostForGood
      <3>2. CASE l = n
        <4>1. i \in present
          BY <3>2, <1>6
        <4>2. CASE m \in Rows
          BY <4>1, <4>2, <2>1, <1>6 DEF LostForGood
        <4>3. CASE m = n
          BY <4>1, <4>3, <1>6
        <4> QED
          BY <4>2, <4>3, <1>8
      <3> QED
        BY <3>1, <3>2, <1>8
    <2>2. ASSUME NEW i \in present', NEW m \in Rows', i < m
          PROVE  i \in history'[m]
      <3>1. i \in present
        BY <2>2, <1>7, <1>8
      <3>2. CASE m \in Rows
        BY <3>1, <3>2, <2>2, <1>6 DEF LostForGood
      <3>3. CASE m = n
        BY <3>1, <3>3, <1>6
      <3> QED
        BY <3>2, <3>3, <1>8
    <2> QED
      BY <2>1, <2>2 DEF LostForGood
  <1> QED
    BY <1>4, <1>9, <1>10, <1>11

\* A loss takes a row from the file; what other rows found is not rewritten.
LEMMA LossTable ==
    ASSUME TableOK, LostForGood, LoseRow
    PROVE  TableOK' /\ LostForGood' /\ TableGrows /\ Waiting
  <1>1. /\ decisions' = decisions /\ history' = history /\ Waiting
        /\ present' \subseteq present
    BY DEF LoseRow, Waiting
  <1> QED
    BY <1>1 DEF TableOK, LostForGood, TableGrows, Rows

\* A row's parent does not change, nor whether it can be looked up, but for the worse.
LEMMA ParentStays ==
    ASSUME TableOK, TableOK', TableGrows, NEW i \in Rows
    PROVE  /\ Parent(i)' = Parent(i)
           /\ Parent(i) \notin present => Parent(i) \notin present'
  <1>1. i \in Rows' /\ decisions'[i] = decisions[i]
    BY DEF TableGrows
  <1>2. Parent(i)' = Parent(i) /\ Parent(i) = decisions[i].parent
    BY <1>1 DEF Parent, Rows
  <1>3. CASE Parent(i) \in Rows
    BY <1>2, <1>3 DEF TableGrows
  <1>4. CASE Parent(i) \notin Rows
    <2>1. Parent(i) \in {NoParent, Stray}
      BY <1>2, <1>4, RowsFacts DEF TableOK
    <2>2. 0 \notin Rows' /\ -1 \notin Rows' /\ present' \subseteq Rows'
      BY DEF TableOK, Rows
    <2> QED
      BY <2>1, <2>2, <1>2 DEF NoParent, Stray
  <1> QED
    BY <1>2, <1>3, <1>4

\* What a report says of a stretch stays true of it: the rows it speaks of keep their
\* content, and no row finds more than it found when it was appended.
LEMMA GaplessStays ==
    ASSUME TableOK, TableGrows, NEW s, Gapless(s)
    PROVE  Gapless(s)'
  <1> SUFFICES ASSUME s.chain_intact
               PROVE  Gapless(s)'
    BY DEF Gapless
  <1> DEFINE first == s.first_receipt_hash
             last == s.last_receipt_hash
  <1>1. last \in Rows /\ last \in Rows' /\ history'[last] = history[last]
    BY DEF Gapless, TableGrows
  <1>2. Stretch(first, last)' = Stretch(first, last)
    BY <1>1 DEF Stretch
  <1>3. Stretch(first, last) \subseteq Rows
    BY <1>1, RowsFacts DEF Stretch, TableOK
  <1>4. \A i \in Stretch(first, last) : decisions'[i] = decisions[i] /\ history'[i] = history[i]
    BY <1>3 DEF TableGrows
  <1>5. Unbroken(Stretch(first, last), first)'
    BY <1>2, <1>4 DEF Gapless, Unbroken
  <1> QED
    BY <1>1, <1>2, <1>4, <1>5 DEF Gapless

\* The walk and the summary are undisturbed while the table changes under them.
LEMMA WaitingKeeps ==
    ASSUME IInv, TableOK', LostForGood', TableGrows, Waiting, Running
    PROVE  IInv'
  <1>1. WalkOK'
    <2>1. /\ lineage' = lineage /\ pc' = pc /\ command' = command
          /\ receipt' = receipt /\ want' = want
          /\ Rows \subseteq Rows'
      BY DEF Waiting, TableGrows
    <2>2. /\ lineage \in Seq(Rows) /\ lineage \in Seq(Rows')
          /\ \A k \in 1..Len(lineage) : lineage[k] \in Rows
      BY <2>1 DEF IInv, WalkOK
    <2>3. \A k \in 1..Len(lineage) :
             /\ Parent(lineage[k])' = Parent(lineage[k])
             /\ Parent(lineage[k]) \notin present => Parent(lineage[k]) \notin present'
      BY <2>1, <2>2, ParentStays DEF IInv
    <2>4. IsAncestry(lineage)'
      BY <2>1, <2>2, <2>3 DEF IInv, WalkOK, IsAncestry
    <2>5. ASSUME lineage # <<>>
          PROVE  /\ Parent(Oldest)' = Parent(Oldest)
                 /\ WalkEnded => WalkEnded'
      <3>1. Len(lineage) \in 1..Len(lineage)
        BY <2>2, <2>5
      <3> QED
        BY <3>1, <2>1, <2>3 DEF WalkEnded, Oldest
    <2> QED
      BY <2>1, <2>2, <2>4, <2>5 DEF IInv, WalkOK
  <1>2. SummaryOK'
    BY GaplessStays DEF IInv, SummaryOK, Waiting
  <1>3. IntactChain'
    BY DEF IntactChain, Running, Waiting
  <1> QED
    BY <1>1, <1>2, <1>3 DEF IInv

----------------------------------------------------------------------------
(* Intact chains.                                                          *)

\* The answer of a query over the file is made of rows of the file.
LEMMA PresentInOrder ==
    ASSUME TableOK, NEW S \in SUBSET present
    PROVE  /\ InOrder(S) \in Seq(S) /\ Len(InOrder(S)) = Cardinality(S)
           /\ Cardinality(S) \in Nat
           /\ \A k \in 1..Cardinality(S) : InOrder(S)[k] \in S /\ InOrder(S)[k] \in Rows
           /\ \A i \in S : \E k \in 1..Cardinality(S) : InOrder(S)[k] = i
           /\ \A j, k \in 1..Cardinality(S) : j < k => InOrder(S)[j] < InOrder(S)[k]
  <1>1. S \in SUBSET (0..Len(decisions)) /\ Len(decisions) \in Nat
    BY RowsFacts DEF TableOK
  <1>2. /\ InOrder(S) \in Seq(S) /\ Len(InOrder(S)) = Cardinality(S)
        /\ Cardinality(S) \in Nat
        /\ \A i \in S : \E k \in 1..Cardinality(S) : InOrder(S)[k] = i
        /\ \A j, k \in 1..Cardinality(S) : j < k => InOrder(S)[j] < InOrder(S)[k]
    BY <1>1, InOrderFacts
  <1>3. \A k \in 1..Cardinality(S) : InOrder(S)[k] \in S /\ InOrder(S)[k] \in Rows
    BY <1>2 DEF TableOK
  <1> QED
    BY <1>2, <1>3

\* The link of a row is the youngest row it found: it found none between the two.
LEMMA LinkIsYoungest ==
    ASSUME TableOK, NEW m \in Rows, NEW i \in history[m]
    PROVE  i <= decisions[m].prev_hash /\ decisions[m].prev_hash \in history[m]
  <1>1. /\ history[m] \subseteq 1..m - 1
        /\ m \in Nat
        /\ decisions[m].prev_hash = Max(history[m])
    BY RowsFacts DEF TableOK
  <1>2. history[m] \in SUBSET (0..m)
    BY <1>1
  <1> QED
    BY <1>1, <1>2, MaxFacts

\* Where every row links to the one before it in the answer, the answer leaves out no row
\* that its last one, or any of them, found from its first on (chain_intact over
\* query_window's rows).
LEMMA LinkedStretch ==
    ASSUME TableOK, LostForGood, NEW S \in SUBSET present, S # {},
           chain_intact(InOrder(S))
    PROVE  LET rows == InOrder(S)
           IN  /\ rows[Len(rows)] \in Rows
               /\ Stretch(rows[1], rows[Len(rows)]) = S
               /\ Unbroken(S, rows[1])
  <1> DEFINE rows == InOrder(S)
             n == Cardinality(S)
             first == rows[1]
             last == rows[n]
  <1>1. /\ rows \in Seq(S) /\ Len(rows) = n /\ n \in Nat \ {0}
        /\ \A k \in 1..n : rows[k] \in S /\ rows[k] \in Rows /\ rows[k] \in Nat
        /\ \A i \in S : \E k \in 1..n : rows[k] = i
        /\ \A j, k \in 1..n : j < k => rows[j] < rows[k]
    BY PresentInOrder, RowsFacts
  <1>2. \A k \in 2..n : decisions[rows[k]].prev_hash = rows[k - 1]
    BY <1>1 DEF chain_intact
  <1>3. 1 \in 1..n /\ n \in 1..n
    BY <1>1
  <1> HIDE DEF rows, n
  <1>4. ASSUME NEW i \in S
        PROVE  i \in Stretch(first, last)
    <2>1. PICK k \in 1..n : rows[k] = i
      BY <1>1
    <2>2. first <= i
      BY <1>1, <1>3, <2>1
    <2>3. CASE i = last
      BY <2>3 DEF Stretch
    <2>4. CASE i # last
      <3>1. i < last /\ i \in present /\ last \in Rows
        BY <1>1, <1>3, <2>1, <2>4
      <3> QED
        BY <3>1, <2>2 DEF LostForGood, Stretch
    <2> QED
      BY <2>3, <2>4
  <1> DEFINE Gap(m, i) == i \in history[m] /\ first <= i /\ i \notin S
             T == {m \in S : \E i \in history[m] : Gap(m, i)}
  <1>5. T = {}
    <2> SUFFICES ASSUME T # {}
                 PROVE  FALSE
      OBVIOUS
    <2>1. T \in SUBSET Nat
      <3>1. S \subseteq Rows /\ \A i \in Rows : i \in Nat
        BY RowsFacts DEF TableOK
      <3> QED
        BY <3>1
    <2>2. PICK m \in T : \A j \in T : m <= j
      BY <2>1, LeastMember
    <2>3. PICK i \in history[m] : Gap(m, i)
      OBVIOUS
    <2>4. PICK k \in 1..n : rows[k] = m
      BY <1>1
    <2>5. /\ m \in Rows /\ m \in S /\ m \in Nat /\ first <= i /\ i \notin S
          /\ i \in history[m]
      BY <1>1, <2>3, <2>4
    <2>6. i \in Nat /\ i < m
      BY <2>5, RowsFacts DEF TableOK
    <2> HIDE DEF T
    <2>7. k \in 2..n /\ k - 1 \in 1..n
      <3>1. k # 1
        BY <1>1, <1>3, <2>4, <2>5, <2>6
      <3> QED
        BY <1>1, <2>4, <3>1
    <2> DEFINE link == rows[k - 1]
    <2>8. link \in S /\ link \in Rows /\ link \in Nat /\ link < m
      BY <1>1, <2>4, <2>7
    <2>9. link = decisions[m].prev_hash
      BY <1>2, <2>4, <2>7
    <2> HIDE DEF link
    <2>10. i <= link
      BY <2>5, <2>9, LinkIsYoungest
    <2>11. i < link
      BY <2>5, <2>6, <2>8, <2>10
    <2>12. i \in history[link]
      BY <2>5, <2>8, <2>11 DEF LostForGood
    <2>13. link \in T
      BY <2>5, <2>8, <2>12 DEF T
    <2> QED
      BY <2>2, <2>6, <2>8, <2>13
  <1>6. Stretch(first, last) = S
    <2> SUFFICES ASSUME NEW i \in Stretch(first, last), i \notin S
                 PROVE  FALSE
      BY <1>4
    <2>1. last \in S
      BY <1>1, <1>3
    <2>2. i \in history[last] /\ first <= i
      BY <2>1 DEF Stretch
    <2> QED
      BY <1>5, <2>1, <2>2
  <1>7. Unbroken(S, first)
    <2> SUFFICES ASSUME NEW m \in S
                 PROVE  {i \in history[m] : first <= i} = {i \in S : i < m}
      BY DEF Unbroken
    <2>1. m \in Rows /\ history[m] \subseteq 1..m - 1 /\ m \in Nat
      BY RowsFacts DEF TableOK
    <2>2. ASSUME NEW i \in history[m], first <= i
          PROVE  i \in S /\ i < m
      BY <1>5, <2>1, <2>2
    <2>3. ASSUME NEW i \in S, i < m
          PROVE  i \in history[m] /\ first <= i
      <3>1. i \in present /\ i \in history[m]
        BY <2>1, <2>3 DEF LostForGood
      <3>2. PICK k \in 1..n : rows[k] = i
        BY <1>1
      <3> QED
        BY <1>1, <1>3, <3>1, <3>2
    <2> QED
      BY <2>2, <2>3
  <1> QED
    BY <1>1, <1>3, <1>6, <1>7 DEF n, rows

\* Where the chain of the whole file verifies, its rows found each other and no row that
\* is gone.
LEMMA VerifiedChain ==
    ASSUME TableOK, LostForGood, verify_chain
    PROVE  Unbroken(present, 1)
  <1> DEFINE rows == InOrder(present)
             n == Cardinality(present)
             Gap == {i \in present : ~(history[i] \subseteq present)}
  <1>a. ASSUME NEW m \in present, Gap = {}
        PROVE  {i \in history[m] : 1 <= i} = {i \in present : i < m}
    <2>1. m \in Rows /\ history[m] \subseteq 1..m - 1 /\ history[m] \subseteq present
      BY <1>a DEF TableOK
    <2>2. \A i \in present : i < m => i \in history[m]
      BY <2>1 DEF LostForGood
    <2>3. m \in Nat /\ \A i \in history[m] : i \in Nat /\ 1 <= i /\ i < m
      BY <2>1, RowsFacts
    <2> QED
      BY <2>1, <2>2, <2>3
  <1> SUFFICES ASSUME Gap # {}
               PROVE  FALSE
    BY <1>a DEF Unbroken
  <1>1. /\ rows \in Seq(present) /\ Len(rows) = n /\ n \in Nat /\ DOMAIN rows = 1..n
        /\ \A k \in 1..n : rows[k] \in present /\ rows[k] \in Rows
        /\ \A i \in present : \E k \in 1..n : rows[k] = i
        /\ \A j, k \in 1..n : j < k => rows[j] < rows[k]
    BY PresentInOrder
  <1>2. \A k \in 1..n : decisions[rows[k]].prev_hash = IF k = 1 THEN Genesis ELSE rows[k - 1]
    BY <1>1 DEF verify_chain
  <1> HIDE DEF rows, n
  <1>3. Gap \in SUBSET Nat /\ present \subseteq Rows /\ \A i \in Rows : i \in Nat
    BY RowsFacts DEF TableOK
  <1> HIDE DEF Gap
  <1>4. PICK i \in Gap : \A j \in Gap : i <= j
    BY <1>3, LeastMember
  <1>5. /\ i \in present /\ i \in Rows /\ i \in Nat
        /\ ~(history[i] \subseteq present)
    BY <1>3, <1>4 DEF Gap
  <1>6. PICK g \in history[i] : g \notin present
    BY <1>5
  <1>7. PICK k \in 1..n : rows[k] = i
    BY <1>1, <1>5
  <1> DEFINE link == decisions[i].prev_hash
  <1>8. g <= link /\ link \in history[i]
    BY <1>5, <1>6, LinkIsYoungest
  <1>9. history[i] \subseteq 1..i - 1
    BY <1>5 DEF TableOK
  <1>10. /\ g \in Nat \ {0} /\ link \in Nat \ {0} /\ link < i
    BY <1>5, <1>6, <1>8, <1>9
  <1>11. link = rows[k - 1] /\ link \in present /\ link \in Rows
    <2>1. k # 1
      BY <1>2, <1>7, <1>10 DEF Genesis
    <2>2. k \in 1..n /\ k - 1 \in 1..n
      BY <1>1, <1>7, <2>1
    <2> QED
      BY <1>1, <1>2, <1>7, <2>1, <2>2
  <1> HIDE DEF link
  <1>12. g < link
    BY <1>6, <1>8, <1>10, <1>11
  <1>13. g \in history[link]
    BY <1>5, <1>6, <1>10, <1>11, <1>12 DEF LostForGood
  <1>14. link \in Gap
    BY <1>6, <1>11, <1>13 DEF Gap
  <1> QED
    BY <1>4, <1>5, <1>10, <1>14

----------------------------------------------------------------------------
(* The invariant is inductive.                                             *)

\* No row, no lineage, nothing printed.
LEMMA InitIInv == Init => IInv
  <1> SUFFICES ASSUME Init
               PROVE  IInv
    OBVIOUS
  <1>1. TableOK /\ LostForGood
    BY DEF Init, TableOK, LostForGood, Rows
  <1>2. WalkOK
    BY DEF Init, WalkOK, IsAncestry, Rows
  <1>3. SummaryOK /\ IntactChain
    BY DEF Init, SummaryOK, IntactChain
  <1> QED
    BY <1>1, <1>2, <1>3 DEF IInv

\* A command's own step reads the table and leaves it as it is.
LEMMA TableKept ==
    ASSUME IInv, UNCHANGED table
    PROVE  /\ TableOK' /\ LostForGood' /\ TableGrows /\ Rows' = Rows
           /\ \A s : Gapless(s) => Gapless(s)'
  <1>1. TableOK' /\ LostForGood' /\ TableGrows /\ Rows' = Rows
    BY DEF IInv, table, TableOK, LostForGood, TableGrows, Rows
  <1> QED
    BY <1>1, GaplessStays DEF IInv

\* The youngest rows of the answer are rows of the answer.
LEMMA QueryFinds ==
    ASSUME TableOK, NEW agents, NEW kinds, NEW i \in query(agents, kinds)
    PROVE  i \in Rows
  <1> DEFINE S == {j \in present : /\ decisions[j].agent_did \in agents
                                   /\ decisions[j].decision \in kinds}
             found == InOrder(S)
             n == Len(found)
             from == Max({1, n - Limit + 1})
  <1>1. found \in Seq(S) /\ n \in Nat
    BY PresentInOrder
  <1>2. S \subseteq Rows
    BY DEF TableOK
  <1>3. from \in Nat \ {0}
    <2>1. Limit \in Nat
      BY ReportsAssumption
    <2>2. \E x \in {1, n - Limit + 1} : \A y \in {1, n - Limit + 1} : x >= y
      BY <1>1, <2>1
    <2>3. from \in {1, n - Limit + 1} /\ from >= 1
      BY <2>2 DEF Max
    <2> QED
      BY <1>1, <2>1, <2>3
  <1>4. i \in Range(SubSeq(found, from, n))
    BY DEF query
  <1> HIDE DEF found, from, S
  <1>5. \A k \in DOMAIN SubSeq(found, from, n) : SubSeq(found, from, n)[k] \in S
    BY <1>1, <1>3
  <1> QED
    BY <1>2, <1>4, <1>5 DEF Range

\* A listing begins a walk at a row it shows, or ends the command.
LEMMA AuditIInv == IInv /\ cmd_audit => IInv'
  <1> SUFFICES ASSUME IInv, cmd_audit
               PROVE  IInv'
    OBVIOUS
  <1>1. /\ pc = "start" /\ lineage = <<>> /\ command # "compress"
        /\ UNCHANGED <<table, command, lineage>>
    BY DEF cmd_audit, IInv, WalkOK
  <1>2. PICK agents \in {Agents} \cup {{a} : a \in Agents},
             kinds \in {Decisions} \cup {{d} : d \in Decisions} :
          LET entries == query(agents, kinds) IN
          IF command = "audit" \/ entries = {}
            THEN pc' = IF command = "audit" THEN "done" ELSE "failed"
            ELSE /\ \E i \in entries : receipt' = i /\ want' = i
                 /\ pc' = IF command = "visual-receipt" THEN "entry" ELSE "lineage"
    BY DEF cmd_audit
  <1>3. TableOK' /\ LostForGood' /\ Rows' = Rows
    BY <1>1, TableKept
  <1>4. CASE command = "audit"
    BY <1>1, <1>2, <1>3, <1>4
       DEF IInv, WalkOK, SummaryOK, IntactChain, IsAncestry, Reading
  <1>5. CASE command # "audit" /\ query(agents, kinds) = {}
    BY <1>1, <1>2, <1>3, <1>5
       DEF IInv, WalkOK, SummaryOK, IntactChain, IsAncestry
  <1>6. CASE command # "audit" /\ query(agents, kinds) # {}
    <2>1. /\ receipt' \in Rows /\ want' = receipt'
          /\ pc' = IF command = "visual-receipt" THEN "entry" ELSE "lineage"
      BY <1>2, <1>6, QueryFinds DEF IInv
    <2>2. command \in Reading
      BY <1>1, <1>6 DEF IInv, WalkOK, Reading, Commands
    <2> QED
      BY <1>1, <1>3, <2>1, <2>2 DEF IInv, WalkOK, SummaryOK, IntactChain, IsAncestry
  <1> QED
    BY <1>4, <1>5, <1>6

\* visual-receipt's own look-up finds the receipt or ends the command.
LEMMA ReadEntryIInv == IInv /\ ReadEntry => IInv'
  <1> SUFFICES ASSUME IInv, ReadEntry
               PROVE  IInv'
    OBVIOUS
  <1>1. /\ pc = "entry" /\ lineage = <<>> /\ pc' \in {"lineage", "failed"}
        /\ want' = want /\ receipt' = receipt
        /\ UNCHANGED <<table, command, lineage, output>>
    BY DEF ReadEntry, IInv, WalkOK
  <1>2. TableOK' /\ LostForGood' /\ Rows' = Rows
    BY <1>1, TableKept
  <1>3. want = receipt
    BY <1>1 DEF IInv, WalkOK
  <1> QED
    BY <1>1, <1>2, <1>3 DEF IInv, WalkOK, SummaryOK, IntactChain, IsAncestry

\* One call of the recursion adds a row older than all it has found.
LEMMA ReconstructIInv == IInv /\ reconstruct_recursive => IInv'
  <1> SUFFICES ASSUME IInv, reconstruct_recursive
               PROVE  IInv'
    OBVIOUS
  <1> DEFINE n == Len(lineage)
  <1>1. /\ pc = "lineage" /\ n < MaxDepth[command] /\ want \in present
        /\ lineage' = Append(lineage, want) /\ want' = decisions[want].parent
        /\ pc' = IF want' = NoParent THEN EndOfLineage ELSE pc
        /\ UNCHANGED <<table, command, receipt, output>>
    BY DEF reconstruct_recursive
  <1>2. TableOK' /\ LostForGood' /\ Rows' = Rows
    BY <1>1, TableKept
  <1>3. want \in Rows /\ Parent(want) = decisions[want].parent
    BY <1>1 DEF IInv, TableOK, Parent, Rows
  <1>4. /\ lineage \in Seq(Rows) /\ n \in Nat
        /\ command \in Reading /\ receipt \in Rows /\ MaxDepth[command] \in Nat
    BY <1>1, ReportsAssumption DEF IInv, WalkOK, Reading
  <1>5. /\ lineage' \in Seq(Rows) /\ lineage' # <<>> /\ Len(lineage') = n + 1
        /\ lineage'[n + 1] = want /\ Oldest' = want
        /\ \A k \in 1..n : lineage'[k] = lineage[k]
    BY <1>1, <1>3, <1>4 DEF Oldest
  <1>6. lineage # <<>> => n \in 1..n /\ want = Parent(lineage[n]) /\ lineage[n] \in Rows
    BY <1>1, <1>4 DEF IInv, WalkOK, Oldest
  <1>7. lineage'[1] = receipt
    <2>1. CASE lineage = <<>>
      BY <2>1, <1>1, <1>5 DEF IInv, WalkOK
    <2>2. CASE lineage # <<>>
      BY <2>2, <1>4, <1>5, <1>6 DEF IInv, WalkOK
    <2> QED
      BY <2>1, <2>2
  <1>8. IsAncestry(lineage)'
    <2> SUFFICES ASSUME NEW k \in 2..n + 1
                 PROVE  lineage'[k] = Parent(lineage'[k - 1])
      BY <1>1, <1>5 DEF IsAncestry, Parent, table
    <2>1. CASE k = n + 1
      <3>1. n \in 1..n /\ k - 1 = n
        BY <1>4, <2>1
      <3> QED
        BY <2>1, <3>1, <1>5, <1>6
    <2>2. CASE k # n + 1
      <3>1. k \in 2..n /\ k - 1 \in 1..n /\ k \in 1..n
        BY <1>4, <2>2
      <3> QED
        BY <3>1, <1>5 DEF IInv, WalkOK, IsAncestry
    <2> QED
      BY <2>1, <2>2
  <1>9. ASSUME NEW j \in 1..n + 1, NEW k \in 1..n + 1, j < k
        PROVE  lineage'[k] < lineage'[j]
    <2>1. CASE k = n + 1
      <3>1. j \in 1..n /\ n \in 1..n /\ lineage # <<>>
        BY <1>4, <1>9, <2>1
      <3>2. lineage[j] \in Nat /\ lineage[n] \in Nat /\ lineage[n] <= lineage[j]
        <4>1. lineage[j] \in Nat /\ lineage[n] \in Nat
          BY <3>1, <1>4, RowsFacts DEF IInv
        <4>2. j = n \/ j < n
          BY <3>1, <1>4
        <4> QED
          BY <4>1, <4>2, <3>1 DEF IInv, WalkOK
      <3>3. want \in Nat /\ want < lineage[n]
        <4>1. want = decisions[lineage[n]].parent /\ lineage[n] \in Rows
          BY <1>6, <3>1 DEF Parent, Rows
        <4>2. decisions[lineage[n]].parent \in 1..lineage[n] - 1 \cup {NoParent, Stray}
          BY <4>1 DEF IInv, TableOK
        <4>3. want \in Nat \ {0}
          BY <1>3, RowsFacts DEF IInv
        <4> QED
          BY <4>1, <4>2, <4>3, <3>2 DEF NoParent, Stray
      <3> QED
        BY <3>1, <3>2, <3>3, <2>1, <1>5
    <2>2. CASE k # n + 1
      <3>1. k \in 1..n /\ j \in 1..n
        BY <1>4, <1>9, <2>2
      <3> QED
        BY <3>1, <1>5, <1>9 DEF IInv, WalkOK
    <2> QED
      BY <2>1, <2>2
  <1>10. Parent(Oldest)' = want'
    BY <1>1, <1>3, <1>5 DEF Parent, table
  <1>11. /\ pc' \in {"lineage", "print", "chain"}
         /\ pc' = "print" => command = "verify-lineage"
         /\ pc' \in {"print", "chain"} => want' = NoParent
    BY <1>1, <1>4 DEF EndOfLineage, Reading
  <1>12. WalkOK'
    <2>1. pc' \in {"print", "chain", "done"} => WalkEnded'
      BY <1>10, <1>11 DEF WalkEnded
    <2>2. Len(lineage') <= MaxDepth[command]
      BY <1>1, <1>4, <1>5
    <2> HIDE DEF n
    <2> QED
      BY <1>1, <1>2, <1>4, <1>5, <1>7, <1>8, <1>9, <1>10, <1>11, <2>1, <2>2
         DEF WalkOK, Commands, Reading
  <1> QED
    BY <1>1, <1>2, <1>11, <1>12 DEF IInv, SummaryOK, IntactChain

\* The walk ends where a row cannot be found or may not be looked up.
LEMMA CutIInv == IInv /\ CutLineage => IInv'
  <1> SUFFICES ASSUME IInv, CutLineage
               PROVE  IInv'
    OBVIOUS
  <1>1. /\ pc = "lineage" /\ (Len(lineage) >= MaxDepth[command] \/ want \notin present)
        /\ pc' \in {"failed", EndOfLineage}
        /\ UNCHANGED <<table, command, receipt, lineage, want, output>>
    BY DEF CutLineage
  <1>2. TableOK' /\ LostForGood' /\ Rows' = Rows
    BY <1>1, TableKept
  <1>3. /\ command \in Reading /\ MaxDepth[command] \in Nat /\ Len(lineage) \in Nat
        /\ pc' \in {"failed", "print", "chain"}
        /\ pc' = "print" => command = "verify-lineage"
    BY <1>1, ReportsAssumption DEF IInv, WalkOK, Reading, EndOfLineage
  <1>4. lineage # <<>> => WalkEnded'
    <2> SUFFICES ASSUME lineage # <<>>
                 PROVE  WalkEnded'
      OBVIOUS
    <2>1. want = Parent(Oldest) /\ Len(lineage) <= MaxDepth[command]
      BY <1>1 DEF IInv, WalkOK
    <2>2. WalkEnded
      BY <1>1, <1>3, <2>1 DEF WalkEnded
    <2> QED
      BY <1>1, <2>2 DEF WalkEnded, Oldest, Parent, table
  <1>5. IsAncestry(lineage)'
    BY <1>1 DEF IInv, WalkOK, IsAncestry, Parent, table
  <1>6. WalkOK'
    BY <1>1, <1>2, <1>3, <1>4, <1>5 DEF IInv, WalkOK
  <1> QED
    BY <1>1, <1>2, <1>3, <1>6 DEF IInv, SummaryOK, IntactChain

\* The two commands print what they found, or panic.
LEMMA PrintIInv == IInv /\ (cmd_verify_lineage \/ cmd_visual_receipt) => IInv'
  <1> SUFFICES ASSUME IInv, cmd_verify_lineage \/ cmd_visual_receipt
               PROVE  IInv'
    OBVIOUS
  <1>1. /\ pc \in {"print", "chain"} /\ pc' \in {"done", "failed"}
        /\ UNCHANGED <<table, command, receipt, lineage, want>>
    BY DEF cmd_verify_lineage, cmd_visual_receipt
  <1>2. TableOK' /\ LostForGood' /\ Rows' = Rows
    BY <1>1, TableKept
  <1>3. lineage # <<>> => WalkEnded'
    <2>1. lineage # <<>> => WalkEnded
      BY <1>1 DEF IInv, WalkOK
    <2> QED
      BY <1>1, <2>1 DEF WalkEnded, Oldest, Parent, table
  <1>4. WalkOK'
    BY <1>1, <1>2, <1>3 DEF IInv, WalkOK, IsAncestry, Parent, table
  <1>5. IntactChain'
    <2>1. CASE cmd_verify_lineage
      BY <2>1, <1>1 DEF cmd_verify_lineage, IInv, WalkOK, IntactChain
    <2>2. CASE cmd_visual_receipt
      <3>1. output'.chain_intact = verify_chain
        BY <2>2 DEF cmd_visual_receipt, render_json
      <3>2. verify_chain => Unbroken(present, 1)
        BY VerifiedChain DEF IInv
      <3>3. Unbroken(present, 1)' <=> Unbroken(present, 1)
        BY <1>1 DEF Unbroken, table
      <3> QED
        BY <1>1, <3>1, <3>2, <3>3 DEF IntactChain
    <2> QED
      BY <2>1, <2>2
  <1> QED
    BY <1>1, <1>2, <1>4, <1>5 DEF IInv, SummaryOK

\* The summary stands for the stretch the rows of the window make up.
LEMMA CompressIInv == IInv /\ cmd_compress => IInv'
  <1> SUFFICES ASSUME IInv, cmd_compress
               PROVE  IInv'
    OBVIOUS
  <1>1. pc = "compress" /\ UNCHANGED <<table, command, receipt, lineage, want>>
    BY DEF cmd_compress
  <1>2. TableOK' /\ LostForGood' /\ Rows' = Rows /\ \A s : Gapless(s) => Gapless(s)'
    BY <1>1, TableKept
  <1>3. WalkOK' \/ ~(pc' \in {"written", "failed"})
    BY <1>1, <1>2 DEF IInv, WalkOK, IsAncestry, Parent, table
  <1> DEFINE agent == output.agent_did
             S == {i \in present : /\ decisions[i].agent_did = agent
                                   /\ output.window[1] <= decisions[i].timestamp
                                   /\ decisions[i].timestamp <= output.window[2]}
             rows == InOrder(S)
             s == compress_window(agent, output.window, rows)
  <1>4. rows = query_window(agent, output.window)
    BY DEF query_window
  <1>5. CASE rows = <<>>
    BY <1>1, <1>2, <1>3, <1>4, <1>5 DEF cmd_compress, IInv, SummaryOK, IntactChain
  <1>6. CASE rows # <<>>
    <2>1. output' = sign_summary(s) /\ pc' = "written"
      BY <1>1, <1>4, <1>6 DEF cmd_compress
    <2>2. ASSUME s.chain_intact
          PROVE  Gapless(s)
      <3>1. /\ s.chain_intact = chain_intact(rows) /\ s.agent_did = agent
            /\ s.total_decisions = Len(rows)
            /\ s.first_receipt_hash = rows[1] /\ s.last_receipt_hash = rows[Len(rows)]
            /\ s.merkle_root = merkle_root(ReceiptHashes(rows))
        BY DEF compress_window
      <3>2. S \in SUBSET present /\ \A i \in S : decisions[i].agent_did = agent
        OBVIOUS
      <3> HIDE DEF S, s
      <3>3. S # {} /\ Len(rows) = Cardinality(S)
        <4>1. rows \in Seq(S) /\ Len(rows) = Cardinality(S)
          BY <3>2, PresentInOrder DEF IInv
        <4>2. S # {}
          BY <4>1, <1>6
        <4> QED
          BY <4>1, <4>2
      <3>4. /\ rows[Len(rows)] \in Rows
            /\ Stretch(rows[1], rows[Len(rows)]) = S
            /\ Unbroken(S, rows[1])
        BY <2>2, <3>1, <3>2, <3>3, LinkedStretch DEF IInv
      <3> QED
        BY <3>1, <3>2, <3>3, <3>4 DEF Gapless
    <2>3. Gapless(s)
      BY <2>2 DEF Gapless
    <2> HIDE DEF s
    <2> QED
      BY <1>1, <1>2, <1>3, <2>1, <2>3 DEF IInv, SummaryOK, IntactChain
  <1> QED
    BY <1>5, <1>6

\* Counting, the delivery of the file and its verification read or write no row.
LEMMA SummaryIInv ==
    IInv /\ (CountDecisions \/ DamageSummary \/ cmd_verify_summary) => IInv'
  <1> SUFFICES ASSUME IInv, CountDecisions \/ DamageSummary \/ cmd_verify_summary
               PROVE  IInv'
    OBVIOUS
  <1>1. /\ UNCHANGED <<table, command, receipt, lineage, want>>
        /\ pc' \in {"failed", "compress", "delivered", "verified", "invalid"}
    BY DEF CountDecisions, DamageSummary, cmd_verify_summary
  <1>2. TableOK' /\ LostForGood' /\ Rows' = Rows /\ \A s : Gapless(s) => Gapless(s)'
    BY <1>1, TableKept
  <1>3. WalkOK'
    BY <1>1, <1>2 DEF IInv, WalkOK, IsAncestry, Parent, table
  <1>4. IntactChain'
    BY <1>1 DEF IntactChain
  <1>5. CASE CountDecisions
    <2>1. SummaryOK'
      BY <1>5 DEF CountDecisions, SummaryOK
    <2> QED
      BY <1>2, <1>3, <1>4, <2>1 DEF IInv
  <1>6. CASE DamageSummary
    <2>1. PICK s : Gapless(s) /\ output = sign_summary(s)
      BY <1>6 DEF DamageSummary, IInv, SummaryOK
    <2>2. output'.summary_hash = output.summary_hash
      BY <1>6, <2>1 DEF DamageSummary, sign_summary
    <2>3. output.summary_hash = hash_input(s) /\ pc' = "delivered"
      BY <1>6, <2>1 DEF DamageSummary, sign_summary
    <2>4. SummaryOK'
      BY <1>2, <2>1, <2>2, <2>3 DEF SummaryOK
    <2> QED
      BY <1>2, <1>3, <1>4, <2>4 DEF IInv
  <1>7. CASE cmd_verify_summary
    <2>1. PICK s : Gapless(s) /\ output.summary_hash = hash_input(s)
      BY <1>7 DEF cmd_verify_summary, IInv, SummaryOK, sign_summary
    <2>2. /\ output' = output
          /\ pc' \in {"verified", "invalid"}
          /\ pc' = "verified" => output.summary_hash = hash_input(output.data)
      BY <1>7 DEF cmd_verify_summary, verify_summary
    <2>3. SummaryOK'
      BY <1>2, <2>1, <2>2 DEF SummaryOK
    <2> QED
      BY <1>2, <1>3, <1>4, <2>3 DEF IInv
  <1> QED
    BY <1>5, <1>6, <1>7

\* Every append and loss, and every step of a command, keeps the invariant.
LEMMA NextIInv == IInv /\ [Next]_vars => IInv'
  <1> SUFFICES ASSUME IInv, [Next]_vars
               PROVE  IInv'
    OBVIOUS
  <1>1. ASSUME Running,
               NEW agent \in Agents, NEW decision \in Decisions, NEW timestamp \in 0..MaxTime,
               NEW parent \in DOMAIN decisions \cup {NoParent, Stray},
               enforce_and_record(agent, decision, parent, timestamp)
        PROVE  IInv'
    BY <1>1, AppendTable, WaitingKeeps DEF IInv, Rows
  <1>2. CASE Running /\ LoseRow
    BY <1>2, LossTable, WaitingKeeps DEF IInv
  <1>3. CASE UNCHANGED vars
    <2>1. UNCHANGED <<table, command, receipt, lineage, want>> /\ pc' = pc /\ output' = output
      BY <1>3 DEF vars
    <2>2. TableOK' /\ LostForGood' /\ Rows' = Rows /\ \A s : Gapless(s) => Gapless(s)'
      BY <2>1, TableKept
    <2>3. WalkOK'
      BY <2>1, <2>2 DEF IInv, WalkOK, IsAncestry, Parent, WalkEnded, Oldest, table
    <2>4. SummaryOK'
      BY <2>1, <2>2 DEF IInv, SummaryOK
    <2>5. IntactChain'
      BY <2>1 DEF IInv, IntactChain, Unbroken, table
    <2> QED
      BY <2>2, <2>3, <2>4, <2>5 DEF IInv
  <1> QED
    BY <1>1, <1>2, <1>3, AuditIInv, ReadEntryIInv, ReconstructIInv, CutIInv, PrintIInv,
       CompressIInv, SummaryIInv DEF Next, Step

\* The invariant holds throughout.
THEOREM Invariance == Spec => []IInv
  BY InitIInv, NextIInv, PTL DEF Spec

----------------------------------------------------------------------------
(* What the runs check.                                                    *)

\* The lineage `verify-lineage` and `visual-receipt` report is the beginning of the
\* receipt's ancestry and comes to no row twice, for each row names an older one as its
\* parent and keeps it, whatever is appended or lost between the look-ups.
THEOREM LineageIsTrue == Spec => []LineageIsAncestry
  <1>1. IInv => LineageIsAncestry
    <2> SUFFICES ASSUME IInv, lineage # <<>>
                 PROVE  LineageIsAncestry
      BY DEF LineageIsAncestry
    <2>1. lineage \in Seq(Rows) /\ DOMAIN lineage = 1..Len(lineage) /\ Len(lineage) \in Nat
      BY DEF IInv, WalkOK
    <2>2. IsInjective(lineage)
      <3> SUFFICES ASSUME NEW j \in 1..Len(lineage), NEW k \in 1..Len(lineage), j # k
                   PROVE  lineage[j] # lineage[k]
        BY <2>1 DEF IsInjective
      <3>1. lineage[j] \in Nat /\ lineage[k] \in Nat
        BY <2>1, RowsFacts DEF IInv
      <3>2. j < k \/ k < j
        BY <2>1
      <3>3. lineage[j] < lineage[k] \/ lineage[k] < lineage[j]
        BY <3>2 DEF IInv, WalkOK
      <3> QED
        BY <3>1, <3>3
    <2> QED
      BY <2>2 DEF IInv, WalkOK, WalkEnded, Oldest, LineageIsAncestry
  <1> QED
    BY <1>1, Invariance, PTL

\* A summary that verifies or a visual receipt calls intact only rows each of which found
\* just the earlier ones: the link of a row is the youngest row it found, and the hash of
\* the summary fixes the stretch it was made of.  So a loss it hides is one of rows that
\* had gone from the end of the file before the next row shown was appended.
THEOREM HiddenLossesAreEnds == Spec => []OnlyLostEndsAreHidden
  <1>1. IInv => IntactSummary
    <2> SUFFICES ASSUME IInv, pc = "verified", output.data.chain_intact
                 PROVE  Gapless(output.data)
      BY DEF IntactSummary, Gapless
    <2> DEFINE d == output.data
    <2>1. PICK s : Gapless(s) /\ output.summary_hash = hash_input(s)
      BY DEF IInv, SummaryOK
    <2>2. hash_input(s) = hash_input(d)
      BY <2>1 DEF IInv, SummaryOK
    <2> HIDE DEF d
    <2>3. /\ s.agent_did = d.agent_did /\ s.total_decisions = d.total_decisions
          /\ s.first_receipt_hash = d.first_receipt_hash
          /\ s.last_receipt_hash = d.last_receipt_hash
          /\ s.merkle_root = d.merkle_root /\ s.chain_intact = d.chain_intact
      BY <2>2 DEF hash_input
    <2>4. Gapless(d)
      BY <2>1, <2>3 DEF Gapless
    <2> QED
      BY <2>4 DEF d
  <1>2. IInv => OnlyLostEndsAreHidden
    BY <1>1 DEF OnlyLostEndsAreHidden, IInv
  <1> QED
    BY <1>2, Invariance, PTL
=============================================================================
