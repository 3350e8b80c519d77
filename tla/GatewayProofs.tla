---------------------------- MODULE GatewayProofs ----------------------------
(***************************************************************************)
(* Theorems about Gateway.tla, for any receipts, grants, bindings, ring    *)
(* capacity, windows and bounds.                                           *)
(***************************************************************************)
EXTENDS Gateway, FiniteSetTheorems, TLAPS

(***************************************************************************)
(* The operators of the queue.                                             *)
(***************************************************************************)

\* Every queue operation returns a queue.
LEMMA EntriesClosed ==
    ASSUME NEW es \in Entries, NEW b \in BindingIds
    PROVE  /\ Insert(es, b) \in Entries
           /\ Approve(es, b) \in Entries
           /\ Remove(es, b) \in Entries
  BY DEF Entries, EntryStatus, Insert, Approve, Remove

\* Expiry yields a queue of pending entries.
LEMMA ExpireClosed == ASSUME NEW es \in Entries, NEW t \in Nat PROVE Expire(es, t) \in Entries
  BY DEF Entries, EntryStatus, Expire

\* A receipt is recorded behind the others.
LEMMA AppendFacts ==
    ASSUME NEW S, NEW s \in Seq(S), NEW e \in S
    PROVE  /\ Append(s, e) \in Seq(S)
           /\ Len(Append(s, e)) = Len(s) + 1
           /\ Append(s, e)[Len(s) + 1] = e
           /\ \A i \in 1..Len(s) : Append(s, e)[i] = s[i]
  OBVIOUS

\* What is left of the ring when its oldest nonce is evicted.
LEMMA TailFacts ==
    ASSUME NEW S, NEW s \in Seq(S), Len(s) > 0
    PROVE  /\ Tail(s) \in Seq(S)
           /\ Len(Tail(s)) = Len(s) - 1
           /\ \A i \in 1..Len(s) - 1 : Tail(s)[i] = s[i + 1]
  OBVIOUS

\* The ring of a new process.
LEMMA EmptyRing == <<>> \in Seq(Nonces) /\ Len(<<>>) <= NONCE_RING_CAPACITY
  <1>1. <<>> \in Seq(Nonces) /\ Len(<<>>) = 0
    OBVIOUS
  <1> QED
    BY <1>1, QueueAssumption

\* The ring stays a ring: record_nonce never exceeds the capacity.
LEMMA RingClosed ==
    ASSUME NEW ring \in Seq(Nonces), Len(ring) <= NONCE_RING_CAPACITY, NEW n \in Nonces
    PROVE  /\ RecordNonce(ring, n) \in Seq(Nonces)
           /\ Len(RecordNonce(ring, n)) <= NONCE_RING_CAPACITY
  <1> Len(ring) \in Nat
    OBVIOUS
  <1>1. CASE Len(ring) >= NONCE_RING_CAPACITY
    <2>1. Tail(ring) \in Seq(Nonces) /\ Len(Tail(ring)) = Len(ring) - 1
      BY <1>1, QueueAssumption, TailFacts
    <2>2. /\ Append(Tail(ring), n) \in Seq(Nonces)
          /\ Len(Append(Tail(ring), n)) = (Len(ring) - 1) + 1
      BY <2>1, AppendFacts
    <2> QED
      BY <2>2, <1>1, QueueAssumption DEF RecordNonce
  <1>2. CASE ~(Len(ring) >= NONCE_RING_CAPACITY)
    BY <1>2, QueueAssumption, AppendFacts DEF RecordNonce
  <1> QED
    BY <1>1, <1>2

Disks == [entries : Entries, nonce_hwm_ms : Nat]

\* A save yields a snapshot, whatever it does.
LEMMA SaveClosed ==
    ASSUME NEW d \in Disks, NEW es \in Entries, NEW h \in Nat
    PROVE  SaveOver(d, es, h) \subseteq Disks
  BY DEF SaveOver, Snapshot, Disks

\* A save after expiry leaves a snapshot, whatever it does.
LEMMA SaveIfChangedClosed ==
    ASSUME NEW d \in Disks, NEW old, NEW es \in Entries, NEW h \in Nat
    PROVE  SaveIfChanged(d, old, es, h) \subseteq Disks
  BY SaveClosed DEF SaveIfChanged

\* A missing snapshot and the queue loaded from it.
LEMMA EmptyIsDisk == EmptySnapshot \in Disks /\ NoEntries \in Entries
  BY DEF EmptySnapshot, Snapshot, NoEntries, Disks, Entries, EntryStatus

-----------------------------------------------------------------------------
(***************************************************************************)
(* Type correctness.                                                       *)
(***************************************************************************)

\* The process goes down: from outside, or because a refusal cannot quote.
GoesDown == Crash \/ PanicOnMatch \/ \E g \in Grants : PanicOnGrant(g)

\* Whatever brings it down, it goes down the same way.
LEMMA DownFacts ==
    ASSUME TypeOK, GoesDown
    PROVE  stage # "down" /\ GoDown /\ crashes' \in 0..MaxCrashes
  BY GatewayAssumption DEF TypeOK, GoesDown, Crash, PanicOnMatch, PanicOnGrant


\* Every step keeps the types.
LEMMA TypeInductive == TypeOK /\ [Next]_vars => TypeOK'
  <1> SUFFICES ASSUME TypeOK, [Next]_vars PROVE TypeOK'
    OBVIOUS
  <1> USE DEF TypeOK, clockVars, ringVars, queueVars, serverVars, historyVars, Responses
  <1> DEFINE live == Expire(entries, now)
  <1>a. now \in Nat /\ disk \in Disks /\ live \in Entries
    BY GatewayAssumption, ExpireClosed DEF Disks
  <1>1. ASSUME NEW b \in BindingIds, SignBinding(b) PROVE TypeOK'
    <2>1. Insert(live, b) \in Entries
      BY <1>a, EntriesClosed
    <2>2. disk' \in Disks
      BY <1>1, <1>a, <2>1, SaveClosed, SaveIfChangedClosed DEF SignBinding
    <2> QED
      BY <1>1, <2>1, <2>2 DEF SignBinding, Answer, Disks
  <1>2. ASSUME NEW g \in Grants, RefuseForeignGrant(g) PROVE TypeOK'
    BY <1>2 DEF RefuseForeignGrant, Answer
  <1>3. ASSUME NEW g \in Grants, RefuseGrant(g) PROVE TypeOK'
    <2>1. disk' \in Disks
      BY <1>3, <1>a, SaveIfChangedClosed DEF RefuseGrant
    <2> QED
      BY <1>3, <1>a, <2>1 DEF RefuseGrant, Answer, Disks
  <1>4. ASSUME NEW g \in Grants, AcceptGrant(g) PROVE TypeOK'
    <2>1. g.binding_id \in BindingIds
      BY GatewayAssumption DEF Grant
    <2>2. Approve(live, g.binding_id) \in Entries
      BY <1>a, <2>1, EntriesClosed
    <2>3. disk' \in Disks
      BY <1>4, <1>a, <2>2, SaveClosed, SaveIfChangedClosed DEF AcceptGrant
    <2> QED
      BY <1>4, <2>1, <2>2, <2>3 DEF AcceptGrant, Answer, Disks
  <1>5. ASSUME NEW r \in Receipts, AdmitReceipt(r) PROVE TypeOK'
    <2>1. r.nonce_hex \in Nonces /\ r.issued_at_ms \in Nat
      BY GatewayAssumption DEF Receipt
    <2>2. nonce_ring' \in Seq(Nonces) /\ Len(nonce_ring') <= NONCE_RING_CAPACITY
      BY <1>5, <2>1, RingClosed DEF AdmitReceipt, RecordNonceWithTs
    <2>3. disk' \in Disks /\ loaded_from_prior_session' \in BOOLEAN
      BY <1>5, <1>a, <2>1, SaveClosed DEF AdmitReceipt, RecordNonceWithTs
    <2>4. nonce_hwm_ms' \in Nat
      BY <1>5, <2>1 DEF AdmitReceipt, RecordNonceWithTs, RaisedHwm
    <2> QED
      BY <1>5, <2>2, <2>3, <2>4 DEF AdmitReceipt, Disks
  <1>6. ASSUME NEW r \in Receipts, RefuseReceipt(r) PROVE TypeOK'
    BY <1>6 DEF RefuseReceipt, Answer
  <1>7. CASE MatchReceipt
    <2>1. receipt \in Receipt
      BY <1>7, GatewayAssumption DEF MatchReceipt
    <2>2. CASE receipt.binding_id = NoBinding
      BY <1>7, <2>2 DEF MatchReceipt
    <2>3. CASE receipt.binding_id # NoBinding
      <3>1. receipt.binding_id \in BindingIds
        BY <2>1, <2>3 DEF Receipt
      <3>2. Remove(entries, receipt.binding_id) \in Entries
        BY <1>a, <3>1, EntriesClosed
      <3>3. disk' \in Disks
        BY <1>7, <1>a, <2>3, <3>2, SaveClosed DEF MatchReceipt
      <3> QED
        BY <1>7, <2>3, <3>2, <3>3 DEF MatchReceipt, Disks
    <2> QED
      BY <2>2, <2>3
  <1>8. CASE RefuseMatch
    BY <1>8 DEF RefuseMatch, Answer
  <1>9. ASSUME NEW view \in CanViews, WriteFrame(view) PROVE TypeOK'
    BY <1>9 DEF WriteFrame, Answer
  <1>10. ASSUME NEW view \in CanViews, RefuseState(view) PROVE TypeOK'
    BY <1>10 DEF RefuseState, Answer
  <1>11. CASE Tick
    BY <1>11, GatewayAssumption DEF Tick
  <1>12. CASE GoesDown
    <2>1. GoDown /\ crashes' \in 0..MaxCrashes
      BY <1>12, DownFacts
    <2>2. nonce_ring' \in Seq(Nonces) /\ Len(nonce_ring') <= NONCE_RING_CAPACITY
      BY <2>1, EmptyRing DEF GoDown
    <2> QED
      BY <2>1, <2>2, EmptyIsDisk DEF GoDown
  <1>13. CASE Restart
    <2>1. PICK snap \in Readable(disk) :
             /\ entries' = LoadedEntries(snap, now)
             /\ nonce_hwm_ms' = snap.nonce_hwm_ms
             /\ loaded_from_prior_session' = LoadedFlag(snap, now)
      BY <1>13 DEF Restart
    <2>2. snap \in Disks
      BY <1>a, EmptyIsDisk DEF Readable
    <2>3. entries' \in Entries /\ nonce_hwm_ms' \in Nat
      BY <1>a, <2>1, <2>2, ExpireClosed DEF LoadedEntries, Disks
    <2>4. loaded_from_prior_session' \in BOOLEAN
      BY <2>1 DEF LoadedFlag
    <2> QED
      BY <1>13, <2>3, <2>4 DEF Restart
  <1>14. CASE UNCHANGED vars
    BY <1>14 DEF vars
  <1> QED
    BY <1>1, <1>2, <1>3, <1>4, <1>5, <1>6, <1>7, <1>8, <1>9, <1>10, <1>11, <1>12, <1>13, <1>14
       DEF Next, Finish, GoesDown

(***************************************************************************)
(* Every variable keeps its type.  In particular the nonce ring never      *)
(* exceeds its capacity, and the thread holds a request only between its   *)
(* admission and its answer.                                               *)
(***************************************************************************)
THEOREM TypeCorrect == Spec => []TypeOK
  <1>1. ASSUME Init PROVE TypeOK
    <2>1. nonce_ring \in Seq(Nonces) /\ Len(nonce_ring) <= NONCE_RING_CAPACITY
      BY <1>1, EmptyRing DEF Init
    <2>2. now \in 0..MaxTime /\ crashes \in 0..MaxCrashes
      BY <1>1, GatewayAssumption DEF Init
    <2> QED
      BY <1>1, <2>1, <2>2, EmptyIsDisk DEF Init, TypeOK, Responses, Disks
  <1> QED
    BY <1>1, TypeInductive, PTL DEF Spec
-----------------------------------------------------------------------------
(***************************************************************************)
(* The high-water mark, in memory and in the file, never runs ahead of the *)
(* clock by more than the freshness window.  HwmWithinWindow alone is not  *)
(* inductive: Restart reads the mark from the file.                        *)
(***************************************************************************)
HwmInv ==
    /\ HwmWithinWindow
    /\ disk.nonce_hwm_ms <= now + RECEIPT_FRESHNESS_MS

\* A save or a failed save leaves the old mark or the new one.
LEMMA SavedHwm ==
    ASSUME NEW d, NEW es, NEW h, NEW d2 \in SaveOver(d, es, h)
    PROVE  d2 = d \/ d2 = Snapshot(es, h)
  BY DEF SaveOver

\* A save after expiry keeps the file or writes memory to it.
LEMMA SavedIfChangedHwm ==
    ASSUME NEW d, NEW old, NEW es, NEW h, NEW d2 \in SaveIfChanged(d, old, es, h)
    PROVE  d2 = d \/ d2 = Snapshot(es, h)
  BY SavedHwm DEF SaveIfChanged

\* Every step keeps the mark within the window.
LEMMA HwmInductive == TypeOK /\ HwmInv /\ [Next]_vars => HwmInv'
  <1> SUFFICES ASSUME TypeOK, HwmInv, [Next]_vars PROVE HwmInv'
    OBVIOUS
  <1> USE DEF HwmInv, HwmWithinWindow, clockVars, ringVars, queueVars, serverVars, Snapshot
  <1>a. /\ now \in Nat /\ RECEIPT_FRESHNESS_MS \in Nat
        /\ nonce_hwm_ms \in Nat /\ disk.nonce_hwm_ms \in Nat
    BY GatewayAssumption DEF TypeOK
  <1>1. ASSUME NEW b \in BindingIds, SignBinding(b) PROVE HwmInv'
    <2>1. PICK d \in SaveIfChanged(disk, entries, Expire(entries, now), nonce_hwm_ms) :
             disk' \in SaveOver(d, Insert(Expire(entries, now), b), nonce_hwm_ms)
      BY <1>1 DEF SignBinding
    <2>2. disk'.nonce_hwm_ms \in {disk.nonce_hwm_ms, nonce_hwm_ms}
      BY <2>1, SavedHwm, SavedIfChangedHwm
    <2> QED
      BY <1>1, <1>a, <2>2 DEF SignBinding
  <1>2. ASSUME NEW g \in Grants, RefuseForeignGrant(g) PROVE HwmInv'
    BY <1>2 DEF RefuseForeignGrant
  <1>3. ASSUME NEW g \in Grants, RefuseGrant(g) PROVE HwmInv'
    <2>1. disk'.nonce_hwm_ms \in {disk.nonce_hwm_ms, nonce_hwm_ms}
      BY <1>3, SavedIfChangedHwm DEF RefuseGrant
    <2> QED
      BY <1>3, <1>a, <2>1 DEF RefuseGrant
  <1>4. ASSUME NEW g \in Grants, AcceptGrant(g) PROVE HwmInv'
    <2>1. PICK d \in SaveIfChanged(disk, entries, Expire(entries, now), nonce_hwm_ms) :
             disk' \in SaveOver(d, Approve(Expire(entries, now), g.binding_id), nonce_hwm_ms)
      BY <1>4 DEF AcceptGrant
    <2>2. disk'.nonce_hwm_ms \in {disk.nonce_hwm_ms, nonce_hwm_ms}
      BY <2>1, SavedHwm, SavedIfChangedHwm
    <2> QED
      BY <1>4, <1>a, <2>2 DEF AcceptGrant
  <1>5. ASSUME NEW r \in Receipts, AdmitReceipt(r) PROVE HwmInv'
    <2>1. r.issued_at_ms \in Nat
      BY GatewayAssumption DEF Receipt
    <2>2. r.issued_at_ms <= now + RECEIPT_FRESHNESS_MS
      BY <1>5, <1>a, <2>1 DEF AdmitReceipt, Admissible, Fresh
    <2>3. nonce_hwm_ms' <= now + RECEIPT_FRESHNESS_MS
      BY <1>5, <1>a, <2>1, <2>2 DEF AdmitReceipt, RecordNonceWithTs, RaisedHwm
    <2>4. disk'.nonce_hwm_ms \in {disk.nonce_hwm_ms, r.issued_at_ms}
      BY <1>5, SavedHwm DEF AdmitReceipt, RecordNonceWithTs
    <2> QED
      BY <1>5, <1>a, <2>2, <2>3, <2>4 DEF AdmitReceipt
  <1>6. ASSUME NEW r \in Receipts, RefuseReceipt(r) PROVE HwmInv'
    BY <1>6 DEF RefuseReceipt
  <1>7. CASE MatchReceipt
    <2>1. disk'.nonce_hwm_ms \in {disk.nonce_hwm_ms, nonce_hwm_ms}
      BY <1>7, SavedHwm DEF MatchReceipt
    <2> QED
      BY <1>7, <1>a, <2>1 DEF MatchReceipt
  <1>8. CASE RefuseMatch
    BY <1>8 DEF RefuseMatch
  <1>9. ASSUME NEW view \in CanViews, WriteFrame(view) PROVE HwmInv'
    BY <1>9 DEF WriteFrame
  <1>10. ASSUME NEW view \in CanViews, RefuseState(view) PROVE HwmInv'
    BY <1>10 DEF RefuseState
  <1>11. CASE Tick
    BY <1>11, <1>a DEF Tick
  <1>12. CASE GoesDown
    BY <1>12, <1>a, DownFacts DEF GoDown
  <1>13. CASE Restart
    <2>1. PICK snap \in Readable(disk) : nonce_hwm_ms' = snap.nonce_hwm_ms
      BY <1>13 DEF Restart
    <2>2. nonce_hwm_ms' \in {disk.nonce_hwm_ms, 0}
      BY <2>1 DEF Readable, EmptySnapshot
    <2> QED
      BY <1>13, <1>a, <2>2 DEF Restart
  <1>14. CASE UNCHANGED vars
    BY <1>14 DEF vars
  <1> QED
    BY <1>1, <1>2, <1>3, <1>4, <1>5, <1>6, <1>7, <1>8, <1>9, <1>10, <1>11, <1>12, <1>13, <1>14
       DEF Next, Finish, GoesDown

(***************************************************************************)
(* After a restart the startup gate turns away a receipt stamped with the  *)
(* current time for at most the freshness window, whether or not saves     *)
(* failed: the mark never runs further ahead of the clock.                 *)
(***************************************************************************)
THEOREM HwmBounded == Spec => []HwmWithinWindow
  <1>1. Init => HwmInv
    BY GatewayAssumption DEF Init, HwmInv, HwmWithinWindow, EmptySnapshot, Snapshot
  <1>2. HwmInv => HwmWithinWindow
    BY DEF HwmInv
  <1> QED
    BY <1>1, <1>2, HwmInductive, TypeCorrect, PTL DEF Spec
-----------------------------------------------------------------------------
(***************************************************************************)
(* Approvals.  ApprovedIn(es) are the bindings a queue holds as approved;  *)
(* only Approve ever adds one.                                             *)
(***************************************************************************)
ApprovedIn(es) == {b \in BindingIds : es[b] = "approved"}

\* What the queue operations do to the approved bindings.
LEMMA ApprovedByOperation ==
    ASSUME NEW es \in Entries, NEW b \in BindingIds
    PROVE  /\ ApprovedIn(Insert(es, b)) \subseteq ApprovedIn(es)
           /\ ApprovedIn(Approve(es, b)) \subseteq ApprovedIn(es) \cup {b}
           /\ ApprovedIn(Remove(es, b)) = ApprovedIn(es) \ {b}
  BY DEF ApprovedIn, Entries, EntryStatus, Insert, Approve, Remove

\* Expiry approves nothing.
LEMMA ApprovedByExpiry ==
    ASSUME NEW es, NEW t PROVE ApprovedIn(Expire(es, t)) \subseteq ApprovedIn(es)
  BY DEF ApprovedIn, Expire

\* An empty queue has no approval.
LEMMA NoneApproved == ApprovedIn(NoEntries) = {}
  BY DEF ApprovedIn, NoEntries

\* A save puts no approval into the file that was neither there nor in memory.
LEMMA ApprovedBySave ==
    ASSUME NEW d, NEW old, NEW es, NEW h, NEW d2,
           d2 \in SaveOver(d, es, h) \/ d2 \in SaveIfChanged(d, old, es, h)
    PROVE  ApprovedIn(d2.entries) \subseteq ApprovedIn(d.entries) \cup ApprovedIn(es)
  <1>1. d2 = d \/ d2 = Snapshot(es, h)
    BY SavedHwm, SavedIfChangedHwm
  <1> QED
    BY <1>1 DEF Snapshot

(***************************************************************************)
(* An approval anywhere, in memory, in the file or taken by the receipt in *)
(* hand, comes from an accepted grant.                                     *)
(***************************************************************************)
GrantInv ==
    /\ ApprovedIn(entries) \subseteq granted
    /\ ApprovedIn(disk.entries) \subseteq granted
    /\ stage = "matched" /\ receipt.binding_id # NoBinding => receipt.binding_id \in granted
    /\ EnforcedOnlyGranted

\* Steps that leave grants and frames alone, and add no approval, keep GrantInv.
LEMMA GrantQuiet ==
    ASSUME GrantInv,
           ApprovedIn(entries') \subseteq ApprovedIn(entries) \cup ApprovedIn(disk.entries),
           ApprovedIn(disk'.entries) \subseteq ApprovedIn(entries) \cup ApprovedIn(disk.entries),
           stage' # "matched" \/ (stage' = stage /\ receipt' = receipt),
           granted' = granted, done' = done
    PROVE  GrantInv'
  BY DEF GrantInv, EnforcedOnlyGranted, ApprovedIn

\* Every step leaves only granted bindings approved.
LEMMA GrantInductive == TypeOK /\ GrantInv /\ [Next]_vars => GrantInv'
  <1> SUFFICES ASSUME TypeOK, GrantInv, [Next]_vars PROVE GrantInv'
    OBVIOUS
  <1> USE DEF clockVars, ringVars, queueVars, serverVars, historyVars
  <1> DEFINE live == Expire(entries, now)
  <1>a. now \in Nat /\ entries \in Entries /\ disk \in Disks /\ live \in Entries
    BY GatewayAssumption, ExpireClosed DEF TypeOK, Disks
  <1>b. ApprovedIn(live) \subseteq ApprovedIn(entries)
    BY ApprovedByExpiry
  <1>1. ASSUME NEW b \in BindingIds, SignBinding(b) PROVE GrantInv'
    <2>1. ApprovedIn(Insert(live, b)) \subseteq ApprovedIn(entries)
      BY <1>a, <1>b, ApprovedByOperation
    <2>2. PICK d \in SaveIfChanged(disk, entries, live, nonce_hwm_ms) :
             disk' \in SaveOver(d, Insert(live, b), nonce_hwm_ms)
      BY <1>1 DEF SignBinding
    <2>3. ApprovedIn(d.entries) \subseteq ApprovedIn(disk.entries) \cup ApprovedIn(live)
      BY <2>2, ApprovedBySave
    <2>4. ApprovedIn(disk'.entries) \subseteq ApprovedIn(d.entries) \cup ApprovedIn(Insert(live, b))
      BY <2>2, ApprovedBySave
    <2> QED
      BY <1>1, <1>b, <2>1, <2>3, <2>4, GrantQuiet DEF SignBinding, Answer
  <1>2. ASSUME NEW g \in Grants, RefuseForeignGrant(g) PROVE GrantInv'
    BY <1>2, GrantQuiet DEF RefuseForeignGrant, Answer
  <1>3. ASSUME NEW g \in Grants, RefuseGrant(g) PROVE GrantInv'
    <2>1. ApprovedIn(disk'.entries) \subseteq ApprovedIn(disk.entries) \cup ApprovedIn(live)
      BY <1>3, ApprovedBySave DEF RefuseGrant
    <2> QED
      BY <1>3, <1>b, <2>1, GrantQuiet DEF RefuseGrant, Answer
  <1>4. ASSUME NEW g \in Grants, AcceptGrant(g) PROVE GrantInv'
    <2>1. g.binding_id \in BindingIds
      BY GatewayAssumption DEF Grant
    <2>2. ApprovedIn(Approve(live, g.binding_id)) \subseteq ApprovedIn(entries) \cup {g.binding_id}
      BY <1>a, <1>b, <2>1, ApprovedByOperation
    <2>3. PICK d \in SaveIfChanged(disk, entries, live, nonce_hwm_ms) :
             disk' \in SaveOver(d, Approve(live, g.binding_id), nonce_hwm_ms)
      BY <1>4 DEF AcceptGrant
    <2>4. ApprovedIn(d.entries) \subseteq ApprovedIn(disk.entries) \cup ApprovedIn(live)
      BY <2>3, ApprovedBySave
    <2>5. ApprovedIn(disk'.entries) \subseteq
             ApprovedIn(d.entries) \cup ApprovedIn(Approve(live, g.binding_id))
      BY <2>3, ApprovedBySave
    <2>6. granted' = granted \cup {g.binding_id} /\ done' = done /\ stage' = "idle"
             /\ entries' = Approve(live, g.binding_id)
      BY <1>4 DEF AcceptGrant, Answer
    <2> QED
      BY <1>b, <2>2, <2>4, <2>5, <2>6 DEF GrantInv, EnforcedOnlyGranted
  <1>5. ASSUME NEW r \in Receipts, AdmitReceipt(r) PROVE GrantInv'
    <2>1. ApprovedIn(disk'.entries) \subseteq ApprovedIn(disk.entries) \cup ApprovedIn(entries)
      BY <1>5, ApprovedBySave DEF AdmitReceipt, RecordNonceWithTs
    <2> QED
      BY <1>5, <2>1, GrantQuiet DEF AdmitReceipt
  <1>6. ASSUME NEW r \in Receipts, RefuseReceipt(r) PROVE GrantInv'
    BY <1>6, GrantQuiet DEF RefuseReceipt, Answer
  <1>7. CASE MatchReceipt
    <2>1. receipt \in Receipt
      BY <1>7, GatewayAssumption DEF MatchReceipt, TypeOK
    <2>2. CASE receipt.binding_id = NoBinding
      BY <1>7, <2>2 DEF MatchReceipt, GrantInv, EnforcedOnlyGranted
    <2>3. CASE receipt.binding_id # NoBinding
      <3>1. receipt.binding_id \in BindingIds
        BY <2>1, <2>3 DEF Receipt
      <3>2. receipt.binding_id \in granted
        BY <1>7, <2>3, <3>1 DEF MatchReceipt, Matches, GrantInv, ApprovedIn
      <3>3. ApprovedIn(Remove(entries, receipt.binding_id)) \subseteq granted
        BY <1>a, <3>1, ApprovedByOperation DEF GrantInv
      <3>4. ApprovedIn(disk'.entries) \subseteq
               ApprovedIn(disk.entries) \cup ApprovedIn(Remove(entries, receipt.binding_id))
        BY <1>7, <2>3, ApprovedBySave DEF MatchReceipt
      <3> QED
        BY <1>7, <2>3, <3>2, <3>3, <3>4 DEF MatchReceipt, GrantInv, EnforcedOnlyGranted
    <2> QED
      BY <2>2, <2>3
  <1>8. CASE RefuseMatch
    BY <1>8, GrantQuiet DEF RefuseMatch, Answer
  <1>9. ASSUME NEW view \in CanViews, WriteFrame(view) PROVE GrantInv'
    BY <1>9 DEF WriteFrame, Answer, GrantInv, EnforcedOnlyGranted
  <1>10. ASSUME NEW view \in CanViews, RefuseState(view) PROVE GrantInv'
    BY <1>10, GrantQuiet DEF RefuseState, Answer
  <1>11. CASE Tick
    BY <1>11, GrantQuiet DEF Tick
  <1>12. CASE GoesDown
    BY <1>12, <1>a, GrantQuiet, DownFacts DEF GoDown, ApprovedIn, NoEntries
  <1>13. CASE Restart
    <2>1. PICK snap \in Readable(disk) : entries' = LoadedEntries(snap, now)
      BY <1>13 DEF Restart
    <2>2. ApprovedIn(snap.entries) \subseteq ApprovedIn(disk.entries)
      BY <2>1 DEF Readable, EmptySnapshot, Snapshot, ApprovedIn, NoEntries
    <2>3. ApprovedIn(entries') \subseteq ApprovedIn(snap.entries)
      BY <2>1 DEF LoadedEntries, Expire, ApprovedIn
    <2> QED
      BY <1>13, <2>2, <2>3, GrantQuiet DEF Restart
  <1>14. CASE UNCHANGED vars
    BY <1>14, GrantQuiet DEF vars
  <1> QED
    BY <1>1, <1>2, <1>3, <1>4, <1>5, <1>6, <1>7, <1>8, <1>9, <1>10, <1>11, <1>12, <1>13, <1>14
       DEF Next, Finish, GoesDown

(***************************************************************************)
(* No frame is written for a binding the operator never granted, whatever  *)
(* saves and loads fail.                                                   *)
(***************************************************************************)
THEOREM GrantBacksFrame == Spec => []EnforcedOnlyGranted
  <1>1. Init => GrantInv
    BY DEF Init, GrantInv, EnforcedOnlyGranted, ApprovedIn, NoEntries, EmptySnapshot, Snapshot
  <1>2. GrantInv => EnforcedOnlyGranted
    BY DEF GrantInv
  <1> QED
    BY <1>1, <1>2, GrantInductive, TypeCorrect, PTL DEF Spec
-----------------------------------------------------------------------------
(***************************************************************************)
(* One use per approval, when saves do not fail.  An approval in memory or *)
(* in the file is one that no frame has spent, and the approval taken by   *)
(* the receipt in hand is in neither any more: that is what a crash after  *)
(* the bus write relies on.                                                *)
(***************************************************************************)
CreditInv ==
    /\ ApprovedIn(entries) \subseteq credit
    /\ ApprovedIn(disk.entries) \subseteq credit
    /\ stage = "matched" /\ receipt.binding_id # NoBinding =>
          /\ receipt.binding_id \in credit
          /\ receipt.binding_id \notin ApprovedIn(entries)
          /\ receipt.binding_id \notin ApprovedIn(disk.entries)
    /\ ~Persistent => disk = EmptySnapshot

\* Steps that leave the credit alone, and add no approval, keep CreditInv.
LEMMA CreditQuiet ==
    ASSUME CreditInv,
           ApprovedIn(entries') \subseteq ApprovedIn(entries) \cup ApprovedIn(disk.entries),
           ApprovedIn(disk'.entries) \subseteq ApprovedIn(entries) \cup ApprovedIn(disk.entries),
           stage' # "matched" \/ (stage' = stage /\ receipt' = receipt),
           credit' = credit,
           ~Persistent => disk' = disk
    PROVE  CreditInv'
  <1>1. ApprovedIn(entries') \subseteq credit' /\ ApprovedIn(disk'.entries) \subseteq credit'
    BY DEF CreditInv
  <1>2. ~Persistent => disk' = EmptySnapshot
    BY DEF CreditInv
  <1>3. stage' = "matched" /\ receipt'.binding_id # NoBinding =>
           /\ receipt'.binding_id \in credit'
           /\ receipt'.binding_id \notin ApprovedIn(entries')
           /\ receipt'.binding_id \notin ApprovedIn(disk'.entries)
    BY DEF CreditInv
  <1> QED
    BY <1>1, <1>2, <1>3 DEF CreditInv, ApprovedIn

\* Without a path nothing is saved.
LEMMA SaveInMemory ==
    ASSUME NEW d, NEW old, NEW es, NEW h, NEW d2, ~Persistent,
           d2 \in SaveOver(d, es, h) \/ d2 \in SaveIfChanged(d, old, es, h)
    PROVE  d2 = d
  BY DEF SaveOver, SaveIfChanged

\* Every step keeps approvals, reservations and credits in balance.
LEMMA CreditInductive ==
    ASSUME ~DiskFaults PROVE TypeOK /\ CreditInv /\ [Next]_vars => CreditInv'
  <1> SUFFICES ASSUME TypeOK, CreditInv, [Next]_vars PROVE CreditInv'
    OBVIOUS
  <1> USE DEF clockVars, ringVars, queueVars, serverVars, historyVars
  <1> DEFINE live == Expire(entries, now)
  <1>a. now \in Nat /\ entries \in Entries /\ disk \in Disks /\ live \in Entries
    BY GatewayAssumption, ExpireClosed DEF TypeOK, Disks
  <1>b. ApprovedIn(live) \subseteq ApprovedIn(entries)
    BY ApprovedByExpiry
  <1>1. ASSUME NEW b \in BindingIds, SignBinding(b) PROVE CreditInv'
    <2>1. ApprovedIn(Insert(live, b)) \subseteq ApprovedIn(entries)
      BY <1>a, <1>b, ApprovedByOperation
    <2>2. PICK d \in SaveIfChanged(disk, entries, live, nonce_hwm_ms) :
             disk' \in SaveOver(d, Insert(live, b), nonce_hwm_ms)
      BY <1>1 DEF SignBinding
    <2>3. ApprovedIn(d.entries) \subseteq ApprovedIn(disk.entries) \cup ApprovedIn(live)
      BY <2>2, ApprovedBySave
    <2>4. ApprovedIn(disk'.entries) \subseteq ApprovedIn(d.entries) \cup ApprovedIn(Insert(live, b))
      BY <2>2, ApprovedBySave
    <2>5. ~Persistent => disk' = disk
      BY <2>2, SaveInMemory
    <2> QED
      BY <1>1, <1>b, <2>1, <2>3, <2>4, <2>5, CreditQuiet DEF SignBinding, Answer
  <1>2. ASSUME NEW g \in Grants, RefuseForeignGrant(g) PROVE CreditInv'
    BY <1>2, CreditQuiet DEF RefuseForeignGrant, Answer
  <1>3. ASSUME NEW g \in Grants, RefuseGrant(g) PROVE CreditInv'
    <2>1. ApprovedIn(disk'.entries) \subseteq ApprovedIn(disk.entries) \cup ApprovedIn(live)
      BY <1>3, ApprovedBySave DEF RefuseGrant
    <2>2. ~Persistent => disk' = disk
      BY <1>3, SaveInMemory DEF RefuseGrant
    <2> QED
      BY <1>3, <1>b, <2>1, <2>2, CreditQuiet DEF RefuseGrant, Answer
  <1>4. ASSUME NEW g \in Grants, AcceptGrant(g) PROVE CreditInv'
    <2>1. g.binding_id \in BindingIds
      BY GatewayAssumption DEF Grant
    <2>2. ApprovedIn(Approve(live, g.binding_id)) \subseteq ApprovedIn(entries) \cup {g.binding_id}
      BY <1>a, <1>b, <2>1, ApprovedByOperation
    <2>3. PICK d \in SaveIfChanged(disk, entries, live, nonce_hwm_ms) :
             disk' \in SaveOver(d, Approve(live, g.binding_id), nonce_hwm_ms)
      BY <1>4 DEF AcceptGrant
    <2>4. ApprovedIn(d.entries) \subseteq ApprovedIn(disk.entries) \cup ApprovedIn(live)
      BY <2>3, ApprovedBySave
    <2>5. ApprovedIn(disk'.entries) \subseteq
             ApprovedIn(d.entries) \cup ApprovedIn(Approve(live, g.binding_id))
      BY <2>3, ApprovedBySave
    <2>6. credit' = credit \cup {g.binding_id} /\ stage' = "idle"
             /\ entries' = Approve(live, g.binding_id)
      BY <1>4 DEF AcceptGrant, Answer
    <2>7. ~Persistent => disk' = disk
      BY <2>3, SaveInMemory
    <2> QED
      BY <1>b, <2>2, <2>4, <2>5, <2>6, <2>7 DEF CreditInv
  <1>5. ASSUME NEW r \in Receipts, AdmitReceipt(r) PROVE CreditInv'
    <2>1. ApprovedIn(disk'.entries) \subseteq ApprovedIn(disk.entries) \cup ApprovedIn(entries)
      BY <1>5, ApprovedBySave DEF AdmitReceipt, RecordNonceWithTs
    <2>2. ~Persistent => disk' = disk
      BY <1>5, SaveInMemory DEF AdmitReceipt, RecordNonceWithTs
    <2> QED
      BY <1>5, <2>1, <2>2, CreditQuiet DEF AdmitReceipt
  <1>6. ASSUME NEW r \in Receipts, RefuseReceipt(r) PROVE CreditInv'
    BY <1>6, CreditQuiet DEF RefuseReceipt, Answer
  <1>7. CASE MatchReceipt
    <2>1. receipt \in Receipt
      BY <1>7, GatewayAssumption DEF MatchReceipt, TypeOK
    <2>2. CASE receipt.binding_id = NoBinding
      BY <1>7, <2>2 DEF MatchReceipt, CreditInv
    <2>3. CASE receipt.binding_id # NoBinding
      <3>1. receipt.binding_id \in BindingIds
        BY <2>1, <2>3 DEF Receipt
      <3>2. receipt.binding_id \in credit
        BY <1>7, <2>3, <3>1 DEF MatchReceipt, Matches, CreditInv, ApprovedIn
      <3>3. ApprovedIn(Remove(entries, receipt.binding_id)) = ApprovedIn(entries) \ {receipt.binding_id}
        BY <1>a, <3>1, ApprovedByOperation
      <3>4. disk' \in SaveOver(disk, Remove(entries, receipt.binding_id), nonce_hwm_ms)
        BY <1>7, <2>3 DEF MatchReceipt
      <3>5. CASE Persistent
        <4>1. disk' = Snapshot(Remove(entries, receipt.binding_id), nonce_hwm_ms)
          BY <3>4, <3>5 DEF SaveOver
        <4> QED
          BY <1>7, <2>3, <3>2, <3>3, <3>5, <4>1 DEF MatchReceipt, CreditInv, Snapshot
      <3>6. CASE ~Persistent
        <4>1. disk' = disk /\ disk = EmptySnapshot
          BY <3>4, <3>6, SaveInMemory DEF CreditInv
        <4>2. ApprovedIn(disk'.entries) = {}
          BY <4>1, NoneApproved DEF EmptySnapshot, Snapshot
        <4> QED
          BY <1>7, <2>3, <3>2, <3>3, <4>1, <4>2 DEF MatchReceipt, CreditInv
      <3> QED
        BY <3>5, <3>6
    <2> QED
      BY <2>2, <2>3
  <1>8. CASE RefuseMatch
    BY <1>8, CreditQuiet DEF RefuseMatch, Answer
  <1>9. ASSUME NEW view \in CanViews, WriteFrame(view) PROVE CreditInv'
    <2>1. receipt.binding_id \notin ApprovedIn(entries) \cup ApprovedIn(disk.entries)
      BY <1>9, GatewayAssumption DEF WriteFrame, CreditInv, ApprovedIn
    <2> QED
      BY <1>9, <2>1 DEF WriteFrame, Answer, CreditInv
  <1>10. ASSUME NEW view \in CanViews, RefuseState(view) PROVE CreditInv'
    BY <1>10, CreditQuiet DEF RefuseState, Answer
  <1>11. CASE Tick
    BY <1>11, CreditQuiet DEF Tick
  <1>12. CASE GoesDown
    BY <1>12, NoneApproved, CreditQuiet, DownFacts DEF GoDown
  <1>13. CASE Restart
    <2>1. entries' = LoadedEntries(disk, now)
      BY <1>13 DEF Restart, Readable
    <2>2. ApprovedIn(entries') \subseteq ApprovedIn(disk.entries)
      BY <2>1, ApprovedByExpiry DEF LoadedEntries
    <2> QED
      BY <1>13, <2>2, CreditQuiet DEF Restart, TypeOK
  <1>14. CASE UNCHANGED vars
    BY <1>14, CreditQuiet DEF vars
  <1> QED
    BY <1>1, <1>2, <1>3, <1>4, <1>5, <1>6, <1>7, <1>8, <1>9, <1>10, <1>11, <1>12, <1>13, <1>14
       DEF Next, Finish, GoesDown

(***************************************************************************)
(* If saves and loads do not fail, one accepted grant backs at most one    *)
(* frame, across retries, crashes and restarts, persistent or not.         *)
(***************************************************************************)
THEOREM ApprovalUsedOnce == ~DiskFaults => (Spec => BusWriteSpendsApproval)
  <1> SUFFICES ASSUME ~DiskFaults PROVE Spec => BusWriteSpendsApproval
    OBVIOUS
  <1>1. Init => CreditInv
    BY NoneApproved DEF Init, CreditInv, EmptySnapshot, Snapshot
  <1>2. TypeOK /\ CreditInv /\ [Next]_vars => CreditInv'
    BY CreditInductive
  <1>3. CreditInv /\ [Next]_vars =>
           [\A r \in Receipts : BusWrite(r) /\ r.binding_id # NoBinding => r.binding_id \in credit]_vars
    BY DEF CreditInv, BusWrite
  <1> QED
    BY <1>1, <1>2, <1>3, TypeCorrect, PTL DEF Spec, BusWriteSpendsApproval
-----------------------------------------------------------------------------
(***************************************************************************)
(* The snapshot file, when the queue persists and saves do not fail.  The  *)
(* mark is related to the admitted receipts through the file, which is     *)
(* what survives a crash; memory agrees with the file while it is up.      *)
(***************************************************************************)
MirrorInv ==
    /\ DiskMirrorsMemory
    /\ \A r \in admitted : r.issued_at_ms <= disk.nonce_hwm_ms

SaveWorks == Persistent /\ ~DiskFaults

\* A save that works writes exactly what is in memory.
LEMMA SaveIsSnapshot ==
    ASSUME SaveWorks, NEW d, NEW es, NEW h, NEW d2 \in SaveOver(d, es, h)
    PROVE  d2 = Snapshot(es, h)
  BY DEF SaveWorks, SaveOver

\* A step that ends in a save of the new memory restores the mirror.
LEMMA MirrorBySave ==
    ASSUME MirrorInv, TypeOK, stage # "down",
           disk' = Snapshot(entries', nonce_hwm_ms'),
           nonce_hwm_ms' = nonce_hwm_ms, admitted' = admitted
    PROVE  MirrorInv'
  BY DEF MirrorInv, DiskMirrorsMemory, Snapshot

\* A step that touches neither memory nor file keeps the mirror.
LEMMA MirrorQuiet ==
    ASSUME MirrorInv, stage # "down", UNCHANGED <<now, entries, nonce_hwm_ms, disk, admitted>>
    PROVE  MirrorInv'
  BY DEF MirrorInv, DiskMirrorsMemory

\* Every step, crash and restart included, keeps the mirror.
LEMMA MirrorInductive ==
    ASSUME SaveWorks PROVE TypeOK /\ MirrorInv /\ [Next]_vars => MirrorInv'
  <1> SUFFICES ASSUME TypeOK, MirrorInv, [Next]_vars PROVE MirrorInv'
    OBVIOUS
  <1> USE DEF clockVars, ringVars, queueVars, serverVars, historyVars
  <1>1. ASSUME NEW b \in BindingIds, SignBinding(b) PROVE MirrorInv'
    <2>1. disk' = Snapshot(entries', nonce_hwm_ms)
      BY <1>1, SaveIsSnapshot DEF SignBinding
    <2> QED
      BY <1>1, <2>1, MirrorBySave DEF SignBinding
  <1>2. ASSUME NEW g \in Grants, RefuseForeignGrant(g) PROVE MirrorInv'
    BY <1>2, MirrorQuiet DEF RefuseForeignGrant
  <1>3. ASSUME NEW g \in Grants, RefuseGrant(g) PROVE MirrorInv'
    <2>1. CASE entries' = entries
      BY <1>3, <2>1, MirrorQuiet DEF RefuseGrant, SaveIfChanged
    <2>2. CASE entries' # entries
      <3>1. disk' = Snapshot(entries', nonce_hwm_ms)
        BY <1>3, <2>2, SaveIsSnapshot DEF RefuseGrant, SaveIfChanged
      <3> QED
        BY <1>3, <3>1, MirrorBySave DEF RefuseGrant
    <2> QED
      BY <2>1, <2>2
  <1>4. ASSUME NEW g \in Grants, AcceptGrant(g) PROVE MirrorInv'
    <2>1. disk' = Snapshot(entries', nonce_hwm_ms)
      BY <1>4, SaveIsSnapshot DEF AcceptGrant
    <2> QED
      BY <1>4, <2>1, MirrorBySave DEF AcceptGrant
  <1>5. ASSUME NEW r \in Receipts, AdmitReceipt(r) PROVE MirrorInv'
    <2>1. r.issued_at_ms \in Nat /\ nonce_hwm_ms \in Nat
      BY GatewayAssumption DEF Receipt, TypeOK
    <2>2. /\ \A s \in admitted : s.issued_at_ms \in Nat /\ s.issued_at_ms <= nonce_hwm_ms
          /\ disk.nonce_hwm_ms = nonce_hwm_ms
      BY <1>5, GatewayAssumption DEF AdmitReceipt, MirrorInv, DiskMirrorsMemory, Receipt, TypeOK
    <2>3. admitted' = admitted \cup {r} /\ stage' = "admitted"
             /\ entries' = entries /\ now' = now
      BY <1>5 DEF AdmitReceipt
    <2>4. CASE r.issued_at_ms > nonce_hwm_ms
      <3>1. nonce_hwm_ms' = r.issued_at_ms /\ disk' = Snapshot(entries, r.issued_at_ms)
        BY <1>5, <2>4, SaveIsSnapshot DEF AdmitReceipt, RecordNonceWithTs, RaisedHwm
      <3>2. \A s \in admitted' : s.issued_at_ms <= disk'.nonce_hwm_ms
        BY <2>1, <2>2, <2>3, <2>4, <3>1 DEF Snapshot
      <3> QED
        BY <2>3, <3>1, <3>2 DEF MirrorInv, DiskMirrorsMemory, Snapshot
    <2>5. CASE ~(r.issued_at_ms > nonce_hwm_ms)
      <3>1. nonce_hwm_ms' = nonce_hwm_ms /\ disk' = disk
        BY <1>5, <2>5 DEF AdmitReceipt, RecordNonceWithTs, RaisedHwm
      <3>2. \A s \in admitted' : s.issued_at_ms <= disk'.nonce_hwm_ms
        BY <2>1, <2>2, <2>3, <2>5, <3>1
      <3> QED
        BY <1>5, <2>3, <3>1, <3>2 DEF MirrorInv, DiskMirrorsMemory, AdmitReceipt
    <2> QED
      BY <2>4, <2>5
  <1>6. ASSUME NEW r \in Receipts, RefuseReceipt(r) PROVE MirrorInv'
    BY <1>6, MirrorQuiet DEF RefuseReceipt
  <1>7. CASE MatchReceipt
    <2>1. CASE receipt.binding_id = NoBinding
      BY <1>7, <2>1, MirrorQuiet DEF MatchReceipt
    <2>2. CASE receipt.binding_id # NoBinding
      <3>1. disk' = Snapshot(entries', nonce_hwm_ms)
        BY <1>7, <2>2, SaveIsSnapshot DEF MatchReceipt
      <3> QED
        BY <1>7, <3>1, MirrorBySave DEF MatchReceipt
    <2> QED
      BY <2>1, <2>2
  <1>8. CASE RefuseMatch
    BY <1>8, MirrorQuiet DEF RefuseMatch
  <1>9. ASSUME NEW view \in CanViews, WriteFrame(view) PROVE MirrorInv'
    BY <1>9, MirrorQuiet DEF WriteFrame
  <1>10. ASSUME NEW view \in CanViews, RefuseState(view) PROVE MirrorInv'
    BY <1>10, MirrorQuiet DEF RefuseState
  <1>11. CASE Tick
    <2>1. now \in Nat /\ now' = now + 1 /\ UNCHANGED <<stage, entries, nonce_hwm_ms, disk, admitted>>
      BY <1>11, GatewayAssumption DEF Tick, TypeOK
    <2> QED
      BY <2>1, QueueAssumption DEF MirrorInv, DiskMirrorsMemory
  <1>12. CASE GoesDown
    BY <1>12, DownFacts DEF GoDown, MirrorInv, DiskMirrorsMemory
  <1>13. CASE Restart
    <2>1. entries' = Expire(disk.entries, now) /\ nonce_hwm_ms' = disk.nonce_hwm_ms
             /\ UNCHANGED <<now, disk, admitted>>
      BY <1>13 DEF Restart, Readable, LoadedEntries, SaveWorks
    <2>2. \A b \in BindingIds :
             \/ disk'.entries[b] = entries'[b]
             \/ entries'[b] = "absent" /\ now' >= Binding[b].ttl_expires_at
      BY <2>1, QueueAssumption, GatewayAssumption DEF Expire, TypeOK
    <2> QED
      BY <2>1, <2>2 DEF MirrorInv, DiskMirrorsMemory
  <1>14. CASE UNCHANGED vars
    BY <1>14 DEF vars, MirrorInv, DiskMirrorsMemory
  <1> QED
    BY <1>1, <1>2, <1>3, <1>4, <1>5, <1>6, <1>7, <1>8, <1>9, <1>10, <1>11, <1>12, <1>13, <1>14
       DEF Next, Finish, GoesDown

\* The snapshot mirrors memory in every reachable state.
LEMMA MirrorAlways == SaveWorks => (Spec => []MirrorInv)
  <1> SUFFICES ASSUME SaveWorks PROVE Spec => []MirrorInv
    OBVIOUS
  <1>1. Init => MirrorInv
    BY DEF Init, MirrorInv, DiskMirrorsMemory, EmptySnapshot, Snapshot
  <1>2. TypeOK /\ MirrorInv /\ [Next]_vars => MirrorInv'
    BY MirrorInductive
  <1> QED
    BY <1>1, <1>2, TypeCorrect, PTL DEF Spec

(***************************************************************************)
(* With a working snapshot file a crash at any point loses no approval and *)
(* revives none.                                                           *)
(***************************************************************************)
THEOREM SnapshotIsCurrent == SaveWorks => (Spec => []DiskMirrorsMemory)
  <1> SUFFICES ASSUME SaveWorks PROVE Spec => []DiskMirrorsMemory
    OBVIOUS
  <1>1. MirrorInv => DiskMirrorsMemory
    BY DEF MirrorInv
  <1> QED
    BY <1>1, MirrorAlways, PTL

(***************************************************************************)
(* With a working snapshot file the mark covers every receipt ever         *)
(* admitted, in this process or an earlier one.                            *)
(***************************************************************************)
THEOREM MarkCoversHistory == SaveWorks => (Spec => []HwmCoversAdmitted)
  <1> SUFFICES ASSUME SaveWorks PROVE Spec => []HwmCoversAdmitted
    OBVIOUS
  <1>1. MirrorInv => HwmCoversAdmitted
    BY DEF MirrorInv, DiskMirrorsMemory, HwmCoversAdmitted
  <1> QED
    BY <1>1, MirrorAlways, PTL

\* Only AdmitReceipt lets a receipt past step 5.
LEMMA AdmissionAdmits ==
    ASSUME [Next]_vars, NEW r \in Receipts, Admission(r)
    PROVE  AdmitReceipt(r)
  <1>1. stage = "idle" /\ stage' = "admitted" /\ receipt' = r
    BY DEF Admission
  <1>2. PICK q \in Receipts : AdmitReceipt(q)
    BY <1>1 DEF Next, Finish, SignBinding, RefuseForeignGrant, RefuseGrant, AcceptGrant,
          RefuseReceipt, MatchReceipt, RefuseMatch, WriteFrame, RefuseState, Tick, Crash,
          PanicOnMatch, PanicOnGrant, GoDown, Restart, Answer, vars, serverVars
  <1> QED
    BY <1>1, <1>2 DEF AdmitReceipt

(***************************************************************************)
(* While the startup gate is up, a receipt of an earlier session passes    *)
(* only if none of the receipts admitted so far is newer.  This is what    *)
(* the gate really guarantees: GateRejectsUpToMark is more than it does.   *)
(***************************************************************************)
THEOREM GateStopsOlder == SaveWorks => (Spec => GateAdmitsOnlyNewest)
  <1> SUFFICES ASSUME SaveWorks PROVE Spec => GateAdmitsOnlyNewest
    OBVIOUS
  <1>1. TypeOK /\ MirrorInv /\ [Next]_vars =>
           [\A r \in Receipts :
               Admission(r) /\ loaded_from_prior_session /\ r \in admitted
                  => \A s \in admitted : s.issued_at_ms <= r.issued_at_ms]_vars
    <2> SUFFICES ASSUME TypeOK, MirrorInv, [Next]_vars, NEW r \in Receipts,
                        Admission(r), loaded_from_prior_session, r \in admitted,
                        NEW s \in admitted
                 PROVE  s.issued_at_ms <= r.issued_at_ms
      OBVIOUS
    <2>1. r.issued_at_ms \in Nat \ {0} /\ s.issued_at_ms \in Nat /\ nonce_hwm_ms \in Nat
      BY GatewayAssumption DEF TypeOK, Receipt
    <2>2. r.issued_at_ms <= nonce_hwm_ms /\ s.issued_at_ms <= nonce_hwm_ms
      BY DEF MirrorInv, DiskMirrorsMemory, Admission
    <2>3. AdmitReceipt(r)
      BY AdmissionAdmits
    <2>4. ~BelowGate(r)
      BY <2>3 DEF AdmitReceipt, Admissible
    <2> QED
      BY <2>1, <2>2, <2>4 DEF BelowGate, HwmGateUp
  <1> QED
    BY <1>1, MirrorAlways, TypeCorrect, PTL DEF Spec, GateAdmitsOnlyNewest
-----------------------------------------------------------------------------
(***************************************************************************)
(* The nonce ring.  A receipt stays fresh for two windows after its        *)
(* earliest admission and was stamped within one window of it, so while it *)
(* is fresh only receipts stamped within two windows of it are admitted.   *)
(***************************************************************************)
TwoWindows == 2 * RECEIPT_FRESHNESS_MS
Near(r) ==
    {s.nonce_hex : s \in {x \in Receipts :
        x.issued_at_ms - r.issued_at_ms \in -TwoWindows .. TwoWindows}}

\* The ring has room for the nonces of any four windows in a row: 4096 in eight
\* seconds, in the code.
RingSuffices ==
    \A r \in Receipts : IsFiniteSet(Near(r)) /\ Cardinality(Near(r)) <= NONCE_RING_CAPACITY

\* The nonces from position i on are those of receipts that were near r.
NearFrom(r, i) == \A j \in i..Len(nonce_ring) : nonce_ring[j] \in Near(r)

\* No nonce is twice in the ring; a fresh receipt of this process is in it, with
\* nothing but its contemporaries behind.
RingInv ==
    /\ \A i, j \in 1..Len(nonce_ring) : nonce_ring[i] = nonce_ring[j] => i = j
    /\ \A r \in session : r.issued_at_ms <= now + RECEIPT_FRESHNESS_MS
    /\ \A r \in session : Fresh(r, now) =>
          \E i \in 1..Len(nonce_ring) : nonce_ring[i] = r.nonce_hex /\ NearFrom(r, i)

\* Two receipts that are fresh at the same time are near one another.
LEMMA FreshAreNear ==
    ASSUME NEW r \in Receipts, NEW s \in Receipts, NEW t \in Nat, Fresh(r, t), Fresh(s, t)
    PROVE  s.nonce_hex \in Near(r)
  <1>1. r.issued_at_ms \in Nat /\ s.issued_at_ms \in Nat /\ RECEIPT_FRESHNESS_MS \in Nat
    BY GatewayAssumption DEF Receipt
  <1>2. s.issued_at_ms - r.issued_at_ms \in -TwoWindows .. TwoWindows
    BY <1>1 DEF Fresh, TwoWindows
  <1> QED
    BY <1>2 DEF Near

\* A ring full of different nonces of a set, and one more of the set, is more than
\* the set can hold.
LEMMA FullRing ==
    ASSUME NEW T, IsFiniteSet(T), NEW ring \in Seq(Nonces), NEW n \in T,
           \A i, j \in 1..Len(ring) : ring[i] = ring[j] => i = j,
           \A i \in 1..Len(ring) : ring[i] \in T /\ ring[i] # n
    PROVE  Len(ring) < Cardinality(T)
  <1> DEFINE f == [i \in 1..(Len(ring) + 1) |-> IF i = Len(ring) + 1 THEN n ELSE ring[i]]
  <1>1. Len(ring) \in Nat /\ \A i \in 1..(Len(ring) + 1) : i = Len(ring) + 1 \/ i \in 1..Len(ring)
    OBVIOUS
  <1>2. f \in [1..(Len(ring) + 1) -> T]
    BY <1>1
  <1>3. \A i, j \in 1..(Len(ring) + 1) : f[i] = f[j] => i = j
    BY <1>1
  <1>4. f \in Injection(1..(Len(ring) + 1), T)
    BY <1>2, <1>3 DEF Injection, IsInjective
  <1>5. Cardinality(1..(Len(ring) + 1)) <= Cardinality(T)
    BY <1>4, FS_Injection
  <1>6. Cardinality(1..(Len(ring) + 1)) = Len(ring) + 1
    BY <1>1, FS_Interval
  <1>7. Cardinality(T) \in Nat
    BY FS_CardinalityType
  <1> QED
    BY <1>1, <1>5, <1>6, <1>7

\* A step that leaves the ring, the session and the clock alone.
LEMMA RingQuiet ==
    ASSUME RingInv, UNCHANGED <<nonce_ring, session, now>>
    PROVE  RingInv'
  BY DEF RingInv, Fresh, NearFrom, Near

\* An admission puts its nonce last and drops no nonce that is still needed.
LEMMA RingAdmits ==
    ASSUME RingSuffices, TypeOK, RingInv, NEW x \in Receipts, AdmitReceipt(x)
    PROVE  RingInv'
  <1> DEFINE n == x.nonce_hex
             L == Len(nonce_ring)
  <1>1. /\ nonce_ring' = RecordNonce(nonce_ring, n) /\ session' = session \cup {x}
        /\ now' = now /\ Fresh(x, now) /\ ~NonceSeen(nonce_ring, n)
    BY DEF AdmitReceipt, RecordNonceWithTs, Admissible, clockVars
  <1>2. /\ now \in Nat /\ n \in Nonces /\ L \in Nat /\ L <= NONCE_RING_CAPACITY
        /\ NONCE_RING_CAPACITY \in Nat \ {0} /\ nonce_ring \in Seq(Nonces)
        /\ RECEIPT_FRESHNESS_MS \in Nat /\ x.issued_at_ms \in Nat /\ session \subseteq Receipts
    BY GatewayAssumption, QueueAssumption DEF TypeOK, Receipt
  <1>3. x.issued_at_ms <= now + RECEIPT_FRESHNESS_MS
    BY <1>1, <1>2 DEF Fresh
  <1>4. \A i \in 1..L : nonce_ring[i] # n
    BY <1>1 DEF NonceSeen
  <1>5. \A r \in session : Fresh(r, now) => n \in Near(r)
    BY <1>1, <1>2, FreshAreNear
  <1>6. n \in Near(x)
    BY <1>1, <1>2, FreshAreNear
  <1> HIDE DEF n
  <1>7. CASE ~(L >= NONCE_RING_CAPACITY)
    <2>1. /\ nonce_ring' = Append(nonce_ring, n) /\ Len(nonce_ring') = L + 1
          /\ nonce_ring'[L + 1] = n /\ \A i \in 1..L : nonce_ring'[i] = nonce_ring[i]
      BY <1>1, <1>2, <1>7, AppendFacts DEF RecordNonce
    <2> HIDE DEF L
    <2>2. \A i \in 1..Len(nonce_ring') : i = L + 1 \/ i \in 1..L
      BY <1>2, <2>1
    <2>3. \A i, j \in 1..Len(nonce_ring') : nonce_ring'[i] = nonce_ring'[j] => i = j
      BY <1>4, <2>1, <2>2 DEF RingInv, L
    <2>4. ASSUME NEW r \in session, Fresh(r, now)
          PROVE  \E i \in 1..Len(nonce_ring') : nonce_ring'[i] = r.nonce_hex /\ NearFrom(r, i)'
      <3>1. PICK i \in 1..L : nonce_ring[i] = r.nonce_hex /\ NearFrom(r, i)
        BY <2>4 DEF RingInv, L
      <3>2. \A j \in i..Len(nonce_ring') : j = L + 1 \/ j \in i..L
        BY <1>2, <2>1
      <3>3. \A j \in i..L : j \in 1..L /\ nonce_ring[j] \in Near(r)
        BY <1>2, <3>1 DEF NearFrom, L
      <3>4. \A j \in i..Len(nonce_ring') : nonce_ring'[j] \in Near(r)
        BY <1>5, <2>1, <2>4, <3>2, <3>3
      <3>5. i \in 1..Len(nonce_ring')
        BY <1>2, <2>1
      <3> QED
        BY <2>1, <3>1, <3>4, <3>5 DEF NearFrom, Near
    <2>5. \E i \in 1..Len(nonce_ring') : nonce_ring'[i] = x.nonce_hex /\ NearFrom(x, i)'
      <3>1. L + 1 \in 1..Len(nonce_ring') /\ \A j \in (L + 1)..Len(nonce_ring') : j = L + 1
        BY <1>2, <2>1
      <3>2. \A j \in (L + 1)..Len(nonce_ring') : nonce_ring'[j] \in Near(x)
        BY <1>6, <2>1, <3>1
      <3> QED
        BY <2>1, <3>1, <3>2 DEF n, NearFrom, Near
    <2> QED
      BY <1>1, <1>3, <2>3, <2>4, <2>5 DEF RingInv, Fresh
  <1>8. CASE L >= NONCE_RING_CAPACITY
    <2>1. L > 0 /\ L = NONCE_RING_CAPACITY
      BY <1>2, <1>8
    <2>2. /\ Tail(nonce_ring) \in Seq(Nonces) /\ Len(Tail(nonce_ring)) = L - 1
          /\ \A i \in 1..L - 1 : Tail(nonce_ring)[i] = nonce_ring[i + 1]
      BY <1>2, <2>1, TailFacts
    <2>3. /\ Len(nonce_ring') = L /\ nonce_ring'[L] = n
          /\ \A i \in 1..L - 1 : nonce_ring'[i] = nonce_ring[i + 1]
      <3>1. nonce_ring' = Append(Tail(nonce_ring), n)
        BY <1>1, <1>8 DEF RecordNonce
      <3>2. /\ Len(nonce_ring') = (L - 1) + 1 /\ nonce_ring'[(L - 1) + 1] = n
            /\ \A i \in 1..L - 1 : nonce_ring'[i] = Tail(nonce_ring)[i]
        BY <1>2, <2>2, <3>1, AppendFacts
      <3>3. (L - 1) + 1 = L
        BY <1>2
      <3> QED
        BY <2>2, <3>2, <3>3
    <2> HIDE DEF L
    <2>4. \A i \in 1..L : i = L \/ (i \in 1..L - 1 /\ i + 1 \in 1..L)
      BY <1>2
    <2>5. \A i, j \in 1..Len(nonce_ring') : nonce_ring'[i] = nonce_ring'[j] => i = j
      <3>1. \A i, j \in 1..L : nonce_ring[i] = nonce_ring[j] => i = j
        BY DEF RingInv, L
      <3>2. SUFFICES ASSUME NEW i \in 1..L, NEW j \in 1..L, nonce_ring'[i] = nonce_ring'[j]
                     PROVE  i = j
        BY <2>3
      <3>3. CASE i = L \/ j = L
        BY <1>4, <2>3, <2>4, <3>2, <3>3
      <3>4. CASE i # L /\ j # L
        <4>1. i + 1 = j + 1
          BY <2>3, <2>4, <3>1, <3>2, <3>4
        <4> QED
          BY <1>2, <4>1
      <3> QED
        BY <3>3, <3>4
    <2>6. ASSUME NEW r \in session, Fresh(r, now)
          PROVE  \E i \in 1..Len(nonce_ring') : nonce_ring'[i] = r.nonce_hex /\ NearFrom(r, i)'
      <3>1. PICK i \in 1..L : nonce_ring[i] = r.nonce_hex /\ NearFrom(r, i)
        BY <2>6 DEF RingInv, L
      <3>2. i # 1
        <4>1. SUFFICES ASSUME i = 1 PROVE FALSE
          OBVIOUS
        <4>2. \A j \in 1..L : nonce_ring[j] \in Near(r)
          BY <3>1, <4>1 DEF NearFrom, L
        <4>3. IsFiniteSet(Near(r)) /\ Cardinality(Near(r)) <= NONCE_RING_CAPACITY
          BY <1>2 DEF RingSuffices
        <4>4. \A j, k \in 1..Len(nonce_ring) : nonce_ring[j] = nonce_ring[k] => j = k
          BY DEF RingInv
        <4>5. L < Cardinality(Near(r))
          BY <1>2, <1>4, <1>5, <2>6, <4>2, <4>3, <4>4, FullRing DEF L
        <4>6. Cardinality(Near(r)) \in Nat
          BY <4>3, FS_CardinalityType
        <4> QED
          BY <1>2, <2>1, <4>3, <4>5, <4>6
      <3>3. i - 1 \in 1..L - 1 /\ i - 1 \in 1..L /\ (i - 1) + 1 = i
        BY <1>2, <3>1, <3>2
      <3>4. \A j \in i - 1..L : j = L \/ (j \in 1..L - 1 /\ j + 1 \in i..L)
        BY <1>2, <3>1, <3>2
      <3>5. \A j \in i..L : nonce_ring[j] \in Near(r)
        BY <3>1 DEF NearFrom, L
      <3>6. \A j \in i - 1..Len(nonce_ring') : nonce_ring'[j] \in Near(r)
        BY <1>5, <2>3, <2>6, <3>4, <3>5
      <3> QED
        BY <2>3, <3>1, <3>3, <3>6 DEF NearFrom, Near
    <2>7. \E i \in 1..Len(nonce_ring') : nonce_ring'[i] = x.nonce_hex /\ NearFrom(x, i)'
      <3>1. L \in 1..Len(nonce_ring') /\ \A j \in L..Len(nonce_ring') : j = L
        BY <1>2, <2>1, <2>3
      <3>2. \A j \in L..Len(nonce_ring') : nonce_ring'[j] \in Near(x)
        BY <1>6, <2>3, <3>1
      <3> QED
        BY <2>3, <3>1, <3>2 DEF n, NearFrom, Near
    <2> QED
      BY <1>1, <1>3, <2>5, <2>6, <2>7 DEF RingInv, Fresh
  <1> QED
    BY <1>7, <1>8

\* Every step keeps the fresh receipts in the ring, if it is large enough.
LEMMA RingInductive == RingSuffices /\ TypeOK /\ RingInv /\ [Next]_vars => RingInv'
  <1> SUFFICES ASSUME RingSuffices, TypeOK, RingInv, [Next]_vars PROVE RingInv'
    OBVIOUS
  <1>1. ASSUME NEW r \in Receipts, AdmitReceipt(r) PROVE RingInv'
    BY <1>1, RingAdmits
  <1>2. CASE Tick
    <2>1. /\ now \in Nat /\ now' = now + 1 /\ UNCHANGED <<nonce_ring, session>>
          /\ RECEIPT_FRESHNESS_MS \in Nat
      BY <1>2, GatewayAssumption DEF Tick, TypeOK, queueVars, ringVars, historyVars
    <2>2. ASSUME NEW r \in session
          PROVE  /\ r.issued_at_ms <= now' + RECEIPT_FRESHNESS_MS
                 /\ Fresh(r, now') => Fresh(r, now)
      <3>1. r.issued_at_ms \in Nat /\ r.issued_at_ms <= now + RECEIPT_FRESHNESS_MS
        BY GatewayAssumption DEF TypeOK, Receipt, RingInv
      <3> QED
        BY <2>1, <3>1 DEF Fresh
    <2> QED
      BY <2>1, <2>2 DEF RingInv, NearFrom, Near, Fresh
  <1>3. CASE GoesDown
    <2>1. nonce_ring' = <<>> /\ session' = {} /\ Len(<<>>) = 0
      BY <1>3, DownFacts DEF GoDown
    <2> QED
      BY <2>1 DEF RingInv
  <1>4. CASE UNCHANGED <<nonce_ring, session, now>>
    BY <1>4, RingQuiet
  <1> QED
    BY <1>1, <1>2, <1>3, <1>4 DEF Next, Finish, GoesDown, SignBinding, RefuseForeignGrant, RefuseGrant,
       AcceptGrant, RefuseReceipt, MatchReceipt, RefuseMatch, WriteFrame, RefuseState, Restart,
       vars, clockVars, queueVars, ringVars, historyVars

\* With a ring that is large enough the invariant always holds.
LEMMA RingAlways == RingSuffices => (Spec => []RingInv)
  <1> SUFFICES ASSUME RingSuffices PROVE Spec => []RingInv
    OBVIOUS
  <1>1. Init => RingInv
    <2>1. Len(<<>>) = 0
      OBVIOUS
    <2> QED
      BY <2>1 DEF Init, RingInv
  <1>2. TypeOK /\ RingInv /\ [Next]_vars => RingInv'
    BY RingInductive
  <1> QED
    BY <1>1, <1>2, TypeCorrect, PTL DEF Spec

(***************************************************************************)
(* NonceSeen finds every receipt of this process that is still fresh, if   *)
(* the ring has room for the receipts stamped within two windows of it     *)
(* (SPEC 9.5: the ring must cover at least the freshness window).          *)
(***************************************************************************)
THEOREM RingRemembersTheFresh == RingSuffices => (Spec => []RingCoversWindow)
  <1> SUFFICES ASSUME RingSuffices PROVE Spec => []RingCoversWindow
    OBVIOUS
  <1>1. RingInv => RingCoversWindow
    BY DEF RingInv, RingCoversWindow, NonceSeen
  <1> QED
    BY <1>1, RingAlways, PTL

(***************************************************************************)
(* With such a ring handle_enforce never admits again what this process    *)
(* admitted: a frame is written twice only across a restart.               *)
(***************************************************************************)
THEOREM NoRepeatInSession == RingSuffices => (Spec => RepeatNeedsRestart)
  <1> SUFFICES ASSUME RingSuffices PROVE Spec => RepeatNeedsRestart
    OBVIOUS
  <1>1. RingInv /\ [Next]_vars =>
           [\A r \in Receipts : Admission(r) /\ r \in done => r \notin session]_vars
    <2> SUFFICES ASSUME RingInv, [Next]_vars, NEW r \in Receipts, Admission(r), r \in session
                 PROVE  FALSE
      OBVIOUS
    <2>1. AdmitReceipt(r)
      BY AdmissionAdmits
    <2>2. Fresh(r, now) /\ ~NonceSeen(nonce_ring, r.nonce_hex)
      BY <2>1 DEF AdmitReceipt, Admissible
    <2> QED
      BY <2>2 DEF RingInv, NonceSeen
  <1> QED
    BY <1>1, RingAlways, PTL DEF Spec, RepeatNeedsRestart
-----------------------------------------------------------------------------
(***************************************************************************)
(* The gateway implements the life of an approval (ApprovalLifecycle),     *)
(* when the snapshot file works: every step of the one is a step of the    *)
(* other or leaves the mapped state alone.                                 *)
(***************************************************************************)
AbstractVars == <<ApprovalStatus, done>>

\* What the mapping needs beyond the mirror: a reserved binding is queued nowhere.
ReservedInv ==
    stage = "matched" /\ receipt.binding_id # NoBinding => entries[receipt.binding_id] = "absent"

\* A consumed binding is out of the queue until its request ends.
LEMMA ReservedInductive == TypeOK /\ ReservedInv /\ [Next]_vars => ReservedInv'
  <1> SUFFICES ASSUME TypeOK, ReservedInv, [Next]_vars PROVE ReservedInv'
    OBVIOUS
  <1> USE DEF ReservedInv
  <1>1. CASE stage' # "matched"
    BY <1>1
  <1>2. CASE MatchReceipt
    <2>1. receipt.binding_id # NoBinding => receipt.binding_id \in BindingIds
      BY <1>2, GatewayAssumption DEF MatchReceipt, TypeOK, Receipt
    <2> QED
      BY <1>2, <2>1 DEF MatchReceipt, Remove, TypeOK, Entries
  <1>3. CASE stage' = stage /\ receipt' = receipt /\ entries' = entries
    BY <1>3
  <1> QED
    BY <1>1, <1>2, <1>3 DEF Next, Finish, SignBinding, RefuseForeignGrant, RefuseGrant,
       AcceptGrant, AdmitReceipt, RefuseReceipt, RefuseMatch, WriteFrame, RefuseState, Tick,
       Crash, PanicOnMatch, PanicOnGrant, GoDown, Restart, Answer, vars, queueVars, serverVars

-----------------------------------------------------------------------------
(***************************************************************************)
(* The mapped steps, one binding at a time.                                *)
(***************************************************************************)

\* Nothing happens to the approvals.
LEMMA Stutter ==
    ASSUME \A b \in BindingIds : StatusOf(b)' = StatusOf(b), done' = done
    PROVE  UNCHANGED AbstractVars
  BY DEF AbstractVars, ApprovalStatus

\* Every binding keeps its status or is forgotten.
LEMMA Forgets ==
    ASSUME \A b \in BindingIds : StatusOf(b)' \in {StatusOf(b), "none"}, done' = done
    PROVE  \E S \in SUBSET BindingIds : Lifecycle!Forget(S)
  <1> DEFINE S == {b \in BindingIds : StatusOf(b)' = "none"}
  <1>1. Lifecycle!Forget(S)
    BY DEF Lifecycle!Forget, Lifecycle!Forgetting, ApprovalStatus
  <1> QED
    BY <1>1

\* A binding that becomes pending, while others may expire, is a registration.
LEMMA Registers ==
    ASSUME NEW b \in BindingIds, StatusOf(b) # "reserved", StatusOf(b)' = "pending",
           \A x \in BindingIds \ {b} : StatusOf(x)' \in {StatusOf(x), "none"}, done' = done
    PROVE  \E S \in SUBSET BindingIds : Lifecycle!Register(b, S)
  <1> DEFINE S == {x \in BindingIds : StatusOf(x)' = "none"}
  <1>1. Lifecycle!Register(b, S)
    BY DEF Lifecycle!Register, Lifecycle!Forgetting, ApprovalStatus
  <1> QED
    BY <1>1

\* A binding that becomes approved, while others may expire, is an approval.
LEMMA Approves ==
    ASSUME NEW b \in BindingIds, StatusOf(b) \in {"pending", "approved"},
           StatusOf(b)' = "approved",
           \A x \in BindingIds \ {b} : StatusOf(x)' \in {StatusOf(x), "none"}, done' = done
    PROVE  \E S \in SUBSET BindingIds : Lifecycle!Approve(b, S)
  <1> DEFINE S == {x \in BindingIds : StatusOf(x)' = "none"}
  <1>1. Lifecycle!Approve(b, S)
    BY DEF Lifecycle!Approve, Lifecycle!Forgetting, ApprovalStatus
  <1> QED
    BY <1>1

\* An approved binding that a request takes is a reservation.
LEMMA Reserves ==
    ASSUME NEW b \in BindingIds, StatusOf(b) = "approved", StatusOf(b)' = "reserved",
           \A x \in BindingIds \ {b} : StatusOf(x)' = StatusOf(x), done' = done
    PROVE  Lifecycle!Reserve(b)
  BY DEF Lifecycle!Reserve, ApprovalStatus

\* A frame written for a reserved binding spends it.
LEMMA Spends ==
    ASSUME NEW r \in Receipts, r.binding_id \in BindingIds,
           StatusOf(r.binding_id) = "reserved", StatusOf(r.binding_id)' = "none",
           \A x \in BindingIds \ {r.binding_id} : StatusOf(x)' = StatusOf(x),
           done' = done \cup {r}
    PROVE  Lifecycle!Spend(r)
  BY DEF Lifecycle!Spend, ApprovalStatus

\* A frame that needs no approval.
LEMMA Performs ==
    ASSUME NEW r \in Receipts, \A b \in BindingIds : StatusOf(b)' = StatusOf(b),
           done' = done \cup {r}
    PROVE  Lifecycle!Perform(r)
  BY DEF Lifecycle!Perform, ApprovalStatus

-----------------------------------------------------------------------------
\* Every step of the gateway is a step of the lifecycle or changes nothing of it.
LEMMA StepMaps ==
    ASSUME SaveWorks, TypeOK, MirrorInv, ReservedInv, [Next]_vars
    PROVE  [Lifecycle!Next]_AbstractVars
  <1> USE DEF clockVars, ringVars, queueVars, serverVars, historyVars
  <1>a. NoBinding \notin BindingIds
    BY GatewayAssumption
  <1>b. now \in Nat /\ entries \in Entries /\ disk.entries \in Entries
    BY GatewayAssumption DEF TypeOK
  <1>f. ASSUME \A b \in BindingIds : StatusOf(b)' \in {StatusOf(b), "none"}, done' = done
        PROVE  [Lifecycle!Next]_AbstractVars
    BY <1>f, Forgets DEF Lifecycle!Next
  <1>s. ASSUME \A b \in BindingIds : StatusOf(b)' = StatusOf(b), done' = done
        PROVE  [Lifecycle!Next]_AbstractVars
    BY <1>s, Stutter
  <1>1. ASSUME NEW b \in BindingIds, SignBinding(b) PROVE [Lifecycle!Next]_AbstractVars
    <2>1. stage = "idle" /\ stage' = "idle" /\ done' = done
             /\ entries' = Insert(Expire(entries, now), b)
      BY <1>1 DEF SignBinding, Answer
    <2>2. StatusOf(b) # "reserved" /\ StatusOf(b)' = "pending"
      BY <1>b, <2>1 DEF StatusOf, Queued, Insert, Expire, Entries, EntryStatus
    <2>3. \A x \in BindingIds \ {b} : StatusOf(x)' \in {StatusOf(x), "none"}
      BY <1>b, <2>1 DEF StatusOf, Queued, Insert, Expire, Entries, EntryStatus
    <2> QED
      BY <2>1, <2>2, <2>3, Registers DEF Lifecycle!Next
  <1>2. ASSUME NEW g \in Grants, RefuseForeignGrant(g) PROVE [Lifecycle!Next]_AbstractVars
    BY <1>2, <1>s DEF RefuseForeignGrant, Answer, StatusOf, Queued
  <1>3. ASSUME NEW g \in Grants, RefuseGrant(g) PROVE [Lifecycle!Next]_AbstractVars
    <2>1. stage = "idle" /\ stage' = "idle" /\ done' = done /\ entries' = Expire(entries, now)
      BY <1>3 DEF RefuseGrant, Answer
    <2>2. \A x \in BindingIds : StatusOf(x)' \in {StatusOf(x), "none"}
      BY <1>b, <2>1 DEF StatusOf, Queued, Expire, Entries, EntryStatus
    <2> QED
      BY <1>f, <2>1, <2>2
  <1>4. ASSUME NEW g \in Grants, AcceptGrant(g) PROVE [Lifecycle!Next]_AbstractVars
    <2> DEFINE b == g.binding_id
    <2>1. b \in BindingIds
      BY GatewayAssumption DEF Grant
    <2>2. /\ stage = "idle" /\ stage' = "idle" /\ done' = done
          /\ Expire(entries, now)[b] # "absent"
          /\ entries' = Approve(Expire(entries, now), b)
      BY <1>4 DEF AcceptGrant, Answer
    <2>3. StatusOf(b) \in {"pending", "approved"} /\ StatusOf(b)' = "approved"
      BY <1>b, <2>1, <2>2 DEF StatusOf, Queued, Approve, Expire, Entries, EntryStatus
    <2>4. \A x \in BindingIds \ {b} : StatusOf(x)' \in {StatusOf(x), "none"}
      BY <1>b, <2>1, <2>2 DEF StatusOf, Queued, Approve, Expire, Entries, EntryStatus
    <2> QED
      BY <2>1, <2>2, <2>3, <2>4, Approves DEF Lifecycle!Next
  <1>5. ASSUME NEW r \in Receipts, AdmitReceipt(r) PROVE [Lifecycle!Next]_AbstractVars
    BY <1>5, <1>s DEF AdmitReceipt, StatusOf, Queued
  <1>6. ASSUME NEW r \in Receipts, RefuseReceipt(r) PROVE [Lifecycle!Next]_AbstractVars
    BY <1>6, <1>s DEF RefuseReceipt, Answer, StatusOf, Queued
  <1>7. CASE MatchReceipt
    <2>1. stage = "admitted" /\ stage' = "matched" /\ receipt' = receipt /\ done' = done
             /\ Matches(receipt) /\ receipt \in Receipt
      BY <1>7, GatewayAssumption DEF MatchReceipt, TypeOK
    <2>2. CASE receipt.binding_id = NoBinding
      BY <1>7, <1>a, <2>1, <2>2, <1>s DEF MatchReceipt, StatusOf, Queued
    <2>3. CASE receipt.binding_id # NoBinding
      <3>1. receipt.binding_id \in BindingIds
        BY <2>1, <2>3 DEF Receipt
      <3>2. entries' = Remove(entries, receipt.binding_id)
        BY <1>7, <2>3 DEF MatchReceipt
      <3>3. StatusOf(receipt.binding_id) = "approved" /\ StatusOf(receipt.binding_id)' = "reserved"
        BY <2>1, <2>3 DEF StatusOf, Queued, Matches
      <3>4. \A x \in BindingIds \ {receipt.binding_id} : StatusOf(x)' = StatusOf(x)
        BY <1>b, <2>1, <3>1, <3>2 DEF StatusOf, Queued, Remove, Entries
      <3> QED
        BY <2>1, <3>1, <3>3, <3>4, Reserves DEF Lifecycle!Next
    <2> QED
      BY <2>2, <2>3
  <1>8. CASE RefuseMatch
    BY <1>8, <1>s DEF RefuseMatch, Answer, StatusOf, Queued
  <1>9. ASSUME NEW view \in CanViews, WriteFrame(view) PROVE [Lifecycle!Next]_AbstractVars
    <2>1. /\ stage = "matched" /\ stage' = "idle" /\ entries' = entries
          /\ done' = done \cup {receipt} /\ receipt \in Receipts
      BY <1>9 DEF WriteFrame, Answer, TypeOK
    <2>2. CASE receipt.binding_id = NoBinding
      <3>1. \A b \in BindingIds : StatusOf(b)' = StatusOf(b)
        BY <1>a, <2>1, <2>2 DEF StatusOf, Queued
      <3> QED
        BY <2>1, <2>2, <3>1, Performs DEF Lifecycle!Next
    <2>3. CASE receipt.binding_id # NoBinding
      <3>1. receipt.binding_id \in BindingIds
        BY <2>1, <2>3, GatewayAssumption DEF Receipt
      <3>2. StatusOf(receipt.binding_id) = "reserved"
        BY <2>1 DEF StatusOf
      <3>3. \A b \in BindingIds : b = receipt.binding_id => StatusOf(b)' = "none"
        BY <2>1, <2>3 DEF StatusOf, Queued, ReservedInv
      <3>4. \A x \in BindingIds \ {receipt.binding_id} : StatusOf(x)' = StatusOf(x)
        BY <2>1 DEF StatusOf, Queued
      <3>5. PICK r \in Receipts : r = receipt
        BY <2>1
      <3> QED
        BY <2>1, <2>3, <3>1, <3>2, <3>3, <3>4, Spends DEF Lifecycle!Next
    <2> QED
      BY <2>2, <2>3
  <1>10. ASSUME NEW view \in CanViews, RefuseState(view) PROVE [Lifecycle!Next]_AbstractVars
    <2>1. \A b \in BindingIds : StatusOf(b)' \in {StatusOf(b), "none"}
      BY <1>10, <1>a DEF RefuseState, Answer, StatusOf, Queued, ReservedInv
    <2> QED
      BY <1>10, <1>f, <2>1 DEF RefuseState
  <1>11. CASE Tick
    <2>1. now' = now + 1 /\ UNCHANGED <<entries, disk, stage, receipt, done>>
      BY <1>11 DEF Tick
    <2>2. \A b \in BindingIds : StatusOf(b)' \in {StatusOf(b), "none"}
      BY <1>b, <2>1, QueueAssumption DEF StatusOf, Queued, Expire
    <2> QED
      BY <1>f, <2>1, <2>2
  <1>12. CASE GoesDown
    <2>1. stage # "down" /\ stage' = "down" /\ UNCHANGED <<now, disk, done>>
      BY <1>12, DownFacts DEF GoDown
    <2>2. \A b \in BindingIds : StatusOf(b)' \in {StatusOf(b), "none"}
      BY <1>a, <1>b, <2>1, QueueAssumption
         DEF StatusOf, Queued, Expire, MirrorInv, DiskMirrorsMemory, ReservedInv
    <2> QED
      BY <1>f, <2>1, <2>2
  <1>13. CASE Restart
    <2>1. stage = "down" /\ stage' = "idle" /\ entries' = Expire(disk.entries, now)
             /\ UNCHANGED <<now, disk, done>>
      BY <1>13 DEF Restart, Readable, LoadedEntries, SaveWorks
    <2>2. \A b \in BindingIds : StatusOf(b)' = StatusOf(b)
      BY <2>1 DEF StatusOf, Queued
    <2> QED
      BY <1>s, <2>1, <2>2
  <1>14. CASE UNCHANGED vars
    BY <1>14, <1>s DEF vars, StatusOf, Queued
  <1> QED
    BY <1>1, <1>2, <1>3, <1>4, <1>5, <1>6, <1>7, <1>8, <1>9, <1>10, <1>11, <1>12, <1>13, <1>14
       DEF Next, Finish, GoesDown

(***************************************************************************)
(* With a working snapshot file the gateway implements the promised life   *)
(* of an approval (SPEC 9.7): every frame for a binding follows a          *)
(* reservation of an approval that is never given back.                    *)
(***************************************************************************)
THEOREM GatewayImplementsLifecycle == SaveWorks => (Spec => ImplementsLifecycle)
  <1> SUFFICES ASSUME SaveWorks PROVE Spec => ImplementsLifecycle
    OBVIOUS
  <1>1. Init => Lifecycle!Init
    BY DEF Init, Lifecycle!Init, ApprovalStatus, StatusOf, Queued, NoEntries
  <1>2. Init => ReservedInv
    BY DEF Init, ReservedInv
  <1>3. TypeOK /\ MirrorInv /\ ReservedInv /\ [Next]_vars => [Lifecycle!Next]_AbstractVars
    BY StepMaps
  <1> QED
    BY <1>1, <1>2, <1>3, ReservedInductive, MirrorAlways, TypeCorrect, PTL
       DEF Spec, ImplementsLifecycle, Lifecycle!Spec, AbstractVars
=============================================================================
