---------------------------- MODULE PendingQueue ----------------------------
(***************************************************************************)
(* The gateway's pending-approval queue, nonce ring and snapshot file      *)
(* (crates/a2g-gateway/src/pending.rs), as operators on their values.      *)
(* Gateway.tla holds the state and says when each operation runs.          *)
(*                                                                         *)
(* A PendingEntry is reduced to its status: the binding of an id never     *)
(* changes (binding ids are fresh UUIDs), so Binding gives its fields.     *)
(***************************************************************************)
EXTENDS Naturals, Sequences

CONSTANTS
    BindingIds,           \* the binding_id values that occur
    Binding,              \* the PendingApprovalBinding of each id
    NONCE_RING_CAPACITY,  \* 4096 in the code
    Persistent,           \* the gateway runs with --queue-persist
    DiskFaults            \* writing or reading the snapshot may fail

ASSUME QueueAssumption ==
    /\ \A b \in BindingIds : Binding[b].ttl_expires_at \in Nat
    /\ NONCE_RING_CAPACITY \in Nat \ {0}
    /\ Persistent \in BOOLEAN
    /\ DiskFaults \in BOOLEAN

EntryStatus == {"absent", "pending", "approved"}
Entries == [BindingIds -> EntryStatus]
NoEntries == [b \in BindingIds |-> "absent"]

(***************************************************************************)
(* Queue operations.                                                       *)
(***************************************************************************)

\* A binding presented again replaces its entry, and with it any approval.
Insert(es, b) == [es EXCEPT ![b] = "pending"]

Approve(es, b) == [es EXCEPT ![b] = IF @ = "absent" THEN @ ELSE "approved"]

RemoveSlip(es, b) == es   \* forgets to take the entry out

Remove(es, b) == [es EXCEPT ![b] = "absent"]

Expire(es, t) ==
    [b \in BindingIds |-> IF t < Binding[b].ttl_expires_at THEN es[b] ELSE "absent"]

(***************************************************************************)
(* Nonce ring and high-water mark.                                         *)
(***************************************************************************)

NonceSeenSlip(ring, n) == ring # <<>> /\ ring[Len(ring)] = n   \* looks at the newest only

NonceSeen(ring, n) == \E i \in 1..Len(ring) : ring[i] = n

RecordNonceEarly(ring, n) ==   \* evicts one nonce too early
    IF Len(ring) >= NONCE_RING_CAPACITY - 1 THEN Append(Tail(ring), n) ELSE Append(ring, n)

RecordNonce(ring, n) ==
    IF Len(ring) >= NONCE_RING_CAPACITY THEN Append(Tail(ring), n) ELSE Append(ring, n)

RaisedHwm(hwm, t) == IF t > hwm THEN t ELSE hwm

HwmGateUp(loaded, hwm) == loaded /\ hwm > 0

(***************************************************************************)
(* Persistence.  The snapshot holds the entries and the high-water mark,   *)
(* never the ring.  It is written to a temporary file, synced and renamed, *)
(* so a save replaces the file or leaves it; a failed save is only logged. *)
(***************************************************************************)

Snapshot(es, hwm) == [entries |-> es, nonce_hwm_ms |-> hwm]
EmptySnapshot == Snapshot(NoEntries, 0)

\* The file contents that can result from saving over the contents d.
SaveOver(d, es, hwm) ==
    IF ~Persistent THEN {d}
    ELSE {Snapshot(es, hwm)} \cup (IF DiskFaults THEN {d} ELSE {})

\* The same for an operation that saves only when it changed the entries.
SaveIfChanged(d, old, es, hwm) == IF es = old THEN {d} ELSE SaveOver(d, es, hwm)

\* The snapshots that load() may see in the file d.
Readable(d) == {d} \cup (IF DiskFaults THEN {EmptySnapshot} ELSE {})

LoadedEntriesSlip(snap, t) == snap.entries   \* keeps expired entries

LoadedEntries(snap, t) == Expire(snap.entries, t)
LoadedFlag(snap, t) == LoadedEntries(snap, t) # NoEntries \/ snap.nonce_hwm_ms > 0
=============================================================================
