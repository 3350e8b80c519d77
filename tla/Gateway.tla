------------------------------ MODULE Gateway ------------------------------
(***************************************************************************)
(* The enforcing gateway (crates/a2g-gateway/src/server.rs): one thread    *)
(* accepts a connection, handles its single request to the end and answers.*)
(* handle_enforce is split where a crash or the passing of time can be     *)
(* told apart: after the nonce is recorded (steps 1-5), after the binding  *)
(* is consumed (steps 6-7) and at the bus write.  SignBinding and          *)
(* SubmitGrant change the queue once and are one step each.                *)
(*                                                                         *)
(* Clients are arbitrary: any receipt, binding or grant that exists may be *)
(* presented at any time and any number of times, which is what lost       *)
(* answers and retries amount to.                                          *)
(***************************************************************************)
EXTENDS PendingQueue, Integers

CONSTANTS
    Nonces,                \* the nonce_hex values that occur
    Receipts,              \* GatewayReceipts that clients may present
    Grants,                \* ApprovalGrants that clients may present
    NoReceipt,             \* no request is being enforced
    RECEIPT_FRESHNESS_MS,  \* 2000 in the code; here in clock ticks
    ATTESTATION_FRESHNESS_MS, \* 500 in the code
    ReaderActive,          \* the gateway runs with --state-ingest
    MaxTime,               \* bound: the clock stops here
    MaxCrashes             \* bound: how often it may be ended from outside

NoBinding == ""   \* the binding_id of a single-phase receipt

\* What classify_vehicle_tool and classify_cockpit_tool say of a tool.
Domains == {"forbidden", "cockpit_forbidden", "cockpit_hitl", "sensitive", "other"}

\* A text that a refusal quotes by its first eight bytes: the expected one,
\* another one, or one that has no eight bytes to quote.
Texts == {"right", "wrong", "short"}

Receipt == [nonce_hex : Nonces, issued_at_ms : Nat \ {0},
            tool : Domains, decision : STRING,
            binding_id : BindingIds \cup {NoBinding},
            signature_ok : BOOLEAN,    \* the rich domain's key signed these fields
            request_hash : Texts,      \* "right": the hash of tool, params and time
            state_trust : {"attested", "operator_trusted", "none"},
            attested_ok : BOOLEAN,     \* an attested state is present and the ECU key signed it
            attested_at : Nat]

Grant == [binding_id : BindingIds, request_hash : STRING, expires_at : Nat,
          approver_pubkey : Texts,     \* "right": the operator's key
          signature_ok : BOOLEAN]

ASSUME GatewayAssumption ==
    /\ Receipts \subseteq Receipt
    /\ Grants \subseteq Grant
    /\ NoBinding \notin BindingIds
    /\ NoReceipt \notin Receipts
    /\ RECEIPT_FRESHNESS_MS \in Nat
    /\ ATTESTATION_FRESHNESS_MS \in Nat
    /\ ReaderActive \in BOOLEAN
    /\ MaxTime \in Nat
    /\ MaxCrashes \in Nat

VARIABLES
    now,        \* the wall clock
    \* the queue in memory
    entries, nonce_ring, nonce_hwm_ms, loaded_from_prior_session,
    disk,       \* the snapshot file
    \* the server thread
    stage,      \* how far it is: "idle", "admitted", "matched", or "down"
    receipt,    \* the receipt handle_enforce works on
    response,   \* the last answer
    crashes,    \* how often the gateway was ended from outside
    \* history, read by no action
    admitted,   \* receipts that ever passed step 5
    session,    \* those of the running process
    done,       \* receipts whose frame was ever written to the bus
    granted,    \* bindings a grant was ever accepted for
    credit      \* those with a grant accepted since their last bus write

clockVars == <<now, crashes>>
ringVars == <<nonce_ring, nonce_hwm_ms, loaded_from_prior_session>>
queueVars == <<entries, ringVars, disk>>
serverVars == <<stage, receipt, response>>
historyVars == <<admitted, session, done, granted, credit>>
vars == <<clockVars, queueVars, serverVars, historyVars>>

Responses == {"none", "SignedBinding", "GrantAccepted", "Enforced", "Refused"}

TypeOK ==
    /\ now \in 0..MaxTime
    /\ crashes \in 0..MaxCrashes
    /\ entries \in Entries
    /\ nonce_ring \in Seq(Nonces)
    /\ Len(nonce_ring) <= NONCE_RING_CAPACITY
    /\ nonce_hwm_ms \in Nat
    /\ loaded_from_prior_session \in BOOLEAN
    /\ disk \in [entries : Entries, nonce_hwm_ms : Nat]
    /\ \/ stage \in {"idle", "down"} /\ receipt = NoReceipt
       \/ stage \in {"admitted", "matched"} /\ receipt \in admitted
    /\ response \in Responses
    /\ admitted \subseteq Receipts
    /\ session \subseteq admitted
    /\ done \subseteq admitted
    /\ granted \subseteq BindingIds
    /\ credit \subseteq granted

Init ==
    /\ now = 0
    /\ crashes = 0
    /\ entries = NoEntries
    /\ nonce_ring = <<>>
    /\ nonce_hwm_ms = 0
    /\ loaded_from_prior_session = FALSE
    /\ disk = EmptySnapshot
    /\ stage = "idle"
    /\ receipt = NoReceipt
    /\ response = "none"
    /\ admitted = {}
    /\ session = {}
    /\ done = {}
    /\ granted = {}
    /\ credit = {}
-----------------------------------------------------------------------------
\* The handler returns with this answer.
Answer(resp) ==
    /\ stage' = "idle"
    /\ receipt' = NoReceipt
    /\ response' = resp

(***************************************************************************)
(* SignBinding: expire, then insert; both save.                            *)
(***************************************************************************)
SignBinding(b) ==
    LET live == Expire(entries, now)
    IN  /\ stage = "idle"
        /\ entries' = Insert(live, b)
        /\ \E d \in SaveIfChanged(disk, entries, live, nonce_hwm_ms) :
              disk' \in SaveOver(d, Insert(live, b), nonce_hwm_ms)
        /\ Answer("SignedBinding")
        /\ UNCHANGED <<clockVars, ringVars, historyVars>>

(***************************************************************************)
(* The process ends: memory is gone, the snapshot file stays.              *)
(***************************************************************************)
GoDown ==
    /\ entries' = NoEntries
    /\ nonce_ring' = <<>>
    /\ nonce_hwm_ms' = 0
    /\ loaded_from_prior_session' = FALSE
    /\ stage' = "down"
    /\ receipt' = NoReceipt
    /\ response' = "none"
    /\ session' = {}
    /\ UNCHANGED <<now, disk, admitted, done, granted, credit>>

(***************************************************************************)
(* SubmitGrant.  A grant of another key is refused before the queue is     *)
(* touched; any other answer comes after the queue was expired.  The       *)
(* refusal quotes the key, and a key too short to quote is a panic, which  *)
(* ends the process: main serves on its own thread.                        *)
(***************************************************************************)
VerifiedAgainst(g, b, t) ==
    /\ g.request_hash = Binding[b].request_hash
    /\ t < g.expires_at
    /\ g.signature_ok

RefuseForeignGrant(g) ==
    /\ stage = "idle"
    /\ g.approver_pubkey = "wrong"
    /\ Answer("Refused")
    /\ UNCHANGED <<clockVars, queueVars, historyVars>>

PanicOnGrant(g) ==
    /\ stage = "idle"
    /\ g.approver_pubkey = "short"
    /\ GoDown
    /\ UNCHANGED crashes

RefuseGrant(g) ==
    LET live == Expire(entries, now)
    IN  /\ stage = "idle"
        /\ g.approver_pubkey = "right"
        /\ \/ live[g.binding_id] = "absent"
           \/ ~VerifiedAgainst(g, g.binding_id, now)
        /\ entries' = live
        /\ disk' \in SaveIfChanged(disk, entries, live, nonce_hwm_ms)
        /\ Answer("Refused")
        /\ UNCHANGED <<clockVars, ringVars, historyVars>>

AcceptGrant(g) ==
    LET live == Expire(entries, now)
        b == g.binding_id
    IN  /\ stage = "idle"
        /\ g.approver_pubkey = "right"
        /\ live[b] # "absent"
        /\ VerifiedAgainst(g, b, now)
        /\ entries' = Approve(live, b)
        /\ \E d \in SaveIfChanged(disk, entries, live, nonce_hwm_ms) :
              disk' \in SaveOver(d, Approve(live, b), nonce_hwm_ms)
        /\ granted' = granted \cup {b}
        /\ credit' = credit \cup {b}
        /\ Answer("GrantAccepted")
        /\ UNCHANGED <<clockVars, ringVars, admitted, session, done>>
-----------------------------------------------------------------------------
(***************************************************************************)
(* Enforce, steps 1 to 5.  They end with the nonce recorded, which raises  *)
(* and saves the high-water mark and drops the startup gate when the       *)
(* receipt is newer than the mark.                                         *)
(***************************************************************************)
RequiresHitlBinding(r) == r.tool = "cockpit_hitl"

Fresh(r, t) == t - r.issued_at_ms \in -RECEIPT_FRESHNESS_MS .. RECEIPT_FRESHNESS_MS

BelowGateSlip(r) ==   \* leaves the whole window open
    /\ HwmGateUp(loaded_from_prior_session, nonce_hwm_ms)
    /\ r.issued_at_ms < nonce_hwm_ms - RECEIPT_FRESHNESS_MS

BelowGate(r) ==
    /\ HwmGateUp(loaded_from_prior_session, nonce_hwm_ms)
    /\ r.issued_at_ms < nonce_hwm_ms

Admissible(r) ==
    /\ r.tool \notin {"forbidden", "cockpit_forbidden"}
    /\ r.signature_ok
    /\ r.decision = "ALLOW"
    /\ RequiresHitlBinding(r) => r.binding_id # NoBinding
    /\ Fresh(r, now)
    /\ ~BelowGate(r)
    /\ ~NonceSeen(nonce_ring, r.nonce_hex)

RecordNonceWithTsSlip(n, t) ==   \* raises the mark without saving it
    /\ nonce_ring' = RecordNonce(nonce_ring, n)
    /\ nonce_hwm_ms' = RaisedHwm(nonce_hwm_ms, t)
    /\ loaded_from_prior_session' = (loaded_from_prior_session /\ t <= nonce_hwm_ms)
    /\ UNCHANGED disk

RecordNonceWithTs(n, t) ==
    /\ nonce_ring' = RecordNonce(nonce_ring, n)
    /\ nonce_hwm_ms' = RaisedHwm(nonce_hwm_ms, t)
    /\ IF t > nonce_hwm_ms
         THEN /\ loaded_from_prior_session' = FALSE
              /\ disk' \in SaveOver(disk, entries, t)
         ELSE UNCHANGED <<loaded_from_prior_session, disk>>

AdmitReceipt(r) ==
    /\ stage = "idle"
    /\ Admissible(r)
    /\ RecordNonceWithTs(r.nonce_hex, r.issued_at_ms)
    /\ stage' = "admitted"
    /\ receipt' = r
    /\ admitted' = admitted \cup {r}
    /\ session' = session \cup {r}
    /\ UNCHANGED <<clockVars, entries, response, done, granted, credit>>

RefuseReceipt(r) ==
    /\ stage = "idle"
    /\ ~Admissible(r)
    /\ Answer("Refused")
    /\ UNCHANGED <<clockVars, queueVars, historyVars>>

(***************************************************************************)
(* Steps 6 and 7: the action must match and the binding, if any, must be   *)
(* approved; it is removed and the removal saved.  The queue is not        *)
(* expired here.  The refusal of a wrong request_hash quotes it, and the   *)
(* signature admits any number of bytes there: too few are a panic.        *)
(***************************************************************************)
MatchesSlip(r) ==   \* a queued binding is enough
    /\ r.request_hash = "right"
    /\ r.binding_id # NoBinding => entries[r.binding_id] # "absent"

Matches(r) ==
    /\ r.request_hash = "right"
    /\ r.binding_id # NoBinding => entries[r.binding_id] = "approved"

MatchReceipt ==
    /\ stage = "admitted"
    /\ Matches(receipt)
    /\ IF receipt.binding_id = NoBinding
         THEN UNCHANGED <<entries, disk>>
         ELSE /\ entries' = Remove(entries, receipt.binding_id)
              /\ disk' \in SaveOver(disk, Remove(entries, receipt.binding_id), nonce_hwm_ms)
    /\ stage' = "matched"
    /\ UNCHANGED <<clockVars, ringVars, receipt, response, historyVars>>

RefuseMatchSlip ==   \* waits for the approval instead of refusing
    /\ stage = "admitted"
    /\ receipt.request_hash = "wrong"
    /\ Answer("Refused")
    /\ UNCHANGED <<clockVars, queueVars, historyVars>>

RefuseMatch ==
    /\ stage = "admitted"
    /\ receipt.request_hash # "short"
    /\ ~Matches(receipt)
    /\ Answer("Refused")
    /\ UNCHANGED <<clockVars, queueVars, historyVars>>

PanicOnMatch ==
    /\ stage = "admitted"
    /\ receipt.request_hash = "short"
    /\ GoDown
    /\ UNCHANGED crashes

(***************************************************************************)
(* The attestation check, the re-gate of Sensitive tools on the state the  *)
(* gateway itself ingested (any view of it, at that instant), and the bus  *)
(* write.                                                                  *)
(***************************************************************************)
Attested(r, t) ==
    r.state_trust = "attested" =>
        r.attested_ok /\ t - r.attested_at \in 0 .. ATTESTATION_FRESHNESS_MS

CanViews == {"parked", "moving", "stale"}

StateGate(r, view) ==
    r.tool = "sensitive" => view = "parked" \/ (view = "stale" /\ ~ReaderActive)

WriteFrame(view) ==
    /\ stage = "matched"
    /\ Attested(receipt, now)
    /\ StateGate(receipt, view)
    /\ done' = done \cup {receipt}
    /\ credit' = credit \ {receipt.binding_id}
    /\ Answer("Enforced")
    /\ UNCHANGED <<clockVars, queueVars, admitted, session, granted>>

RefuseState(view) ==
    /\ stage = "matched"
    /\ ~(Attested(receipt, now) /\ StateGate(receipt, view))
    /\ Answer("Refused")
    /\ UNCHANGED <<clockVars, queueVars, historyVars>>
-----------------------------------------------------------------------------
Tick ==
    /\ now < MaxTime
    /\ now' = now + 1
    /\ UNCHANGED <<crashes, queueVars, serverVars, historyVars>>

\* The process is ended from outside, by a signal or a power cut.
Crash ==
    /\ stage # "down"
    /\ crashes < MaxCrashes
    /\ crashes' = crashes + 1
    /\ GoDown

\* PendingQueue::with_persist, or ::new when there is nothing to load.
Restart ==
    /\ stage = "down"
    /\ \E snap \in Readable(disk) :
          /\ entries' = LoadedEntries(snap, now)
          /\ nonce_hwm_ms' = snap.nonce_hwm_ms
          /\ loaded_from_prior_session' = LoadedFlag(snap, now)
    /\ stage' = "idle"
    /\ UNCHANGED <<clockVars, nonce_ring, disk, receipt, response, historyVars>>

Finish ==
    \/ MatchReceipt
    \/ RefuseMatch
    \/ PanicOnMatch
    \/ \E view \in CanViews : WriteFrame(view) \/ RefuseState(view)

Next ==
    \/ \E b \in BindingIds : SignBinding(b)
    \/ \E g \in Grants : RefuseForeignGrant(g) \/ PanicOnGrant(g) \/ RefuseGrant(g) \/ AcceptGrant(g)
    \/ \E r \in Receipts : AdmitReceipt(r) \/ RefuseReceipt(r)
    \/ Finish
    \/ Tick
    \/ Crash
    \/ Restart

Spec == Init /\ [][Next]_vars

\* The thread runs an accepted request to its end unless the process dies.
FairSpec == Spec /\ WF_vars(Finish)
-----------------------------------------------------------------------------
\* The step admits r (step 5 passed), or writes r's frame to the bus.
Admission(r) == stage = "idle" /\ stage' = "admitted" /\ receipt' = r
BusWrite(r) == stage = "matched" /\ receipt = r /\ response' = "Enforced" /\ stage' = "idle"

(***************************************************************************)
(* A frame is written for a Phase 2 receipt only if an operator's grant    *)
(* was accepted for its binding since the last frame written for that      *)
(* binding: one approval backs at most one actuation, across retries,      *)
(* crashes and restarts (handle_enforce: "Consume the binding (one-use)"). *)
(***************************************************************************)
BusWriteSpendsApproval ==
    [][\A r \in Receipts : BusWrite(r) /\ r.binding_id # NoBinding => r.binding_id \in credit]_vars

(***************************************************************************)
(* No frame is ever written for a binding the operator never granted, even *)
(* when saves fail and a restart brings back an older snapshot.            *)
(***************************************************************************)
EnforcedOnlyGranted ==
    \A r \in done : r.binding_id # NoBinding => r.binding_id \in granted

(***************************************************************************)
(* Between any two steps the snapshot file holds what memory holds, except *)
(* for entries that load() dropped because they had expired: a crash at    *)
(* any point loses no approval and revives no consumed one                 *)
(* (save_if_persistent runs after every mutation).                         *)
(***************************************************************************)
DiskMirrorsMemory ==
    stage # "down" =>
        /\ disk.nonce_hwm_ms = nonce_hwm_ms
        /\ \A b \in BindingIds :
              \/ disk.entries[b] = entries[b]
              \/ entries[b] = "absent" /\ now >= Binding[b].ttl_expires_at

(***************************************************************************)
(* The high-water mark is at or above every receipt ever admitted, in this *)
(* process or an earlier one (nonce_hwm_ms: "Highest issued_at_ms ever     *)
(* processed in this or previous sessions").                               *)
(***************************************************************************)
HwmCoversAdmitted ==
    stage # "down" => \A r \in admitted : r.issued_at_ms <= nonce_hwm_ms

(***************************************************************************)
(* While the startup gate is up, the only receipts of earlier sessions     *)
(* that step 5 lets through carry exactly the newest timestamp.            *)
(***************************************************************************)
GateAdmitsOnlyNewest ==
    [][\A r \in Receipts :
          Admission(r) /\ loaded_from_prior_session /\ r \in admitted
             => \A s \in admitted : s.issued_at_ms <= r.issued_at_ms]_vars

(***************************************************************************)
(* The mark is never further ahead of the clock than the freshness window, *)
(* so after a restart a receipt stamped with the current time is turned    *)
(* away by the gate for at most that long, whatever skewed receipt raised  *)
(* the mark.                                                               *)
(***************************************************************************)
HwmWithinWindow ==
    nonce_hwm_ms <= now + RECEIPT_FRESHNESS_MS

(***************************************************************************)
(* Every receipt admitted by this process that is still fresh has its      *)
(* nonce in the ring, so step 5 refuses it if it is presented again        *)
(* (SPEC 9.5: the ring must cover at least the freshness window).          *)
(***************************************************************************)
RingCoversWindow ==
    \A r \in session : Fresh(r, now) => NonceSeen(nonce_ring, r.nonce_hex)

(***************************************************************************)
(* The same frame is written a second time only after a restart.           *)
(***************************************************************************)
RepeatNeedsRestart ==
    [][\A r \in Receipts : Admission(r) /\ r \in done => r \notin session]_vars

(***************************************************************************)
(* A request that was admitted is answered, whatever the queue, the        *)
(* attestation and the vehicle state say, unless the process is ended from *)
(* outside.  The exception is a request_hash too short to be quoted in its *)
(* own refusal: that one is never answered.                                *)
(***************************************************************************)
RequestAnswered ==
    \A c \in 0..MaxCrashes :
        (stage \in {"admitted", "matched"} /\ crashes = c /\ receipt.request_hash # "short")
            ~> (stage = "idle" \/ crashes > c)
-----------------------------------------------------------------------------
(***************************************************************************)
(* The gateway implements the promised life of an approval.  The binding   *)
(* of a matched receipt is the reserved one; while the gateway is down the *)
(* unexpired entries of the snapshot stand for the queue.                  *)
(***************************************************************************)
Queued == IF stage = "down" THEN Expire(disk.entries, now) ELSE entries

StatusOf(b) ==
    IF stage = "matched" /\ receipt.binding_id = b THEN "reserved"
    ELSE IF Queued[b] = "absent" THEN "none" ELSE Queued[b]

ApprovalStatus == [b \in BindingIds |-> StatusOf(b)]

Lifecycle == INSTANCE ApprovalLifecycle WITH status <- ApprovalStatus, frames <- done

ImplementsLifecycle == Lifecycle!Spec
-----------------------------------------------------------------------------
(***************************************************************************)
(* What the documentation says and the code does not do.                   *)
(***************************************************************************)

(***************************************************************************)
(* record_nonce_with_ts: once a newer receipt cleared the gate, "the nonce *)
(* ring now covers all receipts in this session", and pending.rs: the mark *)
(* closes the replay window left by the cleared ring.  A receipt of an     *)
(* earlier session that is older than the mark is not admitted.            *)
(***************************************************************************)
OlderSessionStaysRejected ==
    [][\A r \in Receipts :
          Admission(r) /\ r \in admitted \ session => r.issued_at_ms >= nonce_hwm_ms]_vars

(***************************************************************************)
(* SPEC 9.5 step 6 and the text of its refusal: a receipt whose hash does  *)
(* not match is refused with both hashes.  One with a short request_hash   *)
(* ends the gateway, though nothing from outside did.                      *)
(***************************************************************************)
EveryMismatchAnswered ==
    [][\A r \in Receipts : stage = "admitted" /\ receipt = r /\ stage' = "down"
          => crashes' > crashes]_vars

(***************************************************************************)
(* SPEC 9.5 step 7: a binding must correspond to an approved, non-expired  *)
(* entry.  handle_enforce does not look at ttl_expires_at.                 *)
(***************************************************************************)
ExpiredBindingRejected ==
    [][stage = "admitted" /\ stage' = "matched" /\ receipt.binding_id # NoBinding
          => now < Binding[receipt.binding_id].ttl_expires_at]_vars

(***************************************************************************)
(* SPEC 9.7: a binding entry must not be consumable more than once.  A     *)
(* binding and its grant that are presented again after Phase 2 are queued *)
(* and approved again.                                                     *)
(***************************************************************************)
BindingConsumedOnce ==
    [][\A r \in Receipts : BusWrite(r) /\ r.binding_id # NoBinding
          => \A s \in done : s.binding_id # r.binding_id]_vars
=============================================================================
