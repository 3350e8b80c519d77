------------------------------ MODULE Callers ------------------------------
(***************************************************************************)
(* The callers of the decision pipeline: a host process that uses the C    *)
(* interface (a2g-ffi) in two phases, with a human who signs grants in     *)
(* between, and the commands `enforce` and `verify`.  The pipeline keeps no *)
(* state; bindings and grants are in the host's hands, which may drop      *)
(* them, use them late, or use them with another call.                     *)
(***************************************************************************)
EXTENDS Decide

CONSTANTS
    HostCalls,      \* arguments of a2g_decide: mandate, request, params, sensor, trust
    EnforceCalls,   \* arguments of `enforce`: mandate, request, ledger, trust
    Null,           \* the null pointer
    GrantTtls,      \* lifetimes a human gives a grant
    Approvers,      \* the humans that sign grants
    RealPath,       \* the file system: what opening each path would open
    Unresolvable,   \* neither the path nor its directory exists
    MaxBindings, MaxGrants, MaxTime     \* bounds

ASSUME BoundAssumption == MaxBindings \in Nat /\ MaxGrants \in Nat /\ MaxTime \in Nat

\* A request is a record, an end of a mandate is a moment or none, and a speed is a
\* number or none.
ASSUME CallsAssumption ==
    /\ \A c \in HostCalls \cup EnforceCalls :
           /\ c.r = [tool |-> c.r.tool, path |-> c.r.path, url |-> c.r.url,
                     command |-> c.r.command, vehicle_state |-> c.r.vehicle_state]
           /\ c.m.expires_at # Never => c.m.expires_at \in Int
    /\ \A c \in HostCalls : c.sensor # Null /\ c.sensor.speed # NotANumber => c.sensor.speed \in Int

VARIABLES
    now,
    bindings,       \* bindings the host has from its pending verdicts
    grants,         \* grants humans have signed
    verdict         \* the last answer with the arguments of its call

vars == <<now, bindings, grants, verdict>>

NoVerdict == [by |-> "nobody", decision |-> "none"]

Init == now = 0 /\ bindings = {} /\ grants = {} /\ verdict = NoVerdict

----------------------------------------------------------------------------
(* a2g-ffi                                                                 *)

GearOfCode == [c \in 0..3 |-> <<"Park", "Drive", "Reverse", "Neutral">>[c + 1]]
ActorOfCode == [c \in 0..1 |-> <<"Driver", "Passenger">>[c + 1]]

\* The handle of a state, or null for a reading that cannot be used.
a2g_verified_state_operator_trusted(sensor) ==
    IF /\ SpeedAccepted(sensor.speed)
       /\ sensor.gear \in DOMAIN GearOfCode
       /\ sensor.actor \in DOMAIN ActorOfCode
    THEN [speed_mmps |-> speed_kph_to_mmps(sensor.speed),
          gear |-> GearOfCode[sensor.gear], actor |-> ActorOfCode[sensor.actor]]
    ELSE Null

\* A null handle is no state.
StateOf(sensor) ==
    LET handle == IF sensor = Null THEN Null ELSE a2g_verified_state_operator_trusted(sensor)
    IN IF handle = Null THEN NoState ELSE handle

\* Parameters that are null or not UTF-8 are read as "{}".
ReadParams(c) ==
    IF c.params = Null THEN [c.r EXCEPT !.path = Absent, !.url = Absent, !.command = Absent]
    ELSE c.r

BadArguments(c) == c.trust = Null \/ c.params = "unparsable"

ErrorVerdict == [decision |-> "ERROR", rule |-> "ffi_error"]

\* One caller, one call at a time: an answer is given back before anything else.
Idle == verdict = NoVerdict

\* An error says nothing about the call.
Answer(by, c, r, state, ledger, pending, grant, v) ==
    /\ Idle
    /\ verdict' =
           IF v.decision = "ERROR" THEN [by |-> by, decision |-> "ERROR"]
           ELSE [by |-> by, m |-> c.m, r |-> r, state |-> state, trust |-> c.trust,
                 ledger |-> ledger, sensor |-> IF by = "enforce" THEN Null ELSE c.sensor,
                 pending |-> pending, grant |-> grant, at |-> now,
                 decision |-> v.decision, rule |-> v.rule]

a2g_decide(c) ==
    LET r == ReadParams(c)
        state == StateOf(c.sensor)
        v == IF BadArguments(c) THEN ErrorVerdict
             ELSE decide(c.m, r, NoopLedger, now, now, state, c.trust)
        b == PendingApprovalBinding(Cardinality(bindings), c.m, r, now)
    IN /\ Answer("a2g_decide", c, r, state, NoopLedger, Null, Null, v)
       /\ \/ UNCHANGED bindings
          \/ /\ v.decision = "PENDING_APPROVAL" /\ Cardinality(bindings) < MaxBindings
             /\ bindings' = bindings \cup {b}
       /\ UNCHANGED <<now, grants>>

\* A human reads a binding and signs a grant for it.
Approve(b, approver, ttl) ==
    /\ Cardinality(grants) < MaxGrants
    /\ Idle
    /\ grants' = grants \cup {ApprovalGrant(b, approver, ttl, now)}
    /\ UNCHANGED <<now, bindings, verdict>>

\* `signed` says that the blob is the binding as the gateway signed it.
a2g_decide_with_approval(c, b, signed, g) ==
    LET r == ReadParams(c)
        state == StateOf(c.sensor)
        v == IF BadArguments(c) \/ ~signed THEN ErrorVerdict
             ELSE decide_with_approval(c.m, r, NoopLedger, now, now, state, b, g, c.trust)
    IN /\ Answer("a2g_decide_with_approval", c, r, state, NoopLedger, b, g, v)
       /\ UNCHANGED <<now, bindings, grants>>

----------------------------------------------------------------------------
(* a2g enforce                                                             *)

\* The file system is asked about the path without its ".." and not about the path
\* as it was written, which is the one the tool will open.
resolve_path_for_enforce(path) == RealPath[canonicalize_path_logical(path)]

\* The state comes with the parameters; without one the worst is assumed.
extract_vehicle_state(r) == IF r.vehicle_state = Absent THEN fail_safe ELSE r.vehicle_state

enforce(c) ==
    LET path == IF c.r.path = Absent THEN Absent ELSE resolve_path_for_enforce(c.r.path)
        r == [c.r EXCEPT !.path = path]
        state == extract_vehicle_state(c.r)
        v == IF path = Unresolvable THEN [decision |-> "ERROR", rule |-> "path"]
             ELSE decide(c.m, r, c.ledger, now, now, state, c.trust)
    IN /\ Answer("enforce", c, c.r, state, c.ledger, Null, Null, v)
       /\ UNCHANGED <<now, bindings, grants>>

\* a2g verify
cmd_verify(m) ==
    /\ Idle
    /\ verdict' = [by |-> "verify", m |-> m, at |-> now,
                   decision |-> IF verify_cbor_mandate(m, now) THEN "valid" ELSE "invalid"]
    /\ UNCHANGED <<now, bindings, grants>>

\* a2g_verdict_free, or the end of the command.
a2g_verdict_free ==
    /\ ~Idle
    /\ verdict' = NoVerdict
    /\ UNCHANGED <<now, bindings, grants>>

Tick ==
    /\ now < MaxTime
    /\ Idle
    /\ now' = now + 1
    /\ UNCHANGED <<bindings, grants, verdict>>

Next ==
    \/ \E c \in HostCalls : a2g_decide(c)
    \/ \E b \in bindings, approver \in Approvers, ttl \in GrantTtls : Approve(b, approver, ttl)
    \/ \E c \in HostCalls, b \in bindings, signed \in BOOLEAN, g \in grants :
           a2g_decide_with_approval(c, b, signed, g)
    \/ \E c \in EnforceCalls : enforce(c)
    \/ \E c \in HostCalls \cup EnforceCalls : cmd_verify(c.m)
    \/ a2g_verdict_free
    \/ Tick

Spec == Init /\ [][Next]_vars

----------------------------------------------------------------------------
CONSTANTS
    SafetyCritical,     \* tools the documents put out of every agent's reach
    Openings,           \* tools that open something
    Spellings,          \* sets of paths that name one file
    HumanOnly           \* tools the documents give to a human, whatever the mandate

\* The tables of vehicle.rs:5-10 and cockpit.rs:5-14, and the rule that an unknown
\* name below "vehicle." is taken for one of the sensitive kind.
ForbiddenTool(tool) ==
    \/ /\ Len(tool) > 2 /\ tool[1] = "vehicle"
       /\ tool[2] \in {"powertrain", "chassis", "adas", "drive", "steering", "braking", "throttle"}
    \/ \E name \in {"CRUISE_CONTROL_COMMAND", "LANE_CENTERING_ASSIST_COMMAND", "EV_STOPPING_MODE"} :
           tool = <<name>>
    \/ tool = <<"pii", "profile", "export">>

KnownDomains == {"powertrain", "chassis", "adas", "drive", "steering", "braking", "throttle",
                 "door", "window", "trunk", "lock", "navigation", "phone",
                 "climate", "seat", "lighting", "media"}

OpeningTool(tool) ==
    \/ /\ Len(tool) > 2 /\ tool[1] = "vehicle" /\ tool[2] \in {"door", "window", "trunk", "lock"}
    \/ \E name \in {"DOOR_LOCK", "WINDOW_POS", "WINDOW_MOVE", "EV_CHARGE_PORT_OPEN"} : tool = <<name>>
    \/ Len(tool) > 1 /\ tool[1] = "vehicle" /\ (Len(tool) = 2 \/ tool[2] \notin KnownDomains)

HumanTool(tool) ==
    \/ Len(tool) > 1 /\ tool[1] = "pay"
    \/ tool \in {<<"comms", "call", "place">>, <<"comms", "sms", "send">>}

\* What the documents put out of reach, what they let open, what they give to a
\* human is in their tables.
ASSUME ToolsAssumption ==
    /\ \A tool \in SafetyCritical : ForbiddenTool(tool)
    /\ \A tool \in Openings : OpeningTool(tool)
    /\ \A tool \in HumanOnly : HumanTool(tool)

\* The spellings of a path have one normal form.
ASSUME SpellingsAssumption ==
    \A paths \in Spellings :
        /\ Absent \notin paths
        /\ \A p, q \in paths : canonicalize_path_logical(p) = canonicalize_path_logical(q)

Answered == verdict.decision \notin {"none", "ERROR", "valid", "invalid"}
Allowed == verdict.decision = "ALLOW"

\* Whoever asks and whoever approved, something opens only when the reading that
\* was handed in is below 5 km/h and in Park; rounding never rounds it open.
OpensOnlyAtRest ==
    Answered /\ Allowed /\ verdict.r.tool \in Openings =>
        IF verdict.by = "enforce"
        THEN verdict.r.vehicle_state # Absent /\ is_parked_and_stopped(verdict.r.vehicle_state)
        ELSE /\ verdict.sensor # Null
             /\ verdict.sensor.speed < 5000 /\ GearOfCode[verdict.sensor.gear] = "Park"

\* vehicle.rs:12, cockpit.rs:8-14: brakes, driver assistance and the export of a
\* profile are not granted by any mandate or human; what needs a human is allowed
\* in Phase 2 only, within five minutes of a Phase 1 that asked, and before the
\* grant's own end.
HumanInTheLoop ==
    Answered =>
        /\ verdict.r.tool \in SafetyCritical =>
               verdict.decision \notin {"ALLOW", "PENDING_APPROVAL"}
        /\ Allowed /\ verdict.r.tool \in HumanOnly => verdict.by = "a2g_decide_with_approval"
        /\ Allowed /\ verdict.by = "a2g_decide_with_approval" =>
               /\ verdict.pending \in bindings /\ verdict.grant \in grants
               /\ verdict.at < verdict.pending.request_hash[3] + PENDING_APPROVAL_TTL
               /\ verdict.at < verdict.grant.expires_at

\* An approval lifts the question for a human and nothing else: what Phase 2
\* allows, Phase 1 would allow or ask about at the same moment.
ApprovalLiftsOnlyEscalation ==
    Answered /\ Allowed /\ verdict.by = "a2g_decide_with_approval" =>
        decide(verdict.m, verdict.r, verdict.ledger, verdict.at, verdict.at, verdict.state,
               verdict.trust).decision \in {"ALLOW", "PENDING_APPROVAL"}

\* Two spellings of one path get one answer from the C interface.
SpellingIrrelevant ==
    Answered /\ verdict.by = "a2g_decide" =>
        \A c \in HostCalls :
            /\ c.m = verdict.m /\ c.trust = verdict.trust
            /\ StateOf(c.sensor) = verdict.state
            /\ [c.r EXCEPT !.path = Absent] = [verdict.r EXCEPT !.path = Absent]
            /\ \E paths \in Spellings : {c.r.path, verdict.r.path} \subseteq paths
            => decide(c.m, c.r, NoopLedger, verdict.at, verdict.at, verdict.state,
                      c.trust).decision = verdict.decision

\* `a2g verify` and the pipeline agree but for a mandate's last second: what the
\* first calls valid the second does not turn away as unreadable, wrongly signed or
\* expired at that moment; and what gets past the second either has no end, or is
\* valid for the first, or has less than a second left.
VerifyAgrees ==
    /\ verdict.decision = "valid" =>
           \A c \in HostCalls : c.m = verdict.m /\ c.trust # Null =>
               decide(c.m, c.r, NoopLedger, verdict.at, verdict.at, NoState, c.trust).rule
                   \notin {"mandate", "mandate_invalid", "mandate_ttl_exceeded"}
    /\ Answered /\ verdict.decision \in {"ALLOW", "PENDING_APPROVAL"}
           /\ verdict.m.expires_at # Never /\ ~verify_cbor_mandate(verdict.m, verdict.at)
           => verdict.m.expires_at - verdict.at \in 1..SECOND - 1

----------------------------------------------------------------------------
(* What the documents say and the code does not do.                        *)

\* enforce.rs:823-826, resolving a path first "prevents symlink-based boundary
\* escapes": what `enforce` lets pass does not open a denied place through a link.
NoDeniedTarget ==
    Answered /\ Allowed /\ verdict.by = "enforce" /\ verdict.r.path # Absent =>
        ~Matches(verdict.m.fs_deny, RealPath[verdict.r.path])

\* README.md:57, "Given the same inputs it produces the same verdict -
\* reproducible and replayable from the ledger": evaluated again later, with the
\* moment it was made for, a decision comes out the same.
ReplayReproduces ==
    Answered /\ verdict.by = "enforce" /\ verdict.r.path = Absent =>
        \A wall \in verdict.at..MaxTime :
            decide(verdict.m, verdict.r, verdict.ledger, verdict.at, wall, verdict.state,
                   verdict.trust).decision = verdict.decision

\* docs/DETERMINISM.md:56-57, an unusable speed makes the caller "fall back to
\* the fail-safe DENY state": what would be denied at the fail-safe speed is not
\* allowed on an unusable reading.
RejectedReadingDenies ==
    Answered /\ Allowed /\ verdict.by # "enforce" /\ verdict.sensor # Null =>
        SpeedAccepted(verdict.sensor.speed) \/ ~StateForbids(verdict.r.tool, fail_safe)

\* hitl.rs:30-33, "An approver's grant for action A cannot be replayed to
\* authorize action B": Phase 2 allows the request its binding was made for.
GrantAuthorizesItsAction ==
    Answered /\ Allowed /\ verdict.by = "a2g_decide_with_approval" =>
        verdict.pending.request_hash[1] = verdict.m /\ verdict.pending.request_hash[2] = verdict.r
=============================================================================
