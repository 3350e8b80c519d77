--------------------------- MODULE MCConformance ---------------------------
(***************************************************************************)
(* The vectors under conformance/vectors for Conformance.  Vectors that    *)
(* differ in nothing but their identifier and parameters nobody reads are  *)
(* one.  The clock counts seconds; the pinned moments lie before the       *)
(* start, as they do for whoever runs the suite today.                     *)
(***************************************************************************)
EXTENDS Conformance

Climate == <<"vehicle", "climate", "set_temperature">>
Door == <<"vehicle", "door", "unlock">>
Window == <<"vehicle", "window", "set_position">>
Engine == <<"vehicle", "powertrain", "start_engine">>
ReadFile == <<"read_file">>
Throttle == <<"vehicle", "powertrain", "set_throttle">>
Trunk == <<"vehicle", "trunk", "open">>
Seat == <<"vehicle", "seat", "adjust_position">>
Export == <<"pii", "profile", "export">>
Contacts == <<"comms", "contacts", "read">>
PiiGrant == <<"pii", "grant">>
Passwd == [absolute |-> TRUE, parts |-> <<"etc", "passwd">>]

Sensor(speed, gear) == [speed |-> speed, gear |-> gear, actor |-> "Driver"]
AtRest == Sensor(0, "Park")

\* A vector that leaves out everything it may.
Vector(id, tool, expected, rule) ==
    [id |-> id, verdict |-> expected, rule |-> rule, enforced |-> Absent, reason |-> "",
     mandate |-> [Draft EXCEPT !.tools = {tool}, !.max_calls = 120], hours |-> 24,
     bad_signature |-> FALSE, spec_signing |-> FALSE, r |-> Request(tool), sensor |-> Absent,
     clock_offset |-> 0, now_s |-> Absent, phase2_grant_type |-> "",
     gateway_test_type |-> "", trust_mode |-> ""]

Escalated(v) == [v EXCEPT !.mandate.escalate_tools = {v.r.tool}]

Shipped == <<
    Vector("vs-001", Climate, "ALLOW", ""),
    Vector("vs-002", Engine, "DENY", "vehicle_forbidden_domain"),
    [Vector("vs-003", <<"vehicle", "seat", "adjust_lumbar">>, "DENY", "tool_not_authorized") EXCEPT
        !.mandate.tools = {Climate}],
    [Vector("vs-004", Climate, "EXPIRED", "mandate_ttl_exceeded") EXCEPT !.hours = -1],
    [Escalated(Vector("vs-005", Door, "PENDING_APPROVAL", "escalation_required")) EXCEPT
        !.sensor = AtRest],
    [Escalated(Vector("vs-006", Window, "DENY", "vehicle_state_violation")) EXCEPT
        !.sensor = Sensor(80000, "Drive")],
    [Escalated(Vector("vs-007", Window, "PENDING_APPROVAL", "escalation_required")) EXCEPT
        !.sensor = AtRest],
    [Vector("vs-008", <<"">>, "DENY", "invalid_request") EXCEPT !.mandate.tools = {Climate}],
    [Vector("ff-001", Engine, "DENY", "vehicle_forbidden_domain") EXCEPT
        !.mandate.tools = {Engine, Climate}],
    [Vector("ff-002", <<"vehicle", "adas", "engage_autopilot">>, "DENY", "vehicle_forbidden_domain") EXCEPT
        !.sensor = AtRest],
    [Vector("ff-003", <<"CRUISE_CONTROL_COMMAND">>, "DENY", "vehicle_forbidden_domain") EXCEPT
        !.sensor = Sensor(100000, "Drive")],
    Escalated(Vector("ff-004", Throttle, "DENY", "vehicle_forbidden_domain")),
    Vector("ff-005", <<"vehicle", "braking", "apply_emergency">>, "DENY", "vehicle_forbidden_domain"),
    [Escalated(Vector("ff-006", Engine, "DENY", "vehicle_forbidden_domain")) EXCEPT
        !.phase2_grant_type = "forbidden"],
    [Vector("mv-002", Climate, "DENY", "mandate_invalid") EXCEPT !.bad_signature = TRUE],
    Vector("mv-003", <<"vehicle", "media", "play">>, "ALLOW", ""),
    [Vector("mv-004", Climate, "ALLOW", "") EXCEPT !.spec_signing = TRUE],
    [Vector("mv-005", Climate, "EXPIRED", "mandate_ttl_exceeded") EXCEPT
        !.hours = -1, !.clock_offset = 3600],
    [Vector("mv-006", <<"vehicle", "navigation", "set_destination">>, "DENY", "mandate_invalid") EXCEPT
        !.bad_signature = TRUE],
    Vector("po-001", <<"vehicle", "steering", "override">>, "DENY", "vehicle_forbidden_domain"),
    [Vector("po-003", Climate, "EXPIRED", "mandate_ttl_exceeded") EXCEPT !.hours = -2],
    [Vector("po-004", Climate, "DENY", "tool_not_authorized") EXCEPT
        !.mandate.tools = {Seat}],
    [Vector("po-005", ReadFile, "DENY", "boundary_violation") EXCEPT
        !.mandate.fs_deny = {{Passwd}}, !.mandate.fs_read = {{Passwd}}, !.r.path = Passwd],
    [Escalated(Vector("po-006", Door, "DENY", "vehicle_state_violation")) EXCEPT
        !.sensor = Sensor(60000, "Drive")],
    [Vector("po-007", Climate, "DENY", "jurisdiction_violation") EXCEPT
        !.mandate.hours = <<9 * HOUR, 17 * HOUR>>, !.now_s = 22 * HOUR],
    [Escalated(Vector("po-008", Trunk, "PENDING_APPROVAL", "escalation_required")) EXCEPT
        !.sensor = AtRest],
    Escalated(Vector("po-009", <<"vehicle", "drive", "set_speed">>, "DENY", "vehicle_forbidden_domain")),
    [Vector("po-010", Climate, "ALLOW", "all_checks_passed") EXCEPT
        !.mandate.hours = <<9 * HOUR, 17 * HOUR>>, !.now_s = 12 * HOUR],
    Escalated(Vector("as-001", Window, "DENY", "vehicle_state_violation")),
    [Escalated(Vector("as-002", <<"vehicle", "lock", "unlock_all">>, "PENDING_APPROVAL", "escalation_required")) EXCEPT
        !.sensor = AtRest],
    [Escalated(Vector("as-003", Trunk, "DENY", "vehicle_state_violation")) EXCEPT
        !.sensor = Sensor(30000, "Drive")],
    [Vector("as-005", Climate, "ALLOW", "") EXCEPT !.sensor = AtRest],
    [Vector("as-006", Window, "DENY", "vehicle_state_violation") EXCEPT
        !.sensor = Sensor(-10000, "Park")],
    [Vector("as-007", Window, "DENY", "vehicle_state_violation") EXCEPT
        !.sensor = Sensor(2000000, "Park")],
    [Escalated(Vector("tp-008", Door, "ALLOW", "")) EXCEPT
        !.sensor = AtRest, !.phase2_grant_type = "valid"],
    [Escalated(Vector("tp-003", Door, "DENY", "approval_grant_invalid")) EXCEPT
        !.sensor = AtRest, !.phase2_grant_type = "mismatched_hash"],
    [Escalated(Vector("tp-004", Door, "DENY", "approval_grant_expired")) EXCEPT
        !.sensor = AtRest, !.phase2_grant_type = "expired"],
    [Escalated(Vector("tp-005", Door, "DENY", "approval_grant_invalid")) EXCEPT
        !.sensor = AtRest, !.phase2_grant_type = "wrong_binding_id"],
    [Escalated(Vector("tp-007", Door, "DENY", "approval_grant_invalid")) EXCEPT
        !.sensor = AtRest, !.phase2_grant_type = "bad_signature"],
    Vector("rl-002", Seat, "ALLOW", ""),
    [Vector("gc-001", Climate, "ALLOW", "") EXCEPT
        !.gateway_test_type = "enforce", !.enforced = TRUE],
    [Vector("gc-002", Throttle, "DENY", "vehicle_forbidden_domain") EXCEPT
        !.gateway_test_type = "forbidden_receipt", !.enforced = FALSE, !.reason = "forbidden"],
    [Vector("gc-003", Climate, "ALLOW", "") EXCEPT
        !.gateway_test_type = "replay", !.enforced = FALSE, !.reason = "nonce"],
    [Vector("gc-004", Climate, "ALLOW", "") EXCEPT
        !.gateway_test_type = "stale", !.enforced = FALSE, !.reason = "stale"],
    [Vector("gc-005", Seat, "DENY", "tool_not_authorized") EXCEPT
        !.mandate.tools = {Climate}, !.gateway_test_type = "deny_receipt", !.enforced = FALSE, !.reason = "ALLOW"],
    [Vector("gc-006", Climate, "ALLOW", "") EXCEPT
        !.gateway_test_type = "tampered_tool", !.enforced = FALSE, !.reason = "request_hash"],
    [Escalated(Vector("gc-007", Door, "PENDING_APPROVAL", "escalation_required")) EXCEPT
        !.sensor = AtRest, !.gateway_test_type = "no_binding", !.enforced = FALSE, !.reason = "binding"],
    [Vector("gc-008", Climate, "ALLOW", "all_checks_passed") EXCEPT
        !.sensor = AtRest, !.gateway_test_type = "bad_cbor_receipt", !.enforced = FALSE, !.reason = "encoding"],
    [Vector("it-001", ReadFile, "DENY", "issuer_untrusted") EXCEPT
        !.trust_mode = "roots_mismatch"],
    Vector("it-002", ReadFile, "ALLOW", ""),
    [Vector("it-003", ReadFile, "ALLOW", "") EXCEPT !.trust_mode = "roots_match"],
    Vector("cd-001", <<"pay", "toll", "charge">>, "PENDING_APPROVAL", "cockpit_hitl_required"),
    Vector("cd-002", <<"pay", "parking", "start">>, "PENDING_APPROVAL", "cockpit_hitl_required"),
    Vector("cd-003", <<"comms", "call", "place">>, "PENDING_APPROVAL", "cockpit_hitl_required"),
    Vector("cd-004", <<"comms", "sms", "send">>, "PENDING_APPROVAL", "cockpit_hitl_required"),
    Vector("cd-005", Contacts, "DENY", "pii_grant_required"),
    Vector("cd-006", <<"comms", "history", "read">>, "DENY", "pii_grant_required"),
    [Vector("cd-007", Contacts, "ALLOW", "all_checks_passed") EXCEPT
        !.mandate.tools = {Contacts, PiiGrant}],
    [Vector("cd-008", Export, "DENY", "cockpit_forbidden_domain") EXCEPT
        !.mandate.tools = {Export, PiiGrant}],
    [Escalated(Vector("cd-009", Export, "DENY", "cockpit_forbidden_domain")) EXCEPT
        !.mandate.tools = {Export, PiiGrant}],
    Vector("cd-010", <<"pii", "contacts", "read">>, "DENY", "pii_grant_required"),
    [Vector("cd-011", <<"pii", "location", "read">>, "ALLOW", "all_checks_passed") EXCEPT
        !.mandate.tools = {<<"pii", "location", "read">>, PiiGrant}],
    Vector("cd-012", <<"comms", "voicemail", "delete">>, "PENDING_APPROVAL", "cockpit_hitl_required"),
    Vector("cd-013", <<"pii", "profile", "import">>, "PENDING_APPROVAL", "cockpit_hitl_required"),
    [Vector("cd-014", <<"pii", "health", "read">>, "DENY", "tool_not_authorized") EXCEPT
        !.mandate.tools = {PiiGrant}],
    Escalated(Vector("cd-015", <<"pay", "subscription", "manage">>, "PENDING_APPROVAL", "cockpit_hitl_required"))>>

\* The same vectors, each taken through to a gateway.
SentAs(type) == [i \in DOMAIN Shipped |-> [Shipped[i] EXCEPT !.gateway_test_type = type]]

MCSuites ==
    [name \in {"shipped", "delivered", "replayed"} |->
        CASE name = "shipped"   -> Shipped
          [] name = "delivered" -> SentAs("enforce")
          [] name = "replayed"  -> SentAs("replay")]

MCNoticed ==
    {"invalid_request", "vehicle_forbidden_domain", "cockpit_forbidden_domain",
     "mandate_invalid", "issuer_untrusted", "mandate_ttl_exceeded", "tool_not_authorized",
     "pii_grant_required", "boundary_violation", "vehicle_state_violation",
     "jurisdiction_violation", "cockpit_hitl_required", "escalation_required",
     "approval_grant_expired", "approval_grant_invalid", "grant_binding_id",
     "grant_request_hash", "grant_signature", "parent_receipt_hash",
     "step_forbidden", "step_encoding", "step_allow", "step_freshness", "step_nonce",
     "step_request_hash", "step_binding"}
MCUnnoticed ==
    {"mandate", "ledger", "mandate_revoked", "operating_hours", "rate_limit_exceeded",
     "pending_approval_expired", "step_cockpit_forbidden", "step_signature",
     "step_hitl_binding", "nothing"}
MCLosses == MCNoticed \cup MCUnnoticed
MCStartTimes == {DAY, DAY + 13 * HOUR}
=============================================================================
