------------------------------- MODULE Decide -------------------------------
(***************************************************************************)
(* The decision pipeline of a2g-core (enforce.rs, hitl.rs) as operators:   *)
(* decide, which is Phase 1, and decide_with_approval, which is Phase 2.   *)
(*                                                                         *)
(* A mandate is a record.  A pattern for paths, hosts or commands is the   *)
(* set of what it matches: the glob matcher itself is not modelled.  The   *)
(* hash of a request is the tuple that is hashed.                          *)
(***************************************************************************)
EXTENDS AuthorityOps, Tools

CONSTANTS
    SECOND,                 \* ticks of the clock
    Never,                  \* a mandate without expires_at
    Malformed,              \* operating hours that cannot be parsed
    Absent,                 \* a parameter the request does not have
    NoState,                \* no vehicle state handed in
    PENDING_APPROVAL_TTL    \* the five minutes of a pending approval

ASSUME SecondAssumption == SECOND \in Nat \ {0}
ASSUME ApprovalTtlAssumption == PENDING_APPROVAL_TTL \in Nat

Matches(patterns, x) == \E pattern \in patterns : x \in pattern

\* "." and empty parts go, ".." takes the part before it; at the root of an
\* absolute path it is dropped, at the start of a relative one it is kept.
canonicalize_path_logical(path) ==
    LET Walk(parts, part) ==
            CASE part \in {"", "."} -> parts
              [] part = ".." /\ parts # <<>> /\ (path.absolute \/ Last(parts) # "..") ->
                    Front(parts)
              [] part = ".." /\ path.absolute /\ parts = <<>> -> parts
              [] OTHER -> Append(parts, part)
    IN [path EXCEPT !.parts = FoldLeft(Walk, <<>>, path.parts)]

\* A URL is a scheme, a host and a port.
extract_host(url) == url[2]

----------------------------------------------------------------------------
(* The checks, in the order of the pipeline.                               *)

verify_cbor_signature(m) == m.signature_ok /\ m.issuer_is_key /\ m.capabilities_hash_ok

Expired(m, now) == m.expires_at # Never /\ now >= m.expires_at

\* What `a2g verify` calls valid.  It wants a whole second left, because it cuts
\* what is left to seconds; of an end that cannot be read it says no, where the
\* pipeline goes on.  Here the second after the end still counts.
verify_cbor_mandateSlip(m, now) ==
    /\ m.parses /\ verify_cbor_signature(m)
    /\ m.expires_at # Never /\ now < m.expires_at + SECOND

verify_cbor_mandate(m, now) ==
    /\ m.parses /\ verify_cbor_signature(m)
    /\ m.expires_at # Never /\ now + SECOND <= m.expires_at

\* The mandate that signing a draft gives, whatever end the draft had.
compile_mandate(draft, issuer, ttl, now) ==
    [draft EXCEPT !.issuer = issuer, !.expires_at = now + ttl, !.parses = TRUE,
                  !.signature_ok = TRUE, !.issuer_is_key = TRUE,
                  !.capabilities_hash_ok = TRUE]

LacksPiiGrant(m, tool) ==
    requires_pii_grant(classify_cockpit_tool(tool)) /\ <<"pii", "grant">> \notin m.tools

\* PathOutside on the path as it was written.
PathOutsideSlip(m, r) ==
    /\ r.path # Absent
    /\ \/ Matches(m.fs_deny, r.path)
       \/ r.tool \in {<<"read_file">>, <<"read">>} /\ m.fs_read # {}
              /\ ~Matches(m.fs_read, r.path)
       \/ r.tool \in {<<"write_file">>, <<"write">>} /\ m.fs_write # {}
              /\ ~Matches(m.fs_write, r.path)

\* A denied path is denied to every tool, an allow list binds its own tools
\* and only when it is not empty.
PathOutside(m, r) ==
    /\ r.path # Absent
    /\ LET path == canonicalize_path_logical(r.path)
       IN \/ Matches(m.fs_deny, path)
          \/ r.tool \in {<<"read_file">>, <<"read">>} /\ m.fs_read # {}
                 /\ ~Matches(m.fs_read, path)
          \/ r.tool \in {<<"write_file">>, <<"write">>} /\ m.fs_write # {}
                 /\ ~Matches(m.fs_write, path)

HostOutside(m, r) ==
    /\ r.url # Absent
    /\ Matches(m.net_deny, extract_host(r.url))
    /\ ~Matches(m.net_allow, extract_host(r.url))

\* A command is its words; only the first is compared with the allow list.
CommandOutside(m, r) ==
    /\ r.command # Absent
    /\ \/ Matches(m.cmd_deny, r.command)
       \/ m.cmd_allow # {} /\ r.command[1] \notin m.cmd_allow

\* Without a state a Sensitive tool meets the worst one, a Comfort tool none.
StateForbids(tool, state) ==
    \/ /\ classify_vehicle_tool(tool) = "Sensitive"
       /\ ~is_parked_and_stopped(IF state = NoState THEN fail_safe ELSE state)
    \/ /\ classify_vehicle_tool(tool) = "Comfort"
       /\ state # NoState
       /\ SeatBlocked(tool, state)

HoursInvalid(hours) == hours # AlwaysOpen /\ (hours = Malformed \/ hours[1] >= hours[2])

OutOfHours(hours, now) ==
    /\ hours # AlwaysOpen /\ ~HoursInvalid(hours)
    /\ (TimeOfDay(now) < hours[1] \/ TimeOfDay(now) > hours[2])

AlwaysEscalates(r) == always_hitl(classify_cockpit_tool(r.tool))

Escalates(m, r) ==
    \/ r.tool \in m.escalate_tools
    \/ r.path # Absent /\ Matches(m.escalate_paths, canonicalize_path_logical(r.path))
    \/ r.url # Absent /\ Matches(m.escalate_hosts, extract_host(r.url))

----------------------------------------------------------------------------
\* The ledger that knows nothing: no mandate revoked, no call counted.
NoopLedger == [answers |-> TRUE, revoked |-> FALSE, recent |-> 0]

Stop(holds, decision, rule) ==
    [holds |-> holds, verdict |-> [decision |-> decision, rule |-> rule]]

\* The first check that holds decides.
FirstOf(checks, otherwise) ==
    LET holding == {i \in DOMAIN checks : checks[i].holds}
    IN IF holding = {} THEN otherwise ELSE checks[Min(holding)].verdict

AllChecksPassed == [decision |-> "ALLOW", rule |-> "all_checks_passed"]

\* Everything that is asked before the question for a human.  An "ERROR" is an
\* Err, which the caller gets instead of a verdict.
ChecksBeforeEscalation(m, r, ledger, now, wall, state, trust) == <<
    Stop(~m.parses, "ERROR", "mandate"),
    Stop(r.tool = <<"">>, "DENY", "invalid_request"),
    Stop(classify_vehicle_tool(r.tool) = "Forbidden", "DENY", "vehicle_forbidden_domain"),
    Stop(classify_cockpit_tool(r.tool) = "Forbidden", "DENY", "cockpit_forbidden_domain"),
    Stop(~ledger.answers, "ERROR", "ledger"),
    Stop(ledger.revoked, "DENY", "mandate_revoked"),
    Stop(~verify_cbor_signature(m), "DENY", "mandate_invalid"),
    Stop(~check_issuer_trust(trust, m, wall), "DENY", "issuer_untrusted"),
    Stop(Expired(m, now), "EXPIRED", "mandate_ttl_exceeded"),
    Stop(r.tool \notin m.tools, "DENY", "tool_not_authorized"),
    Stop(LacksPiiGrant(m, r.tool), "DENY", "pii_grant_required"),
    Stop(PathOutside(m, r) \/ HostOutside(m, r) \/ CommandOutside(m, r),
         "DENY", "boundary_violation"),
    Stop(StateForbids(r.tool, state), "DENY", "vehicle_state_violation"),
    Stop(HoursInvalid(m.hours), "ERROR", "operating_hours"),
    Stop(OutOfHours(m.hours, now), "DENY", "jurisdiction_violation")>>

\* All the checks of decide_core.  Here the rate limit goes with the escalation.
ChecksSlip(m, r, ledger, now, wall, state, skip_escalation, trust) ==
    ChecksBeforeEscalation(m, r, ledger, now, wall, state, trust) \o <<
        Stop(~skip_escalation /\ AlwaysEscalates(r), "PENDING_APPROVAL", "cockpit_hitl_required"),
        Stop(~skip_escalation /\ Escalates(m, r), "PENDING_APPROVAL", "escalation_required"),
        Stop(~skip_escalation /\ ledger.recent >= m.max_calls, "DENY", "rate_limit_exceeded")>>

Checks(m, r, ledger, now, wall, state, skip_escalation, trust) ==
    ChecksBeforeEscalation(m, r, ledger, now, wall, state, trust) \o <<
        Stop(~skip_escalation /\ AlwaysEscalates(r), "PENDING_APPROVAL", "cockpit_hitl_required"),
        Stop(~skip_escalation /\ Escalates(m, r), "PENDING_APPROVAL", "escalation_required"),
        Stop(ledger.recent >= m.max_calls, "DENY", "rate_limit_exceeded")>>

decide_core(m, r, ledger, now, wall, state, skip_escalation, trust) ==
    FirstOf(Checks(m, r, ledger, now, wall, state, skip_escalation, trust), AllChecksPassed)

decide(m, r, ledger, now, wall, state, trust) ==
    decide_core(m, r, ledger, now, wall, state, FALSE, trust)

----------------------------------------------------------------------------
(* The two phases of a human approval.                                     *)

compute_request_hash(m, r, timestamp) == <<m, r, timestamp>>

\* The binding of a PENDING_APPROVAL verdict; its id is fresh.
PendingApprovalBinding(id, m, r, now) ==
    [binding_id |-> id, request_hash |-> compute_request_hash(m, r, now),
     escalate_to |-> m.escalate_to, ttl_expires_at |-> now + PENDING_APPROVAL_TTL]

\* ApprovalGrant::new_signed
ApprovalGrant(binding, approver, ttl, now) ==
    [binding_id |-> binding.binding_id, request_hash |-> binding.request_hash,
     approver |-> approver, expires_at |-> now + ttl, signature_ok |-> TRUE]

verify_against_binding(grant, pending, now) ==
    /\ grant.binding_id = pending.binding_id
    /\ grant.request_hash = pending.request_hash
    /\ now < grant.expires_at
    /\ grant.signature_ok

GrantExpired(grant, pending, now) ==
    /\ grant.binding_id = pending.binding_id
    /\ grant.request_hash = pending.request_hash
    /\ now >= grant.expires_at

\* What Phase 2 asks before it runs the pipeline; the request is compared neither
\* with the binding nor with the grant.  Here without the binding's own deadline.
ApprovalChecksSlip(m, r, pending, grant, now) == <<
    Stop(~m.parses, "ERROR", "mandate"),
    Stop(classify_vehicle_tool(r.tool) = "Forbidden", "DENY", "vehicle_forbidden_domain"),
    Stop(classify_cockpit_tool(r.tool) = "Forbidden", "DENY", "cockpit_forbidden_domain"),
    Stop(GrantExpired(grant, pending, now), "DENY", "approval_grant_expired"),
    Stop(~verify_against_binding(grant, pending, now), "DENY", "approval_grant_invalid")>>

ApprovalChecks(m, r, pending, grant, now) == <<
    Stop(~m.parses, "ERROR", "mandate"),
    Stop(classify_vehicle_tool(r.tool) = "Forbidden", "DENY", "vehicle_forbidden_domain"),
    Stop(classify_cockpit_tool(r.tool) = "Forbidden", "DENY", "cockpit_forbidden_domain"),
    Stop(GrantExpired(grant, pending, now), "DENY", "approval_grant_expired"),
    Stop(~verify_against_binding(grant, pending, now), "DENY", "approval_grant_invalid"),
    Stop(now >= pending.ttl_expires_at, "DENY", "pending_approval_expired")>>

decide_with_approval(m, r, ledger, now, wall, state, pending, grant, trust) ==
    FirstOf(ApprovalChecks(m, r, pending, grant, now)
                \o Checks(m, r, ledger, now, wall, state, TRUE, trust),
            AllChecksPassed)
=============================================================================
