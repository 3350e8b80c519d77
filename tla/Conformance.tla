----------------------------- MODULE Conformance -----------------------------
(***************************************************************************)
(* The programs that show the parts at work together: the conformance      *)
(* runner, which takes the vectors of a directory one by one, and the      *)
(* showcase of a2g-demo, four beats against one gateway.  Both drive the   *)
(* pipeline, sign receipts as a client of the gateway does, and have a     *)
(* gateway of their own (its checks are in their order here; its clock,    *)
(* its disk and its crashes are in module Gateway).                        *)
(*                                                                         *)
(* A suite is worth what it notices: the build under test may lack one of  *)
(* its checks, `lost`, chosen at the start.                                *)
(***************************************************************************)
EXTENDS Decide

CONSTANTS
    Suites,         \* contents of the directory of vectors, by name
    StartTimes,     \* when a program may be started
    Losses,         \* names of checks, and "nothing"
    Pauses,         \* between two beats of the showcase
    issuer, stranger, zero, operator    \* keys

\* A program starts at a moment and the clock goes forward while it runs; a binding
\* lasts, and no state is not a state.
ASSUME RunAssumption ==
    /\ StartTimes \subseteq Nat /\ Pauses \subseteq Nat
    /\ PENDING_APPROVAL_TTL > 0
    /\ NoState \notin [speed_mmps : Nat, gear : Gears, actor : {"Driver", "Passenger"}]

VARIABLES
    lost, program, wall,
    done,       \* vectors run, or beats shown
    gw,         \* what the gateway of the showcase remembers
    bus,        \* receipts that were written as frames
    failed      \* vectors that failed, or beats that went otherwise than announced

runnerVars == <<lost, program, wall, done, gw, bus, failed>>

NewGateway == [nonces |-> {}, pending |-> {}, approved |-> {}]

RunnerInit ==
    /\ lost \in Losses /\ wall \in StartTimes
    /\ program \in DOMAIN Suites \cup {"showcase"}
    /\ done = 0 /\ gw = NewGateway /\ bus = {} /\ failed = {}

----------------------------------------------------------------------------
(* The build under test.                                                   *)

\* A check that is lost never holds.
Kept(checks) ==
    [i \in DOMAIN checks |->
        [checks[i] EXCEPT !.holds = checks[i].verdict.rule # lost /\ checks[i].holds]]

Verdict(m, r, now, state, trust) ==
    FirstOf(Kept(Checks(m, r, NoopLedger, now, wall, state, FALSE, trust)), AllChecksPassed)

\* The parts of "approval_grant_invalid" can be lost one by one.
AsSeen(grant, pending) ==
    CASE lost = "grant_binding_id"   -> [grant EXCEPT !.binding_id = pending.binding_id]
      [] lost = "grant_request_hash" -> [grant EXCEPT !.request_hash = pending.request_hash]
      [] lost = "grant_signature"    -> [grant EXCEPT !.signature_ok = TRUE]
      [] OTHER -> grant

VerdictWithApproval(m, r, now, state, pending, grant, trust) ==
    FirstOf(Kept(ApprovalChecks(m, r, pending, AsSeen(grant, pending), now)
                     \o Checks(m, r, NoopLedger, now, wall, state, TRUE, trust)),
            AllChecksPassed)

----------------------------------------------------------------------------
(* Receipts, as the client makes them and the gateway reads them.          *)

compute_receipt_hash(tool, params, at) == <<tool, params, at>>

NotHex == <<"NOT_VALID_HEX">>

\* What the signature covers: the parameters through the hash only.
canonical_bytes(rc) ==
    <<rc.decision, rc.tool, rc.request_hash, rc.binding_id, rc.issued_at, rc.nonce>>

\* `from` says whether a verdict stands behind it or it was made up.
SignedReceipt(from, decision, tool, params, binding_id, at, nonce) ==
    LET rc == [from |-> from, decision |-> decision, tool |-> tool, params |-> params,
               binding_id |-> binding_id, request_hash |-> compute_receipt_hash(tool, params, at),
               issued_at |-> at, nonce |-> nonce, signature |-> <<>>]
    IN [rc EXCEPT !.signature = canonical_bytes(rc)]

\* Signed as an ALLOW whatever the verdict was.
sign_receipt_with_paramsSlip(verdict, tool, params, binding_id, nonce) ==
    SignedReceipt("verdict", "ALLOW", tool, params, binding_id, wall, nonce)

sign_receipt_with_params(verdict, tool, params, binding_id, nonce) ==
    SignedReceipt("verdict", verdict.decision, tool, params, binding_id, wall, nonce)

is_forbidden(tool) == classify_vehicle_tool(tool) = "Forbidden"
is_cockpit_forbidden(tool) == classify_cockpit_tool(tool) = "Forbidden"
requires_hitl_binding(tool) == always_hitl(classify_cockpit_tool(tool))

\* A refusal has the words in it that the vectors look for.
Refusal(holds, rule, words) ==
    [holds |-> holds, verdict |-> [rule |-> rule, words |-> words]]

VerificationSteps(g, rc) == <<
    Refusal(is_forbidden(rc.tool), "step_forbidden", {"forbidden"}),
    Refusal(is_cockpit_forbidden(rc.tool), "step_cockpit_forbidden", {"forbidden"}),
    Refusal(rc.request_hash = NotHex, "step_encoding", {"encoding"}),
    Refusal(rc.signature # canonical_bytes(rc), "step_signature", {}),
    Refusal(rc.decision # "ALLOW", "step_allow", {"ALLOW"}),
    Refusal(requires_hitl_binding(rc.tool) /\ rc.binding_id = "", "step_hitl_binding",
            {"ALLOW", "binding"}),
    Refusal(rc.issued_at \notin (wall - 2)..(wall + 2), "step_freshness", {"stale"}),
    Refusal(rc.nonce \in g.nonces, "step_nonce", {"nonce"}),
    Refusal(rc.request_hash # compute_receipt_hash(rc.tool, rc.params, rc.issued_at),
            "step_request_hash", {"request_hash"}),
    Refusal(rc.binding_id \notin {""} \cup g.approved, "step_binding", {"binding"})>>

Enforced == [rule |-> "enforced", words |-> {}]

\* The nonce is recorded when its step is passed, the binding spent when all are.
handle_enforce(g, rc) ==
    LET steps == Kept(VerificationSteps(g, rc))
        answer == FirstOf(steps, Enforced)
    IN [answer |-> answer,
        enforced |-> answer = Enforced,
        gw |-> [nonces |-> IF answer.rule \in {"step_request_hash", "step_binding", "enforced"}
                           THEN g.nonces \cup {rc.nonce} ELSE g.nonces,
                pending |-> IF answer = Enforced THEN g.pending \ {rc.binding_id} ELSE g.pending,
                approved |-> IF answer = Enforced THEN g.approved \ {rc.binding_id}
                             ELSE g.approved]]

Written(reply, rc) == IF reply.enforced THEN {rc} ELSE {}

----------------------------------------------------------------------------
(* The conformance runner.  A vector is a record; what it leaves out has   *)
(* the values of MCConformance's Vector.                                   *)

\* A draft without boundaries, hours and escalations.
Draft ==
    [hash |-> "mandate", agent |-> "agent", issuer |-> zero, parses |-> FALSE,
     signature_ok |-> FALSE, issuer_is_key |-> FALSE, capabilities_hash_ok |-> FALSE,
     expires_at |-> 0, hours |-> AlwaysOpen, max_calls |-> 60, tools |-> {},
     fs_deny |-> {}, fs_read |-> {}, fs_write |-> {}, net_deny |-> {}, net_allow |-> {},
     cmd_deny |-> {}, cmd_allow |-> {}, escalate_tools |-> {}, escalate_paths |-> {},
     escalate_hosts |-> {}, escalate_to |-> "approver"]

build_mandate(v) ==
    compile_mandate(v.mandate, issuer, IF v.hours < 0 THEN 0 ELSE v.hours * HOUR, wall)

tamper_mandate_cbor(m) == [m EXCEPT !.signature_ok = FALSE]

MandateOf(v) ==
    IF v.bad_signature /\ ~v.spec_signing THEN tamper_mandate_cbor(build_mandate(v))
    ELSE build_mandate(v)

\* A speed that is missing or not accepted is no state at all.
build_vehicle_state(v) ==
    IF v.sensor = Absent THEN NoState
    ELSE IF ~SpeedAccepted(v.sensor.speed) THEN NoState
    ELSE [speed_mmps |-> speed_kph_to_mmps(v.sensor.speed),
          gear |-> IF v.sensor.gear \in Gears THEN v.sensor.gear ELSE "Park",
          actor |-> v.sensor.actor]

NowOf(v) == IF v.now_s = Absent THEN wall + v.clock_offset ELSE v.now_s

SelfSovereign == [kind |-> "SelfSovereign"]

TrustOf(v) ==
    CASE v.trust_mode = "roots_match" ->
            [kind |-> "Roots", roots |-> {IF v.spec_signing THEN zero ELSE issuer}]
      [] v.trust_mode = "roots_mismatch" -> [kind |-> "Roots", roots |-> {stranger}]
      [] OTHER -> SelfSovereign

\* Only the decision is compared.
check_verdictSlip(v, verdict) == verdict.decision = v.verdict

check_verdict(v, verdict) ==
    /\ verdict.decision = v.verdict
    /\ v.rule # "" => verdict.rule = v.rule

\* The verdict a vector expects is not looked at when the gateway answers.
check_gateway_outcome(v, reply) ==
    /\ v.enforced # Absent => reply.enforced = v.enforced
    /\ v.reason # "" => ~reply.enforced /\ v.reason \in reply.answer.words

Outcome(pass, written) == [pass |-> pass, written |-> written]
Fail == Outcome(FALSE, {})

run_vector_inner(v) ==
    Outcome(check_verdict(v, Verdict(MandateOf(v), v.r, NowOf(v), build_vehicle_state(v),
                                     TrustOf(v))), {})

GrantOf(type, pending, now) ==
    LET valid == ApprovalGrant(pending, "approver", 300, now)
    IN CASE type = "valid"            -> valid
         [] type = "mismatched_hash"  -> [valid EXCEPT !.request_hash = <<"wrong_request">>]
         [] type = "expired"          -> ApprovalGrant(pending, "approver", 1, now - 2 * HOUR)
         [] type = "wrong_binding_id" -> [valid EXCEPT !.binding_id = 1]
         [] type = "bad_signature"    -> [valid EXCEPT !.signature_ok = FALSE]

GrantTypes == {"valid", "mismatched_hash", "expired", "wrong_binding_id", "bad_signature"}

\* Phase 2 links its receipt to that of Phase 1.
Linked(verdict) == verdict.decision # "ALLOW" \/ lost # "parent_receipt_hash"

run_phase2_vector(v) ==
    LET m == MandateOf(v)
        state == build_vehicle_state(v)
        first == Verdict(m, v.r, NowOf(v), state, SelfSovereign)
        pending == PendingApprovalBinding(0, m, v.r, NowOf(v))
        second == VerdictWithApproval(m, v.r, NowOf(v), state, pending,
                                      GrantOf(v.phase2_grant_type, pending, NowOf(v)),
                                      SelfSovereign)
    IN CASE first.decision = "DENY" -> Outcome(check_verdict(v, first), {})
         [] first.decision \in {"ERROR", "ALLOW", "EXPIRED"} -> Fail
         [] v.verdict = "PENDING_APPROVAL" -> Outcome(check_verdict(v, first), {})
         [] v.phase2_grant_type \notin GrantTypes -> Fail
         [] v.id = "tp-008" /\ ~Linked(second) -> Fail
         [] OTHER -> Outcome(check_verdict(v, second), {})

\* Each vector has a gateway of its own, without ingested state, so that Sensitive
\* tools go through; no receipt of these programs claims an attested state.
GatewayVerdict(v) ==
    Verdict(MandateOf(v), v.r, NowOf(v), build_vehicle_state(v), SelfSovereign)

MadeUp(v, decision, binding_id, at) ==
    SignedReceipt("made_up", decision, v.r.tool, "params", binding_id, at, 1)

FromVerdict(v) == sign_receipt_with_params(GatewayVerdict(v), v.r.tool, "params", "", 1)

\* Where the receipt should be turned away, one that passes fails the vector.
MustRefuse(v, g, rc) ==
    LET reply == handle_enforce(g, rc)
    IN Outcome(~reply.enforced /\ check_gateway_outcome(v, reply), Written(reply, rc))

enforce_vector(v) ==
    LET rc == FromVerdict(v)
        reply == handle_enforce(NewGateway, rc)
    IN IF GatewayVerdict(v).decision = "ALLOW"
       THEN Outcome(check_gateway_outcome(v, reply), Written(reply, rc))
       ELSE Fail

forbidden_receipt(v) == MustRefuse(v, NewGateway, MadeUp(v, "ALLOW", "", wall))

\* The answer to the first of the two is not looked at.
replay(v) ==
    LET rc == FromVerdict(v)
        first == handle_enforce(NewGateway, rc)
        second == MustRefuse(v, first.gw, rc)
    IN IF GatewayVerdict(v).decision = "ERROR" THEN Fail
       ELSE [second EXCEPT !.written = @ \cup Written(first, rc)]

stale(v) ==
    IF GatewayVerdict(v).decision = "ERROR" THEN Fail
    ELSE MustRefuse(v, NewGateway, MadeUp(v, "ALLOW", "", wall - 30))

deny_receipt(v) == MustRefuse(v, NewGateway, MadeUp(v, "DENY", "", wall))

tampered_tool(v) ==
    IF GatewayVerdict(v).decision = "ERROR" THEN Fail
    ELSE MustRefuse(v, NewGateway, [FromVerdict(v) EXCEPT !.params = "tampered"])

no_binding(v) ==
    IF GatewayVerdict(v).decision = "PENDING_APPROVAL"
    THEN MustRefuse(v, NewGateway, MadeUp(v, "ALLOW", "unknown", wall))
    ELSE Fail

bad_cbor_receipt(v) ==
    MustRefuse(v, NewGateway,
               [MadeUp(v, "ALLOW", "", wall) EXCEPT !.request_hash = NotHex, !.signature = <<>>])

run_vector(v) ==
    CASE v.gateway_test_type = "enforce"           -> enforce_vector(v)
      [] v.gateway_test_type = "forbidden_receipt" -> forbidden_receipt(v)
      [] v.gateway_test_type = "replay"            -> replay(v)
      [] v.gateway_test_type = "stale"             -> stale(v)
      [] v.gateway_test_type = "deny_receipt"      -> deny_receipt(v)
      [] v.gateway_test_type = "tampered_tool"     -> tampered_tool(v)
      [] v.gateway_test_type = "no_binding"        -> no_binding(v)
      [] v.gateway_test_type = "bad_cbor_receipt"  -> bad_cbor_receipt(v)
      [] v.gateway_test_type = "" /\ v.phase2_grant_type # "" -> run_phase2_vector(v)
      [] v.gateway_test_type = "" /\ v.phase2_grant_type = "" -> run_vector_inner(v)
      [] OTHER -> Fail

RunVector ==
    /\ program # "showcase" /\ done < Len(Suites[program])
    /\ LET v == Suites[program][done + 1]
           outcome == run_vector(v)
       IN /\ failed' = IF outcome.pass THEN failed ELSE failed \cup {v.id}
          /\ bus' = bus \cup outcome.written
    /\ done' = done + 1
    /\ UNCHANGED <<lost, program, wall, gw>>

----------------------------------------------------------------------------
(* The showcase.                                                           *)

make_mandate(tools, escalate_tools) ==
    compile_mandate([Draft EXCEPT !.tools = tools, !.escalate_tools = escalate_tools],
                    issuer, 24 * HOUR, wall)

Request(tool) ==
    [tool |-> tool, path |-> Absent, url |-> Absent, command |-> Absent]

\* One beat: what it wrote, whether it went as its header says, what the gateway keeps.
Beat(n, as_announced, written, g) ==
    /\ program = "showcase" /\ done = n - 1
    /\ failed' = IF as_announced THEN failed ELSE failed \cup {n}
    /\ bus' = bus \cup written
    /\ gw' = g
    /\ done' = n
    /\ \E pause \in Pauses : wall' = wall + pause
    /\ UNCHANGED <<lost, program>>

\* Signed and sent whatever the pipeline said.
beat1_comfort_allow ==
    LET tool == <<"vehicle", "climate", "set_temperature">>
        verdict == Verdict(make_mandate({tool}, {}), Request(tool), wall, NoState, SelfSovereign)
        rc == sign_receipt_with_params(verdict, tool, "params", "", 1)
        reply == handle_enforce(gw, rc)
    IN Beat(1, reply.enforced, Written(reply, rc), reply.gw)

\* Nothing is sent, whatever the pipeline says.
beat2_state_gated_deny ==
    LET tool == <<"vehicle", "window", "set_position">>
        moving == [speed_mmps |-> 33333, gear |-> "Drive", actor |-> "Driver"]
        verdict == Verdict(make_mandate({tool}, {}), Request(tool), wall, moving, SelfSovereign)
    IN Beat(2, verdict.decision = "DENY", {}, gw)

beat3_forbidden_hard_deny ==
    LET rc == SignedReceipt("made_up", "ALLOW", <<"vehicle", "powertrain", "set_throttle">>,
                            "params", "", wall, 3)
        reply == handle_enforce(gw, rc)
    IN Beat(3, ~reply.enforced, Written(reply, rc), reply.gw)

\* Without a binding from Phase 1 the program panics.
beat4_hitl_door_unlock ==
    LET tool == <<"vehicle", "door", "unlock">>
        m == make_mandate({tool}, {tool})
        parked == [speed_mmps |-> 0, gear |-> "Park", actor |-> "Driver"]
        first == Verdict(m, Request(tool), wall, parked, SelfSovereign)
        pending == PendingApprovalBinding("door", m, Request(tool), wall)
        queued == [gw EXCEPT !.pending = @ \cup {pending.binding_id}]
        grant == ApprovalGrant(pending, operator, 300, wall)
        granted == [queued EXCEPT !.approved = @ \cup {grant.binding_id}]
        second == VerdictWithApproval(m, Request(tool), wall, parked, pending, grant,
                                      SelfSovereign)
        rc == sign_receipt_with_params(second, tool, "params", pending.binding_id, 4)
        reply == handle_enforce(granted, rc)
    IN IF first.decision # "PENDING_APPROVAL" THEN Beat(4, FALSE, {}, gw)
       ELSE IF ~verify_against_binding(grant, pending, wall) THEN Beat(4, FALSE, {}, queued)
       ELSE Beat(4, reply.enforced, Written(reply, rc), reply.gw)

RunnerNext ==
    \/ RunVector
    \/ beat1_comfort_allow
    \/ beat2_state_gated_deny
    \/ beat3_forbidden_hard_deny
    \/ beat4_hitl_door_unlock

RunnerSpec == RunnerInit /\ [][RunnerNext]_runnerVars

----------------------------------------------------------------------------
CONSTANT Noticed    \* the checks without which the shipped suite fails

Ended == done = IF program = "showcase" THEN 4 ELSE Len(Suites[program])

\* CONFORMANCE.md:22-23, exit code 0 or 1: the shipped suite and the showcase end
\* well on the build as it is, whenever they are started, and the suite fails on a
\* build that lacks exactly one check when that is one of `Noticed`, and no other.
SuiteNotices ==
    Ended =>
        /\ program = "shipped" => (failed # {} <=> lost \in Noticed)
        /\ program = "showcase" /\ lost = "nothing" => failed = {}

\* forbidden.rs:11-22: no single lost check, in the pipeline or in the gateway, lets
\* a receipt that was made from a verdict put a forbidden tool on the bus, nor a
\* tool that always needs a human without a binding.
DefenseInDepth ==
    \A rc \in bus : rc.from = "verdict" =>
        /\ ~is_forbidden(rc.tool) /\ ~is_cockpit_forbidden(rc.tool)
        /\ requires_hitl_binding(rc.tool) => rc.binding_id # ""

\* CONFORMANCE.md:147, "Gateway 7-step verification ... Forbidden re-check, sig,
\* ALLOW-only, freshness, nonce, request_hash, binding": the shipped suite fails on
\* a gateway that lacks any of the seven.
SevenStepsNoticed ==
    Ended /\ program = "shipped"
        /\ lost \in {"step_forbidden", "step_signature", "step_allow", "step_freshness",
                     "step_nonce", "step_request_hash", "step_binding"}
        => failed # {}
=============================================================================
