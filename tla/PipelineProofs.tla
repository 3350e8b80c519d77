---------------------------- MODULE PipelineProofs ----------------------------
(***************************************************************************)
(* Theorems about the decision pipeline and its callers (Decide, Callers), *)
(* for any mandates, requests, ledgers, trust anchors, readings and        *)
(* sequences of calls.                                                     *)
(***************************************************************************)
EXTENDS Callers, Conformance, WellFoundedInduction, TLAPS

(***************************************************************************)
(* The first check that holds.                                             *)
(***************************************************************************)

\* Every set of natural numbers that is not empty has a least member.
LEMMA LeastMember ==
    ASSUME NEW T \in SUBSET Nat, T # {}
    PROVE  \E n \in T : \A m \in T : n <= m
  <1> DEFINE R == OpToRel(<, Nat)
  <1>1. IsWellFoundedOn(R, Nat)
    BY NatLessThanWellFounded
  <1>2. R = {ss \in Nat \X Nat : ss[1] < ss[2]}
    BY DEF OpToRel
  <1> HIDE DEF R
  <1>3. PICK n \in T : \A m \in T : <<m, n>> \notin R
    BY <1>1, WFMin, Zenon
  <1>4. ASSUME NEW m \in T
        PROVE  n <= m
    <2>1. m \in Nat /\ n \in Nat /\ <<m, n>> \notin R
      BY <1>3
    <2>2. ~(m < n)
      BY <2>1, <1>2, Z3
    <2> QED
      BY <2>1, <2>2
  <1> QED
    BY <1>3, <1>4

\* No check holds; the check at i is the first that does.
NoneHolds(checks) == \A i \in DOMAIN checks : ~checks[i].holds
HoldsFirst(checks, i) ==
    /\ i \in DOMAIN checks /\ checks[i].holds
    /\ \A j \in DOMAIN checks : checks[j].holds => i <= j

\* Checks that do not hold leave the decision to what comes after.
LEMMA FirstOfNone ==
    ASSUME NEW checks, NoneHolds(checks), NEW o
    PROVE  FirstOf(checks, o) = o
  <1>1. {i \in DOMAIN checks : checks[i].holds} = {}
    BY DEF NoneHolds
  <1> QED
    BY <1>1 DEF FirstOf

\* The first check that holds decides.
LEMMA FirstOfAt ==
    ASSUME NEW checks, NEW n \in Nat, DOMAIN checks = 1..n, NEW i, HoldsFirst(checks, i), NEW o
    PROVE  FirstOf(checks, o) = checks[i].verdict
  <1> DEFINE holding == {j \in DOMAIN checks : checks[j].holds}
  <1>1. i \in holding /\ (\A j \in holding : i <= j) /\ holding \subseteq Nat
    BY DEF HoldsFirst
  <1> HIDE DEF holding
  <1>2. Min(holding) = i
    <2>1. \A k \in holding : (\A j \in holding : k <= j) => k = i
      <3>1. SUFFICES ASSUME NEW k \in holding, \A j \in holding : k <= j
                     PROVE  k = i
        OBVIOUS
      <3>2. k <= i /\ i <= k /\ k \in Nat /\ i \in Nat
        BY <1>1, <3>1
      <3> QED
        BY <3>2
    <2> QED
      BY <1>1, <2>1 DEF Min
  <1>3. holding # {}
    BY <1>1
  <1> QED
    BY <1>2, <1>3 DEF FirstOf, holding

\* Either no check holds or there is a first one.
LEMMA SomeFirst ==
    ASSUME NEW checks, NEW n \in Nat, DOMAIN checks = 1..n
    PROVE  NoneHolds(checks) \/ \E i \in 1..n : HoldsFirst(checks, i)
  <1> DEFINE holding == {j \in 1..n : checks[j].holds}
  <1>1. CASE holding = {}
    BY <1>1 DEF NoneHolds
  <1>2. CASE holding # {}
    <2>1. holding \in SUBSET Nat
      OBVIOUS
    <2> HIDE DEF holding
    <2>2. PICK i \in holding : \A j \in holding : i <= j
      BY <1>2, <2>1, LeastMember
    <2> QED
      BY <2>2 DEF HoldsFirst, holding
  <1> QED
    BY <1>1, <1>2

\* Two lists of checks, one after the other.
LEMMA Joined ==
    ASSUME NEW s, NEW k \in Nat, DOMAIN s = 1..k, NEW t, NEW l \in Nat, DOMAIN t = 1..l
    PROVE  /\ DOMAIN (s \o t) = 1..(k + l)
           /\ \A i \in 1..k : (s \o t)[i] = s[i]
           /\ \A i \in 1..l : (s \o t)[k + i] = t[i]
  <1>1. Len(s) = k /\ Len(t) = l
    BY Z3
  <1> QED
    BY <1>1, Z3

\* The first list is asked first.
LEMMA FirstOfJoined ==
    ASSUME NEW s, NEW k \in Nat, DOMAIN s = 1..k, NEW t, NEW l \in Nat, DOMAIN t = 1..l, NEW o
    PROVE  DOMAIN (s \o t) = 1..(k + l) /\ FirstOf(s \o t, o) = FirstOf(s, FirstOf(t, o))
  <1>1. /\ DOMAIN (s \o t) = 1..(k + l)
        /\ \A i \in 1..k : (s \o t)[i] = s[i]
        /\ \A i \in 1..l : (s \o t)[k + i] = t[i]
    <2>1. Len(s) = k /\ Len(t) = l
      BY Z3
    <2> QED
      BY <2>1, Z3
  <1> DEFINE u == s \o t
  <1>2. /\ k \in Nat /\ l \in Nat /\ k + l \in Nat
        /\ DOMAIN s = 1..k /\ DOMAIN t = 1..l /\ DOMAIN u = 1..(k + l)
        /\ \A i \in 1..k : u[i] = s[i]
        /\ \A i \in 1..l : u[k + i] = t[i]
    BY <1>1
  <1> HIDE DEF u
  <1>3. \A i \in 1..(k + l) : i \in 1..k \/ (i - k \in 1..l /\ k + (i - k) = i)
    BY <1>2
  <1>4. \A i \in 1..l : k + i \in 1..(k + l) /\ ~(k + i \in 1..k)
    BY <1>2
  <1>5. CASE \E i \in 1..k : HoldsFirst(s, i)
    <2>1. PICK i \in 1..k : HoldsFirst(s, i)
      BY <1>5
    <2>2. HoldsFirst(u, i)
      <3>1. i \in 1..(k + l) /\ u[i].holds
        BY <1>2, <2>1 DEF HoldsFirst
      <3>2. ASSUME NEW j \in 1..(k + l), u[j].holds
            PROVE  i <= j
        <4>1. CASE j \in 1..k
          BY <1>2, <2>1, <3>2, <4>1 DEF HoldsFirst
        <4>2. CASE ~(j \in 1..k)
          BY <1>2, <4>2
        <4> QED
          BY <4>1, <4>2
      <3> QED
        BY <1>2, <3>1, <3>2 DEF HoldsFirst
    <2>3. FirstOf(u, o) = u[i].verdict
      BY <1>2, <2>2, FirstOfAt
    <2>4. FirstOf(s, FirstOf(t, o)) = s[i].verdict
      BY <1>2, <2>1, FirstOfAt
    <2> QED
      BY <1>2, <2>3, <2>4 DEF u
  <1>6. CASE NoneHolds(s) /\ \E i \in 1..l : HoldsFirst(t, i)
    <2>1. PICK i \in 1..l : HoldsFirst(t, i)
      BY <1>6
    <2>2. HoldsFirst(u, k + i)
      <3>1. k + i \in 1..(k + l) /\ u[k + i].holds
        BY <1>2, <1>4, <2>1 DEF HoldsFirst
      <3>2. ASSUME NEW j \in 1..(k + l), u[j].holds
            PROVE  k + i <= j
        <4>1. ~(j \in 1..k)
          BY <1>2, <1>6, <3>2 DEF NoneHolds
        <4>2. j - k \in 1..l /\ t[j - k].holds
          BY <1>2, <1>3, <3>2, <4>1
        <4>3. i <= j - k
          BY <1>2, <2>1, <4>2 DEF HoldsFirst
        <4> QED
          BY <1>2, <4>3
      <3> QED
        BY <1>2, <3>1, <3>2 DEF HoldsFirst
    <2>3. FirstOf(u, o) = u[k + i].verdict
      BY <1>2, <2>2, FirstOfAt
    <2>4. FirstOf(t, o) = t[i].verdict
      BY <1>2, <2>1, FirstOfAt
    <2>5. FirstOf(s, FirstOf(t, o)) = FirstOf(t, o)
      BY <1>6, FirstOfNone
    <2> QED
      BY <1>2, <2>3, <2>4, <2>5 DEF u
  <1>7. CASE NoneHolds(s) /\ NoneHolds(t)
    <2>1. NoneHolds(u)
      <3>1. ASSUME NEW j \in 1..(k + l)
            PROVE  ~u[j].holds
        <4>1. CASE j \in 1..k
          BY <1>2, <1>7, <4>1 DEF NoneHolds
        <4>2. CASE j - k \in 1..l /\ k + (j - k) = j
          <5>1. u[j] = t[j - k]
            BY <1>2, <4>2
          <5> QED
            BY <1>2, <1>7, <4>2, <5>1 DEF NoneHolds
        <4> QED
          BY <1>3, <4>1, <4>2
      <3> QED
        BY <1>2, <3>1 DEF NoneHolds
    <2> QED
      BY <1>7, <2>1, FirstOfNone DEF u
  <1>8. NoneHolds(s) \/ \E i \in 1..k : HoldsFirst(s, i)
    BY <1>2, SomeFirst
  <1>9. NoneHolds(t) \/ \E i \in 1..l : HoldsFirst(t, i)
    BY <1>2, SomeFirst
  <1> QED
    BY <1>5, <1>6, <1>7, <1>8, <1>9

(***************************************************************************)
(* The pipeline.                                                           *)
(***************************************************************************)

\* What a request has to pass before it is asked whether a human is needed.
Passes(m, r, ledger, now_, clock, state, trust) ==
    /\ m.parses /\ r.tool # <<"">>
    /\ classify_vehicle_tool(r.tool) # "Forbidden" /\ classify_cockpit_tool(r.tool) # "Forbidden"
    /\ ledger.answers /\ ~ledger.revoked
    /\ verify_cbor_signature(m) /\ check_issuer_trust(trust, m, clock) /\ ~Expired(m, now_)
    /\ r.tool \in m.tools /\ ~LacksPiiGrant(m, r.tool)
    /\ ~PathOutside(m, r) /\ ~HostOutside(m, r) /\ ~CommandOutside(m, r)
    /\ ~StateForbids(r.tool, state) /\ ~HoursInvalid(m.hours) /\ ~OutOfHours(m.hours, now_)

NeedsHuman(m, r) == AlwaysEscalates(r) \/ Escalates(m, r)

\* The rules that speak of the mandate alone say what they say, and what is neither
\* allowed nor denied has its reason.
Reasons(m, ledger, now_, verdict_) ==
    /\ verdict_.rule = "mandate" => ~m.parses
    /\ verdict_.rule = "mandate_invalid" => ~verify_cbor_signature(m)
    /\ verdict_.rule = "mandate_ttl_exceeded" => Expired(m, now_)
    /\ verdict_.decision = "EXPIRED" => Expired(m, now_)
    /\ verdict_.decision = "ERROR" => ~m.parses \/ ~ledger.answers \/ HoursInvalid(m.hours)

\* The checks before escalation turn a request away or leave it to the rest.
LEMMA BeforeOutcome ==
    ASSUME NEW m, NEW r, NEW ledger, NEW t, NEW clock, NEW state, NEW trust, NEW o
    PROVE  LET v == FirstOf(ChecksBeforeEscalation(m, r, ledger, t, clock, state, trust), o)
           IN \/ Passes(m, r, ledger, t, clock, state, trust) /\ v = o
              \/ /\ ~Passes(m, r, ledger, t, clock, state, trust)
                 /\ v.decision \in {"DENY", "ERROR", "EXPIRED"} /\ Reasons(m, ledger, t, v)
  <1> DEFINE c == ChecksBeforeEscalation(m, r, ledger, t, clock, state, trust)
             v == FirstOf(c, o)
  <1>1. DOMAIN c = 1..15
    BY DEF ChecksBeforeEscalation, Stop
  <1>2. /\ c[1].holds = ~m.parses /\ c[2].holds = (r.tool = <<"">>)
        /\ c[3].holds = (classify_vehicle_tool(r.tool) = "Forbidden")
        /\ c[4].holds = (classify_cockpit_tool(r.tool) = "Forbidden")
    BY DEF ChecksBeforeEscalation, Stop
  <1>3. /\ c[5].holds = ~ledger.answers /\ c[6].holds = ledger.revoked
        /\ c[7].holds = ~verify_cbor_signature(m)
        /\ c[8].holds = ~check_issuer_trust(trust, m, clock)
    BY DEF ChecksBeforeEscalation, Stop
  <1>4. /\ c[9].holds = Expired(m, t) /\ c[10].holds = (r.tool \notin m.tools)
        /\ c[11].holds = LacksPiiGrant(m, r.tool)
        /\ c[12].holds = (PathOutside(m, r) \/ HostOutside(m, r) \/ CommandOutside(m, r))
    BY DEF ChecksBeforeEscalation, Stop
  <1>5. /\ c[13].holds = StateForbids(r.tool, state) /\ c[14].holds = HoursInvalid(m.hours)
        /\ c[15].holds = OutOfHours(m.hours, t)
    BY DEF ChecksBeforeEscalation, Stop
  <1>6. /\ c[1].verdict = [decision |-> "ERROR", rule |-> "mandate"]
        /\ c[2].verdict = [decision |-> "DENY", rule |-> "invalid_request"]
        /\ c[3].verdict = [decision |-> "DENY", rule |-> "vehicle_forbidden_domain"]
        /\ c[4].verdict = [decision |-> "DENY", rule |-> "cockpit_forbidden_domain"]
        /\ c[5].verdict = [decision |-> "ERROR", rule |-> "ledger"]
    BY DEF ChecksBeforeEscalation, Stop
  <1>7. /\ c[6].verdict = [decision |-> "DENY", rule |-> "mandate_revoked"]
        /\ c[7].verdict = [decision |-> "DENY", rule |-> "mandate_invalid"]
        /\ c[8].verdict = [decision |-> "DENY", rule |-> "issuer_untrusted"]
        /\ c[9].verdict = [decision |-> "EXPIRED", rule |-> "mandate_ttl_exceeded"]
        /\ c[10].verdict = [decision |-> "DENY", rule |-> "tool_not_authorized"]
    BY DEF ChecksBeforeEscalation, Stop
  <1>8. /\ c[11].verdict = [decision |-> "DENY", rule |-> "pii_grant_required"]
        /\ c[12].verdict = [decision |-> "DENY", rule |-> "boundary_violation"]
        /\ c[13].verdict = [decision |-> "DENY", rule |-> "vehicle_state_violation"]
        /\ c[14].verdict = [decision |-> "ERROR", rule |-> "operating_hours"]
        /\ c[15].verdict = [decision |-> "DENY", rule |-> "jurisdiction_violation"]
    BY DEF ChecksBeforeEscalation, Stop
  <1> HIDE DEF c
  <1>9. \A i \in 1..15 : \/ i = 1 \/ i = 2 \/ i = 3 \/ i = 4 \/ i = 5 \/ i = 6 \/ i = 7 \/ i = 8
                         \/ i = 9 \/ i = 10 \/ i = 11 \/ i = 12 \/ i = 13 \/ i = 14 \/ i = 15
    OBVIOUS
  <1>10. ASSUME NEW i \in 1..15
         PROVE  /\ c[i].verdict.decision \in {"DENY", "ERROR", "EXPIRED"}
                /\ c[i].verdict.rule = "mandate" => i = 1
                /\ c[i].verdict.rule = "mandate_invalid" => i = 7
                /\ c[i].verdict.rule = "mandate_ttl_exceeded" => i = 9
                /\ c[i].verdict.decision = "EXPIRED" => i = 9
                /\ c[i].verdict.decision = "ERROR" => i = 1 \/ i = 5 \/ i = 14
    <2>1. CASE i \in 1..5
      BY <1>6, <2>1
    <2>2. CASE i \in 6..10
      BY <1>7, <2>2
    <2>3. CASE i \in 11..15
      BY <1>8, <2>3
    <2> QED
      BY <2>1, <2>2, <2>3
  <1>11. Passes(m, r, ledger, t, clock, state, trust) =>
             \A i \in 1..15 : ~c[i].holds
    BY <1>2, <1>3, <1>4, <1>5, <1>9 DEF Passes
  <1>12. (\A i \in 1..15 : ~c[i].holds) => Passes(m, r, ledger, t, clock, state, trust)
    <2>1. SUFFICES ASSUME \A i \in 1..15 : ~c[i].holds
                   PROVE  Passes(m, r, ledger, t, clock, state, trust)
      OBVIOUS
    <2>2. /\ ~c[1].holds /\ ~c[2].holds /\ ~c[3].holds /\ ~c[4].holds /\ ~c[5].holds
          /\ ~c[6].holds /\ ~c[7].holds /\ ~c[8].holds /\ ~c[9].holds /\ ~c[10].holds
          /\ ~c[11].holds /\ ~c[12].holds /\ ~c[13].holds /\ ~c[14].holds /\ ~c[15].holds
      BY <2>1
    <2> QED
      BY <1>2, <1>3, <1>4, <1>5, <2>2 DEF Passes
  <1>13. NoneHolds(c) <=> Passes(m, r, ledger, t, clock, state, trust)
    BY <1>1, <1>11, <1>12 DEF NoneHolds
  <1>14. CASE NoneHolds(c)
    BY <1>13, <1>14, FirstOfNone DEF c
  <1>15. CASE \E i \in 1..15 : HoldsFirst(c, i)
    <2>1. PICK i \in 1..15 : HoldsFirst(c, i)
      BY <1>15
    <2>2. v = c[i].verdict
      BY <1>1, <2>1, FirstOfAt
    <2>3. c[i].holds /\ ~NoneHolds(c)
      BY <1>1, <2>1 DEF HoldsFirst, NoneHolds
    <2>4. Reasons(m, ledger, t, c[i].verdict)
      BY <1>2, <1>3, <1>4, <1>5, <1>10, <2>3 DEF Reasons
    <2>5. c[i].verdict.decision \in {"DENY", "ERROR", "EXPIRED"}
      BY <1>10
    <2> HIDE DEF v
    <2>6. /\ ~Passes(m, r, ledger, t, clock, state, trust)
          /\ v.decision \in {"DENY", "ERROR", "EXPIRED"} /\ Reasons(m, ledger, t, v)
      BY <1>13, <2>2, <2>3, <2>4, <2>5
    <2> QED
      BY <2>6 DEF v, c
  <1> QED
    BY <1>1, <1>14, <1>15, SomeFirst

\* The verdict of a request that has passed so far.
EscalationVerdict(m, r, ledger, skip, v) ==
    \/ /\ ~skip /\ NeedsHuman(m, r) /\ v.decision = "PENDING_APPROVAL"
       /\ v.rule \in {"cockpit_hitl_required", "escalation_required"}
    \/ /\ skip \/ ~NeedsHuman(m, r)
       /\ ledger.recent >= m.max_calls /\ v.decision = "DENY" /\ v.rule = "rate_limit_exceeded"
    \/ /\ skip \/ ~NeedsHuman(m, r)
       /\ ~(ledger.recent >= m.max_calls) /\ v = AllChecksPassed

\* The checks after those: the question for a human, then the rate.
LEMMA EscalationOutcome ==
    ASSUME NEW m, NEW r, NEW ledger, NEW skip
    PROVE  EscalationVerdict(m, r, ledger, skip, FirstOf(<<
               Stop(~skip /\ AlwaysEscalates(r), "PENDING_APPROVAL", "cockpit_hitl_required"),
               Stop(~skip /\ Escalates(m, r), "PENDING_APPROVAL", "escalation_required"),
               Stop(ledger.recent >= m.max_calls, "DENY", "rate_limit_exceeded")>>,
               AllChecksPassed))
  <1> DEFINE e == <<Stop(~skip /\ AlwaysEscalates(r), "PENDING_APPROVAL", "cockpit_hitl_required"),
                    Stop(~skip /\ Escalates(m, r), "PENDING_APPROVAL", "escalation_required"),
                    Stop(ledger.recent >= m.max_calls, "DENY", "rate_limit_exceeded")>>
             v == FirstOf(e, AllChecksPassed)
  <1>1. DOMAIN e = 1..3
    OBVIOUS
  <1>2. /\ e[1].holds <=> (~skip /\ AlwaysEscalates(r))
        /\ e[2].holds <=> (~skip /\ Escalates(m, r))
        /\ e[3].holds <=> (ledger.recent >= m.max_calls)
    BY DEF Stop
  <1>3. /\ e[1].verdict = [decision |-> "PENDING_APPROVAL", rule |-> "cockpit_hitl_required"]
        /\ e[2].verdict = [decision |-> "PENDING_APPROVAL", rule |-> "escalation_required"]
        /\ e[3].verdict = [decision |-> "DENY", rule |-> "rate_limit_exceeded"]
    BY DEF Stop
  <1> HIDE DEF e
  <1>4. \A i \in 1..3 : i = 1 \/ i = 2 \/ i = 3
    OBVIOUS
  <1>5. ASSUME NoneHolds(e)
        PROVE  EscalationVerdict(m, r, ledger, skip, v)
    <2>1. v = AllChecksPassed
      BY <1>5, FirstOfNone
    <2>2. ~e[1].holds /\ ~e[2].holds /\ ~e[3].holds
      BY <1>1, <1>5 DEF NoneHolds
    <2> HIDE DEF v
    <2> QED
      BY <1>2, <2>1, <2>2 DEF NeedsHuman, EscalationVerdict
  <1>6. ASSUME \E i \in 1..3 : HoldsFirst(e, i)
        PROVE  EscalationVerdict(m, r, ledger, skip, v)
    <2>1. PICK i \in 1..3 : HoldsFirst(e, i)
      BY <1>6
    <2>2. v = e[i].verdict
      BY <1>1, <2>1, FirstOfAt
    <2>3. /\ e[i].holds
          /\ i = 3 => ~e[1].holds /\ ~e[2].holds
      BY <1>1, <2>1 DEF HoldsFirst
    <2> HIDE DEF v
    <2>4. CASE i = 1
      BY <1>2, <1>3, <2>2, <2>3, <2>4 DEF NeedsHuman, EscalationVerdict
    <2>5. CASE i = 2
      BY <1>2, <1>3, <2>2, <2>3, <2>5 DEF NeedsHuman, EscalationVerdict
    <2>6. CASE i = 3
      BY <1>2, <1>3, <2>2, <2>3, <2>6 DEF NeedsHuman, EscalationVerdict
    <2> QED
      BY <1>4, <2>4, <2>5, <2>6
  <1>7. EscalationVerdict(m, r, ledger, skip, v)
    BY <1>1, <1>5, <1>6, SomeFirst
  <1> QED
    BY <1>7 DEF v, e

\* What the pipeline decides.
CoreVerdict(m, r, ledger, now_, clock, state, skip, trust, v) ==
    IF Passes(m, r, ledger, now_, clock, state, trust)
    THEN EscalationVerdict(m, r, ledger, skip, v)
    ELSE v.decision \in {"DENY", "ERROR", "EXPIRED"} /\ Reasons(m, ledger, now_, v)

\* Of a list of checks put before the checks of the pipeline.
LEMMA ChecksJoined ==
    ASSUME NEW m, NEW r, NEW ledger, NEW t, NEW clock, NEW state, NEW skip, NEW trust,
           NEW a, NEW n \in Nat, DOMAIN a = 1..n
    PROVE  FirstOf(a \o Checks(m, r, ledger, t, clock, state, skip, trust), AllChecksPassed)
               = FirstOf(a, decide_core(m, r, ledger, t, clock, state, skip, trust))
  <1> DEFINE c == ChecksBeforeEscalation(m, r, ledger, t, clock, state, trust)
             e == <<Stop(~skip /\ AlwaysEscalates(r), "PENDING_APPROVAL", "cockpit_hitl_required"),
                    Stop(~skip /\ Escalates(m, r), "PENDING_APPROVAL", "escalation_required"),
                    Stop(ledger.recent >= m.max_calls, "DENY", "rate_limit_exceeded")>>
  <1> DEFINE k == 15
             l == 3
  <1>1. DOMAIN c = 1..k /\ DOMAIN e = 1..l /\ k \in Nat /\ l \in Nat /\ k + l \in Nat
    BY DEF ChecksBeforeEscalation
  <1> HIDE DEF c, e, k, l
  <1>2. DOMAIN (c \o e) = 1..(k + l)
    BY <1>1, FirstOfJoined
  <1>3. Checks(m, r, ledger, t, clock, state, skip, trust) = c \o e
    BY DEF Checks, c, e
  <1> DEFINE d == c \o e
  <1>4. DOMAIN d = 1..(k + l)
    BY <1>2
  <1> HIDE DEF d
  <1>5. FirstOf(a \o d, AllChecksPassed) = FirstOf(a, FirstOf(d, AllChecksPassed))
    BY <1>1, <1>4, FirstOfJoined
  <1> QED
    BY <1>3, <1>5 DEF decide_core, d

\* The pipeline decides by what the request has passed.
LEMMA CoreOutcome ==
    ASSUME NEW m, NEW r, NEW ledger, NEW t, NEW clock, NEW state, NEW skip, NEW trust
    PROVE  CoreVerdict(m, r, ledger, t, clock, state, skip, trust,
                       decide_core(m, r, ledger, t, clock, state, skip, trust))
  <1> DEFINE c == ChecksBeforeEscalation(m, r, ledger, t, clock, state, trust)
             e == <<Stop(~skip /\ AlwaysEscalates(r), "PENDING_APPROVAL", "cockpit_hitl_required"),
                    Stop(~skip /\ Escalates(m, r), "PENDING_APPROVAL", "escalation_required"),
                    Stop(ledger.recent >= m.max_calls, "DENY", "rate_limit_exceeded")>>
             o == FirstOf(e, AllChecksPassed)
             v == FirstOf(c, o)
  <1> DEFINE k == 15
             l == 3
  <1>1. DOMAIN c = 1..k /\ DOMAIN e = 1..l /\ k \in Nat /\ l \in Nat
    BY DEF ChecksBeforeEscalation
  <1>2. EscalationVerdict(m, r, ledger, skip, o)
    BY EscalationOutcome
  <1>3. \/ Passes(m, r, ledger, t, clock, state, trust) /\ v = o
        \/ /\ ~Passes(m, r, ledger, t, clock, state, trust)
           /\ v.decision \in {"DENY", "ERROR", "EXPIRED"} /\ Reasons(m, ledger, t, v)
    BY BeforeOutcome, Zenon
  <1>4. decide_core(m, r, ledger, t, clock, state, skip, trust) = FirstOf(c \o e, AllChecksPassed)
    BY DEF decide_core, Checks
  <1> HIDE DEF c, e, k, l
  <1>5. FirstOf(c \o e, AllChecksPassed) = v
    BY <1>1, FirstOfJoined
  <1> HIDE DEF v, o
  <1> QED
    BY <1>2, <1>3, <1>4, <1>5 DEF CoreVerdict

\* What Phase 1 decides.
DecideVerdict(m, r, ledger, now_, clock, state, trust, v) ==
    IF Passes(m, r, ledger, now_, clock, state, trust)
    THEN \/ /\ NeedsHuman(m, r) /\ v.decision = "PENDING_APPROVAL"
            /\ v.rule \in {"cockpit_hitl_required", "escalation_required"}
         \/ /\ ~NeedsHuman(m, r) /\ ledger.recent >= m.max_calls
            /\ v.decision = "DENY" /\ v.rule = "rate_limit_exceeded"
         \/ ~NeedsHuman(m, r) /\ ~(ledger.recent >= m.max_calls) /\ v = AllChecksPassed
    ELSE v.decision \in {"DENY", "ERROR", "EXPIRED"} /\ Reasons(m, ledger, now_, v)

\* What `decide` answers, one way or the other.
LEMMA DecideOutcome ==
    ASSUME NEW m, NEW r, NEW ledger, NEW t, NEW clock, NEW state, NEW trust
    PROVE  DecideVerdict(m, r, ledger, t, clock, state, trust,
                         decide(m, r, ledger, t, clock, state, trust))
  <1> DEFINE v == decide_core(m, r, ledger, t, clock, state, FALSE, trust)
  <1>1. CoreVerdict(m, r, ledger, t, clock, state, FALSE, trust, v)
    BY CoreOutcome
  <1> HIDE DEF v
  <1>2. DecideVerdict(m, r, ledger, t, clock, state, trust, v)
    BY <1>1 DEF CoreVerdict, EscalationVerdict, DecideVerdict
  <1> QED
    BY <1>2 DEF decide, v

\* What Phase 1 lets through, or asks a human about, has passed.
LEMMA DecidePasses ==
    ASSUME NEW m, NEW r, NEW ledger, NEW t, NEW clock, NEW state, NEW trust,
           decide(m, r, ledger, t, clock, state, trust).decision \in {"ALLOW", "PENDING_APPROVAL"}
    PROVE  /\ Passes(m, r, ledger, t, clock, state, trust)
           /\ decide(m, r, ledger, t, clock, state, trust).decision = "ALLOW" => ~NeedsHuman(m, r)
  BY DecideOutcome DEF DecideVerdict, AllChecksPassed

\* Phase 1 gives one of four decisions.
LEMMA DecideDecides ==
    ASSUME NEW m, NEW r, NEW ledger, NEW t, NEW clock, NEW state, NEW trust
    PROVE  decide(m, r, ledger, t, clock, state, trust).decision
               \in {"ALLOW", "PENDING_APPROVAL", "DENY", "ERROR", "EXPIRED"}
  BY DecideOutcome DEF DecideVerdict, AllChecksPassed

\* What Phase 2 asks first.
PassesApproval(m, r, pending, grant, now_) ==
    /\ m.parses
    /\ classify_vehicle_tool(r.tool) # "Forbidden" /\ classify_cockpit_tool(r.tool) # "Forbidden"
    /\ ~GrantExpired(grant, pending, now_) /\ verify_against_binding(grant, pending, now_)
    /\ ~(now_ >= pending.ttl_expires_at)

ApprovalVerdict(m, r, ledger, now_, clock, state, pending, grant, trust, v) ==
    IF PassesApproval(m, r, pending, grant, now_)
    THEN v = decide_core(m, r, ledger, now_, clock, state, TRUE, trust)
    ELSE v.decision \in {"DENY", "ERROR"}

\* Phase 2 turns away or leaves it to the pipeline without its question for a human.
LEMMA ApprovalOutcome ==
    ASSUME NEW m, NEW r, NEW ledger, NEW t, NEW clock, NEW state, NEW b, NEW g, NEW trust
    PROVE  ApprovalVerdict(m, r, ledger, t, clock, state, b, g, trust,
               decide_with_approval(m, r, ledger, t, clock, state, b, g, trust))
  <1> DEFINE a == ApprovalChecks(m, r, b, g, t)
             o == decide_core(m, r, ledger, t, clock, state, TRUE, trust)
             v == FirstOf(a, o)
             n == 6
  <1>1. DOMAIN a = 1..6
    BY DEF ApprovalChecks
  <1>2. /\ a[1].holds = ~m.parses
        /\ a[2].holds = (classify_vehicle_tool(r.tool) = "Forbidden")
        /\ a[3].holds = (classify_cockpit_tool(r.tool) = "Forbidden")
    BY DEF ApprovalChecks, Stop
  <1>3. /\ a[4].holds = GrantExpired(g, b, t) /\ a[5].holds = ~verify_against_binding(g, b, t)
        /\ a[6].holds = (t >= b.ttl_expires_at)
    BY DEF ApprovalChecks, Stop
  <1>4. /\ a[1].verdict = [decision |-> "ERROR", rule |-> "mandate"]
        /\ a[2].verdict = [decision |-> "DENY", rule |-> "vehicle_forbidden_domain"]
        /\ a[3].verdict = [decision |-> "DENY", rule |-> "cockpit_forbidden_domain"]
        /\ a[4].verdict = [decision |-> "DENY", rule |-> "approval_grant_expired"]
        /\ a[5].verdict = [decision |-> "DENY", rule |-> "approval_grant_invalid"]
        /\ a[6].verdict = [decision |-> "DENY", rule |-> "pending_approval_expired"]
    BY DEF ApprovalChecks, Stop
  <1>5. n \in Nat /\ DOMAIN a = 1..n
    BY <1>1
  <1> HIDE DEF a, n
  <1>6. decide_with_approval(m, r, ledger, t, clock, state, b, g, trust) = v
    BY <1>5, ChecksJoined DEF decide_with_approval, a
  <1>7. \A i \in 1..6 : i = 1 \/ i = 2 \/ i = 3 \/ i = 4 \/ i = 5 \/ i = 6
    OBVIOUS
  <1>8. NoneHolds(a) <=> PassesApproval(m, r, b, g, t)
    <2>1. NoneHolds(a) <=> /\ ~a[1].holds /\ ~a[2].holds /\ ~a[3].holds
                           /\ ~a[4].holds /\ ~a[5].holds /\ ~a[6].holds
      BY <1>1, <1>7 DEF NoneHolds
    <2> QED
      BY <1>2, <1>3, <2>1 DEF PassesApproval
  <1>9. ASSUME NoneHolds(a)
        PROVE  ApprovalVerdict(m, r, ledger, t, clock, state, b, g, trust, v)
    <2>1. v = o
      BY <1>9, FirstOfNone
    <2> HIDE DEF v
    <2> QED
      BY <1>8, <1>9, <2>1 DEF ApprovalVerdict
  <1>10. ASSUME \E i \in 1..6 : HoldsFirst(a, i)
         PROVE  ApprovalVerdict(m, r, ledger, t, clock, state, b, g, trust, v)
    <2>1. PICK i \in 1..6 : HoldsFirst(a, i)
      BY <1>10
    <2>2. v = a[i].verdict
      BY <1>1, <2>1, FirstOfAt
    <2>3. ~NoneHolds(a)
      BY <2>1 DEF HoldsFirst, NoneHolds
    <2>4. a[i].verdict.decision \in {"DENY", "ERROR"}
      BY <1>4, <1>7
    <2> HIDE DEF v
    <2> QED
      BY <1>8, <2>2, <2>3, <2>4 DEF ApprovalVerdict
  <1>11. ApprovalVerdict(m, r, ledger, t, clock, state, b, g, trust, v)
    BY <1>1, <1>9, <1>10, SomeFirst
  <1> QED
    BY <1>6, <1>11

(***************************************************************************)
(* The answers.  An answer is given in the state the call was made in:     *)
(* until it is taken, it is what the pipeline says of its arguments now.   *)
(***************************************************************************)

AnswerTo(by, c, r, state, ledger, sensor, pending, grant, v) ==
    [by |-> by, m |-> c.m, r |-> r, state |-> state, trust |-> c.trust, ledger |-> ledger,
     sensor |-> sensor, pending |-> pending, grant |-> grant, at |-> now,
     decision |-> v.decision, rule |-> v.rule]

\* a2g_decide answered c.
DecideAnswer(c) ==
    LET r == ReadParams(c)
        v == decide(c.m, r, NoopLedger, now, now, StateOf(c.sensor), c.trust)
    IN verdict = AnswerTo("a2g_decide", c, r, StateOf(c.sensor), NoopLedger, c.sensor, Null, Null, v)

\* a2g_decide_with_approval answered c, with the binding b and the grant g.
ApprovalAnswer(c, b, g) ==
    LET r == ReadParams(c)
        v == decide_with_approval(c.m, r, NoopLedger, now, now, StateOf(c.sensor), b, g, c.trust)
    IN verdict = AnswerTo("a2g_decide_with_approval", c, r, StateOf(c.sensor), NoopLedger, c.sensor,
                          b, g, v)

\* The request the pipeline gets from `enforce`: the path is the real one.
Resolved(c) ==
    [c.r EXCEPT !.path = IF c.r.path = Absent THEN Absent ELSE resolve_path_for_enforce(c.r.path)]

EnforceAnswer(c) ==
    LET state == extract_vehicle_state(c.r)
        v == decide(c.m, Resolved(c), c.ledger, now, now, state, c.trust)
    IN verdict = AnswerTo("enforce", c, c.r, state, c.ledger, Null, Null, Null, v)

VerifyAnswer(m) ==
    verdict = [by |-> "verify", m |-> m, at |-> now,
               decision |-> IF verify_cbor_mandate(m, now) THEN "valid" ELSE "invalid"]

\* What the last answer can be.
AnswerInv ==
    \/ verdict = NoVerdict
    \/ \E by \in {"a2g_decide", "a2g_decide_with_approval", "enforce"} :
           verdict = [by |-> by, decision |-> "ERROR"]
    \/ \E c \in HostCalls : ~BadArguments(c) /\ DecideAnswer(c)
    \/ \E c \in HostCalls, b \in bindings, g \in grants : ~BadArguments(c) /\ ApprovalAnswer(c, b, g)
    \/ \E c \in EnforceCalls :
           /\ c.r.path # Absent => resolve_path_for_enforce(c.r.path) # Unresolvable
           /\ EnforceAnswer(c)
    \/ \E c \in HostCalls \cup EnforceCalls : VerifyAnswer(c.m)

\* A binding is that of a call made at some moment and lives five minutes from it.
BindingsInv ==
    \A b \in bindings : \E c \in HostCalls, t \in 0..MaxTime :
        b.request_hash = compute_request_hash(c.m, ReadParams(c), t)
        /\ b.ttl_expires_at = t + PENDING_APPROVAL_TTL

IInv == now \in 0..MaxTime /\ AnswerInv /\ BindingsInv

\* While no answer waits, what the answer can be does not depend on the rest.
LEMMA NoAnswerYet ==
    ASSUME verdict' = NoVerdict
    PROVE  AnswerInv'
  BY DEF AnswerInv

\* The empty answer is none of the answers.
LEMMA IdleUnchanged ==
    ASSUME Idle, UNCHANGED verdict
    PROVE  AnswerInv'
  BY NoAnswerYet DEF Idle

\* The host calls a2g_decide.
LEMMA DecideStep ==
    ASSUME IInv, NEW c \in HostCalls, a2g_decide(c)
    PROVE  IInv'
  <1> DEFINE r == ReadParams(c)
             state == StateOf(c.sensor)
             d == decide(c.m, r, NoopLedger, now, now, state, c.trust)
             v == IF BadArguments(c) THEN ErrorVerdict ELSE d
             b == PendingApprovalBinding(Cardinality(bindings), c.m, r, now)
  <1>1. /\ Answer("a2g_decide", c, r, state, NoopLedger, Null, Null, v)
        /\ bindings' = bindings \/ bindings' = bindings \cup {b}
        /\ UNCHANGED <<now, grants>>
    BY Zenon DEF a2g_decide
  <1>2. b.request_hash = compute_request_hash(c.m, r, now) /\ b.ttl_expires_at = now + PENDING_APPROVAL_TTL
    BY DEF PendingApprovalBinding
  <1> HIDE DEF b, d
  <1>3. BindingsInv'
    BY <1>1, <1>2 DEF BindingsInv, IInv
  <1>4. AnswerInv'
    <2>1. CASE v.decision = "ERROR"
      <3>1. verdict' = [by |-> "a2g_decide", decision |-> "ERROR"]
        BY <1>1, <2>1 DEF Answer
      <3> QED
        BY <3>1 DEF AnswerInv
    <2>2. CASE v.decision # "ERROR"
      <3>1. ~BadArguments(c) /\ v = d
        BY <2>2 DEF ErrorVerdict
      <3>2. verdict' = [by |-> "a2g_decide", m |-> c.m, r |-> r, state |-> state, trust |-> c.trust,
                 ledger |-> NoopLedger, sensor |-> c.sensor,
                 pending |-> Null, grant |-> Null, at |-> now,
                 decision |-> d.decision, rule |-> d.rule]
        BY <1>1, <2>2, <3>1 DEF Answer
      <3>3. now' = now
        BY <1>1
      <3>4. DecideAnswer(c)'
        BY <3>2, <3>3 DEF DecideAnswer, AnswerTo, d
      <3> QED
        BY <3>1, <3>4 DEF AnswerInv
    <2> QED
      BY <2>1, <2>2
  <1> QED
    BY <1>1, <1>3, <1>4 DEF IInv

\* The host calls a2g_decide_with_approval with some binding and grant.
LEMMA ApprovalStep ==
    ASSUME IInv, NEW c \in HostCalls, NEW b \in bindings, NEW signed \in BOOLEAN, NEW g \in grants,
           a2g_decide_with_approval(c, b, signed, g)
    PROVE  IInv'
  <1> DEFINE r == ReadParams(c)
             state == StateOf(c.sensor)
             d == decide_with_approval(c.m, r, NoopLedger, now, now, state, b, g, c.trust)
             v == IF BadArguments(c) \/ ~signed THEN ErrorVerdict ELSE d
  <1>1. /\ Answer("a2g_decide_with_approval", c, r, state, NoopLedger, b, g, v)
        /\ UNCHANGED <<now, bindings, grants>>
    BY Zenon DEF a2g_decide_with_approval
  <1> HIDE DEF d
  <1>2. AnswerInv'
    <2>1. CASE v.decision = "ERROR"
      <3>1. verdict' = [by |-> "a2g_decide_with_approval", decision |-> "ERROR"]
        BY <1>1, <2>1 DEF Answer
      <3> QED
        BY <3>1 DEF AnswerInv
    <2>2. CASE v.decision # "ERROR"
      <3>1. ~BadArguments(c) /\ v = d
        BY <2>2 DEF ErrorVerdict
      <3>2. verdict' = [by |-> "a2g_decide_with_approval", m |-> c.m, r |-> r, state |-> state,
                 trust |-> c.trust, ledger |-> NoopLedger, sensor |-> c.sensor,
                 pending |-> b, grant |-> g, at |-> now,
                 decision |-> d.decision, rule |-> d.rule]
        BY <1>1, <2>2, <3>1 DEF Answer
      <3>3. now' = now /\ b \in bindings' /\ g \in grants'
        BY <1>1
      <3>4. ApprovalAnswer(c, b, g)'
        BY <3>2, <3>3 DEF ApprovalAnswer, AnswerTo, d
      <3> QED
        BY <3>1, <3>3, <3>4 DEF AnswerInv
    <2> QED
      BY <2>1, <2>2
  <1> QED
    BY <1>1, <1>2 DEF IInv, BindingsInv

\* The command `enforce`, on the path as it resolves it.
LEMMA EnforceStep ==
    ASSUME IInv, NEW c \in EnforceCalls, enforce(c)
    PROVE  IInv'
  <1> DEFINE path == IF c.r.path = Absent THEN Absent ELSE resolve_path_for_enforce(c.r.path)
             r == [c.r EXCEPT !.path = path]
             state == extract_vehicle_state(c.r)
             d == decide(c.m, r, c.ledger, now, now, state, c.trust)
             v == IF path = Unresolvable THEN [decision |-> "ERROR", rule |-> "path"] ELSE d
  <1>1. /\ Answer("enforce", c, c.r, state, c.ledger, Null, Null, v)
        /\ UNCHANGED <<now, bindings, grants>>
    BY Zenon DEF enforce
  <1>2. r = Resolved(c)
    BY DEF Resolved
  <1>3. c.r.path # Absent => path = resolve_path_for_enforce(c.r.path)
    OBVIOUS
  <1> HIDE DEF d, path, r
  <1>4. AnswerInv'
    <2>1. CASE v.decision = "ERROR"
      <3>1. verdict' = [by |-> "enforce", decision |-> "ERROR"]
        BY <1>1, <2>1 DEF Answer
      <3> QED
        BY <3>1 DEF AnswerInv
    <2>2. CASE v.decision # "ERROR"
      <3>1. path # Unresolvable /\ v = d
        BY <2>2
      <3>2. verdict' = [by |-> "enforce", m |-> c.m, r |-> c.r, state |-> state, trust |-> c.trust,
                 ledger |-> c.ledger, sensor |-> Null,
                 pending |-> Null, grant |-> Null, at |-> now,
                 decision |-> d.decision, rule |-> d.rule]
        BY <1>1, <2>2, <3>1 DEF Answer
      <3>3. now' = now
        BY <1>1
      <3>4. EnforceAnswer(c)'
        BY <1>2, <3>2, <3>3 DEF EnforceAnswer, AnswerTo, d
      <3>5. c.r.path # Absent => resolve_path_for_enforce(c.r.path) # Unresolvable
        BY <1>3, <3>1
      <3> QED
        BY <3>4, <3>5 DEF AnswerInv
    <2> QED
      BY <2>1, <2>2
  <1> QED
    BY <1>1, <1>4 DEF IInv, BindingsInv

\* The command `verify`.
LEMMA VerifyStep ==
    ASSUME IInv, NEW c \in HostCalls \cup EnforceCalls, cmd_verify(c.m)
    PROVE  IInv'
  <1>1. VerifyAnswer(c.m)'
    BY DEF cmd_verify, VerifyAnswer
  <1>2. AnswerInv'
    BY <1>1 DEF AnswerInv
  <1> QED
    BY <1>2 DEF cmd_verify, IInv, BindingsInv

\* No step of the callers breaks the invariant.
LEMMA Inductive ==
    ASSUME IInv, [Next]_vars
    PROVE  IInv'
  <1>1. ASSUME NEW b \in bindings, NEW approver \in Approvers, NEW ttl \in GrantTtls,
               Approve(b, approver, ttl)
        PROVE  IInv'
    BY <1>1, IdleUnchanged DEF Approve, IInv, BindingsInv
  <1>2. ASSUME a2g_verdict_free
        PROVE  IInv'
    BY <1>2, NoAnswerYet DEF a2g_verdict_free, IInv, BindingsInv
  <1>3. ASSUME Tick
        PROVE  IInv'
    BY <1>3, IdleUnchanged, BoundAssumption DEF Tick, IInv, BindingsInv
  <1>4. ASSUME UNCHANGED vars
        PROVE  IInv'
    <2>1. AnswerInv'
      BY <1>4 DEF vars, IInv, AnswerInv, DecideAnswer, ApprovalAnswer, EnforceAnswer, VerifyAnswer,
                  AnswerTo
    <2> QED
      BY <1>4, <2>1 DEF vars, IInv, BindingsInv
  <1> QED
    BY <1>1, <1>2, <1>3, <1>4, DecideStep, ApprovalStep, EnforceStep, VerifyStep DEF Next

\* Every answer is the one the pipeline gives, at that moment, to the call it names.
THEOREM Invariance == Spec => []IInv
  <1>1. Init => IInv
    <2>1. Init => AnswerInv
      BY DEF Init, AnswerInv
    <2> QED
      BY <2>1, BoundAssumption DEF Init, IInv, BindingsInv
  <1>2. IInv /\ [Next]_vars => IInv'
    BY Inductive
  <1> QED
    BY <1>1, <1>2, PTL DEF Spec

(***************************************************************************)
(* What the answers say.                                                   *)
(***************************************************************************)

\* Reading the parameters leaves the tool.
LEMMA SameTool ==
    /\ \A c \in HostCalls : ReadParams(c).tool = c.r.tool
    /\ \A c \in EnforceCalls : Resolved(c).tool = c.r.tool
  BY CallsAssumption DEF ReadParams, Resolved

\* An answer that says something about its call is one of three.
LEMMA ThreeAnswers ==
    ASSUME IInv, Answered
    PROVE  \/ \E c \in HostCalls : ~BadArguments(c) /\ DecideAnswer(c)
           \/ \E c \in HostCalls, b \in bindings, g \in grants :
                  ~BadArguments(c) /\ ApprovalAnswer(c, b, g)
           \/ \E c \in EnforceCalls :
                  /\ c.r.path # Absent => resolve_path_for_enforce(c.r.path) # Unresolvable
                  /\ EnforceAnswer(c)
  <1>1. verdict # NoVerdict
    BY DEF Answered, NoVerdict
  <1>2. \A by : verdict # [by |-> by, decision |-> "ERROR"]
    BY DEF Answered
  <1>3. \A m : ~VerifyAnswer(m)
    BY DEF Answered, VerifyAnswer
  <1> QED
    BY <1>1, <1>2, <1>3 DEF IInv, AnswerInv

\* What each of them says.
LEMMA DecideFields ==
    ASSUME NEW c, DecideAnswer(c)
    PROVE  /\ verdict.by = "a2g_decide" /\ verdict.m = c.m /\ verdict.r = ReadParams(c)
           /\ verdict.state = StateOf(c.sensor) /\ verdict.trust = c.trust
           /\ verdict.ledger = NoopLedger /\ verdict.sensor = c.sensor /\ verdict.at = now
           /\ verdict.decision = decide(c.m, ReadParams(c), NoopLedger, now, now, StateOf(c.sensor),
                                        c.trust).decision
  BY DEF DecideAnswer, AnswerTo

\* The parts of a verdict of the second phase.
LEMMA ApprovalFields ==
    ASSUME NEW c, NEW b, NEW g, ApprovalAnswer(c, b, g)
    PROVE  /\ verdict.by = "a2g_decide_with_approval" /\ verdict.m = c.m /\ verdict.r = ReadParams(c)
           /\ verdict.state = StateOf(c.sensor) /\ verdict.trust = c.trust
           /\ verdict.ledger = NoopLedger /\ verdict.sensor = c.sensor /\ verdict.at = now
           /\ verdict.pending = b /\ verdict.grant = g
           /\ verdict.decision = decide_with_approval(c.m, ReadParams(c), NoopLedger, now, now,
                                                      StateOf(c.sensor), b, g, c.trust).decision
  BY DEF ApprovalAnswer, AnswerTo

\* The parts of a verdict of `enforce`.
LEMMA EnforceFields ==
    ASSUME NEW c, EnforceAnswer(c)
    PROVE  /\ verdict.by = "enforce" /\ verdict.m = c.m /\ verdict.r = c.r
           /\ verdict.state = extract_vehicle_state(c.r) /\ verdict.trust = c.trust
           /\ verdict.ledger = c.ledger /\ verdict.at = now
           /\ verdict.decision = decide(c.m, Resolved(c), c.ledger, now, now,
                                        extract_vehicle_state(c.r), c.trust).decision
  BY DEF EnforceAnswer, AnswerTo

\* What Phase 2 lets through has passed, and Phase 2 has looked at the grant and at the binding.
LEMMA ApprovedPasses ==
    ASSUME NEW m, NEW r, NEW ledger, NEW t, NEW clock, NEW state, NEW b, NEW g, NEW trust,
           decide_with_approval(m, r, ledger, t, clock, state, b, g, trust).decision
               \in {"ALLOW", "PENDING_APPROVAL"}
    PROVE  /\ PassesApproval(m, r, b, g, t) /\ Passes(m, r, ledger, t, clock, state, trust)
           /\ ~(ledger.recent >= m.max_calls)
           /\ decide_with_approval(m, r, ledger, t, clock, state, b, g, trust).decision = "ALLOW"
  <1> DEFINE v == decide_with_approval(m, r, ledger, t, clock, state, b, g, trust)
             o == decide_core(m, r, ledger, t, clock, state, TRUE, trust)
  <1>1. ApprovalVerdict(m, r, ledger, t, clock, state, b, g, trust, v)
    BY ApprovalOutcome
  <1>2. v.decision \in {"ALLOW", "PENDING_APPROVAL"}
    OBVIOUS
  <1> HIDE DEF v
  <1>3. PassesApproval(m, r, b, g, t) /\ v = o
    BY <1>1, <1>2 DEF ApprovalVerdict
  <1>4. Passes(m, r, ledger, t, clock, state, trust) /\ EscalationVerdict(m, r, ledger, TRUE, o)
    <2>1. o.decision \in {"ALLOW", "PENDING_APPROVAL"}
      BY <1>2, <1>3
    <2>2. CoreVerdict(m, r, ledger, t, clock, state, TRUE, trust, o)
      BY CoreOutcome
    <2> HIDE DEF o
    <2> QED
      BY <2>1, <2>2 DEF CoreVerdict
  <1> HIDE DEF o
  <1>5. ~(ledger.recent >= m.max_calls) /\ o.decision = "ALLOW"
    BY <1>2, <1>3, <1>4 DEF EscalationVerdict, AllChecksPassed
  <1> QED
    BY <1>3, <1>4, <1>5 DEF v

\* An approval lifts the question for a human and nothing else: decide_with_approval
\* repeats every other check of decide_core, at the time and on the state of its call.
THEOREM OnlyEscalationLifted == Spec => []ApprovalLiftsOnlyEscalation
  <1>1. ASSUME IInv
        PROVE  ApprovalLiftsOnlyEscalation
    <2>1. SUFFICES ASSUME Answered, Allowed, verdict.by = "a2g_decide_with_approval"
                   PROVE  decide(verdict.m, verdict.r, verdict.ledger, verdict.at, verdict.at,
                                 verdict.state, verdict.trust).decision \in {"ALLOW", "PENDING_APPROVAL"}
      BY DEF ApprovalLiftsOnlyEscalation
    <2>2. PICK c \in HostCalls, b \in bindings, g \in grants : ApprovalAnswer(c, b, g)
      BY <1>1, <2>1, ThreeAnswers, DecideFields, EnforceFields
    <2> DEFINE r == ReadParams(c)
               s == StateOf(c.sensor)
               o == decide(c.m, r, NoopLedger, now, now, s, c.trust)
    <2>3. /\ Passes(c.m, r, NoopLedger, now, now, s, c.trust)
          /\ ~(NoopLedger.recent >= c.m.max_calls)
      BY <2>1, <2>2, ApprovalFields, ApprovedPasses DEF Allowed
    <2>4. DecideVerdict(c.m, r, NoopLedger, now, now, s, c.trust, o)
      BY DecideOutcome
    <2> HIDE DEF o, s, r
    <2>5. o.decision \in {"ALLOW", "PENDING_APPROVAL"}
      BY <2>3, <2>4 DEF DecideVerdict, AllChecksPassed
    <2> QED
      BY <2>2, <2>5, ApprovalFields DEF o, r, s
  <1> QED
    BY <1>1, Invariance, PTL

----------------------------------------------------------------------------
\* The classification follows the tables.
LEMMA Forbidden ==
    ASSUME NEW tool, ForbiddenTool(tool)
    PROVE  classify_vehicle_tool(tool) = "Forbidden" \/ classify_cockpit_tool(tool) = "Forbidden"
  <1>1. CASE /\ Len(tool) > 2 /\ tool[1] = "vehicle"
             /\ tool[2] \in {"powertrain", "chassis", "adas", "drive", "steering", "braking", "throttle"}
    <2>1. InVehicleDomain(tool, {"powertrain", "chassis", "adas", "drive", "steering", "braking", "throttle"})
      BY <1>1 DEF InVehicleDomain
    <2>2. ~InVehicleDomain(tool, {"door", "window", "trunk", "lock"})
      BY <1>1 DEF InVehicleDomain
    <2>3. ~InVehicleDomain(tool, {"navigation", "phone"})
      BY <1>1 DEF InVehicleDomain
    <2>4. ~InVehicleDomain(tool, {"climate", "seat", "lighting", "media"})
      BY <1>1 DEF InVehicleDomain
    <2>5. Below("vehicle", tool)
      BY <1>1 DEF InVehicleDomain, Below
    <2> QED
      BY <2>1, <2>2, <2>3, <2>4, <2>5 DEF classify_vehicle_tool
  <1>2. ASSUME NEW name \in {"CRUISE_CONTROL_COMMAND", "LANE_CENTERING_ASSIST_COMMAND", "EV_STOPPING_MODE"},
               tool = <<name>>
        PROVE  classify_vehicle_tool(tool) = "Forbidden"
    <2>1. ~Below("vehicle", tool) /\ Len(tool) = 1 /\ tool[1] = name
      BY <1>2 DEF Below
    <2>2. classify_vhal_property(name) = "Forbidden"
      BY DEF classify_vhal_property, VhalForbidden, VhalSensitive, VhalComfort
    <2> QED
      BY <2>1, <2>2 DEF classify_vehicle_tool
  <1>3. CASE tool = <<"pii", "profile", "export">>
    <2>1. ~Below("comms", tool) /\ ~Below("pay", tool) /\ Below("pii", tool) /\ tool[Len(tool)] # "read"
      BY <1>3 DEF Below
    <2>2. classify_pii(tool) = "Forbidden"
      BY <1>3, <2>1 DEF classify_pii
    <2> QED
      BY <2>1, <2>2 DEF classify_cockpit_tool
  <1> QED
    BY <1>1, <1>2, <1>3 DEF ForbiddenTool

\* What opens the vehicle is gated by its state.
LEMMA Sensitive ==
    ASSUME NEW tool, OpeningTool(tool)
    PROVE  classify_vehicle_tool(tool) = "Sensitive"
  <1>1. CASE /\ Len(tool) > 2 /\ tool[1] = "vehicle" /\ tool[2] \in {"door", "window", "trunk", "lock"}
    <2>1. ~InVehicleDomain(tool, {"powertrain", "chassis", "adas", "drive", "steering", "braking", "throttle"})
      BY <1>1 DEF InVehicleDomain
    <2>2. InVehicleDomain(tool, {"door", "window", "trunk", "lock"})
      BY <1>1 DEF InVehicleDomain
    <2>3. ~InVehicleDomain(tool, {"navigation", "phone"})
      BY <1>1 DEF InVehicleDomain
    <2>4. ~InVehicleDomain(tool, {"climate", "seat", "lighting", "media"})
      BY <1>1 DEF InVehicleDomain
    <2>5. Below("vehicle", tool)
      BY <1>1 DEF Below
    <2> QED
      BY <2>1, <2>2, <2>3, <2>4, <2>5 DEF classify_vehicle_tool
  <1>2. ASSUME NEW name \in {"DOOR_LOCK", "WINDOW_POS", "WINDOW_MOVE", "EV_CHARGE_PORT_OPEN"},
               tool = <<name>>
        PROVE  classify_vehicle_tool(tool) = "Sensitive"
    <2>1. ~Below("vehicle", tool) /\ Len(tool) = 1 /\ tool[1] = name
      BY <1>2 DEF Below
    <2>2. classify_vhal_property(name) = "Sensitive"
      BY DEF classify_vhal_property, VhalForbidden, VhalSensitive, VhalComfort
    <2> QED
      BY <2>1, <2>2 DEF classify_vehicle_tool
  <1>3. CASE Len(tool) > 1 /\ tool[1] = "vehicle" /\ (Len(tool) = 2 \/ tool[2] \notin KnownDomains)
    <2>1. /\ ~InVehicleDomain(tool, {"powertrain", "chassis", "adas", "drive", "steering", "braking", "throttle"})
          /\ ~InVehicleDomain(tool, {"door", "window", "trunk", "lock"})
          /\ ~InVehicleDomain(tool, {"navigation", "phone"})
          /\ ~InVehicleDomain(tool, {"climate", "seat", "lighting", "media"})
      BY <1>3 DEF InVehicleDomain, KnownDomains
    <2>2. Below("vehicle", tool)
      BY <1>3 DEF Below
    <2> QED
      BY <2>1, <2>2 DEF classify_vehicle_tool
  <1> QED
    BY <1>1, <1>2, <1>3 DEF OpeningTool

\* What needs a human by the documents needs one for the classifier.
LEMMA ForHumans ==
    ASSUME NEW tool, HumanTool(tool)
    PROVE  always_hitl(classify_cockpit_tool(tool))
  <1>1. CASE Len(tool) > 1 /\ tool[1] = "pay"
    <2>1. ~Below("comms", tool) /\ Below("pay", tool) /\ ~Below("pii", tool)
      BY <1>1 DEF Below
    <2> QED
      BY <2>1 DEF classify_cockpit_tool, always_hitl
  <1>2. CASE tool \in {<<"comms", "call", "place">>, <<"comms", "sms", "send">>}
    <2>1. Below("comms", tool) /\ ~Below("pay", tool) /\ ~Below("pii", tool)
      BY <1>2 DEF Below
    <2>2. tool \notin {<<"comms", "contacts", "read">>, <<"comms", "history", "read">>}
      BY <1>2
    <2>3. classify_comms(tool) = "CommsSensitiveHitl"
      BY <1>2, <2>2 DEF classify_comms
    <2> QED
      BY <2>1, <2>3 DEF classify_cockpit_tool, always_hitl
  <1> QED
    BY <1>1, <1>2 DEF HumanTool

\* What gets through, or to a human, has passed with its tool, in the state and at
\* the moment of the answer.
LEMMA GotThrough ==
    ASSUME IInv, Answered, verdict.decision \in {"ALLOW", "PENDING_APPROVAL"}
    PROVE  \E r : /\ r.tool = verdict.r.tool
                  /\ Passes(verdict.m, r, verdict.ledger, verdict.at, verdict.at, verdict.state,
                            verdict.trust)
  <1>1. ASSUME NEW c \in HostCalls, DecideAnswer(c)
        PROVE  Passes(verdict.m, verdict.r, verdict.ledger, verdict.at, verdict.at, verdict.state,
                      verdict.trust)
    BY <1>1, DecideFields, DecidePasses
  <1>2. ASSUME NEW c \in HostCalls, NEW b \in bindings, NEW g \in grants, ApprovalAnswer(c, b, g)
        PROVE  Passes(verdict.m, verdict.r, verdict.ledger, verdict.at, verdict.at, verdict.state,
                      verdict.trust)
    BY <1>2, ApprovalFields, ApprovedPasses
  <1>3. ASSUME NEW c \in EnforceCalls, EnforceAnswer(c)
        PROVE  /\ Resolved(c).tool = verdict.r.tool
               /\ Passes(verdict.m, Resolved(c), verdict.ledger, verdict.at, verdict.at,
                         verdict.state, verdict.trust)
    BY <1>3, EnforceFields, DecidePasses, SameTool
  <1> QED
    BY <1>1, <1>2, <1>3, ThreeAnswers

\* A moment before the end is not after it.
LEMMA NotExpired ==
    ASSUME NEW m, NEW t \in Nat, m.expires_at \in Int, m.expires_at # Never, ~Expired(m, t)
    PROVE  t < m.expires_at
  BY DEF Expired

\* What `a2g verify` calls valid the pipeline does not call expired or invalid at the same
\* moment, and what gets past the pipeline verify calls valid too, but in a last second that
\* it cuts off (num_seconds), though each reads the mandate with code of its own.
THEOREM VerifyAndPipelineAgree == Spec => []VerifyAgrees
  <1>1. ASSUME IInv
        PROVE  VerifyAgrees
    <2>1. ASSUME verdict.decision = "valid", NEW c \in HostCalls, c.m = verdict.m
          PROVE  decide(c.m, c.r, NoopLedger, verdict.at, verdict.at, NoState, c.trust).rule
                     \notin {"mandate", "mandate_invalid", "mandate_ttl_exceeded"}
      <3> DEFINE o == decide(c.m, c.r, NoopLedger, verdict.at, verdict.at, NoState, c.trust)
      <3>1. verify_cbor_mandate(c.m, verdict.at) /\ verdict.at = now
        <4>2. verdict # NoVerdict /\ \A by : verdict # [by |-> by, decision |-> "ERROR"]
          BY <2>1 DEF NoVerdict
        <4>3. ASSUME NEW d \in HostCalls, DecideAnswer(d)
              PROVE  FALSE
          BY <2>1, <4>3, DecideFields, DecideDecides
        <4>4. ASSUME NEW d \in EnforceCalls, EnforceAnswer(d)
              PROVE  FALSE
          BY <2>1, <4>4, EnforceFields, DecideDecides
        <4>5. ASSUME NEW d \in HostCalls, NEW b \in bindings, NEW g \in grants, ApprovalAnswer(d, b, g)
              PROVE  FALSE
          <5> DEFINE v == decide_with_approval(d.m, ReadParams(d), NoopLedger, now, now,
                                               StateOf(d.sensor), b, g, d.trust)
                     w == decide_core(d.m, ReadParams(d), NoopLedger, now, now,
                                      StateOf(d.sensor), TRUE, d.trust)
          <5>1. ApprovalVerdict(d.m, ReadParams(d), NoopLedger, now, now, StateOf(d.sensor), b, g,
                                d.trust, v)
            BY ApprovalOutcome
          <5>2. CoreVerdict(d.m, ReadParams(d), NoopLedger, now, now, StateOf(d.sensor), TRUE, d.trust, w)
            BY CoreOutcome
          <5>3. v.decision = "valid"
            BY <2>1, <4>5, ApprovalFields
          <5> HIDE DEF v
          <5>4. w.decision = "valid"
            BY <5>1, <5>3 DEF ApprovalVerdict
          <5> HIDE DEF w
          <5> QED
            BY <5>2, <5>4 DEF CoreVerdict, EscalationVerdict, AllChecksPassed
        <4>6. PICK d \in HostCalls \cup EnforceCalls : VerifyAnswer(d.m)
          BY <1>1, <4>2, <4>3, <4>4, <4>5 DEF IInv, AnswerInv
        <4> QED
          BY <2>1, <4>6 DEF VerifyAnswer
      <3>2. DecideVerdict(c.m, c.r, NoopLedger, verdict.at, verdict.at, NoState, c.trust, o)
        BY DecideOutcome
      <3> HIDE DEF o
      <3>3. c.m.parses /\ verify_cbor_signature(c.m) /\ (Expired(c.m, verdict.at) => FALSE)
        <4>1. verdict.at \in Nat
          BY <1>1, <3>1 DEF IInv
        <4>2. c.m.parses /\ verify_cbor_signature(c.m) /\ c.m.expires_at # Never
              /\ verdict.at + SECOND <= c.m.expires_at
          BY <3>1 DEF verify_cbor_mandate
        <4>3. c.m.expires_at \in Int
          BY <4>2, CallsAssumption
        <4>4. ~(verdict.at >= c.m.expires_at)
          BY <4>1, <4>2, <4>3, SecondAssumption
        <4> QED
          BY <4>2, <4>4 DEF Expired
      <3>4. o.rule \notin {"mandate", "mandate_invalid", "mandate_ttl_exceeded"}
        BY <3>2, <3>3 DEF DecideVerdict, AllChecksPassed, Reasons
      <3> QED
        BY <3>4 DEF o
    <2>2. ASSUME Answered, verdict.decision \in {"ALLOW", "PENDING_APPROVAL"},
                 verdict.m.expires_at # Never, ~verify_cbor_mandate(verdict.m, verdict.at)
          PROVE  verdict.m.expires_at - verdict.at \in 1..SECOND - 1
      <3>1. PICK r : Passes(verdict.m, r, verdict.ledger, verdict.at, verdict.at, verdict.state,
                            verdict.trust)
        BY <1>1, <2>2, GotThrough
      <3>2. \E c \in HostCalls \cup EnforceCalls : verdict.m = c.m /\ verdict.at = now
        BY <1>1, <2>2, ThreeAnswers, DecideFields, ApprovalFields, EnforceFields
      <3>3. verdict.m.expires_at \in Int /\ verdict.at \in Nat
        <4>1. now \in Nat
          BY <1>1, BoundAssumption DEF IInv
        <4> QED
          BY <2>2, <3>2, <4>1, CallsAssumption
      <3>4. verdict.at < verdict.m.expires_at
        BY <2>2, <3>1, <3>3, NotExpired DEF Passes
      <3>5. ~(verdict.at + SECOND <= verdict.m.expires_at)
        BY <2>2, <3>1 DEF Passes, verify_cbor_mandate
      <3> QED
        BY <3>3, <3>4, <3>5, SecondAssumption
    <2> QED
      BY <2>1, <2>2 DEF VerifyAgrees
  <1> QED
    BY <1>1, Invariance, PTL

\* What no mandate and no human can give is not given, by a2g_decide, by its second phase
\* or by `enforce`; what needs a human gets one, for this request and in time.
THEOREM HumansDecide == Spec => []HumanInTheLoop
  <1>1. ASSUME IInv
        PROVE  HumanInTheLoop
    <2>1. ASSUME Answered, verdict.r.tool \in SafetyCritical
          PROVE  verdict.decision \notin {"ALLOW", "PENDING_APPROVAL"}
      <3>1. SUFFICES ASSUME verdict.decision \in {"ALLOW", "PENDING_APPROVAL"}
                     PROVE  FALSE
        OBVIOUS
      <3>2. PICK r : /\ r.tool = verdict.r.tool
                     /\ Passes(verdict.m, r, verdict.ledger, verdict.at, verdict.at,
                               verdict.state, verdict.trust)
        BY <1>1, <2>1, <3>1, GotThrough
      <3>3. classify_vehicle_tool(r.tool) # "Forbidden" /\ classify_cockpit_tool(r.tool) # "Forbidden"
        BY <3>2 DEF Passes
      <3> QED
        BY <2>1, <3>2, <3>3, Forbidden, ToolsAssumption
    <2>2. ASSUME Answered, Allowed, verdict.r.tool \in HumanOnly
          PROVE  verdict.by = "a2g_decide_with_approval"
      <3>1. HumanTool(verdict.r.tool)
        BY <2>2, ToolsAssumption
      <3>2. ASSUME NEW r, r.tool = verdict.r.tool
            PROVE  NeedsHuman(verdict.m, r)
        BY <3>1, <3>2, ForHumans DEF NeedsHuman, AlwaysEscalates
      <3>3. ASSUME NEW c \in HostCalls, DecideAnswer(c)
            PROVE  FALSE
        <4>1. ~NeedsHuman(c.m, ReadParams(c)) /\ c.m = verdict.m /\ ReadParams(c) = verdict.r
          BY <2>2, <3>3, DecideFields, DecidePasses DEF Allowed
        <4> QED
          BY <3>2, <4>1
      <3>4. ASSUME NEW c \in EnforceCalls, EnforceAnswer(c)
            PROVE  FALSE
        <4>1. ~NeedsHuman(c.m, Resolved(c)) /\ c.m = verdict.m /\ c.r = verdict.r
          BY <2>2, <3>4, EnforceFields, DecidePasses DEF Allowed
        <4> QED
          BY <3>2, <4>1, SameTool
      <3> QED
        BY <1>1, <2>2, <3>3, <3>4, ThreeAnswers, ApprovalFields
    <2>3. ASSUME Answered, Allowed, verdict.by = "a2g_decide_with_approval"
          PROVE  /\ verdict.pending \in bindings /\ verdict.grant \in grants
                 /\ verdict.at < verdict.pending.request_hash[3] + PENDING_APPROVAL_TTL
                 /\ verdict.at < verdict.grant.expires_at
      <3>1. PICK c \in HostCalls, b \in bindings, g \in grants : ApprovalAnswer(c, b, g)
        BY <1>1, <2>3, ThreeAnswers, DecideFields, EnforceFields
      <3>2. verdict.pending = b /\ verdict.grant = g /\ verdict.at = now
        BY <3>1, ApprovalFields
      <3>3. PassesApproval(c.m, ReadParams(c), b, g, now)
        BY <2>3, <3>1, ApprovalFields, ApprovedPasses DEF Allowed
      <3>4. PICK d \in HostCalls, t \in 0..MaxTime :
                /\ b.request_hash = compute_request_hash(d.m, ReadParams(d), t)
                /\ b.ttl_expires_at = t + PENDING_APPROVAL_TTL
        BY <1>1 DEF IInv, BindingsInv
      <3>5. b.request_hash[3] = t
        BY <3>4 DEF compute_request_hash
      <3>6. ~(now >= t + PENDING_APPROVAL_TTL)
        BY <3>3, <3>4 DEF PassesApproval
      <3>7. now < t + PENDING_APPROVAL_TTL
        BY <1>1, <3>6, BoundAssumption, ApprovalTtlAssumption DEF IInv
      <3>8. now < g.expires_at
        BY <3>3 DEF PassesApproval, verify_against_binding
      <3> QED
        BY <3>2, <3>5, <3>7, <3>8
    <2> QED
      BY <2>1, <2>2, <2>3 DEF HumanInTheLoop
  <1> QED
    BY <1>1, Invariance, PTL

\* Rounding to mm/s never rounds 5 km/h below the gate.
LEMMA RoundingKeepsTheGate ==
    ASSUME NEW speed \in Nat, speed_kph_to_mmps(speed) < SPEED_GATE_MMPS
    PROVE  speed < 5000
  BY DEF speed_kph_to_mmps, SPEED_GATE_MMPS

\* Something opens only at rest: a speed that rounds to the gate, is out of range, or is
\* missing counts as driving (speed_kph_to_mmps, fail_safe).
THEOREM RestToOpen == Spec => []OpensOnlyAtRest
  <1>1. ASSUME IInv
        PROVE  OpensOnlyAtRest
    <2>1. SUFFICES ASSUME Answered, Allowed, verdict.r.tool \in Openings
                   PROVE  IF verdict.by = "enforce"
                          THEN /\ verdict.r.vehicle_state # Absent
                               /\ is_parked_and_stopped(verdict.r.vehicle_state)
                          ELSE /\ verdict.sensor # Null /\ verdict.sensor.speed < 5000
                               /\ GearOfCode[verdict.sensor.gear] = "Park"
      BY DEF OpensOnlyAtRest
    <2>2. is_parked_and_stopped(IF verdict.state = NoState THEN fail_safe ELSE verdict.state)
      <3>1. PICK r : /\ r.tool = verdict.r.tool
                     /\ Passes(verdict.m, r, verdict.ledger, verdict.at, verdict.at,
                               verdict.state, verdict.trust)
        BY <1>1, <2>1, GotThrough DEF Allowed
      <3>2. classify_vehicle_tool(r.tool) = "Sensitive"
        BY <2>1, <3>1, Sensitive, ToolsAssumption
      <3> QED
        BY <3>1, <3>2 DEF Passes, StateForbids
    <2>3. ~is_parked_and_stopped(fail_safe)
      BY DEF is_parked_and_stopped, fail_safe
    <2>4. verdict.state # NoState /\ is_parked_and_stopped(verdict.state)
      BY <2>2, <2>3
    <2>5. ASSUME NEW c \in EnforceCalls, EnforceAnswer(c)
          PROVE  verdict.r.vehicle_state # Absent /\ is_parked_and_stopped(verdict.r.vehicle_state)
      BY <2>3, <2>4, <2>5, EnforceFields DEF extract_vehicle_state
    <2>6. ASSUME NEW c \in HostCalls, verdict.state = StateOf(c.sensor), verdict.sensor = c.sensor
          PROVE  /\ verdict.sensor # Null /\ verdict.sensor.speed < 5000
                 /\ GearOfCode[verdict.sensor.gear] = "Park"
      <3> DEFINE h == a2g_verified_state_operator_trusted(c.sensor)
      <3>1. c.sensor # Null /\ h # Null /\ verdict.state = h
        BY <2>4, <2>6 DEF StateOf
      <3>2. /\ SpeedAccepted(c.sensor.speed)
            /\ h = [speed_mmps |-> speed_kph_to_mmps(c.sensor.speed),
                    gear |-> GearOfCode[c.sensor.gear], actor |-> ActorOfCode[c.sensor.actor]]
        BY <3>1 DEF a2g_verified_state_operator_trusted
      <3> HIDE DEF h
      <3>3. speed_kph_to_mmps(c.sensor.speed) < SPEED_GATE_MMPS /\ GearOfCode[c.sensor.gear] = "Park"
        BY <2>4, <3>1, <3>2 DEF is_parked_and_stopped
      <3>4. c.sensor.speed \in Nat
        BY <3>1, <3>2, CallsAssumption DEF SpeedAccepted
      <3> QED
        BY <2>6, <3>1, <3>3, <3>4, RoundingKeepsTheGate
    <2> QED
      BY <1>1, <2>1, <2>5, <2>6, ThreeAnswers, DecideFields, ApprovalFields, EnforceFields
  <1> QED
    BY <1>1, Invariance, PTL

----------------------------------------------------------------------------
\* Requests that differ only in the spelling of their path are decided alike.
LEMMA DecidedAlike ==
    ASSUME NEW m, NEW q, NEW r, NEW ledger, NEW t, NEW clock, NEW state, NEW trust,
           q.tool = r.tool, q.url = r.url, q.command = r.command,
           q.path # Absent, r.path # Absent,
           canonicalize_path_logical(q.path) = canonicalize_path_logical(r.path)
    PROVE  decide(m, q, ledger, t, clock, state, trust) = decide(m, r, ledger, t, clock, state, trust)
  <1>1. PathOutside(m, q) = PathOutside(m, r)
    BY DEF PathOutside
  <1>2. HostOutside(m, q) = HostOutside(m, r) /\ CommandOutside(m, q) = CommandOutside(m, r)
    BY DEF HostOutside, CommandOutside
  <1>3. Escalates(m, q) = Escalates(m, r) /\ AlwaysEscalates(q) = AlwaysEscalates(r)
    BY DEF Escalates, AlwaysEscalates
  <1>4. ChecksBeforeEscalation(m, q, ledger, t, clock, state, trust)
            = ChecksBeforeEscalation(m, r, ledger, t, clock, state, trust)
    BY <1>1, <1>2, Z3 DEF ChecksBeforeEscalation
  <1>5. Checks(m, q, ledger, t, clock, state, FALSE, trust)
            = Checks(m, r, ledger, t, clock, state, FALSE, trust)
    BY <1>3, <1>4, Zenon DEF Checks
  <1> QED
    BY <1>5, Zenon DEF decide, decide_core

\* Two spellings of one path get one answer from the C interface: every check that looks
\* at the path looks at it through canonicalize_path_logical.
THEOREM SpellingsDecidedAlike == Spec => []SpellingIrrelevant
  <1>1. ASSUME IInv
        PROVE  SpellingIrrelevant
    <2>1. SUFFICES ASSUME Answered, verdict.by = "a2g_decide", NEW c \in HostCalls,
                          c.m = verdict.m, c.trust = verdict.trust, StateOf(c.sensor) = verdict.state,
                          [c.r EXCEPT !.path = Absent] = [verdict.r EXCEPT !.path = Absent],
                          NEW paths \in Spellings, {c.r.path, verdict.r.path} \subseteq paths
                   PROVE  decide(c.m, c.r, NoopLedger, verdict.at, verdict.at, verdict.state,
                                 c.trust).decision = verdict.decision
      BY DEF SpellingIrrelevant
    <2>2. PICK d \in HostCalls : DecideAnswer(d)
      BY <1>1, <2>1, ThreeAnswers, ApprovalFields, EnforceFields
    <2> DEFINE r == ReadParams(d)
    <2>3. verdict.r = r /\ verdict.decision = decide(verdict.m, r, NoopLedger, verdict.at, verdict.at,
                                                     verdict.state, verdict.trust).decision
      BY <2>2, DecideFields
    <2>4. c.r = [tool |-> c.r.tool, path |-> c.r.path, url |-> c.r.url, command |-> c.r.command,
                 vehicle_state |-> c.r.vehicle_state]
      BY CallsAssumption
    <2>5. r = [tool |-> r.tool, path |-> r.path, url |-> r.url, command |-> r.command,
               vehicle_state |-> r.vehicle_state]
      <3>1. d.r = [tool |-> d.r.tool, path |-> d.r.path, url |-> d.r.url, command |-> d.r.command,
                   vehicle_state |-> d.r.vehicle_state]
        BY CallsAssumption
      <3>2. CASE d.params = Null
        <4>1. r = [d.r EXCEPT !.path = Absent, !.url = Absent, !.command = Absent]
          BY <3>2 DEF ReadParams
        <4> HIDE DEF r
        <4>2. r = [tool |-> d.r.tool, path |-> Absent, url |-> Absent, command |-> Absent,
                   vehicle_state |-> d.r.vehicle_state]
          BY <3>1, <4>1
        <4> QED
          BY <4>2
      <3>3. CASE d.params # Null
        BY <3>1, <3>3 DEF ReadParams
      <3> QED
        BY <3>2, <3>3
    <2> HIDE DEF r
    <2>6. c.r.tool = r.tool /\ c.r.url = r.url /\ c.r.command = r.command
      BY <2>1, <2>3, <2>4, <2>5
    <2>7. /\ c.r.path # Absent /\ r.path # Absent
          /\ canonicalize_path_logical(c.r.path) = canonicalize_path_logical(r.path)
      BY <2>1, <2>3, SpellingsAssumption
    <2>8. decide(c.m, c.r, NoopLedger, verdict.at, verdict.at, verdict.state, c.trust)
              = decide(c.m, r, NoopLedger, verdict.at, verdict.at, verdict.state, c.trust)
      BY <2>6, <2>7, DecidedAlike
    <2> QED
      BY <2>1, <2>3, <2>8
  <1> QED
    BY <1>1, Invariance, PTL

(***************************************************************************)
(* The runner and the showcase, on a build that lacks one check.           *)
(***************************************************************************)

\* A list of checks as the pipeline and the gateway write them.
AreChecks(checks, n) ==
    /\ DOMAIN checks = 1..n
    /\ \A i \in 1..n : checks[i] = [holds |-> checks[i].holds, verdict |-> checks[i].verdict]

\* The build that lost a check has the others.
LEMMA KeptFields ==
    ASSUME NEW checks, NEW n \in Nat, AreChecks(checks, n)
    PROVE  /\ DOMAIN Kept(checks) = 1..n
           /\ \A i \in 1..n :
                  /\ Kept(checks)[i].verdict = checks[i].verdict
                  /\ Kept(checks)[i].holds <=> checks[i].verdict.rule # lost /\ checks[i].holds
  <1>1. ASSUME NEW i \in 1..n
        PROVE  /\ Kept(checks)[i].verdict = checks[i].verdict
               /\ Kept(checks)[i].holds <=> checks[i].verdict.rule # lost /\ checks[i].holds
    <2> DEFINE h == checks[i].verdict.rule # lost /\ checks[i].holds
    <2>1. Kept(checks)[i] = [checks[i] EXCEPT !.holds = h]
      BY DEF Kept, AreChecks
    <2>2. checks[i] = [holds |-> checks[i].holds, verdict |-> checks[i].verdict]
      BY DEF AreChecks
    <2> HIDE DEF h
    <2>3. Kept(checks)[i].holds = h /\ Kept(checks)[i].verdict = checks[i].verdict
      BY <2>1, <2>2
    <2> QED
      BY <2>3 DEF h
  <1> QED
    BY <1>1 DEF Kept, AreChecks

\* When what comes after the checks has the word, those that hold are lost.
LEMMA OnlyLostHold ==
    ASSUME NEW checks, NEW n \in Nat, AreChecks(checks, n), NEW o,
           \A i \in 1..n : FirstOf(Kept(checks), o) # checks[i].verdict
    PROVE  \A i \in 1..n : checks[i].holds => checks[i].verdict.rule = lost
  <1>1. /\ DOMAIN Kept(checks) = 1..n
        /\ \A i \in 1..n :
               /\ Kept(checks)[i].verdict = checks[i].verdict
               /\ Kept(checks)[i].holds <=> checks[i].verdict.rule # lost /\ checks[i].holds
    BY KeptFields
  <1>2. ~(\E i \in 1..n : HoldsFirst(Kept(checks), i))
    <2>1. SUFFICES ASSUME NEW i \in 1..n, HoldsFirst(Kept(checks), i)
                   PROVE  FALSE
      OBVIOUS
    <2>2. FirstOf(Kept(checks), o) = Kept(checks)[i].verdict
      BY <1>1, <2>1, FirstOfAt
    <2> QED
      BY <1>1, <2>2
  <1>3. NoneHolds(Kept(checks))
    BY <1>1, <1>2, SomeFirst
  <1> QED
    BY <1>1, <1>3 DEF NoneHolds

\* What a build that lacks one check allows has passed the others.
LEMMA AllowedMostly ==
    ASSUME NEW m, NEW r, NEW t, NEW state, NEW trust,
           Verdict(m, r, t, state, trust).decision = "ALLOW"
    PROVE  /\ is_forbidden(r.tool) => lost = "vehicle_forbidden_domain"
           /\ is_cockpit_forbidden(r.tool) => lost = "cockpit_forbidden_domain"
           /\ requires_hitl_binding(r.tool) => lost = "cockpit_hitl_required"
  <1> DEFINE c == ChecksBeforeEscalation(m, r, NoopLedger, t, wall, state, trust)
             e == <<Stop(~FALSE /\ AlwaysEscalates(r), "PENDING_APPROVAL", "cockpit_hitl_required"),
                    Stop(~FALSE /\ Escalates(m, r), "PENDING_APPROVAL", "escalation_required"),
                    Stop(NoopLedger.recent >= m.max_calls, "DENY", "rate_limit_exceeded")>>
             a == c \o e
             k == 15
             l == 3
             Denies(check) == /\ check = [holds |-> check.holds, verdict |-> check.verdict]
                              /\ check.verdict.decision # "ALLOW"
  <1>0. DOMAIN c = 1..k
    BY DEF ChecksBeforeEscalation
  <1>1. Denies(c[1]) /\ Denies(c[2]) /\ Denies(c[3]) /\ Denies(c[4]) /\ Denies(c[5])
    BY DEF ChecksBeforeEscalation, Stop
  <1>2. Denies(c[6]) /\ Denies(c[7]) /\ Denies(c[8]) /\ Denies(c[9]) /\ Denies(c[10])
    BY DEF ChecksBeforeEscalation, Stop
  <1>3. Denies(c[11]) /\ Denies(c[12]) /\ Denies(c[13]) /\ Denies(c[14]) /\ Denies(c[15])
    BY DEF ChecksBeforeEscalation, Stop
  <1>4. DOMAIN e = 1..l /\ Denies(e[1]) /\ Denies(e[2]) /\ Denies(e[3])
    BY DEF Stop
  <1>5. /\ c[3].verdict.rule = "vehicle_forbidden_domain" /\ c[3].holds = is_forbidden(r.tool)
        /\ c[4].verdict.rule = "cockpit_forbidden_domain" /\ c[4].holds = is_cockpit_forbidden(r.tool)
    BY DEF ChecksBeforeEscalation, Stop, is_forbidden, is_cockpit_forbidden
  <1>6. e[1].verdict.rule = "cockpit_hitl_required" /\ (e[1].holds <=> requires_hitl_binding(r.tool))
    BY DEF Stop, AlwaysEscalates, requires_hitl_binding
  <1>7. FirstOf(Kept(a), AllChecksPassed).decision = "ALLOW"
    BY DEF Verdict, Checks
  <1> HIDE DEF c, e
  <1>8. ASSUME NEW i \in 1..15
        PROVE  Denies(c[i])
    <2>1. CASE i \in 1..5
      BY <1>1, <2>1
    <2>2. CASE i \in 6..10
      BY <1>2, <2>2
    <2>3. CASE i \in 11..15
      BY <1>3, <2>3
    <2> QED
      BY <2>1, <2>2, <2>3
  <1>9. \A i \in 1..3 : Denies(e[i])
    BY <1>4
  <1>10. /\ DOMAIN a = 1..(k + l)
         /\ \A i \in 1..k : a[i] = c[i]
         /\ \A i \in 1..l : a[k + i] = e[i]
    <2>1. k \in Nat /\ l \in Nat /\ DOMAIN c = 1..k /\ DOMAIN e = 1..l
      BY <1>0, <1>4
    <2> HIDE DEF k, l
    <2> QED
      BY <2>1, Joined
  <1> HIDE DEF a
  <1>11. ASSUME NEW i \in 1..18
         PROVE  Denies(a[i])
    <2>1. CASE i \in 1..15
      BY <1>8, <1>10, <2>1
    <2>2. CASE i = 16 \/ i = 17 \/ i = 18
      <3>1. a[16] = e[1] /\ a[17] = e[2] /\ a[18] = e[3]
        BY <1>10
      <3> QED
        BY <1>4, <2>2, <3>1
    <2> QED
      BY <2>1, <2>2
  <1> DEFINE n == 18
  <1>12. n \in Nat /\ AreChecks(a, n)
    BY <1>10, <1>11 DEF AreChecks
  <1>13. \A i \in 1..n : FirstOf(Kept(a), AllChecksPassed) # a[i].verdict
    BY <1>7, <1>11
  <1>14. a[3] = c[3] /\ a[4] = c[4] /\ a[16] = e[1] /\ 3 \in 1..n /\ 4 \in 1..n /\ 16 \in 1..n
    BY <1>10
  <1> HIDE DEF n
  <1>15. \A i \in 1..n : a[i].holds => a[i].verdict.rule = lost
    BY <1>12, <1>13, OnlyLostHold
  <1> QED
    BY <1>5, <1>6, <1>14, <1>15

\* What a gateway that lacks one step writes has passed the others.
LEMMA EnforcedMostly ==
    ASSUME NEW g, NEW rc, handle_enforce(g, rc).enforced
    PROVE  /\ is_forbidden(rc.tool) => lost = "step_forbidden"
           /\ is_cockpit_forbidden(rc.tool) => lost = "step_cockpit_forbidden"
           /\ rc.decision # "ALLOW" => lost = "step_allow"
           /\ requires_hitl_binding(rc.tool) /\ rc.binding_id = "" => lost = "step_hitl_binding"
  <1> DEFINE c == VerificationSteps(g, rc)
             n == 10
  <1>1. /\ DOMAIN c = 1..10
        /\ c[1].verdict.rule = "step_forbidden" /\ c[1].holds = is_forbidden(rc.tool)
        /\ c[2].verdict.rule = "step_cockpit_forbidden" /\ c[2].holds = is_cockpit_forbidden(rc.tool)
        /\ c[5].verdict.rule = "step_allow" /\ c[5].holds = (rc.decision # "ALLOW")
    BY DEF VerificationSteps, Refusal
  <1>2. /\ c[6].verdict.rule = "step_hitl_binding"
        /\ c[6].holds = (requires_hitl_binding(rc.tool) /\ rc.binding_id = "")
    BY DEF VerificationSteps, Refusal
  <1>3. /\ c[1] = [holds |-> c[1].holds, verdict |-> c[1].verdict]
        /\ c[2] = [holds |-> c[2].holds, verdict |-> c[2].verdict]
        /\ c[3] = [holds |-> c[3].holds, verdict |-> c[3].verdict] /\ c[3].verdict.rule # "enforced"
        /\ c[4] = [holds |-> c[4].holds, verdict |-> c[4].verdict] /\ c[4].verdict.rule # "enforced"
        /\ c[5] = [holds |-> c[5].holds, verdict |-> c[5].verdict]
    BY DEF VerificationSteps, Refusal
  <1>4. /\ c[6] = [holds |-> c[6].holds, verdict |-> c[6].verdict]
        /\ c[7] = [holds |-> c[7].holds, verdict |-> c[7].verdict] /\ c[7].verdict.rule # "enforced"
        /\ c[8] = [holds |-> c[8].holds, verdict |-> c[8].verdict] /\ c[8].verdict.rule # "enforced"
        /\ c[9] = [holds |-> c[9].holds, verdict |-> c[9].verdict] /\ c[9].verdict.rule # "enforced"
        /\ c[10] = [holds |-> c[10].holds, verdict |-> c[10].verdict] /\ c[10].verdict.rule # "enforced"
    BY DEF VerificationSteps, Refusal
  <1>5. FirstOf(Kept(c), Enforced).rule = "enforced"
    <2>1. FirstOf(Kept(c), Enforced) = Enforced
      BY DEF handle_enforce
    <2> QED
      BY <2>1 DEF Enforced
  <1> HIDE DEF c
  <1>6. \A i \in 1..10 : i = 1 \/ i = 2 \/ i = 3 \/ i = 4 \/ i = 5 \/ i = 6 \/ i = 7 \/ i = 8 \/ i = 9 \/ i = 10
    OBVIOUS
  <1>7. n \in Nat /\ AreChecks(c, n)
    BY <1>1, <1>3, <1>4, <1>6 DEF AreChecks
  <1>8. \A i \in 1..n : FirstOf(Kept(c), Enforced) # c[i].verdict
    <2>1. \A i \in 1..10 : c[i].verdict.rule # "enforced"
      BY <1>1, <1>2, <1>3, <1>4, <1>6
    <2> QED
      BY <1>5, <2>1
  <1> HIDE DEF n
  <1>9. \A i \in 1..n : c[i].holds => c[i].verdict.rule = lost
    BY <1>7, <1>8, OnlyLostHold
  <1>10. /\ c[1].holds => c[1].verdict.rule = lost
         /\ c[2].holds => c[2].verdict.rule = lost
         /\ c[5].holds => c[5].verdict.rule = lost
         /\ c[6].holds => c[6].verdict.rule = lost
    BY <1>9 DEF n
  <1> QED
    BY <1>1, <1>2, <1>10

\* What DefenseInDepth says of one receipt.
Harmless(rc) ==
    rc.from = "verdict" =>
        /\ ~is_forbidden(rc.tool) /\ ~is_cockpit_forbidden(rc.tool)
        /\ requires_hitl_binding(rc.tool) => rc.binding_id # ""

\* The pipeline and the gateway do not lose the same check.
LEMMA TwoLines ==
    ASSUME NEW m, NEW r, NEW t, NEW state, NEW trust, NEW g, NEW rc,
           rc.tool = r.tool, rc.decision = Verdict(m, r, t, state, trust).decision,
           handle_enforce(g, rc).enforced
    PROVE  Harmless(rc)
  <1>1. /\ is_forbidden(rc.tool) => lost = "step_forbidden"
        /\ is_cockpit_forbidden(rc.tool) => lost = "step_cockpit_forbidden"
        /\ rc.decision # "ALLOW" => lost = "step_allow"
        /\ requires_hitl_binding(rc.tool) /\ rc.binding_id = "" => lost = "step_hitl_binding"
    BY EnforcedMostly
  <1>2. rc.decision = "ALLOW" =>
            /\ is_forbidden(rc.tool) => lost = "vehicle_forbidden_domain"
            /\ is_cockpit_forbidden(rc.tool) => lost = "cockpit_forbidden_domain"
            /\ requires_hitl_binding(rc.tool) => lost = "cockpit_hitl_required"
    BY AllowedMostly
  <1> QED
    BY <1>1, <1>2 DEF Harmless

\* A receipt that was made up is not from a verdict.
LEMMA MadeUpHarmless ==
    ASSUME NEW decision, NEW tool, NEW params, NEW b, NEW at, NEW nonce
    PROVE  Harmless(SignedReceipt("made_up", decision, tool, params, b, at, nonce))
  BY DEF SignedReceipt, Harmless

\* A vector's own receipt, sent to any gateway.
LEMMA FromVerdictHarmless ==
    ASSUME NEW v, NEW g
    PROVE  \A rc \in Written(handle_enforce(g, FromVerdict(v)), FromVerdict(v)) : Harmless(rc)
  <1> DEFINE rc == FromVerdict(v)
  <1>1. rc.tool = v.r.tool /\ rc.decision = GatewayVerdict(v).decision
    BY DEF FromVerdict, sign_receipt_with_params, SignedReceipt
  <1>2. ASSUME handle_enforce(g, rc).enforced
        PROVE  Harmless(rc)
    <2> HIDE DEF rc
    <2> QED
      BY <1>1, <1>2, TwoLines DEF GatewayVerdict
  <1> HIDE DEF rc
  <1>3. \A x \in Written(handle_enforce(g, rc), rc) : Harmless(x)
    BY <1>2 DEF Written
  <1> QED
    BY <1>3 DEF rc

\* The same receipt with other parameters.
LEMMA TamperedHarmless ==
    ASSUME NEW v, NEW g
    PROVE  LET rc == [FromVerdict(v) EXCEPT !.params = "tampered"]
           IN \A x \in Written(handle_enforce(g, rc), rc) : Harmless(x)
  <1> DEFINE rc == [FromVerdict(v) EXCEPT !.params = "tampered"]
  <1>1. rc.tool = v.r.tool /\ rc.decision = GatewayVerdict(v).decision
    BY DEF FromVerdict, sign_receipt_with_params, SignedReceipt
  <1> HIDE DEF rc
  <1>2. ASSUME handle_enforce(g, rc).enforced
        PROVE  Harmless(rc)
    BY <1>1, <1>2, TwoLines DEF GatewayVerdict
  <1>3. \A x \in Written(handle_enforce(g, rc), rc) : Harmless(x)
    BY <1>2 DEF Written
  <1> QED
    BY <1>3 DEF rc

\* What a vector that must be refused has written, if it was not.
LEMMA RefusalWrites ==
    ASSUME NEW v, NEW g, NEW rc
    PROVE  MustRefuse(v, g, rc).written = Written(handle_enforce(g, rc), rc)
  BY DEF MustRefuse, Outcome

\* A receipt is all that is written of it.
LEMMA WrittenIs ==
    ASSUME NEW reply, NEW rc, Harmless(rc)
    PROVE  \A x \in Written(reply, rc) : Harmless(x)
  BY DEF Written

\* No vector writes anything harmful.
LEMMA VectorsHarmless ==
    ASSUME NEW v
    PROVE  \A rc \in run_vector(v).written : Harmless(rc)
  <1>1. \A rc \in Fail.written : Harmless(rc)
    BY DEF Fail, Outcome
  <1>2. \A rc \in enforce_vector(v).written : Harmless(rc)
    BY FromVerdictHarmless, Zenon DEF enforce_vector, Outcome, Fail
  <1>3. \A rc \in forbidden_receipt(v).written : Harmless(rc)
    <2> DEFINE rc == MadeUp(v, "ALLOW", "", wall)
    <2>1. Harmless(rc)
      BY MadeUpHarmless DEF MadeUp
    <2>2. forbidden_receipt(v).written = Written(handle_enforce(NewGateway, rc), rc)
      BY RefusalWrites DEF forbidden_receipt
    <2> HIDE DEF rc
    <2> QED
      BY <2>1, <2>2, WrittenIs
  <1>4. \A rc \in replay(v).written : Harmless(rc)
    <2> DEFINE first == handle_enforce(NewGateway, FromVerdict(v))
               second == MustRefuse(v, first.gw, FromVerdict(v))
    <2>1. /\ \A rc \in Written(first, FromVerdict(v)) : Harmless(rc)
          /\ \A rc \in second.written : Harmless(rc)
      BY FromVerdictHarmless, RefusalWrites
    <2>2. second = [pass |-> second.pass, written |-> second.written]
      BY DEF MustRefuse, Outcome
    <2>3. replay(v) = IF GatewayVerdict(v).decision = "ERROR" THEN Fail
                      ELSE [second EXCEPT !.written = @ \cup Written(first, FromVerdict(v))]
      BY DEF replay
    <2> HIDE DEF first, second
    <2>4. CASE GatewayVerdict(v).decision = "ERROR"
      BY <1>1, <2>3, <2>4
    <2>5. CASE GatewayVerdict(v).decision # "ERROR"
      <3>1. replay(v).written = second.written \cup Written(first, FromVerdict(v))
        BY <2>2, <2>3, <2>5
      <3> QED
        BY <2>1, <3>1
    <2> QED
      BY <2>4, <2>5
  <1>5. \A rc \in stale(v).written : Harmless(rc)
    <2> DEFINE rc == MadeUp(v, "ALLOW", "", wall - 30)
    <2>1. Harmless(rc)
      BY MadeUpHarmless DEF MadeUp
    <2>2. stale(v) = Fail \/ stale(v).written = Written(handle_enforce(NewGateway, rc), rc)
      BY RefusalWrites DEF stale
    <2> HIDE DEF rc
    <2> QED
      BY <1>1, <2>1, <2>2, WrittenIs
  <1>6. \A rc \in deny_receipt(v).written : Harmless(rc)
    <2> DEFINE rc == MadeUp(v, "DENY", "", wall)
    <2>1. Harmless(rc)
      BY MadeUpHarmless DEF MadeUp
    <2>2. deny_receipt(v).written = Written(handle_enforce(NewGateway, rc), rc)
      BY RefusalWrites DEF deny_receipt
    <2> HIDE DEF rc
    <2> QED
      BY <2>1, <2>2, WrittenIs
  <1>7. \A rc \in tampered_tool(v).written : Harmless(rc)
    BY <1>1, RefusalWrites, TamperedHarmless DEF tampered_tool
  <1>8. \A rc \in no_binding(v).written : Harmless(rc)
    BY <1>1, RefusalWrites, WrittenIs, MadeUpHarmless DEF no_binding, MadeUp
  <1>9. \A rc \in bad_cbor_receipt(v).written : Harmless(rc)
    <2> DEFINE rc == [MadeUp(v, "ALLOW", "", wall) EXCEPT !.request_hash = NotHex, !.signature = <<>>]
    <2>1. Harmless(rc)
      BY DEF Harmless, MadeUp, SignedReceipt
    <2>2. bad_cbor_receipt(v).written = Written(handle_enforce(NewGateway, rc), rc)
      BY RefusalWrites DEF bad_cbor_receipt
    <2> HIDE DEF rc
    <2> QED
      BY <2>1, <2>2, WrittenIs
  <1>10. run_phase2_vector(v).written = {} /\ run_vector_inner(v).written = {}
    BY DEF run_phase2_vector, run_vector_inner, Outcome, Fail
  <1> QED
    BY <1>1, <1>2, <1>3, <1>4, <1>5, <1>6, <1>7, <1>8, <1>9, <1>10 DEF run_vector

\* No single lost check lets a receipt made from a verdict put a forbidden tool on the
\* bus, nor one that needs a human without a binding, whatever the vectors are.
THEOREM NoSingleLossOpens == RunnerSpec => []DefenseInDepth
  <1>1. DefenseInDepth <=> \A rc \in bus : Harmless(rc)
    BY DEF DefenseInDepth, Harmless
  <1>2. RunnerInit => DefenseInDepth
    BY DEF RunnerInit, DefenseInDepth
  <1>3. ASSUME DefenseInDepth, NEW written, \A rc \in written : Harmless(rc),
               bus' = bus \cup written
        PROVE  DefenseInDepth'
    BY <1>3 DEF DefenseInDepth, Harmless, is_forbidden, is_cockpit_forbidden, requires_hitl_binding
  <1>4. ASSUME DefenseInDepth, [RunnerNext]_runnerVars
        PROVE  DefenseInDepth'
    <2>1. CASE RunVector
      <3>1. bus' = bus \cup run_vector(Suites[program][done + 1]).written
        BY <2>1, Zenon DEF RunVector
      <3> QED
        BY <1>3, <1>4, <3>1, VectorsHarmless
    <2>2. CASE beat1_comfort_allow
      <3> DEFINE tool == <<"vehicle", "climate", "set_temperature">>
                 m == make_mandate({tool}, {})
                 rc == sign_receipt_with_params(Verdict(m, Request(tool), wall, NoState, SelfSovereign),
                                                tool, "params", "", 1)
      <3>1. bus' = bus \cup Written(handle_enforce(gw, rc), rc)
        BY <2>2, Zenon DEF beat1_comfort_allow, Beat
      <3>2. /\ rc.tool = Request(tool).tool
            /\ rc.decision = Verdict(m, Request(tool), wall, NoState, SelfSovereign).decision
        BY DEF Request, sign_receipt_with_params, SignedReceipt
      <3> HIDE DEF rc, tool, m
      <3>3. \A x \in Written(handle_enforce(gw, rc), rc) : Harmless(x)
        BY <3>2, TwoLines DEF Written
      <3> QED
        BY <1>3, <1>4, <3>1, <3>3
    <2>3. CASE beat2_state_gated_deny
      <3> DEFINE written == {}
      <3>1. \A x \in written : Harmless(x)
        OBVIOUS
      <3>2. bus' = bus \cup written
        BY <2>3 DEF beat2_state_gated_deny, Beat
      <3> HIDE DEF written
      <3> QED
        BY <1>3, <1>4, <3>1, <3>2
    <2>4. CASE beat3_forbidden_hard_deny
      <3> DEFINE rc == SignedReceipt("made_up", "ALLOW", <<"vehicle", "powertrain", "set_throttle">>,
                                     "params", "", wall, 3)
      <3>1. bus' = bus \cup Written(handle_enforce(gw, rc), rc)
        BY <2>4, Zenon DEF beat3_forbidden_hard_deny, Beat
      <3>2. Harmless(rc)
        BY MadeUpHarmless
      <3> HIDE DEF rc
      <3> QED
        BY <1>3, <1>4, <3>1, <3>2, WrittenIs
    <2>5. CASE beat4_hitl_door_unlock
      <3> DEFINE tool == <<"vehicle", "door", "unlock">>
                 m == make_mandate({tool}, {tool})
                 parked == [speed_mmps |-> 0, gear |-> "Park", actor |-> "Driver"]
                 first == Verdict(m, Request(tool), wall, parked, SelfSovereign)
                 pending == PendingApprovalBinding("door", m, Request(tool), wall)
                 queued == [gw EXCEPT !.pending = @ \cup {pending.binding_id}]
                 grant == ApprovalGrant(pending, operator, 300, wall)
                 granted == [queued EXCEPT !.approved = @ \cup {grant.binding_id}]
                 second == VerdictWithApproval(m, Request(tool), wall, parked, pending, grant,
                                               SelfSovereign)
                 rc == sign_receipt_with_params(second, tool, "params", pending.binding_id, 4)
                 reply == handle_enforce(granted, rc)
      <3>1. IF first.decision # "PENDING_APPROVAL" THEN Beat(4, FALSE, {}, gw)
            ELSE IF ~verify_against_binding(grant, pending, wall) THEN Beat(4, FALSE, {}, queued)
            ELSE Beat(4, reply.enforced, Written(reply, rc), reply.gw)
        BY <2>5, Zenon DEF beat4_hitl_door_unlock
      <3>2. rc.tool = <<"vehicle", "door", "unlock">>
        BY DEF sign_receipt_with_params, SignedReceipt
      <3> HIDE DEF first, pending, queued, grant, rc, reply
      <3>3. Harmless(rc)
        <4>1. OpeningTool(rc.tool)
          BY <3>2 DEF OpeningTool
        <4>2. ~is_forbidden(rc.tool)
          BY <4>1, Sensitive DEF is_forbidden
        <4>3. classify_cockpit_tool(rc.tool) = "NonCockpit"
          BY <3>2 DEF classify_cockpit_tool, Below
        <4> QED
          BY <4>2, <4>3 DEF Harmless, is_cockpit_forbidden, requires_hitl_binding, always_hitl
      <3> DEFINE none == {}
                 written == Written(reply, rc)
      <3>4. (\A x \in none : Harmless(x)) /\ (\A x \in written : Harmless(x))
        BY <3>3, WrittenIs
      <3>5. bus' = bus \cup none \/ bus' = bus \cup written
        BY <3>1 DEF Beat
      <3> HIDE DEF none, written
      <3> QED
        BY <1>3, <1>4, <3>4, <3>5
    <2>6. CASE UNCHANGED runnerVars
      <3>1. bus' = bus
        BY <2>6 DEF runnerVars
      <3> QED
        BY <1>4, <3>1 DEF DefenseInDepth, is_forbidden, is_cockpit_forbidden, requires_hitl_binding
    <2> QED
      BY <1>4, <2>1, <2>2, <2>3, <2>4, <2>5, <2>6 DEF RunnerNext
  <1> QED
    BY <1>2, <1>4, PTL DEF RunnerSpec

(***************************************************************************)
(* The showcase, on the build as it is.                                    *)
(***************************************************************************)

\* Checks whose rules have names.
Named(checks, n) ==
    AreChecks(checks, n) /\ \A i \in 1..n : checks[i].verdict.rule # "nothing"

\* A build that lost nothing is the build.
LEMMA NothingLost ==
    ASSUME lost = "nothing", NEW checks, NEW n \in Nat, Named(checks, n), NEW o
    PROVE  FirstOf(Kept(checks), o) = FirstOf(checks, o)
  <1>1. AreChecks(checks, n) /\ DOMAIN checks = 1..n
    BY DEF Named, AreChecks
  <1>2. /\ DOMAIN Kept(checks) = 1..n
        /\ \A i \in 1..n :
               /\ Kept(checks)[i].verdict = checks[i].verdict
               /\ Kept(checks)[i].holds <=> checks[i].verdict.rule # lost /\ checks[i].holds
    BY <1>1, KeptFields
  <1>3. \A i \in 1..n : Kept(checks)[i].holds <=> checks[i].holds
    BY <1>2 DEF Named
  <1>4. CASE NoneHolds(checks)
    <2>1. NoneHolds(Kept(checks))
      BY <1>1, <1>2, <1>3, <1>4 DEF NoneHolds
    <2> QED
      BY <1>4, <2>1, FirstOfNone
  <1>5. CASE \E i \in 1..n : HoldsFirst(checks, i)
    <2>1. PICK i \in 1..n : HoldsFirst(checks, i)
      BY <1>5
    <2>2. HoldsFirst(Kept(checks), i)
      BY <1>1, <1>2, <1>3, <2>1 DEF HoldsFirst
    <2>3. FirstOf(checks, o) = checks[i].verdict
      BY <1>1, <2>1, FirstOfAt
    <2>4. FirstOf(Kept(checks), o) = Kept(checks)[i].verdict
      BY <1>2, <2>2, FirstOfAt
    <2> QED
      BY <1>2, <2>3, <2>4
  <1> QED
    BY <1>1, <1>4, <1>5, SomeFirst

\* Two lists of named checks, one after the other, are one.
LEMMA NamedJoined ==
    ASSUME NEW s, NEW k \in Nat, Named(s, k), NEW t, NEW l \in Nat, Named(t, l)
    PROVE  Named(s \o t, k + l)
  <1>1. DOMAIN s = 1..k /\ DOMAIN t = 1..l
    BY DEF Named, AreChecks
  <1>2. /\ DOMAIN (s \o t) = 1..(k + l)
        /\ \A i \in 1..k : (s \o t)[i] = s[i]
        /\ \A i \in 1..l : (s \o t)[k + i] = t[i]
    BY <1>1, Joined
  <1> DEFINE u == s \o t
  <1>3. DOMAIN u = 1..(k + l) /\ (\A i \in 1..k : u[i] = s[i]) /\ \A i \in 1..l : u[k + i] = t[i]
    BY <1>2
  <1> HIDE DEF u
  <1>4. ASSUME NEW i \in 1..(k + l)
        PROVE  /\ u[i] = [holds |-> u[i].holds, verdict |-> u[i].verdict]
               /\ u[i].verdict.rule # "nothing"
    <2>1. CASE i \in 1..k
      BY <1>3, <2>1 DEF Named, AreChecks
    <2>2. CASE ~(i \in 1..k)
      <3>1. i - k \in 1..l /\ k + (i - k) = i
        BY <2>2
      <3>2. u[i] = t[i - k]
        BY <1>3, <3>1
      <3> QED
        BY <3>1, <3>2 DEF Named, AreChecks
    <2> QED
      BY <2>1, <2>2
  <1>5. Named(u, k + l)
    BY <1>3, <1>4 DEF Named, AreChecks
  <1> QED
    BY <1>5 DEF u

\* One check with a name.
IsNamed(check) ==
    check = [holds |-> check.holds, verdict |-> check.verdict] /\ check.verdict.rule # "nothing"

\* The checks of the pipeline have names.
LEMMA PipelineNamed ==
    ASSUME NEW m, NEW r, NEW ledger, NEW t, NEW clock, NEW state, NEW skip, NEW trust
    PROVE  Named(Checks(m, r, ledger, t, clock, state, skip, trust), 18)
  <1> DEFINE c == ChecksBeforeEscalation(m, r, ledger, t, clock, state, trust)
             e == <<Stop(~skip /\ AlwaysEscalates(r), "PENDING_APPROVAL", "cockpit_hitl_required"),
                    Stop(~skip /\ Escalates(m, r), "PENDING_APPROVAL", "escalation_required"),
                    Stop(ledger.recent >= m.max_calls, "DENY", "rate_limit_exceeded")>>
             k == 15
             l == 3
  <1>1. DOMAIN c = 1..k
    BY DEF ChecksBeforeEscalation
  <1>2. IsNamed(c[1]) /\ IsNamed(c[2]) /\ IsNamed(c[3]) /\ IsNamed(c[4]) /\ IsNamed(c[5])
    BY DEF ChecksBeforeEscalation, Stop, IsNamed
  <1>3. IsNamed(c[6]) /\ IsNamed(c[7]) /\ IsNamed(c[8]) /\ IsNamed(c[9]) /\ IsNamed(c[10])
    BY DEF ChecksBeforeEscalation, Stop, IsNamed
  <1>4. IsNamed(c[11]) /\ IsNamed(c[12]) /\ IsNamed(c[13]) /\ IsNamed(c[14]) /\ IsNamed(c[15])
    BY DEF ChecksBeforeEscalation, Stop, IsNamed
  <1>5. DOMAIN e = 1..l /\ IsNamed(e[1]) /\ IsNamed(e[2]) /\ IsNamed(e[3])
    BY DEF Stop, IsNamed
  <1>6. Checks(m, r, ledger, t, clock, state, skip, trust) = c \o e
    BY DEF Checks
  <1> HIDE DEF c, e
  <1>7. ASSUME NEW i \in 1..15
        PROVE  IsNamed(c[i])
    <2>1. CASE i \in 1..5
      BY <1>2, <2>1
    <2>2. CASE i \in 6..10
      BY <1>3, <2>2
    <2>3. CASE i \in 11..15
      BY <1>4, <2>3
    <2> QED
      BY <2>1, <2>2, <2>3
  <1>8. \A i \in 1..3 : IsNamed(e[i])
    BY <1>5
  <1>9. Named(c, k) /\ Named(e, l) /\ k \in Nat /\ l \in Nat
    BY <1>1, <1>5, <1>7, <1>8 DEF Named, AreChecks, IsNamed
  <1>10. k + l = 18
    OBVIOUS
  <1> HIDE DEF k, l
  <1>11. Named(c \o e, k + l)
    BY <1>9, NamedJoined
  <1> QED
    BY <1>6, <1>10, <1>11

\* The checks of Phase 2 have names.
LEMMA ApprovalNamed ==
    ASSUME NEW m, NEW r, NEW b, NEW g, NEW t
    PROVE  Named(ApprovalChecks(m, r, b, g, t), 6)
  <1> DEFINE a == ApprovalChecks(m, r, b, g, t)
  <1>1. DOMAIN a = 1..6
    BY DEF ApprovalChecks
  <1>2. IsNamed(a[1]) /\ IsNamed(a[2]) /\ IsNamed(a[3])
    BY DEF ApprovalChecks, Stop, IsNamed
  <1>3. IsNamed(a[4]) /\ IsNamed(a[5]) /\ IsNamed(a[6])
    BY DEF ApprovalChecks, Stop, IsNamed
  <1> HIDE DEF a
  <1>4. \A i \in 1..6 : i = 1 \/ i = 2 \/ i = 3 \/ i = 4 \/ i = 5 \/ i = 6
    OBVIOUS
  <1>5. \A i \in 1..6 : IsNamed(a[i])
    BY <1>2, <1>3, <1>4
  <1> QED
    BY <1>1, <1>5 DEF Named, AreChecks, IsNamed, a

\* The build as it is decides as the pipeline does, in both phases.
LEMMA BuildDecides ==
    ASSUME lost = "nothing", NEW m, NEW r, NEW t, NEW state, NEW b, NEW g, NEW trust
    PROVE  /\ Verdict(m, r, t, state, trust) = decide(m, r, NoopLedger, t, wall, state, trust)
           /\ VerdictWithApproval(m, r, t, state, b, g, trust)
                  = decide_with_approval(m, r, NoopLedger, t, wall, state, b, g, trust)
  <1> DEFINE c == Checks(m, r, NoopLedger, t, wall, state, FALSE, trust)
             d == Checks(m, r, NoopLedger, t, wall, state, TRUE, trust)
             a == ApprovalChecks(m, r, b, g, t)
             k == 18
             l == 6
  <1>1. Named(c, k) /\ Named(d, k) /\ Named(a, l) /\ k \in Nat /\ l \in Nat /\ l + k \in Nat
    <2>1. Named(c, k) /\ Named(d, k)
      BY PipelineNamed, Zenon
    <2>2. Named(a, l)
      BY ApprovalNamed, Zenon
    <2> HIDE DEF a, c, d
    <2> QED
      BY <2>1, <2>2
  <1>2. /\ Verdict(m, r, t, state, trust) = FirstOf(Kept(c), AllChecksPassed)
        /\ decide(m, r, NoopLedger, t, wall, state, trust) = FirstOf(c, AllChecksPassed)
    BY DEF Verdict, decide, decide_core
  <1>3. AsSeen(g, b) = g
    BY DEF AsSeen
  <1>4. /\ VerdictWithApproval(m, r, t, state, b, g, trust) = FirstOf(Kept(a \o d), AllChecksPassed)
        /\ decide_with_approval(m, r, NoopLedger, t, wall, state, b, g, trust)
               = FirstOf(a \o d, AllChecksPassed)
    BY <1>3 DEF VerdictWithApproval, decide_with_approval
  <1> HIDE DEF a, c, d, k, l
  <1>5. Named(a \o d, l + k)
    BY <1>1, NamedJoined
  <1> DEFINE u == a \o d
  <1> HIDE DEF u
  <1>6. FirstOf(Kept(c), AllChecksPassed) = FirstOf(c, AllChecksPassed)
    BY <1>1, NothingLost
  <1>7. FirstOf(Kept(u), AllChecksPassed) = FirstOf(u, AllChecksPassed)
    BY <1>1, <1>5, NothingLost DEF u
  <1> QED
    BY <1>2, <1>4, <1>6, <1>7 DEF u

Fresh(at) == at \in (wall - 2)..(wall + 2)
MayUse(g, b) == b \in {""} \cup g.approved

\* A receipt that meets no refusal becomes a frame.
LEMMA GatewayLetsThrough ==
    ASSUME NEW g, NEW rc,
           ~is_forbidden(rc.tool), ~is_cockpit_forbidden(rc.tool), rc.request_hash # NotHex,
           rc.signature = canonical_bytes(rc), rc.decision = "ALLOW",
           ~requires_hitl_binding(rc.tool), Fresh(rc.issued_at),
           rc.nonce \notin g.nonces,
           rc.request_hash = compute_receipt_hash(rc.tool, rc.params, rc.issued_at),
           MayUse(g, rc.binding_id)
    PROVE  handle_enforce(g, rc).enforced
  <1> DEFINE c == VerificationSteps(g, rc)
             n == 10
  <1>1. DOMAIN c = 1..10
    BY DEF VerificationSteps
  <1>2. IsNamed(c[1]) /\ IsNamed(c[2]) /\ IsNamed(c[3]) /\ IsNamed(c[4]) /\ IsNamed(c[5])
    BY DEF VerificationSteps, Refusal, IsNamed
  <1>3. IsNamed(c[6]) /\ IsNamed(c[7]) /\ IsNamed(c[8]) /\ IsNamed(c[9]) /\ IsNamed(c[10])
    BY DEF VerificationSteps, Refusal, IsNamed
  <1>4. ~c[1].holds /\ ~c[2].holds /\ ~c[3].holds /\ ~c[4].holds /\ ~c[5].holds
    BY DEF VerificationSteps, Refusal
  <1>5. ~c[6].holds /\ ~c[7].holds /\ ~c[8].holds /\ ~c[9].holds /\ ~c[10].holds
    BY DEF VerificationSteps, Refusal, Fresh, MayUse
  <1>6. handle_enforce(g, rc).enforced = (FirstOf(Kept(c), Enforced) = Enforced)
    BY DEF handle_enforce
  <1> HIDE DEF c
  <1>7. \A i \in 1..10 : i = 1 \/ i = 2 \/ i = 3 \/ i = 4 \/ i = 5 \/ i = 6 \/ i = 7 \/ i = 8 \/ i = 9 \/ i = 10
    OBVIOUS
  <1>8. \A i \in 1..10 : IsNamed(c[i]) /\ ~c[i].holds
    BY <1>2, <1>3, <1>4, <1>5, <1>7
  <1>9. n \in Nat /\ AreChecks(c, n)
    BY <1>1, <1>8 DEF AreChecks, IsNamed
  <1>10. \A i \in 1..n : ~c[i].holds
    BY <1>8
  <1> HIDE DEF n
  <1>11. /\ DOMAIN Kept(c) = 1..n
         /\ \A i \in 1..n : Kept(c)[i].holds <=> c[i].verdict.rule # lost /\ c[i].holds
    BY <1>9, KeptFields
  <1>12. NoneHolds(Kept(c))
    BY <1>10, <1>11 DEF NoneHolds
  <1> QED
    BY <1>6, <1>12, FirstOfNone

IsGateway(g) == g = [nonces |-> g.nonces, pending |-> g.pending, approved |-> g.approved]

\* A gateway remembers at most the nonce of the receipt it was sent.
LEMMA GatewayRemembers ==
    ASSUME NEW g, NEW rc
    PROVE  /\ IsGateway(handle_enforce(g, rc).gw)
           /\ handle_enforce(g, rc).gw.nonces \subseteq g.nonces \cup {rc.nonce}
  <1> DEFINE answer == FirstOf(Kept(VerificationSteps(g, rc)), Enforced)
             kept == IF answer.rule \in {"step_request_hash", "step_binding", "enforced"}
                     THEN g.nonces \cup {rc.nonce} ELSE g.nonces
             waiting == IF answer = Enforced THEN g.pending \ {rc.binding_id} ELSE g.pending
             granted == IF answer = Enforced THEN g.approved \ {rc.binding_id} ELSE g.approved
  <1>1. handle_enforce(g, rc).gw = [nonces |-> kept, pending |-> waiting, approved |-> granted]
    BY DEF handle_enforce
  <1>2. kept \subseteq g.nonces \cup {rc.nonce}
    OBVIOUS
  <1> HIDE DEF kept, waiting, granted
  <1> QED
    BY <1>1, <1>2 DEF IsGateway

\* What is on a receipt that the client signs for a verdict.
SignedFor(rc, v, tool, params, b, nonce) ==
    /\ rc.tool = tool /\ rc.params = params /\ rc.binding_id = b /\ rc.nonce = nonce
    /\ rc.decision = v.decision /\ rc.issued_at = wall
    /\ rc.request_hash = compute_receipt_hash(tool, params, wall)
    /\ rc.signature = canonical_bytes(rc)

\* The client fills in a receipt so.
LEMMA ReceiptFields ==
    ASSUME NEW v, NEW tool, NEW params, NEW b, NEW nonce
    PROVE  SignedFor(sign_receipt_with_params(v, tool, params, b, nonce), v, tool, params, b, nonce)
  <1> DEFINE hash == compute_receipt_hash(tool, params, wall)
             plain == [from |-> "verdict", decision |-> v.decision, tool |-> tool, params |-> params,
                       binding_id |-> b, request_hash |-> hash, issued_at |-> wall,
                       nonce |-> nonce, signature |-> <<>>]
             bytes == canonical_bytes(plain)
             rc == [plain EXCEPT !.signature = bytes]
  <1>1. sign_receipt_with_params(v, tool, params, b, nonce) = rc
    BY DEF sign_receipt_with_params, SignedReceipt
  <1>2. bytes = <<v.decision, tool, hash, b, wall, nonce>>
    BY DEF canonical_bytes
  <1> HIDE DEF hash, bytes
  <1>3. /\ rc.tool = tool /\ rc.params = params /\ rc.binding_id = b /\ rc.nonce = nonce
        /\ rc.decision = v.decision /\ rc.issued_at = wall
        /\ rc.request_hash = hash /\ rc.signature = bytes
    OBVIOUS
  <1> HIDE DEF rc
  <1>4. canonical_bytes(rc) = bytes
    BY <1>2, <1>3 DEF canonical_bytes
  <1> QED
    BY <1>1, <1>3, <1>4 DEF hash, SignedFor

\* The hash of a request is hexadecimal.
LEMMA HashIsHex ==
    ASSUME NEW tool, NEW params, NEW at PROVE compute_receipt_hash(tool, params, at) # NotHex
  <1>1. Len(<<tool, params, at>>) = 3 /\ Len(<<"NOT_VALID_HEX">>) = 1
    OBVIOUS
  <1> QED
    BY <1>1 DEF compute_receipt_hash, NotHex

\* What a verdict of the showcase allows, its gateway writes.
LEMMA SignedIsEnforced ==
    ASSUME wall \in Int, NEW v, v.decision = "ALLOW", NEW tool, NEW b, NEW nonce, NEW g,
           ~is_forbidden(tool), classify_cockpit_tool(tool) = "NonCockpit",
           nonce \notin g.nonces, MayUse(g, b)
    PROVE  handle_enforce(g, sign_receipt_with_params(v, tool, "params", b, nonce)).enforced
  <1> DEFINE rc == sign_receipt_with_params(v, tool, "params", b, nonce)
  <1>1. /\ rc.tool = tool /\ rc.params = "params" /\ rc.binding_id = b /\ rc.nonce = nonce
        /\ rc.decision = v.decision /\ rc.issued_at = wall
        /\ rc.request_hash = compute_receipt_hash(tool, "params", wall)
        /\ rc.signature = canonical_bytes(rc)
    <2>1. SignedFor(rc, v, tool, "params", b, nonce)
      BY ReceiptFields
    <2> HIDE DEF rc
    <2> QED
      BY <2>1 DEF SignedFor
  <1> HIDE DEF rc
  <1>2. ~is_cockpit_forbidden(rc.tool) /\ ~requires_hitl_binding(rc.tool)
    BY <1>1 DEF is_cockpit_forbidden, requires_hitl_binding, always_hitl
  <1>3. Fresh(rc.issued_at)
    BY <1>1 DEF Fresh
  <1>4. rc.request_hash # NotHex
    BY <1>1, HashIsHex
  <1>5. handle_enforce(g, rc).enforced
    BY <1>1, <1>2, <1>3, <1>4, GatewayLetsThrough
  <1> QED
    BY <1>5 DEF rc

\* The mandate of a beat: signed now, for a day, for one tool.
LEMMA BeatMandate ==
    ASSUME NEW tools, NEW esc
    PROVE  LET m == make_mandate(tools, esc)
           IN /\ m.parses /\ verify_cbor_signature(m) /\ m.expires_at = wall + 24 * HOUR
              /\ m.tools = tools /\ m.escalate_tools = esc /\ m.hours = AlwaysOpen
              /\ m.max_calls = 60 /\ m.escalate_paths = {} /\ m.escalate_hosts = {}
  BY DEF make_mandate, compile_mandate, Draft, verify_cbor_signature

\* The request of a beat names a tool and nothing else.
LEMMA BeatRequest ==
    ASSUME NEW tool
    PROVE  /\ Request(tool).tool = tool /\ Request(tool).path = Absent
           /\ Request(tool).url = Absent /\ Request(tool).command = Absent
  BY DEF Request

HasName(tool) == tool # <<"">>

\* With such a mandate only the state of the vehicle can stop such a request.
LEMMA BeatPasses ==
    ASSUME wall \in Int, NEW tool, HasName(tool), ~is_forbidden(tool),
           classify_cockpit_tool(tool) = "NonCockpit", NEW esc, NEW state
    PROVE  /\ Passes(make_mandate({tool}, esc), Request(tool), NoopLedger, wall, wall, state,
                     SelfSovereign) <=> ~StateForbids(tool, state)
           /\ ~Expired(make_mandate({tool}, esc), wall)
           /\ NeedsHuman(make_mandate({tool}, esc), Request(tool)) <=> tool \in esc
  <1> DEFINE m == make_mandate({tool}, esc)
             r == Request(tool)
  <1>1. /\ m.parses /\ verify_cbor_signature(m) /\ m.expires_at = wall + 24 * HOUR
        /\ m.tools = {tool} /\ m.escalate_tools = esc /\ m.hours = AlwaysOpen
        /\ m.max_calls = 60 /\ m.escalate_paths = {} /\ m.escalate_hosts = {}
    BY BeatMandate, Zenon
  <1>2. r.tool = tool /\ r.path = Absent /\ r.url = Absent /\ r.command = Absent
    BY BeatRequest
  <1> HIDE DEF m, r
  <1>3. ~Expired(m, wall)
    BY <1>1, ClockAssumption DEF Expired
  <1>4. ~PathOutside(m, r) /\ ~HostOutside(m, r) /\ ~CommandOutside(m, r)
    BY <1>2 DEF PathOutside, HostOutside, CommandOutside
  <1>5. ~HoursInvalid(m.hours) /\ ~OutOfHours(m.hours, wall)
    BY <1>1 DEF HoursInvalid, OutOfHours
  <1>6. check_issuer_trust(SelfSovereign, m, wall)
    BY DEF check_issuer_trust, SelfSovereign
  <1>7. ~LacksPiiGrant(m, tool) /\ ~AlwaysEscalates(r)
    BY <1>2 DEF LacksPiiGrant, requires_pii_grant, AlwaysEscalates, always_hitl
  <1>8. NoopLedger.answers /\ ~NoopLedger.revoked
    BY DEF NoopLedger
  <1>9. NeedsHuman(m, r) <=> tool \in esc
    BY <1>1, <1>2, <1>7 DEF NeedsHuman, Escalates
  <1>10. Passes(m, r, NoopLedger, wall, wall, state, SelfSovereign) <=> ~StateForbids(tool, state)
    BY <1>1, <1>2, <1>3, <1>4, <1>5, <1>6, <1>7, <1>8 DEF Passes, is_forbidden, HasName
  <1> QED
    BY <1>3, <1>9, <1>10 DEF m, r

\* What the pipeline says in a beat depends on the state of the vehicle and on
\* whether the mandate wants a human asked.
LEMMA BeatVerdict ==
    ASSUME lost = "nothing", wall \in Int, NEW tool, HasName(tool), ~is_forbidden(tool),
           classify_cockpit_tool(tool) = "NonCockpit", NEW esc, NEW state
    PROVE  Verdict(make_mandate({tool}, esc), Request(tool), wall, state, SelfSovereign).decision
               = IF StateForbids(tool, state) THEN "DENY"
                 ELSE IF tool \in esc THEN "PENDING_APPROVAL" ELSE "ALLOW"
  <1> DEFINE m == make_mandate({tool}, esc)
             r == Request(tool)
             v == Verdict(m, r, wall, state, SelfSovereign)
  <1>1. v = decide(m, r, NoopLedger, wall, wall, state, SelfSovereign)
    BY BuildDecides
  <1>2. DecideVerdict(m, r, NoopLedger, wall, wall, state, SelfSovereign, v)
    BY <1>1, DecideOutcome
  <1>3. /\ Passes(m, r, NoopLedger, wall, wall, state, SelfSovereign) <=> ~StateForbids(tool, state)
        /\ ~Expired(m, wall)
        /\ NeedsHuman(m, r) <=> tool \in esc
    BY BeatPasses, Zenon
  <1>4. m.parses /\ m.hours = AlwaysOpen /\ m.max_calls = 60
    BY BeatMandate
  <1>5. NoopLedger.answers /\ NoopLedger.recent = 0
    BY DEF NoopLedger
  <1> HIDE DEF m, r, v
  <1>6. ~HoursInvalid(m.hours)
    BY <1>4 DEF HoursInvalid
  <1>7. CASE StateForbids(tool, state)
    <2>1. v.decision \in {"DENY", "ERROR", "EXPIRED"} /\ Reasons(m, NoopLedger, wall, v)
      BY <1>2, <1>3, <1>7 DEF DecideVerdict
    <2>2. v.decision = "DENY"
      BY <1>3, <1>4, <1>5, <1>6, <2>1 DEF Reasons
    <2> QED
      BY <1>7, <2>2 DEF v, m, r
  <1>8. CASE ~StateForbids(tool, state)
    <2>1. ~(NoopLedger.recent >= m.max_calls)
      BY <1>4, <1>5
    <2>2. v.decision = IF tool \in esc THEN "PENDING_APPROVAL" ELSE "ALLOW"
      BY <1>2, <1>3, <1>8, <2>1 DEF DecideVerdict, AllChecksPassed
    <2> QED
      BY <1>8, <2>2 DEF v, m, r
  <1> QED
    BY <1>7, <1>8

\* The binding and the grant of the last beat, made at the same moment.
DoorBinding(m, r) == PendingApprovalBinding("door", m, r, wall)
DoorGrant(m, r) == ApprovalGrant(DoorBinding(m, r), operator, 300, wall)

\* The grant fits the binding, and Phase 2 allows what only a human was missing for.
LEMMA BeatApproved ==
    ASSUME lost = "nothing", wall \in Int, NEW tool, HasName(tool), ~is_forbidden(tool),
           classify_cockpit_tool(tool) = "NonCockpit", NEW esc, NEW state,
           ~StateForbids(tool, state),
           NEW m, m = make_mandate({tool}, esc), NEW r, r = Request(tool)
    PROVE  /\ verify_against_binding(DoorGrant(m, r), DoorBinding(m, r), wall)
           /\ VerdictWithApproval(m, r, wall, state, DoorBinding(m, r), DoorGrant(m, r),
                                  SelfSovereign).decision = "ALLOW"
  <1> DEFINE b == DoorBinding(m, r)
             g == DoorGrant(m, r)
             v == VerdictWithApproval(m, r, wall, state, b, g, SelfSovereign)
             o == decide_core(m, r, NoopLedger, wall, wall, state, TRUE, SelfSovereign)
  <1>1. b.ttl_expires_at = wall + PENDING_APPROVAL_TTL
    BY DEF DoorBinding, PendingApprovalBinding
  <1>2. /\ g.binding_id = b.binding_id /\ g.request_hash = b.request_hash
        /\ g.expires_at = wall + 300 /\ g.signature_ok
    BY DEF DoorGrant, ApprovalGrant
  <1> HIDE DEF b, g
  <1>3. verify_against_binding(g, b, wall) /\ ~GrantExpired(g, b, wall)
    BY <1>2 DEF verify_against_binding, GrantExpired
  <1>4. ~(wall >= b.ttl_expires_at)
    BY <1>1, RunAssumption, ApprovalTtlAssumption
  <1>5. Passes(m, r, NoopLedger, wall, wall, state, SelfSovereign)
    BY BeatPasses
  <1>6. PassesApproval(m, r, b, g, wall)
    BY <1>3, <1>4, <1>5 DEF Passes, PassesApproval
  <1>7. v = decide_with_approval(m, r, NoopLedger, wall, wall, state, b, g, SelfSovereign)
    BY BuildDecides
  <1>8. ApprovalVerdict(m, r, NoopLedger, wall, wall, state, b, g, SelfSovereign, v)
    BY <1>7, ApprovalOutcome
  <1> HIDE DEF v, o
  <1>9. v = o
    BY <1>6, <1>8 DEF ApprovalVerdict, o
  <1>10. CoreVerdict(m, r, NoopLedger, wall, wall, state, TRUE, SelfSovereign, o)
    BY CoreOutcome DEF o
  <1>11. ~(NoopLedger.recent >= m.max_calls)
    <2>1. m.max_calls = 60
      BY BeatMandate
    <2> QED
      BY <2>1 DEF NoopLedger
  <1>12. v.decision = "ALLOW"
    BY <1>5, <1>9, <1>10, <1>11 DEF CoreVerdict, EscalationVerdict, AllChecksPassed
  <1> QED
    BY <1>3, <1>12 DEF b, g, v

\* Nothing has gone otherwise than announced, and the gateway remembers receipts of
\* the beats that were shown.
ShowInv ==
    program = "showcase" /\ lost = "nothing" =>
        /\ failed = {} /\ wall \in Nat /\ done \in 0..4
        /\ IsGateway(gw) /\ gw.nonces \subseteq 1..done

\* A beat that goes as announced keeps it so.
LEMMA BeatKeeps ==
    ASSUME ShowInv, NEW n \in 1..4, NEW announced, NEW written, NEW g,
           Beat(n, announced, written, g),
           lost = "nothing" => announced /\ IsGateway(g) /\ g.nonces \subseteq gw.nonces \cup {n}
    PROVE  ShowInv'
  <1>1. CASE lost # "nothing"
    BY <1>1 DEF Beat, ShowInv
  <1>2. CASE lost = "nothing"
    <2>1. /\ program = "showcase" /\ done = n - 1 /\ done' = n /\ gw' = g
          /\ failed' = failed /\ lost' = lost /\ program' = program
      BY <1>2 DEF Beat
    <2>2. PICK pause \in Pauses : wall' = wall + pause
      BY DEF Beat
    <2>3. failed = {} /\ wall \in Nat /\ gw.nonces \subseteq 1..(n - 1)
      BY <1>2, <2>1 DEF ShowInv
    <2>4. wall' \in Nat
      BY <2>2, <2>3, RunAssumption
    <2>5. g.nonces \subseteq 1..n
      BY <1>2, <2>3
    <2>6. IsGateway(gw')
      BY <1>2, <2>1
    <2> QED
      BY <2>1, <2>3, <2>4, <2>5, <2>6 DEF ShowInv, IsGateway
  <1> QED
    BY <1>1, <1>2

Climate == <<"vehicle", "climate", "set_temperature">>
Window == <<"vehicle", "window", "set_position">>
Throttle == <<"vehicle", "powertrain", "set_throttle">>
Door == <<"vehicle", "door", "unlock">>
Moving == [speed_mmps |-> 33333, gear |-> "Drive", actor |-> "Driver"]
Parked == [speed_mmps |-> 0, gear |-> "Park", actor |-> "Driver"]

\* What the tables say of the tools of the showcase.
LEMMA ShowcaseTools ==
    /\ classify_vehicle_tool(Climate) = "Comfort" /\ classify_vehicle_tool(Window) = "Sensitive"
    /\ classify_vehicle_tool(Door) = "Sensitive" /\ classify_vehicle_tool(Throttle) = "Forbidden"
    /\ classify_cockpit_tool(Climate) = "NonCockpit"
    /\ classify_cockpit_tool(Window) = "NonCockpit"
    /\ classify_cockpit_tool(Door) = "NonCockpit"
    /\ HasName(Climate) /\ HasName(Window) /\ HasName(Door)
  <1>1. OpeningTool(Window) /\ OpeningTool(Door)
    BY DEF OpeningTool, Window, Door
  <1>2. classify_vehicle_tool(Throttle) = "Forbidden"
    <2>1. Below("vehicle", Throttle)
      BY DEF Below, Throttle
    <2>2. InVehicleDomain(Throttle, {"powertrain", "chassis", "adas", "drive", "steering",
                                     "braking", "throttle"})
      BY DEF InVehicleDomain, Throttle
    <2>3. /\ ~InVehicleDomain(Throttle, {"door", "window", "trunk", "lock"})
          /\ ~InVehicleDomain(Throttle, {"navigation", "phone"})
          /\ ~InVehicleDomain(Throttle, {"climate", "seat", "lighting", "media"})
      BY DEF InVehicleDomain, Throttle
    <2> QED
      BY <2>1, <2>2, <2>3 DEF classify_vehicle_tool
  <1>3. classify_vehicle_tool(Climate) = "Comfort"
    <2>1. Below("vehicle", Climate)
      BY DEF Below, Climate
    <2>2. InVehicleDomain(Climate, {"climate", "seat", "lighting", "media"})
      BY DEF InVehicleDomain, Climate
    <2>3. /\ ~InVehicleDomain(Climate, {"powertrain", "chassis", "adas", "drive", "steering",
                                        "braking", "throttle"})
          /\ ~InVehicleDomain(Climate, {"door", "window", "trunk", "lock"})
          /\ ~InVehicleDomain(Climate, {"navigation", "phone"})
      BY DEF InVehicleDomain, Climate
    <2> QED
      BY <2>1, <2>2, <2>3 DEF classify_vehicle_tool
  <1>4. /\ classify_cockpit_tool(Climate) = "NonCockpit"
        /\ classify_cockpit_tool(Window) = "NonCockpit"
        /\ classify_cockpit_tool(Door) = "NonCockpit"
    BY DEF classify_cockpit_tool, Below, Climate, Window, Door
  <1>5. HasName(Climate) /\ HasName(Window) /\ HasName(Door)
    <2>1. Len(Climate) = 3 /\ Len(Window) = 3 /\ Len(Door) = 3
      BY DEF Climate, Window, Door
    <2>a. \A e : Len(<<e>>) = 1
      OBVIOUS
    <2>2. \A tool : ~HasName(tool) => Len(tool) = 1
      BY <2>a, Zenon DEF HasName
    <2> QED
      BY <2>1, <2>2
  <1> QED
    BY <1>1, <1>2, <1>3, <1>4, <1>5, Sensitive

\* What the state of the vehicle says to them.
LEMMA ShowcaseStates ==
    /\ ~StateForbids(Climate, NoState)
    /\ StateForbids(Window, Moving)
    /\ ~StateForbids(Door, Parked)
  <1>1. ~StateForbids(Climate, NoState)
    BY ShowcaseTools DEF StateForbids
  <1>2. ~is_parked_and_stopped(Moving) /\ ~is_parked_and_stopped(fail_safe)
    BY DEF is_parked_and_stopped, Moving, fail_safe
  <1>3. StateForbids(Window, Moving)
    BY <1>2, ShowcaseTools DEF StateForbids
  <1>4. Parked # NoState
    <2>1. Parked \in [speed_mmps : Nat, gear : Gears, actor : {"Driver", "Passenger"}]
      BY DEF Parked, Gears
    <2> QED
      BY <2>1, RunAssumption
  <1>5. is_parked_and_stopped(Parked)
    BY DEF is_parked_and_stopped, Parked, SPEED_GATE_MMPS
  <1>6. ~StateForbids(Door, Parked)
    BY <1>4, <1>5, ShowcaseTools DEF StateForbids
  <1> QED
    BY <1>1, <1>3, <1>6

\* The first beat goes as announced.
LEMMA FirstBeat == ASSUME ShowInv, beat1_comfort_allow PROVE ShowInv'
  <1> DEFINE v == Verdict(make_mandate({Climate}, {}), Request(Climate), wall, NoState, SelfSovereign)
             unbound == ""
             rc == sign_receipt_with_params(v, Climate, "params", unbound, 1)
             reply == handle_enforce(gw, rc)
             n == 1
             written == Written(reply, rc)
  <1>1. Beat(n, reply.enforced, written, reply.gw)
    BY Zenon DEF beat1_comfort_allow, Climate
  <1>a. MayUse(gw, unbound)
    BY Zenon DEF MayUse
  <1> HIDE DEF unbound
  <1>2. ASSUME lost = "nothing"
        PROVE  reply.enforced /\ IsGateway(reply.gw) /\ reply.gw.nonces \subseteq gw.nonces \cup {n}
    <2>1. wall \in Nat /\ gw.nonces \subseteq 1..0
      <3> HIDE DEF reply, written
      <3> QED
        BY <1>1, <1>2 DEF Beat, ShowInv
    <2>2. v.decision = "ALLOW"
      BY <1>2, <2>1, BeatVerdict, ShowcaseTools, ShowcaseStates DEF is_forbidden
    <2>3. rc.nonce = 1
      BY ReceiptFields DEF SignedFor
    <2>4. IsGateway(reply.gw) /\ reply.gw.nonces \subseteq gw.nonces \cup {n}
      <3> HIDE DEF rc
      <3> QED
        BY <2>3, GatewayRemembers
    <2> HIDE DEF v
    <2>6. reply.enforced
      BY <1>a, <2>1, <2>2, SignedIsEnforced, ShowcaseTools DEF is_forbidden
    <2> QED
      BY <2>4, <2>6
  <1> HIDE DEF reply, written
  <1>3. n \in 1..4
    OBVIOUS
  <1> HIDE DEF n
  <1> QED
    BY <1>1, <1>2, <1>3, BeatKeeps

\* The second beat is a denial.
LEMMA SecondBeat == ASSUME ShowInv, beat2_state_gated_deny PROVE ShowInv'
  <1> DEFINE v == Verdict(make_mandate({Window}, {}), Request(Window), wall, Moving, SelfSovereign)
             n == 2
             written == {}
  <1>1. Beat(n, v.decision = "DENY", written, gw)
    BY DEF beat2_state_gated_deny, Window, Moving
  <1>2. ASSUME lost = "nothing"
        PROVE  v.decision = "DENY" /\ IsGateway(gw) /\ gw.nonces \subseteq gw.nonces \cup {n}
    <2>1. wall \in Nat /\ IsGateway(gw)
      BY <1>1, <1>2 DEF Beat, ShowInv
    <2>2. v.decision = "DENY"
      BY <1>2, <2>1, BeatVerdict, ShowcaseTools, ShowcaseStates DEF is_forbidden
    <2> QED
      BY <2>1, <2>2
  <1> HIDE DEF v, written
  <1>3. n \in 1..4
    OBVIOUS
  <1> HIDE DEF n
  <1> QED
    BY <1>1, <1>2, <1>3, BeatKeeps

\* The third beat's receipt is turned away.
LEMMA ThirdBeat == ASSUME ShowInv, beat3_forbidden_hard_deny PROVE ShowInv'
  <1> DEFINE rc == SignedReceipt("made_up", "ALLOW", Throttle, "params", "", wall, 3)
             reply == handle_enforce(gw, rc)
             n == 3
             written == Written(reply, rc)
  <1>1. Beat(n, ~reply.enforced, written, reply.gw)
    BY Zenon DEF beat3_forbidden_hard_deny, Throttle
  <1>2. rc.tool = Throttle /\ rc.nonce = 3
    BY DEF SignedReceipt
  <1> HIDE DEF rc
  <1>3. ASSUME lost = "nothing"
        PROVE  ~reply.enforced /\ IsGateway(reply.gw) /\ reply.gw.nonces \subseteq gw.nonces \cup {n}
    <2>1. is_forbidden(rc.tool)
      BY <1>2, ShowcaseTools DEF is_forbidden
    <2>2. ~reply.enforced
      BY <1>3, <2>1, EnforcedMostly
    <2>3. IsGateway(reply.gw) /\ reply.gw.nonces \subseteq gw.nonces \cup {n}
      BY <1>2, GatewayRemembers
    <2> QED
      BY <2>2, <2>3
  <1> DEFINE refused == ~reply.enforced
  <1> HIDE DEF written
  <1>4. n \in 1..4
    OBVIOUS
  <1> HIDE DEF n, reply
  <1>5. Beat(n, refused, written, reply.gw)
    BY <1>1
  <1>6. lost = "nothing" => refused /\ IsGateway(reply.gw) /\ reply.gw.nonces \subseteq gw.nonces \cup {n}
    BY <1>3
  <1> HIDE DEF refused
  <1> QED
    BY <1>4, <1>5, <1>6, BeatKeeps

\* The last beat: the human is asked, says yes, and the frame is written.
LEMMA FourthBeat == ASSUME ShowInv, beat4_hitl_door_unlock PROVE ShowInv'
  <1> DEFINE m == make_mandate({Door}, {Door})
             r == Request(Door)
             first == Verdict(m, r, wall, Parked, SelfSovereign)
             pending == DoorBinding(m, r)
             queued == [gw EXCEPT !.pending = @ \cup {pending.binding_id}]
             grant == DoorGrant(m, r)
             granted == [queued EXCEPT !.approved = @ \cup {grant.binding_id}]
             second == VerdictWithApproval(m, r, wall, Parked, pending, grant, SelfSovereign)
             rc == sign_receipt_with_params(second, Door, "params", pending.binding_id, 4)
             reply == handle_enforce(granted, rc)
             fits == verify_against_binding(grant, pending, wall)
             n == 4
             written == Written(reply, rc)
             none == {}
  <1>1. IF first.decision # "PENDING_APPROVAL" THEN Beat(n, FALSE, none, gw)
        ELSE IF ~fits THEN Beat(n, FALSE, none, queued)
        ELSE Beat(n, reply.enforced, written, reply.gw)
    BY Zenon DEF beat4_hitl_door_unlock, Door, Parked, DoorBinding, DoorGrant
  <1> HIDE DEF none
  <1>b. program = "showcase" /\ done = 3 /\ lost' = lost
    <2> HIDE DEF first, fits, queued, reply, written
    <2>1. \E announced, w, g : Beat(n, announced, w, g)
      BY <1>1, Zenon
    <2> QED
      BY <2>1 DEF Beat
  <1>2. CASE lost # "nothing"
    <2>1. lost' # "nothing"
      BY <1>b, <1>2
    <2> QED
      BY <2>1 DEF ShowInv
  <1>3. CASE lost = "nothing"
    <2>1. wall \in Nat /\ IsGateway(gw) /\ gw.nonces \subseteq 1..3
      BY <1>b, <1>3 DEF ShowInv
    <2>2. first.decision = "PENDING_APPROVAL"
      BY <1>3, <2>1, BeatVerdict, ShowcaseTools, ShowcaseStates DEF is_forbidden
    <2>3. fits /\ second.decision = "ALLOW"
      BY <1>3, <2>1, BeatApproved, ShowcaseTools, ShowcaseStates DEF is_forbidden
    <2>4. pending.binding_id = "door" /\ grant.binding_id = "door"
      BY DEF DoorGrant, DoorBinding, ApprovalGrant, PendingApprovalBinding
    <2> HIDE DEF pending, grant, first, fits, second
    <2>5. granted.nonces = gw.nonces /\ "door" \in granted.approved
      <3>1. gw = [nonces |-> gw.nonces, pending |-> gw.pending, approved |-> gw.approved]
        BY <2>1 DEF IsGateway
      <3> DEFINE waiting == gw.pending \cup {pending.binding_id}
                 approved == gw.approved \cup {grant.binding_id}
      <3>2. queued = [nonces |-> gw.nonces, pending |-> waiting, approved |-> gw.approved]
        BY <3>1
      <3> HIDE DEF queued
      <3>3. granted = [nonces |-> gw.nonces, pending |-> waiting, approved |-> approved]
        BY <3>2
      <3>4. "door" \in approved
        BY <2>4
      <3> HIDE DEF granted, approved, waiting
      <3> QED
        BY <3>3, <3>4
    <2> HIDE DEF granted
    <2>6. MayUse(granted, "door")
      BY <2>5, Zenon DEF MayUse
    <2>7. rc = sign_receipt_with_params(second, Door, "params", "door", 4)
      BY <2>4
    <2> HIDE DEF rc
    <2>8. 4 \notin granted.nonces
      BY <2>1, <2>5
    <2>9. reply.enforced
      BY <2>1, <2>3, <2>6, <2>7, <2>8, SignedIsEnforced, ShowcaseTools DEF is_forbidden
    <2>10. IsGateway(reply.gw) /\ reply.gw.nonces \subseteq gw.nonces \cup {n}
      <3>1. rc.nonce = 4
        BY <2>7, ReceiptFields DEF SignedFor
      <3> QED
        BY <2>5, <3>1, GatewayRemembers
    <2>11. n \in 1..4
      OBVIOUS
    <2> HIDE DEF n, reply, written
    <2>12. Beat(n, reply.enforced, written, reply.gw)
      BY <1>1, <2>2, <2>3
    <2> QED
      BY <2>9, <2>10, <2>11, <2>12, BeatKeeps
  <1> QED
    BY <1>2, <1>3

\* The showcase ends as its headers announce, whenever it is started and however long
\* somebody waits between its beats.
THEOREM ShowcaseAsAnnounced ==
    RunnerSpec => [](Ended /\ program = "showcase" /\ lost = "nothing" => failed = {})
  <1>1. RunnerInit => ShowInv
    BY RunAssumption DEF RunnerInit, ShowInv, NewGateway, IsGateway
  <1>2. ShowInv /\ [RunnerNext]_runnerVars => ShowInv'
    <2>1. ASSUME ShowInv, RunVector
          PROVE  ShowInv'
      BY <2>1 DEF RunVector, ShowInv
    <2>2. ASSUME ShowInv, UNCHANGED runnerVars
          PROVE  ShowInv'
      BY <2>2 DEF runnerVars, ShowInv, IsGateway
    <2> QED
      BY <2>1, <2>2, FirstBeat, SecondBeat, ThirdBeat, FourthBeat DEF RunnerNext
  <1>3. ShowInv => (Ended /\ program = "showcase" /\ lost = "nothing" => failed = {})
    BY DEF ShowInv
  <1> QED
    BY <1>1, <1>2, <1>3, PTL DEF RunnerSpec

(***************************************************************************)
(* The conformance runner, over any directory of vectors.                  *)
(***************************************************************************)

\* The build and the clock are what they were.
Same == lost' = lost /\ wall' = wall

\* Which checks hold depends on the build alone.
LEMMA KeptStays == ASSUME Same PROVE \A checks : Kept(checks)' = Kept(checks)
  BY Zenon DEF Kept, Same

\* And so does a verdict, for what it is given, but for the moment.
LEMMA VerdictStays ==
    ASSUME Same
    PROVE  /\ \A m, r, t, state, trust : Verdict(m, r, t, state, trust)' = Verdict(m, r, t, state, trust)
           /\ \A m, r, t, state, b, g, trust : VerdictWithApproval(m, r, t, state, b, g, trust)'
                  = VerdictWithApproval(m, r, t, state, b, g, trust)
  <1>1. \A m, r, t, state, trust : Verdict(m, r, t, state, trust)' = Verdict(m, r, t, state, trust)
    BY KeptStays, Zenon DEF Verdict, Same
  <1>2. \A g, b : AsSeen(g, b)' = AsSeen(g, b)
    BY Zenon DEF AsSeen, Same
  <1>3. \A m, r, t, state, b, g, trust : VerdictWithApproval(m, r, t, state, b, g, trust)'
                  = VerdictWithApproval(m, r, t, state, b, g, trust)
    BY KeptStays, <1>2, Zenon DEF VerdictWithApproval, Same
  <1> QED
    BY <1>1, <1>3

\* The same of what a gateway answers to a receipt.
LEMMA GatewayStays == ASSUME Same PROVE \A g, rc : handle_enforce(g, rc)' = handle_enforce(g, rc)
  <1> SUFFICES ASSUME NEW g, NEW rc PROVE handle_enforce(g, rc)' = handle_enforce(g, rc)
    OBVIOUS
  <1> DEFINE old == Refusal(rc.issued_at \notin (wall - 2)..(wall + 2), "step_freshness", {"stale"})
             s == VerificationSteps(g, rc)
             a == FirstOf(Kept(s), Enforced)
  <1>1. old' = old
    BY Zenon DEF Same
  <1>2. s' = s
    BY <1>1, ZenonT(60) DEF VerificationSteps, Refusal, Same
  <1> HIDE DEF s
  <1>3. Kept(s)' = Kept(s)
    BY <1>2, KeptStays, Zenon
  <1>4. a' = a
    BY <1>3, Zenon
  <1>5. handle_enforce(g, rc) =
        [answer |-> a,
         enforced |-> a = Enforced,
         gw |-> [nonces |-> IF a.rule \in {"step_request_hash", "step_binding", "enforced"}
                            THEN g.nonces \cup {rc.nonce} ELSE g.nonces,
                 pending |-> IF a = Enforced THEN g.pending \ {rc.binding_id} ELSE g.pending,
                 approved |-> IF a = Enforced THEN g.approved \ {rc.binding_id} ELSE g.approved]]
    BY Zenon DEF handle_enforce, s
  <1> QED
    BY <1>4, Zenon DEF handle_enforce, s

\* A vector has the same outcome whenever it is its turn: each makes its mandate, its
\* receipt and its gateway anew.
LEMMA VectorStays == ASSUME Same, NEW v PROVE run_vector(v)' = run_vector(v)
  <1>1. \A g, rc : MustRefuse(v, g, rc)' = MustRefuse(v, g, rc)
    BY GatewayStays, Zenon DEF MustRefuse
  <1>2. MandateOf(v)' = MandateOf(v) /\ NowOf(v)' = NowOf(v)
    BY Zenon DEF MandateOf, build_mandate, NowOf, Same
  <1>3. GatewayVerdict(v)' = GatewayVerdict(v)
    <2> SUFFICES ASSUME NEW m, m = MandateOf(v), m = MandateOf(v)',
                        NEW n, n = NowOf(v), n = NowOf(v)'
                 PROVE  GatewayVerdict(v)' = GatewayVerdict(v)
      BY <1>2
    <2>1. Verdict(m, v.r, n, build_vehicle_state(v), SelfSovereign)'
              = Verdict(m, v.r, n, build_vehicle_state(v), SelfSovereign)
      BY KeptStays, Zenon DEF Verdict, VerdictWithApproval, AsSeen, Same
    <2> QED
      BY <2>1, Zenon DEF GatewayVerdict
  <1>4. FromVerdict(v)' = FromVerdict(v)
    BY <1>3, Zenon DEF FromVerdict, sign_receipt_with_params, Same
  <1>5. \A decision, b : MadeUp(v, decision, b, wall)' = MadeUp(v, decision, b, wall)
    BY Zenon DEF MadeUp, Same
  <1>6. enforce_vector(v)' = enforce_vector(v)
    BY <1>3, <1>4, GatewayStays, Zenon DEF enforce_vector
  <1>7. forbidden_receipt(v)' = forbidden_receipt(v)
    BY <1>1, Zenon DEF forbidden_receipt, Same
  <1>8. replay(v)' = replay(v)
    BY <1>1, <1>3, <1>4, GatewayStays, Zenon DEF replay
  <1>9. stale(v)' = stale(v)
    BY <1>1, <1>3, Zenon DEF stale, Same
  <1>10. deny_receipt(v)' = deny_receipt(v)
    BY <1>1, Zenon DEF deny_receipt, Same
  <1>11. tampered_tool(v)' = tampered_tool(v)
    BY <1>1, <1>3, <1>4, Zenon DEF tampered_tool
  <1>12. no_binding(v)' = no_binding(v)
    BY <1>1, <1>3, Zenon DEF no_binding, Same
  <1>13. bad_cbor_receipt(v)' = bad_cbor_receipt(v)
    BY <1>1, Zenon DEF bad_cbor_receipt, Same
  <1>14. run_phase2_vector(v)' = run_phase2_vector(v)
    <2> SUFFICES ASSUME NEW m, m = MandateOf(v), m = MandateOf(v)',
                        NEW n, n = NowOf(v), n = NowOf(v)'
                 PROVE  run_phase2_vector(v)' = run_phase2_vector(v)
      BY <1>2
    <2> DEFINE state == build_vehicle_state(v)
               pending == PendingApprovalBinding(0, m, v.r, n)
               grant == GrantOf(v.phase2_grant_type, pending, n)
    <2>1. Verdict(m, v.r, n, state, SelfSovereign)' = Verdict(m, v.r, n, state, SelfSovereign)
      BY KeptStays, Zenon DEF Verdict, VerdictWithApproval, AsSeen, Same
    <2>2. VerdictWithApproval(m, v.r, n, state, pending, grant, SelfSovereign)'
              = VerdictWithApproval(m, v.r, n, state, pending, grant, SelfSovereign)
      BY KeptStays, Zenon DEF Verdict, VerdictWithApproval, AsSeen, Same
    <2> QED
      BY <2>1, <2>2, Zenon DEF run_phase2_vector, Linked, Same
  <1>15. run_vector_inner(v)' = run_vector_inner(v)
    <2> SUFFICES ASSUME NEW m, m = MandateOf(v), m = MandateOf(v)',
                        NEW n, n = NowOf(v), n = NowOf(v)'
                 PROVE  run_vector_inner(v)' = run_vector_inner(v)
      BY <1>2
    <2>1. Verdict(m, v.r, n, build_vehicle_state(v), TrustOf(v))'
              = Verdict(m, v.r, n, build_vehicle_state(v), TrustOf(v))
      BY KeptStays, Zenon DEF Verdict, VerdictWithApproval, AsSeen, Same
    <2> QED
      BY <2>1, Zenon DEF run_vector_inner
  <1> QED
    BY <1>6, <1>7, <1>8, <1>9, <1>10, <1>11, <1>12, <1>13, <1>14, <1>15, Zenon DEF run_vector

\* The identifiers of those of the first n vectors that fail by themselves.
Failing(n) ==
    {Suites[program][i].id : i \in {j \in 1..n : ~run_vector(Suites[program][j]).pass}}

\* The receipts that the first n vectors write by themselves.
Delivered(n) == UNION {run_vector(Suites[program][i]).written : i \in 1..n}

\* What the runner has counted is what its vectors say one by one.
RunnerInv ==
    program # "showcase" => done \in Nat /\ failed = Failing(done) /\ bus = Delivered(done)

\* Hence what the vectors say one by one stays as it is.
LEMMA CountsStay ==
    ASSUME Same, program' = program
    PROVE  \A n : Failing(n)' = Failing(n) /\ Delivered(n)' = Delivered(n)
  <1> SUFFICES ASSUME NEW n PROVE Failing(n)' = Failing(n) /\ Delivered(n)' = Delivered(n)
    OBVIOUS
  <1> DEFINE V(j) == Suites[program][j]
  <1>1. \A j : V(j)' = V(j)
    BY Zenon
  <1>2. ASSUME NEW j PROVE run_vector(V(j))' = run_vector(V(j))
    <2> SUFFICES ASSUME NEW v, v = V(j), v = V(j)' PROVE run_vector(V(j))' = run_vector(V(j))
      BY <1>1, Zenon
    <2>1. run_vector(v)' = run_vector(v)
      BY VectorStays
    <2> QED
      BY <2>1, Zenon
  <1> QED
    BY <1>1, <1>2, Zenon DEF Failing, Delivered

\* One vector more is one more to count.
LEMMA OneMore ==
    ASSUME NEW n \in Nat
    PROVE  LET v == Suites[program][n + 1]
           IN /\ Failing(n + 1) = IF run_vector(v).pass THEN Failing(n) ELSE Failing(n) \cup {v.id}
              /\ Delivered(n + 1) = Delivered(n) \cup run_vector(v).written
  <1>1. 1..(n + 1) = 1..n \cup {n + 1}
    OBVIOUS
  <1> DEFINE k == n + 1
             up == 1..k
             down == 1..n
  <1>2. up = down \cup {k}
    BY <1>1
  <1>3. Failing(n) = {Suites[program][i].id : i \in {j \in down : ~run_vector(Suites[program][j]).pass}}
        /\ Failing(k) = {Suites[program][i].id : i \in {j \in up : ~run_vector(Suites[program][j]).pass}}
    BY Zenon DEF Failing
  <1>4. Delivered(n) = UNION {run_vector(Suites[program][i]).written : i \in down}
        /\ Delivered(k) = UNION {run_vector(Suites[program][i]).written : i \in up}
    BY Zenon DEF Delivered
  <1> HIDE DEF k, up, down
  <1>5. Failing(k) = IF run_vector(Suites[program][k]).pass THEN Failing(n)
                     ELSE Failing(n) \cup {Suites[program][k].id}
    BY <1>2, <1>3
  <1>6. Delivered(k) = Delivered(n) \cup run_vector(Suites[program][k]).written
    BY <1>2, <1>4
  <1> QED
    BY <1>5, <1>6, Zenon DEF k

\* A step of the runner keeps the count, and the program, the build and the clock.
LEMMA RunnerKeeps ==
    ASSUME RunnerInv, [RunnerNext]_runnerVars
    PROVE  RunnerInv' /\ program' = program /\ (program # "showcase" => Same)
  <1>1. ASSUME RunVector PROVE RunnerInv' /\ program' = program /\ Same
    <2> DEFINE v == Suites[program][done + 1]
               fails == IF run_vector(v).pass THEN failed ELSE failed \cup {v.id}
               out == bus \cup run_vector(v).written
    <2>1. failed' = fails /\ bus' = out
      BY <1>1, Zenon DEF RunVector
    <2>2. program # "showcase" /\ program' = program /\ done' = done + 1 /\ Same
      BY <1>1, Zenon DEF RunVector, Same
    <2>3. done \in Nat /\ failed = Failing(done) /\ bus = Delivered(done)
      BY <2>2 DEF RunnerInv
    <2>4. Failing(done + 1) = fails /\ Delivered(done + 1) = out
      BY <2>3, OneMore, Zenon
    <2>5. \A n : Failing(n)' = Failing(n) /\ Delivered(n)' = Delivered(n)
      BY <2>2, CountsStay
    <2> HIDE DEF fails, out
    <2> DEFINE next == done + 1
    <2>6. next \in Nat /\ failed' = Failing(next) /\ bus' = Delivered(next) /\ done' = next
      BY <2>1, <2>2, <2>3, <2>4
    <2> QED
      BY <2>2, <2>5, <2>6 DEF RunnerInv
  <1>2. ASSUME UNCHANGED runnerVars PROVE RunnerInv' /\ program' = program /\ Same
    <2>1. program' = program /\ done' = done /\ failed' = failed /\ bus' = bus /\ Same
      BY <1>2, Zenon DEF runnerVars, Same
    <2>2. \A n : Failing(n)' = Failing(n) /\ Delivered(n)' = Delivered(n)
      BY <2>1, CountsStay
    <2> QED
      BY <2>1, <2>2 DEF RunnerInv
  <1>3. ASSUME beat1_comfort_allow PROVE program = "showcase" /\ program' = program
    BY <1>3, Zenon DEF beat1_comfort_allow, Beat
  <1>4. ASSUME beat2_state_gated_deny PROVE program = "showcase" /\ program' = program
    BY <1>4, SMT DEF beat2_state_gated_deny, Beat
  <1>5. ASSUME beat3_forbidden_hard_deny PROVE program = "showcase" /\ program' = program
    BY <1>5, Zenon DEF beat3_forbidden_hard_deny, Beat
  <1>6. ASSUME beat4_hitl_door_unlock PROVE program = "showcase" /\ program' = program
    BY <1>6, Zenon DEF beat4_hitl_door_unlock, Beat
  <1> QED
    BY <1>1, <1>2, <1>3, <1>4, <1>5, <1>6 DEF RunnerNext, RunnerInv

\* Once all vectors were run, the runner has reported those that fail by themselves and
\* no other, and the bus has what each of them writes by itself: the order of the
\* directory does not matter, and no vector hides or causes the failure of another.
THEOREM RunnerReports ==
    RunnerSpec => [](Ended /\ program # "showcase" =>
                        /\ failed = Failing(Len(Suites[program]))
                        /\ bus = Delivered(Len(Suites[program])))
  <1>1. RunnerInit => RunnerInv
    BY DEF RunnerInit, RunnerInv, Failing, Delivered
  <1>2. RunnerInv /\ [RunnerNext]_runnerVars => RunnerInv'
    BY RunnerKeeps
  <1>3. RunnerInv => (Ended /\ program # "showcase" =>
                        /\ failed = Failing(Len(Suites[program]))
                        /\ bus = Delivered(Len(Suites[program])))
    BY DEF RunnerInv, Ended
  <1> QED
    BY <1>1, <1>2, <1>3, PTL DEF RunnerSpec

\* The shipped vectors, taken one by one at the start, fail on the builds they should.
SuiteTells == program = "shipped" => (Failing(Len(Suites[program])) # {} <=> lost \in Noticed)

\* The suite and the showcase end as they should, on every build, if the vectors taken
\* one by one at the start do: what a vector is worth is a matter of its own contents.
THEOREM SuiteVerdict == RunnerSpec /\ SuiteTells => []SuiteNotices
  <1> DEFINE Inv == RunnerInv /\ SuiteTells
  <1>1. RunnerInit => RunnerInv
    BY DEF RunnerInit, RunnerInv, Failing, Delivered
  <1>2. Inv /\ [RunnerNext]_runnerVars => Inv'
    <2> SUFFICES ASSUME Inv, [RunnerNext]_runnerVars PROVE Inv'
      OBVIOUS
    <2>1. RunnerInv' /\ program' = program /\ (program # "showcase" => Same)
      BY RunnerKeeps
    <2>2. CASE program = "shipped"
      <3>1. Same
        BY <2>1, <2>2
      <3>2. \A n : Failing(n)' = Failing(n)
        BY <2>1, <3>1, CountsStay
      <3> DEFINE all == Len(Suites[program])
      <3>3. all' = all
        BY <2>1
      <3>4. lost' = lost
        BY <3>1 DEF Same
      <3>5. Failing(all)' = Failing(all)
        <4> SUFFICES ASSUME NEW n, n = all, n = all' PROVE Failing(all)' = Failing(all)
          BY <3>3
        <4>1. Failing(n)' = Failing(n)
          BY <3>2
        <4> QED
          BY <4>1, Zenon
      <3> QED
        BY <2>1, <2>2, <3>4, <3>5, Zenon DEF SuiteTells
    <2> QED
      BY <2>1, <2>2 DEF SuiteTells
  <1>3. Inv /\ (Ended /\ program = "showcase" /\ lost = "nothing" => failed = {}) => SuiteNotices
    BY DEF RunnerInv, Ended, SuiteTells, SuiteNotices
  <1> QED
    BY <1>1, <1>2, <1>3, ShowcaseAsAnnounced, PTL DEF RunnerSpec

=============================================================================
