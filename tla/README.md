# A2G in TLA+

A2G decides whether an AI agent may use a tool and enforces the decision.  A
pure pipeline (`a2g-core`) turns a signed mandate and a request into a verdict;
the CLI (`a2g-cli`) records verdicts in a SQLite ledger and manages mandates,
delegations and proposals; the enforcing gateway (`a2g-gateway`) is a separate
process that checks signed receipts again, keeps the queue of requests waiting
for a human, and alone writes to the vehicle bus; an MCP proxy
(`a2g-mcp-proxy`) puts an agent's tool calls through both.

This directory holds TLA+ modules translated from that code, the TLC
configurations that check them, and theorems about them proved with TLAPS.
`PROJECT.json` says for every definition which lines it models, and lists the
runs, the hazards they are aimed at, the faulty variants (below) and the
theorems.

## Inventory

| Component | State | Operations | Talks to | What makes it correct | Module |
|---|---|---|---|---|---|
| Gateway server, `a2g-gateway/src/server.rs` | one thread, one request at a time | SignBinding, SubmitGrant, Enforce | clients over a Unix socket, the bus | one approval backs at most one frame; no frame without a grant; a receipt is enforced once; every request it can quote is answered | `Gateway` |
| Pending queue, `pending.rs` | entries, nonce ring, high-water mark, startup gate, snapshot file | insert, approve, remove, expire, record_nonce, load, save | the gateway | the file equals memory between any two steps; the mark covers everything admitted; the ring covers the freshness window | `PendingQueue`, `ApprovalLifecycle` |
| State ingestion, `state_ingest.rs`, `bus.rs` | last speed and gear, their counters and times | ingest a frame, read the state | a CAN reader thread, the gateway's re-gate | state is believed only while both signals are fresh; a stuck sender ages out, a live one is heard | `StateIngest` |
| Ledger, CLI `ledger.rs`, `enforce`, `revoke` | SQLite tables | enforce_and_record, revoke, count_recent | concurrent CLI processes | the hash chain is never broken; a revoked mandate is refused; the rate limit; a command counts as one step | `Ledger`, `DecisionLog` |
| Proposals, `proposal.rs`, CLI `propose`, `review`, `sign` | a JSON file | create, review, check for signing | several reviewers, the signer | enough distinct approvals before signing; a rejection is final; no review is lost | `Proposal` |
| Decision pipeline, `a2g-core/src/enforce.rs`, `mandate.rs`, `hitl.rs` | none | decide, decide_with_approval, verify | the ledger (read only) | what is out of reach stays out of reach; an approval lifts the question for a human and nothing else; a path's spelling does not matter | `Decide` |
| Tool classification, `vehicle.rs`, `cockpit.rs` | none | classify a tool, judge a vehicle state, convert a speed | the pipeline | nothing opens but at rest | `Tools` |
| Authority, `authority.rs`, CLI `authority-root`, `delegate`, `revoke-delegation`, `enforce --authority-chain` | delegation files, revocations, authority log | delegate, verify_chain, check_issuer_trust | the pipeline's trust anchor | a delegate never has more than its grantor; no delegation outlives the revocation of its parent; the log claims only what happened | `AuthorityOps`, `Authority` |
| C interface, `a2g-ffi` | the handles a host holds | two-phase decide, verified state, free | a host process, the pipeline | an unusable argument never opens anything | `Callers` |
| MCP proxy, `proxy.rs`, `governance.rs`, `transport.rs` | the stdio streams, one message in hand | dispatch a JSON-RPC message | agent, downstream server, gateway | nothing is forwarded that was not enforced; what the agent is told stays true; no effect is lost silently | `McpProxy` |
| Conformance runner, showcase, `a2g-conformance`, `a2g-demo`, the gateway's client | a directory of vectors; a gateway of their own | run a vector, a beat | pipeline, client, gateway | the suite notices a build that lacks a check; one lost check alone opens nothing | `Conformance` |
| Reports, `trust_summary.rs`, `lineage.rs`, `visual_receipt.rs`, CLI `audit`, `verify-lineage`, `visual-receipt`, `compress`, `verify-summary` | none but the summary file | several reads of the ledger | the ledger, beside `enforce` | intact hides no loss but from the end of the file; a lineage is the true ancestry | `Reports` |
| Output filter, identity, keys, wire framing, test harness, legacy crate | | | | | not modelled |

What is hard here: crashes and restarts of the gateway, retries by clients
whose answer was lost, clocks and freshness windows, a reader thread beside the
server thread, independent CLI processes on one database or one file, saves
that fail, a proxy between three parties any of which may be late or gone.

How the parts meet.  `Gateway` takes the outcome of the state re-gate as any of
the views in `CanViews` at the instant of the check; `StateIngest` says when
each of them can occur (its `ReGate` is the same lines of `server.rs`).  A
signed mandate out of `Proposal` is what `Ledger`'s processes enforce; they
share nothing else.  A receipt out of `Ledger`'s `enforce` is what clients
present to `Gateway`; between the two lies the client, which may present
anything it holds as often as it likes, so `Gateway` admits every order.
`McpProxy` has one such client in full and reduces the gateway to what that
client sees: a call is put into effect or not, perhaps long after the client
has given up.  `Decide` is the pipeline all of them call: `Callers` puts the
host process and the command line around it, `Conformance` composes it with the
client's receipts and the gateway's checks, and `AuthorityOps`, the rules of
chains, is the same module under `Decide` and under the commands of
`Authority`.  `Reports` reads the rows `Ledger` appends, whose transaction it
takes as one step; that this is allowed is what `Ledger` implementing
`DecisionLog` says.

## Modules

### `PendingQueue`, `Gateway`: the enforcement boundary

`PendingQueue` has the operations of `pending.rs` as operators on values: the
queue (`Insert`, `Approve`, `Remove`, `Expire`), the nonce ring and its
high-water mark (`RecordNonce`, `RaisedHwm`, `HwmGateUp`), and the snapshot file
(`SaveOver`, `SaveIfChanged`, `Readable`, `LoadedEntries`).  A save may fail and
is then only logged; the file is replaced by a rename, so it holds the old or
the new contents.  `Gateway` holds the state and has one action per outcome of
a request.

| Variable | Code |
|---|---|
| `entries`, `nonce_ring`, `nonce_hwm_ms`, `loaded_from_prior_session` | the fields of `PendingQueue` |
| `disk` | the file of `--queue-persist` |
| `stage`, `receipt` | how far `handle_enforce` is with the receipt in hand; "down" between two processes |
| `response` | the last `GatewayResponse` |
| `admitted`, `session`, `done`, `granted`, `credit` | history: receipts past step 5 ever and in this process, frames written, bindings granted, grants not yet spent |

`handle_sign_binding` and `handle_submit_grant` mutate the queue and save in one
go and are one action each (`SignBinding`; `RefuseForeignGrant`, `RefuseGrant`,
`AcceptGrant`).  `handle_enforce` saves twice with further checks between, so
it is cut at the saves: `AdmitReceipt` (steps 1 to 5, ends with the nonce
recorded), `MatchReceipt` (steps 6 and 7, ends with the binding removed),
`WriteFrame` or `RefuseState` (attestation, re-gate, bus).  A `Crash` may come
between any two, and the clock may move.  A crash between the mutation of memory
and the save is the crash before it, since memory is lost either way; a frame
on the bus whose answer is lost is a crash after `WriteFrame`.

Two refusals quote the first eight characters of a text the peer sent
(`server.rs:376`, `:234`).  Of a receipt's `request_hash` and a grant's
`approver_pubkey` the model tells the right one, a wrong one, and one too short
to be quoted (`Texts`): the last ends the accepting thread with a panic and no
answer (`PanicOnMatch`, `PanicOnGrant`), which loses memory like a crash
(`GoDown`).  What a client puts into a binding is not checked by
`handle_sign_binding` at all, and a constant of the binding here.

`ApprovalLifecycle` is what SPEC 9.7 promises of an approval: queued, approved,
reserved by one receipt, spent by one frame, forgotten at any time and never
given back.  `Gateway!Lifecycle` maps the gateway to it; while it is down, the
unexpired part of the file stands for the queue.

Restarts matter for deployments with `--production --keystore`, where the
gateway keeps its keys and receipts stay valid across them.

### `Ledger`: CLI processes on one database

An `enforce` process reads the revocations, decides, and appends its receipt in
one `BEGIN IMMEDIATE` transaction; `revoke` and `revoke-delegation` insert rows.
Every statement outside a transaction is one action; the write transaction is
`Begin`, `Link`, `Insert`, `Commit`, during which `writer` holds the lock.
`LockTimeout` is `busy_timeout`; `Abandon` is death or an error at any place.
The remaining rules of the mandate are the free choice in `CheckPolicy`.

| Variable | Code |
|---|---|
| `decisions`, `revocations`, `authority_log` | the tables, committed rows |
| `writer` | SQLite's write lock |
| `pc`, `next`, `verdict`, `prev_hash`, `staged` | one process: where it is, the delegation it looks up next, its verdict, `PREV_HASH`, the row not yet committed |
| `revokedAtOpen`, `seen` | history |

`DecisionLog` is what the ledger promises of `enforce`: a command opens the
ledger, may count its agent's calls, records one decision at the end of the chain
and answers what it recorded, each in one step, or gives up without an answer at
any moment.  `Ledger!Log` maps the processes to it: `decisions` and `revocations`
are what they are; a command is open from its look at the revocations on, counted
when its verdict came from the count, and has ended when it has printed, timed
out or died.  All statements of all other commands lie between the steps of the
promise, which is therefore as weak as the code: the count may be old when the
row is written (`seen`), and a revocation that came after the command opened
need not be heeded (`known`).

### `StateIngest`: the reader thread and the re-gate

The vehicle moves, two senders put counted frames on the bus, frames get lost,
repeated, damaged, or wait in the socket's buffer.  The reader opens the socket
or is gone (`OpenSocket`), takes a frame and a time stamp (`ReadFrame`), and
stores or rejects it under the mutex (`AcceptFrame`, `RejectFrame`).  The server
takes its stamp (`AskState`) and then reads both signals under the mutex
(`ReGate`).  The two stamps are taken before the mutex is asked for, so they
may be in the other order than the critical sections.

| Variable | Code |
|---|---|
| `value`, `counter`, `last_at` | `IngestInner`, per signal |
| `reader`, `held`, `held_at` | the reader thread with the frame and stamp in its hands |
| `asked`, `outcome` | the re-gate in progress and its last result |
| `vehicle`, `sent`, `socket` | the environment: true state, last frame of each sender, receive buffer |
| `parked_at`, `heard_seq`, `heard_at`, `used`, `turned_away` | history |

### `Proposal`: reviewers of one file

`propose` writes a JSON file; each `review` reads it, adds a review to its copy
and writes the copy back; `sign --proposal` reads and checks it.  Nothing locks
the file.  `std::fs::write` is two steps (`Truncate`, `WriteBack`): it empties
the file and then fills it from offset 0, so two overlapping writers can leave
the rest of the longer text behind ("garbled").  A command may die anywhere
(`Abandon`); one that dies between the two steps is "cut".  Since the file is
plain JSON, its deadline may be edited to something that is no time
(`EditDeadline`): a review then refuses, while a signing passes over it
(`MaySign`).

| Variable | Code |
|---|---|
| `file` | the proposal file: a proposal, absent, empty or garbled |
| `copy`, `pc` | the `Proposal` each command has in memory, and where it is |
| `log` | reviews with their `proposal_reviewed` event |
| `signed` | signings that wrote a signed mandate |
| `written`, `base`, `emptier` | history: reviews written so far, what was written when a review read, who emptied the file last |

### `McpProxy`: the loop between agent, gateway and tool server

`run_proxy` reads the agent's messages one at a time.  A `tools/call` is decided
(`Decide`), presented to the gateway (`EnforceAnswered`, `BindingAnswered`), and
if it was put into effect sent to the server (`Forward`), whose next message is
taken for the answer (`Receive`).  Other methods go straight to `Forward`.
Every wait is a stage of `pc`, so the agent, the gateway and the server act in
between.  `Present` is the attempt to reach the gateway, `GatewayTimeout` the
five seconds of `client::send_request`; both end like a lost answer, since
`send_gateway_request` catches the panic.  A request that was written stays in
`backlog` and is served even if nobody waits for it.  The server may fail a
call, say something of its own accord (`ServerSpeaks`) and exit.  When the
agent is gone, a write may fail and end the loop (`Respond`).  The receipt goes
into the server's result if that is an object, replaces a missing one, and is
left out of any other (`Relayed`).

| Variable | Code |
|---|---|
| `stdin`, `answers`, `closed`, `sent` | the agent's pipes |
| `pc`, `req`, `reply` | the stack of `run_proxy`: where it is, the message in hand, what `send_gateway_request` has returned |
| `backlog`, `enforced`, `queue`, `approved` | the gateway: requests on its socket, calls in effect, bindings queued, grants given |
| `toDown`, `fromDown`, `downUp`, `received`, `chatter` | the server's pipes and process; the calls it was sent and how often it spoke unasked |
| `expired` | whether `now` is past the mandate's end |

### `AuthorityOps`, `Authority`: delegations

`AuthorityOps` has the rules as operators: `validate_scope_subset`, `delegate`
(`MayDelegate`, `ChildDelegation`), `verify_chain`, `compute_effective_scope`,
`check_issuer_trust`.  `Authority` has the commands that write delegation files
and revocation rows.  Each takes effect first and logs second (`unlogged` holds
what is still to be logged); one that dies in between leaves no log entry.  The
state space is every tree of delegations, and the invariants quantify over
every chain that can be put together from the files.

A signature is that of a key on the hash the file states: `verify_delegation`
does not compute the hash again, nor compare the stated key with the grantor's
name, and `delegate` does not verify the parent file at all.  So `Edit` may keep
a copy of any delegation with one field changed, under the old hash, and
`Delegate` and the chains take it like the original.  `genuine` (history) is the
set of files nobody edited, whose parents nobody had edited either when they
were written; what the properties promise, they promise of those.

### `Tools`, `Decide`, `Callers`: the pipeline and who calls it

`Tools` classifies tool names (as sequences of segments), judges a vehicle
state and converts speeds.  `Decide` is the pipeline: `Checks` is the list of
all checks of `decide_core` in their order, each a guard with its verdict, and
`decide` the first that fires; `decide_with_approval` puts `ApprovalChecks` in
front and skips the escalation.  `Callers` gives it its two callers: a host of
the C interface, which keeps bindings and grants and may use them late or with
another call, and the commands `enforce`, which resolves the path first, and
`verify`, which looks at the end of a mandate in whole seconds.  `RealPath` is
what opening a path leads to; `enforce` asks for it after the dot segments have
been removed.  The pipeline keeps no state, so what varies is what is handed in,
when, and with which approval.

| Variable | Code |
|---|---|
| `bindings`, `grants` | what the host has from earlier verdicts and from humans |
| `verdict` | the verdict handle, with the arguments of its call |
| `now` | the clock both phases read |

### `Conformance`: the programs that show the parts together

The runner takes the vectors of a directory one by one (`RunVector`), the
showcase its four beats.  Both sign receipts as a client does and present them
to a gateway of their own, whose steps are `VerificationSteps` in their order.
`lost` names one check the build lacks, or nothing: the question put to the
suite is which of the 36 losses it notices.  The suite of the model has the 66
distinct rows of the 76 vectors on disk.

| Variable | Code |
|---|---|
| `program`, `done`, `failed` | which program runs, how far it is, what went otherwise than announced |
| `gw`, `bus` | the gateway's nonces, queue and grants; frames written |
| `lost`, `wall` | the build under test, the clock at the start |

### `Reports`: commands that read the ledger

One command runs beside appends (`enforce_and_record`, the transaction of
`Ledger`, with a clock that may be set back) and a row that goes missing (`LoseRow`); each of its statements is an
action.  `audit` lists rows, from which the receipt of the next two commands is
taken; `verify-lineage` looks up one parent after the other; `visual-receipt`
reads the receipt, its lineage and the whole chain; `compress` counts and then
reads a window, and `verify-summary` gets the file, maybe with one field
altered.

| Variable | Code |
|---|---|
| `decisions`, `present` | every row ever committed, and the seqs the file still holds |
| `command`, `pc`, `receipt`, `lineage`, `want`, `output` | the command: where it is, what it was asked, what it has found, what it printed or wrote |
| `history` | history: what each row found in the file when it was appended |

### Other files

`MC*` modules give the constants their values; `GatewayProofs`, `LedgerProofs`,
`StateIngestProofs`, `ProposalProofs`, `McpProxyProofs`, `AuthorityProofs`,
`ReportsProofs` and `PipelineProofs` (about `Callers` and `Conformance`) hold
the theorems.  `Conformance` calls its specification `RunnerSpec`, so that one
module can speak of both.  An operator whose name ends in `Slip` (or
`Early`, `Stuck`, `Open`, `Rising`, `Again`, `Any`, `Only`) stands before the
one it is a faulty variant of.  No specification uses it: it takes the other's
place to see that a property notices.

## Runs

| Run | Instance | What it shows |
|---|---|---|
| `gateway_persist` | one binding, receipts of both phases and of a Sensitive tool, one that cannot be quoted, ring of 3, 3 ticks, one crash, fair | the file mirrors memory; one approval backs one frame; after a restart the gate lets only the newest earlier receipts through; the gateway refines `ApprovalLifecycle`; every admitted request whose hash can be quoted is answered |
| `gateway_faults` | saves and loads fail at will, receipts that each check turns away, three nonces in one window and two after it, ring of 3, no ingest | no frame without a grant; a ring that holds a window's receipts drops none that is fresh, though it evicts; no receipt passes twice within a process |
| `ledger_appends` | three enforcers of one agent, limit 1, window 1 tick | the chain is whole, printed means recorded once, the limit is overrun only by overlap; the processes implement `DecisionLog` |
| `ledger_revocations` | two enforcers, one with a chain of two delegations, three revokers, fair | an earlier revocation denies; every command ends |
| `state_ingest` | alive counter modulo 2, buffer of 1, one stuck speed sender, three gear frames, noise | the gate opens only after a real Park; stuck senders age out; live ones are heard |
| `proposal_reviews` | alice reviews twice, bob once, one signing, 2 approvals, an edited deadline | what is signed was approved by enough people; the status follows from the reviews; work is lost, and the file unreadable, only by overlap or death |
| `mcp_calls` | calls of every verdict, other methods, three messages, one unasked server message, fair | only calls in effect reach the server, once; what the agent is told stays true; no effect is lost silently; an answer is its own unless the server spoke unasked; the loop never hangs |
| `authority_chains` | two keys, three delegations, one revocation, one file edited, ticks of an hour | grants shrink along the tree of unedited files; a mandate that passes stays within every authority of the unedited end of its chain and the one above; no unedited delegation passes whose parent is revoked; the log claims nothing that did not happen, and nothing twice |
| `callers_phases` | two bindings, one grant, two seconds in four ticks, every kind of call | nothing opens but at rest, at 5 km/h to the millimetre; what is out of reach stays so, what needs a human gets one in time; an approval lifts only the question; spelling does not get around a denied path; `verify` agrees with the pipeline but for a mandate's last second |
| `conformance_suites` | the vectors, two programs, 36 builds | which lost checks the suite notices, exactly; no single lost check puts a forbidden tool on the bus through a decided receipt |
| `reports_reads` | three rows of two agents, one lost, any time stamps, one command | a verified summary or visual receipt that says intact shows what each of its rows found, so a loss it hides is of rows gone from the end before the next append; a lineage is the true ancestry |

One run checks what a document says and is expected to be violated:

| Run | Says | What happens |
|---|---|---|
| `gateway_binding_reuse` | SPEC.md:1160, not consumable more than once | the consumed binding and its unexpired grant are presented again and make a second frame possible |

### Disagreements without a run

Further sentences of the documents are stated as properties beside the others
and have no run here.  TLC refutes each in seconds when it is named in a
configuration of its module (`Gateway_persist`, `Proposal_reviews`,
`McpProxy_calls`, `Authority_chains`, `Callers_phases`, `Conformance_suites`):

| Property | Says | What happens |
|---|---|---|
| `Gateway!OlderSessionStaysRejected` | `pending.rs:11-12`, the mark closes the replay window | the first newer receipt drops the startup gate; an older receipt of the earlier process that is still fresh passes again |
| `Gateway!ExpiredBindingRejected` | SPEC.md:1131, non-expired entry | `Enforce` does not expire the queue: a binding past its deadline is consumed |
| `Gateway!EveryMismatchAnswered` | `server.rs:371-379`, a mismatch is refused with a reason | a receipt signed with a hash shorter than eight bytes is admitted, and its refusal panics: no answer, and nobody accepts any more |
| `Proposal!RejectedIsNeverSigned` | `main.rs:1480`, "REJECTED — mandate cannot be signed." | an overlapping approval writes the file back without the rejection; the mandate is signed |
| `McpProxy!ApprovedRetryPasses` | `proxy.rs:201`, "retry after approval with binding_id" | nothing takes the binding or the grant of a retried call: it is escalated again with a new binding (in an instance with two calls for one such tool) |
| `McpProxy!RelayedCallsCarryReceipt` | docs/adr/0020-mcp-proxy.md:80, the result with `receipt_id` in `_meta` | a result that is not an object is relayed without it |
| `Authority!PassingIsUnedited` | `authority.rs:68`, the hash covers all fields | the hash is taken from the file and never computed again: an edited file passes |
| `Authority!RateWithinEffectiveScope` | `authority.rs:5-6`, only within its own scope | 70 hundredths of a rate of one is zero, which means no limit |
| `Callers!NoDeniedTarget` | `enforce.rs:823-826`, resolving first prevents escapes through links | `..` is removed before links are followed: of `/ws/link/../key` another place is judged than is opened |
| `Callers!ReplayReproduces` | README.md:57, reproducible and replayable | the chain and the hours are checked against the machine's clock, not the moment handed in |
| `Callers!RejectedReadingDenies` | DETERMINISM.md:56-57, fail-safe DENY | an unusable reading becomes no state at all, which the Comfort tools do not ask for |
| `Callers!GrantAuthorizesItsAction` | `hitl.rs:30-33`, a grant for A cannot authorize B | the request of Phase 2 is compared with neither binding nor grant; only the gateway's request hash ties them |
| `Conformance!SevenStepsNoticed` | CONFORMANCE.md:147, the suite covers the seven steps | no vector notices a gateway that does not verify the signature |

Others, which one line decides or a property that holds already tells: calls that overlap are all counted
before any is recorded, so a window holds more than `max_calls_per_minute`
(SPEC.md:405), by at most what `OverrunIsOverlap` says; the mark is compared with `<` (`server.rs:357`) where `pending.rs:10-11`
says a receipt must exceed it; a full ring evicts a nonce that is still fresh
(`pending.rs:172`) where SPEC.md:1121 has the ring cover the window; a failed
save is only logged (`pending.rs:292`); a `max_calls_per_minute` of zero denies
every call (`enforce.rs:805`) where SPEC.md:632-633 lets it pass; an expired
Phase 2 approval answers DENY, not EXPIRED (`enforce.rs:275`, SPEC.md:1161); the
DENY for a revoked delegation leaves no row (`main.rs:910`) where README.md:215
says every enforce call writes a receipt.

In the MCP proxy: every other method is passed on (`proxy.rs:99`), where
ADR-0020 names the handshake, `tools/list` and `tools/call`; its answer is
awaited without a time-out, so a server that rightly does not answer some
notification stops the loop; an escalation the gateway never heard of is still
an escalation (`governance.rs:207`), where ADR-0020 has `gateway_unreachable`;
an unmapped tool becomes `unmapped.<tool>` and is denied, where the crate's
README has it escalated; an allowed call that fails at the server is answered
with an error and a result at once (`proxy.rs:158-161`); `NoopLedger` keeps
revocations and the rate limit from the proxy.

In the pipeline and its callers: in the last second of a mandate `verify` says
expired (`mandate.rs:379-380`) and the pipeline passes (`VerifyAgrees` says it is
no more than that); a mandate with operating hours that cannot be
parsed, or are reversed, is signed and verifies, but every decision under it is
an error; null or non-UTF-8 parameters of the C interface count as `{}`; the FFI
error handle stores a DENY while the call returns an error code; a missing
`vehicle_state` in `enforce` is the fail-safe, a field missing in `state_sim` is
not.  In the runners: an unknown gear in a vector is Park; the first beat of the
showcase signs without looking at the verdict; `test_harness.rs:58` expects
ESCALATE where decisions print PENDING_APPROVAL; CONFORMANCE.md counts 54
vectors, 76 are there.  The shipped suite does not notice the loss of the
mandate's parsing, of the ledger's error, of revocation and rate limit, of
malformed hours, of the pending request's deadline, of the gateway's own cockpit
list and binding rule, or of the signature of a well-formed receipt.

In the reports: a summary of an agent whose decisions alternate with another's
is never intact, since the chain runs over all agents; the summary's hash leaves
out the rules hit, the levels, the issuers and the issuer's name, where
`trust_summary.rs:205` says everything but signature and hash, and damage there
verifies; rows lost from the end of the
ledger are never missed, not even once further rows are appended after the
loss; a lineage cut at the
depth limit or at a missing parent still counts as complete; the text form
panics on a parent given with fewer than 16 characters (`main.rs:1846`); a
PENDING_APPROVAL has severity LOW because the renderer asks for ESCALATE.

### Bounds, and why they are enough

`MaxTime`, `MaxCrashes` and `MaxSeq` stop the clock, the crashes and the
senders; nothing in the code depends on their values.

* Gateway.  A tick is the freshness window, so three ticks let a receipt be
  early, fresh, late and long past, and a binding expire (at tick 3) before
  and after its grant.  One crash suffices for every property that speaks of one
  earlier process; a second one adds nothing to the file that the first did
  not.  One binding suffices for `ImplementsLifecycle`, since no operation on an
  entry looks at another; the theorem covers any number.  In `gateway_faults` the ring of 3 is what one window's
  receipts fill; two more after the window make it evict, and with a ring of 2
  TLC refutes `RingCoversWindow`.
* Ledger.  With three appenders a row can come between what another one read and
  wrote while a third waits for the lock; limit 1 is reached by the second call.  A chain of
  two and two revocations of one delegation reach the look-ups in between and
  the UNIQUE failure.  `ImplementsLog` is checked where three commands append and
  nobody revokes; that it holds with revocations as well is the theorem.
* StateIngest.  A modulus of 2 comes round after two lost frames, as 15 does
  after fifteen; three gear frames go round once and one further.  A freshness
  window of zero ticks and one tick of clock tell fresh from stale; a buffer of
  one frame already delays a frame past a tick.
* Proposal.  Two approvals needed, three reviews, one reviewer twice: enough for
  a lost update, a repeated reviewer, a decided proposal and a garbled file.
  The deadline is one tick away.  The two runs of the repeated reviewer differ in
  nothing, so exchanging them is a symmetry.

* McpProxy.  Three messages let one be in hand while the next waits and a third
  was answered before; each exchange is independent of the earlier ones but for
  the shift in the server's pipe, which one unasked message already makes.
* Authority.  Three delegations make a chain of three levels, two chains with a
  common root, or two roots to mix.  A tick is an hour: a root lives two, a child
  one, and one tick passes.  One revocation suffices, since each is looked up
  alone; one edit makes every file that differs in one field.  No chain with more
  members than there are levels passes.
* Callers.  Two bindings let one be answered with the other's grant; four
  ticks of half a second pass both the binding's end (2) and either grant's (1, 3),
  and reach the last second of a mandate.  The calls
  have at least one mandate, tool, parameter, state and ledger for every check
  of the pipeline to fire.
* Conformance.  The suite is the shipped one; the start times lie inside and
  outside the hours the vectors name.
* Reports.  A gap needs three rows, of which the middle one is missing, lost
  before or after the third was appended; three
  hashes make the odd leaf of the Merkle tree.  Depths of 2 and 1 stand for 10
  and 5.  A command is followed until it ends, since nothing it leaves is read
  by another but the summary.

Deadlock is not checked where the system may stop: the ledger and proposal
commands end, the proxy ends with its agent, and the clocks, files and rows of
`Authority`, `Callers`, `Conformance` and `Reports` run into their bounds.

### Fairness

`gateway_persist` assumes weak fairness of `Finish`: the one server thread runs
an admitted request to its end unless the process dies; no step of it waits for
another request.  Clients, the clock and restarts get none.
`ledger_revocations` assumes weak fairness of each process's own steps,
including `LockTimeout`: the operating system runs a started process, and
SQLite's busy handler gives up after its time-out.  `mcp_calls` assumes weak
fairness of the loop, including its time-out, and of a server that runs taking
what it was sent; it assumes none of the gateway, whose silence the time-out
bounds, nor that the agent closes its end.

## Theorems

Each holds for all constants that satisfy the modules' `ASSUME`s.

| Module | Theorem | Says |
|---|---|---|
| `GatewayProofs` | `TypeCorrect` | types, ring within capacity, stage and receipt agree |
| | `HwmBounded` | the mark is at most a window ahead of the clock |
| | `GrantBacksFrame` | no frame without a grant, whatever the disk does |
| | `ApprovalUsedOnce` | `~DiskFaults`: a Phase 2 frame spends a grant accepted since the last |
| | `SnapshotIsCurrent`, `MarkCoversHistory`, `GateStopsOlder` | `SaveWorks`: file mirrors memory, mark covers history, startup gate |
| | `RingRemembersTheFresh`, `NoRepeatInSession` | `RingSuffices`: the ring holds every fresh nonce of this process; a receipt passes twice only across a restart |
| | `GatewayImplementsLifecycle` | `SaveWorks`: the gateway implements `ApprovalLifecycle` |
| `LedgerProofs` | `TypeCorrect`, `ChainAlwaysIntact`, `PrintedAlwaysRecorded`, `RevocationIsHonoured`, `RateOverrunBounded` | the safety properties of the ledger runs |
| | `LedgerImplementsLog` | the processes implement `DecisionLog`, any number of them, with revocations, time-outs and deaths |
| | `NoCommandGoesOn` | each step of a command uses up one of finitely many, and nobody else's adds any |
| `StateIngestProofs` | `TypeCorrect`, `GateShowsRecentPark`, `StuckSenderAgesOut`, `LiveSenderHeard` | the properties of `state_ingest`, for any modulus, window and buffer |
| `ProposalProofs` | `TypeCorrect`, `SignedIsReviewed`, `StatusIsEarned` | types, enough distinct approvals behind every signature, status follows from the reviews |
| | `ReviewsKept`, `ReadableUnlessInterrupted` | a review is lost only by overlap; the file is empty only while its last emptier is at its write or was cut there, garbled only by overlap |
| `McpProxyProofs` | `TypeCorrect`, `NothingPassesUnenforced`, `AgentIsToldTheTruth`, `NoEffectIsLost` | types; only calls in effect reach the server, once; what the agent is told stays true; no effect is lost, for any messages and verdicts |
| | `AnswersAreOwn`, `ShiftIsForGood` | an answer is its own while the server only answers; each message sent unasked shifts the later answers by one for good |
| `AuthorityProofs` | `TypeCorrect`, `DelegationsShrink`, `AdmissionNeedsWholeChain`, `AncestorsHold`, `LogIsTruthful` | the properties of `authority_chains`, for any actors, tools, arguments, edits and length of chain |
| `ReportsProofs` | `LineageIsTrue`, `HiddenLossesAreEnds` | the properties of `reports_reads`, for any rows, losses and depths |
| `PipelineProofs` | `OnlyEscalationLifted`, `HumansDecide`, `RestToOpen`, `VerifyAndPipelineAgree`, `SpellingsDecidedAlike` | the properties of `callers_phases`, for any mandates, requests, sensors, trust anchors, ledgers and times |
| | `NoSingleLossOpens` | `DefenseInDepth` for any vectors and any lost check |
| | `ShowcaseAsAnnounced` | on the build as it is, the four beats end as announced, whatever the start and the pauses |
| | `RunnerReports` | for any vectors: the runner reports those that fail by themselves and no other |
| | `SuiteVerdict` | `SuiteNotices`, if at the start the vectors, taken one by one, fail on the builds they should |

Hypotheses.  `SaveWorks == Persistent /\ ~DiskFaults`: the queue is persistent
and no save or load fails.  `RingSuffices`: for every receipt, the nonces of the
receipts stamped within two windows of it either way fit into the ring.  The
code's ring has 4096 places and its window is two seconds, so this is the
statement that clients do not sign more than 4096 receipts in eight seconds.
A single window is not enough: the
clock may stand while receipts of its past and its future are admitted.  The
hypothesis counts every receipt that exists; `gateway_faults` shows the two
properties where only the nonces that can be admitted at one time fit.

Assumptions beyond types and bounds.  `CallsAssumption`: what callers hand in
has the fields the code reads, times and speeds are integers.
`SecondAssumption`: a second is one tick or more.  `ToolsAssumption`,
`SpellingsAssumption`: the properties' own tables (`ForbiddenTool`,
`KnownDomains`, `OpeningTool`, `HumanTool`, the pairs of spellings) say what the
documents say, without the code's classifier; the spellings of one path are
those with one normal form, so the theorem says that the pipeline looks at a path
in no other way, and the run that the normal form is the same for the spellings
of its instance.
`ApprovalTtlAssumption`: the life of a pending request is a natural number.
`RunAssumption`: the runners' clock shows natural numbers and goes forward, a
pending request lives for some time, and the absence of a vehicle state is none.
`SuiteVerdict` has a hypothesis about the start, `SuiteTells`: of the shipped
vectors, each run by itself, some fails exactly on the builds in `Noticed`.  That
is a fact about 66 records, which the run settles.  The theorem adds that order,
clock and what earlier vectors left behind change nothing, and that the showcase
ends well at any time.

The invariants the proofs rest on, and why the properties alone are not
inductive:

* `HwmInv` adds the mark in the file, which `Restart` reads.
* `GrantInv` and `CreditInv` follow an approval through memory, file and the
  receipt in hand; `CreditInv` also says that a binding in hand is in neither
  memory nor file any more, which is what a crash after the bus write needs.
* `MirrorInv` relates the mark to history through the file, since memory is
  empty while the gateway is down.  `ReservedInv` keeps a consumed binding out
  of the queue, so that the mapping never sees it twice.
* `LockInv`, `StageInv`: the write lock is held exactly in the transaction.
  `ChainInv`: the holder's previous hash is the last one.  `RowInv`: one row per
  process, staged with its verdict.  `TimeInv`: the staged row carries the
  latest time, as long as the clock is not set back, which `Ledger` leaves out.  `RevokeInv`: stage by stage, what an early revocation has
  already decided.  `RateInv`: the overrun of a call still on its way.
* `LogInv` says of a command on its way what the promise asks of its record: what
  it counted was within the limit if it is to be allowed, a denial for revocation
  has one, the staged row is whole.  `StepsLeft` gives each place of a command the
  number of statements still before it; `OthersKeepSteps` and `StepsRunOut` are the
  two halves of `NoCommandGoesOn`.
* `TruthInv`: every genuine frame anywhere shows the vehicle when it was made.
  `OrderInv`: frames of a sender are read in the order made.  `SettledInv`: the
  stored counter is that of the newest frame read, unless the reader still holds
  that one, so a repetition of it is turned away.  `TurnInv`: what lies between two frames with equal counters is a
  whole turn (`WholeTurn`).
* `ReviewInv`: every copy of the proposal, in the file or in a command's memory,
  is `Sound` (each reviewer once, the status its last review made it, nothing
  after a rejection) and shows only reviews that were written, apart from the
  one about to be.  Interleavings then do not matter, since every write replaces
  a sound proposal by a sound one.  `ReviewersCounted` turns counted approvals
  into counted people.
* `StageInv`, `BacklogInv`, `EffectInv`, `ServerInv`, `ToldInv`, `LossInv` follow
  a call from the agent's pipe on: it is in one place at a time, a request still
  on the gateway's socket is in hand or was reported as failed, and a reply says
  what the gateway did.  `AnswerStep` carries them over every answer the loop
  gives.
* `RingInv`: the ring's nonces are distinct, and a receipt of this process that
  is still fresh has its nonce in the ring, followed only by nonces of receipts
  stamped near it.  To evict it the ring would have to be full of such nonces
  and hold a further one, more than `RingSuffices` allows (`FullRing`, a
  pigeonhole).
* `HistoryInv` follows each review command: a copy, in memory or in the file,
  shows every review that was written before it was read, but those lost by
  overlap (`ExplainInv`); an empty file has an emptier that is at its write or was
  cut there, a garbled one two commands that wrote it and overlapped
  (`InterruptInv`).
* `CountInv`: what is in the server's pipe to the proxy, and what it still owes,
  is what it said unasked plus the one message in hand; so each message said
  unasked leaves one too many for good.  `OwnInv`: while it said none, what is in
  the pipes belongs to the message in hand.
* `AuthorityProofs!IInv`: hashes are fresh and name one genuine file each
  (`HashesFresh`), the parent of a genuine one is genuine (`ParentsKnown`), none
  has the empty set of tools that stands for all (`NothingUnrestricted`), an entry of the log is owed or written,
  not both (`LogOwedOnce`).  `AdmissionNeedsWholeChain` goes along the chain from
  its end by the least-number principle.
* `ReportsProofs!IInv`: each row's previous hash is that of the youngest row the
  file held (`TableOK`), a lost row stays lost (`LostForGood`), so that along the
  links of a report nothing one of its rows found is left out (`LinkedStretch`,
  `VerifiedChain`, by the least row that would), and a lineage under way is a path
  upwards that ends at `want` (`WalkOK`).  A summary's hash fixes the rows it was
  made of (`SummaryOK`); the Merkle root itself stays opaque and is only compared.
* `PipelineProofs!IInv` says of a verdict handle that its content is what the
  pipeline gave, at that moment, to the call it names, and of a binding that it
  was made from such an answer.  The work is in the operators: `FirstOf` of a
  list is the first check that holds (`FirstOfAt`, `FirstOfNone`, `FirstOfJoined`),
  so an ALLOW has passed them all (`CoreOutcome`, `ApprovalOutcome`).
* `DefenseInDepth` is inductive once a single receipt is understood: what the
  pipeline allowed, or the gateway wrote, in spite of a check has lost that very
  check (`AllowedMostly`, `EnforcedMostly`), and they do not lose the same one
  (`TwoLines`).
* `ShowInv`: as long as the showcase goes well, the gateway has seen the nonces of
  earlier beats only.  Each beat is then a walk through all checks of the pipeline
  and of the gateway (`BeatPasses`, `SignedIsEnforced`).
* `RunnerInv`: what the runner has counted is what its vectors say one by one.  A
  vector's outcome is a function of the build and the clock (`VectorStays`), since
  each makes its mandate, its receipt and its gateway anew.

Only model-checked: `RequestAnswered`, `EveryCommandEnds` and
`EveryRequestAnswered` (liveness under fairness is out of the prover's reach; of
the second, `NoCommandGoesOn` is the half that is a matter of safety); what each
of the shipped vectors says on each build (`SuiteTells`); and
`BindingConsumedOnce`, which is refuted.  Where a proof needs induction
along a chain, a list or a ring, it takes the least member of a set of numbers
(`LeastMember`); what a recursive function or a fold computes
(`merkle_root`, `canonicalize_path_logical`) is never unfolded, and the theorems
hold whatever it is.  No module uses a RECURSIVE operator.

## Abstractions

* Signatures, hashes and CRCs are a boolean of the message that carries them, or,
  for a delegation, the key and the hash they were made with: what is checked and
  in which order is modelled, not the arithmetic.
* Binding ids are fresh UUIDs, so the contents of a binding are a constant; the
  gateway signs whatever contents a client sends, and the constant stands for any.  A
  receipt's hash covers a fresh receipt id and is identified with its process;
  a review is identified with its command.
* In `McpProxy` the verdict on a call is a constant but for the mandate's expiry,
  and an agent's retry is a message of its own for the same tool.
* One clock serves all processes of a model, and but for `Reports` it is never set
  back; what `Ledger` says of the order of timestamps rests on that.
* The first opening of a ledger creates the tables; the models start after it.
* `duration_since` saturates at zero, as in `std`.
* A pattern for paths, hosts or commands is the set of what it matches; the glob
  matcher is outside.  The workspace root is empty.  The file, net and command
  scopes of a delegation are stored and copied but read by nothing in the code,
  and left out.
* A request's hash is the tuple that is hashed; a Merkle node is its pair.
* In `Conformance` the clock stands still while a suite runs, the runner's
  gateway has neither ingest nor attestation, as in the code, and the
  `known_failing` mark, which no vector carries, is left out.
* In `Reports` row i's receipt id and hash are i; the stamp of a row is any,
  since the clock may be set, and is compared as a number where SQLite compares
  RFC 3339 text; a summary's rates are left out, being ratios of
  its counts.
* A vehicle in Park is stopped, and a sender's new frame shows the state of that
  moment; a wrong sensor is outside.
* Of a gear only Park or not matters, of a speed only the side of
  `SPEED_GATE_MMPS`; of a proposal only status, reviews and deadline.

## Not modelled

Statistics counters, printing, layout and formatting; key files and the wire
framing; the bus behind the one step that writes a frame; the score of
`assess_risk`; `sign --skip-proposal`; `verify_review`; `append` and
`count_total` of the ledger, which only tests call; the listing of the authority
log; the signed attestation of a vehicle state (a flag in `Gateway`); the CAN
reader skeleton for QNX; the output filter, a pure function on text; identities
and encodings; the YAML conversions of `mandate_compile` and `test_harness`, whose
cases run the pipeline of `Decide`; the old single crate under `src/`, which no
workspace member builds.

## Plan

Done: every component above with its runs, every safety invariant of a passing run
as a theorem (`SuiteNotices` under `SuiteTells`), and the gateway's queue and the ledger shown to implement what
they promise.  What is left:

1. Composition of `StateIngest` with `Gateway`, in place of `CanViews`, with the
   theorem that a frame of a state-gated tool follows a recent Park.
2. An abstract specification of the proxy's loop (a call is asked, put into effect,
   answered) that `McpProxy` implements.
3. `Reports` beside `Ledger` itself instead of its transaction in one step.
