------------------------------ MODULE McpProxy ------------------------------
(***************************************************************************)
(* The MCP proxy between an agent and a downstream tool server             *)
(* (crates/a2g-mcp-proxy).  One loop takes the agent's JSON-RPC messages   *)
(* one at a time; a tools/call is decided, presented to the gateway and    *)
(* only then forwarded, everything else is passed on.  Each exchange with  *)
(* the server sends one message and takes the next one that arrives.       *)
(*                                                                         *)
(* The verdict on a call is a constant here, but for the expiry of the     *)
(* mandate; verdicts and bindings are named by the call they are for.  The *)
(* gateway is reduced to what the proxy sees of it: it accepts or refuses, *)
(* perhaps after the proxy stopped waiting.                                *)
(***************************************************************************)
EXTENDS Naturals, Sequences, FiniteSets

CONSTANTS
    Requests,       \* the messages the agent may send, each once
    Verdict,        \* what decide() says of a call while the mandate is in force
    NoRequest,      \* stands for no message
    MaxMessages,    \* bound on the messages the agent sends
    MaxChatter      \* bound on the messages the server sends of its own accord

Methods == {"initialize", "initialized", "tools/list", "tools/call", "other", "malformed"}
Decisions == {"Allow", "Deny", "PendingApproval", "error"}

ASSUME RequestsAssumption ==
    /\ NoRequest \notin Requests
    /\ \A r \in Requests : r.method \in Methods
    /\ Verdict \in [Requests -> Decisions]

ASSUME BoundsAssumption == MaxMessages \in Nat /\ MaxChatter \in Nat

VARIABLES
    sent,       \* messages the agent has written
    closed,     \* the agent has closed its ends of the pipes
    stdin,      \* written and not yet read by the proxy
    answers,    \* what the proxy has written to the agent, in order
    pc,         \* where the loop stands
    req,        \* the message it works on
    reply,      \* what the gateway connection has delivered
    expired,    \* the mandate's time is over
    backlog,    \* requests on the gateway's socket
    enforced,   \* calls the gateway has put into effect
    queue,      \* calls whose binding the gateway has signed and queued
    approved,   \* ... and the operator has approved
    toDown,     \* the server's standard input
    fromDown,   \* the server's standard output
    downUp,     \* the server runs
    chatter,    \* how often it has spoken of its own accord
    received    \* the calls it has been sent, in order (history)

agentVars == <<sent, closed, stdin>>
proxyVars == <<answers, pc, req, reply>>
gatewayVars == <<backlog, enforced, queue, approved>>
serverVars == <<toDown, fromDown, downUp, chatter, received>>
vars == <<agentVars, proxyVars, expired, gatewayVars, serverVars>>

\* What the server may say; the result of a "scalar" is not an object.
Message == [kind : {"result", "scalar", "error", "notification", "request"},
            of : Requests \cup {NoRequest}]
AnswerKinds == {"relayed", "denied", "escalate", "refused", "internal"}
Answer == [to : Requests, kind : AnswerKinds, of : Requests \cup {NoRequest},
           receipt : Requests \cup {NoRequest}, result : BOOLEAN, error : BOOLEAN]
Replies == {"none", "Enforced", "Refused", "SignedBinding", "Error", "failed"}
Stages == {"reading", "deciding", "enforcing", "binding", "forwarding", "receiving", "stopped"}

\* The variables keep to their sets.
TypeOK ==
    /\ sent \subseteq Requests /\ closed \in BOOLEAN /\ stdin \in Seq(Requests)
    /\ answers \in Seq(Answer) /\ pc \in Stages /\ req \in Requests \cup {NoRequest}
    /\ reply \in Replies /\ expired \in BOOLEAN
    /\ backlog \in Seq(Requests)
    /\ enforced \subseteq Requests /\ queue \subseteq Requests /\ approved \subseteq queue
    /\ toDown \in Seq(Requests) /\ fromDown \in Seq(Message)
    /\ downUp \in BOOLEAN /\ chatter \in 0..MaxChatter /\ received \in Seq(Requests)

Init ==
    /\ sent = {} /\ closed = FALSE /\ stdin = <<>>
    /\ answers = <<>> /\ pc = "reading" /\ req = NoRequest /\ reply = "none"
    /\ expired = FALSE
    /\ backlog = <<>> /\ enforced = {} /\ queue = {} /\ approved = {}
    /\ toDown = <<>> /\ fromDown = <<>> /\ downUp = TRUE /\ chatter = 0 /\ received = <<>>

-----------------------------------------------------------------------------
(* The agent, which may write ahead of the answers.                        *)

Send(r) ==
    /\ ~closed /\ r \notin sent /\ Cardinality(sent) < MaxMessages
    /\ sent' = sent \cup {r}
    /\ stdin' = Append(stdin, r)
    /\ UNCHANGED <<closed, proxyVars, expired, gatewayVars, serverVars>>

Close ==
    /\ ~closed
    /\ closed' = TRUE
    /\ UNCHANGED <<sent, stdin, proxyVars, expired, gatewayVars, serverVars>>

-----------------------------------------------------------------------------
(* The proxy.                                                              *)

\* An answer of the proxy's own, with neither a result nor a receipt.
Own(kind) ==
    [to |-> req, kind |-> kind, of |-> NoRequest, receipt |-> NoRequest,
     result |-> FALSE, error |-> TRUE]

\* The response is written; when the agent is gone the write may fail, which
\* ends the loop.
Respond(a) ==
    /\ req' = NoRequest /\ reply' = "none"
    /\ \/ pc' = "reading" /\ answers' = Append(answers, a)
       \/ closed /\ pc' = "stopped" /\ UNCHANGED answers

Governed(r) == r.method = "tools/call"

\* A message that does not parse is dropped without an answer.
ReadMalformed ==
    /\ pc = "reading" /\ stdin # <<>>
    /\ Head(stdin).method = "malformed"
    /\ stdin' = Tail(stdin)
    /\ UNCHANGED <<sent, closed, proxyVars, expired, gatewayVars, serverVars>>

\* The one message that is forwarded without waiting for the server.
ReadInitialized ==
    /\ pc = "reading" /\ stdin # <<>>
    /\ Head(stdin).method = "initialized"
    /\ stdin' = Tail(stdin)
    /\ toDown' = IF downUp THEN Append(toDown, Head(stdin)) ELSE toDown
    /\ UNCHANGED <<sent, closed, proxyVars, expired, gatewayVars,
                   fromDown, downUp, chatter, received>>

ReadRequest ==
    /\ pc = "reading" /\ stdin # <<>>
    /\ Head(stdin).method \notin {"malformed", "initialized"}
    /\ stdin' = Tail(stdin)
    /\ req' = Head(stdin)
    /\ pc' = IF Governed(req') THEN "deciding" ELSE "forwarding"
    /\ UNCHANGED <<sent, closed, answers, reply, expired, gatewayVars, serverVars>>

ReadEof ==
    /\ pc = "reading" /\ closed /\ stdin = <<>>
    /\ pc' = "stopped"
    /\ UNCHANGED <<agentVars, answers, req, reply, expired, gatewayVars, serverVars>>

decide(r) ==
    IF expired /\ Verdict[r] \in {"Allow", "PendingApproval"} THEN "Expired" ELSE Verdict[r]

\* The request to the gateway is on its way, unless the socket cannot be reached.
Present ==
    \/ backlog' = Append(backlog, req) /\ reply' = "none"
    \/ reply' = "failed" /\ UNCHANGED backlog

Decide ==
    /\ pc = "deciding"
    /\ \/ /\ decide(req) \in {"Deny", "Expired"}
          /\ Respond(Own("denied"))
          /\ UNCHANGED backlog
       \/ /\ decide(req) = "error"
          /\ Respond(Own("internal"))
          /\ UNCHANGED backlog
       \/ /\ decide(req) = "Allow"
          /\ pc' = "enforcing"
          /\ Present
          /\ UNCHANGED <<answers, req>>
       \/ /\ decide(req) = "PendingApproval"
          /\ pc' = "binding"
          /\ Present
          /\ UNCHANGED <<answers, req>>
    /\ UNCHANGED <<agentVars, expired, enforced, queue, approved, serverVars>>

GatewayTimeoutSlip ==   \* the connection has no read timeout
    FALSE /\ UNCHANGED vars

\* Five seconds without an answer look like a broken connection.
GatewayTimeout ==
    /\ pc \in {"enforcing", "binding"} /\ reply = "none"
    /\ reply' = "failed"
    /\ UNCHANGED <<agentVars, answers, pc, req, expired, gatewayVars, serverVars>>

EnforceAnsweredSlip ==   \* a broken connection counts as a refusal
    /\ pc = "enforcing"
    /\ \/ /\ reply = "Enforced"
          /\ pc' = "forwarding" /\ reply' = "none"
          /\ UNCHANGED <<answers, req>>
       \/ reply \in {"Refused", "Error", "failed"} /\ Respond(Own("refused"))
    /\ UNCHANGED <<agentVars, expired, gatewayVars, serverVars>>

EnforceAnsweredOpen ==   \* only a refusal holds the call back
    /\ pc = "enforcing"
    /\ \/ /\ reply \in {"Enforced", "failed"}
          /\ pc' = "forwarding" /\ reply' = "none"
          /\ UNCHANGED <<answers, req>>
       \/ reply \in {"Refused", "Error"} /\ Respond(Own("refused"))
    /\ UNCHANGED <<agentVars, expired, gatewayVars, serverVars>>

EnforceAnswered ==
    /\ pc = "enforcing"
    /\ \/ /\ reply = "Enforced"
          /\ pc' = "forwarding" /\ reply' = "none"
          /\ UNCHANGED <<answers, req>>
       \/ reply \in {"Refused", "Error"} /\ Respond(Own("refused"))
       \/ reply = "failed" /\ Respond(Own("internal"))
    /\ UNCHANGED <<agentVars, expired, gatewayVars, serverVars>>

\* The agent is told to wait for an approval even if the gateway was not reached.
BindingAnswered ==
    /\ pc = "binding"
    /\ \/ reply \in {"SignedBinding", "failed"} /\ Respond(Own("escalate"))
       \/ reply = "Error" /\ Respond(Own("internal"))
    /\ UNCHANGED <<agentVars, expired, gatewayVars, serverVars>>

ForwardSlip ==   \* a server that is gone is met without an answer to the agent
    /\ pc = "forwarding"
    /\ \/ /\ downUp
          /\ toDown' = Append(toDown, req)
          /\ received' = IF Governed(req) THEN Append(received, req) ELSE received
          /\ pc' = "receiving"
          /\ UNCHANGED <<answers, req, reply>>
       \/ /\ ~downUp
          /\ pc' = "reading" /\ req' = NoRequest
          /\ UNCHANGED <<answers, reply, toDown, received>>
    /\ UNCHANGED <<agentVars, expired, gatewayVars, fromDown, downUp, chatter>>

Forward ==
    /\ pc = "forwarding"
    /\ \/ /\ downUp
          /\ toDown' = Append(toDown, req)
          /\ received' = IF Governed(req) THEN Append(received, req) ELSE received
          /\ pc' = "receiving"
          /\ UNCHANGED <<answers, req, reply>>
       \/ /\ ~downUp
          /\ Respond(Own("internal"))
          /\ UNCHANGED <<toDown, received>>
    /\ UNCHANGED <<agentVars, expired, gatewayVars, fromDown, downUp, chatter>>

\* The server's message as the answer to req.  An allowed call gets its receipt
\* in the result; where there is no result, one is made to hold it, but a result
\* that is not an object goes on as it is.
Relayed(m) ==
    [to |-> req, kind |-> "relayed", of |-> m.of,
     receipt |-> IF Governed(req) /\ m.kind # "scalar" THEN req ELSE NoRequest,
     result |-> m.kind \in {"result", "scalar"} \/ Governed(req),
     error |-> m.kind = "error"]

ReceiveSlip ==   \* the wait is given up while the server's answer is on its way
    /\ pc = "receiving"
    /\ \/ /\ fromDown # <<>>
          /\ fromDown' = Tail(fromDown)
          /\ Respond(IF Head(fromDown).kind = "notification"
                        THEN Own("internal") ELSE Relayed(Head(fromDown)))
       \/ /\ fromDown = <<>>
          /\ Respond(Own("internal"))
          /\ UNCHANGED fromDown
    /\ UNCHANGED <<agentVars, expired, gatewayVars, toDown, downUp, chatter, received>>

\* The next message of the server is taken for the answer: a notification, which
\* has no id, does not parse as one; a request of the server does.
Receive ==
    /\ pc = "receiving"
    /\ \/ /\ fromDown # <<>>
          /\ fromDown' = Tail(fromDown)
          /\ Respond(IF Head(fromDown).kind = "notification"
                        THEN Own("internal") ELSE Relayed(Head(fromDown)))
       \/ /\ fromDown = <<>> /\ ~downUp
          /\ Respond(Own("internal"))
          /\ UNCHANGED fromDown
    /\ UNCHANGED <<agentVars, expired, gatewayVars, toDown, downUp, chatter, received>>

Proxy ==
    \/ ReadMalformed \/ ReadInitialized \/ ReadRequest \/ ReadEof
    \/ Decide \/ GatewayTimeout \/ EnforceAnswered \/ BindingAnswered
    \/ Forward \/ Receive

-----------------------------------------------------------------------------
(* The gateway.  It serves its connections in order, also those whose      *)
(* client no longer waits.                                                 *)

Waiting(r) == pc \in {"enforcing", "binding"} /\ req = r /\ reply = "none"

\* The client gets the answer if it still waits and the connection holds.
Deliver(r, answer) ==
    IF Waiting(r) THEN reply' \in {answer, "failed"} ELSE UNCHANGED reply

GatewayEnforce ==
    /\ backlog # <<>> /\ Verdict[Head(backlog)] = "Allow"
    /\ backlog' = Tail(backlog)
    /\ \/ enforced' = enforced \cup {Head(backlog)} /\ Deliver(Head(backlog), "Enforced")
       \/ UNCHANGED enforced /\ Deliver(Head(backlog), "Refused")
       \/ UNCHANGED enforced /\ Deliver(Head(backlog), "Error")
    /\ UNCHANGED <<agentVars, answers, pc, req, expired, queue, approved, serverVars>>

GatewaySignBinding ==
    /\ backlog # <<>> /\ Verdict[Head(backlog)] = "PendingApproval"
    /\ backlog' = Tail(backlog)
    /\ \/ queue' = queue \cup {Head(backlog)} /\ Deliver(Head(backlog), "SignedBinding")
       \/ UNCHANGED queue /\ Deliver(Head(backlog), "Error")
    /\ UNCHANGED <<agentVars, answers, pc, req, expired, enforced, approved, serverVars>>

\* The operator grants a queued request.
SubmitGrant(r) ==
    /\ r \in queue \ approved
    /\ approved' = approved \cup {r}
    /\ UNCHANGED <<agentVars, proxyVars, expired, backlog, enforced, queue, serverVars>>

MandateExpires ==
    /\ ~expired
    /\ expired' = TRUE
    /\ UNCHANGED <<agentVars, proxyVars, gatewayVars, serverVars>>

-----------------------------------------------------------------------------
(* The downstream server.  The demo server answers every message but the   *)
(* initialized notification; tools of other servers fail, and the servers  *)
(* log, ask and exit.                                                      *)

Answered == {"initialize", "tools/list", "tools/call", "other"}

\* It knows no other methods; what a tool returns is up to the tool.
Outcomes(r) ==
    {"error"} \cup (IF r.method = "other" THEN {} ELSE {"result"})
              \cup (IF Governed(r) THEN {"scalar"} ELSE {})

ServerHandles ==
    /\ downUp /\ toDown # <<>>
    /\ toDown' = Tail(toDown)
    /\ IF Head(toDown).method \in Answered
          THEN \E kind \in Outcomes(Head(toDown)) :
                  fromDown' = Append(fromDown, [kind |-> kind, of |-> Head(toDown)])
          ELSE UNCHANGED fromDown
    /\ UNCHANGED <<agentVars, proxyVars, expired, gatewayVars, downUp, chatter, received>>

ServerSpeaks ==
    /\ downUp /\ chatter < MaxChatter
    /\ chatter' = chatter + 1
    /\ \E kind \in {"notification", "request"} :
          fromDown' = Append(fromDown, [kind |-> kind, of |-> NoRequest])
    /\ UNCHANGED <<agentVars, proxyVars, expired, gatewayVars, toDown, downUp, received>>

ServerExits ==
    /\ downUp
    /\ downUp' = FALSE
    /\ toDown' = <<>>
    /\ UNCHANGED <<agentVars, proxyVars, expired, gatewayVars, fromDown, chatter, received>>

-----------------------------------------------------------------------------
Next ==
    \/ \E r \in Requests : Send(r) \/ SubmitGrant(r)
    \/ Close \/ Proxy
    \/ GatewayEnforce \/ GatewaySignBinding \/ MandateExpires
    \/ ServerHandles \/ ServerSpeaks \/ ServerExits

Spec == Init /\ [][Next]_vars

\* The proxy's thread runs, a gateway that got a request or a time-out answers
\* it, and the server takes what it is sent.
FairSpec == Spec /\ WF_vars(Proxy) /\ WF_vars(ServerHandles)

-----------------------------------------------------------------------------
Calls == {r \in Requests : Governed(r)}
Forwarded == {received[i] : i \in DOMAIN received}
AnsweredAs(kinds) == {answers[i].to : i \in {j \in DOMAIN answers : answers[j].kind \in kinds}}

\* The server is sent a call only after the gateway has put it into effect, and
\* each at most once, whatever comes late from the gateway or the server.
ForwardedOnlyEnforced ==
    /\ Forwarded \subseteq enforced
    /\ \A i, j \in DOMAIN received : received[i] = received[j] => i = j

\* What the agent is told of a call is true for good: a call reported as denied,
\* refused or waiting for approval is not put into effect by a gateway that
\* answers late, and one whose result is relayed has been.
AnswersMatchGateway ==
    /\ AnsweredAs({"denied", "refused", "escalate"}) \cap enforced = {}
    /\ AnsweredAs({"relayed"}) \cap Calls \subseteq enforced

\* A call that took effect is never lost silently: it reaches the server, or the
\* agent is told of a failure, unless the loop has ended.
EnforcedIsForwardedOrReported ==
    enforced \subseteq Forwarded \cup AnsweredAs({"internal"}) \cup {req}
    \/ pc = "stopped"

\* The messages the server still owes an answer to.
Owed == Cardinality({i \in DOMAIN toDown : toDown[i].method \in Answered})

\* Each exchange takes one message for the one it sends: whatever the server says
\* of its own accord shifts the answers by one, and they never fall back.
ExchangesStayShifted ==
    pc = "reading" /\ downUp => Len(fromDown) + Owed = chatter

\* As long as the server only answers, every answer is to the agent's own message.
OwnAnswerUnlessChatter ==
    chatter = 0 =>
        \A i \in DOMAIN answers : answers[i].kind = "relayed" => answers[i].of = answers[i].to

\* The loop catches up with the agent again and again, as long as it runs: neither a gateway that does
\* not answer nor a server that exits holds it up.
EveryRequestAnswered ==
    []<>(\/ {r \in sent : r.method \in Answered} \subseteq AnsweredAs(AnswerKinds)
         \/ pc = "stopped")

\* "receipt_id in the response _meta field" (docs/adr/0020-mcp-proxy.md): what the
\* agent gets for a call that was made holds its receipt.  Not so for a result that
\* is not an object (handle_tool_call).
RelayedCallsCarryReceipt ==
    \A i \in DOMAIN answers :
        answers[i].kind = "relayed" /\ answers[i].to \in Calls => answers[i].receipt = answers[i].to

\* "retry after approval with binding_id": a call like one the operator has
\* approved since is not sent for approval again.
ApprovedRetryPasses ==
    [][pc = "deciding"
       /\ (\E r \in approved : r.tool = req.tool /\ r \in AnsweredAs({"escalate"}))
       => pc' # "binding"]_vars

=============================================================================
