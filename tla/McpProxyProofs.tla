--------------------------- MODULE McpProxyProofs ---------------------------
(***************************************************************************)
(* Type correctness and safety of McpProxy, proved for any set of requests *)
(* and any verdicts.                                                       *)
(***************************************************************************)
EXTENDS McpProxy, FiniteSetTheorems, TLAPS

\* What a sequence holds, and that it holds nothing twice.
In(s) == {s[i] : i \in DOMAIN s}
Distinct(s) == \A i, j \in DOMAIN s : s[i] = s[j] => i = j

\* The messages that have left the agent's pipe.
Taken == sent \ In(stdin)

\* Stage by stage, the message in hand and its verdict.
StageInv ==
    /\ In(stdin) \subseteq sent /\ Distinct(stdin)
    /\ req = NoRequest <=> pc \in {"reading", "stopped"}
    /\ req # NoRequest => req \in Taken
    /\ pc \in {"deciding", "enforcing", "binding"} => Governed(req)
    /\ pc = "enforcing" => Verdict[req] = "Allow"
    /\ pc = "binding" => Verdict[req] = "PendingApproval"
    /\ pc \notin {"enforcing", "binding"} => reply = "none"
    /\ reply \in {"Enforced", "Refused"} => pc = "enforcing"
    /\ reply = "SignedBinding" => pc = "binding"

\* What is on the gateway's socket has left the agent, and the message in hand is
\* there only while the gateway has not answered.
BacklogInv ==
    /\ In(backlog) \subseteq Taken \cap Calls /\ Distinct(backlog)
    /\ req \in In(backlog) => pc \in {"enforcing", "binding"} /\ reply \in {"none", "failed"}

\* What is in effect was an allowed call; the gateway's answer tells the truth.
EffectInv ==
    /\ enforced \subseteq Taken \cap Calls /\ enforced \cap In(backlog) = {}
    /\ \A r \in enforced : Verdict[r] = "Allow"
    /\ req \in enforced => pc \in {"enforcing", "forwarding", "receiving"}
    /\ pc \in {"forwarding", "receiving"} /\ Governed(req) => req \in enforced
    /\ reply = "Enforced" => req \in enforced
    /\ reply \in {"Refused", "Error"} => req \notin enforced

\* A call is in the hands of the server only from Forward on.
ServerInv ==
    /\ In(received) \subseteq enforced /\ Distinct(received)
    /\ req \in In(received) => pc = "receiving"
    /\ pc = "receiving" /\ Governed(req) => req \in In(received)

\* What has been answered is not in hand any more; a call answered as denied or
\* refused is neither in effect nor on its way to the gateway.
ToldInv ==
    /\ AnsweredAs(AnswerKinds) \subseteq Taken /\ req \notin AnsweredAs(AnswerKinds)
    /\ AnsweredAs({"denied", "refused"}) \cap (enforced \cup In(backlog)) = {}
    /\ \A r \in AnsweredAs({"escalate"}) : Verdict[r] = "PendingApproval"
    /\ AnsweredAs({"relayed"}) \cap Calls \subseteq enforced

\* What is or may still come into effect is in hand, forwarded or reported.
LossInv ==
    pc = "stopped"
    \/ \A r \in enforced \cup {x \in In(backlog) : Verdict[x] = "Allow"} :
          r = req \/ r \in In(received) \/ r \in AnsweredAs({"internal"})

Safe == StageInv /\ BacklogInv /\ EffectInv /\ ServerInv /\ ToldInv /\ LossInv
Inv == TypeOK /\ Safe

-----------------------------------------------------------------------------
(* Sequences as sets.                                                      *)

\* Appending adds one element, and repeats nothing if the element is new.
LEMMA InAppend ==
    ASSUME NEW S, NEW s \in Seq(S), NEW x \in S
    PROVE  /\ Append(s, x) \in Seq(S)
           /\ In(Append(s, x)) = In(s) \cup {x}
           /\ Distinct(s) /\ x \notin In(s) => Distinct(Append(s, x))
<1>1. /\ DOMAIN s = 1..Len(s) /\ Len(s) \in Nat
      /\ Append(s, x) \in Seq(S)
      /\ DOMAIN Append(s, x) = 1..(Len(s) + 1)
      /\ \A i \in 1..Len(s) : Append(s, x)[i] = s[i]
      /\ Append(s, x)[Len(s) + 1] = x
  OBVIOUS
<1>2. 1..(Len(s) + 1) = 1..Len(s) \cup {Len(s) + 1} /\ Len(s) + 1 \notin 1..Len(s)
  BY <1>1
<1>3. In(Append(s, x)) = In(s) \cup {x}
  BY <1>1, <1>2 DEF In
<1>4. Distinct(s) /\ x \notin In(s) => Distinct(Append(s, x))
  BY <1>1, <1>2 DEF In, Distinct
<1> QED  BY <1>1, <1>3, <1>4

\* Taking the first element leaves the others.
LEMMA InTail ==
    ASSUME NEW S, NEW s \in Seq(S), s # <<>>
    PROVE  /\ Head(s) \in S /\ Tail(s) \in Seq(S)
           /\ In(s) = In(Tail(s)) \cup {Head(s)}
           /\ Distinct(s) => Distinct(Tail(s)) /\ Head(s) \notin In(Tail(s))
<1>1. /\ Len(s) \in Nat /\ Len(s) # 0 /\ DOMAIN s = 1..Len(s)
      /\ Head(s) = s[1] /\ Head(s) \in S
      /\ Tail(s) \in Seq(S)
      /\ DOMAIN Tail(s) = 1..(Len(s) - 1)
      /\ \A i \in 1..(Len(s) - 1) : Tail(s)[i] = s[i + 1]
  OBVIOUS
<1>2. /\ \A i \in 1..(Len(s) - 1) : i + 1 \in 1..Len(s) /\ i + 1 # 1
      /\ \A i, j \in 1..(Len(s) - 1) : i + 1 = j + 1 => i = j
      /\ \A i \in 1..Len(s) : i = 1 \/ \E j \in 1..(Len(s) - 1) : i = j + 1
      /\ 1 \in 1..Len(s)
  <2>1. ASSUME NEW i \in 1..Len(s), i # 1
        PROVE  \E j \in 1..(Len(s) - 1) : i = j + 1
    <3>1. i - 1 \in 1..(Len(s) - 1) /\ i = (i - 1) + 1
      BY <1>1, <2>1
    <3> QED  BY <3>1
  <2>2. /\ \A i \in 1..(Len(s) - 1) : i + 1 \in 1..Len(s) /\ i + 1 # 1
        /\ \A i, j \in 1..(Len(s) - 1) : i + 1 = j + 1 => i = j
        /\ 1 \in 1..Len(s)
    BY <1>1
  <2> QED  BY <2>1, <2>2
<1>3. In(s) = In(Tail(s)) \cup {Head(s)}
  <2>1. ASSUME NEW e \in In(s)
        PROVE  e \in In(Tail(s)) \cup {Head(s)}
    <3>1. PICK i \in 1..Len(s) : e = s[i]
      BY <1>1, <2>1 DEF In
    <3>2. CASE i = 1
      BY <1>1, <3>1, <3>2
    <3>3. CASE i # 1
      <4>1. PICK j \in 1..(Len(s) - 1) : i = j + 1
        BY <1>2, <3>3
      <4>2. e = Tail(s)[j] /\ j \in DOMAIN Tail(s)
        BY <1>1, <3>1, <4>1
      <4> QED  BY <4>2 DEF In
    <3> QED  BY <3>2, <3>3
  <2>2. Head(s) \in In(s)
    BY <1>1, <1>2 DEF In
  <2>3. ASSUME NEW e \in In(Tail(s))
        PROVE  e \in In(s)
    BY <1>1, <1>2, <2>3 DEF In
  <2> QED  BY <2>1, <2>2, <2>3
<1>4. ASSUME Distinct(s)
      PROVE  Distinct(Tail(s)) /\ Head(s) \notin In(Tail(s))
  BY <1>1, <1>2, <1>4 DEF In, Distinct
<1> QED  BY <1>1, <1>3, <1>4

\* One more answer tells the agent of one more message.
LEMMA TellsOneMore ==
    ASSUME NEW K, NEW a, answers \in Seq(Answer), a \in Answer, answers' = Append(answers, a)
    PROVE  AnsweredAs(K)' = IF a.kind \in K THEN AnsweredAs(K) \cup {a.to} ELSE AnsweredAs(K)
<1>1. /\ DOMAIN answers = 1..Len(answers) /\ Len(answers) \in Nat
      /\ DOMAIN answers' = 1..(Len(answers) + 1)
      /\ \A i \in 1..Len(answers) : answers'[i] = answers[i]
      /\ answers'[Len(answers) + 1] = a
  OBVIOUS
<1>2. 1..(Len(answers) + 1) = 1..Len(answers) \cup {Len(answers) + 1}
  BY <1>1
<1>3. CASE a.kind \in K
  BY <1>1, <1>2, <1>3 DEF AnsweredAs
<1>4. CASE a.kind \notin K
  BY <1>1, <1>2, <1>4 DEF AnsweredAs
<1> QED  BY <1>3, <1>4

-----------------------------------------------------------------------------
(* Types.                                                                  *)

\* What the proxy writes is an answer to the message in hand.
LEMMA AnswersTyped ==
    ASSUME TypeOK, req # NoRequest
    PROVE  /\ \A kind \in AnswerKinds : /\ Own(kind) \in Answer
                                       /\ Own(kind).to = req /\ Own(kind).kind = kind
           /\ \A m \in Message : /\ Relayed(m) \in Answer
                                 /\ Relayed(m).to = req /\ Relayed(m).kind = "relayed"
  BY DEF TypeOK, Own, Relayed, Answer, AnswerKinds, Message, Governed

\* Writing an answer keeps the types of the proxy's variables.
LEMMA RespondTyped ==
    ASSUME TypeOK, NEW a \in Answer, Respond(a)
    PROVE  /\ answers' \in Seq(Answer) /\ pc' \in Stages
           /\ req' \in Requests \cup {NoRequest} /\ reply' \in Replies
<1>1. Append(answers, a) \in Seq(Answer)
  BY DEF TypeOK
<1> QED  BY <1>1 DEF TypeOK, Respond, Stages, Replies

\* A message is in hand wherever the loop waits for something but the agent.
LEMMA InHand ==
    ASSUME Inv, pc \notin {"reading", "stopped"}
    PROVE  req \in Requests /\ req # NoRequest
  BY DEF Inv, Safe, TypeOK, StageInv

\* The types survive every step.
LEMMA TypeStep ==
    ASSUME Inv, [Next]_vars
    PROVE  TypeOK'
<1> USE RequestsAssumption, BoundsAssumption DEF Inv
<1>1. CASE UNCHANGED vars
  BY <1>1 DEF TypeOK, vars, agentVars, proxyVars, gatewayVars, serverVars
<1>2. ASSUME NEW r \in Requests, Send(r)
      PROVE  TypeOK'
  <2>1. Append(stdin, r) \in Seq(Requests)
    BY DEF TypeOK
  <2> QED  BY <1>2, <2>1 DEF TypeOK, Send, proxyVars, gatewayVars, serverVars
<1>3. ASSUME NEW r \in Requests, SubmitGrant(r)
      PROVE  TypeOK'
  BY <1>3 DEF TypeOK, SubmitGrant, agentVars, proxyVars, serverVars
<1>4. CASE Close
  BY <1>4 DEF TypeOK, Close, proxyVars, gatewayVars, serverVars
<1>5. CASE ReadMalformed
  <2>1. Tail(stdin) \in Seq(Requests)
    BY <1>5, InTail DEF TypeOK, ReadMalformed
  <2> QED  BY <1>5, <2>1 DEF TypeOK, ReadMalformed, proxyVars, gatewayVars, serverVars
<1>6. CASE ReadInitialized
  <2>1. Tail(stdin) \in Seq(Requests) /\ Head(stdin) \in Requests
    BY <1>6, InTail DEF TypeOK, ReadInitialized
  <2>2. Append(toDown, Head(stdin)) \in Seq(Requests)
    BY <2>1 DEF TypeOK
  <2> QED  BY <1>6, <2>1, <2>2 DEF TypeOK, ReadInitialized, proxyVars, gatewayVars
<1>7. CASE ReadRequest
  <2>1. Tail(stdin) \in Seq(Requests) /\ Head(stdin) \in Requests
    BY <1>7, InTail DEF TypeOK, ReadRequest
  <2> QED  BY <1>7, <2>1 DEF TypeOK, ReadRequest, gatewayVars, serverVars, Stages
<1>8. CASE ReadEof
  BY <1>8 DEF TypeOK, ReadEof, agentVars, gatewayVars, serverVars, Stages
<1>9. CASE Decide
  <2>1. req \in Requests /\ req # NoRequest
    BY <1>9, InHand DEF Decide
  <2>2. Own("denied") \in Answer /\ Own("internal") \in Answer
    BY <2>1, AnswersTyped DEF AnswerKinds
  <2>3. /\ answers' \in Seq(Answer) /\ pc' \in Stages
        /\ req' \in Requests \cup {NoRequest} /\ reply' \in Replies
    <3>1. CASE Respond(Own("denied")) \/ Respond(Own("internal"))
      BY <2>2, <3>1, RespondTyped
    <3>2. CASE Present /\ pc' \in {"enforcing", "binding"} /\ UNCHANGED <<answers, req>>
      BY <3>2 DEF Present, TypeOK, Stages, Replies
    <3> QED  BY <1>9, <3>1, <3>2 DEF Decide
  <2>4. backlog' \in Seq(Requests)
    <3>1. Append(backlog, req) \in Seq(Requests)
      BY <2>1 DEF TypeOK
    <3> QED  BY <1>9, <3>1 DEF Decide, Present, TypeOK
  <2> QED  BY <1>9, <2>3, <2>4 DEF TypeOK, Decide, agentVars, serverVars
<1>10. CASE GatewayTimeout
  BY <1>10 DEF TypeOK, GatewayTimeout, agentVars, gatewayVars, serverVars, Replies
<1>11. CASE EnforceAnswered
  <2>1. Own("refused") \in Answer /\ Own("internal") \in Answer
    BY <1>11, InHand, AnswersTyped DEF EnforceAnswered, AnswerKinds
  <2>2. /\ answers' \in Seq(Answer) /\ pc' \in Stages
        /\ req' \in Requests \cup {NoRequest} /\ reply' \in Replies
    <3>1. CASE Respond(Own("refused")) \/ Respond(Own("internal"))
      BY <2>1, <3>1, RespondTyped
    <3>2. CASE pc' = "forwarding" /\ reply' = "none" /\ UNCHANGED <<answers, req>>
      BY <3>2 DEF TypeOK, Stages, Replies
    <3> QED  BY <1>11, <3>1, <3>2 DEF EnforceAnswered
  <2> QED  BY <1>11, <2>2 DEF TypeOK, EnforceAnswered, agentVars, gatewayVars, serverVars
<1>12. CASE BindingAnswered
  <2>1. Own("escalate") \in Answer /\ Own("internal") \in Answer
    BY <1>12, InHand, AnswersTyped DEF BindingAnswered, AnswerKinds
  <2>2. /\ answers' \in Seq(Answer) /\ pc' \in Stages
        /\ req' \in Requests \cup {NoRequest} /\ reply' \in Replies
    BY <1>12, <2>1, RespondTyped DEF BindingAnswered
  <2> QED  BY <1>12, <2>2 DEF TypeOK, BindingAnswered, agentVars, gatewayVars, serverVars
<1>13. CASE Forward
  <2>1. req \in Requests /\ req # NoRequest
    BY <1>13, InHand DEF Forward
  <2>2. /\ answers' \in Seq(Answer) /\ pc' \in Stages
        /\ req' \in Requests \cup {NoRequest} /\ reply' \in Replies
    <3>1. Own("internal") \in Answer
      BY <2>1, AnswersTyped DEF AnswerKinds
    <3>2. CASE Respond(Own("internal"))
      BY <3>1, <3>2, RespondTyped
    <3>3. CASE pc' = "receiving" /\ UNCHANGED <<answers, req, reply>>
      BY <3>3 DEF TypeOK, Stages
    <3> QED  BY <1>13, <3>2, <3>3 DEF Forward
  <2>3. Append(toDown, req) \in Seq(Requests) /\ Append(received, req) \in Seq(Requests)
    BY <2>1 DEF TypeOK
  <2>4. toDown' \in Seq(Requests) /\ received' \in Seq(Requests)
    BY <1>13, <2>3 DEF TypeOK, Forward
  <2> QED  BY <1>13, <2>2, <2>4 DEF TypeOK, Forward, agentVars, gatewayVars
<1>14. CASE Receive
  <2>1. fromDown # <<>> => Head(fromDown) \in Message /\ Tail(fromDown) \in Seq(Message)
    BY InTail DEF TypeOK
  <2>2. /\ Own("internal") \in Answer
        /\ fromDown # <<>> => Relayed(Head(fromDown)) \in Answer
    BY <1>14, <2>1, InHand, AnswersTyped DEF Receive, AnswerKinds
  <2>3. /\ answers' \in Seq(Answer) /\ pc' \in Stages
        /\ req' \in Requests \cup {NoRequest} /\ reply' \in Replies
    BY <1>14, <2>2, RespondTyped DEF Receive
  <2>4. fromDown' \in Seq(Message)
    BY <1>14, <2>1 DEF Receive, TypeOK
  <2> QED  BY <1>14, <2>3, <2>4 DEF TypeOK, Receive, agentVars, gatewayVars
<1>15. CASE GatewayEnforce
  <2>1. Tail(backlog) \in Seq(Requests) /\ Head(backlog) \in Requests
    BY <1>15, InTail DEF TypeOK, GatewayEnforce
  <2>2. reply' \in Replies
    BY <1>15 DEF TypeOK, GatewayEnforce, Deliver, Replies
  <2> QED  BY <1>15, <2>1, <2>2 DEF TypeOK, GatewayEnforce, agentVars, serverVars
<1>16. CASE GatewaySignBinding
  <2>1. Tail(backlog) \in Seq(Requests) /\ Head(backlog) \in Requests
    BY <1>16, InTail DEF TypeOK, GatewaySignBinding
  <2>2. reply' \in Replies
    BY <1>16 DEF TypeOK, GatewaySignBinding, Deliver, Replies
  <2> QED  BY <1>16, <2>1, <2>2 DEF TypeOK, GatewaySignBinding, agentVars, serverVars
<1>17. CASE MandateExpires
  BY <1>17 DEF TypeOK, MandateExpires, agentVars, proxyVars, gatewayVars, serverVars
<1>18. CASE ServerHandles
  <2>1. Tail(toDown) \in Seq(Requests) /\ Head(toDown) \in Requests
    BY <1>18, InTail DEF TypeOK, ServerHandles
  <2>2. \A kind \in Outcomes(Head(toDown)) :
           Append(fromDown, [kind |-> kind, of |-> Head(toDown)]) \in Seq(Message)
    <3>1. \A kind \in Outcomes(Head(toDown)) : [kind |-> kind, of |-> Head(toDown)] \in Message
      BY <2>1 DEF Message, Outcomes
    <3> QED  BY <3>1, InAppend DEF TypeOK
  <2>3. fromDown' \in Seq(Message)
    BY <1>18, <2>2 DEF ServerHandles, TypeOK
  <2> QED  BY <1>18, <2>1, <2>3 DEF TypeOK, ServerHandles, agentVars, proxyVars, gatewayVars
<1>19. CASE ServerSpeaks
  <2>1. \A kind \in {"notification", "request"} :
           Append(fromDown, [kind |-> kind, of |-> NoRequest]) \in Seq(Message)
    <3>1. \A kind \in {"notification", "request"} : [kind |-> kind, of |-> NoRequest] \in Message
      BY DEF Message
    <3> QED  BY <3>1, InAppend DEF TypeOK
  <2>2. fromDown' \in Seq(Message)
    BY <1>19, <2>1 DEF ServerSpeaks
  <2>3. chatter' \in 0..MaxChatter
    BY <1>19 DEF ServerSpeaks, TypeOK
  <2> QED  BY <1>19, <2>2, <2>3 DEF TypeOK, ServerSpeaks, agentVars, proxyVars, gatewayVars
<1>20. CASE ServerExits
  <2>1. toDown' \in Seq(Requests)
    BY <1>20 DEF ServerExits
  <2> QED  BY <1>20, <2>1 DEF TypeOK, ServerExits, agentVars, proxyVars, gatewayVars
<1> QED
  BY <1>1, <1>2, <1>3, <1>4, <1>5, <1>6, <1>7, <1>8, <1>9, <1>10, <1>11, <1>12, <1>13,
     <1>14, <1>15, <1>16, <1>17, <1>18, <1>19, <1>20 DEF Next, Proxy

-----------------------------------------------------------------------------
(* Safety, for the kinds of steps there are.                               *)

\* A step that leaves the pipe, the loop and the gateway alone.
LEMMA QuietStep ==
    ASSUME Inv, UNCHANGED <<sent, stdin, answers, pc, req, reply, backlog, enforced, received>>
    PROVE  Safe'
  BY DEF Inv, Safe, StageInv, BacklogInv, EffectInv, ServerInv, ToldInv, LossInv,
         Taken, In, Distinct, AnsweredAs, Calls, Governed

\* The pipe grows or shrinks at its end and the loop stays where it is.
LEMMA PipeStep ==
    ASSUME Inv, UNCHANGED <<answers, pc, req, reply, backlog, enforced, received>>,
           In(stdin)' \subseteq sent', Distinct(stdin)', Taken \subseteq Taken'
    PROVE  Safe'
<1> USE DEF Inv, Safe
<1>1. UNCHANGED <<In(backlog), In(received), Distinct(backlog), Distinct(received), Calls>>
  BY DEF In, Distinct, Calls, Governed
<1>2. \A K : AnsweredAs(K)' = AnsweredAs(K)
  BY DEF AnsweredAs
<1>3. StageInv'
  BY DEF StageInv, Governed
<1>4. BacklogInv' /\ EffectInv' /\ ServerInv'
  BY <1>1 DEF BacklogInv, EffectInv, ServerInv, Governed
<1>5. ToldInv' /\ LossInv'
  BY <1>1, <1>2 DEF ToldInv, LossInv
<1> QED  BY <1>3, <1>4, <1>5

\* The loop answers the message in hand.
LEMMA AnswerStep ==
    ASSUME Inv, TypeOK', pc \notin {"reading", "stopped"},
           UNCHANGED <<sent, stdin, backlog, enforced, received>>,
           NEW a \in Answer, a.to = req, Respond(a),
           a.kind \in {"denied", "refused"} => req \notin enforced \cup In(backlog),
           a.kind = "escalate" => Verdict[req] = "PendingApproval",
           a.kind = "relayed" /\ req \in Calls => req \in enforced,
           \/ a.kind = "internal" \/ req \in In(received)
           \/ req \notin enforced \cup {x \in In(backlog) : Verdict[x] = "Allow"}
    PROVE  Safe'
<1> USE DEF Inv, Safe
<1>1. /\ UNCHANGED <<In(stdin), In(backlog), In(received), Taken, Calls>>
      /\ UNCHANGED <<Distinct(stdin), Distinct(backlog), Distinct(received)>>
  BY DEF In, Distinct, Calls, Governed, Taken
<1>2. req' = NoRequest /\ reply' = "none" /\ pc' \in {"reading", "stopped"}
  BY DEF Respond
<1>3. NoRequest \notin In(backlog) \cup enforced \cup In(received)
  BY RequestsAssumption DEF BacklogInv, EffectInv, ServerInv, Calls
<1>4. StageInv'
  BY <1>1, <1>2 DEF StageInv
<1>8. req \in Taken /\ NoRequest \notin Taken
  BY RequestsAssumption DEF StageInv, Taken, TypeOK
<1>5. BacklogInv' /\ EffectInv' /\ ServerInv'
  BY <1>1, <1>2, <1>3 DEF BacklogInv, EffectInv, ServerInv
<1>6. CASE answers' = Append(answers, a)
  <2>1. \A K : AnsweredAs(K)' = IF a.kind \in K THEN AnsweredAs(K) \cup {req} ELSE AnsweredAs(K)
    BY <1>6, TellsOneMore DEF TypeOK
  <2>2. ToldInv'
    <3>1. AnsweredAs(AnswerKinds)' \subseteq Taken' /\ req' \notin AnsweredAs(AnswerKinds)'
      BY <1>1, <1>2, <1>8, <2>1 DEF ToldInv
    <3>2. AnsweredAs({"denied", "refused"})' \cap (enforced \cup In(backlog)) = {}
      BY <2>1 DEF ToldInv
    <3>3. \A r \in AnsweredAs({"escalate"})' : Verdict[r] = "PendingApproval"
      BY <2>1 DEF ToldInv
    <3>4. AnsweredAs({"relayed"})' \cap Calls \subseteq enforced
      BY <2>1 DEF ToldInv
    <3> QED  BY <1>1, <3>1, <3>2, <3>3, <3>4 DEF ToldInv
  <2>3. LossInv'
    <3>1. CASE pc = "stopped"
      BY <3>1
    <3>2. SUFFICES ASSUME NEW r \in enforced \cup {x \in In(backlog) : Verdict[x] = "Allow"}
                   PROVE  r \in In(received) \/ r \in AnsweredAs({"internal"})'
      BY <1>1 DEF LossInv
    <3>3. r = req \/ r \in In(received) \/ r \in AnsweredAs({"internal"})
      BY DEF LossInv
    <3> QED  BY <2>1, <3>3
  <2> QED  BY <1>4, <1>5, <2>2, <2>3
<1>7. CASE pc' = "stopped" /\ UNCHANGED answers
  <2>1. \A K : AnsweredAs(K)' = AnsweredAs(K)
    BY <1>7 DEF AnsweredAs
  <2>2. ToldInv' /\ LossInv'
    BY <1>1, <1>2, <1>7, <1>8, <2>1 DEF ToldInv, LossInv
  <2> QED  BY <1>4, <1>5, <2>2
<1> QED  BY <1>6, <1>7 DEF Respond

-----------------------------------------------------------------------------
(* Safety, action by action.                                               *)

\* Writing to the pipe and reading what needs no answer.
LEMMA PipeActions ==
    ASSUME Inv, TypeOK',
           (\E r \in Requests : Send(r)) \/ ReadMalformed \/ ReadInitialized
    PROVE  Safe'
<1> USE DEF Inv, Safe, StageInv, Taken
<1>1. ASSUME NEW r \in Requests, Send(r)
      PROVE  Safe'
  <2>1. /\ In(stdin)' = In(stdin) \cup {r} /\ Distinct(stdin)'
        /\ sent' = sent \cup {r} /\ r \notin sent
    <3>1. r \notin In(stdin)
      BY <1>1 DEF Send
    <3>2. In(Append(stdin, r)) = In(stdin) \cup {r} /\ Distinct(Append(stdin, r))
      BY <3>1, InAppend DEF TypeOK
    <3> QED  BY <1>1, <3>2 DEF Send, In, Distinct
  <2>2. UNCHANGED <<answers, pc, req, reply, backlog, enforced, received>>
    BY <1>1 DEF Send, proxyVars, gatewayVars, serverVars
  <2> QED  BY <2>1, <2>2, PipeStep
<1>2. CASE ReadMalformed \/ ReadInitialized
  <2>1. stdin # <<>> /\ stdin' = Tail(stdin) /\ sent' = sent
    BY <1>2 DEF ReadMalformed, ReadInitialized
  <2>2. In(stdin)' \subseteq In(stdin) /\ Distinct(stdin)'
    BY <2>1, InTail DEF TypeOK
  <2>3. UNCHANGED <<answers, pc, req, reply, backlog, enforced, received>>
    BY <1>2 DEF ReadMalformed, ReadInitialized, proxyVars, gatewayVars, serverVars
  <2> QED  BY <2>1, <2>2, <2>3, PipeStep
<1> QED  BY <1>1, <1>2

\* The message taken from the pipe is in no other place.
LEMMA ReadRequestSafe ==
    ASSUME Inv, TypeOK', ReadRequest
    PROVE  Safe'
<1> USE DEF Inv, Safe
<1> DEFINE m == Head(stdin)
<1>1. /\ stdin # <<>> /\ stdin' = Tail(stdin) /\ sent' = sent /\ req' = m /\ pc = "reading"
      /\ pc' = IF Governed(m) THEN "deciding" ELSE "forwarding"
      /\ UNCHANGED <<answers, reply, backlog, enforced, received>>
  BY DEF ReadRequest, gatewayVars, serverVars, Governed
<1>2. /\ m \in Requests /\ m \in In(stdin) /\ In(stdin)' \subseteq In(stdin)
      /\ m \notin In(stdin)' /\ Distinct(stdin)'
  BY <1>1, InTail DEF TypeOK, StageInv
<1>3. m \notin In(backlog) /\ m \notin enforced /\ m \notin In(received)
  BY <1>2 DEF BacklogInv, EffectInv, ServerInv, Taken
<1>4. m \in Taken' /\ Taken \subseteq Taken'
  BY <1>1, <1>2 DEF Taken, StageInv
<1>5. UNCHANGED <<In(backlog), In(received), Distinct(backlog), Distinct(received), Calls>>
  BY <1>1 DEF In, Distinct, Calls, Governed
<1>6. \A K : AnsweredAs(K)' = AnsweredAs(K)
  BY <1>1 DEF AnsweredAs
<1>7. reply = "none" /\ m # NoRequest /\ sent' = sent
  BY <1>1, <1>2, RequestsAssumption DEF StageInv
<1> HIDE DEF m
<1>8. StageInv'
  BY <1>1, <1>2, <1>4, <1>7 DEF StageInv, Governed
<1>9. BacklogInv' /\ EffectInv' /\ ServerInv'
  BY <1>1, <1>3, <1>4, <1>5, <1>7 DEF BacklogInv, EffectInv, ServerInv, Governed
<1>10. ToldInv' /\ LossInv'
  <2>1. NoRequest \notin enforced \cup In(backlog) /\ req = NoRequest
    BY <1>1, RequestsAssumption DEF BacklogInv, EffectInv, Calls, StageInv
  <2>2. m \notin Taken
    BY <1>2 DEF Taken
  <2> QED  BY <1>1, <1>3, <1>4, <1>5, <1>6, <2>1, <2>2 DEF ToldInv, LossInv
<1> QED  BY <1>8, <1>9, <1>10

\* At the end of the pipe the loop ends with nothing in hand.
LEMMA ReadEofSafe ==
    ASSUME Inv, TypeOK', ReadEof
    PROVE  Safe'
<1> USE DEF Inv, Safe
<1>1. /\ pc = "reading" /\ pc' = "stopped"
      /\ UNCHANGED <<sent, stdin, answers, req, reply, backlog, enforced, received>>
  BY DEF ReadEof, agentVars, gatewayVars, serverVars
<1>2. /\ UNCHANGED <<In(stdin), In(backlog), In(received), Taken, Calls>>
      /\ UNCHANGED <<Distinct(stdin), Distinct(backlog), Distinct(received)>>
  BY <1>1 DEF In, Distinct, Calls, Governed, Taken
<1>3. \A K : AnsweredAs(K)' = AnsweredAs(K)
  BY <1>1 DEF AnsweredAs
<1>4. req = NoRequest /\ NoRequest \notin In(backlog) \cup enforced \cup In(received)
  BY <1>1, RequestsAssumption DEF StageInv, BacklogInv, EffectInv, ServerInv, Calls
<1>5. StageInv'
  BY <1>1, <1>2 DEF StageInv
<1>6. BacklogInv' /\ EffectInv' /\ ServerInv'
  BY <1>1, <1>2, <1>4 DEF BacklogInv, EffectInv, ServerInv, StageInv
<1>7. ToldInv' /\ LossInv'
  BY <1>1, <1>2, <1>3 DEF ToldInv, LossInv
<1> QED  BY <1>5, <1>6, <1>7

\* A call that is turned away has never been presented; one that is presented is
\* on the socket or lost.
LEMMA DecideSafe ==
    ASSUME Inv, TypeOK', Decide
    PROVE  Safe'
<1> USE DEF Inv, Safe
<1>1. /\ pc = "deciding" /\ req \in Requests /\ req # NoRequest /\ Governed(req)
      /\ req \notin enforced \cup In(backlog) \cup In(received)
      /\ UNCHANGED <<sent, stdin, enforced, received>>
  BY InHand DEF Decide, agentVars, serverVars, StageInv, BacklogInv, EffectInv, ServerInv
<1>2. CASE \/ Respond(Own("denied")) /\ UNCHANGED backlog
           \/ Respond(Own("internal")) /\ UNCHANGED backlog
  BY <1>1, <1>2, AnswersTyped, AnswerStep DEF AnswerKinds
<1>3. ASSUME Present, UNCHANGED <<answers, req>>,
             \/ pc' = "enforcing" /\ Verdict[req] = "Allow"
             \/ pc' = "binding" /\ Verdict[req] = "PendingApproval"
      PROVE  Safe'
  <2>1. /\ UNCHANGED <<In(stdin), In(received), Taken, Calls, Distinct(stdin), Distinct(received)>>
        /\ UNCHANGED <<answers, req>>
    BY <1>1, <1>3 DEF In, Distinct, Calls, Governed, Taken
  <2>2. /\ In(backlog)' \subseteq In(backlog) \cup {req} /\ Distinct(backlog)'
        /\ req \in In(backlog)' => reply' = "none"
        /\ reply' \in {"none", "failed"}
    <3>1. In(Append(backlog, req)) = In(backlog) \cup {req} /\ Distinct(Append(backlog, req))
      BY <1>1, InAppend DEF TypeOK, BacklogInv
    <3>2. CASE backlog' = Append(backlog, req) /\ reply' = "none"
      BY <3>1, <3>2 DEF In, Distinct
    <3>3. CASE reply' = "failed" /\ UNCHANGED backlog
      BY <1>1, <3>3 DEF In, Distinct, BacklogInv
    <3> QED  BY <1>3, <3>2, <3>3 DEF Present
  <2>3. \A K : AnsweredAs(K)' = AnsweredAs(K)
    BY <2>1 DEF AnsweredAs
  <2>4. StageInv'
    BY <1>1, <1>3, <2>1, <2>2 DEF StageInv, Governed
  <2>5. BacklogInv'
    <3>1. req \in Taken /\ req \in Calls
      BY <1>1 DEF StageInv, Calls
    <3> QED  BY <1>3, <2>1, <2>2, <3>1 DEF BacklogInv
  <2>6. EffectInv' /\ ServerInv'
    BY <1>1, <1>3, <2>1, <2>2 DEF EffectInv, ServerInv, Governed
  <2>7. ToldInv'
    <3>1. req \notin AnsweredAs({"denied", "refused"})
      BY DEF ToldInv, AnswerKinds, AnsweredAs
    <3> QED  BY <1>1, <2>1, <2>2, <2>3, <3>1 DEF ToldInv
  <2>8. LossInv'
    <3>1. pc # "stopped" /\ req' = req /\ pc' # "stopped"
      BY <1>1, <1>3
    <3> QED  BY <1>1, <2>1, <2>2, <2>3, <3>1 DEF LossInv
  <2> QED  BY <2>4, <2>5, <2>6, <2>7, <2>8
<1>4. CASE Present /\ UNCHANGED <<answers, req>> /\ decide(req) = "Allow" /\ pc' = "enforcing"
  BY <1>3, <1>4 DEF decide
<1>5. CASE Present /\ UNCHANGED <<answers, req>> /\ decide(req) = "PendingApproval" /\ pc' = "binding"
  BY <1>3, <1>5 DEF decide
<1> QED  BY <1>2, <1>4, <1>5 DEF Decide

\* A time-out changes only what the loop believes.
LEMMA TimeoutSafe ==
    ASSUME Inv, TypeOK', GatewayTimeout
    PROVE  Safe'
<1> USE DEF Inv, Safe
<1>1. /\ pc \in {"enforcing", "binding"} /\ reply = "none" /\ reply' = "failed"
      /\ UNCHANGED <<sent, stdin, answers, pc, req, backlog, enforced, received>>
  BY DEF GatewayTimeout, agentVars, gatewayVars, serverVars
<1>2. /\ UNCHANGED <<In(stdin), In(backlog), In(received), Taken, Calls>>
      /\ UNCHANGED <<Distinct(stdin), Distinct(backlog), Distinct(received)>>
  BY <1>1 DEF In, Distinct, Calls, Governed, Taken
<1>3. \A K : AnsweredAs(K)' = AnsweredAs(K)
  BY <1>1 DEF AnsweredAs
<1>4. StageInv'
  BY <1>1, <1>2 DEF StageInv, Governed
<1>5. BacklogInv' /\ EffectInv' /\ ServerInv'
  BY <1>1, <1>2 DEF BacklogInv, EffectInv, ServerInv, Governed
<1>6. ToldInv' /\ LossInv'
  BY <1>1, <1>2, <1>3 DEF ToldInv, LossInv
<1> QED  BY <1>4, <1>5, <1>6

\* After the gateway's answer the call is in effect, or will never be, or is reported.
LEMMA AnsweredSafe ==
    ASSUME Inv, TypeOK', EnforceAnswered \/ BindingAnswered
    PROVE  Safe'
<1> USE DEF Inv, Safe
<1>1. /\ req \in Requests /\ req # NoRequest /\ pc \in {"enforcing", "binding"}
      /\ UNCHANGED <<sent, stdin, backlog, enforced, received>>
  BY InHand DEF EnforceAnswered, BindingAnswered, agentVars, gatewayVars, serverVars
<1>2. CASE Respond(Own("internal"))
  BY <1>1, <1>2, AnswersTyped, AnswerStep DEF AnswerKinds
<1>3. CASE pc = "enforcing" /\ reply \in {"Refused", "Error"} /\ Respond(Own("refused"))
  <2>1. req \notin enforced \cup In(backlog)
    BY <1>3 DEF EffectInv, BacklogInv
  <2> QED  BY <1>1, <1>3, <2>1, AnswersTyped, AnswerStep DEF AnswerKinds
<1>4. CASE pc = "binding" /\ Respond(Own("escalate"))
  <2>1. Verdict[req] = "PendingApproval"
    BY <1>4 DEF StageInv
  <2>2. req \notin enforced \cup {x \in In(backlog) : Verdict[x] = "Allow"}
    BY <2>1 DEF EffectInv
  <2> QED  BY <1>1, <1>4, <2>1, <2>2, AnswersTyped, AnswerStep DEF AnswerKinds
<1>5. CASE /\ pc = "enforcing" /\ reply = "Enforced" /\ pc' = "forwarding" /\ reply' = "none"
           /\ UNCHANGED <<answers, req>>
  <2>1. /\ UNCHANGED <<In(stdin), In(backlog), In(received), Taken, Calls>>
        /\ UNCHANGED <<Distinct(stdin), Distinct(backlog), Distinct(received)>>
    BY <1>1 DEF In, Distinct, Calls, Governed, Taken
  <2>2. \A K : AnsweredAs(K)' = AnsweredAs(K)
    BY <1>5 DEF AnsweredAs
  <2>3. StageInv'
    BY <1>1, <1>5, <2>1 DEF StageInv
  <2>4. BacklogInv' /\ EffectInv' /\ ServerInv'
    BY <1>1, <1>5, <2>1 DEF BacklogInv, EffectInv, ServerInv, Governed
  <2>5. ToldInv' /\ LossInv'
    BY <1>1, <1>5, <2>1, <2>2 DEF ToldInv, LossInv
  <2> QED  BY <2>3, <2>4, <2>5
<1> QED  BY <1>2, <1>3, <1>4, <1>5 DEF EnforceAnswered, BindingAnswered

\* Only a call in effect reaches the server, and only from the loop's hand.
LEMMA ForwardSafe ==
    ASSUME Inv, TypeOK', Forward
    PROVE  Safe'
<1> USE DEF Inv, Safe
<1>1. /\ req \in Requests /\ req # NoRequest /\ pc = "forwarding"
      /\ UNCHANGED <<sent, stdin, backlog, enforced>>
  BY InHand DEF Forward, agentVars, gatewayVars
<1>2. CASE Respond(Own("internal")) /\ UNCHANGED received
  BY <1>1, <1>2, AnswersTyped, AnswerStep DEF AnswerKinds
<1>3. CASE /\ received' = IF Governed(req) THEN Append(received, req) ELSE received
           /\ pc' = "receiving" /\ UNCHANGED <<answers, req, reply>>
  <2>1. /\ UNCHANGED <<In(stdin), In(backlog), Taken, Calls>>
        /\ UNCHANGED <<Distinct(stdin), Distinct(backlog)>>
    BY <1>1 DEF In, Distinct, Calls, Governed, Taken
  <2>2. \A K : AnsweredAs(K)' = AnsweredAs(K)
    BY <1>3 DEF AnsweredAs
  <2>3. /\ In(received)' = IF Governed(req) THEN In(received) \cup {req} ELSE In(received)
        /\ Distinct(received)'
    <3>1. req \notin In(received)
      BY <1>1 DEF ServerInv
    <3>2. /\ In(Append(received, req)) = In(received) \cup {req}
          /\ Distinct(Append(received, req))
      BY <1>1, <3>1, InAppend DEF TypeOK, ServerInv
    <3> QED  BY <1>3, <3>2 DEF In, Distinct, ServerInv
  <2>4. StageInv'
    BY <1>1, <1>3, <2>1 DEF StageInv
  <2>5. BacklogInv' /\ EffectInv' /\ ServerInv'
    BY <1>1, <1>3, <2>1, <2>3 DEF BacklogInv, EffectInv, ServerInv, Governed
  <2>6. ToldInv' /\ LossInv'
    BY <1>1, <1>3, <2>1, <2>2, <2>3 DEF ToldInv, LossInv
  <2> QED  BY <2>4, <2>5, <2>6
<1> QED  BY <1>2, <1>3 DEF Forward

\* A call whose exchange with the server ends has been forwarded.
LEMMA ReceiveSafe ==
    ASSUME Inv, TypeOK', Receive
    PROVE  Safe'
<1> USE DEF Inv, Safe
<1>1. /\ req \in Requests /\ req # NoRequest /\ pc = "receiving"
      /\ UNCHANGED <<sent, stdin, backlog, enforced, received>>
  BY InHand DEF Receive, agentVars, gatewayVars
<1>2. CASE Respond(Own("internal"))
  BY <1>1, <1>2, AnswersTyped, AnswerStep DEF AnswerKinds
<1>3. CASE fromDown # <<>> /\ Respond(Relayed(Head(fromDown)))
  <2>1. Head(fromDown) \in Message
    BY <1>3, InTail DEF TypeOK
  <2>2. req \in Calls => req \in enforced /\ req \in In(received)
    BY <1>1 DEF Calls, EffectInv, ServerInv
  <2>3. req \notin Calls => req \notin enforced \cup In(backlog)
    BY DEF EffectInv, BacklogInv
  <2>4. Relayed(Head(fromDown)) \in Answer /\ Relayed(Head(fromDown)).to = req
        /\ Relayed(Head(fromDown)).kind = "relayed"
    BY <1>1, <2>1, AnswersTyped
  <2> QED  BY <1>1, <1>3, <2>2, <2>3, <2>4, AnswerStep
<1> QED  BY <1>2, <1>3 DEF Receive

\* The gateway serves a call that is in hand and unanswered, or reported as failed.
LEMMA GatewaySafe ==
    ASSUME Inv, TypeOK', GatewayEnforce \/ GatewaySignBinding
    PROVE  Safe'
<1> USE DEF Inv, Safe
<1> DEFINE r == Head(backlog)
<1>1. /\ backlog # <<>> /\ backlog' = Tail(backlog)
      /\ UNCHANGED <<sent, stdin, answers, pc, req, received>>
  BY DEF GatewayEnforce, GatewaySignBinding, agentVars, serverVars
<1>2. /\ r \in Requests /\ In(backlog) = In(backlog)' \cup {r}
      /\ r \notin In(backlog)' /\ Distinct(backlog)'
  BY <1>1, InTail DEF TypeOK, BacklogInv
<1>3. /\ UNCHANGED <<In(stdin), In(received), Taken, Calls, Distinct(stdin), Distinct(received)>>
      /\ \A K : AnsweredAs(K)' = AnsweredAs(K)
  BY <1>1 DEF In, Distinct, Calls, Governed, Taken, AnsweredAs
<1>4. r = req => pc \in {"enforcing", "binding"} /\ reply \in {"none", "failed"}
  BY <1>2 DEF BacklogInv
<1>5. /\ enforced' \subseteq enforced \cup {r} /\ enforced \subseteq enforced'
      /\ r \in enforced' /\ r \notin enforced => Verdict[r] = "Allow"
      /\ \/ UNCHANGED reply
         \/ /\ r = req /\ pc \in {"enforcing", "binding"}
            /\ reply' \in {"Enforced", "Refused", "SignedBinding", "Error", "failed"}
            /\ reply' = "Enforced" => r \in enforced'
            /\ reply' \in {"Refused", "Error"} => enforced' = enforced
            /\ reply' \in {"Enforced", "Refused"} => Verdict[r] = "Allow"
            /\ reply' = "SignedBinding" => Verdict[r] = "PendingApproval"
  BY DEF GatewayEnforce, GatewaySignBinding, Deliver, Waiting
<1>6. req \in Requests => req \notin In(backlog)' \/ req # r
  BY <1>2
<1> HIDE DEF r
<1>7. StageInv'
  BY <1>1, <1>3, <1>5 DEF StageInv, Governed
<1>8. BacklogInv'
  BY <1>1, <1>2, <1>3, <1>5, <1>6 DEF BacklogInv
<1>9. EffectInv'
  <2>1. r \in Taken \cap Calls
    BY <1>2 DEF BacklogInv
  <2>2. r \in enforced' => Verdict[r] = "Allow"
    BY <1>5 DEF EffectInv
  <2>3. r = req /\ req \in enforced' => pc = "enforcing"
    BY <1>4, <2>2 DEF StageInv
  <2>4. /\ enforced' \subseteq Taken' \cap Calls' /\ enforced' \cap In(backlog)' = {}
        /\ \A x \in enforced' : Verdict[x] = "Allow"
    BY <1>2, <1>3, <1>5, <2>1, <2>2 DEF EffectInv
  <2>5. req' \in enforced' => pc' \in {"enforcing", "forwarding", "receiving"}
    BY <1>1, <1>5, <2>3 DEF EffectInv
  <2>6. pc' \in {"forwarding", "receiving"} /\ Governed(req)' => req' \in enforced'
    BY <1>1, <1>5 DEF EffectInv, Governed
  <2>7. reply' = "Enforced" => req' \in enforced'
    BY <1>1, <1>5 DEF EffectInv
  <2>8. reply' \in {"Refused", "Error"} => req' \notin enforced'
    <3>1. CASE UNCHANGED reply
      BY <1>1, <1>4, <1>5, <3>1 DEF EffectInv
    <3>2. CASE r = req /\ reply' # reply
      <4>1. req \notin enforced
        BY <1>2, <3>2 DEF EffectInv
      <4> QED  BY <1>1, <1>5, <3>2, <4>1
    <3> QED  BY <1>5, <3>1, <3>2
  <2> QED  BY <2>4, <2>5, <2>6, <2>7, <2>8 DEF EffectInv
<1>10. ServerInv'
  BY <1>1, <1>3, <1>5 DEF ServerInv, Governed
<1>11. ToldInv'
  BY <1>1, <1>2, <1>3, <1>5 DEF ToldInv
<1>12. LossInv'
  BY <1>1, <1>2, <1>3, <1>5 DEF LossInv
<1> QED  BY <1>7, <1>8, <1>9, <1>10, <1>11, <1>12

-----------------------------------------------------------------------------
(* The theorems.                                                           *)

\* The invariant holds initially and survives every step.
LEMMA InvInductive ==
    /\ Init => Inv
    /\ Inv /\ [Next]_vars => Inv'
<1>1. ASSUME Init
      PROVE  Inv
  <2>1. TypeOK
    <3>1. /\ stdin \in Seq(Requests) /\ backlog \in Seq(Requests) /\ toDown \in Seq(Requests)
          /\ received \in Seq(Requests) /\ answers \in Seq(Answer) /\ fromDown \in Seq(Message)
      BY <1>1 DEF Init
    <3>2. chatter \in 0..MaxChatter
      BY <1>1, BoundsAssumption DEF Init
    <3> QED  BY <1>1, <3>1, <3>2 DEF Init, TypeOK, Stages, Replies
  <2>2. In(stdin) = {} /\ In(backlog) = {} /\ In(received) = {} /\ \A K : AnsweredAs(K) = {}
    BY <1>1 DEF Init, In, AnsweredAs
  <2>3. Distinct(stdin) /\ Distinct(backlog) /\ Distinct(received)
    BY <1>1 DEF Init, Distinct
  <2> QED
    BY <1>1, <2>1, <2>2, <2>3 DEF Init, Inv, Safe, StageInv, BacklogInv, EffectInv,
       ServerInv, ToldInv, LossInv
<1>2. ASSUME Inv, [Next]_vars
      PROVE  Inv'
  <2>1. TypeOK'
    BY <1>2, TypeStep
  <2>2. Safe'
    <3>1. CASE \/ Close \/ MandateExpires \/ ServerHandles \/ ServerSpeaks \/ ServerExits
               \/ UNCHANGED vars \/ \E r \in Requests : SubmitGrant(r)
      <4>1. UNCHANGED <<sent, stdin, answers, pc, req, reply, backlog, enforced, received>>
        BY <3>1 DEF Close, MandateExpires, ServerHandles, ServerSpeaks, ServerExits, SubmitGrant,
           vars, agentVars, proxyVars, gatewayVars, serverVars
      <4> QED  BY <1>2, <4>1, QuietStep
    <3>2. CASE (\E r \in Requests : Send(r)) \/ ReadMalformed \/ ReadInitialized
      BY <1>2, <2>1, <3>2, PipeActions
    <3>3. CASE ReadRequest \/ ReadEof \/ Decide
      BY <1>2, <2>1, <3>3, ReadRequestSafe, ReadEofSafe, DecideSafe
    <3>4. CASE GatewayTimeout \/ EnforceAnswered \/ BindingAnswered
      BY <1>2, <2>1, <3>4, TimeoutSafe, AnsweredSafe
    <3>5. CASE Forward \/ Receive
      BY <1>2, <2>1, <3>5, ForwardSafe, ReceiveSafe
    <3>6. CASE GatewayEnforce \/ GatewaySignBinding
      BY <1>2, <2>1, <3>6, GatewaySafe
    <3> QED  BY <1>2, <3>1, <3>2, <3>3, <3>4, <3>5, <3>6 DEF Next, Proxy
  <2> QED  BY <2>1, <2>2 DEF Inv
<1> QED  BY <1>1, <1>2

\* The invariant always holds.
LEMMA AlwaysInv == Spec => []Inv
  BY InvInductive, PTL DEF Spec

\* The proxy, the gateway's socket and the server's pipes have their types.
THEOREM TypeCorrect == Spec => []TypeOK
<1>1. Inv => TypeOK
  BY DEF Inv
<1> QED  BY <1>1, AlwaysInv, PTL

\* However late the gateway and the server answer, only calls in effect reach the
\* server (call_downstream after governance.check), and each once.
THEOREM NothingPassesUnenforced == Spec => []ForwardedOnlyEnforced
<1>1. Inv => ForwardedOnlyEnforced
  BY DEF Inv, Safe, ServerInv, ForwardedOnlyEnforced, Forwarded, In, Distinct
<1> QED  BY <1>1, AlwaysInv, PTL

\* What handle_tool_call tells the agent of a call agrees with the gateway for good.
THEOREM AgentIsToldTheTruth == Spec => []AnswersMatchGateway
<1>1. ASSUME Inv
      PROVE  AnswersMatchGateway
  <2>1. AnsweredAs({"denied", "refused", "escalate"}) \subseteq
           AnsweredAs({"denied", "refused"}) \cup AnsweredAs({"escalate"})
    BY DEF AnsweredAs
  <2>2. AnsweredAs({"escalate"}) \cap enforced = {}
    BY <1>1 DEF Inv, Safe, ToldInv, EffectInv
  <2> QED  BY <1>1, <2>1, <2>2 DEF Inv, Safe, ToldInv, AnswersMatchGateway
<1> QED  BY <1>1, AlwaysInv, PTL

\* A call in effect is in hand, with the server, or reported as failed, as long as
\* run_proxy has not ended.
THEOREM NoEffectIsLost == Spec => []EnforcedIsForwardedOrReported
<1>1. Inv => EnforcedIsForwardedOrReported
  BY DEF Inv, Safe, LossInv, EnforcedIsForwardedOrReported, Forwarded, In
<1> QED  BY <1>1, AlwaysInv, PTL

-----------------------------------------------------------------------------
(* The exchanges with the server.                                          *)

\* The messages of a pipe that will be answered.
Due(s) == {i \in DOMAIN s : s[i].method \in Answered}

\* One more message in the pipe is one more answer, if it has one.
LEMMA DueAppend ==
    ASSUME NEW s \in Seq(Requests), NEW x \in Requests, IsFiniteSet(Due(s))
    PROVE  /\ IsFiniteSet(Due(Append(s, x)))
           /\ Cardinality(Due(Append(s, x))) =
                 Cardinality(Due(s)) + (IF x.method \in Answered THEN 1 ELSE 0)
<1>1. /\ DOMAIN s = 1..Len(s) /\ Len(s) \in Nat
      /\ DOMAIN Append(s, x) = 1..(Len(s) + 1)
      /\ \A i \in 1..Len(s) : Append(s, x)[i] = s[i]
      /\ Append(s, x)[Len(s) + 1] = x
  OBVIOUS
<1>2. 1..(Len(s) + 1) = 1..Len(s) \cup {Len(s) + 1} /\ Len(s) + 1 \notin 1..Len(s)
  BY <1>1
<1>3. Len(s) + 1 \notin Due(s) /\ Cardinality(Due(s)) \in Nat
  BY <1>1, <1>2, FS_CardinalityType DEF Due
<1>4. CASE x.method \in Answered
  <2>1. Due(Append(s, x)) = Due(s) \cup {Len(s) + 1}
    BY <1>1, <1>2, <1>4 DEF Due
  <2> QED  BY <1>3, <1>4, <2>1, FS_AddElement
<1>5. CASE x.method \notin Answered
  <2>1. Due(Append(s, x)) = Due(s)
    BY <1>1, <1>2, <1>5 DEF Due
  <2> QED  BY <1>3, <1>5, <2>1
<1> QED  BY <1>4, <1>5

\* A message taken from the pipe is one answer less due, if it has one.
LEMMA DueTail ==
    ASSUME NEW s \in Seq(Requests), s # <<>>, IsFiniteSet(Due(s))
    PROVE  /\ IsFiniteSet(Due(Tail(s)))
           /\ Cardinality(Due(s)) =
                 Cardinality(Due(Tail(s))) + (IF Head(s).method \in Answered THEN 1 ELSE 0)
<1> DEFINE later == Due(s) \ {1}
           back == [i \in Due(Tail(s)) |-> i + 1]
<1>1. /\ Len(s) \in Nat /\ Len(s) # 0 /\ DOMAIN s = 1..Len(s)
      /\ Head(s) = s[1] /\ 1 \in 1..Len(s)
      /\ DOMAIN Tail(s) = 1..(Len(s) - 1)
      /\ \A i \in 1..(Len(s) - 1) : Tail(s)[i] = s[i + 1]
  OBVIOUS
<1>2. /\ \A i \in 1..(Len(s) - 1) : i + 1 \in 1..Len(s) /\ i + 1 # 1
      /\ \A i \in 1..Len(s) : i # 1 => i - 1 \in 1..(Len(s) - 1) /\ (i - 1) + 1 = i
      /\ \A i, j \in 1..(Len(s) - 1) : i + 1 = j + 1 => i = j
  BY <1>1
<1>3. back \in [Due(Tail(s)) -> later]
  BY <1>1, <1>2 DEF Due
<1>4. \A i, j \in Due(Tail(s)) : back[i] = back[j] => i = j
  BY <1>1, <1>2 DEF Due
<1>5. \A k \in later : \E i \in Due(Tail(s)) : back[i] = k
  <2>1. SUFFICES ASSUME NEW k \in later
                 PROVE  k - 1 \in Due(Tail(s)) /\ back[k - 1] = k
    OBVIOUS
  <2>2. k \in 1..Len(s) /\ k # 1 /\ s[k].method \in Answered
    BY <1>1 DEF Due
  <2>3. k - 1 \in 1..(Len(s) - 1) /\ (k - 1) + 1 = k
    BY <1>2, <2>2
  <2> QED  BY <1>1, <2>2, <2>3 DEF Due
<1>6. IsFiniteSet(later)
  BY FS_RemoveElement
<1> HIDE DEF back, later
<1>7. back \in Injection(Due(Tail(s)), later) /\ back \in Surjection(Due(Tail(s)), later)
  BY <1>3, <1>4, <1>5 DEF Injection, Surjection, IsInjective
<1>8. IsFiniteSet(Due(Tail(s))) /\ Cardinality(Due(Tail(s))) = Cardinality(later)
  BY <1>6, <1>7, FS_Injection
<1>9. Cardinality(later) =
         IF Head(s).method \in Answered THEN Cardinality(Due(s)) - 1 ELSE Cardinality(Due(s))
  <2>1. 1 \in Due(s) <=> Head(s).method \in Answered
    BY <1>1 DEF Due
  <2> QED  BY <2>1, FS_RemoveElement DEF later
<1>10. Cardinality(Due(s)) \in Nat
  BY FS_CardinalityType
<1> QED  BY <1>8, <1>9, <1>10

\* An exchange is open while the loop waits for the server.
Open == IF pc = "receiving" THEN 1 ELSE 0

\* What the server has said and still has to say is what it was asked in this
\* exchange and what it said of its own accord; less only after it has gone.
CountInv ==
    /\ IsFiniteSet(Due(toDown)) /\ (~downUp => toDown = <<>>)
    /\ Len(fromDown) + Owed <= chatter + Open
    /\ downUp => Len(fromDown) + Owed = chatter + Open

\* Without chatter what is in the pipes belongs to the message in hand.
OwnInv ==
    chatter = 0 =>
        /\ \A i \in DOMAIN fromDown : fromDown[i].of = req
        /\ \A i \in Due(toDown) : toDown[i] = req
        /\ OwnAnswerUnlessChatter

ShiftInv == CountInv /\ OwnInv

\* A message in hand is one the server answers.
HandInv == req # NoRequest => req.method \in Answered

\* Only ReadRequest takes a message in hand.
LEMMA HandStep ==
    ASSUME Inv, HandInv, [Next]_vars
    PROVE  HandInv'
<1>1. CASE ReadRequest
  <2>1. Head(stdin) \in Requests /\ req' = Head(stdin)
        /\ Head(stdin).method \notin {"malformed", "initialized"}
    BY <1>1, InTail DEF ReadRequest, Inv, TypeOK
  <2> QED  BY <2>1, RequestsAssumption DEF HandInv, Answered, Methods
<1>2. CASE ~ReadRequest
  <2>1. req' = req \/ req' = NoRequest
    BY <1>2 DEF Next, Proxy, Send, SubmitGrant, Close, ReadMalformed, ReadInitialized, ReadEof,
       Decide, GatewayTimeout, EnforceAnswered, BindingAnswered, Forward, Receive, Respond,
       GatewayEnforce, GatewaySignBinding, MandateExpires, ServerHandles, ServerSpeaks, ServerExits,
       vars, proxyVars
  <2> QED  BY <2>1 DEF HandInv
<1> QED  BY <1>1, <1>2

\* The sizes are numbers.
LEMMA Sizes ==
    ASSUME TypeOK, IsFiniteSet(Due(toDown))
    PROVE  /\ Len(fromDown) \in Nat /\ Owed \in Nat /\ Owed = Cardinality(Due(toDown))
           /\ chatter \in Nat /\ Open \in {0, 1}
           /\ Owed = 0 => Due(toDown) = {}
           /\ Len(fromDown) = 0 => fromDown = <<>> /\ DOMAIN fromDown = {}
<1>1. Owed = Cardinality(Due(toDown))
  BY DEF Owed, Due
<1>2. Cardinality(Due(toDown)) \in Nat /\ (Cardinality(Due(toDown)) = 0 => Due(toDown) = {})
  BY FS_CardinalityType, FS_EmptySet
<1>3. Len(fromDown) \in Nat /\ (Len(fromDown) = 0 => fromDown = <<>> /\ DOMAIN fromDown = {})
  BY DEF TypeOK
<1> QED  BY <1>1, <1>2, <1>3, BoundsAssumption DEF TypeOK, Open

\* Outside an exchange nothing of the server's is pending, without chatter.
LEMMA NothingPending ==
    ASSUME TypeOK, CountInv, chatter = 0, pc # "receiving"
    PROVE  fromDown = <<>> /\ DOMAIN fromDown = {} /\ Due(toDown) = {}
BY Sizes DEF CountInv, Open

\* A step that writes no answer and leaves the pipes of the server and the stage alone.
LEMMA ShiftQuiet ==
    ASSUME ShiftInv, UNCHANGED <<answers, req, toDown, fromDown, downUp, chatter, Open>>
    PROVE  ShiftInv'
BY DEF ShiftInv, CountInv, OwnInv, Owed, Due, OwnAnswerUnlessChatter

\* The same outside an exchange, where a message may be taken in hand.
LEMMA ShiftOutside ==
    ASSUME TypeOK, ShiftInv, UNCHANGED <<answers, toDown, fromDown, downUp, chatter>>,
           pc # "receiving", pc' # "receiving"
    PROVE  ShiftInv'
<1>1. CountInv'
  BY DEF ShiftInv, CountInv, Owed, Due, Open
<1>2. ASSUME chatter = 0
      PROVE  /\ \A i \in DOMAIN fromDown' : fromDown'[i].of = req'
             /\ \A i \in Due(toDown') : toDown'[i] = req'
             /\ OwnAnswerUnlessChatter'
  <2>1. OwnAnswerUnlessChatter'
    BY <1>2 DEF ShiftInv, OwnInv, OwnAnswerUnlessChatter
  <2> QED  BY <1>2, <2>1, NothingPending DEF ShiftInv
<1> QED  BY <1>1, <1>2 DEF ShiftInv, OwnInv, Due

\* One more answer, to the message in hand: the answers stay as truthful as it is.
LEMMA AnswersOwn ==
    ASSUME TypeOK, NEW a \in Answer, Respond(a), chatter' = chatter,
           chatter = 0 => OwnAnswerUnlessChatter,
           chatter = 0 /\ a.kind = "relayed" => a.of = a.to
    PROVE  OwnAnswerUnlessChatter'
<1>1. CASE answers' = Append(answers, a)
  <2>1. /\ DOMAIN answers = 1..Len(answers) /\ Len(answers) \in Nat
        /\ DOMAIN answers' = 1..(Len(answers) + 1)
        /\ \A i \in 1..Len(answers) : answers'[i] = answers[i]
        /\ answers'[Len(answers) + 1] = a
    BY <1>1 DEF TypeOK
  <2>2. 1..(Len(answers) + 1) = 1..Len(answers) \cup {Len(answers) + 1}
    BY <2>1
  <2> QED  BY <2>1, <2>2 DEF OwnAnswerUnlessChatter
<1>2. CASE UNCHANGED answers
  BY <1>2 DEF OwnAnswerUnlessChatter
<1> QED  BY <1>1, <1>2 DEF Respond

\* An answer of the proxy's own, outside an exchange.
LEMMA ShiftOwn ==
    ASSUME TypeOK, ShiftInv, req # NoRequest, pc # "receiving",
           NEW kind \in AnswerKinds \ {"relayed"}, Respond(Own(kind)),
           UNCHANGED <<toDown, fromDown, downUp, chatter>>
    PROVE  ShiftInv'
<1>1. pc' \in {"reading", "stopped"} /\ req' = NoRequest
  BY DEF Respond
<1>2. CountInv'
  BY <1>1 DEF ShiftInv, CountInv, Owed, Due, Open
<1>3. OwnAnswerUnlessChatter'
  BY AnswersTyped, AnswersOwn DEF ShiftInv, OwnInv
<1>4. chatter' = 0 => DOMAIN fromDown' = {} /\ Due(toDown)' = {}
  BY NothingPending DEF ShiftInv, Due
<1> QED  BY <1>2, <1>3, <1>4 DEF ShiftInv, OwnInv

\* A message that needs no answer goes into the pipe between two exchanges.
LEMMA InitializedShift ==
    ASSUME TypeOK, ShiftInv, ReadInitialized
    PROVE  ShiftInv'
<1> DEFINE m == Head(stdin)
<1>1. /\ pc = "reading" /\ stdin # <<>> /\ m.method = "initialized"
      /\ toDown' = IF downUp THEN Append(toDown, m) ELSE toDown
      /\ UNCHANGED <<answers, pc, req, fromDown, downUp, chatter>>
  BY DEF ReadInitialized, proxyVars
<1>2. m \in Requests /\ m.method \notin Answered
  BY <1>1, InTail DEF TypeOK, Answered
<1> HIDE DEF m
<1>3. IsFiniteSet(Due(toDown')) /\ Cardinality(Due(toDown')) = Cardinality(Due(toDown))
  <2>1. Cardinality(Due(toDown)) \in Nat
    BY FS_CardinalityType DEF ShiftInv, CountInv
  <2> QED  BY <1>1, <1>2, <2>1, DueAppend DEF TypeOK, ShiftInv, CountInv
<1>4. CountInv'
  BY <1>1, <1>3 DEF ShiftInv, CountInv, Owed, Due, Open
<1>5. ASSUME chatter = 0
      PROVE  DOMAIN fromDown' = {} /\ Due(toDown') = {} /\ OwnAnswerUnlessChatter'
  <2>1. DOMAIN fromDown = {} /\ Due(toDown) = {} /\ OwnAnswerUnlessChatter
    BY <1>1, <1>5, NothingPending DEF ShiftInv, OwnInv
  <2>2. Due(toDown') = {}
    BY <1>3, <2>1, FS_EmptySet
  <2> QED  BY <1>1, <2>1, <2>2 DEF OwnAnswerUnlessChatter
<1> QED  BY <1>1, <1>4, <1>5 DEF ShiftInv, OwnInv, Due

\* Forwarding opens an exchange with one message that is answered.
LEMMA ForwardShift ==
    ASSUME Inv, HandInv, ShiftInv, Forward
    PROVE  ShiftInv'
<1>1. /\ req \in Requests /\ req # NoRequest /\ req.method \in Answered /\ pc = "forwarding"
      /\ TypeOK /\ UNCHANGED <<fromDown, downUp, chatter>>
  BY InHand DEF Forward, HandInv, Inv
<1>2. CASE Respond(Own("internal")) /\ UNCHANGED toDown
  BY <1>1, <1>2, ShiftOwn DEF AnswerKinds
<1>3. CASE downUp /\ toDown' = Append(toDown, req) /\ pc' = "receiving" /\ UNCHANGED <<answers, req>>
  <2>1. IsFiniteSet(Due(toDown')) /\ Cardinality(Due(toDown')) = Cardinality(Due(toDown)) + 1
    BY <1>1, <1>3, DueAppend DEF TypeOK, ShiftInv, CountInv
  <2>2. CountInv'
    <3>1. Open = 0 /\ Open' = 1 /\ Owed' = Owed + 1
      BY <1>1, <1>3, <2>1 DEF Open, Owed, Due
    <3>2. Len(fromDown) \in Nat /\ Owed \in Nat /\ chatter \in Nat
      BY <1>1, Sizes DEF ShiftInv, CountInv
    <3>3. Len(fromDown) + (Owed + 1) = chatter + 1
      BY <1>3, <3>1, <3>2 DEF ShiftInv, CountInv
    <3>4. Len(fromDown') + Owed' = chatter' + Open' /\ Len(fromDown') + Owed' <= chatter' + Open'
      BY <1>1, <3>1, <3>2, <3>3
    <3> QED  BY <1>1, <1>3, <2>1, <3>4 DEF CountInv, Due
  <2>3. ASSUME chatter = 0
        PROVE  /\ DOMAIN fromDown' = {} /\ OwnAnswerUnlessChatter'
               /\ \A i \in Due(toDown') : toDown'[i] = req
    <3>1. DOMAIN fromDown = {} /\ Due(toDown) = {} /\ OwnAnswerUnlessChatter
      BY <1>1, <2>3, NothingPending DEF ShiftInv, OwnInv
    <3>2. /\ DOMAIN toDown = 1..Len(toDown) /\ Len(toDown) \in Nat
          /\ DOMAIN toDown' = 1..(Len(toDown) + 1)
          /\ \A i \in 1..Len(toDown) : toDown'[i] = toDown[i]
          /\ toDown'[Len(toDown) + 1] = req
      BY <1>1, <1>3 DEF TypeOK
    <3>3. \A i \in 1..(Len(toDown) + 1) : i = Len(toDown) + 1 \/ i \in 1..Len(toDown)
      BY <3>2
    <3>4. \A i \in Due(toDown') : toDown'[i] = req
      BY <3>1, <3>2, <3>3 DEF Due
    <3> QED  BY <1>1, <1>3, <3>1, <3>4 DEF OwnAnswerUnlessChatter
  <2> QED  BY <1>1, <1>3, <2>2, <2>3 DEF ShiftInv, OwnInv, Due
<1> QED  BY <1>2, <1>3 DEF Forward

\* An exchange is closed with the next message, or with none when the server has gone.
LEMMA ReceiveShift ==
    ASSUME Inv, ShiftInv, Receive
    PROVE  ShiftInv'
<1>1. /\ req \in Requests /\ req # NoRequest /\ pc = "receiving"
      /\ TypeOK /\ UNCHANGED <<toDown, downUp, chatter>>
  BY InHand DEF Receive, Inv
<1>2. /\ Len(fromDown) \in Nat /\ Owed \in Nat /\ chatter \in Nat
      /\ (Owed = 0 => Due(toDown) = {})
  BY <1>1, Sizes DEF ShiftInv, CountInv
<1>3. pc' \in {"reading", "stopped"} /\ req' = NoRequest
  BY DEF Receive, Respond
<1>4. Open = 1 /\ Open' = 0 /\ Owed' = Owed
  BY <1>1, <1>3 DEF Open, Owed
<1>5. CASE fromDown # <<>>
  <2> DEFINE m == Head(fromDown)
  <2>1. /\ fromDown' = Tail(fromDown) /\ m \in Message /\ m = fromDown[1] /\ 1 \in DOMAIN fromDown
        /\ Len(fromDown) # 0 /\ Len(fromDown') = Len(fromDown) - 1
        /\ (Len(fromDown) = 1 => DOMAIN fromDown' = {})
    BY <1>1, <1>5 DEF Receive, TypeOK
  <2>2. Respond(Own("internal")) \/ Respond(Relayed(m))
    BY <1>5 DEF Receive
  <2> HIDE DEF m
  <2>3. CountInv'
    <3>1. IsFiniteSet(Due(toDown)) /\ (~downUp => toDown = <<>>)
      BY DEF ShiftInv, CountInv
    <3>2. Len(fromDown') + Owed' <= chatter' + Open'
          /\ (downUp => Len(fromDown') + Owed' = chatter' + Open')
      BY <1>1, <1>2, <1>4, <2>1 DEF ShiftInv, CountInv
    <3> QED  BY <1>1, <3>1, <3>2 DEF CountInv, Due
  <2>4. chatter = 0 => m.of = req /\ DOMAIN fromDown' = {} /\ Due(toDown) = {}
    <3>1. SUFFICES ASSUME chatter = 0
                   PROVE  m.of = req /\ DOMAIN fromDown' = {} /\ Due(toDown) = {}
      OBVIOUS
    <3>2. Len(fromDown) + Owed <= 1
      BY <1>4, <3>1 DEF ShiftInv, CountInv
    <3>3. Len(fromDown) = 1 /\ Owed = 0
      BY <1>2, <2>1, <3>2
    <3> QED  BY <1>2, <2>1, <3>1, <3>3 DEF ShiftInv, OwnInv
  <2>5. OwnAnswerUnlessChatter'
    <3>1. /\ Own("internal") \in Answer /\ Own("internal").kind = "internal"
          /\ Relayed(m) \in Answer /\ Relayed(m).to = req
      BY <1>1, <2>1, AnswersTyped DEF AnswerKinds
    <3>2. Relayed(m).of = m.of
      BY DEF Relayed
    <3>3. chatter = 0 => OwnAnswerUnlessChatter
      BY DEF ShiftInv, OwnInv
    <3>4. CASE Respond(Own("internal"))
      BY <1>1, <3>1, <3>3, <3>4, AnswersOwn
    <3>5. CASE Respond(Relayed(m))
      BY <1>1, <2>4, <3>1, <3>2, <3>3, <3>5, AnswersOwn
    <3> QED  BY <2>2, <3>4, <3>5
  <2> QED  BY <1>1, <2>3, <2>4, <2>5 DEF ShiftInv, OwnInv, Due
<1>6. CASE fromDown = <<>>
  <2>1. ~downUp /\ Respond(Own("internal")) /\ fromDown' = fromDown
    BY <1>6 DEF Receive
  <2>2. Due(toDown) = {} /\ Len(fromDown) = 0 /\ Owed = 0 /\ DOMAIN fromDown = {}
    <3>1. toDown = <<>>
      BY <2>1 DEF ShiftInv, CountInv
    <3>2. Due(toDown) = {}
      BY <3>1 DEF Due
    <3>3. Owed = 0
      BY <3>2, FS_EmptySet DEF Owed, Due
    <3>4. Len(fromDown) = 0 /\ DOMAIN fromDown = {}
      BY <1>6
    <3> QED  BY <3>2, <3>3, <3>4
  <2>3. CountInv'
    BY <1>1, <1>2, <1>4, <2>1, <2>2 DEF ShiftInv, CountInv, Due
  <2>4. OwnAnswerUnlessChatter'
    BY <1>1, <2>1, AnswersTyped, AnswersOwn DEF ShiftInv, OwnInv, AnswerKinds
  <2> QED  BY <1>1, <2>1, <2>2, <2>3, <2>4 DEF ShiftInv, OwnInv, Due
<1> QED  BY <1>5, <1>6

\* The server answers what it takes, so that its pipes together hold as much as before.
LEMMA HandlesShift ==
    ASSUME TypeOK, ShiftInv, ServerHandles
    PROVE  ShiftInv'
<1> DEFINE m == Head(toDown)
<1>1. /\ downUp /\ toDown # <<>> /\ toDown' = Tail(toDown)
      /\ UNCHANGED <<answers, pc, req, downUp, chatter>>
  BY DEF ServerHandles, proxyVars
<1>2. /\ m \in Requests /\ IsFiniteSet(Due(toDown'))
      /\ Cardinality(Due(toDown)) = Cardinality(Due(toDown')) + (IF m.method \in Answered THEN 1 ELSE 0)
      /\ Cardinality(Due(toDown')) \in Nat
  BY <1>1, InTail, DueTail, FS_CardinalityType DEF TypeOK, ShiftInv, CountInv
<1>3. /\ DOMAIN toDown = 1..Len(toDown) /\ Len(toDown) \in Nat /\ m = toDown[1]
      /\ 1 \in DOMAIN toDown /\ DOMAIN toDown' = 1..(Len(toDown) - 1)
      /\ \A i \in 1..(Len(toDown) - 1) : toDown'[i] = toDown[i + 1]
  BY <1>1 DEF TypeOK
<1>4. \A i \in Due(toDown') : i + 1 \in Due(toDown) /\ toDown'[i] = toDown[i + 1]
  <2>1. \A i \in 1..(Len(toDown) - 1) : i + 1 \in 1..Len(toDown)
    BY <1>3
  <2> QED  BY <1>3, <2>1 DEF Due
<1>5. /\ Len(fromDown) \in Nat /\ chatter \in Nat /\ Open \in {0, 1} /\ Open' = Open
      /\ Owed = Cardinality(Due(toDown)) /\ Owed' = Cardinality(Due(toDown'))
  BY <1>1, Sizes DEF ShiftInv, CountInv, Open, Owed, Due
<1>6. chatter = 0 => OwnAnswerUnlessChatter'
  BY <1>1 DEF ShiftInv, OwnInv, OwnAnswerUnlessChatter
<1>7. CASE m.method \in Answered
  <2>1. PICK a \in Message : fromDown' = Append(fromDown, a) /\ a.of = m
    <3>1. \A kind \in Outcomes(m) :
             [kind |-> kind, of |-> m] \in Message /\ [kind |-> kind, of |-> m].of = m
      BY <1>2 DEF Message, Outcomes
    <3>2. \E kind \in Outcomes(m) : fromDown' = Append(fromDown, [kind |-> kind, of |-> m])
      BY <1>7 DEF ServerHandles
    <3> HIDE DEF m
    <3> QED  BY <3>1, <3>2
  <2> HIDE DEF m
  <2>2. /\ DOMAIN fromDown = 1..Len(fromDown) /\ DOMAIN fromDown' = 1..(Len(fromDown) + 1)
        /\ \A i \in 1..Len(fromDown) : fromDown'[i] = fromDown[i]
        /\ fromDown'[Len(fromDown) + 1] = a /\ Len(fromDown') = Len(fromDown) + 1
    BY <2>1 DEF TypeOK
  <2>3. \A i \in 1..(Len(fromDown) + 1) : i = Len(fromDown) + 1 \/ i \in 1..Len(fromDown)
    BY <1>5
  <2>4. CountInv'
    <3>1. Len(fromDown') + Owed' = Len(fromDown) + Owed
      BY <1>2, <1>5, <1>7, <2>2
    <3> QED  BY <1>1, <1>2, <1>5, <3>1 DEF ShiftInv, CountInv, Due
  <2>5. ASSUME chatter = 0
        PROVE  /\ \A i \in DOMAIN fromDown' : fromDown'[i].of = req
               /\ \A i \in Due(toDown') : toDown'[i] = req
    <3>1. m = req
      BY <1>3, <1>7, <2>5 DEF ShiftInv, OwnInv, Due
    <3> QED  BY <1>4, <2>1, <2>2, <2>3, <2>5, <3>1 DEF ShiftInv, OwnInv
  <2> QED  BY <1>1, <1>6, <2>4, <2>5 DEF ShiftInv, OwnInv, Due
<1>8. CASE m.method \notin Answered
  <2> fromDown' = fromDown
    BY <1>8 DEF ServerHandles
  <2> HIDE DEF m
  <2>1. CountInv'
    <3>1. Len(fromDown') + Owed' = Len(fromDown) + Owed
      BY <1>2, <1>5, <1>8
    <3> QED  BY <1>1, <1>2, <1>5, <3>1 DEF ShiftInv, CountInv, Due
  <2>2. chatter = 0 => \A i \in Due(toDown') : toDown'[i] = req
    BY <1>4 DEF ShiftInv, OwnInv
  <2> QED  BY <1>1, <1>6, <2>1, <2>2 DEF ShiftInv, OwnInv, Due
<1> QED  BY <1>7, <1>8

\* What the server says of its own accord is counted; when it exits nothing is due.
LEMMA SpeaksOrExitsShift ==
    ASSUME TypeOK, ShiftInv, ServerSpeaks \/ ServerExits
    PROVE  ShiftInv'
<1>1. /\ Len(fromDown) \in Nat /\ Owed \in Nat /\ chatter \in Nat /\ Open \in {0, 1} /\ Open' = Open
  BY Sizes DEF ShiftInv, CountInv, Open, ServerSpeaks, ServerExits, proxyVars
<1>2. CASE ServerSpeaks
  <2>1. /\ chatter' = chatter + 1 /\ downUp /\ UNCHANGED <<toDown, downUp>>
        /\ Len(fromDown') = Len(fromDown) + 1
    <3>1. PICK kind \in {"notification", "request"} :
             fromDown' = Append(fromDown, [kind |-> kind, of |-> NoRequest])
      BY <1>2 DEF ServerSpeaks
    <3>2. [kind |-> kind, of |-> NoRequest] \in Message
      BY DEF Message
    <3>3. Len(fromDown') = Len(fromDown) + 1
      BY <3>1, <3>2 DEF TypeOK
    <3> QED  BY <1>2, <3>3 DEF ServerSpeaks
  <2>2. Owed' = Owed
    BY <2>1 DEF Owed
  <2>3. CountInv'
    BY <1>1, <2>1, <2>2 DEF ShiftInv, CountInv, Due
  <2>4. chatter' # 0
    BY <1>1, <2>1
  <2> QED  BY <2>3, <2>4 DEF ShiftInv, OwnInv
<1>3. CASE ServerExits
  <2>1. /\ ~downUp' /\ toDown' = <<>> /\ UNCHANGED <<answers, req, fromDown, chatter>>
    BY <1>3 DEF ServerExits, proxyVars
  <2>2. Due(toDown') = {} /\ IsFiniteSet(Due(toDown')) /\ Owed' = 0
    <3>1. Due(toDown') = {}
      BY <2>1 DEF Due
    <3> QED  BY <3>1, FS_EmptySet DEF Owed, Due
  <2>3. CountInv'
    <3>1. Len(fromDown) + 0 <= chatter + Open
      BY <1>1 DEF ShiftInv, CountInv
    <3> QED  BY <1>1, <2>1, <2>2, <3>1 DEF CountInv, Due
  <2> QED  BY <2>1, <2>2, <2>3 DEF ShiftInv, OwnInv, Due, OwnAnswerUnlessChatter
<1> QED  BY <1>2, <1>3

\* The count of the pipes and the owner of what is in them survive every step.
LEMMA ShiftStep ==
    ASSUME Inv, HandInv, ShiftInv, [Next]_vars
    PROVE  ShiftInv'
<1>1. TypeOK
  BY DEF Inv
<1>2. CASE UNCHANGED <<answers, pc, req, toDown, fromDown, downUp, chatter>>
  BY <1>2, ShiftQuiet DEF Open
<1>3. CASE ReadInitialized \/ Forward \/ Receive
  BY <1>1, <1>3, InitializedShift, ForwardShift, ReceiveShift
<1>4. CASE ServerHandles \/ ServerSpeaks \/ ServerExits
  BY <1>1, <1>4, HandlesShift, SpeaksOrExitsShift
<1>5. CASE ReadRequest \/ ReadEof
  BY <1>1, <1>5, ShiftOutside DEF ReadRequest, ReadEof, serverVars
<1>6. CASE Decide \/ EnforceAnswered \/ BindingAnswered
  <2>1. /\ req # NoRequest /\ pc # "receiving" /\ UNCHANGED <<toDown, fromDown, downUp, chatter>>
    BY <1>6, InHand DEF Decide, EnforceAnswered, BindingAnswered, serverVars
  <2>2. CASE \E kind \in AnswerKinds \ {"relayed"} : Respond(Own(kind))
    BY <1>1, <2>1, <2>2, ShiftOwn
  <2>3. CASE pc' # "receiving" /\ UNCHANGED answers
    BY <1>1, <2>1, <2>3, ShiftOutside
  <2> QED  BY <1>6, <2>2, <2>3 DEF Decide, EnforceAnswered, BindingAnswered, AnswerKinds
<1> QED
  BY <1>2, <1>3, <1>4, <1>5, <1>6 DEF Next, Proxy, Send, SubmitGrant, Close, ReadMalformed,
     GatewayTimeout, GatewayEnforce, GatewaySignBinding, MandateExpires, vars, proxyVars, serverVars

\* The count and the owners hold in every reachable state.
LEMMA AlwaysShift == Spec => [](HandInv /\ ShiftInv)
<1>1. ASSUME Init
      PROVE  HandInv /\ ShiftInv
  <2>1. Due(<<>>) = {} /\ Len(<<>>) = 0 /\ DOMAIN <<>> = {}
    BY DEF Due
  <2>2. CountInv
    BY <1>1, <2>1, FS_EmptySet DEF Init, CountInv, Owed, Due, Open
  <2>3. OwnInv /\ HandInv
    BY <1>1, <2>1 DEF Init, OwnInv, HandInv, OwnAnswerUnlessChatter
  <2> QED  BY <2>2, <2>3 DEF ShiftInv
<1>2. Inv /\ HandInv /\ ShiftInv /\ [Next]_vars => (HandInv /\ ShiftInv)'
  BY HandStep, ShiftStep
<1> QED  BY <1>1, <1>2, AlwaysInv, PTL DEF Spec

\* As long as the server only answers, what call_downstream takes for the answer to
\* a message is the answer to that message.
THEOREM AnswersAreOwn == Spec => []OwnAnswerUnlessChatter
<1>1. HandInv /\ ShiftInv => OwnAnswerUnlessChatter
  BY DEF ShiftInv, OwnInv, OwnAnswerUnlessChatter
<1> QED  BY <1>1, AlwaysShift, PTL

\* Each message the server sends of its own accord shifts the answers by one, and
\* nothing in run_proxy ever brings them back into step.
THEOREM ShiftIsForGood == Spec => []ExchangesStayShifted
<1>1. ASSUME TypeOK, ShiftInv, pc = "reading", downUp
      PROVE  Len(fromDown) + Owed = chatter
  BY <1>1, Sizes DEF ShiftInv, CountInv, Open
<1>2. TypeOK /\ HandInv /\ ShiftInv => ExchangesStayShifted
  BY <1>1 DEF ExchangesStayShifted
<1> QED  BY <1>2, AlwaysShift, TypeCorrect, PTL
=============================================================================
