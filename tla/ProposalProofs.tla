--------------------------- MODULE ProposalProofs ---------------------------
(***************************************************************************)
(* Theorems about Proposal.tla, for any commands, reviewers, keys, risk    *)
(* and bounds.                                                             *)
(***************************************************************************)
EXTENDS Proposal, FiniteSetTheorems, TLAPS

Contents == Proposals \cup Unreadable

\* The three things a file without a proposal may be, and the new proposal.
LEMMA ContentFacts ==
    /\ Blank("absent") \in Unreadable
    /\ Blank("empty") \in Unreadable
    /\ Blank("garbled") \in Unreadable
    /\ \A t \in 0..MaxTime : NewProposal(t) \in Proposals
    /\ Proposals \cap Unreadable = {}
  <1>1. \A t \in 0..MaxTime : t + TTL \in 1..(MaxTime + TTL)
    BY ProposalAssumption
  <1>2. \A t \in 0..MaxTime : NewProposal(t) \in Proposals
    BY <1>1 DEF NewProposal, Proposals
  <1>3. Proposals \cap Unreadable = {}
    BY DEF Proposals, Unreadable
  <1> QED
    BY <1>2, <1>3 DEF Blank, Unreadable

\* A reviewed proposal is a proposal.
LEMMA ReviewedType ==
    ASSUME NEW p \in Proposals, NEW r \in Reviews, NEW d \in Decisions
    PROVE  /\ Reviewed(p, r, d) \in Proposals
           /\ Reviewed(p, r, d).reviews = Append(p.reviews, NewReview(r, d))
           /\ Reviewed(p, r, d).status =
                 StatusAfter([p EXCEPT !.reviews = Append(@, NewReview(r, d))], d)
  <1> DEFINE q == [p EXCEPT !.reviews = Append(@, NewReview(r, d))]
  <1>1. NewReview(r, d) \in Review
    BY ProposalAssumption DEF NewReview, Review
  <1>2. p.reviews \in Seq(Review)
    BY DEF Proposals
  <1>3. Append(p.reviews, NewReview(r, d)) \in Seq(Review)
    BY <1>1, <1>2
  <1>4. q \in Proposals /\ q.reviews = Append(p.reviews, NewReview(r, d))
    BY <1>3 DEF Proposals
  <1> HIDE DEF q
  <1>5. StatusAfter(q, d) \in {"Pending", "Approved", "Rejected"}
    BY <1>4 DEF StatusAfter, Proposals
  <1>6. [q EXCEPT !.status = StatusAfter(q, d)] \in Proposals
    BY <1>4, <1>5 DEF Proposals
  <1>7. /\ [q EXCEPT !.status = StatusAfter(q, d)].reviews = q.reviews
        /\ [q EXCEPT !.status = StatusAfter(q, d)].status = StatusAfter(q, d)
    BY <1>4 DEF Proposals
  <1>8. Reviewed(p, r, d) = [q EXCEPT !.status = StatusAfter(q, d)]
    BY DEF Reviewed, q
  <1> QED
    BY <1>4, <1>6, <1>7, <1>8 DEF q

\* A proposal whose deadline was edited is still one.
LEMMA EditedType ==
    ASSUME NEW p \in Proposals, NEW q, q = [p EXCEPT !.expires_at = NoDeadline]
    PROVE  q \in Proposals /\ q.reviews = p.reviews /\ q.status = p.status
  BY DEF Proposals

(***************************************************************************)
(* A command in its middle stages has a proposal in memory.                *)
(***************************************************************************)
InHand(c) ==
    \/ c \in Reviews /\ pc[c] \in {"review", "truncate", "write", "log"}
    \/ c \in Signings /\ (pc[c] = "check" \/ c \in signed)
    \/ c = Proposer /\ pc[c] = "write"

TypeInv ==
    /\ TypeOK
    /\ pc \in [Commands -> ReviewStages \cup SignStages \cup ProposeStages]
    /\ \A c \in Commands : InHand(c) => copy[c] \in Proposals
    /\ \A s \in signed : pc[s] = "done"

\* Every step keeps the types.
LEMMA TypeInductive == TypeInv /\ [Next]_vars => TypeInv'
  <1> SUFFICES ASSUME TypeInv, [Next]_vars
               PROVE  TypeInv'
    OBVIOUS
  <1> USE DEF Commands, ReviewStages, SignStages, ProposeStages, Over
  <1>0. /\ Proposer \notin Reviews \cup Signings /\ Reviews \cap Signings = {}
        /\ file \in Contents /\ copy \in [Commands -> Contents]
    BY ProposalAssumption DEF TypeInv, TypeOK, Contents
  <1>1. CASE Create
    <2>1. NewProposal(now) \in Proposals
      BY ContentFacts DEF TypeInv, TypeOK
    <2> QED
      BY <1>0, <1>1, <2>1, ContentFacts DEF Create, Goto, TypeInv, TypeOK, InHand
  <1>2. CASE WriteNew
    BY <1>0, <1>2 DEF WriteNew, Goto, TypeInv, TypeOK, InHand
  <1>3. CASE LogNew
    BY <1>0, <1>3 DEF LogNew, Goto, TypeInv, TypeOK, InHand
  <1>4. ASSUME NEW r \in Reviews, ReadForReview(r) PROVE TypeInv'
    <2>1. file \in Proposals
      BY <1>0, <1>4 DEF ReadForReview, ReadFile, Contents
    <2> QED
      BY <1>0, <1>4, <2>1 DEF ReadForReview, ReadFile, Goto, TypeInv, TypeOK, InHand
  <1>5. ASSUME NEW r \in Reviews, NEW d \in Decisions, ReviewCopy(r, d) PROVE TypeInv'
    <2>1. Reviewed(copy[r], r, d) \in Proposals
      BY <1>5, ReviewedType DEF ReviewCopy, TypeInv, InHand
    <2> QED
      BY <1>0, <1>5, <2>1 DEF ReviewCopy, Goto, TypeInv, TypeOK, InHand
  <1>6. ASSUME NEW r \in Reviews, RefuseReview(r) PROVE TypeInv'
    BY <1>0, <1>6, ContentFacts DEF RefuseReview, Fail, Goto, TypeInv, TypeOK, InHand
  <1>7. ASSUME NEW r \in Reviews, Truncate(r) PROVE TypeInv'
    BY <1>0, <1>7, ContentFacts DEF Truncate, Goto, TypeInv, TypeOK, InHand
  <1>8. ASSUME NEW r \in Reviews, WriteBack(r) PROVE TypeInv'
    <2>1. file' \in Contents
      BY <1>0, <1>8, ContentFacts DEF WriteBack, Filled, Contents
    <2> QED
      BY <1>0, <1>8, <2>1 DEF WriteBack, Goto, TypeInv, TypeOK, InHand, Contents
  <1>9. ASSUME NEW r \in Reviews, LogReview(r) PROVE TypeInv'
    BY <1>0, <1>9 DEF LogReview, Goto, TypeInv, TypeOK, InHand
  <1>10. ASSUME NEW s \in Signings, ReadForSigning(s) PROVE TypeInv'
    <2>1. file \in Proposals
      BY <1>0, <1>10 DEF ReadForSigning, ReadFile, Contents
    <2> QED
      BY <1>0, <1>10, <2>1 DEF ReadForSigning, ReadFile, Goto, TypeInv, TypeOK, InHand
  <1>11. ASSUME NEW s \in Signings, Sign(s) PROVE TypeInv'
    BY <1>0, <1>11 DEF Sign, Goto, TypeInv, TypeOK, InHand
  <1>12. ASSUME NEW s \in Signings, RefuseToSign(s) PROVE TypeInv'
    BY <1>0, <1>12, ContentFacts DEF RefuseToSign, Fail, Goto, TypeInv, TypeOK, InHand
  <1>13. ASSUME NEW c \in Commands, Abandon(c) PROVE TypeInv'
    BY <1>0, <1>13, ContentFacts DEF Abandon, Fail, Goto, TypeInv, TypeOK, InHand
  <1>14. CASE Tick
    BY <1>0, <1>14, ProposalAssumption DEF Tick, TypeInv, TypeOK, InHand
  <1>16. CASE EditDeadline
    <2>1. file' \in Proposals
      BY <1>0, <1>16, EditedType DEF EditDeadline, Contents
    <2> QED
      BY <1>0, <1>16, <2>1 DEF EditDeadline, TypeInv, TypeOK, InHand
  <1>15. CASE UNCHANGED vars
    BY <1>0, <1>15 DEF vars, TypeInv, TypeOK, InHand
  <1> QED
    BY <1>1, <1>2, <1>3, <1>4, <1>5, <1>6, <1>7, <1>8, <1>9, <1>10, <1>11, <1>12, <1>13,
       <1>14, <1>15, <1>16 DEF Next

\* The types hold initially.
LEMMA TypeInitially == Init => TypeInv
  BY ContentFacts, ProposalAssumption
     DEF Init, TypeInv, TypeOK, InHand, Commands, ReviewStages, SignStages, ProposeStages

\* They hold in every reachable state.
LEMMA TypeAlways == Spec => []TypeInv
  BY TypeInitially, TypeInductive, PTL DEF Spec

\* In every reachable state the variables have their types (Proposal).
THEOREM TypeCorrect == Spec => []TypeOK
  BY TypeAlways, PTL DEF TypeInv
-----------------------------------------------------------------------------
(***************************************************************************)
(* A proposal no review of which breaks the rules: every reviewer is in it *)
(* once, its status is what its last review made it, and no review follows *)
(* a rejection.                                                            *)
(***************************************************************************)
Sound(p) ==
    /\ \A i, j \in DOMAIN p.reviews :
          i # j => p.reviews[i].reviewer_did # p.reviews[j].reviewer_did
    /\ p.status = Decided(p)
    /\ \A i \in DOMAIN p.reviews : i < Len(p.reviews) => p.reviews[i].decision # "Reject"

\* Every review shown was made by a command of S.
MadeBy(p, S) == \A i \in DOMAIN p.reviews : p.reviews[i].from \in S

\* The status a review leads to depends on the reviews and the old status only.
LEMMA StatusAfterDepends ==
    ASSUME NEW p, NEW q, NEW d, p.reviews = q.reviews, p.status = q.status
    PROVE  StatusAfter(p, d) = StatusAfter(q, d)
  BY DEF StatusAfter, Approvals

\* A pending proposal has no rejection.
LEMMA PendingUnrejected ==
    ASSUME NEW p \in Proposals, Sound(p), p.status = "Pending"
    PROVE  \A i \in DOMAIN p.reviews : p.reviews[i].decision # "Reject"
  <1> SUFFICES ASSUME NEW i \in DOMAIN p.reviews, p.reviews[i].decision = "Reject"
               PROVE  FALSE
    OBVIOUS
  <1>1. p.reviews \in Seq(Review)
    BY DEF Proposals
  <1>2. i = Len(p.reviews) /\ p.reviews # <<>>
    BY <1>1 DEF Sound
  <1>3. p.status = StatusAfter([p EXCEPT !.status = "Pending"], "Reject")
    BY <1>2 DEF Sound, Decided
  <1> QED
    BY <1>3 DEF StatusAfter

\* A review of a pending proposal by somebody new keeps it sound.
LEMMA ReviewKeepsSound ==
    ASSUME NEW p \in Proposals, Sound(p), NEW r \in Reviews, NEW d \in Decisions,
           MayReview(p, r)
    PROVE  Sound(Reviewed(p, r, d))
  <1> DEFINE v == NewReview(r, d)
             n == Len(p.reviews)
             half == [p EXCEPT !.reviews = Append(@, v)]
             q == Reviewed(p, r, d)
             fresh == [q EXCEPT !.status = "Pending"]
  <1>1. /\ q \in Proposals
        /\ q.reviews = Append(p.reviews, v)
        /\ q.status = StatusAfter(half, d)
    BY ReviewedType
  <1>2. v.reviewer_did = ReviewerOf[r] /\ v.decision = d /\ p.status = "Pending"
    BY DEF NewReview, MayReview
  <1>3. p.reviews \in Seq(Review)
    BY DEF Proposals
  <1>4. half.reviews = Append(p.reviews, v) /\ half.status = "Pending"
    BY <1>2 DEF Proposals
  <1>5. fresh.reviews = q.reviews /\ fresh.status = "Pending"
    BY <1>1 DEF Proposals
  <1> HIDE DEF v, half, q, fresh
  <1>6. /\ Len(q.reviews) = n + 1
        /\ DOMAIN q.reviews = 1..(n + 1)
        /\ DOMAIN p.reviews = 1..n
        /\ n \in Nat
        /\ q.reviews[n + 1] = v
        /\ \A i \in 1..n : q.reviews[i] = p.reviews[i]
        /\ q.reviews # <<>>
    BY <1>1, <1>3
  <1>7. \A i \in 1..n : p.reviews[i].reviewer_did # v.reviewer_did
    BY <1>2, <1>6 DEF MayReview, ReviewedBy
  <1>8. \A i, j \in DOMAIN q.reviews :
           i # j => q.reviews[i].reviewer_did # q.reviews[j].reviewer_did
    <2> SUFFICES ASSUME NEW i \in 1..(n + 1), NEW j \in 1..(n + 1), i # j
                 PROVE  q.reviews[i].reviewer_did # q.reviews[j].reviewer_did
      BY <1>6
    <2>1. (i \in 1..n \/ i = n + 1) /\ (j \in 1..n \/ j = n + 1)
      BY <1>6
    <2> QED
      BY <2>1, <1>6, <1>7 DEF Sound
  <1>9. q.status = Decided(q)
    <2>1. StatusAfter(half, d) = StatusAfter(fresh, d)
      BY <1>1, <1>4, <1>5, StatusAfterDepends
    <2>2. Decided(q) = StatusAfter(fresh, d)
      BY <1>2, <1>6 DEF Decided, fresh
    <2> QED
      BY <1>1, <2>1, <2>2
  <1>10. \A i \in DOMAIN q.reviews : i < Len(q.reviews) => q.reviews[i].decision # "Reject"
    BY <1>2, <1>6, PendingUnrejected
  <1> QED
    BY <1>8, <1>9, <1>10 DEF Sound, q

(***************************************************************************)
(* Wherever a proposal is, in the file or in a command's memory, it is     *)
(* sound and shows only reviews that reached the file, save the one its    *)
(* command is about to write.                                              *)
(***************************************************************************)
Kept(p, S) == Sound(p) /\ MadeBy(p, S)

ReviewInv ==
    /\ file \in Proposals => Kept(file, written)
    /\ \A r \in Reviews :
          /\ pc[r] = "review" => Kept(copy[r], written)
          /\ pc[r] \in {"truncate", "write", "log"} => Kept(copy[r], written \cup {r})
    /\ \A s \in Signings : pc[s] = "check" \/ s \in signed => Kept(copy[s], written)
    /\ pc[Proposer] = "write" => Kept(copy[Proposer], written)
    /\ \A s \in signed : copy[s].status = "Approved"

\* More commands may have written; a new proposal is sound.
LEMMA KeptGrows ==
    ASSUME NEW p, NEW S, NEW T, Kept(p, S), S \subseteq T
    PROVE  Kept(p, T)
  BY DEF Kept, MadeBy

\* A new proposal is sound and shows nothing.
LEMMA NewProposalKept == \A t \in 0..MaxTime : Kept(NewProposal(t), written)
  <1>1. \A t \in 0..MaxTime :
           NewProposal(t).reviews = <<>> /\ NewProposal(t).status = "Pending"
    BY DEF NewProposal
  <1> QED
    BY <1>1 DEF Kept, Sound, MadeBy, Decided

\* A review adds to the reviews shown the one of its own command.
LEMMA ReviewKept ==
    ASSUME NEW p \in Proposals, NEW r \in Reviews, NEW d \in Decisions, NEW S,
           Kept(p, S), MayReview(p, r)
    PROVE  Kept(Reviewed(p, r, d), S \cup {r})
  <1> DEFINE q == Reviewed(p, r, d)
  <1>1. q.reviews = Append(p.reviews, NewReview(r, d)) /\ p.reviews \in Seq(Review)
    BY ReviewedType DEF Proposals
  <1>2. NewReview(r, d).from = r
    BY DEF NewReview
  <1> HIDE DEF q
  <1>3. \A i \in DOMAIN q.reviews :
           q.reviews[i] = NewReview(r, d) \/ (i \in DOMAIN p.reviews /\ q.reviews[i] = p.reviews[i])
    BY <1>1
  <1>4. MadeBy(q, S \cup {r})
    BY <1>2, <1>3 DEF Kept, MadeBy
  <1>5. Sound(q)
    BY ReviewKeepsSound DEF Kept, q
  <1> QED
    BY <1>4, <1>5 DEF Kept, q

\* Editing the deadline changes nothing of that.
LEMMA EditKept ==
    ASSUME NEW p \in Proposals, NEW q, q = [p EXCEPT !.expires_at = NoDeadline],
           NEW S, Kept(p, S)
    PROVE  Kept(q, S)
  <1> DEFINE a == [p EXCEPT !.status = "Pending"]
             b == [q EXCEPT !.status = "Pending"]
             last == p.reviews[Len(p.reviews)].decision
  <1>1. q \in Proposals /\ q.reviews = p.reviews /\ q.status = p.status
    BY EditedType
  <1>2. /\ a.reviews = p.reviews /\ a.status = "Pending"
        /\ b.reviews = q.reviews /\ b.status = "Pending"
    BY <1>1 DEF Proposals
  <1> HIDE DEF a, b
  <1>3. StatusAfter(a, last) = StatusAfter(b, last)
    BY <1>1, <1>2, StatusAfterDepends
  <1>4. Decided(q) = Decided(p)
    BY <1>1, <1>3 DEF Decided, a, b
  <1> QED
    BY <1>1, <1>4 DEF Kept, Sound, MadeBy

\* Every step keeps the proposals sound.
LEMMA ReviewInductive == TypeInv /\ ReviewInv /\ [Next]_vars => ReviewInv'
  <1> SUFFICES ASSUME TypeInv, ReviewInv, [Next]_vars
               PROVE  ReviewInv'
    OBVIOUS
  <1> USE DEF Commands
  <1>0. /\ Proposer \notin Reviews \cup Signings /\ Reviews \cap Signings = {}
        /\ copy \in [Commands -> Contents] /\ DOMAIN copy = Commands
        /\ pc \in [Commands -> ReviewStages \cup SignStages \cup ProposeStages]
        /\ DOMAIN pc = Commands
        /\ file \in Contents /\ now \in 0..MaxTime
        /\ \A s \in signed : s \in Signings /\ pc[s] = "done"
    BY ProposalAssumption DEF TypeInv, TypeOK, Contents
  <1>1. CASE Create
    <2>1. Kept(NewProposal(now), written)
      BY <1>0, NewProposalKept
    <2>2. file' \notin Proposals
      BY <1>1, ContentFacts DEF Create
    <2> QED
      BY <1>0, <1>1, <2>1, <2>2 DEF Create, Goto, ReviewInv
  <1>2. CASE WriteNew
    BY <1>0, <1>2 DEF WriteNew, Goto, ReviewInv
  <1>3. CASE LogNew
    BY <1>0, <1>3 DEF LogNew, Goto, ReviewInv
  <1>4. ASSUME NEW r \in Reviews, ReadForReview(r) PROVE ReviewInv'
    <2>1. Kept(file, written)
      BY <1>0, <1>4 DEF ReadForReview, ReadFile, ReviewInv, Contents
    <2> QED
      BY <1>0, <1>4, <2>1 DEF ReadForReview, ReadFile, Goto, ReviewInv
  <1>5. ASSUME NEW r \in Reviews, NEW d \in Decisions, ReviewCopy(r, d) PROVE ReviewInv'
    <2>1. Kept(Reviewed(copy[r], r, d), written \cup {r})
      BY <1>0, <1>5, ReviewKept DEF ReviewCopy, ReviewInv, TypeInv, InHand
    <2> QED
      BY <1>0, <1>5, <2>1 DEF ReviewCopy, Goto, ReviewInv
  <1>6. ASSUME NEW r \in Reviews, RefuseReview(r) PROVE ReviewInv'
    BY <1>0, <1>6 DEF RefuseReview, Fail, Goto, ReviewInv
  <1>7. ASSUME NEW r \in Reviews, Truncate(r) PROVE ReviewInv'
    <2>1. file' \notin Proposals
      BY <1>7, ContentFacts DEF Truncate
    <2> QED
      BY <1>0, <1>7, <2>1 DEF Truncate, Goto, ReviewInv
  <1>8. ASSUME NEW r \in Reviews, WriteBack(r) PROVE ReviewInv'
    <2>1. /\ written' = written \cup {r}
          /\ \A p : Kept(p, written) => Kept(p, written')
          /\ \A p : \A q \in Reviews : Kept(p, written \cup {q}) => Kept(p, written' \cup {q})
      BY <1>8, KeptGrows DEF WriteBack
    <2>2. Kept(copy[r], written')
      BY <1>8, <2>1 DEF WriteBack, ReviewInv
    <2>3. file' \in Proposals => Kept(file', written')
      BY <1>8, <2>2, ContentFacts DEF WriteBack, Filled
    <2> QED
      BY <1>0, <1>8, <2>1, <2>2, <2>3 DEF WriteBack, Goto, ReviewInv
  <1>9. ASSUME NEW r \in Reviews, LogReview(r) PROVE ReviewInv'
    BY <1>0, <1>9 DEF LogReview, Goto, ReviewInv
  <1>10. ASSUME NEW s \in Signings, ReadForSigning(s) PROVE ReviewInv'
    <2>1. Kept(file, written)
      BY <1>0, <1>10 DEF ReadForSigning, ReadFile, ReviewInv, Contents
    <2> QED
      BY <1>0, <1>10, <2>1 DEF ReadForSigning, ReadFile, Goto, ReviewInv
  <1>11. ASSUME NEW s \in Signings, Sign(s) PROVE ReviewInv'
    BY <1>0, <1>11 DEF Sign, MaySign, Goto, ReviewInv
  <1>12. ASSUME NEW s \in Signings, RefuseToSign(s) PROVE ReviewInv'
    BY <1>0, <1>12 DEF RefuseToSign, Fail, Goto, ReviewInv
  <1>13. ASSUME NEW c \in Commands, Abandon(c) PROVE ReviewInv'
    <2>1. /\ pc'[c] \in {"failed", "cut"} /\ pc[c] # "done"
          /\ UNCHANGED <<file, written, signed>>
      BY <1>0, <1>13 DEF Abandon, Fail, Goto, Over
    <2>2. \A d \in Commands : d # c => pc'[d] = pc[d] /\ copy'[d] = copy[d]
      BY <1>0, <1>13 DEF Abandon, Fail, Goto
    <2> QED
      BY <1>0, <2>1, <2>2 DEF ReviewInv
  <1>14. CASE Tick
    BY <1>0, <1>14 DEF Tick, ReviewInv
  <1>16. CASE EditDeadline
    <2>1. file \in Proposals
      BY <1>0, <1>16 DEF EditDeadline, Contents
    <2>2. Kept(file', written)
      BY <1>16, <2>1, EditKept DEF EditDeadline, ReviewInv
    <2> QED
      BY <1>0, <1>16, <2>2 DEF EditDeadline, ReviewInv
  <1>15. CASE UNCHANGED vars
    BY <1>0, <1>15 DEF vars, ReviewInv
  <1> QED
    BY <1>1, <1>2, <1>3, <1>4, <1>5, <1>6, <1>7, <1>8, <1>9, <1>10, <1>11, <1>12, <1>13,
       <1>14, <1>15, <1>16 DEF Next

\* No command has a proposal at the start.
LEMMA ReviewInitially == Init => ReviewInv
  BY ContentFacts, ProposalAssumption DEF Init, ReviewInv, Commands

\* The proposals stay sound.
LEMMA ReviewAlways == Spec => [](TypeInv /\ ReviewInv)
  BY TypeInitially, TypeInductive, ReviewInitially, ReviewInductive, PTL DEF Spec

\* As many reviewers approve a sound proposal as approvals are counted.
LEMMA ReviewersCounted ==
    ASSUME NEW p \in Proposals, Sound(p)
    PROVE  Cardinality({p.reviews[i].reviewer_did : i \in Approvals(p)}) = Cardinality(Approvals(p))
  <1> DEFINE A == Approvals(p)
             D == {p.reviews[i].reviewer_did : i \in A}
             f == [i \in A |-> p.reviews[i].reviewer_did]
  <1>1. p.reviews \in Seq(Review)
    BY DEF Proposals
  <1>2. A \subseteq 1..Len(p.reviews) /\ Len(p.reviews) \in Nat /\ A \subseteq DOMAIN p.reviews
    BY <1>1 DEF Approvals
  <1>3. IsFiniteSet(A)
    BY <1>2, FS_Interval, FS_Subset
  <1>4. f \in [A -> D] /\ \A i, j \in A : f[i] = f[j] => i = j
    BY <1>2 DEF Sound
  <1>5. \A x \in D : \E i \in A : f[i] = x
    OBVIOUS
  <1> HIDE DEF A, D, f
  <1>6. f \in Surjection(A, D) /\ f \in Injection(A, D)
    BY <1>4, <1>5 DEF Surjection, Injection, IsInjective
  <1> QED
    BY <1>3, <1>6, FS_Surjection DEF A, D

\* What an approved sound proposal shows.
LEMMA ApprovedShows ==
    ASSUME NEW p \in Proposals, Sound(p), p.status = "Approved"
    PROVE  /\ Cardinality(Approvals(p)) >= RequiredApprovals
           /\ \A i \in DOMAIN p.reviews : p.reviews[i].decision # "Reject"
  <1> DEFINE fresh == [p EXCEPT !.status = "Pending"]
             last == p.reviews[Len(p.reviews)].decision
  <1>1. p.reviews \in Seq(Review)
    BY DEF Proposals
  <1>2. fresh.reviews = p.reviews /\ fresh.status = "Pending"
    BY DEF Proposals
  <1>3. StatusAfter(fresh, last) = "Approved"
    BY DEF Sound, Decided
  <1> HIDE DEF fresh
  <1>4. last = "Approve" /\ Cardinality(Approvals(fresh)) >= RequiredApprovals
    BY <1>2, <1>3 DEF StatusAfter
  <1>5. Approvals(fresh) = Approvals(p)
    BY <1>2 DEF Approvals
  <1>6. \A i \in DOMAIN p.reviews : i = Len(p.reviews) \/ i < Len(p.reviews)
    BY <1>1
  <1> QED
    BY <1>4, <1>5, <1>6 DEF Sound

\* A mandate is signed only on a proposal that enough different reviewers
\* approved and none rejected, each by a command that wrote its review.
THEOREM SignedIsReviewed == Spec => []SignedWithEnoughApprovals
  <1>1. TypeInv /\ ReviewInv => SignedWithEnoughApprovals
    <2> SUFFICES ASSUME TypeInv, ReviewInv, NEW s \in signed
                 PROVE  LET reviews == {copy[s].reviews[i] : i \in DOMAIN copy[s].reviews}
                            approvals == {v \in reviews : v.decision = "Approve"}
                        IN  /\ \A v \in reviews : v.from \in written /\ v.decision # "Reject"
                            /\ Cardinality({v.reviewer_did : v \in approvals}) >= RequiredApprovals
      BY DEF SignedWithEnoughApprovals
    <2> DEFINE p == copy[s]
               reviews == {p.reviews[i] : i \in DOMAIN p.reviews}
               approvals == {v \in reviews : v.decision = "Approve"}
    <2>1. s \in Signings /\ p \in Proposals
      BY DEF TypeInv, TypeOK, InHand, Commands
    <2>2. Sound(p) /\ MadeBy(p, written) /\ p.status = "Approved"
      BY <2>1 DEF ReviewInv, Kept
    <2> HIDE DEF p
    <2>3. \A v \in reviews : v.from \in written /\ v.decision # "Reject"
      BY <2>1, <2>2, ApprovedShows DEF MadeBy
    <2>4. {v.reviewer_did : v \in approvals} = {p.reviews[i].reviewer_did : i \in Approvals(p)}
      BY DEF Approvals
    <2>5. Cardinality({v.reviewer_did : v \in approvals}) >= RequiredApprovals
      BY <2>1, <2>2, <2>4, ApprovedShows, ReviewersCounted
    <2> QED
      BY <2>3, <2>5 DEF p
  <1> QED
    BY <1>1, ReviewAlways, PTL

\* The status in a readable file is the one its last review led to, and no
\* review follows a rejection.
THEOREM StatusIsEarned == Spec => []StatusFollowsReviews
  <1>1. TypeInv /\ ReviewInv => StatusFollowsReviews
    BY DEF TypeInv, TypeOK, ReviewInv, Kept, Sound, StatusFollowsReviews
  <1> QED
    BY <1>1, ReviewAlways, PTL
-----------------------------------------------------------------------------
(***************************************************************************)
(* What the history says of the file.  A review that reached the file      *)
(* before a command read it is in that command's copy, or was already lost *)
(* to an overlap; one that reaches it while a command is at work overlaps  *)
(* with that command.                                                      *)
(***************************************************************************)
LostTo(r, q) == q \in written /\ q # r /\ Overlap(r, q)

Explains(p, S) == \A r \in S : r \in FromOf(p) \/ \E q \in Reviews : LostTo(r, q)

BaseInv ==
    \A r \in Reviews :
        /\ base[r] \subseteq written
        /\ r \in written => pc[r] \in {"log", "done", "failed"}

NothingReadYet ==
    pc[Proposer] \in {"start", "write"} =>
        /\ file \in {Blank("absent"), Blank("empty")}
        /\ written = {}
        /\ \A r \in Reviews : pc[r] \in {"start", "failed"}

ExplainInv ==
    /\ file \in Proposals => Explains(file, written)
    /\ \A r \in Reviews :
          /\ pc[r] \in {"review", "truncate", "write"} => Explains(copy[r], base[r])
          /\ pc[r] \in {"truncate", "write"} => r \in FromOf(copy[r])
          /\ pc[r] = "write" => file = Blank("empty") \/ written \ base[r] # {}

InterruptInv ==
    /\ file = Blank("empty") => pc[emptier] \in {"write", "cut"}
    /\ file = Blank("garbled") => \E r, q \in Reviews : r \in written /\ LostTo(r, q)

HistoryInv == BaseInv /\ NothingReadYet /\ ExplainInv /\ InterruptInv

\* A review adds its own command to those shown.
LEMMA ReviewShows ==
    ASSUME NEW p \in Proposals, NEW r \in Reviews, NEW d \in Decisions
    PROVE  FromOf(Reviewed(p, r, d)) = FromOf(p) \cup {r}
  <1> DEFINE q == Reviewed(p, r, d)
             v == NewReview(r, d)
             n == Len(p.reviews)
  <1>1. q.reviews = Append(p.reviews, v) /\ p.reviews \in Seq(Review)
    BY ReviewedType DEF Proposals
  <1>2. v.from = r
    BY DEF NewReview
  <1> HIDE DEF q, v
  <1>3. /\ DOMAIN q.reviews = 1..(n + 1) /\ DOMAIN p.reviews = 1..n /\ n \in Nat
        /\ q.reviews[n + 1] = v
        /\ \A i \in 1..n : q.reviews[i] = p.reviews[i]
    BY <1>1
  <1>4. 1..(n + 1) = (1..n) \cup {n + 1}
    BY <1>3
  <1>5. FromOf(q) = {q.reviews[i].from : i \in (1..n) \cup {n + 1}}
    BY <1>3, <1>4 DEF FromOf
  <1>6. FromOf(q) = {q.reviews[i].from : i \in 1..n} \cup {r}
    BY <1>2, <1>3, <1>5
  <1> QED
    BY <1>3, <1>6 DEF FromOf, q

\* A review once lost to an overlap stays so, for both commands have read.
LEMMA LostStays ==
    ASSUME HistoryInv, written \subseteq written',
           \A c \in Reviews : pc[c] # "start" => base'[c] = base[c],
           NEW r \in written, r \in Reviews, NEW q \in Reviews, LostTo(r, q)
    PROVE  LostTo(r, q)'
  <1>1. base'[r] = base[r] /\ base'[q] = base[q] /\ q \in written'
    BY DEF HistoryInv, BaseInv, LostTo
  <1> QED
    BY <1>1 DEF LostTo, Overlap

\* So does what explains the absence of reviews.
LEMMA ExplainsStays ==
    ASSUME HistoryInv, written \subseteq written',
           \A c \in Reviews : pc[c] # "start" => base'[c] = base[c],
           NEW p, NEW S \in SUBSET written, written \subseteq Reviews, Explains(p, S)
    PROVE  Explains(p, S)'
  BY LostStays DEF Explains

\* The same of the copy a command holds.
LEMMA CopyStays ==
    ASSUME HistoryInv, written \subseteq written', written \subseteq Reviews,
           \A c \in Reviews : pc[c] # "start" => base'[c] = base[c],
           NEW r \in Reviews, copy'[r] = copy[r], base'[r] = base[r],
           Explains(copy[r], base[r])
    PROVE  Explains(copy[r], base[r])'
  <1> DEFINE p == copy[r]
             S == base[r]
  <1>1. S \in SUBSET written /\ \A q \in S : q \in FromOf(p) \/ \E c \in Reviews : LostTo(q, c)
    BY DEF Explains, HistoryInv, BaseInv
  <1>2. \A q \in S : q \in FromOf(p) \/ \E c \in Reviews : LostTo(q, c)'
    BY <1>1, LostStays
  <1> QED
    BY <1>2 DEF Explains

\* A step that writes no review and empties or reads nothing.
LEMMA HistoryQuiet ==
    ASSUME TypeInv, HistoryInv, UNCHANGED <<file, written, base, emptier>>,
           \A c \in Commands :
              \/ pc'[c] = pc[c] /\ copy'[c] = copy[c]
              \/ pc[c] \notin {"write", "cut"} /\ pc'[c] = "failed"
              \/ pc[c] = "write" /\ pc'[c] = "cut"
              \/ c \in Reviews /\ pc[c] = "log" /\ pc'[c] = "done"
              \/ c \in Signings /\ pc[c] \notin {"write", "cut"}
              \/ c = Proposer /\ pc[c] = "log" /\ pc'[c] = "done",
           \A s \in Signings : pc[s] # "write"
    PROVE  HistoryInv'
  <1> USE DEF Commands
  <1>0. /\ Proposer \notin Reviews \cup Signings /\ Reviews \cap Signings = {}
        /\ written \subseteq Reviews
    BY ProposalAssumption DEF TypeInv, TypeOK
  <1>1. BaseInv' /\ NothingReadYet'
    BY <1>0 DEF HistoryInv, BaseInv, NothingReadYet
  <1>2. ExplainInv'
    <2>1. \A p : \A S \in SUBSET written : Explains(p, S) => Explains(p, S)'
      BY <1>0, ExplainsStays
    <2>2. \A r \in Reviews : base[r] \in SUBSET written
      BY DEF HistoryInv, BaseInv
    <2>3. file \in Proposals => Explains(file, written)'
      BY <2>1 DEF HistoryInv, ExplainInv
    <2>4. ASSUME NEW r \in Reviews, pc'[r] \in {"review", "truncate", "write"}
          PROVE  pc'[r] = pc[r] /\ copy'[r] = copy[r] /\ Explains(copy[r], base[r])'
      <3>1. pc'[r] = pc[r] /\ copy'[r] = copy[r]
        BY <1>0, <2>4
      <3>2. Explains(copy[r], base[r])
        BY <2>4, <3>1 DEF HistoryInv, ExplainInv
      <3> QED
        BY <1>0, <3>1, <3>2, CopyStays
    <2> QED
      BY <2>3, <2>4 DEF HistoryInv, ExplainInv
  <1>3. InterruptInv'
    <2>1. \A r, q \in Reviews : r \in written /\ LostTo(r, q) => LostTo(r, q)'
      BY <1>0, LostStays
    <2>2. pc[emptier] \in {"write", "cut"} => pc'[emptier] \in {"write", "cut"}
      BY DEF TypeInv, TypeOK
    <2> QED
      BY <2>1, <2>2, <1>0 DEF HistoryInv, InterruptInv
  <1> QED
    BY <1>1, <1>2, <1>3 DEF HistoryInv

\* Creating the file: nobody can have read it before.
LEMMA HistoryCreate ==
    ASSUME TypeInv, HistoryInv, Create \/ WriteNew
    PROVE  HistoryInv'
  <1> USE DEF Commands
  <1>1. /\ Proposer \notin Reviews \cup Signings
        /\ pc \in [Commands -> ReviewStages \cup SignStages \cup ProposeStages]
        /\ written = {} /\ \A r \in Reviews : pc[r] \in {"start", "failed"}
        /\ UNCHANGED <<written, base>> /\ \A r \in Reviews : pc'[r] = pc[r]
    BY ProposalAssumption DEF Create, WriteNew, Goto, TypeInv, HistoryInv, NothingReadYet
  <1>2. BaseInv'
    BY <1>1 DEF HistoryInv, BaseInv
  <1>3. NothingReadYet'
    BY <1>1 DEF Create, WriteNew, Goto, NothingReadYet
  <1>4. ExplainInv'
    BY <1>1 DEF ExplainInv, Explains
  <1>5. InterruptInv'
    <2>1. CASE Create
      <3>1. file' = Blank("empty") /\ Blank("empty") # Blank("garbled") /\ emptier' = Proposer
               /\ pc'[Proposer] = "write"
        BY <1>1, <2>1 DEF Create, Goto, Blank
      <3> QED
        BY <3>1 DEF InterruptInv
    <2>2. CASE WriteNew
      <3>1. file' \in Proposals
        BY <2>2 DEF WriteNew, TypeInv, InHand
      <3> QED
        BY <3>1, ContentFacts DEF InterruptInv
    <2> QED
      BY <2>1, <2>2
  <1> QED
    BY <1>2, <1>3, <1>4, <1>5 DEF HistoryInv

\* Reading: the copy explains what the file did.
LEMMA HistoryRead ==
    ASSUME TypeInv, HistoryInv, NEW r \in Reviews, ReadForReview(r)
    PROVE  HistoryInv'
  <1> USE DEF Commands
  <1>1. /\ Proposer \notin Reviews \cup Signings
        /\ pc \in [Commands -> ReviewStages \cup SignStages \cup ProposeStages]
        /\ written \subseteq Reviews /\ base \in [Reviews -> SUBSET Reviews]
        /\ file \in Contents
    BY ProposalAssumption DEF TypeInv, TypeOK, Contents
  <1>2. /\ pc[r] = "start" /\ file \in Proposals
        /\ pc' = [pc EXCEPT ![r] = "review"] /\ copy' = [copy EXCEPT ![r] = file]
        /\ base' = [base EXCEPT ![r] = written] /\ file' = file /\ written' = written
    BY <1>1 DEF ReadForReview, ReadFile, Goto, Contents
  <1>3. /\ r \notin written
        /\ \A c \in Reviews : pc[c] # "start" => base'[c] = base[c]
    BY <1>1, <1>2 DEF HistoryInv, BaseInv
  <1>4. BaseInv' /\ NothingReadYet'
    BY <1>1, <1>2, ContentFacts, ProposalAssumption
       DEF HistoryInv, BaseInv, NothingReadYet, Unreadable
  <1>5. ExplainInv'
    <2>1. \A p : \A S \in SUBSET written : Explains(p, S) => Explains(p, S)'
      BY <1>1, <1>2, <1>3, ExplainsStays
    <2>2. Explains(file, written)'
      BY <1>2, <2>1 DEF HistoryInv, ExplainInv
    <2>3. ASSUME NEW c \in Reviews
          PROVE  /\ pc'[c] \in {"review", "truncate", "write"} => Explains(copy[c], base[c])'
                 /\ pc'[c] \in {"truncate", "write"} => c \in FromOf(copy'[c])
                 /\ pc'[c] = "write" => file' = Blank("empty") \/ written' \ base'[c] # {}
      <3>1. CASE c = r
        <4>1. copy'[r] = file /\ base'[r] = written /\ pc'[r] = "review"
          BY <1>1, <1>2 DEF TypeInv, TypeOK
        <4>2. Explains(copy[r], base[r])'
          BY <4>1, <2>2, <1>2 DEF Explains
        <4> QED
          BY <3>1, <4>1, <4>2
      <3>2. CASE c # r
        <4>1. /\ pc'[c] = pc[c] /\ copy'[c] = copy[c] /\ base'[c] = base[c]
              /\ base[c] \in SUBSET written
          BY <1>1, <1>2, <3>2 DEF TypeInv, TypeOK, HistoryInv, BaseInv
        <4>2. Explains(copy[c], base[c]) => Explains(copy[c], base[c])'
          BY <4>1, <1>1, <1>2, <1>3, CopyStays
        <4> QED
          BY <4>1, <4>2, <1>2 DEF HistoryInv, ExplainInv
      <3> QED
        BY <3>1, <3>2
    <2> QED
      BY <2>2, <2>3 DEF ExplainInv
  <1>6. InterruptInv'
    BY <1>2, ContentFacts DEF InterruptInv
  <1> QED
    BY <1>4, <1>5, <1>6 DEF HistoryInv

\* Reviewing the copy, and emptying the file for it.
LEMMA HistoryReview ==
    ASSUME TypeInv, HistoryInv, NEW r \in Reviews,
           (\E d \in Decisions : ReviewCopy(r, d)) \/ Truncate(r)
    PROVE  HistoryInv'
  <1> USE DEF Commands
  <1>1. /\ Proposer \notin Reviews \cup Signings
        /\ pc \in [Commands -> ReviewStages \cup SignStages \cup ProposeStages]
        /\ copy \in [Commands -> Contents]
        /\ written \subseteq Reviews /\ base \in [Reviews -> SUBSET Reviews]
    BY ProposalAssumption DEF TypeInv, TypeOK, Contents
  <1>2. /\ UNCHANGED <<written, base>>
        /\ pc[r] \in {"review", "truncate"}
        /\ \A c \in Commands : c # r => pc'[c] = pc[c] /\ copy'[c] = copy[c]
        /\ pc'[r] \in {"truncate", "write"}
        /\ file' = file \/ file' = Blank("empty")
        /\ pc'[r] = "write" => file' = Blank("empty") /\ emptier' = r
        /\ pc'[r] = "truncate" => file' = file /\ emptier' = emptier
    BY <1>1, ContentFacts DEF ReviewCopy, Truncate, Goto
  <1>3. BaseInv' /\ NothingReadYet'
    BY <1>1, <1>2 DEF HistoryInv, BaseInv, NothingReadYet
  <1>4. Explains(copy[r], base[r])' /\ r \in FromOf(copy'[r])
    <2>1. Explains(copy[r], base[r])
      BY <1>2 DEF HistoryInv, ExplainInv
    <2>2. CASE Truncate(r)
      <3>1. copy'[r] = copy[r] /\ r \in FromOf(copy[r])
        BY <2>2 DEF Truncate, HistoryInv, ExplainInv
      <3> QED
        BY <3>1, <2>1, <1>1, <1>2, CopyStays
    <2>3. ASSUME NEW d \in Decisions, ReviewCopy(r, d)
          PROVE  Explains(copy[r], base[r])' /\ r \in FromOf(copy'[r])
      <3>1. copy[r] \in Proposals /\ copy'[r] = Reviewed(copy[r], r, d)
        BY <2>3, <1>1 DEF ReviewCopy, TypeInv, InHand
      <3>2. FromOf(copy'[r]) = FromOf(copy[r]) \cup {r}
        BY <3>1, ReviewShows
      <3>3. base[r] \subseteq written
        BY DEF HistoryInv, BaseInv
      <3>4. \A q \in base[r] : q \in FromOf(copy[r]) \/ \E c \in Reviews : LostTo(q, c)'
        BY <2>1, <3>3, <1>1, <1>2, LostStays DEF Explains
      <3> QED
        BY <3>2, <3>4, <1>2 DEF Explains
    <2> QED
      BY <2>2, <2>3
  <1>5. ExplainInv'
    <2>1. file' \in Proposals => Explains(file, written)'
      <3> SUFFICES ASSUME file' \in Proposals
                   PROVE  Explains(file, written)'
        OBVIOUS
      <3>1. file' = file
        BY <1>2, ContentFacts
      <3>2. Explains(file, written)
        BY <3>1 DEF HistoryInv, ExplainInv
      <3>3. \A q \in written : q \in FromOf(file) \/ \E c \in Reviews : LostTo(q, c)'
        BY <3>2, <1>1, <1>2, LostStays DEF Explains
      <3> QED
        BY <3>1, <3>3, <1>2 DEF Explains
    <2>2. ASSUME NEW c \in Reviews, c # r
          PROVE  /\ pc'[c] \in {"review", "truncate", "write"} => Explains(copy[c], base[c])'
                 /\ pc'[c] \in {"truncate", "write"} => c \in FromOf(copy'[c])
                 /\ pc'[c] = "write" => file' = Blank("empty") \/ written' \ base'[c] # {}
      <3>1. Explains(copy[c], base[c]) => Explains(copy[c], base[c])'
        BY <2>2, <1>1, <1>2, CopyStays
      <3> QED
        BY <2>2, <3>1, <1>2 DEF HistoryInv, ExplainInv
    <2>3. pc'[r] = "write" => file' = Blank("empty")
      BY <1>2
    <2> QED
      BY <2>1, <2>2, <2>3, <1>4 DEF ExplainInv
  <1>6. InterruptInv'
    <2>1. \A p, q \in Reviews : p \in written /\ LostTo(p, q) => LostTo(p, q)'
      BY <1>1, <1>2, LostStays
    <2>2. Blank("empty") # Blank("garbled")
      BY DEF Blank
    <2>3. CASE pc'[r] = "truncate"
      <3>1. pc[emptier] \in {"write", "cut"} => pc'[emptier] = pc[emptier]
        BY <1>2 DEF TypeInv, TypeOK
      <3> QED
        BY <2>1, <2>3, <3>1, <1>2 DEF HistoryInv, InterruptInv
    <2>4. CASE pc'[r] = "write"
      BY <2>2, <2>4, <1>2 DEF InterruptInv
    <2> QED
      BY <2>3, <2>4, <1>2
  <1> QED
    BY <1>3, <1>5, <1>6 DEF HistoryInv

\* Writing the copy back: what it does not show was lost to an overlap with this command.
LEMMA HistoryWriteBack ==
    ASSUME TypeInv, HistoryInv, NEW r \in Reviews, WriteBack(r)
    PROVE  HistoryInv'
  <1> USE DEF Commands
  <1>1. /\ Proposer \notin Reviews \cup Signings
        /\ pc \in [Commands -> ReviewStages \cup SignStages \cup ProposeStages]
        /\ written \subseteq Reviews /\ base \in [Reviews -> SUBSET Reviews]
    BY ProposalAssumption DEF TypeInv, TypeOK
  <1>2. /\ pc[r] = "write" /\ file' \in Filled(r) /\ written' = written \cup {r}
        /\ pc' = [pc EXCEPT ![r] = "log"] /\ UNCHANGED <<copy, base>>
    BY DEF WriteBack, Goto
  <1>3. /\ r \notin written /\ written \subseteq written'
        /\ copy[r] \in Proposals /\ copy[r] \notin Unreadable
        /\ \A c \in Reviews : base[c] \subseteq written
    BY <1>2, ContentFacts DEF HistoryInv, BaseInv, TypeInv, InHand
  <1>4. BaseInv' /\ NothingReadYet'
    BY <1>1, <1>2, <1>3 DEF HistoryInv, BaseInv, NothingReadYet
  <1>5. \A q \in written \ base[r] : LostTo(q, r)' /\ LostTo(r, q)'
    BY <1>1, <1>2, <1>3 DEF LostTo, Overlap
  <1>6. Explains(copy[r], written)'
    <2>1. r \in FromOf(copy[r]) /\ Explains(copy[r], base[r])
      BY <1>2 DEF HistoryInv, ExplainInv
    <2>2. \A q \in base[r] : q \in FromOf(copy[r]) \/ \E c \in Reviews : LostTo(q, c)'
      BY <2>1, <1>1, <1>2, <1>3, LostStays DEF Explains
    <2>3. \A q \in written \ base[r] : \E c \in Reviews : LostTo(q, c)'
      BY <1>5
    <2> QED
      BY <1>2, <2>1, <2>2, <2>3 DEF Explains
  <1>7. ExplainInv'
    <2>1. file' \in Proposals => Explains(file, written)'
      <3>1. file' \in Proposals => file' = copy[r]
        BY <1>2, ContentFacts DEF Filled
      <3> QED
        BY <3>1, <1>2, <1>6 DEF Explains
    <2>2. ASSUME NEW c \in Reviews
          PROVE  /\ pc'[c] \in {"review", "truncate", "write"} => Explains(copy[c], base[c])'
                 /\ pc'[c] \in {"truncate", "write"} => c \in FromOf(copy'[c])
                 /\ pc'[c] = "write" => written' \ base'[c] # {}
      <3>1. CASE c = r
        BY <3>1, <1>1, <1>2
      <3>2. CASE c # r
        <4>1. pc'[c] = pc[c]
          BY <3>2, <1>1, <1>2
        <4>2. Explains(copy[c], base[c]) => Explains(copy[c], base[c])'
          BY <1>1, <1>2, <1>3, CopyStays
        <4>3. r \in written' \ base'[c]
          BY <1>2, <1>3
        <4> QED
          BY <4>1, <4>2, <4>3, <1>2 DEF HistoryInv, ExplainInv
      <3> QED
        BY <3>1, <3>2
    <2> QED
      BY <2>1, <2>2 DEF ExplainInv
  <1>8. InterruptInv'
    <2>1. file' # Blank("empty")
      BY <1>2, <1>3, ContentFacts DEF Filled, Blank
    <2>2. file' = Blank("garbled") => file # Blank("empty")
      BY <1>2, <1>3, ContentFacts DEF Filled
    <2>3. file # Blank("empty") => \E q \in Reviews : LostTo(r, q)'
      BY <1>1, <1>2, <1>5 DEF HistoryInv, ExplainInv
    <2> QED
      BY <1>2, <2>1, <2>2, <2>3 DEF InterruptInv
  <1> QED
    BY <1>4, <1>7, <1>8 DEF HistoryInv

\* Editing the deadline: the reviews shown stay.
LEMMA HistoryEdit ==
    ASSUME TypeInv, HistoryInv, EditDeadline
    PROVE  HistoryInv'
  <1>1. /\ written \subseteq Reviews
        /\ UNCHANGED <<now, pc, copy, log, signed, written, base, emptier>>
    BY DEF TypeInv, TypeOK, EditDeadline
  <1>2. file \in Proposals /\ file' = [file EXCEPT !.expires_at = NoDeadline]
    BY DEF TypeInv, TypeOK, EditDeadline
  <1>3. file' \in Proposals /\ file'.reviews = file.reviews
    BY <1>2, EditedType
  <1>4. BaseInv' /\ NothingReadYet'
    BY <1>1, <1>2, ContentFacts DEF HistoryInv, BaseInv, NothingReadYet
  <1>5. Explains(file, written)'
    BY <1>1, <1>2, <1>3 DEF HistoryInv, ExplainInv, Explains, FromOf, LostTo, Overlap
  <1>6. file # Blank("empty")
    BY <1>2, ContentFacts
  <1>7. ExplainInv'
    BY <1>1, <1>5, <1>6 DEF HistoryInv, ExplainInv, Explains, FromOf, LostTo, Overlap
  <1>8. InterruptInv'
    BY <1>3, ContentFacts DEF InterruptInv
  <1> QED
    BY <1>4, <1>7, <1>8 DEF HistoryInv

\* Every step keeps what the history says.
LEMMA HistoryInductive == TypeInv /\ HistoryInv /\ [Next]_vars => HistoryInv'
  <1> SUFFICES ASSUME TypeInv, HistoryInv, [Next]_vars
               PROVE  HistoryInv'
    OBVIOUS
  <1> USE DEF Commands
  <1>0. /\ Proposer \notin Reviews \cup Signings /\ Reviews \cap Signings = {}
        /\ pc \in [Commands -> ReviewStages \cup SignStages \cup ProposeStages]
        /\ copy \in [Commands -> Contents]
        /\ \A s \in Signings : pc[s] \notin {"write", "cut"}
    BY ProposalAssumption DEF TypeInv, TypeOK, Contents, SignStages
  <1>1. CASE LogNew
    BY <1>0, <1>1, HistoryQuiet DEF LogNew, Goto
  <1>2. ASSUME NEW r \in Reviews, RefuseReview(r) PROVE HistoryInv'
    BY <1>0, <1>2, HistoryQuiet DEF RefuseReview, Fail, Goto
  <1>3. ASSUME NEW r \in Reviews, LogReview(r) PROVE HistoryInv'
    BY <1>0, <1>3, HistoryQuiet DEF LogReview, Goto
  <1>4. ASSUME NEW s \in Signings, ReadForSigning(s) \/ Sign(s) \/ RefuseToSign(s)
        PROVE HistoryInv'
    BY <1>0, <1>4, HistoryQuiet DEF ReadForSigning, ReadFile, Sign, RefuseToSign, Fail, Goto
  <1>5. ASSUME NEW c \in Commands, Abandon(c) PROVE HistoryInv'
    BY <1>0, <1>5, HistoryQuiet DEF Abandon, Fail, Goto, Over
  <1>6. CASE Tick
    BY <1>0, <1>6, HistoryQuiet DEF Tick
  <1>7. CASE UNCHANGED vars
    BY <1>0, <1>7, HistoryQuiet DEF vars
  <1> QED
    BY <1>1, <1>2, <1>3, <1>4, <1>5, <1>6, <1>7, HistoryCreate, HistoryRead, HistoryReview,
       HistoryWriteBack, HistoryEdit DEF Next

\* Nothing is read or written at the start.
LEMMA HistoryInitially == Init => HistoryInv
  <1> SUFFICES ASSUME Init
               PROVE  HistoryInv
    OBVIOUS
  <1>1. Blank("absent") # Blank("empty") /\ Blank("absent") # Blank("garbled")
    BY DEF Blank
  <1> QED
    BY <1>1, ContentFacts, ProposalAssumption
       DEF Init, HistoryInv, BaseInv, NothingReadYet, ExplainInv, InterruptInv, Explains, Commands

\* The history holds throughout.
LEMMA HistoryAlways == Spec => [](TypeInv /\ HistoryInv)
  BY TypeInitially, TypeInductive, HistoryInitially, HistoryInductive, PTL DEF Spec

\* A review that a command wrote is in the file for every later reader, unless the
\* command overlapped with another that wrote: the copy written back shows what the file
\* showed when it was read.
THEOREM ReviewsKept == Spec => []LostOnlyByOverlap
  <1>1. TypeInv /\ HistoryInv => LostOnlyByOverlap
    BY DEF TypeInv, TypeOK, HistoryInv, ExplainInv, Explains, LostTo, LostOnlyByOverlap
  <1> QED
    BY <1>1, HistoryAlways, PTL

\* Nobody finds the file empty unless the command that emptied it last has still to fill
\* it or was cut in between, nor garbled unless two commands that wrote overlapped.
THEOREM ReadableUnlessInterrupted == Spec => []UnreadableOnlyByInterruption
  <1>1. TypeInv /\ HistoryInv => UnreadableOnlyByInterruption
    BY DEF HistoryInv, InterruptInv, LostTo, TypeInv, TypeOK, UnreadableOnlyByInterruption
  <1> QED
    BY <1>1, HistoryAlways, PTL
=============================================================================
