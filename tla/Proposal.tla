------------------------------ MODULE Proposal ------------------------------
(***************************************************************************)
(* The approval of a mandate before it is signed                           *)
(* (crates/a2g-core/src/proposal.rs, and the commands `propose`, `review`  *)
(* and `sign --proposal` of crates/a2g-cli/src/main.rs).  A proposal is a  *)
(* JSON file.  A `review` command reads it, adds one review to the copy it *)
(* read and writes the copy back; nothing locks the file, so commands of   *)
(* several reviewers interleave.  std::fs::write empties the file first    *)
(* and fills it in a second step.                                          *)
(***************************************************************************)
EXTENDS Integers, Sequences, FiniteSets

CONSTANTS
    Reviews,        \* runs of the `review` command
    Signings,       \* runs of the `sign --proposal` command
    Reviewers,      \* reviewer_did of the keys in use
    ReviewerOf,     \* [Reviews -> Reviewers]
    SameMandate,    \* the signings whose mandate file has the proposal's hash
    RequiredApprovals,  \* by risk level 1 to 4
    Proposer,       \* the run of the `propose` command
    TTL,            \* proposal_ttl_hours, in ticks
    MaxTime         \* bound on the clock

Decisions == {"Approve", "Reject", "RequestChanges"}
Commands == Reviews \cup Signings \cup {Proposer}

ASSUME ProposalAssumption ==
    /\ Reviews \cap Signings = {}
    /\ Proposer \notin Reviews \cup Signings
    /\ ReviewerOf \in [Reviews -> Reviewers]
    /\ SameMandate \subseteq Signings
    /\ RequiredApprovals \in 1..4
    /\ TTL \in Nat \ {0}
    /\ MaxTime \in Nat

VARIABLES
    file,       \* what the proposal file holds
    now,        \* the wall clock
    pc,         \* how far each command has come
    copy,       \* the proposal each command has in memory
    log,        \* reviews with a proposal_reviewed event in the authority log
    signed,     \* signings that wrote a signed mandate
    \* history, read by no action
    written,    \* reviews whose copy reached the file
    base,       \* what was in `written` when a review read the file
    emptier     \* the command that emptied the file last

vars == <<file, now, pc, copy, log, signed, written, base, emptier>>
-----------------------------------------------------------------------------
\* Review; `from` is the command that made it, which stands for review_id.
Review == [reviewer_did : Reviewers, decision : Decisions, from : Reviews]

NoDeadline == 0   \* an expires_at that is no time

\* The fields of struct Proposal that change or are checked.
Proposals == [status : {"Pending", "Approved", "Rejected"},
              reviews : Seq(Review), expires_at : {NoDeadline} \cup 1..MaxTime + TTL]

NewProposal(t) == [status |-> "Pending", reviews |-> <<>>, expires_at |-> t + TTL]

\* No such file, an emptied one, one with the rest of a longer text at its end.
Unreadable ==
    [status : {"absent", "empty", "garbled"}, reviews : {<<>>}, expires_at : {0}]

Blank(kind) == [status |-> kind, reviews |-> <<>>, expires_at |-> 0]

\* A command that fails between emptying and filling the file is "cut".
ReviewStages == {"start", "review", "truncate", "write", "log", "done", "failed", "cut"}
SignStages == {"start", "check", "done", "failed"}
ProposeStages == {"start", "write", "log", "done", "failed", "cut"}
Over == {"done", "failed", "cut"}

TypeOK ==
    /\ file \in Unreadable \cup Proposals
    /\ now \in 0..MaxTime
    /\ \A r \in Reviews : pc[r] \in ReviewStages
    /\ \A s \in Signings : pc[s] \in SignStages
    /\ pc[Proposer] \in ProposeStages
    /\ copy \in [Commands -> Proposals \cup Unreadable]
    /\ log \subseteq Reviews
    /\ signed \subseteq Signings
    /\ written \subseteq Reviews
    /\ base \in [Reviews -> SUBSET Reviews]
    /\ emptier \in Commands

Init ==
    /\ file = Blank("absent")
    /\ now = 0
    /\ pc = [c \in Commands |-> "start"]
    /\ copy = [c \in Commands |-> Blank("absent")]
    /\ log = {}
    /\ signed = {}
    /\ written = {}
    /\ base = [r \in Reviews |-> {}]
    /\ emptier = Proposer

Goto(c, stage) == pc' = [pc EXCEPT ![c] = stage]

\* The command ends without success, and its copy is gone.
Fail(c) ==
    /\ Goto(c, IF pc[c] = "write" THEN "cut" ELSE "failed")
    /\ copy' = [copy EXCEPT ![c] = Blank("absent")]

\* The second half of std::fs::write by c.  Another command may have filled
\* the file since c emptied it; if its text was the longer one, the rest stays.
Filled(c) == IF file = Blank("empty") THEN {copy[c]} ELSE {copy[c], Blank("garbled")}
-----------------------------------------------------------------------------
(***************************************************************************)
(* propose: write the new proposal, then log it.                           *)
(***************************************************************************)
Create ==
    /\ pc[Proposer] = "start"
    /\ copy' = [copy EXCEPT ![Proposer] = NewProposal(now)]
    /\ file' = Blank("empty")
    /\ emptier' = Proposer
    /\ Goto(Proposer, "write")
    /\ UNCHANGED <<now, log, signed, written, base>>

WriteNew ==
    /\ pc[Proposer] = "write"
    /\ file' = copy[Proposer]
    /\ Goto(Proposer, "log")
    /\ UNCHANGED <<now, copy, log, signed, written, base, emptier>>

LogNew ==
    /\ pc[Proposer] = "log"
    /\ Goto(Proposer, "done")
    /\ UNCHANGED <<file, now, copy, log, signed, written, base, emptier>>
-----------------------------------------------------------------------------
(***************************************************************************)
(* review: read, review the copy, write it back, log.                      *)
(***************************************************************************)
ReadFile(c) ==
    /\ file \notin Unreadable
    /\ copy' = [copy EXCEPT ![c] = file]

ReadForReview(r) ==
    /\ pc[r] = "start"
    /\ ReadFile(r)
    /\ base' = [base EXCEPT ![r] = written]
    /\ Goto(r, "review")
    /\ UNCHANGED <<file, now, log, signed, written, emptier>>

ReviewedBy(p, d) == \E i \in DOMAIN p.reviews : p.reviews[i].reviewer_did = d

Approvals(p) == {i \in DOMAIN p.reviews : p.reviews[i].decision = "Approve"}

MayReviewAgain(p, r) ==   \* a reviewer may come back
    /\ p.status = "Pending"
    /\ p.expires_at # NoDeadline /\ now < p.expires_at

MayReviewAny(p, r) ==   \* also one that is decided
    /\ p.expires_at # NoDeadline /\ now < p.expires_at
    /\ ~ReviewedBy(p, ReviewerOf[r])

MayReview(p, r) ==
    /\ p.status = "Pending"
    /\ p.expires_at # NoDeadline /\ now < p.expires_at
    /\ ~ReviewedBy(p, ReviewerOf[r])

StatusAfter(p, decision) ==
    IF decision = "Reject" THEN "Rejected"
    ELSE IF decision = "Approve" /\ Cardinality(Approvals(p)) >= RequiredApprovals THEN "Approved"
    ELSE p.status

NewReview(r, decision) ==
    [reviewer_did |-> ReviewerOf[r], decision |-> decision, from |-> r]

ReviewedOnly(p, r, decision) ==   \* keeps no other review
    LET q == [p EXCEPT !.reviews = <<NewReview(r, decision)>>]
    IN  [q EXCEPT !.status = StatusAfter(q, decision)]

Reviewed(p, r, decision) ==
    LET q == [p EXCEPT !.reviews = Append(@, NewReview(r, decision))]
    IN  [q EXCEPT !.status = StatusAfter(q, decision)]

\* review_proposal on the copy.  A refusal ends the command; it may have set
\* the copy's status to Expired, which is not written back.
ReviewCopy(r, decision) ==
    /\ pc[r] = "review"
    /\ MayReview(copy[r], r)
    /\ copy' = [copy EXCEPT ![r] = Reviewed(@, r, decision)]
    /\ Goto(r, "truncate")
    /\ UNCHANGED <<file, now, log, signed, written, base, emptier>>

RefuseReview(r) ==
    /\ pc[r] = "review"
    /\ ~MayReview(copy[r], r)
    /\ Fail(r)
    /\ UNCHANGED <<file, now, log, signed, written, base, emptier>>

Truncate(r) ==
    /\ pc[r] = "truncate"
    /\ file' = Blank("empty")
    /\ emptier' = r
    /\ Goto(r, "write")
    /\ UNCHANGED <<now, copy, log, signed, written, base>>

WriteBackSlip(r) ==   \* saves only what changes the status
    /\ pc[r] = "write"
    /\ file' \in IF copy[r].status = "Pending" THEN {file} ELSE Filled(r)
    /\ written' = written \cup {r}
    /\ Goto(r, "log")
    /\ UNCHANGED <<now, copy, log, signed, base, emptier>>

WriteBack(r) ==
    /\ pc[r] = "write"
    /\ file' \in Filled(r)
    /\ written' = written \cup {r}
    /\ Goto(r, "log")
    /\ UNCHANGED <<now, copy, log, signed, base, emptier>>

LogReview(r) ==
    /\ pc[r] = "log"
    /\ log' = log \cup {r}
    /\ Goto(r, "done")
    /\ UNCHANGED <<file, now, copy, signed, written, base, emptier>>
-----------------------------------------------------------------------------
(***************************************************************************)
(* sign --proposal: read the proposal, check it, sign the mandate.         *)
(***************************************************************************)
ReadForSigning(s) ==
    /\ pc[s] = "start"
    /\ ReadFile(s)
    /\ Goto(s, "check")
    /\ UNCHANGED <<file, now, log, signed, written, base, emptier>>

\* Unlike a review, a signing passes over a deadline that it cannot read.
MaySign(p, s) ==
    /\ p.status = "Approved"
    /\ p.expires_at # NoDeadline => now < p.expires_at
    /\ s \in SameMandate

Sign(s) ==
    /\ pc[s] = "check"
    /\ MaySign(copy[s], s)
    /\ signed' = signed \cup {s}
    /\ Goto(s, "done")
    /\ UNCHANGED <<file, now, copy, log, written, base, emptier>>

RefuseToSign(s) ==
    /\ pc[s] = "check"
    /\ ~MaySign(copy[s], s)
    /\ Fail(s)
    /\ UNCHANGED <<file, now, log, signed, written, base, emptier>>
-----------------------------------------------------------------------------
\* A command ends early: the file cannot be read, a file or ledger operation
\* fails, or the process is killed.
Abandon(c) ==
    /\ pc[c] \notin Over
    /\ Fail(c)
    /\ UNCHANGED <<file, now, log, signed, written, base, emptier>>

\* The file is plain JSON: an editor may leave a deadline that is no time.
EditDeadline ==
    /\ file \notin Unreadable
    /\ file' = [file EXCEPT !.expires_at = NoDeadline]
    /\ UNCHANGED <<now, pc, copy, log, signed, written, base, emptier>>

Tick ==
    /\ now < MaxTime
    /\ now' = now + 1
    /\ UNCHANGED <<file, pc, copy, log, signed, written, base, emptier>>

Next ==
    \/ Create \/ WriteNew \/ LogNew
    \/ \E r \in Reviews :
          \/ ReadForReview(r) \/ RefuseReview(r) \/ \E d \in Decisions : ReviewCopy(r, d)
          \/ Truncate(r) \/ WriteBack(r) \/ LogReview(r)
    \/ \E s \in Signings : ReadForSigning(s) \/ Sign(s) \/ RefuseToSign(s)
    \/ \E c \in Commands : Abandon(c)
    \/ EditDeadline
    \/ Tick

Spec == Init /\ [][Next]_vars
-----------------------------------------------------------------------------
FromOf(p) == {p.reviews[i].from : i \in DOMAIN p.reviews}

\* Both commands read the file before the other had written it.
Overlap(r, q) == r \notin base[q] /\ q \notin base[r]

(***************************************************************************)
(* A mandate is signed only on a proposal that enough different reviewers  *)
(* approved, each by a command of its own, and none rejected: whatever     *)
(* interleaving, loss and death of commands, nothing counts twice          *)
(* (review_proposal: "reviewer hasn't already reviewed", required          *)
(* approvals).                                                             *)
(***************************************************************************)
SignedWithEnoughApprovals ==
    \A s \in signed :
        LET reviews == {copy[s].reviews[i] : i \in DOMAIN copy[s].reviews}
            approvals == {v \in reviews : v.decision = "Approve"}
        IN  /\ \A v \in reviews : v.from \in written /\ v.decision # "Reject"
            /\ Cardinality({v.reviewer_did : v \in approvals}) >= RequiredApprovals

(***************************************************************************)
(* A readable file shows a status that follows from the reviews it shows:  *)
(* a proposal is decided by its last review or not at all, so no review    *)
(* comes after a decision.                                                 *)
(***************************************************************************)
Decided(p) ==
    LET last == p.reviews[Len(p.reviews)].decision
    IN  IF p.reviews = <<>> THEN "Pending" ELSE StatusAfter([p EXCEPT !.status = "Pending"], last)

StatusFollowsReviews ==
    file \notin Unreadable =>
        /\ file.status = Decided(file)
        /\ \A i \in DOMAIN file.reviews :
              i < Len(file.reviews) => file.reviews[i].decision # "Reject"

(***************************************************************************)
(* A review that was written is in the file from then on, unless another   *)
(* review command overlapped with it: a reader always gets the work of     *)
(* every command that ended before the last writer began.                  *)
(***************************************************************************)
LostOnlyByOverlap ==
    file \notin Unreadable =>
        \A r \in written :
            \/ r \in FromOf(file)
            \/ \E q \in written : q # r /\ Overlap(r, q)

(***************************************************************************)
(* The file is empty only while the command that emptied it last has still *)
(* to fill it, or because that command was cut in between: no other death, *)
(* refusal or overlap leaves it so.  It is garbled only when two commands  *)
(* that wrote it overlapped.                                               *)
(***************************************************************************)
UnreadableOnlyByInterruption ==
    /\ file = Blank("empty") => pc[emptier] \in {"write", "cut"}
    /\ file = Blank("garbled") => \E r, q \in written : q # r /\ Overlap(r, q)

(***************************************************************************)
(* What `review` prints of a rejection: "REJECTED — mandate cannot be      *)
(* signed."                                                                *)
(***************************************************************************)
RejectedIsNeverSigned ==
    [][\A s \in signed' \ signed : \A r \in log : copy[r].status # "Rejected"]_vars
=============================================================================
