-------------------------- MODULE AuthorityProofs --------------------------
(***************************************************************************)
(* Theorems about Authority.tla, for any keys, arguments, mandates, unit   *)
(* of the clock and bounds.                                                *)
(***************************************************************************)
EXTENDS Authority, FiniteSetTheorems, WellFoundedInduction, TLAPS

(***************************************************************************)
(* The inductive invariant.  Its parts: every file is well formed, and no  *)
(* genuine one has an empty set of tools, which the comparison would take  *)
(* for "unrestricted"; hashes are numbers below NextHash and name one      *)
(* genuine file each, so that a parent's hash finds the parent; every link *)
(* between genuine files shrinks; an entry of the log is either owed or    *)
(* written, once, and then true.                                           *)
(***************************************************************************)
DelegationOK(d) ==
    /\ d.hash \in Nat
    /\ d.grantor \in Actors /\ d.grantee \in Actors
    /\ d.level \in Levels
    /\ d.parent = Genesis \/ d.parent \in Nat
    /\ d.expires_at \in Nat
    /\ d.scope.max_ttl \in Nat /\ d.scope.max_rate \in Nat
    /\ d.scope.max_active \in Nat

Shrinks(d, p) ==
    /\ d.scope.tools \subseteq p.scope.tools
    /\ d.scope.max_ttl <= p.scope.max_ttl
    /\ d.expires_at <= p.expires_at
    /\ d.level > p.level
    /\ d.grantor = p.grantee

HashesFresh ==
    /\ IsFiniteSet(Hashes)
    /\ \A d \in delegations : d.hash < NextHash
    /\ \A d, p \in genuine : d.hash = p.hash => d = p

NothingUnrestricted == \A d \in genuine : d.scope.tools # {}

Bounded == NextHash <= MaxDelegations

ParentsKnown ==
    \A d \in genuine : d.parent = Genesis \/ d.parent \in {p.hash : p \in genuine}

Done(e) ==
    IF e.type = "delegation_revoked" THEN e.hash \in revoked ELSE e.hash \in Hashes

LogOwedOnce ==
    \A e \in Events :
        /\ authority_log[e] <= 1
        /\ e \in unlogged => authority_log[e] = 0
        /\ (e \in unlogged \/ authority_log[e] > 0) => Done(e)

IInv == /\ TypeOK
        /\ HashesFresh
        /\ Bounded
        /\ NothingUnrestricted
        /\ ParentsKnown
        /\ GrantsShrink
        /\ LogOwedOnce

----------------------------------------------------------------------------
(* Lemmas about the operators.                                             *)

\* Every set of natural numbers that is not empty has a least member: the form in
\* which the proofs below make an induction.
LEMMA LeastMember ==
    ASSUME NEW T \in SUBSET Nat, T # {}
    PROVE  \E n \in T : \A m \in T : n <= m
  <1> DEFINE R == OpToRel(<, Nat)
  <1>1. IsWellFoundedOn(R, Nat)
    BY NatLessThanWellFounded
  <1>2. R = {ss \in Nat \X Nat : ss[1] < ss[2]}
    BY DEF OpToRel
  <1> HIDE DEF R
  <1>3. PICK n \in T : \A m \in T : <<m, n>> \notin R
    BY <1>1, WFMin, Zenon
  <1>4. ASSUME NEW m \in T
        PROVE  n <= m
    <2>1. m \in Nat /\ n \in Nat /\ <<m, n>> \notin R
      BY <1>3
    <2>2. ~(m < n)
      BY <2>1, <1>2, Z3
    <2> QED
      BY <2>1, <2>2
  <1> QED
    BY <1>3, <1>4

\* A lifetime granted out of the hours that remain ends no later than they do: the whole
\* hours are cut, never rounded up (the ttl check of delegate()).
LEMMA GrantWithinRemaining ==
    ASSUME NEW t \in Nat, NEW wall \in Nat, NEW ttl \in Nat \ {0},
           ttl <= RemainingHours(t, wall)
    PROVE  wall + ttl * HOUR <= t
  <1>1. HOUR \in Nat \ {0}
    BY ClockAssumption
  <1>2. wall <= t
    BY <1>1 DEF RemainingHours
  <1> DEFINE q == (t - wall) \div HOUR
  <1>3. t - wall \in Nat
    BY <1>2
  <1>4. q \in Nat /\ q * HOUR <= t - wall
    BY <1>1, <1>3
  <1>5. ttl <= q
    BY <1>2 DEF RemainingHours
  <1> HIDE DEF q
  <1>6. ttl * HOUR <= q * HOUR
    BY <1>1, <1>4, <1>5
  <1>7. ttl * HOUR \in Nat
    BY <1>1
  <1> QED
    BY <1>3, <1>4, <1>6, <1>7, <1>1

\* The number the next file gets is one more than the largest in use.
LEMMA NextHashType ==
    ASSUME HashesFresh
    PROVE  NextHash \in Nat /\ NextHash \notin Hashes
  <1>1. NextHash \in Nat
    BY FS_CardinalityType DEF HashesFresh, NextHash
  <1> QED
    BY <1>1 DEF HashesFresh, Hashes

\* What the commands hand to WriteDelegation, and what more it is when it is written
\* from genuine files only.
Writable(d) == DelegationOK(d) /\ d.hash = NextHash

Sound(d) ==
    /\ d.scope.tools # {}
    /\ d.parent = Genesis \/ \E p \in genuine : d.parent = p.hash /\ Shrinks(d, p)

\* A root delegation is one a command may write.
LEMMA RootWritable ==
    ASSUME IInv, NEW root \in Actors, NEW toolArg \in RootToolArgs, NEW rate \in RateArgs,
           NEW maxTtl \in MaxTtlArgs, NEW ttl \in RootTtlArgs,
           AuthorityRoot(root, toolArg, rate, maxTtl, ttl)
    PROVE  \E d : Writable(d) /\ Sound(d) /\ WriteDelegation(d, "root_delegation", TRUE)
  <1> DEFINE scope == [tools |-> IF toolArg = {} THEN DefaultTools ELSE toolArg,
                       max_ttl |-> maxTtl, max_rate |-> rate, max_active |-> 2]
             d == RootDelegation(NextHash, root, scope, AlwaysOpen, ttl, now)
  <1>1. NextHash \in Nat /\ now \in Nat /\ ttl \in Nat /\ maxTtl \in Nat /\ rate \in Nat
    BY NextHashType, ArgumentAssumption DEF IInv, TypeOK
  <1>2. now + ttl * HOUR \in Nat
    BY <1>1, ClockAssumption
  <1>3. scope.tools # {}
    BY ArgumentAssumption
  <1>4. Writable(d)
    BY <1>1, <1>2 DEF Writable, DelegationOK, RootDelegation, Levels, Root
  <1>5. Sound(d)
    BY <1>3 DEF Sound, RootDelegation
  <1> QED
    BY <1>4, <1>5 DEF AuthorityRoot

\* What the checks of delegate() and the quotas of cmd_delegate amount to: the child
\* takes no more than the parent has, and something.
LEMMA ChildWritable ==
    ASSUME IInv, NEW signer \in Actors, NEW grantee \in Actors, NEW parent \in delegations,
           NEW level \in LevelArgs, NEW toolArg \in ToolArgs, NEW ttl \in TtlArgs,
           Delegate(signer, parent, grantee, level, toolArg, ttl)
    PROVE  \E d : /\ Writable(d) /\ (parent \in genuine => Sound(d))
                  /\ WriteDelegation(d, "child_delegation", parent \in genuine)
  <1> DEFINE scope == ChildScope(parent, toolArg, ttl)
             d == ChildDelegation(NextHash, parent, grantee, level, scope,
                                  parent.hours, ttl, now)
  <1>1. /\ NextHash \in Nat /\ now \in Nat /\ ttl \in Nat \ {0}
        /\ level \in Levels /\ HOUR \in Nat \ {0}
    BY NextHashType, ArgumentAssumption, ClockAssumption DEF IInv, TypeOK
  <1>2. DelegationOK(parent)
    BY DEF IInv, TypeOK, DelegationOK
  <1>3. MayDelegate(signer, parent, level, scope, ttl, now)
    BY DEF Delegate
  <1>4. ASSUME parent \in genuine
        PROVE  scope.tools # {} /\ scope.tools \subseteq parent.scope.tools
    <2>1. parent.scope.tools # {}
      BY <1>4 DEF IInv, NothingUnrestricted
    <2> QED
      BY <2>1, <1>3 DEF MayDelegate, validate_scope_subset, ChildScope
  <1>5. scope.max_ttl \in Nat /\ scope.max_ttl <= parent.scope.max_ttl
    BY <1>1, <1>2 DEF ChildScope, DelegationOK
  <1>6. scope.max_rate \in Nat /\ scope.max_active \in Nat
    BY <1>2 DEF ChildScope, DelegationOK
  <1>7. now + ttl * HOUR \in Nat /\ now + ttl * HOUR <= parent.expires_at
    BY <1>1, <1>2, <1>3, GrantWithinRemaining DEF MayDelegate, DelegationOK
  <1> HIDE DEF scope
  <1>8. /\ d.hash = NextHash /\ d.grantor = parent.grantee /\ d.grantee = grantee
        /\ d.level = level /\ d.scope = scope /\ d.parent = parent.hash
        /\ d.expires_at = now + ttl * HOUR
    BY DEF ChildDelegation
  <1> HIDE DEF d
  <1>9. Writable(d)
    BY <1>1, <1>2, <1>5, <1>6, <1>7, <1>8 DEF Writable, DelegationOK
  <1>10. ASSUME parent \in genuine
         PROVE  Sound(d)
    <2>1. Shrinks(d, parent)
      BY <1>3, <1>4, <1>5, <1>7, <1>8, <1>10 DEF Shrinks, MayDelegate
    <2> QED
      BY <2>1, <1>4, <1>8, <1>10 DEF Sound
  <1> QED
    BY <1>9, <1>10 DEF Delegate, scope, d

----------------------------------------------------------------------------
(* The invariant is inductive.                                             *)

\* Nothing is delegated, revoked or logged at first.
LEMMA InitIInv == Init => IInv
  <1> SUFFICES ASSUME Init
               PROVE  IInv
    OBVIOUS
  <1>1. Hashes = {} /\ IsFiniteSet(Hashes)
    BY FS_EmptySet DEF Init, Hashes
  <1>2. TypeOK /\ Bounded
    BY <1>1, FS_EmptySet, BoundAssumption DEF Init, TypeOK, Bounded, NextHash
  <1>3. LogOwedOnce
    BY DEF Init, LogOwedOnce
  <1> QED
    BY <1>1, <1>2, <1>3
       DEF Init, IInv, HashesFresh, NothingUnrestricted, ParentsKnown, GrantsShrink

\* Writing a delegation file keeps the invariant.
LEMMA WriteIInv ==
    ASSUME IInv, NEW d, NEW type \in {"root_delegation", "child_delegation"},
           NEW sound \in BOOLEAN,
           Writable(d), sound => Sound(d), WriteDelegation(d, type, sound)
    PROVE  IInv'
  <1>1. /\ delegations' = delegations \cup {d}
        /\ genuine' = IF sound THEN genuine \cup {d} ELSE genuine
        /\ unlogged' = unlogged \cup {Event(type, d.hash)}
        /\ revoked' = revoked /\ authority_log' = authority_log /\ now' = now
        /\ NextHash < MaxDelegations
    BY DEF WriteDelegation
  <1>2. NextHash \in Nat /\ NextHash \notin Hashes /\ MaxDelegations \in Nat
    BY NextHashType, BoundAssumption DEF IInv
  <1>3. d \notin delegations /\ d.hash = NextHash /\ DelegationOK(d)
    BY <1>2 DEF Writable, Hashes
  <1>4. Hashes' = Hashes \cup {NextHash}
    BY <1>1, <1>3 DEF Hashes
  <1>5. IsFiniteSet(Hashes') /\ NextHash' = NextHash + 1
    BY <1>2, <1>4, FS_AddElement DEF IInv, HashesFresh, NextHash
  <1>6. /\ genuine \subseteq delegations /\ d \notin genuine
        /\ \A p \in genuine : p.hash \in Nat /\ p.hash < NextHash
    BY <1>3 DEF IInv, TypeOK, HashesFresh
  <1>7. HashesFresh' /\ Bounded'
    <2>1. \A c \in delegations' : c.hash < NextHash'
      BY <1>1, <1>2, <1>3, <1>5 DEF IInv, HashesFresh, TypeOK
    <2>2. \A c, p \in genuine' : c.hash = p.hash => c = p
      BY <1>1, <1>2, <1>3, <1>6 DEF IInv, HashesFresh
    <2> QED
      BY <2>1, <2>2, <1>1, <1>2, <1>5 DEF HashesFresh, Bounded
  <1>8. TypeOK'
    <2>1. \A c \in delegations' : DelegationOK(c)
      BY <1>1, <1>3 DEF IInv, TypeOK, DelegationOK
    <2>2. Event(type, d.hash) \in Events
      BY <1>1, <1>2, <1>3 DEF Event, Events, EventTypes
    <2>3. genuine' \subseteq delegations'
      BY <1>1, <1>6
    <2> QED
      BY <2>1, <2>2, <2>3, <1>1, <1>4 DEF IInv, TypeOK, DelegationOK
  <1>9. NothingUnrestricted' /\ ParentsKnown' /\ GrantsShrink'
    <2>1. CASE ~sound
      BY <2>1, <1>1 DEF IInv, NothingUnrestricted, ParentsKnown, GrantsShrink
    <2>2. CASE sound
      <3>1. genuine' = genuine \cup {d} /\ Sound(d)
        BY <2>2, <1>1
      <3>2. NothingUnrestricted'
        BY <3>1 DEF IInv, NothingUnrestricted, Sound
      <3>3. ParentsKnown'
        BY <3>1 DEF IInv, ParentsKnown, Sound
      <3>4. GrantsShrink'
        <4> SUFFICES ASSUME NEW c \in genuine', NEW p \in genuine', c.parent = p.hash
                     PROVE  Shrinks(c, p)
          BY DEF GrantsShrink, Shrinks
        <4>1. p.hash \in Nat
          BY <3>1, <1>2, <1>3, <1>6
        <4>2. PICK q \in genuine : c.parent = q.hash /\ (c = d => Shrinks(c, q))
          BY <3>1, <4>1, GenesisAssumption DEF IInv, ParentsKnown, Sound
        <4>3. p # d
          <5>1. q.hash \in Nat /\ q.hash < NextHash /\ p.hash = q.hash
            BY <4>2, <1>6
          <5> QED
            BY <5>1, <1>2, <1>3
        <4>4. p \in genuine /\ q = p
          BY <4>2, <4>3, <3>1 DEF IInv, HashesFresh
        <4>5. CASE c = d
          BY <4>2, <4>4, <4>5
        <4>6. CASE c \in genuine
          BY <4>4, <4>6 DEF IInv, GrantsShrink, Shrinks
        <4> QED
          BY <4>5, <4>6, <3>1
      <3> QED
        BY <3>2, <3>3, <3>4
    <2> QED
      BY <2>1, <2>2
  <1>10. LogOwedOnce'
    <2> SUFFICES ASSUME NEW e \in Events
                 PROVE  /\ authority_log[e] <= 1
                        /\ e \in unlogged' => authority_log[e] = 0
                        /\ (e \in unlogged' \/ authority_log[e] > 0) => Done(e)'
      BY <1>1 DEF LogOwedOnce
    <2>1. Done(e) => Done(e)'
      BY <1>1, <1>4 DEF Done
    <2>2. CASE e = Event(type, d.hash)
      <3>1. e.type = type /\ e.hash = NextHash /\ type # "delegation_revoked"
        BY <2>2, <1>3 DEF Event
      <3>2. ~Done(e) /\ Done(e)'
        BY <3>1, <1>2, <1>4 DEF Done
      <3>3. authority_log[e] = 0
        BY <3>2 DEF IInv, LogOwedOnce, TypeOK
      <3> QED
        BY <3>2, <3>3
    <2>3. CASE e # Event(type, d.hash)
      BY <2>1, <2>3, <1>1 DEF IInv, LogOwedOnce
    <2> QED
      BY <2>2, <2>3
  <1> QED
    BY <1>7, <1>8, <1>9, <1>10 DEF IInv

\* A step that leaves the files alone keeps what the invariant says of them.
LEMMA FilesUnchanged ==
    ASSUME IInv, UNCHANGED <<delegations, genuine>>
    PROVE  /\ HashesFresh' /\ Bounded' /\ NothingUnrestricted' /\ ParentsKnown' /\ GrantsShrink'
           /\ Hashes' = Hashes
           /\ (\A d \in delegations : DelegationOK(d))'
           /\ (genuine \subseteq delegations)'
  BY DEF IInv, HashesFresh, Bounded, NothingUnrestricted, ParentsKnown, GrantsShrink,
         Hashes, NextHash, TypeOK, DelegationOK

\* An edited copy is a well-formed file of the same hash.
LEMMA EditedType ==
    ASSUME IInv, NEW d \in delegations, NEW copy \in Edited(d)
    PROVE  DelegationOK(copy) /\ copy.hash = d.hash
  <1>1. DelegationOK(d)
    BY DEF IInv, TypeOK, DelegationOK
  <1>2. LevelArgs \cup {Root} \subseteq Levels
    BY ArgumentAssumption DEF Levels, Root
  <1>3. d.expires_at + HOUR \in Nat
    BY <1>1, ClockAssumption DEF DelegationOK
  <1>4. Hashes \subseteq Nat
    BY DEF IInv, TypeOK, Hashes
  <1>5. ASSUME NEW tools \in EditTools, copy = [d EXCEPT !.scope.tools = tools]
        PROVE  DelegationOK(copy) /\ copy.hash = d.hash
    <2> DEFINE scope == [d.scope EXCEPT !.tools = tools]
    <2>1. /\ scope.max_ttl = d.scope.max_ttl /\ scope.max_rate = d.scope.max_rate
          /\ scope.max_active = d.scope.max_active
      OBVIOUS
    <2>2. copy = [d EXCEPT !.scope = scope]
      BY <1>5
    <2> HIDE DEF scope
    <2>3. /\ copy.hash = d.hash /\ copy.grantor = d.grantor /\ copy.grantee = d.grantee
          /\ copy.level = d.level /\ copy.parent = d.parent
          /\ copy.expires_at = d.expires_at /\ copy.scope = scope
      BY <2>2
    <2> QED
      BY <1>1, <2>1, <2>3 DEF DelegationOK
  <1>6. ASSUME NEW hash \in Hashes \cup {Genesis}, copy = [d EXCEPT !.parent = hash]
        PROVE  DelegationOK(copy) /\ copy.hash = d.hash
    BY <1>1, <1>4, <1>6 DEF DelegationOK
  <1>7. ASSUME NEW level \in LevelArgs \cup {Root}, copy = [d EXCEPT !.level = level]
        PROVE  DelegationOK(copy) /\ copy.hash = d.hash
    BY <1>1, <1>2, <1>7 DEF DelegationOK
  <1>8. ASSUME NEW key \in Actors,
               \/ copy = [d EXCEPT !.grantee = key]
               \/ copy = [d EXCEPT !.grantor = key]
               \/ copy = [d EXCEPT !.grantor_pubkey = key, !.signature = <<key, d.hash>>]
        PROVE  DelegationOK(copy) /\ copy.hash = d.hash
    <2>1. CASE copy = [d EXCEPT !.grantee = key]
      BY <1>1, <2>1 DEF DelegationOK
    <2>2. CASE copy = [d EXCEPT !.grantor = key]
      BY <1>1, <2>2 DEF DelegationOK
    <2>3. CASE copy = [d EXCEPT !.grantor_pubkey = key, !.signature = <<key, d.hash>>]
      BY <1>1, <2>3 DEF DelegationOK
    <2> QED
      BY <2>1, <2>2, <2>3, <1>8
  <1>9. ASSUME copy = [d EXCEPT !.expires_at = @ + HOUR]
        PROVE  DelegationOK(copy) /\ copy.hash = d.hash
    BY <1>1, <1>3, <1>9 DEF DelegationOK
  <1> QED
    BY <1>5, <1>6, <1>7, <1>8, <1>9 DEF Edited

\* An edited copy beside the files keeps the invariant: it adds no hash, and nothing is
\* asked of it but its form.
LEMMA EditIInv ==
    ASSUME IInv, NEW d \in delegations, Edit(d)
    PROVE  IInv'
  <1>1. PICK copy \in Edited(d) : delegations' = delegations \cup {copy}
    BY DEF Edit
  <1>2. UNCHANGED <<genuine, revoked, authority_log, unlogged, now>>
    BY DEF Edit
  <1>3. DelegationOK(copy) /\ copy.hash = d.hash
    BY EditedType
  <1>4. Hashes' = Hashes /\ NextHash' = NextHash
    BY <1>1, <1>3 DEF Hashes, NextHash
  <1>5. HashesFresh' /\ Bounded'
    BY <1>1, <1>2, <1>3, <1>4 DEF IInv, HashesFresh, Bounded
  <1>6. TypeOK'
    BY <1>1, <1>2, <1>3, <1>4 DEF IInv, TypeOK, DelegationOK
  <1>7. NothingUnrestricted' /\ ParentsKnown' /\ GrantsShrink'
    BY <1>2 DEF IInv, NothingUnrestricted, ParentsKnown, GrantsShrink
  <1>8. LogOwedOnce'
    BY <1>2, <1>4 DEF IInv, LogOwedOnce, Done
  <1> QED
    BY <1>5, <1>6, <1>7, <1>8 DEF IInv

\* Revoking a delegation for the first time keeps the invariant.
LEMMA RevokeIInv ==
    ASSUME IInv, NEW d \in delegations, RevokeDelegation(d)
    PROVE  IInv'
  <1> DEFINE claim == Event("delegation_revoked", d.hash)
  <1>1. /\ revoked' = revoked \cup {d.hash} /\ d.hash \notin revoked
        /\ unlogged' = unlogged \cup {claim}
        /\ UNCHANGED <<delegations, genuine, authority_log, now>>
    BY DEF RevokeDelegation
  <1>2. claim \in Events
    <2>1. d.hash \in Nat /\ d.hash < NextHash /\ NextHash \in Nat
      BY NextHashType DEF IInv, TypeOK, HashesFresh
    <2>2. NextHash <= MaxDelegations
      BY DEF IInv, Bounded
    <2> QED
      BY <2>1, <2>2, BoundAssumption DEF Event, Events, EventTypes
  <1>3. TypeOK'
    BY <1>1, <1>2, FilesUnchanged DEF IInv, TypeOK, DelegationOK, Hashes
  <1>4. LogOwedOnce'
    <2> SUFFICES ASSUME NEW e \in Events
                 PROVE  /\ authority_log[e] <= 1
                        /\ e \in unlogged' => authority_log[e] = 0
                        /\ (e \in unlogged' \/ authority_log[e] > 0) => Done(e)'
      BY <1>1 DEF LogOwedOnce
    <2>1. Done(e) => Done(e)'
      BY <1>1, FilesUnchanged DEF Done
    <2>2. CASE e = claim
      <3>1. e.type = "delegation_revoked" /\ e.hash = d.hash
        BY <2>2 DEF Event
      <3>2. ~Done(e) /\ Done(e)'
        BY <3>1, <1>1 DEF Done
      <3>3. authority_log[e] = 0
        BY <3>2 DEF IInv, LogOwedOnce, TypeOK
      <3> QED
        BY <3>2, <3>3
    <2>3. CASE e # claim
      BY <2>1, <2>3, <1>1 DEF IInv, LogOwedOnce
    <2> QED
      BY <2>2, <2>3
  <1> QED
    BY <1>1, <1>3, <1>4, FilesUnchanged DEF IInv

\* Writing an owed entry of the log keeps the invariant.
LEMMA LogIInv ==
    ASSUME IInv, NEW e \in unlogged, LogAuthorityEvent(e)
    PROVE  IInv'
  <1>1. /\ authority_log' = [authority_log EXCEPT ![e] = @ + 1]
        /\ unlogged' = unlogged \ {e}
        /\ UNCHANGED <<delegations, genuine, revoked, now>>
    BY DEF LogAuthorityEvent
  <1>2. e \in Events /\ authority_log[e] = 0 /\ Done(e)
    BY DEF IInv, TypeOK, LogOwedOnce
  <1>3. TypeOK'
    BY <1>1, <1>2, FilesUnchanged DEF IInv, TypeOK, DelegationOK, Hashes
  <1>4. LogOwedOnce'
    <2>1. \A c \in Events : Done(c) <=> Done(c)'
      BY <1>1, FilesUnchanged DEF Done
    <2>2. \A c \in Events : authority_log'[c] = IF c = e THEN 1 ELSE authority_log[c]
      BY <1>1, <1>2 DEF IInv, TypeOK
    <2> QED
      BY <2>1, <2>2, <1>1, <1>2 DEF IInv, LogOwedOnce
  <1> QED
    BY <1>1, <1>3, <1>4, FilesUnchanged DEF IInv

\* Time and stuttering keep the invariant.
LEMMA QuietIInv ==
    ASSUME IInv, UNCHANGED <<delegations, genuine, revoked, authority_log, unlogged>>,
           now' \in Nat
    PROVE  IInv'
  <1>1. TypeOK'
    BY FilesUnchanged DEF IInv, TypeOK, DelegationOK, Hashes
  <1>2. LogOwedOnce'
    BY FilesUnchanged DEF IInv, LogOwedOnce, Done
  <1> QED
    BY <1>1, <1>2, FilesUnchanged DEF IInv

\* Every command, each of its two steps, and the clock keep the invariant.
LEMMA NextIInv == IInv /\ [Next]_vars => IInv'
  <1> SUFFICES ASSUME IInv, [Next]_vars
               PROVE  IInv'
    OBVIOUS
  <1>1. ASSUME NEW root \in Actors, NEW toolArg \in RootToolArgs, NEW rate \in RateArgs,
               NEW maxTtl \in MaxTtlArgs, NEW ttl \in RootTtlArgs,
               AuthorityRoot(root, toolArg, rate, maxTtl, ttl)
        PROVE  IInv'
    BY <1>1, RootWritable, WriteIInv
  <1>2. ASSUME NEW signer \in Actors, NEW grantee \in Actors, NEW parent \in delegations,
               NEW level \in LevelArgs, NEW toolArg \in ToolArgs, NEW ttl \in TtlArgs,
               Delegate(signer, parent, grantee, level, toolArg, ttl)
        PROVE  IInv'
    <2>1. PICK d : /\ Writable(d) /\ (parent \in genuine => Sound(d))
                   /\ WriteDelegation(d, "child_delegation", parent \in genuine)
      BY <1>2, ChildWritable
    <2>2. PICK sound \in BOOLEAN : sound = (parent \in genuine)
      <3>1. (parent \in genuine) \in BOOLEAN
        OBVIOUS
      <3> QED
        BY <3>1, Zenon
    <2>3. (sound => Sound(d)) /\ WriteDelegation(d, "child_delegation", sound)
      BY <2>1, <2>2
    <2> QED
      BY <2>1, <2>3, WriteIInv
  <1>3. ASSUME NEW d \in delegations, RevokeDelegation(d)
        PROVE  IInv'
    BY <1>3, RevokeIInv
  <1>4. ASSUME NEW e \in unlogged, LogAuthorityEvent(e)
        PROVE  IInv'
    BY <1>4, LogIInv
  <1>7. ASSUME NEW d \in delegations, Edit(d)
        PROVE  IInv'
    BY <1>7, EditIInv
  <1>5. CASE Tick
    BY <1>5, QuietIInv DEF Tick, IInv, TypeOK
  <1>6. CASE UNCHANGED vars
    BY <1>6, QuietIInv DEF vars, IInv, TypeOK
  <1> QED
    BY <1>1, <1>2, <1>3, <1>4, <1>5, <1>6, <1>7 DEF Next

\* The invariant holds throughout.
THEOREM Invariance == Spec => []IInv
  BY InitIInv, NextIInv, PTL DEF Spec

----------------------------------------------------------------------------
(* What the runs check.                                                    *)

\* Files and log entries have the form the commands give them, and what is revoked is a
\* delegation there is.
THEOREM TypeCorrect == Spec => []TypeOK
  BY Invariance, PTL DEF IInv

\* The refusals of delegate() and the quotas cmd_delegate computes, each against one
\* parent, make every link of the tree of delegations shrink in tools, life and level.
THEOREM DelegationsShrink == Spec => []GrantsShrink
  BY Invariance, PTL DEF IInv

\* Each entry of the authority log is true and there once, though a command may stop
\* before it writes its entry and a revocation may be tried again.
THEOREM LogIsTruthful == Spec => []LogClaimsOnlyDone
  <1>1. IInv => LogClaimsOnlyDone
    <2> SUFFICES ASSUME IInv, NEW e \in Events, authority_log[e] > 0
                 PROVE  authority_log[e] = 1 /\ Done(e)
      BY DEF LogClaimsOnlyDone, Done
    <2>1. authority_log[e] \in Nat /\ authority_log[e] <= 1 /\ Done(e)
      BY DEF IInv, TypeOK, LogOwedOnce
    <2> QED
      BY <2>1
  <1> QED
    BY <1>1, Invariance, PTL

\* A chain is a sequence of delegation files, the last of them the issuer's.
LEMMA ChainType ==
    ASSUME NEW n \in ChainLengths, NEW chain \in Chains(n)
    PROVE  /\ n \in Nat \ {0} /\ Len(chain) = n
           /\ \A i \in 1..n : chain[i] \in delegations
  <1>1. chain \in [1..n -> delegations] /\ n \in Nat \ {0}
    BY DEF Chains, ChainLengths
  <1>2. chain \in Seq(delegations) /\ Len(chain) = n
    BY <1>1
  <1> QED
    BY <1>1, <1>2

\* No unedited member of a chain that passes has a revoked parent: the hash of the parent
\* in its file leaves no way to go round it, although the files above may be edited ones.
THEOREM AncestorsHold == Spec => []RevokedAncestorStops
  <1>1. IInv => RevokedAncestorStops
    <2> SUFFICES ASSUME IInv, NEW n \in ChainLengths, NEW chain \in Chains(n),
                        ChainPasses(chain),
                        NEW i \in 1..n, NEW p \in genuine, p.hash = chain[i].parent
                 PROVE  p.hash \notin revoked
      BY DEF RevokedAncestorStops
    <2>1. n \in Nat \ {0} /\ Len(chain) = n /\ p.hash \in Nat
      BY ChainType DEF IInv, TypeOK
    <2>2. i # 1
      BY <2>1, GenesisAssumption DEF ChainPasses, verify_chain, StartsAtRoot
    <2>3. i \in 2..Len(chain) /\ i - 1 \in 1..Len(chain)
      BY <2>1, <2>2
    <2>4. p.hash = chain[i - 1].hash
      BY <2>3 DEF ChainPasses, verify_chain, Follows
    <2> QED
      BY <2>3, <2>4 DEF ChainPasses
  <1> QED
    BY <1>1, Invariance, PTL

\* A mandate admitted with a chain asks for no tool that an authority of the chain lacked,
\* from the last one up as far as the files are unedited and to the parent above, though
\* validate_mandate_against_authority looks at the last file alone: that one has a set of
\* tools, and between unedited files the sets only shrink.
THEOREM AdmissionNeedsWholeChain == Spec => []AdmittedWithinChain
  <1>1. IInv => AdmittedWithinChain
    <2> SUFFICES ASSUME IInv, NEW n \in ChainLengths, NEW chain \in Chains(n),
                        ChainPasses(chain), NEW m \in Mandates, Admits(chain, m),
                        NEW k \in 1..n, UneditedFrom(chain, k)
                 PROVE  /\ \A i \in k..n : m.tools \subseteq chain[i].scope.tools
                        /\ \A p \in genuine :
                               p.hash = chain[k].parent => m.tools \subseteq p.scope.tools
      BY DEF AdmittedWithinChain
    <2> DEFINE Covers(j) == m.tools \subseteq chain[n - j].scope.tools
               Lacking == {j \in 0..n - k : ~Covers(j)}
    <2>1. /\ n \in Nat \ {0} /\ Len(chain) = n
          /\ k \in Nat \ {0} /\ k <= n
          /\ \A i \in k..n : chain[i] \in genuine
      BY ChainType DEF UneditedFrom
    <2>2. Covers(0)
      <3>1. /\ chain[n].scope.tools = {} \/ m.tools \subseteq chain[n].scope.tools
            /\ n - 0 = n
        BY <2>1 DEF Admits, check_issuer_trust, validate_mandate_against_authority
      <3>2. chain[n].scope.tools # {}
        BY <2>1 DEF IInv, NothingUnrestricted
      <3> QED
        BY <3>1, <3>2
    <2>3. ASSUME NEW j \in 1..n - k, Covers(j - 1)
          PROVE  Covers(j)
      <3>1. /\ n - j \in k..n /\ n - (j - 1) \in 2..n /\ n - (j - 1) \in k..n
            /\ n - (j - 1) - 1 = n - j
        BY <2>1
      <3>2. chain[n - (j - 1)].parent = chain[n - j].hash
        BY <2>1, <3>1 DEF ChainPasses, verify_chain, Follows
      <3>3. chain[n - (j - 1)].scope.tools \subseteq chain[n - j].scope.tools
        BY <2>1, <3>1, <3>2 DEF IInv, GrantsShrink
      <3> QED
        BY <2>3, <3>3
    <2>4. Lacking = {}
      <3> SUFFICES ASSUME Lacking # {}
                   PROVE  FALSE
        OBVIOUS
      <3> HIDE DEF Covers
      <3>1. PICK j \in Lacking : \A l \in Lacking : j <= l
        <4>1. Lacking \in SUBSET Nat
          BY <2>1
        <4> HIDE DEF Lacking
        <4> QED
          BY <4>1, LeastMember
      <3>2. j # 0 /\ j \in 0..n - k
        BY <2>2, <3>1
      <3>3. j \in 1..n - k /\ j - 1 \in 0..n - k /\ j - 1 \notin Lacking
        <4>1. j - 1 \in 0..n - k /\ ~(j <= j - 1) /\ j \in 1..n - k
          BY <2>1, <3>2
        <4> HIDE DEF Lacking
        <4> QED
          BY <3>1, <4>1
      <3>4. Covers(j)
        BY <2>3, <3>3
      <3> QED
        BY <3>1, <3>4
    <2>5. ASSUME NEW i \in k..n
          PROVE  m.tools \subseteq chain[i].scope.tools
      <3>1. n - i \in 0..n - k /\ n - (n - i) = i
        BY <2>1
      <3>2. Covers(n - i)
        BY <2>4, <3>1
      <3> QED
        BY <3>1, <3>2
    <2>6. ASSUME NEW p \in genuine, p.hash = chain[k].parent
          PROVE  m.tools \subseteq p.scope.tools
      <3>1. chain[k] \in genuine /\ k \in k..n
        BY <2>1
      <3>2. chain[k].scope.tools \subseteq p.scope.tools
        BY <2>6, <3>1 DEF IInv, GrantsShrink
      <3> QED
        BY <2>5, <3>1, <3>2
    <2> QED
      BY <2>5, <2>6
  <1> QED
    BY <1>1, Invariance, PTL
=============================================================================
