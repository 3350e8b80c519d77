----------------------------- MODULE Authority -----------------------------
(***************************************************************************)
(* The commands that build and revoke delegations, and the test an         *)
(* `enforce --authority-chain` puts a mandate to.  A command writes the    *)
(* delegation file (or the revocation row) first and its entry in the      *)
(* authority log in a second, separate step; it may be stopped in between. *)
(* Each command writes a file of its own; a file is plain JSON, and one    *)
(* edited by hand serves as well as another wherever only its signature is *)
(* looked at.                                                              *)
(***************************************************************************)
EXTENDS AuthorityOps

CONSTANTS
    Actors,             \* the keys, each with its DID
    DefaultTools,       \* what `authority-root` grants without --tools
    RootToolArgs, ToolArgs,     \* the --tools arguments; {} when it is left out
    RateArgs,           \* the --max-rate-limit arguments
    RootTtlArgs, TtlArgs,       \* the --ttl arguments, in hours
    MaxTtlArgs,         \* the --max-ttl arguments, in hours
    Mandates,           \* mandates an issuer may have signed
    LevelArgs,          \* the --level arguments
    EditTools,          \* the tools somebody may write into a file by hand
    MaxDelegations, MaxEdits, MaxRevocations, MaxUnlogged, MaxTime     \* bounds

ASSUME ArgumentAssumption ==
    /\ DefaultTools # {}
    /\ \A tools \in RootToolArgs \cup ToolArgs : IsFiniteSet(tools)
    /\ RateArgs \subseteq Nat
    /\ LevelArgs \subseteq Levels \ {Root}
    /\ RootTtlArgs \cup TtlArgs \subseteq Nat \ {0}
    /\ MaxTtlArgs \subseteq Nat
    /\ Genesis \notin Actors

ASSUME BoundAssumption ==
    /\ MaxDelegations \in Nat /\ MaxEdits \in Nat /\ MaxRevocations \in Nat
    /\ MaxUnlogged \in Nat /\ MaxTime \in Nat

VARIABLES
    delegations,        \* the delegation files, those edited by hand among them
    genuine,            \* history: the files a command wrote from a genuine parent
    revoked,            \* rows of the revocations table, by delegation hash
    authority_log,      \* how many rows of the authority log say each thing
    unlogged,           \* entries of commands that have taken effect and not logged yet
    now

vars == <<delegations, genuine, revoked, authority_log, unlogged, now>>

Event(type, hash) == [type |-> type, hash |-> hash]
EventTypes == {"root_delegation", "child_delegation", "delegation_revoked"}
Events == [type : EventTypes, hash : 0..MaxDelegations - 1]
Hashes == {d.hash : d \in delegations}
NextHash == Cardinality(Hashes)

Init ==
    /\ delegations = {}
    /\ genuine = {}
    /\ revoked = {}
    /\ authority_log = [e \in Events |-> 0]
    /\ unlogged = {}
    /\ now = 0

----------------------------------------------------------------------------
WriteDelegation(d, type, sound) ==
    /\ NextHash < MaxDelegations
    /\ Cardinality(unlogged) < MaxUnlogged
    /\ delegations' = delegations \cup {d}
    /\ genuine' = IF sound THEN genuine \cup {d} ELSE genuine
    /\ unlogged' = unlogged \cup {Event(type, d.hash)}
    /\ UNCHANGED <<revoked, authority_log, now>>

\* a2g authority-root
AuthorityRoot(root, toolArg, rate, maxTtl, ttl) ==
    LET scope == [tools |-> IF toolArg = {} THEN DefaultTools ELSE toolArg,
                  max_ttl |-> maxTtl, max_rate |-> rate, max_active |-> 2]
    IN WriteDelegation(RootDelegation(NextHash, root, scope, AlwaysOpen, ttl, now),
                       "root_delegation", TRUE)

\* The scope `a2g delegate` gives a child: 70 and 50 hundredths of the quotas.
ChildScope(parent, toolArg, ttl) ==
    [tools |-> IF toolArg = {} THEN parent.scope.tools ELSE toolArg,
     max_ttl |-> IF ttl < parent.scope.max_ttl THEN ttl ELSE parent.scope.max_ttl,
     max_rate |-> (parent.scope.max_rate * 70) \div 100,
     max_active |-> (parent.scope.max_active * 50) \div 100]

\* a2g delegate
Delegate(signer, parent, grantee, level, toolArg, ttl) ==
    LET scope == ChildScope(parent, toolArg, ttl)
    IN /\ MayDelegate(signer, parent, level, scope, ttl, now)
       /\ WriteDelegation(
              ChildDelegation(NextHash, parent, grantee, level, scope, parent.hours, ttl, now),
              "child_delegation", parent \in genuine)

\* The files that differ from d in one field, under the hash d has: a field the
\* hash was computed from, or the key and the signature it was made with.
Edited(d) ==
    {[d EXCEPT !.scope.tools = tools] : tools \in EditTools}
    \cup {[d EXCEPT !.parent = hash] : hash \in Hashes \cup {Genesis}}
    \cup {[d EXCEPT !.level = level] : level \in LevelArgs \cup {Root}}
    \cup {[d EXCEPT !.grantee = key] : key \in Actors}
    \cup {[d EXCEPT !.grantor = key] : key \in Actors}
    \cup {[d EXCEPT !.expires_at = @ + HOUR]}
    \cup {[d EXCEPT !.grantor_pubkey = key, !.signature = <<key, d.hash>>] : key \in Actors}

\* Somebody keeps a copy with one field changed.  No other step makes two files
\* of one hash, which counts the edits.
Edit(d) ==
    /\ Cardinality(delegations) - NextHash < MaxEdits
    /\ \E copy \in Edited(d) \ delegations : delegations' = delegations \cup {copy}
    /\ UNCHANGED <<genuine, revoked, authority_log, unlogged, now>>

\* RevokeDelegation that does not look at the result of the insertion.
RevokeDelegationSlip(d) ==
    /\ Cardinality(revoked) < MaxRevocations
    /\ Cardinality(unlogged) < MaxUnlogged
    /\ revoked' \in {revoked, revoked \cup {d.hash}}
    /\ unlogged' = unlogged \cup {Event("delegation_revoked", d.hash)}
    /\ UNCHANGED <<delegations, genuine, authority_log, now>>

\* a2g revoke-delegation; a second row for one delegation violates UNIQUE.
RevokeDelegation(d) ==
    /\ Cardinality(revoked) < MaxRevocations
    /\ Cardinality(unlogged) < MaxUnlogged
    /\ d.hash \notin revoked
    /\ revoked' = revoked \cup {d.hash}
    /\ unlogged' = unlogged \cup {Event("delegation_revoked", d.hash)}
    /\ UNCHANGED <<delegations, genuine, authority_log, now>>

\* log_authority_event at the end of each command.  A command that is killed or
\* cannot open the ledger never takes this step.
LogAuthorityEvent(e) ==
    /\ authority_log' = [authority_log EXCEPT ![e] = @ + 1]
    /\ unlogged' = unlogged \ {e}
    /\ UNCHANGED <<delegations, genuine, revoked, now>>

Tick ==
    /\ now < MaxTime
    /\ now' = now + 1
    /\ UNCHANGED <<delegations, genuine, revoked, authority_log, unlogged>>

Next ==
    \/ \E root \in Actors, toolArg \in RootToolArgs, rate \in RateArgs,
          maxTtl \in MaxTtlArgs, ttl \in RootTtlArgs :
           AuthorityRoot(root, toolArg, rate, maxTtl, ttl)
    \/ \E signer, grantee \in Actors, parent \in delegations, level \in LevelArgs,
          toolArg \in ToolArgs, ttl \in TtlArgs :
           Delegate(signer, parent, grantee, level, toolArg, ttl)
    \/ \E d \in delegations : RevokeDelegation(d) \/ Edit(d)
    \/ \E e \in unlogged : LogAuthorityEvent(e)
    \/ Tick

Spec == Init /\ [][Next]_vars

----------------------------------------------------------------------------
\* What `enforce --authority-chain` asks of a chain before it looks at the
\* mandate: no member revoked, and the chain whole.  Levels fall, so a chain
\* with more members than there are levels cannot pass.
ChainLengths == 1..Cardinality(LevelArgs) + 1
Chains(n) == [1..n -> delegations]

ChainPasses(chain) ==
    /\ \A i \in 1..Len(chain) : chain[i].hash \notin revoked
    /\ verify_chain(chain, now)

\* The key the chain's first file states is the trusted one.
Admits(chain, m) ==
    /\ ChainPasses(chain)
    /\ check_issuer_trust([kind |-> "Chain", roots |-> {chain[1].grantor_pubkey}, chain |-> chain],
                          m, now)

----------------------------------------------------------------------------
\* Every delegation and every log entry has the form the commands give it.
TypeOK ==
    /\ \A d \in delegations :
           /\ d.hash \in Nat
           /\ d.grantor \in Actors /\ d.grantee \in Actors
           /\ d.level \in Levels
           /\ d.parent = Genesis \/ d.parent \in Nat
           /\ d.expires_at \in Nat
           /\ d.scope.max_ttl \in Nat /\ d.scope.max_rate \in Nat
           /\ d.scope.max_active \in Nat
    /\ genuine \subseteq delegations
    /\ revoked \subseteq Hashes
    /\ authority_log \in [Events -> Nat]
    /\ unlogged \subseteq Events
    /\ now \in Nat

\* A delegation gives no more than its grantor had: fewer or the same tools, no
\* longer life, a lower level.  (delegate and cmd_delegate check the child
\* against the one parent file they are given and do not verify that file; this
\* is what it adds up to along the tree of the files nobody edited.)
GrantsShrink ==
    \A d, p \in genuine :
        d.parent = p.hash =>
            /\ d.scope.tools \subseteq p.scope.tools
            /\ d.scope.max_ttl <= p.scope.max_ttl
            /\ d.expires_at <= p.expires_at
            /\ d.level > p.level
            /\ d.grantor = p.grantee

\* From the k-th member of the chain to the last, nobody has edited a file.
UneditedFrom(chain, k) == \A i \in k..Len(chain) : chain[i] \in genuine

\* A mandate that passes with a chain asks for no tool that an authority of the
\* chain lacked, although the code compares it with the last one only.  That
\* reaches from the last member up as far as the files are unedited, and to the
\* delegation that the next one was, whatever its file has been edited to say.
AdmittedWithinChain ==
    \A n \in ChainLengths : \A chain \in Chains(n) : ChainPasses(chain) =>
        \A m \in Mandates : Admits(chain, m) =>
            \A k \in 1..n : UneditedFrom(chain, k) =>
                /\ \A i \in k..n : m.tools \subseteq chain[i].scope.tools
                /\ \A p \in genuine :
                       p.hash = chain[k].parent => m.tools \subseteq p.scope.tools

\* No delegation whose parent has been revoked serves in a chain that passes,
\* whatever files stand above it, as long as its own file is unedited: a chain
\* cannot leave its parent out, nor exchange it for another or for an edited
\* copy.  Without edits that holds for every ancestor of the last member.
RevokedAncestorStops ==
    \A n \in ChainLengths : \A chain \in Chains(n) :
        ChainPasses(chain) =>
            \A i \in 1..n, p \in genuine :
                chain[i] \in genuine /\ p.hash = chain[i].parent => p.hash \notin revoked

\* The authority log claims nothing that did not happen, and nothing twice,
\* whatever commands fail between their two steps or are repeated.
LogClaimsOnlyDone ==
    \A e \in Events : authority_log[e] > 0 =>
        /\ authority_log[e] = 1
        /\ IF e.type = "delegation_revoked" THEN e.hash \in revoked ELSE e.hash \in Hashes

\* authority.rs:5-6, "Each level can only issue mandates within its own scope":
\* a mandate that passes keeps to the rate of the chain's effective scope, the
\* one whose hash goes into the receipt.
RateWithinEffectiveScope ==
    \A n \in ChainLengths : \A chain \in Chains(n), m \in Mandates :
        Admits(chain, m) =>
            LET limit == compute_effective_scope(chain).max_rate
            IN limit > 0 => m.max_calls <= limit

\* authority.rs:68, the hash is said to cover all fields, and a chain that passes
\* to be verified: its files are the ones the commands wrote.  (TLC refutes this:
\* verify_delegation compares the signature with the hash in the file.)
PassingIsUnedited ==
    \A n \in ChainLengths : \A chain \in Chains(n) :
        ChainPasses(chain) => UneditedFrom(chain, 1)
=============================================================================
