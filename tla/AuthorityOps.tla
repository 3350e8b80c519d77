---------------------------- MODULE AuthorityOps ----------------------------
(***************************************************************************)
(* The rules of delegated authority (a2g-core authority.rs): who may       *)
(* delegate what, when a chain of delegations holds, and which mandates    *)
(* its last member may issue.                                              *)
(*                                                                         *)
(* A delegation is a record; its hash is a natural number, a signature the *)
(* key that made it and the hash it was made over.  A key stands for its   *)
(* DID as well.  As in the code an empty set of tools and a limit of zero  *)
(* mean that nothing is restricted.                                        *)
(***************************************************************************)
EXTENDS Integers, Sequences, SequencesExt

CONSTANTS
    HOUR, DAY,      \* ticks of the clock
    AlwaysOpen,     \* no operating hours
    Genesis         \* the parent hash of a root delegation

ASSUME ClockAssumption == HOUR \in Nat \ {0} /\ DAY \in Nat \ {0}
ASSUME GenesisAssumption == Genesis \notin Nat

\* The order of AuthorityLevel: a larger number is a lower authority.
Levels == 0..3
Root == 0

----------------------------------------------------------------------------
LOCAL Lesser(a, b) == IF a < b THEN a ELSE b

TimeOfDay(t) == t % DAY

\* Hours are a pair; both ends belong to them.
check_jurisdiction(hours, wall) ==
    \/ hours = AlwaysOpen
    \/ hours[1] <= TimeOfDay(wall) /\ TimeOfDay(wall) <= hours[2]

\* validate_scope_subset without the comparison of the tools.
validate_scope_subsetSlip(child, parent) ==
    /\ parent.max_ttl > 0 => child.max_ttl <= parent.max_ttl
    /\ parent.max_rate > 0 => child.max_rate <= parent.max_rate

\* validate_scope_subset: only what the child states is compared.
validate_scope_subset(child, parent) ==
    /\ parent.tools = {} \/ child.tools \subseteq parent.tools
    /\ parent.max_ttl > 0 => child.max_ttl <= parent.max_ttl
    /\ parent.max_rate > 0 => child.max_rate <= parent.max_rate

\* Whole hours until t, as num_hours cuts them.
RemainingHours(t, now) == IF t < now THEN 0 ELSE (t - now) \div HOUR

\* MayDelegate with the parent's lifetime in place of what is left of it.
MayDelegateSlip(signer, parent, level, scope, ttl, now) ==
    /\ level > parent.level
    /\ validate_scope_subset(scope, parent.scope)
    /\ ttl <= parent.scope.max_ttl
    /\ signer = parent.grantee

\* The refusals of delegate(), in any order: each leaves nothing behind.  The
\* signature of the parent is not looked at.
MayDelegate(signer, parent, level, scope, ttl, now) ==
    /\ level > parent.level
    /\ validate_scope_subset(scope, parent.scope)
    /\ ttl <= RemainingHours(parent.expires_at, now)
    /\ signer = parent.grantee

RootDelegation(hash, root, scope, hours, ttl, now) ==
    [hash |-> hash, grantor |-> root, grantee |-> root, level |-> Root,
     scope |-> scope, hours |-> hours, expires_at |-> now + ttl * HOUR,
     parent |-> Genesis, grantor_pubkey |-> root, signature |-> <<root, hash>>]

ChildDelegation(hash, parent, grantee, level, scope, hours, ttl, now) ==
    [hash |-> hash, grantor |-> parent.grantee, grantee |-> grantee, level |-> level,
     scope |-> scope, hours |-> hours, expires_at |-> now + ttl * HOUR,
     parent |-> parent.hash, grantor_pubkey |-> parent.grantee,
     signature |-> <<parent.grantee, hash>>]

----------------------------------------------------------------------------
\* The signature is compared with the hash and the key the file states; neither
\* is recomputed, the hash from the other fields or the key from the grantor's DID.
verify_delegation(d, wall) ==
    /\ d.signature = <<d.grantor_pubkey, d.hash>>
    /\ wall < d.expires_at

StartsAtRoot(d) == d.grantor = d.grantee /\ d.level = Root /\ d.parent = Genesis

\* Follows without the link by hash.
FollowsSlip(d, prev) == d.grantor = prev.grantee /\ d.level > prev.level

Follows(d, prev) ==
    /\ d.parent = prev.hash
    /\ d.grantor = prev.grantee
    /\ d.level > prev.level

verify_chain(chain, wall) ==
    /\ chain # <<>>
    /\ StartsAtRoot(chain[1])
    /\ \A i \in 1..Len(chain) : verify_delegation(chain[i], wall)
    /\ \A i \in 2..Len(chain) : Follows(chain[i], chain[i - 1])

\* The scope is narrowed by what a delegation states; an empty set of tools
\* that the narrowing produced is taken for "unrestricted" by the next one.
Narrow(scope, other) ==
    [tools |-> IF other.tools = {} THEN scope.tools
               ELSE IF scope.tools = {} THEN other.tools
               ELSE scope.tools \cap other.tools,
     max_ttl |-> IF other.max_ttl > 0 THEN Lesser(scope.max_ttl, other.max_ttl)
                 ELSE scope.max_ttl,
     max_rate |-> IF other.max_rate > 0 THEN Lesser(scope.max_rate, other.max_rate)
                  ELSE scope.max_rate,
     max_active |-> IF other.max_active > 0 THEN Lesser(scope.max_active, other.max_active)
                    ELSE scope.max_active]

compute_effective_scope(chain) ==
    FoldLeft(LAMBDA scope, d : Narrow(scope, d.scope), chain[1].scope, Tail(chain))

\* Only the last delegation is asked, and only for tools, rate and hours.
validate_mandate_against_authority(m, d, wall) ==
    /\ d.scope.tools = {} \/ m.tools \subseteq d.scope.tools
    /\ d.scope.max_rate > 0 => m.max_calls <= d.scope.max_rate
    /\ check_jurisdiction(d.hours, wall)

\* Step 1.5 of the pipeline.  The anchor is the caller's: anybody, a list of
\* keys, or a chain below one of these keys.
check_issuer_trust(anchor, m, wall) ==
    \/ anchor.kind = "SelfSovereign"
    \/ anchor.kind = "Roots" /\ m.issuer \in anchor.roots
    \/ /\ anchor.kind = "Chain"
       /\ verify_chain(anchor.chain, wall)
       /\ anchor.chain[1].grantor_pubkey \in anchor.roots
       /\ LET leaf == anchor.chain[Len(anchor.chain)]
          IN leaf.grantee = m.issuer /\ validate_mandate_against_authority(m, leaf, wall)
=============================================================================
