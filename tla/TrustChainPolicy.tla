--------------------------- MODULE TrustChainPolicy ---------------------------
(***************************************************************************)
(* TrustChainPolicy.__call__ for a verified chain and one entity type:     *)
(* gather_policies combines the statements from the trust anchor's down,   *)
(* apply_policy puts the result on the leaf's metadata, claim by claim.    *)
(***************************************************************************)
EXTENDS MetadataPolicy, Naturals, Sequences

CONSTANTS
  Claims,       \* metadata claims
  Chains,       \* verified chains without the leaf's statement
  LeafMetadata  \* what leaves may say of themselves

\* Metadata and policies are what the federation's messages allow.
IsMetadata(m) == DOMAIN m \subseteq Claims /\ \A x \in DOMAIN m : m[x] \in Data
IsClaimPolicy(p) ==
  /\ DOMAIN p \subseteq Operators
  /\ \A op \in DOMAIN p \cap {"value", "add", "default"} : p[op] \in Data
  /\ \A op \in DOMAIN p \cap {"one_of", "subset_of", "superset_of"} : p[op] \in Lists
  /\ "essential" \in DOMAIN p => p["essential"] \in BOOLEAN
IsPolicy(p) == DOMAIN p \subseteq Claims /\ \A x \in DOMAIN p : IsClaimPolicy(p[x])

ASSUME PolicyAssumption ==
  /\ Character \notin Values /\ NoValue \notin Values
  /\ \A l \in Lists : l # NoValue /\ \A v \in Values : l # v
  /\ \A m \in LeafMetadata : IsMetadata(m)
  /\ \A c \in Chains :
       /\ Len(c) \in Nat
       /\ \A i \in 1..Len(c) : IsMetadata(c[i].metadata) /\ IsPolicy(c[i].metadata_policy)

VARIABLES
  chain,        \* trust_chain.verified_chain[:-1], the entity type's part
  leaf,         \* trust_chain.verified_chain[-1], its metadata for the type, or NoValue
  pos,          \* the statement gather_policies is at
  rule,         \* _rule
  todo,         \* claims apply_metadata_policy has still to visit
  metadata,     \* the metadata it works on
  outcome       \* how the call stands: "gathering", "applying", "applied", "no_metadata",
                \* or an exception

vars == <<chain, leaf, pos, rule, todo, metadata, outcome>>

NoRule == [metadata |-> <<>>, metadata_policy |-> <<>>]

Init ==
  /\ chain \in Chains /\ leaf \in LeafMetadata \cup {NoValue}
  /\ pos = 1 /\ rule = NoRule
  /\ todo = {} /\ metadata = <<>>
  /\ outcome = "gathering"

\* A chain with no superior's statement, of which the code wants the metadata for the
\* entity type "" of apply_policies.
NoSuperior ==
  /\ outcome = "gathering" /\ Len(chain) = 0
  /\ outcome' = "no_entity_type"
  /\ UNCHANGED <<chain, leaf, pos, rule, todo, metadata>>

\* Claim appearing both in metadata and metadata_policy not allowed
Overlaps(s) == DOMAIN s.metadata \cap DOMAIN s.metadata_policy # {}

FirstStatement ==
  /\ outcome = "gathering" /\ pos = 1 /\ Len(chain) > 0
  /\ rule' = chain[1]
  /\ pos' = 2
  /\ UNCHANGED <<chain, leaf, todo, metadata, outcome>>

NextStatement ==
  /\ outcome = "gathering" /\ 1 < pos /\ pos <= Len(chain)
  /\ LET s == chain[pos] IN
     \/ /\ ~Overlaps(s)
        /\ MetadataAgrees(rule.metadata, s.metadata)
        /\ PoliciesAgree(rule.metadata_policy, s.metadata_policy)
        /\ rule' = [metadata |-> Updated(rule.metadata, s.metadata),
                    metadata_policy |-> CombinePolicies(rule.metadata_policy, s.metadata_policy)]
        /\ UNCHANGED outcome
     \/ /\ \/ Overlaps(s)
           \/ ~MetadataAgrees(rule.metadata, s.metadata)
           \/ ~PoliciesAgree(rule.metadata_policy, s.metadata_policy)
        /\ outcome' = "policy_error"
        /\ UNCHANGED rule
  /\ pos' = pos + 1
  /\ UNCHANGED <<chain, leaf, todo, metadata>>

\* The leaf is not of this entity type: _policy returns None.
NotOfType ==
  /\ outcome = "gathering" /\ 1 < pos /\ pos > Len(chain) /\ leaf = NoValue
  /\ outcome' = "no_metadata"
  /\ UNCHANGED <<chain, leaf, pos, rule, todo, metadata>>

\* apply_policy: what superiors say of the entity, and what it says itself.
StartApplying ==
  /\ outcome = "gathering" /\ 1 < pos /\ pos > Len(chain) /\ leaf # NoValue
  /\ metadata' = Updated(rule.metadata, leaf)
  /\ todo' = DOMAIN rule.metadata_policy
  /\ outcome' = "applying"
  /\ UNCHANGED <<chain, leaf, pos, rule>>

ValueOf(x) == IF x \in DOMAIN metadata THEN metadata[x] ELSE NoValue
With(x, v) == IF v = NoValue THEN metadata ELSE Updated(metadata, [y \in {x} |-> v])

\* Unless superiors gave metadata, it is the leaf's statement that is worked on.
ApplyClaim(x) ==
  /\ outcome = "applying" /\ x \in todo
  /\ LET p == rule.metadata_policy[x]
         v == ValueOf(x)
     IN \/ /\ Adheres(p, v)
           /\ metadata' = With(x, Applied(p, v))
           /\ UNCHANGED outcome
        \/ /\ ~Adheres(p, v)
           /\ metadata' = With(x, Reached(p, v))
           /\ outcome' = "policy_error"
  /\ leaf' = IF DOMAIN rule.metadata = {} THEN metadata' ELSE leaf
  /\ todo' = todo \ {x}
  /\ UNCHANGED <<chain, pos, rule>>

Return ==
  /\ outcome = "applying" /\ todo = {}
  /\ outcome' = "applied"
  /\ UNCHANGED <<chain, leaf, pos, rule, todo, metadata>>

Next ==
  \/ NoSuperior \/ FirstStatement \/ NextStatement
  \/ NotOfType \/ StartApplying \/ Return
  \/ \E x \in Claims : ApplyClaim(x)

Spec == Init /\ [][Next]_vars

-----------------------------------------------------------------------------
(* What the superior at i says                                             *)

Says(i, x, op) ==
  x \in DOMAIN chain[i].metadata_policy /\ op \in DOMAIN chain[i].metadata_policy[x]
Said(i, x, op) == chain[i].metadata_policy[x][op]
HasValue(x) == \E i \in 1..Len(chain) : Says(i, x, "value")

-----------------------------------------------------------------------------
(* Properties                                                              *)

\* The claim is within the subset_of, if a list, and the one_of, if a single value, of the
\* superior at i.
Within(i, x) ==
  /\ Says(i, x, "subset_of") /\ IsList(metadata[x]) => metadata[x] \subseteq Said(i, x, "subset_of")
  /\ Says(i, x, "one_of") /\ ~IsList(metadata[x]) => metadata[x] \in Said(i, x, "one_of")

\* Policies lower down may narrow what those above allow: metadata that
\* got through is within the bounds of every superior - provided none of them fixes a value.
SuperiorsNarrow ==
  outcome = "applied" => \A i \in 1..Len(chain), x \in DOMAIN metadata : ~HasValue(x) => Within(i, x)

\* "Applying the child policy can only make the combined policy more restrictive": metadata that
\* got through is within the bounds of every superior, whatever those below it say.
ChildrenOnlyRestrict ==
  outcome = "applied" => \A i \in 1..Len(chain), x \in DOMAIN metadata : Within(i, x)

\* What any superior calls essential is there.
EssentialIsThere ==
  outcome = "applied" => \A i \in 1..Len(chain), x \in Claims :
    Says(i, x, "essential") /\ Said(i, x, "essential") => x \in DOMAIN metadata

\* "A subordinate is not allowed to set a value different from the superiors": no two
\* superiors give the entity different metadata.
SuperiorsAgree ==
  outcome = "applied" => \A i, j \in 1..Len(chain) :
    \A x \in DOMAIN chain[i].metadata \cap DOMAIN chain[j].metadata :
      chain[i].metadata[x] = chain[j].metadata[x]
=============================================================================
