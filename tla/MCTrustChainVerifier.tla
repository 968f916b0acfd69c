------------------------- MODULE MCTrustChainVerifier -------------------------
(***************************************************************************)
(* A leaf below an intermediate below an anchor, whose intermediate has    *)
(* changed its key once, for TrustChainVerifier.                           *)
(***************************************************************************)
EXTENDS TrustChainVerifier, TLC

CONSTANTS
  leaf, inter, anchor,          \* entities
  ka, ki, kj, kl,               \* keys: the anchor's, the intermediate's old and new, the leaf's
  org, l, i                     \* labels

Hosts == leaf :> <<org, l>> @@ inter :> <<org, i>> @@ anchor :> <<org>>

\* The intermediate is made a trust anchor while the service runs.
LateKeys == leaf :> {} @@ inter :> {kj} @@ anchor :> {ka}

\* By a about e, signed with k, giving keys.
By(a, k, e, keys) == [iss |-> a, sub |-> e, key |-> k, jwks |-> keys]
AboutInterOld == By(anchor, ka, inter, {ki})
AboutInter == By(anchor, ka, inter, {kj})
AboutInterKeyless == By(anchor, ka, inter, {})
AboutInterNamed == AboutInter @@ [constraints |-> [naming_constraints |->
                                    [permitted |-> {<<org, i>>, <<org, l>>}]]]
AboutLeafOld == By(inter, ki, leaf, {kl})
AboutLeaf == By(inter, kj, leaf, {kl})
AboutLeafKeyless == By(inter, kj, leaf, {})
AboutLeafOtherKey == By(inter, ka, leaf, {kl})
AboutLeafUnnamed == AboutLeaf @@ [constraints |-> [naming_constraints |-> <<>>]]
AboutLeafExcluded == AboutLeaf @@ [constraints |-> [naming_constraints |->
                                      [excluded |-> {<<org, l>>}]]]
LeafConfiguration == By(leaf, kl, leaf, {kl})

SomeStatements ==
  {AboutInterOld, AboutInter, AboutInterKeyless, AboutInterNamed, AboutLeafOld, AboutLeaf,
   AboutLeafKeyless, AboutLeafOtherKey, AboutLeafUnnamed, AboutLeafExcluded, LeafConfiguration}

Ask(chains) == [chains |-> chains, extra |-> <<LeafConfiguration>>]
Old == <<AboutInterOld, AboutLeafOld>>
New == <<AboutInter, AboutLeaf>>

\* What the collector hands over: complete chains with the intermediate's old and new
\* key, chains truncated where a branch was None, and chains that are no good in each
\* way there is.  The last two come without configuration, the last without statements.
SomeRequests ==
  {Ask(<<Old>>), Ask(<<New>>), Ask(<<<<AboutLeafOld>>, New>>), Ask(<<<<AboutLeaf>>, <<>>>>),
   Ask(<<<<AboutInter, AboutLeafOld>>, New>>), Ask(<<<<AboutInterKeyless, AboutLeaf>>>>),
   Ask(<<<<AboutInter, AboutLeafOtherKey>>>>), Ask(<<<<AboutInterNamed, AboutLeafUnnamed>>>>),
   Ask(<<<<AboutInter, AboutLeafExcluded>>, New>>),
   [chains |-> <<<<AboutInter, AboutLeafKeyless>>>>, extra |-> <<>>],
   [chains |-> <<<<>>>>, extra |-> <<>>]}
=============================================================================
