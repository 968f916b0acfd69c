---------------------------- MODULE MCRelyingParty ----------------------------
\* Two threads, two sessions and two users, and a provider that is found in no, one or
\* two federations, the second of which the client does not trust.
EXTENDS RelyingParty, TLC

CONSTANTS t1, t2, alice, bob, ta, other

McThreads == {t1, t2}
McUsers == {alice, bob}
McSymmetry == Permutations(McThreads) \cup Permutations(McUsers)
McAnchors == {ta, other}
McTrustAnchors == {ta}
McCollections == {<<>>, <<[anchor |-> ta, automatic |-> FALSE]>>,
                  <<[anchor |-> ta, automatic |-> TRUE]>>}
McOwnChains == {<<ta>>, <<ta, other>>}
McSettings ==
  {[response_type |-> {"code"}, oidc |-> TRUE, userinfo |-> TRUE, register |-> TRUE],
   [response_type |-> {"code"}, oidc |-> FALSE, userinfo |-> FALSE, register |-> FALSE],
   [response_type |-> {"id_token", "token"}, oidc |-> TRUE, userinfo |-> FALSE, register |-> FALSE]}
=============================================================================
