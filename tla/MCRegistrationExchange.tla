------------------------ MODULE MCRegistrationExchange ------------------------
\* Two threads of one client, which is in two federations, and two workers.  The first
\* anchor is the client's choice, the second the server's.
EXTENDS RegistrationExchange, TLC

CONSTANTS t1, t2, alice, w1, w2, e1, e2, a1, a2, k1

McSymmetry == Permutations(Threads) \cup Permutations(Workers)
McCollections == {<<[anchor |-> a1, automatic |-> FALSE]>>}
McOwnChains == {<<a1>>, <<a1, a2>>}
McSettings == {[response_type |-> {"code"}, oidc |-> FALSE, userinfo |-> TRUE, register |-> TRUE]}

McMetadata == {"through a1", "through a2", "refused", "forged", "another"}
McKeysBy == [m \in McMetadata |-> "jwks"]
McKeysIn == [m \in McMetadata |-> {k1}]
McRefusal == [m \in McMetadata |-> IF m = "refused" THEN "late" ELSE "never"]
Chain(e, a, m) == [subject |-> e, anchor |-> a, metadata |-> m, valid |-> m # "forged"]
McChains ==
  {Chain(e1, a1, m) : m \in McMetadata \ {"through a2", "another"}}
  \cup {Chain(e1, a2, "through a2"), Chain(e2, a1, "another")}
McPriority == <<a2, a1>>
McAnswers ==
  e1 :> {<<Chain(e1, a1, "through a1")>>, <<Chain(e1, a1, "refused")>>,
         <<Chain(e1, a1, "through a1"), Chain(e1, a2, "through a2")>>,
         <<Chain(e1, a1, "forged")>>}
  @@ e2 :> {<<Chain(e2, a1, "another")>>}
Req(k, e) == [kind |-> k, entity |-> e, chain |-> [subject |-> NoOne], metadata |-> "through a1"]
McRequests == {Req("explicit", e1), Req("explicit", e2), Req("push", e2)}
McConfigs == {[protocol |-> "oauth2", automatic |-> TRUE, new_id |-> TRUE]}
=============================================================================
