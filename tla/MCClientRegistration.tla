------------------------- MODULE MCClientRegistration -------------------------
(* A client with chains to two anchors and a second one, at both servers.  *)
EXTENDS ClientRegistration, TLC

CONSTANTS w1, w2, e1, e2, a1, a2, k1, k2

Good == "good"
Other == "other"
Bad == "bad"       \* a redirect URI nobody may use
Silly == "silly"   \* does not even verify
Forged == "forged" \* only in chains that do not verify
Lacking == "lacking"
Signed == "signed" \* with a signed_jwks_uri

McMetadata == {Good, Other, Bad, Silly, Forged, Lacking, Signed}
McKeysIn == [m \in McMetadata |-> CASE m = Good -> {k1} [] m \in {Other, Signed} -> {k2} [] OTHER -> {}]
McKeysBy == [m \in McMetadata |->
               CASE m = Other -> "jwks_uri" [] m = Signed -> "signed_jwks_uri" [] OTHER -> "jwks"]
McRefusal == [m \in McMetadata |->
                CASE m = Bad -> "late" [] m = Silly -> "early" [] OTHER -> "never"]
Chain(e, a, m) == [subject |-> e, anchor |-> a, metadata |-> m, valid |-> m # Forged]
McChains == {Chain(e, a, m) : e \in {e1, e2}, a \in {a1, a2}, m \in McMetadata}
McPriority == <<a2, a1>>
McAnswers ==
  e1 :> {<<>>, <<Chain(e1, a1, Forged), Chain(e1, a1, Good)>>,
         <<Chain(e1, a1, Good), Chain(e1, a2, Other)>>, <<Chain(e1, a1, Bad)>>}
  @@ e2 :> {<<Chain(e2, a1, Silly)>>, <<Chain(e2, a1, Lacking)>>, <<Chain(e2, a1, Signed)>>}

Req(k, e, c) == [kind |-> k, entity |-> e, chain |-> c, metadata |-> Good]
McRequests ==
  {Req(k, e1, NoChain) : k \in {"explicit", "authorize", "push"}}
  \cup {Req("authorize", e1, Chain(e1, a2, Other)), Req("authorize", e2, NoChain),
        Req("authorize", e2, Chain(e1, a1, Good))}

McConfigs ==
  {[protocol |-> p, automatic |-> TRUE, new_id |-> n] : p \in {"oauth2", "oidc"}, n \in BOOLEAN}
  \cup {[protocol |-> "oidc", automatic |-> FALSE, new_id |-> FALSE]}
=============================================================================
