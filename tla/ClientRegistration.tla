-------------------------- MODULE ClientRegistration --------------------------
(***************************************************************************)
(* appserver: how an OpenID provider or an authorization server gets its   *)
(* clients.  A client registers explicitly, or an authorization request    *)
(* (direct or pushed) from an unknown client has it registered on the way. *)
(* Requests run on threads that share the client database, the key jar,    *)
(* the stored trust chains and trust_chain_anchor; every access to one of  *)
(* these is a step of its own.                                             *)
(*                                                                         *)
(* Collecting, verifying and applying policies are the other modules'      *)
(* business: here a chain is its subject, its anchor, the metadata that    *)
(* the policies leave and whether it verifies.                             *)
(***************************************************************************)
EXTENDS Integers, Sequences

CONSTANTS
  Workers,    \* threads
  Entities,   \* entity IDs of clients
  Anchors,    \* trust anchors
  TrPriority, \* trust anchors in order of priority
  Keys,       \* clients' signing keys
  Metadata,   \* metadata a client may have
  KeysBy,     \* KeysBy[m]: the claim that gives the client's keys
  KeysIn,     \* KeysIn[m]: the keys it gives
  Untyped,    \* metadata that lacks the type of entity the server wants
  Refusal,    \* Refusal[m]: when registration refuses m: "never", "early" or "late"
  NoMetadata, \* what a stub has
  Chains,     \* trust chains
  Answers,    \* Answers[e]: what collecting e's chains may give, sequences of them
  Requests,   \* requests that clients send
  Configs,    \* configurations of the server
  NoOne,      \* no client, no anchor
  MaxCalls    \* bound: requests per worker

\* Secrets and generated client IDs are random: no two are the same.
Tokens == Workers \X (1..MaxCalls)
ClientIds == Entities \cup Tokens
NoEntry == [client_id |-> NoOne]
NoChain == [subject |-> NoOne]
Entry == [client_id : ClientIds, secret : Tokens, metadata : Metadata \cup {NoMetadata},
          entity_id : Entities \cup {NoOne}]

ASSUME RegistrationAssumption ==
  /\ MaxCalls \in Nat
  /\ Entities \cap Tokens = {} /\ NoOne \notin ClientIds \cup Anchors
  /\ NoMetadata \notin Metadata
  /\ KeysBy \in [Metadata -> {"jwks", "jwks_uri", "signed_jwks_uri"}]
  /\ KeysIn \in [Metadata -> SUBSET Keys]
  /\ Untyped \subseteq Metadata
  /\ Refusal \in [Metadata -> {"never", "early", "late"}]
  /\ TrPriority \in Seq(Anchors)
  /\ Chains \subseteq [subject : Entities, anchor : Anchors, metadata : Metadata, valid : BOOLEAN]
  /\ Answers \in [Entities -> SUBSET Seq(Chains)]
  /\ \A e \in Entities : Answers[e] # {}
  /\ \A e \in Entities : \A cs \in Answers[e] : \A i \in 1..Len(cs) : cs[i].subject = e
  /\ Requests \subseteq [kind : {"explicit", "authorize", "push"}, entity : Entities,
                         chain : Chains \cup {NoChain}, metadata : Metadata]
  /\ Requests # {} /\ \A r \in Requests : r.kind = "explicit" => r.chain = NoChain
  /\ Configs \subseteq [protocol : {"oauth2", "oidc"}, automatic : BOOLEAN, new_id : BOOLEAN]

VARIABLES
  config,       \* the server's configuration; never changes
  answers,      \* what collecting the chains of an entity gives now
  cdb,          \* the client database
  keyjar,       \* keys of each client
  trust_chain,  \* the anchor of the chains that the federation entity stored
  trust_chain_anchor,  \* its attribute of that name
  pc,           \* where each worker is
  request,      \* the request it handles
  chains,       \* chains of the client, the ones of no use as well
  client_id,    \* the client as it is now known
  cinfo,        \* client information about to be stored
  result,       \* how its last request ended
  calls         \* requests taken, for the bound

stores == <<cdb, keyjar, trust_chain, trust_chain_anchor>>
locals == <<request, chains, client_id, cinfo>>
vars == <<config, answers, cdb, keyjar, trust_chain, trust_chain_anchor, pc, request,
          chains, client_id, cinfo, result, calls>>

Goto(w, label) == pc' = [pc EXCEPT ![w] = label]

\* The request is over: an answer, or an exception nobody catches.
Statuses == {"none", "registered", "authenticated", "refused", "unauthorized_client",
             "no_trusted_chains", "index_error", "key_error"}
Result(status, id, secret, anchor) ==
  [status |-> status, client_id |-> id, secret |-> secret, anchor |-> anchor]
NoResult == Result("none", NoOne, NoOne, NoOne)
Answer(w, answer) == result' = [result EXCEPT ![w] = answer] /\ Goto(w, "idle")
Fail(w, status) == Answer(w, Result(status, NoOne, NoOne, NoOne))

Explicit(w) == request[w].kind = "explicit"
Complete(c) == c # NoEntry /\ c.metadata # NoMetadata

\* Keys that get into the key jar with the metadata, whatever happens.
Included(m) == IF KeysBy[m] = "jwks" THEN KeysIn[m] ELSE {}

\* verify_trust_chains and apply_policies leave out what is no good.  The variant keeps it.
UsableAll(cs) == 1..Len(cs)
Usable(cs) == {i \in 1..Len(cs) : cs[i].valid}

\* pick_trust_chain: the first chain to the first anchor there is one to, or the first.
First(S) == CHOOSE i \in S : \A j \in S : i <= j
ToAnchor(cs, a) == {i \in Usable(cs) : cs[i].anchor = a}
Pick(cs) ==
  LET ranked == {n \in 1..Len(TrPriority) : ToAnchor(cs, TrPriority[n]) # {}}
  IN cs[First(IF ranked = {} THEN Usable(cs) ELSE ToAnchor(cs, TrPriority[First(ranked)]))]

\* The chain the client is registered by.
Picked(w) == IF Explicit(w) THEN Pick(chains[w]) ELSE chains[w][First(Usable(chains[w]))]

\* The metadata it is registered with: what the policies leave, but for explicit
\* registration at an OpenID provider, which takes what the client sent.
Registered(w) ==
  IF Explicit(w) /\ config.protocol = "oidc" THEN request[w].metadata ELSE Picked(w).metadata

\* Is a client ID generated?  Explicit registration and pushed requests leave that at
\* the default, which is yes.  The variant takes the entity ID.
NewIdNever(w) == FALSE
NewId(w) == request[w].kind # "authorize" \/ config.new_id

\* match_claim and filter_client_request find a claim the server cannot meet, or
\* verify_redirect_uris finds a URI it does not allow.
Mismatch(w) == Refusal[Registered(w)] = "early"
IllegalUri(w) == Refusal[Registered(w)] = "late"

-----------------------------------------------------------------------------
(* The request arrives: process_request, client_authentication             *)

Receive(w, r) ==
  /\ pc[w] = "idle" /\ calls[w] < MaxCalls
  /\ config.protocol = "oidc" => r.kind # "push"
  /\ calls' = [calls EXCEPT ![w] = @ + 1]
  /\ request' = [request EXCEPT ![w] = r]
  /\ client_id' = [client_id EXCEPT ![w] = r.entity]
  /\ \/ /\ r.kind = "explicit" \/ (cdb[r.entity] = NoEntry /\ config.automatic)
        /\ Goto(w, "collect")
        /\ result' = [result EXCEPT ![w] = NoResult]
     \/ /\ r.kind # "explicit" /\ cdb[r.entity] # NoEntry
        /\ Goto(w, "authenticate")
        /\ result' = [result EXCEPT ![w] = NoResult]
     \/ /\ r.kind # "explicit" /\ cdb[r.entity] = NoEntry /\ ~config.automatic
        /\ Fail(w, "unauthorized_client")
  /\ UNCHANGED <<config, answers, stores, chains, cinfo>>

\* The chain the client sent, whoever it is about, or the chains there are now.
Collect(w) ==
  /\ pc[w] = "collect"
  /\ LET r == request[w]
         cs == IF r.chain # NoChain THEN <<r.chain>> ELSE answers[r.entity] IN
     \/ /\ Usable(cs) = {}
        /\ Fail(w, IF Explicit(w) THEN "index_error" ELSE "no_trusted_chains")
        /\ UNCHANGED chains
     \/ /\ Usable(cs) # {}
        /\ chains' = [chains EXCEPT ![w] = cs]
        /\ Goto(w, "note_chain")
        /\ UNCHANGED result
  /\ UNCHANGED <<config, answers, stores, request, client_id, cinfo, calls>>

\* Authorization at an OpenID provider stores the chains, the others note the anchor.
NoteChain(w) ==
  /\ pc[w] = "note_chain"
  /\ IF config.protocol = "oidc" /\ ~Explicit(w)
     THEN /\ trust_chain' = [trust_chain EXCEPT ![request[w].entity] = Picked(w).anchor]
          /\ UNCHANGED trust_chain_anchor
     ELSE /\ trust_chain_anchor' = Picked(w).anchor
          /\ UNCHANGED trust_chain
  /\ Goto(w, "import_keys")
  /\ UNCHANGED <<config, answers, cdb, keyjar, locals, result, calls>>

\* A jwks_uri that cannot be loaded fails silently, a signed_jwks_uri is yet to be
\* implemented: get_verified_jwks has no keys.
Import(id, m) ==
  \/ /\ KeysBy[m] # "signed_jwks_uri"
     /\ keyjar' = [keyjar EXCEPT ![id] = @ \cup KeysIn[m]]
  \/ /\ KeysBy[m] # "jwks"
     /\ UNCHANGED keyjar

\* Automatic registration imports keys under the entity ID first.
ImportKeys(w) ==
  /\ pc[w] = "import_keys"
  /\ \/ /\ Registered(w) \in Untyped
        /\ Fail(w, "key_error")
        /\ UNCHANGED keyjar
     \/ /\ Registered(w) \notin Untyped
        /\ IF Explicit(w) THEN UNCHANGED keyjar ELSE Import(request[w].entity, Registered(w))
        /\ Goto(w, "setup")
        /\ UNCHANGED result
  /\ UNCHANGED <<config, answers, cdb, trust_chain, trust_chain_anchor, locals, calls>>

-----------------------------------------------------------------------------
(* client_registration_setup and do_client_registration                    *)

\* A stub goes into the database.
Setup(w) ==
  /\ pc[w] = "setup"
  /\ LET token == <<w, calls[w]>>
         id == IF NewId(w) THEN token ELSE request[w].entity IN
     \/ /\ Mismatch(w)
        /\ Fail(w, "refused")
        /\ UNCHANGED <<cdb, client_id>>
     \/ /\ ~Mismatch(w)
        /\ client_id' = [client_id EXCEPT ![w] = id]
        /\ cdb' = [cdb EXCEPT ![id] =
             [client_id |-> id, secret |-> token, metadata |-> NoMetadata, entity_id |-> NoOne]]
        /\ Goto(w, "register")
        /\ UNCHANGED result
  /\ UNCHANGED <<config, answers, keyjar, trust_chain, trust_chain_anchor, request, chains,
                 cinfo, calls>>

\* An error from do_client_registration is the answer; the stub stays where it is.
RefuseLate(w) == Fail(w, "refused")

\* The stub is read back and filled in from the request.
DoRegistration(w) ==
  /\ pc[w] = "register"
  /\ LET id == client_id[w] IN
     \/ /\ IllegalUri(w)
        /\ RefuseLate(w)
        /\ UNCHANGED cinfo
     \/ /\ ~IllegalUri(w)
        /\ cinfo' = [cinfo EXCEPT ![w] =
                       [cdb[id] EXCEPT !.client_id = id, !.metadata = Registered(w)]]
        /\ Goto(w, "client_keys")
        /\ UNCHANGED result
  /\ UNCHANGED <<config, answers, stores, request, chains, client_id, calls>>

\* Keys are imported under the client ID.  The variant forgets them.
ImportClientKeysNot(id, m) == UNCHANGED keyjar
ImportClientKeys(id, m) == Import(id, m)

RegisterKeys(w) ==
  /\ pc[w] = "client_keys"
  /\ ImportClientKeys(client_id[w], Registered(w))
  /\ Goto(w, "add_secret")
  /\ UNCHANGED <<config, answers, cdb, trust_chain, trust_chain_anchor, locals, result, calls>>

AddSecret(w) ==
  /\ pc[w] = "add_secret"
  /\ keyjar' = [keyjar EXCEPT ![client_id[w]] = @ \cup {<<w, calls[w]>>}]
  /\ Goto(w, "store")
  /\ UNCHANGED <<config, answers, cdb, trust_chain, trust_chain_anchor, locals, result, calls>>

\* The answer to an explicit registration names the anchor of its own chain.  The
\* variant reads the attribute that requests share.
AnchorOfEntity(w) == trust_chain_anchor
AnchorOf(w) == Picked(w).anchor

StoreClient(w) ==
  /\ pc[w] = "store"
  /\ cdb' = [cdb EXCEPT ![client_id[w]] = cinfo[w]]
  /\ \/ /\ Explicit(w)
        /\ Answer(w, Result("registered", client_id[w], cinfo[w].secret, AnchorOf(w)))
     \/ /\ ~Explicit(w)
        /\ Goto(w, IF client_id[w] # request[w].entity THEN "alias" ELSE "authenticate")
        /\ UNCHANGED result
  /\ UNCHANGED <<config, answers, keyjar, trust_chain, trust_chain_anchor, locals, calls>>

\* One dictionary, under both IDs.  The variant puts a copy under the entity ID.
Shared(c, w) == [c EXCEPT ![request[w].entity] =
                   [c[client_id[w]] EXCEPT !.entity_id = request[w].entity]]
AliasedCopy(w) == Shared(cdb, w)
Aliased(w) == [Shared(cdb, w) EXCEPT ![client_id[w]].entity_id = request[w].entity]

Alias(w) ==
  /\ pc[w] = "alias"
  /\ cdb' = Aliased(w)
  /\ Goto(w, "authenticate")
  /\ UNCHANGED <<config, answers, keyjar, trust_chain, trust_chain_anchor, locals, result, calls>>

\* Client authentication and the rest of the authorization are the library's; the
\* response names the anchor of the chains stored for the client.
Authenticate(w) ==
  /\ pc[w] = "authenticate"
  /\ LET id == client_id[w]
         anchor == IF id \in Entities THEN trust_chain[id] ELSE NoOne
     IN \/ Answer(w, Result("authenticated", id, NoOne, anchor))
        \/ Fail(w, "unauthorized_client")
  /\ UNCHANGED <<config, answers, stores, locals, calls>>

-----------------------------------------------------------------------------
\* The federation, or what can be reached of it, changes.
Federate(e, cs) ==
  /\ answers[e] # cs
  /\ answers' = [answers EXCEPT ![e] = cs]
  /\ UNCHANGED <<config, stores, pc, locals, result, calls>>

Step(w) ==
  \/ Collect(w) \/ NoteChain(w) \/ ImportKeys(w) \/ Setup(w) \/ DoRegistration(w)
  \/ RegisterKeys(w) \/ AddSecret(w) \/ StoreClient(w) \/ Alias(w) \/ Authenticate(w)

Init ==
  /\ config \in Configs
  /\ answers \in {a \in [Entities -> UNION {Answers[e] : e \in Entities}] :
                    \A e \in Entities : a[e] \in Answers[e]}
  /\ cdb = [id \in ClientIds |-> NoEntry]
  /\ keyjar = [id \in ClientIds |-> {}]
  /\ trust_chain = [e \in Entities |-> NoOne]
  /\ trust_chain_anchor = NoOne
  /\ pc = [w \in Workers |-> "idle"]
  /\ request \in [Workers -> {CHOOSE r \in Requests : TRUE}]
  /\ chains = [w \in Workers |-> <<>>]
  /\ client_id = [w \in Workers |-> NoOne]
  /\ cinfo = [w \in Workers |-> NoEntry]
  /\ result = [w \in Workers |-> NoResult]
  /\ calls = [w \in Workers |-> 0]

Next ==
  \/ \E e \in Entities : \E cs \in Answers[e] : Federate(e, cs)
  \/ \E w \in Workers : (\E r \in Requests : Receive(w, r)) \/ Step(w)

Spec == Init /\ [][Next]_vars

-----------------------------------------------------------------------------
(* Properties                                                              *)

TypeOK ==
  /\ config \in Configs
  /\ answers \in [Entities -> Seq(Chains)] /\ \A e \in Entities : answers[e] \in Answers[e]
  /\ cdb \in [ClientIds -> Entry \cup {NoEntry}]
  /\ keyjar \in [ClientIds -> SUBSET (Keys \cup Tokens)]
  /\ trust_chain \in [Entities -> Anchors \cup {NoOne}]
  /\ trust_chain_anchor \in Anchors \cup {NoOne}
  /\ pc \in [Workers -> {"idle", "collect", "note_chain", "import_keys", "setup", "register",
                         "client_keys", "add_secret", "store", "alias", "authenticate"}]
  /\ request \in [Workers -> Requests]
  /\ chains \in [Workers -> Seq(Chains)]
  /\ client_id \in [Workers -> ClientIds \cup {NoOne}]
  /\ cinfo \in [Workers -> Entry \cup {NoEntry}]
  /\ \A w \in Workers : pc[w] \in {"client_keys", "add_secret", "store"} => cinfo[w] # NoEntry
  /\ result \in [Workers -> [status : Statuses, client_id : ClientIds \cup {NoOne},
                             secret : Tokens \cup {NoOne}, anchor : Anchors \cup {NoOne}]]
  /\ calls \in [Workers -> 0..MaxCalls]
  /\ \A w \in Workers : pc[w] # "idle" => calls[w] # 0

\* A verified chain gives the client this metadata: one that was collected for that very
\* entity, or one that came with a request in its name.
Vouched(e, m) ==
  \E c \in Chains :
    /\ c.valid /\ c.metadata = m
    /\ c.subject = e \/ \E r \in Requests : r.entity = e /\ r.chain = c

\* Whatever requests race with one another, a client known by its entity ID has the
\* metadata of a verified trust chain.  (Nothing compares the subject of a chain that
\* comes with a request with the client.)
ClientsComeFromVerifiedChains ==
  \A e \in Entities : Complete(cdb[e]) => Vouched(e, cdb[e].metadata)

\* When a registration can be seen to be complete, by whichever ID, the keys that its
\* metadata includes are in the key jar under that ID, although the two are written
\* apart and by workers that overtake one another.
RegisteredClientsHaveTheirKeys ==
  \A id \in ClientIds : Complete(cdb[id]) => Included(cdb[id].metadata) \subseteq keyjar[id]

\* "Add the client_secret as a symmetric key to the key jar": the secret handed out
\* with a registration is, and stays, the one on file and the one in the key jar.
IssuedSecretsWork ==
  \A w \in Workers : result[w].status = "registered" =>
    /\ cdb[result[w].client_id].secret = result[w].secret
    /\ result[w].secret \in keyjar[result[w].client_id]

\* The registration response names the anchor of a chain of the client's, the chain its
\* metadata was taken from, though concurrent requests set trust_chain_anchor too.
AnswersNameTheirAnchor ==
  \A w \in Workers : result[w].status = "registered" =>
    \E i \in Usable(chains[w]) :
      /\ chains[w][i].anchor = result[w].anchor
      /\ \/ config.protocol = "oidc"
         \/ cdb[result[w].client_id].metadata = chains[w][i].metadata

\* An entity ID that stands for a generated client ID stands for a complete
\* registration, and both IDs show the same client information.
AliasesAgree ==
  \A e \in Entities : (cdb[e] # NoEntry /\ cdb[e].client_id # e) =>
    Complete(cdb[e]) /\ cdb[cdb[e].client_id] = cdb[e]
=============================================================================
