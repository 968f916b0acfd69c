-------------------------- MODULE RegistrationExchange --------------------------
(***************************************************************************)
(* Explicit registration from end to end: threads of a RelyingParty post   *)
(* registration requests to an authorization server, whose workers handle  *)
(* them as ClientRegistration says, beside the requests of other clients.  *)
(* An answer may get lost, or come too late, or the request never arrives; *)
(* the client raises an exception and the next user makes it try again,    *)
(* while the server goes on with what it has.                              *)
(***************************************************************************)
EXTENDS RelyingParty

CONSTANTS
  Client,  \* the relying party's entity ID
  Workers, Entities, TrPriority, Keys, Metadata, KeysBy, KeysIn, Untyped, Refusal, NoMetadata,
  Chains, Answers, Requests, Configs

VARIABLES
  config, answers, cdb, keyjar, trust_chain, trust_chain_anchor, pc, request, chains,
  client_id, cinfo, result, calls,
  post  \* the worker that handles a thread's request

OP == INSTANCE ClientRegistration

ASSUME ExchangeAssumption ==
  /\ OP!RegistrationAssumption
  /\ Client \in Entities
  /\ NoOne \notin Workers
  /\ \A c \in Configs : c.protocol = "oauth2"

server == <<config, answers, cdb, keyjar, trust_chain, trust_chain_anchor, pc, request, chains,
            client_id, cinfo, result, calls>>
exchange_vars == <<rp_vars, server, post>>

FromClient(r) == r.kind = "explicit" /\ r.entity = Client
Posted == {post[t] : t \in Threads}

\* The service's request goes out; a worker that is free takes it.
Send(t, w, r) ==
  /\ At(t, "registration") /\ post[t] = NoOne
  /\ w \notin Posted /\ FromClient(r)
  /\ OP!Receive(w, r)
  /\ post' = [post EXCEPT ![t] = w]
  /\ UNCHANGED rp_vars

\* An error is an answer too; an exception the server does not catch is a 500.
Http(answer) ==
  CASE answer.status = "registered" -> "success"
    [] answer.status = "refused" -> "client_error"
    [] OTHER -> "server_error"

GetAnswer(t) ==
  /\ post[t] # NoOne /\ pc[post[t]] = "idle"
  /\ Register(t, Http(result[post[t]]), result[post[t]].anchor)
  /\ post' = [post EXCEPT ![t] = NoOne]
  /\ UNCHANGED server

\* No connection, or the time is up: the request is given up, its worker is not.
Lose(t) ==
  /\ Register(t, "unreachable", NoOne)
  /\ post' = [post EXCEPT ![t] = NoOne]
  /\ UNCHANGED server

\* The requests of others, and those of this client that are not explicit.
Other(w, r) ==
  /\ w \notin Posted /\ ~FromClient(r)
  /\ OP!Receive(w, r)
  /\ UNCHANGED <<rp_vars, post>>

Serve(w) == OP!Step(w) /\ UNCHANGED <<rp_vars, post>>

\* Each side sees a federation that changes.
Change ==
  /\ \/ (\E found \in Collections, own \in OwnChains : Federate(found, own)) /\ UNCHANGED server
     \/ (\E e \in Entities : \E cs \in Answers[e] : OP!Federate(e, cs)) /\ UNCHANGED rp_vars
  /\ UNCHANGED post

\* What the client does before and after registering.
Proceed(t) ==
  /\ \/ Begin(t) \/ DoProviderInfo(t) \/ NoResponseMode(t) \/ InitAuthorization(t)
     \/ AutomaticRegistration(t)
  /\ UNCHANGED <<server, post>>

ExchangeInit == Init /\ OP!Init /\ post = [t \in Threads |-> NoOne]

ExchangeNext ==
  \/ \E t \in Threads : Proceed(t) \/ GetAnswer(t) \/ Lose(t)
  \/ \E t \in Threads, w \in Workers, r \in Requests : Send(t, w, r)
  \/ \E w \in Workers, r \in Requests : Other(w, r)
  \/ \E w \in Workers : Serve(w)
  \/ Change

ExchangeSpec == ExchangeInit /\ [][ExchangeNext]_exchange_vars

-----------------------------------------------------------------------------
(* Properties                                                              *)

\* Through a chain to the anchor, which verifies, the server has the client on file.
Offered ==
  {a \in Anchors : \E id \in OP!Tokens, c \in Chains :
     /\ c.valid /\ c.subject = Client /\ c.anchor = a
     /\ OP!Complete(cdb[id]) /\ cdb[id].metadata = c.metadata}

Agreement == INSTANCE RegistrationAgreement
  WITH offered <- Offered, accepted <- registration_response

\* The exchange implements the agreement, though requests race at the server, answers get
\* lost and the federation changes: the client never goes by an anchor by whose chain it
\* is not on file, and the server never loses a registration that it answered for.
ImplementsAgreement == Agreement!Spec

\* Every user who is sent to a provider that takes known clients only is sent to one
\* that has the client on file through an anchor the client trusts.
UsersAreSentToWhoKnowsTheClient ==
  (sent # {} /\ ~provider_info.automatic) => Offered \cap TrustAnchors # {}
=============================================================================
