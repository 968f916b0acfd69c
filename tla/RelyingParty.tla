----------------------------- MODULE RelyingParty -----------------------------
(***************************************************************************)
(* appclient: a client of one OpenID provider or authorization server.  It *)
(* gets the provider's metadata through the federation, registers, sends   *)
(* users to the provider and handles what comes back: the callback, tokens *)
(* and user information.  Threads of the web application share the client: *)
(* what it knows of the provider, its registration and the sessions in     *)
(* cstate.                                                                 *)
(*                                                                         *)
(* What the provider and the network answer is any of Answers; the store   *)
(* behind cstate and the services' parsing are the library's.              *)
(***************************************************************************)
EXTENDS Naturals, Sequences, FiniteSets

CONSTANTS
  Threads,       \* threads of the web application
  Users,         \* users of the provider
  Anchors,       \* trust anchors
  TrustAnchors,  \* those the client trusts
  Collections,   \* what collecting the provider's verified chains may give
  OwnChains,     \* what collecting the client's own chains may give
  Settings,      \* how the client may be configured
  MaxLogins,     \* bound: sessions
  MaxCalls,      \* bound: requests per thread
  MaxTime,       \* bound: time
  Lifetime,      \* lifetime of a token
  NoOne          \* no user, no anchor, no metadata

Sessions == 1..MaxLogins
Providers == [anchor : Anchors, automatic : BOOLEAN]
Claims == {"iss", "request", "code", "id_token"}

ASSUME RelyingPartyAssumption ==
  /\ MaxLogins \in Nat /\ MaxCalls \in Nat /\ MaxTime \in Nat /\ Lifetime \in Nat \ {0}
  /\ TrustAnchors \subseteq Anchors /\ NoOne \notin Users \cup Anchors \cup Providers
  /\ Collections \subseteq Seq(Providers)
  /\ OwnChains \subseteq Seq(Anchors)
  /\ Settings \subseteq [response_type : SUBSET {"code", "id_token", "token"}, oidc : BOOLEAN,
                         userinfo : BOOLEAN, register : BOOLEAN]

\* A token says whose it is: it was issued for one session.  It expires, or lives forever.
Tokens == [of : Sessions, exp : 0..(MaxTime + Lifetime)]
NoToken == [of |-> 0, exp |-> 0]

\* A session: which claims it has, and its token.
NoSession == [claims |-> {}, token |-> NoToken]
\* What comes back over HTTP, and what the service makes of it: a message, an error
\* message, something that is neither (a redirect, a 4xx whose body has no error), or
\* an exception (no connection, a 500, a body that does not parse).
HTTP == {"success", "redirect", "client_error", "bare_client_error", "server_error",
         "malformed", "unreachable"}
Parsed(http) ==
  CASE http = "success" -> "message"
    [] http = "client_error" -> "error"
    [] http \in {"redirect", "bare_client_error"} -> "neither"
    [] OTHER -> "exception"

VARIABLES
  settings,       \* how it is configured; never changes
  collection,     \* what collecting the provider's chains gives now
  own_chains,     \* what collecting its own chains gives now
  provider_info,  \* provider_info, with the chain it comes from
  registration_response,  \* the anchor it registered through
  cstate,         \* sessions
  bound,          \* cstate.bind_key: the session of a user
  sent,           \* sessions whose user was sent to the provider
  logged_in,      \* at the provider: who logged in with which session
  last,           \* sessions begun
  now,            \* the time
  rp_pc,          \* where each thread is
  key,            \* the session its operation is about
  outcome,        \* how its last operation ended
  rp_calls        \* operations begun, for the bound

environment == <<collection, own_chains, logged_in, now>>
client == <<provider_info, registration_response, cstate, bound, last, sent>>
rp_vars == <<settings, environment, client, rp_pc, key, outcome, rp_calls>>

response_type == settings.response_type
NeedsTokens == "code" \in response_type /\ "token" \notin response_type
HasToken == response_type # {"id_token"}
HasIdToken == settings.oidc /\ ("id_token" \in response_type \/ NeedsTokens)

At(t, label) == rp_pc[t] = label
Free(t) == At(t, "idle") /\ rp_calls[t] < MaxCalls
Call(t, s) == key' = [key EXCEPT ![t] = s] /\ rp_calls' = [rp_calls EXCEPT ![t] = @ + 1]
Go(t, label) == rp_pc' = [rp_pc EXCEPT ![t] = label] /\ UNCHANGED outcome
End(t, how, token) ==
  /\ outcome' = [outcome EXCEPT ![t] = [how |-> how, key |-> key'[t], token |-> token]]
  /\ rp_pc' = [rp_pc EXCEPT ![t] = "idle"]
Raise(t) == End(t, "exception", NoToken)
Working == UNCHANGED <<key, rp_calls>>

\* cstate.update and cstate.set.  The first makes the session if there is none; it merges,
\* so that a token without an expiry leaves the one on file.
Merged(old, new) ==
  IF new = NoToken THEN old ELSE [new EXCEPT !.exp = IF @ = 0 THEN old.exp ELSE @]
Update(s, claims, token) ==
  cstate' = [cstate EXCEPT ![s] =
    [claims |-> @.claims \cup claims, token |-> Merged(@.token, token)]]
Replace(s, claims, token) == cstate' = [cstate EXCEPT ![s] = [claims |-> claims, token |-> token]]

-----------------------------------------------------------------------------
(* begin: do_provider_info, do_client_registration, init_authorization     *)

Begin(t) ==
  /\ Free(t) /\ Call(t, 0)
  /\ Go(t, "provider_info")
  /\ UNCHANGED <<settings, environment, client>>

\* Once there is provider_info it stays.
DoProviderInfo(t) ==
  /\ At(t, "provider_info") /\ Working
  /\ \/ /\ provider_info # NoOne
        /\ Go(t, "registration")
        /\ UNCHANGED provider_info
     \/ /\ provider_info = NoOne /\ collection # <<>>
        /\ \E i \in 1..Len(collection) : provider_info' = collection[i]
        /\ Go(t, "registration")
     \/ /\ provider_info = NoOne /\ collection = <<>>
        /\ Raise(t)
        /\ UNCHANGED provider_info
  /\ UNCHANGED <<settings, environment, registration_response, cstate, bound, last, sent>>

\* Is there a registration service?
SkipRegistration(t) ==
  /\ At(t, "registration") /\ Working
  /\ ~settings.register
  /\ Go(t, "authorization")
  /\ UNCHANGED <<settings, environment, client>>

\* "Do I trust the TA the OP chose?"  The variant does not ask.
TrustsAny(anchor) == TRUE
Trusts(anchor) == anchor \in TrustAnchors

\* parse_federation_registration_response: whether the provider's chains verify is looked
\* at and forgotten, that there are any counts; own chains are those to every anchor.
Accepts(http, anchor) ==
  Parsed(http) = "message" /\ Trusts(anchor) /\ collection # <<>> /\ Len(own_chains) = 1

\* What is acceptable may still break a policy, or not be about a client of the kind.
Register(t, http, anchor) ==
  /\ At(t, "registration") /\ Working
  /\ settings.register
  /\ \/ /\ Accepts(http, anchor)
        /\ registration_response' = anchor
        /\ Go(t, "authorization")
     \/ Raise(t) /\ UNCHANGED registration_response
  /\ UNCHANGED <<settings, environment, provider_info, cstate, bound, last, sent>>

\* No redirect_uri for the response type and mode, or a mode that is not supported.
NoResponseMode(t) ==
  /\ At(t, "authorization") /\ Working
  /\ Raise(t)
  /\ UNCHANGED <<settings, environment, client>>

\* The session is there before the request is made.
InitAuthorization(t) ==
  /\ At(t, "authorization") /\ last < MaxLogins
  /\ last' = last + 1
  /\ key' = [key EXCEPT ![t] = last']
  /\ Replace(last', {"iss"}, NoToken)
  /\ Go(t, "request")
  /\ UNCHANGED <<settings, environment, provider_info, registration_response, bound, sent,
                 rp_calls>>

\* _automatic_registration.
Refused == ~provider_info.automatic /\ registration_response = NoOne

\* A provider that registers automatically may not take requests the way the client can
\* send them.  The library puts the request into the session; the browser is sent off.
AutomaticRegistration(t) ==
  /\ At(t, "request") /\ Working
  /\ \/ (provider_info.automatic \/ Refused) /\ Raise(t) /\ UNCHANGED <<cstate, sent>>
     \/ /\ ~Refused
        /\ Update(key[t], {"request"}, NoToken)
        /\ sent' = sent \cup {key[t]}
        /\ End(t, "redirect", NoToken)
  /\ UNCHANGED <<settings, environment, provider_info, registration_response, bound, last>>

-----------------------------------------------------------------------------
(* The callback: finalize                                                  *)

\* A response comes to the callback URL: again and again if the browser reloads, or late.
\* An error response ends it.
Callback(t, s) ==
  /\ Free(t) /\ Call(t, s)
  /\ logged_in[s] # NoOne
  /\ Go(t, "finalize_auth") \/ End(t, "error", NoToken)
  /\ UNCHANGED <<settings, environment, client>>

\* finalize_auth: is the session there, and the issuer the provider?
FinalizeAuth(t) ==
  /\ At(t, "finalize_auth") /\ Working
  /\ IF "iss" \notin cstate[key[t]].claims THEN Raise(t) ELSE Go(t, "note_response")
  /\ UNCHANGED <<settings, environment, client>>

\* The tokens that may come with a response, with expires_in or without.
Issued(t) == [of : {key[t]}, exp : {0, now + Lifetime}]
Implicit(t) == IF "token" \in response_type THEN Issued(t) ELSE {NoToken}

\* The response goes into what is on file, which may have been cleared meanwhile.  The
\* variant keeps but the request.
NoteResponseAfresh(s, claims, token) == Replace(s, claims \cup {"request"}, token)
NoteResponse(s, claims, token) == Update(s, claims, token)

NoteAuthorization(t) ==
  /\ At(t, "note_response") /\ Working
  /\ \E token \in Implicit(t) :
       NoteResponse(key[t], {"iss"} \cup (response_type \ {"token"}), token)
  /\ Go(t, "get_tokens")
  /\ UNCHANGED <<settings, environment, provider_info, registration_response, bound, last, sent>>

\* get_access_and_id_token needs the request, which may have been cleared meanwhile.
GetTokens(t) ==
  /\ At(t, "get_tokens") /\ Working
  /\ IF "request" \notin cstate[key[t]].claims THEN Raise(t)
     ELSE Go(t, IF NeedsTokens THEN "token_response" ELSE "userinfo")
  /\ UNCHANGED <<settings, environment, client>>

\* The session whose code was sent.  The variant takes the one begun last.
CurrentSession(t) == last
SessionOf(t) == key[t]

\* service_request: unless it is an error, the response goes into the session.
TokenResponse(t, http) ==
  /\ rp_pc[t] \in {"token_response", "refresh_response"} /\ Working
  /\ \/ /\ Parsed(http) = "message"
        /\ \E token \in Issued(t) : Update(SessionOf(t), {}, token)
     \/ Parsed(http) = "neither" /\ Update(SessionOf(t), {}, NoToken)
     \/ Parsed(http) \in {"error", "exception"} /\ UNCHANGED cstate
  /\ IF Parsed(http) \in {"error", "exception"} THEN Raise(t)
     ELSE IF At(t, "refresh_response") THEN End(t, "refreshed", NoToken)
     ELSE IF Parsed(http) = "message" THEN Go(t, "userinfo") ELSE Raise(t)
  /\ UNCHANGED <<settings, environment, provider_info, registration_response, bound, last, sent>>

\* A user is known by the user information or by the ID token.
UserInfo(t, http) ==
  /\ At(t, "userinfo") /\ Working
  /\ LET asked == settings.userinfo /\ HasToken
         known == \/ asked /\ Parsed(http) = "message"
                  \/ asked /\ Parsed(http) = "neither" /\ HasIdToken
                  \/ ~asked /\ HasIdToken
     IN IF known THEN Go(t, "bind") ELSE Raise(t)
  /\ UNCHANGED <<settings, environment, client>>

\* The user the provider told us about is bound to the session of this callback.  The
\* variant binds the session begun last.
BindLast(t) == [bound EXCEPT ![logged_in[key[t]]] = last]
BindKey(t) == [bound EXCEPT ![logged_in[key[t]]] = key[t]]

Bind(t) ==
  /\ At(t, "bind") /\ Working
  /\ bound' = BindKey(t)
  /\ End(t, "finalized", NoToken)
  /\ UNCHANGED <<settings, environment, provider_info, registration_response, cstate, last, sent>>

-----------------------------------------------------------------------------
(* Later: refresh_access_token, get_valid_access_token, clear_session      *)

Refresh(t, s) ==
  /\ Free(t) /\ Call(t, s)
  /\ cstate[s].token # NoToken
  /\ Go(t, "refresh_response")
  /\ UNCHANGED <<settings, environment, client>>

\* "No expiry date, lives forever".
Valid(token) == token.exp = 0 \/ token.exp > now

GetValidAccessToken(t, s) ==
  /\ Free(t) /\ Call(t, s)
  /\ IF cstate[s].token # NoToken /\ Valid(cstate[s].token)
     THEN End(t, "token", cstate[s].token) ELSE Raise(t)
  /\ UNCHANGED <<settings, environment, client>>

\* remove_state also forgets the bindings.
ClearSession(t, s) ==
  /\ Free(t) /\ Call(t, s)
  /\ cstate[s] # NoSession
  /\ cstate' = [cstate EXCEPT ![s] = NoSession]
  /\ bound' = [u \in Users |-> IF bound[u] = s THEN 0 ELSE bound[u]]
  /\ End(t, "cleared", NoToken)
  /\ UNCHANGED <<settings, environment, provider_info, registration_response, last, sent>>

-----------------------------------------------------------------------------
(* The provider, the federation and the clock                              *)

LogIn(s, u) ==
  /\ s \in sent /\ logged_in[s] = NoOne
  /\ logged_in' = [logged_in EXCEPT ![s] = u]
  /\ UNCHANGED <<settings, collection, own_chains, now, client, rp_pc, key, outcome, rp_calls>>

Federate(found, own) ==
  /\ <<found, own>> # <<collection, own_chains>>
  /\ collection' = found /\ own_chains' = own
  /\ UNCHANGED <<settings, logged_in, now, client, rp_pc, key, outcome, rp_calls>>

Tick ==
  /\ now < MaxTime
  /\ now' = now + 1
  /\ UNCHANGED <<settings, collection, own_chains, logged_in, client, rp_pc, key, outcome, rp_calls>>

\* One step of what a thread has begun.
Step(t) ==
  \/ DoProviderInfo(t) \/ SkipRegistration(t) \/ NoResponseMode(t) \/ InitAuthorization(t)
  \/ AutomaticRegistration(t)
  \/ FinalizeAuth(t) \/ NoteAuthorization(t) \/ GetTokens(t) \/ Bind(t)
  \/ \E http \in HTTP :
       TokenResponse(t, http) \/ UserInfo(t, http) \/ \E a \in Anchors : Register(t, http, a)

Init ==
  /\ settings \in Settings
  /\ collection \in Collections /\ own_chains \in OwnChains
  /\ provider_info = NoOne /\ registration_response = NoOne
  /\ cstate = [s \in Sessions |-> NoSession]
  /\ bound = [u \in Users |-> 0]
  /\ last = 0 /\ sent = {} /\ now = 0
  /\ logged_in = [s \in Sessions |-> NoOne]
  /\ rp_pc = [t \in Threads |-> "idle"]
  /\ key = [t \in Threads |-> 0]
  /\ outcome = [t \in Threads |-> [how |-> "none", key |-> 0, token |-> NoToken]]
  /\ rp_calls = [t \in Threads |-> 0]

Next ==
  \/ \E t \in Threads : Begin(t) \/ Step(t)
  \/ \E t \in Threads, s \in Sessions :
       Callback(t, s) \/ Refresh(t, s) \/ GetValidAccessToken(t, s) \/ ClearSession(t, s)
  \/ \E s \in Sessions, u \in Users : LogIn(s, u)
  \/ \E found \in Collections, own \in OwnChains : Federate(found, own)
  \/ Tick

Spec == Init /\ [][Next]_rp_vars

-----------------------------------------------------------------------------
(* Properties                                                              *)

Outcomes == {"none", "exception", "error", "redirect", "finalized", "refreshed", "token", "cleared"}

TypeOK ==
  /\ collection \in Collections /\ own_chains \in OwnChains
  /\ provider_info \in Providers \cup {NoOne}
  /\ registration_response \in Anchors \cup {NoOne}
  /\ cstate \in [Sessions -> [claims : SUBSET Claims, token : Tokens \cup {NoToken}]]
  /\ bound \in [Users -> Sessions \cup {0}]
  /\ last \in 0..MaxLogins /\ sent \subseteq 1..last /\ now \in 0..MaxTime
  /\ logged_in \in [Sessions -> Users \cup {NoOne}]
  /\ \A t \in Threads : rp_pc[t] \in {"authorization", "request"} => provider_info # NoOne
  /\ \A t \in Threads : rp_pc[t] \in {"bind", "token_response"} => logged_in[key[t]] # NoOne
  /\ outcome \in [Threads -> [how : Outcomes, key : 0..MaxLogins, token : Tokens \cup {NoToken}]]
  /\ rp_calls \in [Threads -> 0..MaxCalls]

\* Whatever callbacks, refreshes and failures come in between, the token on file in a
\* session, and the one get_valid_access_token gives for it, was issued for it.
TokensAreTheSessionsOwn ==
  /\ \A s \in Sessions : cstate[s].token # NoToken => cstate[s].token.of = s
  /\ \A t \in Threads : outcome[t].how = "token" => outcome[t].token.of = outcome[t].key

\* The session bound to a user is one in which that user logged in.
UsersFindTheirSessions ==
  \A u \in Users : bound[u] # 0 => logged_in[bound[u]] = u

\* Users are sent to the provider only when its metadata came with a verified chain and
\* either it takes unknown clients or the client registered through an anchor it trusts.
UsersAreSentWhenRegistered ==
  sent # {} => /\ provider_info # NoOne
               /\ provider_info.automatic \/ registration_response \in TrustAnchors

\* A callback that comes again, a failed request, or another thread's login never costs
\* a session its token: only clear_session does.
TokensAreKept ==
  [][\A s \in Sessions : (cstate[s].token # NoToken /\ cstate'[s].token = NoToken)
       => \E t \in Threads : outcome'[t].how = "cleared" /\ outcome'[t].key = s]_rp_vars
=============================================================================
