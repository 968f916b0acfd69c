---------------------- MODULE RegistrationExchangeProofs ----------------------
(***************************************************************************)
(* Proofs about RelyingParty, for any threads, users, providers, answers   *)
(* and bounds; and about RegistrationExchange, where it meets the server:  *)
(* it implements RegistrationAgreement.                                    *)
(***************************************************************************)
EXTENDS RegistrationExchange, TLAPS

-----------------------------------------------------------------------------
(* The client                                                              *)


ClientLabels ==
  {"idle", "provider_info", "registration", "authorization", "request", "finalize_auth",
   "note_response", "get_tokens", "token_response", "refresh_response", "userinfo", "bind"}
CallbackLabels == {"finalize_auth", "note_response", "get_tokens", "token_response", "userinfo", "bind"}
SessionLabels == CallbackLabels \cup {"request", "refresh_response"}
SessionType == [claims : SUBSET Claims, token : Tokens \cup {NoToken}]
OutcomeType == [how : Outcomes, key : 0..MaxLogins, token : Tokens \cup {NoToken}]

\* TypeOK, and that threads know what they are about.
Typed ==
  /\ TypeOK
  /\ settings \in Settings
  /\ rp_pc \in [Threads -> ClientLabels]
  /\ key \in [Threads -> 0..MaxLogins]
  /\ \A t \in Threads : rp_pc[t] \in SessionLabels => key[t] \in Sessions
  /\ \A t \in Threads : rp_pc[t] \in CallbackLabels => logged_in[key[t]] # NoOne
  /\ \A t \in Threads : rp_pc[t] = "registration" => provider_info # NoOne
  /\ \A t \in Threads : rp_pc[t] = "request" => key[t] \in 1..last

\* How a step leaves the thread.
Moves(t, label, k, o, n) ==
  /\ rp_pc' = [rp_pc EXCEPT ![t] = label] /\ key' = [key EXCEPT ![t] = k]
  /\ outcome' = [outcome EXCEPT ![t] = o] /\ rp_calls' = [rp_calls EXCEPT ![t] = n]

LEMMA BoundsAreNumbers ==
  /\ MaxLogins \in Nat /\ MaxCalls \in Nat /\ MaxTime \in Nat /\ Lifetime \in Nat \ {0}
  /\ TrustAnchors \subseteq Anchors /\ NoOne \notin Users /\ NoOne \notin Anchors
  /\ NoOne \notin Providers /\ Collections \subseteq Seq(Providers)
  BY RelyingPartyAssumption DEF RelyingPartyAssumption

\* A step that is part of an operation: it goes on, or it ends the operation.
LEMMA GoIs ==
  ASSUME Typed, NEW t \in Threads, NEW label, Go(t, label), Working
  PROVE  /\ outcome[t] \in OutcomeType /\ rp_calls[t] \in 0..MaxCalls
         /\ Moves(t, label, key[t], outcome[t], rp_calls[t])
  BY DEF Go, Working, Moves, Typed, TypeOK, OutcomeType

LEMMA EndIs ==
  ASSUME Typed, NEW t \in Threads, NEW how \in Outcomes, NEW token \in Tokens \cup {NoToken},
         End(t, how, token), Working
  PROVE  /\ [how |-> how, key |-> key[t], token |-> token] \in OutcomeType
         /\ rp_calls[t] \in 0..MaxCalls
         /\ Moves(t, "idle", key[t], [how |-> how, key |-> key[t], token |-> token], rp_calls[t])
  BY DEF End, Working, Moves, Typed, TypeOK, OutcomeType

\* An operation is begun, and perhaps over at once.
LEMMA CallIs ==
  ASSUME Typed, NEW t \in Threads, NEW s \in 0..MaxLogins, Free(t), Call(t, s)
  PROVE  /\ rp_calls[t] + 1 \in 0..MaxCalls /\ key'[t] = s
         /\ key' = [key EXCEPT ![t] = s]
         /\ rp_calls' = [rp_calls EXCEPT ![t] = rp_calls[t] + 1]
  BY BoundsAreNumbers DEF Call, Free, Typed, TypeOK

LEMMA CallGoes ==
  ASSUME Typed, NEW t \in Threads, NEW s \in 0..MaxLogins, Free(t), Call(t, s),
         NEW label, Go(t, label)
  PROVE  /\ outcome[t] \in OutcomeType /\ rp_calls[t] + 1 \in 0..MaxCalls
         /\ Moves(t, label, s, outcome[t], rp_calls[t] + 1)
  BY CallIs DEF Go, Moves, Typed, TypeOK, OutcomeType

LEMMA CallEnds ==
  ASSUME Typed, NEW t \in Threads, NEW s \in 0..MaxLogins, Free(t), Call(t, s),
         NEW how \in Outcomes, NEW token \in Tokens \cup {NoToken}, End(t, how, token)
  PROVE  /\ [how |-> how, key |-> s, token |-> token] \in OutcomeType
         /\ rp_calls[t] + 1 \in 0..MaxCalls
         /\ Moves(t, "idle", s, [how |-> how, key |-> s, token |-> token], rp_calls[t] + 1)
  BY CallIs DEF End, Moves, Typed, TypeOK, OutcomeType

\* A thread moves; what it leaves alone keeps its type.
LEMMA MovesAreTyped ==
  ASSUME Typed, NEW t \in Threads, NEW label \in ClientLabels, NEW k \in 0..MaxLogins,
         NEW o \in OutcomeType, NEW n \in 0..MaxCalls, Moves(t, label, k, o, n),
         UNCHANGED <<settings, collection, own_chains, logged_in, now>>,
         provider_info' \in Providers \cup {NoOne},
         provider_info # NoOne => provider_info' # NoOne,
         registration_response' \in Anchors \cup {NoOne},
         cstate' \in [Sessions -> SessionType],
         bound' \in [Users -> Sessions \cup {0}],
         last' \in 0..MaxLogins, last <= last', sent' \subseteq 1..last',
         label = "request" => k \in 1..last',
         label \in {"registration", "authorization", "request"} => provider_info' # NoOne,
         label \in SessionLabels => k \in Sessions,
         label \in CallbackLabels => logged_in[k] # NoOne
  PROVE  Typed'
<1>1. /\ rp_pc' \in [Threads -> ClientLabels] /\ key' \in [Threads -> 0..MaxLogins]
      /\ outcome' \in [Threads -> OutcomeType] /\ rp_calls' \in [Threads -> 0..MaxCalls]
  BY DEF Typed, TypeOK, Moves, OutcomeType
<1>2. \A u \in Threads : \/ rp_pc'[u] = rp_pc[u] /\ key'[u] = key[u]
                         \/ rp_pc'[u] = label /\ key'[u] = k
  BY DEF Typed, TypeOK, Moves
<1>3. \A u \in Threads : rp_pc'[u] \in SessionLabels => key'[u] \in Sessions
  BY <1>2 DEF Typed
<1>4. \A u \in Threads : rp_pc'[u] \in CallbackLabels => logged_in'[key'[u]] # NoOne
  BY <1>2 DEF Typed
<1>5. \A u \in Threads : rp_pc'[u] \in {"registration", "authorization", "request"} =>
        provider_info' # NoOne
  BY <1>2 DEF Typed, TypeOK
<1>6. TypeOK'
  BY <1>1, <1>4, <1>5 DEF Typed, TypeOK, SessionType, OutcomeType, CallbackLabels
<1>7. \A u \in Threads : rp_pc'[u] = "request" => key'[u] \in 1..last'
  BY <1>2, BoundsAreNumbers DEF Typed, TypeOK
<1>. QED
  BY <1>1, <1>3, <1>4, <1>5, <1>6, <1>7 DEF Typed

-----------------------------------------------------------------------------
(* Every action keeps the types                                            *)

LEMMA TypeFacts ==
  ASSUME Typed
  PROVE  /\ provider_info \in Providers \cup {NoOne}
         /\ registration_response \in Anchors \cup {NoOne}
         /\ cstate \in [Sessions -> SessionType]
         /\ bound \in [Users -> Sessions \cup {0}]
         /\ last \in 0..MaxLogins /\ sent \subseteq 1..last /\ now \in 0..MaxTime
         /\ logged_in \in [Sessions -> Users \cup {NoOne}]
         /\ key \in [Threads -> 0..MaxLogins]
         /\ settings \in Settings /\ collection \in Collections /\ last <= last
  BY BoundsAreNumbers DEF Typed, TypeOK, SessionType

\* What is left of a step when the client does not change.
LEMMA MovesOnlyAreTyped ==
  ASSUME Typed, NEW t \in Threads, NEW label \in ClientLabels, NEW k \in 0..MaxLogins,
         NEW o \in OutcomeType, NEW n \in 0..MaxCalls, Moves(t, label, k, o, n),
         UNCHANGED <<settings, environment, client>>, label # "request",
         label \in {"registration", "authorization", "request"} => provider_info # NoOne,
         label \in SessionLabels => k \in Sessions,
         label \in CallbackLabels => logged_in[k] # NoOne
  PROVE  Typed'
  BY TypeFacts, MovesAreTyped DEF environment, client

LEMMA NoTokenIsAnOutcome == NoToken \in Tokens \cup {NoToken}
  OBVIOUS

LEMMA BeginIsTyped ==
  ASSUME Typed, NEW t \in Threads, Begin(t)
  PROVE  Typed'
<1>1. /\ outcome[t] \in OutcomeType /\ rp_calls[t] + 1 \in 0..MaxCalls
      /\ Moves(t, "provider_info", 0, outcome[t], rp_calls[t] + 1)
  <2>1. 0 \in 0..MaxLogins
    BY BoundsAreNumbers
  <2>. QED
    BY <2>1, CallGoes DEF Begin
<1>. QED
  BY <1>1, BoundsAreNumbers, MovesOnlyAreTyped
     DEF Begin, ClientLabels, SessionLabels, CallbackLabels

LEMMA DoProviderInfoIsTyped ==
  ASSUME Typed, NEW t \in Threads, DoProviderInfo(t)
  PROVE  Typed'
<1>1. /\ UNCHANGED <<settings, collection, own_chains, logged_in, now>>
      /\ UNCHANGED <<registration_response, cstate, bound, last, sent>>
  BY DEF DoProviderInfo, environment
<1>2. key[t] \in 0..MaxLogins
  BY TypeFacts
<1>3. CASE Go(t, "registration") /\ provider_info' \in Providers \cup {NoOne} /\ provider_info' # NoOne
  <2>1. Working
    BY DEF DoProviderInfo
  <2>2. /\ outcome[t] \in OutcomeType /\ rp_calls[t] \in 0..MaxCalls
        /\ Moves(t, "registration", key[t], outcome[t], rp_calls[t])
    BY <1>3, <2>1, GoIs
  <2>. QED
    BY <1>1, <1>2, <1>3, <2>2, TypeFacts, MovesAreTyped DEF ClientLabels, SessionLabels, CallbackLabels
<1>4. CASE Raise(t) /\ UNCHANGED provider_info
  <2>1. Working
    BY DEF DoProviderInfo
  <2>2. \E o \in OutcomeType : rp_calls[t] \in 0..MaxCalls /\ Moves(t, "idle", key[t], o, rp_calls[t])
    BY <1>4, <2>1, EndIs DEF Raise, Outcomes
  <2>3. PICK o \in OutcomeType : rp_calls[t] \in 0..MaxCalls /\ Moves(t, "idle", key[t], o, rp_calls[t])
    BY <2>2
  <2>. QED
    BY <1>1, <1>2, <1>4, <2>3, TypeFacts, MovesAreTyped DEF ClientLabels, SessionLabels, CallbackLabels
<1>5. \A i \in 1..Len(collection) : collection[i] \in Providers /\ collection[i] # NoOne
  BY BoundsAreNumbers, TypeFacts
<1>6. provider_info \in Providers \cup {NoOne}
  BY TypeFacts
<1>. QED
  BY <1>3, <1>4, <1>5, <1>6 DEF DoProviderInfo

\* A step that ends in an exception moves the thread to idle.
LEMMA RaiseIs ==
  ASSUME Typed, NEW t \in Threads, Raise(t), Working
  PROVE  \E o \in OutcomeType : /\ rp_calls[t] \in 0..MaxCalls
                                 /\ Moves(t, "idle", key[t], o, rp_calls[t])
  BY EndIs DEF Raise, Outcomes

\* Steps of an operation that change no more than the session they are about.
LEMMA WorkIsTyped ==
  ASSUME Typed, NEW t \in Threads, NEW label \in ClientLabels, Working,
         Go(t, label) \/ Raise(t) \/ End(t, "refreshed", NoToken),
         UNCHANGED <<settings, environment, provider_info, registration_response, bound, last, sent>>,
         cstate' \in [Sessions -> SessionType], label # "request",
         label \in {"registration", "authorization", "request"} => provider_info # NoOne,
         label \in SessionLabels => key[t] \in Sessions,
         label \in CallbackLabels => logged_in[key[t]] # NoOne
  PROVE  Typed'
<1>1. \E l \in {label, "idle"}, o \in OutcomeType :
        rp_calls[t] \in 0..MaxCalls /\ Moves(t, l, key[t], o, rp_calls[t])
  <2>1. CASE Go(t, label)
    BY <2>1, GoIs
  <2>2. CASE Raise(t)
    BY <2>2, RaiseIs
  <2>3. CASE End(t, "refreshed", NoToken)
    BY <2>3, EndIs DEF Outcomes
  <2>. QED
    BY <2>1, <2>2, <2>3
<1>2. PICK l \in {label, "idle"}, o \in OutcomeType :
        rp_calls[t] \in 0..MaxCalls /\ Moves(t, l, key[t], o, rp_calls[t])
  BY <1>1
<1>3. /\ l \in ClientLabels /\ key[t] \in 0..MaxLogins
      /\ l \in {"registration", "authorization", "request"} => provider_info # NoOne
      /\ l \in SessionLabels => key[t] \in Sessions
      /\ l \in CallbackLabels => logged_in[key[t]] # NoOne
  BY <1>2, TypeFacts DEF ClientLabels, SessionLabels, CallbackLabels
<1>. QED
  BY <1>2, <1>3, TypeFacts, MovesAreTyped DEF environment

LEMMA SkipRegistrationIsTyped ==
  ASSUME Typed, NEW t \in Threads, SkipRegistration(t)
  PROVE  Typed'
  BY WorkIsTyped, TypeFacts
     DEF SkipRegistration, At, client, Typed, ClientLabels, SessionLabels, CallbackLabels

LEMMA RegisterIsTyped ==
  ASSUME Typed, NEW t \in Threads, NEW http \in HTTP, NEW a \in Anchors, Register(t, http, a)
  PROVE  Typed'
<1>1. /\ UNCHANGED <<settings, collection, own_chains, logged_in, now>>
      /\ UNCHANGED <<provider_info, cstate, bound, last, sent>>
      /\ Working /\ provider_info # NoOne
  BY DEF Register, environment, At, Typed
<1>2. CASE registration_response' = a /\ Go(t, "authorization")
  <2>1. /\ outcome[t] \in OutcomeType /\ rp_calls[t] \in 0..MaxCalls
        /\ Moves(t, "authorization", key[t], outcome[t], rp_calls[t])
    BY <1>1, <1>2, GoIs
  <2>. QED
    BY <1>1, <1>2, <2>1, TypeFacts, MovesAreTyped DEF ClientLabels, SessionLabels, CallbackLabels
<1>3. CASE Raise(t) /\ UNCHANGED registration_response
  BY <1>1, <1>3, WorkIsTyped, TypeFacts DEF Register, ClientLabels, SessionLabels, CallbackLabels
<1>. QED
  BY <1>2, <1>3 DEF Register

LEMMA NoResponseModeIsTyped ==
  ASSUME Typed, NEW t \in Threads, NoResponseMode(t)
  PROVE  Typed'
  BY WorkIsTyped, TypeFacts
     DEF NoResponseMode, At, client, environment, Typed, ClientLabels, SessionLabels, CallbackLabels

LEMMA InitAuthorizationIsTyped ==
  ASSUME Typed, NEW t \in Threads, InitAuthorization(t)
  PROVE  Typed'
<1>1. /\ UNCHANGED <<settings, collection, own_chains, logged_in, now>>
      /\ UNCHANGED <<provider_info, registration_response, bound, sent>>
      /\ provider_info # NoOne /\ last' = last + 1
  BY DEF InitAuthorization, environment, At, Typed, TypeOK
<1>2. last' \in 0..MaxLogins /\ last <= last' /\ last' \in Sessions /\ last' \in 1..last' /\ sent' \subseteq 1..last'
  BY <1>1, BoundsAreNumbers, TypeFacts DEF InitAuthorization, Sessions
<1>3. cstate' \in [Sessions -> SessionType]
  <2>1. [claims |-> {"iss"}, token |-> NoToken] \in SessionType
    BY DEF SessionType, Claims
  <2>. QED
    BY <2>1, TypeFacts DEF InitAuthorization, Replace
<1>4. /\ outcome[t] \in OutcomeType /\ rp_calls[t] \in 0..MaxCalls
      /\ Moves(t, "request", last', outcome[t], rp_calls[t])
  BY DEF InitAuthorization, Go, Moves, Typed, TypeOK, OutcomeType
<1>. QED
  BY <1>1, <1>2, <1>3, <1>4, TypeFacts, MovesAreTyped DEF ClientLabels, SessionLabels, CallbackLabels

\* What Update leaves of two tokens is a token.
LEMMA MergedIsAToken ==
  ASSUME NEW old \in Tokens \cup {NoToken}, NEW new \in Tokens \cup {NoToken}
  PROVE  Merged(old, new) \in Tokens \cup {NoToken}
<1>1. old.exp \in 0..(MaxTime + Lifetime)
  BY BoundsAreNumbers DEF Tokens, NoToken
<1>2. CASE new = NoToken
  BY <1>2 DEF Merged
<1>3. CASE new \in Tokens /\ new # NoToken
  <2>1. new.of \in Sessions /\ new.exp \in 0..(MaxTime + Lifetime)
    BY <1>3 DEF Tokens
  <2>2. Merged(old, new) = [of |-> new.of, exp |-> IF new.exp = 0 THEN old.exp ELSE new.exp]
    BY <1>3 DEF Merged, Tokens
  <2>. QED
    BY <1>1, <2>1, <2>2 DEF Tokens
<1>. QED
  BY <1>2, <1>3

\* Update and Replace keep sessions sessions.
LEMMA SessionsStaySessions ==
  ASSUME Typed, NEW s \in Sessions, NEW claims \in SUBSET Claims,
         NEW token \in Tokens \cup {NoToken},
         Update(s, claims, token) \/ Replace(s, claims, token)
  PROVE  cstate' \in [Sessions -> SessionType]
<1>1. /\ cstate[s].claims \subseteq Claims /\ cstate[s].token \in Tokens \cup {NoToken}
  BY TypeFacts DEF SessionType
<1>2. \A x \in SUBSET Claims, y \in Tokens \cup {NoToken} :
        [claims |-> x, token |-> y] \in SessionType
  BY DEF SessionType
<1>3. Merged(cstate[s].token, token) \in Tokens \cup {NoToken}
  BY <1>1, MergedIsAToken
<1>4. \E x \in SessionType : cstate' = [cstate EXCEPT ![s] = x]
  BY <1>1, <1>2, <1>3 DEF Update, Replace
<1>. QED
  BY <1>4, TypeFacts

LEMMA AutomaticRegistrationIsTyped ==
  ASSUME Typed, NEW t \in Threads, AutomaticRegistration(t)
  PROVE  Typed'
<1>1. /\ UNCHANGED <<settings, collection, own_chains, logged_in, now>>
      /\ UNCHANGED <<provider_info, registration_response, bound, last>>
      /\ Working /\ key[t] \in Sessions
  BY DEF AutomaticRegistration, environment, At, Typed, SessionLabels
<1>2. CASE Raise(t) /\ UNCHANGED <<cstate, sent>>
  BY <1>1, <1>2, WorkIsTyped, TypeFacts
     DEF AutomaticRegistration, ClientLabels, SessionLabels, CallbackLabels
<1>3. CASE /\ Update(key[t], {"request"}, NoToken) /\ sent' = sent \cup {key[t]}
           /\ End(t, "redirect", NoToken)
  <2>1. cstate' \in [Sessions -> SessionType]
    BY <1>1, <1>3, SessionsStaySessions DEF Claims
  <2>2. key[t] \in 1..last
    BY <1>1 DEF AutomaticRegistration, At, Typed
  <2>3. sent' \subseteq 1..last'
    BY <1>1, <1>3, <2>2, TypeFacts
  <2>4. PICK o \in OutcomeType :
          rp_calls[t] \in 0..MaxCalls /\ Moves(t, "idle", key[t], o, rp_calls[t])
    BY <1>1, <1>3, EndIs DEF Outcomes
  <2>. QED
    BY <1>1, <2>1, <2>3, <2>4, TypeFacts, MovesAreTyped
       DEF ClientLabels, SessionLabels, CallbackLabels
<1>. QED
  BY <1>2, <1>3 DEF AutomaticRegistration

LEMMA CallbackIsTyped ==
  ASSUME Typed, NEW t \in Threads, NEW s \in Sessions, Callback(t, s)
  PROVE  Typed'
<1>1. s \in 0..MaxLogins
  BY BoundsAreNumbers DEF Sessions
<1>2. \E l \in {"finalize_auth", "idle"}, o \in OutcomeType :
        /\ rp_calls[t] + 1 \in 0..MaxCalls
        /\ Moves(t, l, s, o, rp_calls[t] + 1)
  <2>1. CASE Go(t, "finalize_auth")
    BY <1>1, <2>1, CallGoes DEF Callback
  <2>2. CASE End(t, "error", NoToken)
    BY <1>1, <2>2, CallEnds DEF Callback, Outcomes
  <2>. QED
    BY <2>1, <2>2 DEF Callback
<1>3. logged_in[s] # NoOne /\ UNCHANGED <<settings, environment, client>>
  BY DEF Callback
<1>. QED
  BY <1>1, <1>2, <1>3, MovesOnlyAreTyped DEF ClientLabels, SessionLabels, CallbackLabels

LEMMA FinalizeAuthIsTyped ==
  ASSUME Typed, NEW t \in Threads, FinalizeAuth(t)
  PROVE  Typed'
<1>1. /\ UNCHANGED <<settings, environment, provider_info, registration_response, bound, last,
                     sent>>
      /\ cstate' \in [Sessions -> SessionType]
      /\ Working /\ key[t] \in Sessions /\ logged_in[key[t]] # NoOne
  BY TypeFacts DEF FinalizeAuth, At, Typed, SessionLabels, CallbackLabels, client
<1>2. Raise(t) \/ Go(t, "note_response")
  BY DEF FinalizeAuth
<1>. QED
  BY <1>1, <1>2, WorkIsTyped DEF ClientLabels, SessionLabels, CallbackLabels

LEMMA IssuedIs ==
  ASSUME Typed, NEW t \in Threads, key[t] \in Sessions, NEW token \in Issued(t)
  PROVE  token \in Tokens /\ token.of = key[t]
<1>1. now \in Nat /\ now <= MaxTime
  BY TypeFacts, BoundsAreNumbers
<1>2. token.exp \in 0..(MaxTime + Lifetime)
  BY <1>1, BoundsAreNumbers DEF Issued
<1>. QED
  BY <1>2 DEF Issued, Tokens

LEMMA NoteAuthorizationIsTyped ==
  ASSUME Typed, NEW t \in Threads, NoteAuthorization(t)
  PROVE  Typed'
<1>1. /\ UNCHANGED <<settings, environment, provider_info, registration_response, bound, last,
                     sent>>
      /\ Working /\ key[t] \in Sessions /\ logged_in[key[t]] # NoOne
      /\ Go(t, "get_tokens")
  BY DEF NoteAuthorization, At, Typed, SessionLabels, CallbackLabels
<1>2. cstate' \in [Sessions -> SessionType]
  <2>1. {"iss"} \cup (response_type \ {"token"}) \in SUBSET Claims
    BY TypeFacts, RelyingPartyAssumption DEF RelyingPartyAssumption, response_type, Claims
  <2>2. PICK token \in Implicit(t) :
          NoteResponse(key[t], {"iss"} \cup (response_type \ {"token"}), token)
    BY DEF NoteAuthorization
  <2>3. token \in Tokens \cup {NoToken}
    BY <1>1, <2>2, IssuedIs DEF Implicit
  <2>. QED
    BY <1>1, <2>1, <2>2, <2>3, SessionsStaySessions DEF NoteResponse
<1>. QED
  BY <1>1, <1>2, WorkIsTyped DEF ClientLabels, SessionLabels, CallbackLabels

LEMMA GetTokensIsTyped ==
  ASSUME Typed, NEW t \in Threads, GetTokens(t)
  PROVE  Typed'
<1>1. /\ UNCHANGED <<settings, environment, provider_info, registration_response, bound, last, sent>>
      /\ cstate' \in [Sessions -> SessionType]
      /\ Working /\ key[t] \in Sessions /\ logged_in[key[t]] # NoOne
  BY TypeFacts DEF GetTokens, At, Typed, SessionLabels, CallbackLabels, client
<1>2. Raise(t) \/ Go(t, "token_response") \/ Go(t, "userinfo")
  BY DEF GetTokens
<1>. QED
  BY <1>1, <1>2, WorkIsTyped DEF ClientLabels, SessionLabels, CallbackLabels

LEMMA TokenResponseIsTyped ==
  ASSUME Typed, NEW t \in Threads, NEW http \in HTTP, TokenResponse(t, http)
  PROVE  Typed'
<1>1. /\ UNCHANGED <<settings, environment, provider_info, registration_response, bound, last, sent>>
      /\ Working /\ key[t] \in Sessions
      /\ At(t, "token_response") => logged_in[key[t]] # NoOne
      /\ At(t, "token_response") \/ At(t, "refresh_response")
  BY DEF TokenResponse, At, Typed, SessionLabels, CallbackLabels
<1>2. cstate' \in [Sessions -> SessionType]
  <2>1. \A token \in Issued(t) : token \in Tokens
    BY <1>1, IssuedIs
  <2>2. \/ UNCHANGED cstate
        \/ \E token \in Tokens \cup {NoToken} : Update(key[t], {}, token)
    BY <2>1 DEF TokenResponse, SessionOf
  <2>. QED
    BY <1>1, <2>2, SessionsStaySessions, TypeFacts
<1>3. CASE Raise(t) \/ End(t, "refreshed", NoToken)
  BY <1>1, <1>2, <1>3, WorkIsTyped DEF ClientLabels, SessionLabels, CallbackLabels
<1>4. CASE Go(t, "userinfo") /\ At(t, "token_response")
  BY <1>1, <1>2, <1>4, WorkIsTyped DEF ClientLabels, SessionLabels, CallbackLabels
<1>. QED
  BY <1>1, <1>3, <1>4 DEF TokenResponse

LEMMA UserInfoIsTyped ==
  ASSUME Typed, NEW t \in Threads, NEW http \in HTTP, UserInfo(t, http)
  PROVE  Typed'
<1>1. /\ UNCHANGED <<settings, environment, provider_info, registration_response, bound, last, sent>>
      /\ cstate' \in [Sessions -> SessionType]
      /\ Working /\ key[t] \in Sessions /\ logged_in[key[t]] # NoOne
  BY TypeFacts DEF UserInfo, At, Typed, SessionLabels, CallbackLabels, client
<1>2. Raise(t) \/ Go(t, "bind")
  BY DEF UserInfo
<1>. QED
  BY <1>1, <1>2, WorkIsTyped DEF ClientLabels, SessionLabels, CallbackLabels

LEMMA BindIsTyped ==
  ASSUME Typed, NEW t \in Threads, Bind(t)
  PROVE  Typed'
<1>1. /\ UNCHANGED <<settings, collection, own_chains, logged_in, now>>
      /\ UNCHANGED <<provider_info, registration_response, cstate, last, sent>>
      /\ Working /\ key[t] \in Sessions
  BY DEF Bind, At, Typed, SessionLabels, CallbackLabels, environment
<1>2. bound' \in [Users -> Sessions \cup {0}]
  BY <1>1, TypeFacts DEF Bind, BindKey
<1>3. PICK o \in OutcomeType :
        rp_calls[t] \in 0..MaxCalls /\ Moves(t, "idle", key[t], o, rp_calls[t])
  BY <1>1, EndIs DEF Bind, Outcomes
<1>. QED
  BY <1>1, <1>2, <1>3, TypeFacts, MovesAreTyped DEF ClientLabels, SessionLabels, CallbackLabels

LEMMA RefreshIsTyped ==
  ASSUME Typed, NEW t \in Threads, NEW s \in Sessions, Refresh(t, s)
  PROVE  Typed'
<1>1. s \in 0..MaxLogins
  BY BoundsAreNumbers DEF Sessions
<1>2. /\ outcome[t] \in OutcomeType /\ rp_calls[t] + 1 \in 0..MaxCalls
      /\ Moves(t, "refresh_response", s, outcome[t], rp_calls[t] + 1)
  BY <1>1, CallGoes DEF Refresh
<1>3. UNCHANGED <<settings, environment, client>>
  BY DEF Refresh
<1>. QED
  BY <1>1, <1>2, <1>3, MovesOnlyAreTyped DEF ClientLabels, SessionLabels, CallbackLabels

LEMMA GetValidAccessTokenIsTyped ==
  ASSUME Typed, NEW t \in Threads, NEW s \in Sessions, GetValidAccessToken(t, s)
  PROVE  Typed'
<1>1. s \in 0..MaxLogins /\ cstate[s].token \in Tokens \cup {NoToken}
  BY BoundsAreNumbers, TypeFacts DEF Sessions, SessionType
<1>2. PICK o \in OutcomeType :
        rp_calls[t] + 1 \in 0..MaxCalls /\ Moves(t, "idle", s, o, rp_calls[t] + 1)
  <2>1. CASE End(t, "token", cstate[s].token)
    BY <1>1, <2>1, CallEnds DEF GetValidAccessToken, Outcomes
  <2>2. CASE Raise(t)
    BY <1>1, <2>2, CallEnds DEF GetValidAccessToken, Outcomes, Raise
  <2>. QED
    BY <2>1, <2>2 DEF GetValidAccessToken
<1>3. UNCHANGED <<settings, environment, client>>
  BY DEF GetValidAccessToken
<1>. QED
  BY <1>1, <1>2, <1>3, MovesOnlyAreTyped DEF ClientLabels, SessionLabels, CallbackLabels

LEMMA ClearSessionIsTyped ==
  ASSUME Typed, NEW t \in Threads, NEW s \in Sessions, ClearSession(t, s)
  PROVE  Typed'
<1>1. s \in 0..MaxLogins
  BY BoundsAreNumbers DEF Sessions
<1>2. PICK o \in OutcomeType :
        rp_calls[t] + 1 \in 0..MaxCalls /\ Moves(t, "idle", s, o, rp_calls[t] + 1)
  BY <1>1, CallEnds DEF ClearSession, Outcomes
<1>3. /\ UNCHANGED <<settings, collection, own_chains, logged_in, now>>
      /\ UNCHANGED <<provider_info, registration_response, last, sent>>
  BY DEF ClearSession, environment
<1>4. cstate' \in [Sessions -> SessionType] /\ bound' \in [Users -> Sessions \cup {0}]
  <2>1. NoSession \in SessionType
    BY DEF NoSession, SessionType, Claims
  <2>. QED
    BY <2>1, TypeFacts DEF ClearSession
<1>. QED
  BY <1>1, <1>2, <1>3, <1>4, TypeFacts, MovesAreTyped DEF ClientLabels, SessionLabels, CallbackLabels

LEMMA LogInIsTyped ==
  ASSUME Typed, NEW s \in Sessions, NEW u \in Users, LogIn(s, u)
  PROVE  Typed'
<1>1. /\ logged_in' \in [Sessions -> Users \cup {NoOne}]
      /\ \A r \in Sessions : logged_in[r] # NoOne => logged_in'[r] # NoOne
  BY TypeFacts, BoundsAreNumbers DEF LogIn
<1>2. \A t \in Threads : rp_pc[t] \in CallbackLabels => logged_in'[key[t]] # NoOne
  BY <1>1 DEF Typed, SessionLabels
<1>. QED
  BY <1>1, <1>2 DEF LogIn, Typed, TypeOK, client, CallbackLabels

LEMMA FederateIsTyped ==
  ASSUME Typed, NEW found \in Collections, NEW own \in OwnChains, Federate(found, own)
  PROVE  Typed'
  BY DEF Federate, Typed, TypeOK, client

LEMMA TickIsTyped ==
  ASSUME Typed, Tick
  PROVE  Typed'
<1>1. now' \in 0..MaxTime
  BY BoundsAreNumbers, TypeFacts DEF Tick
<1>. QED
  BY <1>1 DEF Tick, Typed, TypeOK, client

LEMMA InitIsTyped == Init => Typed
<1>. SUFFICES ASSUME Init PROVE Typed
  OBVIOUS
<1>1. /\ NoSession \in SessionType
      /\ [how |-> "none", key |-> 0, token |-> NoToken] \in OutcomeType
      /\ 0 \in 0..MaxLogins /\ 0 \in 0..MaxTime /\ 0 \in 0..MaxCalls
  BY BoundsAreNumbers DEF NoSession, SessionType, OutcomeType, Outcomes
<1>. QED
  BY <1>1 DEF Init, Typed, TypeOK, SessionType, OutcomeType, ClientLabels, SessionLabels, CallbackLabels

LEMMA NextIsTyped == Typed /\ [Next]_rp_vars => Typed'
<1>. SUFFICES ASSUME Typed, [Next]_rp_vars PROVE Typed'
  OBVIOUS
<1>1. ASSUME NEW t \in Threads, Begin(t) \/ Step(t)
      PROVE  Typed'
  BY <1>1, BeginIsTyped, DoProviderInfoIsTyped, SkipRegistrationIsTyped, RegisterIsTyped,
     NoResponseModeIsTyped, InitAuthorizationIsTyped, AutomaticRegistrationIsTyped, FinalizeAuthIsTyped,
     NoteAuthorizationIsTyped, GetTokensIsTyped, TokenResponseIsTyped, UserInfoIsTyped, BindIsTyped DEF Step
<1>2. ASSUME NEW t \in Threads, NEW s \in Sessions,
             Callback(t, s) \/ Refresh(t, s) \/ GetValidAccessToken(t, s) \/ ClearSession(t, s)
      PROVE  Typed'
  BY <1>2, CallbackIsTyped, RefreshIsTyped, GetValidAccessTokenIsTyped, ClearSessionIsTyped
<1>3. CASE UNCHANGED rp_vars
  BY <1>3 DEF rp_vars, environment, client, Typed, TypeOK
<1>. QED
  BY <1>1, <1>2, <1>3, LogInIsTyped, FederateIsTyped, TickIsTyped DEF Next

\* Whatever threads, provider and network do, what the client keeps is of its type: each
\* session is a session, and a thread past begin's first step has the provider's metadata.
THEOREM TypeCorrect == Spec => []TypeOK
<1>1. Typed => TypeOK
  BY DEF Typed
<1>. QED
  BY <1>1, InitIsTyped, NextIsTyped, PTL DEF Spec

-----------------------------------------------------------------------------
(* Tokens and sessions                                                     *)

\* Sessions that have not begun have no token and nobody in them, and no thread works on one.
Begun ==
  /\ \A s \in Sessions : cstate[s].token # NoToken \/ logged_in[s] # NoOne => s \in 1..last
  /\ \A t \in Threads : rp_pc[t] \in SessionLabels => key[t] \in 1..last

\* What a step may do to the token of a session.
TokenMoves(s) ==
  \/ cstate'[s].token = cstate[s].token
  \/ cstate'[s].token # NoToken /\ cstate'[s].token.of = s /\ s \in 1..last
  \/ /\ cstate'[s].token = NoToken
     /\ \E t \in Threads : outcome'[t].how = "cleared" /\ outcome'[t].key = s

\* What it may do to the last answer of a thread.
OutcomeMoves(t) ==
  \/ outcome'[t] = outcome[t]
  \/ outcome'[t].how # "token"
  \/ \E s \in Sessions : /\ outcome'[t].key = s /\ outcome'[t].token = cstate[s].token
                          /\ cstate[s].token # NoToken

LEMMA UpdateMovesTokens ==
  ASSUME Typed, NEW s \in Sessions, NEW claims, NEW token \in Tokens \cup {NoToken},
         s \in 1..last, token = NoToken \/ token.of = s, Update(s, claims, token)
  PROVE  \A r \in Sessions : TokenMoves(r)
<1>1. cstate'[s].token = Merged(cstate[s].token, token)
  BY TypeFacts DEF Update
<1>2. \A r \in Sessions \ {s} : cstate'[r] = cstate[r]
  BY TypeFacts DEF Update
<1>3. token # NoToken => /\ Merged(cstate[s].token, token) # NoToken
                         /\ Merged(cstate[s].token, token).of = s
  <2>1. s # 0
    BY BoundsAreNumbers DEF Sessions
  <2>. QED
    BY <2>1 DEF Merged, NoToken, Tokens
<1>4. token = NoToken => Merged(cstate[s].token, token) = cstate[s].token
  BY DEF Merged
<1>. QED
  BY <1>1, <1>2, <1>3, <1>4 DEF TokenMoves

LEMMA KeptTokensMove ==
  ASSUME UNCHANGED cstate
  PROVE  \A r \in Sessions : TokenMoves(r)
  BY DEF TokenMoves

LEMMA TokensMove ==
  ASSUME Typed, Begun, [Next]_rp_vars
  PROVE  \A r \in Sessions : TokenMoves(r)
<1>1. ASSUME NEW t \in Threads, InitAuthorization(t)
      PROVE  \A r \in Sessions : TokenMoves(r)
  <2>1. last' \in Sessions /\ last' = last + 1 /\ last' \notin 1..last
    BY <1>1, TypeFacts, BoundsAreNumbers DEF InitAuthorization, Sessions
  <2>2. cstate[last'].token = NoToken
    BY <2>1 DEF Begun
  <2>3. cstate' = [cstate EXCEPT ![last'] = [claims |-> {"iss"}, token |-> NoToken]]
    BY <1>1 DEF InitAuthorization, Replace
  <2>. QED
    BY <2>1, <2>2, <2>3, TypeFacts DEF TokenMoves
<1>2. ASSUME NEW t \in Threads, AutomaticRegistration(t) \/ NoteAuthorization(t)
      PROVE  \A r \in Sessions : TokenMoves(r)
  <2>1. key[t] \in Sessions /\ key[t] \in 1..last
    BY <1>2 DEF AutomaticRegistration, NoteAuthorization, At, Typed, Begun, SessionLabels,
                CallbackLabels
  <2>2. CASE UNCHANGED cstate
    BY <2>2, KeptTokensMove
  <2>3. CASE Update(key[t], {"request"}, NoToken)
    BY <2>1, <2>3, UpdateMovesTokens
  <2>4. ASSUME NEW token \in Implicit(t),
               NoteResponse(key[t], {"iss"} \cup (response_type \ {"token"}), token)
        PROVE  \A r \in Sessions : TokenMoves(r)
    <3>1. token \in Tokens \cup {NoToken} /\ (token = NoToken \/ token.of = key[t])
      BY <2>1, IssuedIs DEF Implicit
    <3>. QED
      BY <2>1, <2>4, <3>1, UpdateMovesTokens DEF NoteResponse
  <2>. QED
    BY <1>2, <2>2, <2>3, <2>4 DEF AutomaticRegistration, NoteAuthorization
<1>3. ASSUME NEW t \in Threads, NEW http \in HTTP, TokenResponse(t, http)
      PROVE  \A r \in Sessions : TokenMoves(r)
  <2>1. key[t] \in Sessions /\ key[t] \in 1..last
    BY <1>3 DEF TokenResponse, Typed, Begun, SessionLabels, CallbackLabels
  <2>2. \/ UNCHANGED cstate
        \/ \E token \in Issued(t) : Update(key[t], {}, token)
        \/ Update(key[t], {}, NoToken)
    BY <1>3 DEF TokenResponse, SessionOf
  <2>3. \A token \in Issued(t) : token \in Tokens /\ token.of = key[t]
    BY <2>1, IssuedIs
  <2>. QED
    BY <2>1, <2>2, <2>3, KeptTokensMove, UpdateMovesTokens
<1>4. ASSUME NEW t \in Threads, NEW s \in Sessions, ClearSession(t, s)
      PROVE  \A r \in Sessions : TokenMoves(r)
  <2>1. cstate' = [cstate EXCEPT ![s] = NoSession]
    BY <1>4 DEF ClearSession
  <2>2. outcome'[t].how = "cleared" /\ outcome'[t].key = s
    <3>1. s \in 0..MaxLogins
      BY BoundsAreNumbers DEF Sessions
    <3>2. key'[t] = s
      BY <1>4, <3>1, CallIs DEF ClearSession
    <3>. QED
      BY <1>4, <3>2 DEF ClearSession, End, Typed, TypeOK
  <2>. QED
    BY <2>1, <2>2, TypeFacts DEF TokenMoves, NoSession
<1>5. ASSUME NEW t \in Threads, Begin(t) \/ DoProviderInfo(t) \/ SkipRegistration(t)
                                \/ NoResponseMode(t) \/ FinalizeAuth(t) \/ GetTokens(t) \/ Bind(t)
      PROVE  UNCHANGED cstate
  BY <1>5 DEF Begin, DoProviderInfo, SkipRegistration, NoResponseMode, FinalizeAuth, GetTokens, Bind,
              client
<1>6. ASSUME NEW t \in Threads, NEW http \in HTTP,
             UserInfo(t, http) \/ \E a \in Anchors : Register(t, http, a)
      PROVE  UNCHANGED cstate
  BY <1>6 DEF UserInfo, Register, client
<1>7. ASSUME NEW t \in Threads, NEW s \in Sessions,
             Callback(t, s) \/ Refresh(t, s) \/ GetValidAccessToken(t, s)
      PROVE  UNCHANGED cstate
  BY <1>7 DEF Callback, Refresh, GetValidAccessToken, client
<1>8. CASE \/ \E s \in Sessions, u \in Users : LogIn(s, u)
           \/ \E found \in Collections, own \in OwnChains : Federate(found, own)
           \/ Tick \/ UNCHANGED rp_vars
  <2>1. UNCHANGED cstate
    BY <1>8 DEF LogIn, Federate, Tick, rp_vars, client
  <2>. QED
    BY <2>1, KeptTokensMove
<1>9. CASE \E t \in Threads : Begin(t) \/ Step(t)
  BY <1>1, <1>2, <1>3, <1>5, <1>6, <1>9, KeptTokensMove DEF Step
<1>10. CASE \E t \in Threads, s \in Sessions :
         Callback(t, s) \/ Refresh(t, s) \/ GetValidAccessToken(t, s) \/ ClearSession(t, s)
  BY <1>4, <1>7, <1>10, KeptTokensMove
<1>. QED
  BY <1>8, <1>9, <1>10 DEF Next

LEMMA OutcomesMove ==
  ASSUME Typed, [Next]_rp_vars
  PROVE  \A t \in Threads : OutcomeMoves(t)
<1>1. ASSUME NEW t \in Threads, UNCHANGED outcome
      PROVE  OutcomeMoves(t)
  BY <1>1 DEF OutcomeMoves
<1>2. ASSUME NEW t \in Threads, NEW how, NEW token, how # "token", End(t, how, token)
      PROVE  \A u \in Threads : OutcomeMoves(u)
  BY <1>2 DEF End, OutcomeMoves, Typed, TypeOK
<1>3. ASSUME NEW t \in Threads, Raise(t)
      PROVE  \A u \in Threads : OutcomeMoves(u)
  BY <1>2, <1>3 DEF Raise
<1>4. ASSUME NEW t \in Threads, Begin(t) \/ Step(t)
      PROVE  \A u \in Threads : OutcomeMoves(u)
  <2>1. CASE UNCHANGED outcome
    BY <1>1, <2>1
  <2>2. CASE \E how \in {"redirect", "refreshed", "finalized"} : End(t, how, NoToken)
    BY <1>2, <2>2
  <2>. QED
    BY <1>3, <1>4, <2>1, <2>2
       DEF Begin, Step, Go, DoProviderInfo, SkipRegistration, Register, NoResponseMode, InitAuthorization,
           AutomaticRegistration, FinalizeAuth, NoteAuthorization, GetTokens, TokenResponse,
           UserInfo, Bind
<1>5. ASSUME NEW t \in Threads, NEW s \in Sessions, Callback(t, s) \/ Refresh(t, s)
      PROVE  \A u \in Threads : OutcomeMoves(u)
  <2>1. UNCHANGED outcome \/ End(t, "error", NoToken)
    BY <1>5 DEF Callback, Refresh, Go
  <2>. QED
    BY <1>1, <1>2, <2>1
<1>6. ASSUME NEW t \in Threads, NEW s \in Sessions, ClearSession(t, s)
      PROVE  \A u \in Threads : OutcomeMoves(u)
  BY <1>2, <1>6 DEF ClearSession
<1>7. ASSUME NEW t \in Threads, NEW s \in Sessions, GetValidAccessToken(t, s)
      PROVE  \A u \in Threads : OutcomeMoves(u)
  <2>1. CASE Raise(t)
    BY <1>3, <2>1
  <2>2. CASE /\ cstate[s].token # NoToken /\ Valid(cstate[s].token)
             /\ End(t, "token", cstate[s].token)
    <3>1. s \in 0..MaxLogins
      BY BoundsAreNumbers DEF Sessions
    <3>2. key'[t] = s
      BY <1>7, <3>1, CallIs DEF GetValidAccessToken
    <3>3. outcome' = [outcome EXCEPT ![t] = [how |-> "token", key |-> s, token |-> cstate[s].token]]
      BY <2>2, <3>2 DEF End
    <3>. QED
      BY <2>2, <3>3 DEF OutcomeMoves, Typed, TypeOK
  <2>. QED
    BY <1>7, <2>1, <2>2 DEF GetValidAccessToken
<1>8. CASE \/ \E s \in Sessions, u \in Users : LogIn(s, u)
           \/ \E found \in Collections, own \in OwnChains : Federate(found, own)
           \/ Tick \/ UNCHANGED rp_vars
  <2>1. UNCHANGED outcome
    BY <1>8 DEF LogIn, Federate, Tick, rp_vars
  <2>. QED
    BY <1>1, <2>1
<1>9. CASE \E t \in Threads : Begin(t) \/ Step(t)
  BY <1>4, <1>9
<1>10. CASE \E t \in Threads, s \in Sessions :
         Callback(t, s) \/ Refresh(t, s) \/ GetValidAccessToken(t, s) \/ ClearSession(t, s)
  BY <1>5, <1>6, <1>7, <1>10
<1>. QED
  BY <1>8, <1>9, <1>10 DEF Next

\* What a step may do to the session a thread is about.
KeyMoves(t) ==
  rp_pc'[t] \in SessionLabels =>
    \/ rp_pc[t] \in SessionLabels /\ key'[t] = key[t]
    \/ key'[t] \in 1..last'

LEMMA KeptKeysMove ==
  ASSUME UNCHANGED <<rp_pc, key>>
  PROVE  \A t \in Threads : KeyMoves(t)
  BY DEF KeyMoves

\* The thread goes on with its session, or stops being about one.
LEMMA WorkMovesKeys ==
  ASSUME Typed, NEW t \in Threads, NEW label, Working, rp_pc' = [rp_pc EXCEPT ![t] = label],
         rp_pc[t] \in SessionLabels \/ label \notin SessionLabels
  PROVE  \A u \in Threads : KeyMoves(u)
  BY DEF KeyMoves, Working, Typed

LEMMA CallMovesKeys ==
  ASSUME Typed, NEW t \in Threads, NEW label, NEW s,
         key' = [key EXCEPT ![t] = s], rp_pc' = [rp_pc EXCEPT ![t] = label],
         label \in SessionLabels => s \in 1..last'
  PROVE  \A u \in Threads : KeyMoves(u)
  BY DEF KeyMoves, Typed

LEMMA KeysMove ==
  ASSUME Typed, Begun, [Next]_rp_vars
  PROVE  \A t \in Threads : KeyMoves(t)
<1>1. ASSUME NEW t \in Threads, DoProviderInfo(t) \/ SkipRegistration(t) \/ NoResponseMode(t)
      PROVE  \A u \in Threads : KeyMoves(u)
  <2>1. \E l \in {"idle", "registration", "authorization"} : rp_pc' = [rp_pc EXCEPT ![t] = l]
    BY <1>1 DEF DoProviderInfo, SkipRegistration, NoResponseMode, Raise, End, Go
  <2>. QED
    BY <1>1, <2>1, WorkMovesKeys
       DEF DoProviderInfo, SkipRegistration, NoResponseMode, SessionLabels, CallbackLabels
<1>2. ASSUME NEW t \in Threads, NEW http \in HTTP, NEW a \in Anchors, Register(t, http, a)
      PROVE  \A u \in Threads : KeyMoves(u)
  <2>1. \E l \in {"idle", "authorization"} : rp_pc' = [rp_pc EXCEPT ![t] = l]
    BY <1>2 DEF Register, Raise, End, Go
  <2>. QED
    BY <1>2, <2>1, WorkMovesKeys DEF Register, SessionLabels, CallbackLabels
<1>3. ASSUME NEW t \in Threads, InitAuthorization(t)
      PROVE  \A u \in Threads : KeyMoves(u)
  <2>1. last' \in 1..last'
    BY <1>3, TypeFacts, BoundsAreNumbers DEF InitAuthorization
  <2>. QED
    BY <1>3, <2>1, CallMovesKeys DEF InitAuthorization, Go
<1>4. ASSUME NEW t \in Threads, \/ AutomaticRegistration(t) \/ FinalizeAuth(t)
                                \/ NoteAuthorization(t) \/ GetTokens(t) \/ Bind(t)
      PROVE  \A u \in Threads : KeyMoves(u)
  <2>1. \E l : rp_pc' = [rp_pc EXCEPT ![t] = l]
    BY <1>4 DEF AutomaticRegistration, FinalizeAuth, NoteAuthorization, GetTokens, Bind, Raise,
                End, Go
  <2>2. rp_pc[t] \in SessionLabels /\ Working
    BY <1>4 DEF AutomaticRegistration, FinalizeAuth, NoteAuthorization, GetTokens, Bind, At,
                SessionLabels, CallbackLabels
  <2>. QED
    BY <2>1, <2>2, WorkMovesKeys
<1>5. ASSUME NEW t \in Threads, NEW http \in HTTP, TokenResponse(t, http) \/ UserInfo(t, http)
      PROVE  \A u \in Threads : KeyMoves(u)
  <2>1. \E l : rp_pc' = [rp_pc EXCEPT ![t] = l]
    BY <1>5 DEF TokenResponse, UserInfo, Raise, End, Go
  <2>2. rp_pc[t] \in SessionLabels /\ Working
    BY <1>5 DEF TokenResponse, UserInfo, At, SessionLabels, CallbackLabels
  <2>. QED
    BY <2>1, <2>2, WorkMovesKeys
<1>6. ASSUME NEW t \in Threads, Begin(t)
      PROVE  \A u \in Threads : KeyMoves(u)
  BY <1>6, CallMovesKeys DEF Begin, Call, Go, SessionLabels, CallbackLabels
<1>7. ASSUME NEW t \in Threads, NEW s \in Sessions,
             \/ Callback(t, s) \/ Refresh(t, s) \/ GetValidAccessToken(t, s) \/ ClearSession(t, s)
      PROVE  \A u \in Threads : KeyMoves(u)
  <2>1. key' = [key EXCEPT ![t] = s] /\ last' = last
    BY <1>7 DEF Callback, Refresh, GetValidAccessToken, ClearSession, Call, client
  <2>2. CASE rp_pc' = [rp_pc EXCEPT ![t] = "idle"]
    BY <2>1, <2>2, CallMovesKeys DEF SessionLabels, CallbackLabels
  <2>3. CASE s \in 1..last /\ \E l : rp_pc' = [rp_pc EXCEPT ![t] = l]
    BY <2>1, <2>3, CallMovesKeys
  <2>. QED
    BY <1>7, <2>2, <2>3
       DEF Callback, Refresh, GetValidAccessToken, ClearSession, Raise, End, Go, Begun
<1>8. CASE \/ \E s \in Sessions, u \in Users : LogIn(s, u)
           \/ \E found \in Collections, own \in OwnChains : Federate(found, own)
           \/ Tick \/ UNCHANGED rp_vars
  BY <1>8, KeptKeysMove DEF LogIn, Federate, Tick, rp_vars
<1>9. CASE \E t \in Threads : Begin(t) \/ Step(t)
  BY <1>1, <1>2, <1>3, <1>4, <1>5, <1>6, <1>9 DEF Step
<1>10. CASE \E t \in Threads, s \in Sessions :
         Callback(t, s) \/ Refresh(t, s) \/ GetValidAccessToken(t, s) \/ ClearSession(t, s)
  BY <1>7, <1>10
<1>. QED
  BY <1>8, <1>9, <1>10 DEF Next

\* What a step may do to the rest: sessions only begin, a user stays logged in, one gets
\* bound to a session he is logged in with, provider_info stays, only a trusted anchor
\* registers, and users are sent by those that are not refused.
RestMoves ==
  /\ last' = last \/ last' = last + 1
  /\ \A s \in Sessions : \/ logged_in'[s] = logged_in[s]
                         \/ logged_in[s] = NoOne /\ s \in 1..last
  /\ \A u \in Users : \/ bound'[u] \in {bound[u], 0}
                      \/ bound'[u] \in Sessions /\ logged_in[bound'[u]] = u
  /\ provider_info' = provider_info \/ provider_info = NoOne
  /\ registration_response' = registration_response \/ registration_response' \in TrustAnchors
  /\ \/ sent' = sent
     \/ /\ provider_info # NoOne /\ ~Refused
        /\ UNCHANGED <<provider_info, registration_response>>

LEMMA RestMovesSo ==
  ASSUME Typed, [Next]_rp_vars
  PROVE  RestMoves
<1>1. ASSUME UNCHANGED <<last, logged_in, bound, provider_info, registration_response, sent>>
      PROVE  RestMoves
  BY <1>1 DEF RestMoves
<1>2. ASSUME NEW t \in Threads, DoProviderInfo(t)
      PROVE  RestMoves
  BY <1>2 DEF DoProviderInfo, environment, RestMoves
<1>3. ASSUME NEW t \in Threads, NEW http \in HTTP, NEW a \in Anchors, Register(t, http, a)
      PROVE  RestMoves
  BY <1>3 DEF Register, Accepts, Trusts, environment, RestMoves
<1>4. ASSUME NEW t \in Threads, InitAuthorization(t)
      PROVE  RestMoves
  BY <1>4 DEF InitAuthorization, environment, RestMoves
<1>5. ASSUME NEW t \in Threads, AutomaticRegistration(t)
      PROVE  RestMoves
  <2>1. provider_info # NoOne
    BY <1>5 DEF AutomaticRegistration, At, Typed, TypeOK
  <2>. QED
    BY <1>5, <2>1 DEF AutomaticRegistration, environment, RestMoves
<1>6. ASSUME NEW t \in Threads, Bind(t)
      PROVE  RestMoves
  <2>1. key[t] \in Sessions /\ logged_in[key[t]] \in Users
    BY <1>6, TypeFacts DEF Bind, At, Typed, SessionLabels, CallbackLabels
  <2>2. bound' = [bound EXCEPT ![logged_in[key[t]]] = key[t]]
    BY <1>6 DEF Bind, BindKey
  <2>3. \A u \in Users : \/ bound'[u] = bound[u]
                         \/ bound'[u] = key[t] /\ logged_in[key[t]] = u
    BY <2>2, TypeFacts
  <2>. QED
    BY <1>6, <2>1, <2>3 DEF Bind, environment, RestMoves
<1>7. ASSUME NEW t \in Threads, NEW s \in Sessions, ClearSession(t, s)
      PROVE  RestMoves
  BY <1>7 DEF ClearSession, environment, RestMoves
<1>8. ASSUME NEW s \in Sessions, NEW u \in Users, LogIn(s, u)
      PROVE  RestMoves
  BY <1>8, TypeFacts DEF LogIn, client, RestMoves
<1>9. CASE \E t \in Threads : Begin(t) \/ Step(t)
  <2>1. ASSUME NEW t \in Threads, \/ Begin(t) \/ SkipRegistration(t) \/ NoResponseMode(t)
                                  \/ FinalizeAuth(t) \/ NoteAuthorization(t) \/ GetTokens(t)
        PROVE  RestMoves
    BY <1>1, <2>1 DEF Begin, SkipRegistration, NoResponseMode, FinalizeAuth, NoteAuthorization,
                      GetTokens, environment, client
  <2>2. ASSUME NEW t \in Threads, NEW http \in HTTP, TokenResponse(t, http) \/ UserInfo(t, http)
        PROVE  RestMoves
    BY <1>1, <2>2 DEF TokenResponse, UserInfo, environment, client
  <2>. QED
    BY <1>2, <1>3, <1>4, <1>5, <1>6, <1>9, <2>1, <2>2 DEF Step
<1>10. CASE \E t \in Threads, s \in Sessions :
         Callback(t, s) \/ Refresh(t, s) \/ GetValidAccessToken(t, s) \/ ClearSession(t, s)
  <2>1. ASSUME NEW t \in Threads, NEW s \in Sessions,
               Callback(t, s) \/ Refresh(t, s) \/ GetValidAccessToken(t, s)
        PROVE  RestMoves
    BY <1>1, <2>1 DEF Callback, Refresh, GetValidAccessToken, environment, client
  <2>. QED
    BY <1>7, <1>10, <2>1
<1>11. CASE \/ \E found \in Collections, own \in OwnChains : Federate(found, own)
            \/ Tick \/ UNCHANGED rp_vars
  BY <1>1, <1>11 DEF Federate, Tick, rp_vars, environment, client
<1>. QED
  BY <1>8, <1>9, <1>10, <1>11 DEF Next

LEMMA BegunSessionsStay ==
  ASSUME Typed, RestMoves
  PROVE  1..last \subseteq 1..last'
  BY BoundsAreNumbers, TypeFacts DEF RestMoves

LEMMA BegunHolds ==
  /\ Init => Begun
  /\ Typed /\ Begun /\ [Next]_rp_vars => Begun'
<1>1. Init => Begun
  BY DEF Init, Begun, NoSession, SessionLabels, CallbackLabels
<1>2. ASSUME Typed, Begun, [Next]_rp_vars
      PROVE  Begun'
  <2>1. RestMoves /\ 1..last \subseteq 1..last'
    BY <1>2, RestMovesSo, BegunSessionsStay
  <2>2. ASSUME NEW s \in Sessions, cstate'[s].token # NoToken
        PROVE  s \in 1..last
    BY <1>2, <2>2, TokensMove DEF TokenMoves, Begun
  <2>3. ASSUME NEW s \in Sessions, logged_in'[s] # NoOne
        PROVE  s \in 1..last
    BY <1>2, <2>1, <2>3 DEF RestMoves, Begun
  <2>4. ASSUME NEW t \in Threads, rp_pc'[t] \in SessionLabels
        PROVE  key'[t] \in 1..last'
    BY <1>2, <2>1, <2>4, KeysMove DEF KeyMoves, Begun
  <2>. QED
    BY <2>1, <2>2, <2>3, <2>4 DEF Begun
<1>. QED
  BY <1>1, <1>2

-----------------------------------------------------------------------------
(* The properties                                                          *)

RegisteredWithTrust == registration_response # NoOne => registration_response \in TrustAnchors

IInv ==
  /\ Typed /\ Begun
  /\ TokensAreTheSessionsOwn /\ UsersFindTheirSessions
  /\ RegisteredWithTrust /\ UsersAreSentWhenRegistered

LEMMA InitIsSound == Init => IInv
<1>. SUFFICES ASSUME Init PROVE IInv
  OBVIOUS
<1>1. Typed /\ Begun
  BY InitIsTyped, BegunHolds
<1>2. TokensAreTheSessionsOwn /\ UsersFindTheirSessions /\ RegisteredWithTrust
      /\ UsersAreSentWhenRegistered
  BY DEF Init, NoSession, TokensAreTheSessionsOwn, UsersFindTheirSessions, RegisteredWithTrust,
         UsersAreSentWhenRegistered
<1>. QED
  BY <1>1, <1>2 DEF IInv

LEMMA StepIsSound == IInv /\ [Next]_rp_vars => IInv'
<1>. SUFFICES ASSUME IInv, [Next]_rp_vars PROVE IInv'
  OBVIOUS
<1>. USE DEF IInv
<1>1. Typed' /\ Begun' /\ RestMoves
  BY NextIsTyped, BegunHolds, RestMovesSo
<1>2. TokensAreTheSessionsOwn'
  <2>1. \A s \in Sessions : cstate'[s].token # NoToken => cstate'[s].token.of = s
    BY TokensMove DEF TokenMoves, TokensAreTheSessionsOwn
  <2>2. \A t \in Threads : outcome'[t].how = "token" => outcome'[t].token.of = outcome'[t].key
    BY OutcomesMove DEF OutcomeMoves, TokensAreTheSessionsOwn
  <2>. QED
    BY <2>1, <2>2 DEF TokensAreTheSessionsOwn
<1>3. UsersFindTheirSessions'
  <2>. SUFFICES ASSUME NEW u \in Users, bound'[u] # 0
                PROVE  logged_in'[bound'[u]] = u
    BY DEF UsersFindTheirSessions
  <2>1. bound'[u] \in Sessions /\ logged_in[bound'[u]] = u
    BY <1>1, TypeFacts DEF RestMoves, UsersFindTheirSessions
  <2>. QED
    BY <1>1, <2>1, BoundsAreNumbers DEF RestMoves
<1>4. RegisteredWithTrust'
  BY <1>1 DEF RestMoves, RegisteredWithTrust
<1>5. UsersAreSentWhenRegistered'
  <2>1. CASE sent' = sent
    <3>1. TrustAnchors \subseteq Anchors /\ NoOne \notin Anchors
      BY BoundsAreNumbers
    <3>. QED
      BY <1>1, <2>1, <3>1 DEF RestMoves, UsersAreSentWhenRegistered
  <2>2. CASE /\ provider_info # NoOne /\ ~Refused
             /\ UNCHANGED <<provider_info, registration_response>>
    BY <2>2 DEF Refused, RegisteredWithTrust, UsersAreSentWhenRegistered
  <2>. QED
    BY <1>1, <2>1, <2>2 DEF RestMoves
<1>. QED
  BY <1>1, <1>2, <1>3, <1>4, <1>5

LEMMA AlwaysSound == Spec => []IInv
  BY InitIsSound, StepIsSound, PTL DEF Spec

\* The token of a session, and the one get_valid_access_token gives for it, was issued for
\* it, however callbacks, refreshes, failed requests and threads interleave.
THEOREM TokensStayWithTheirSessions == Spec => []TokensAreTheSessionsOwn
<1>1. IInv => TokensAreTheSessionsOwn
  BY DEF IInv
<1>. QED
  BY <1>1, AlwaysSound, PTL

\* bind_key leads from a user to a session that user logged in with.
THEOREM BindingsAreTrue == Spec => []UsersFindTheirSessions
<1>1. IInv => UsersFindTheirSessions
  BY DEF IInv
<1>. QED
  BY <1>1, AlwaysSound, PTL

\* begin sends nobody to a provider it has no metadata of, or that takes but clients that
\* are registered when this one did not register through an anchor it trusts.
THEOREM OnlyTheRegisteredSend == Spec => []UsersAreSentWhenRegistered
<1>1. IInv => UsersAreSentWhenRegistered
  BY DEF IInv
<1>. QED
  BY <1>1, AlwaysSound, PTL

\* A session loses its token to clear_session alone.
THEOREM TokensGoWithTheSession == Spec => TokensAreKept
<1>1. IInv /\ [Next]_rp_vars =>
        [\A s \in Sessions : (cstate[s].token # NoToken /\ cstate'[s].token = NoToken)
           => \E t \in Threads : outcome'[t].how = "cleared" /\ outcome'[t].key = s]_rp_vars
  BY TokensMove DEF IInv, TokenMoves
<1>. QED
  BY <1>1, AlwaysSound, PTL DEF Spec, TokensAreKept

-----------------------------------------------------------------------------
(* The exchange                                                            *)

\* What is proved of the server alone, its actions being the server's.
AS == INSTANCE ClientRegistrationProofs

-----------------------------------------------------------------------------
(* The two instances are about the same server                             *)

LEMMA ServerAssumption == AS!RegistrationAssumption
  BY ExchangeAssumption
  DEF ExchangeAssumption, OP!RegistrationAssumption, AS!RegistrationAssumption, AS!Tokens,
      OP!Tokens, AS!ClientIds, OP!ClientIds, OP!NoChain, AS!NoChain

LEMMA SameInit == OP!Init => AS!Init
  BY DEF OP!Init, AS!Init, OP!NoEntry, AS!NoEntry, OP!ClientIds, AS!ClientIds, OP!Tokens,
         AS!Tokens, OP!NoResult, AS!NoResult, OP!Result, AS!Result

LEMMA SameFederate ==
  ASSUME NEW e, NEW cs, OP!Federate(e, cs)
  PROVE  AS!Federate(e, cs)
  BY DEF OP!Federate, AS!Federate, OP!stores, AS!stores, OP!locals, AS!locals

LEMMA SameReceive ==
  ASSUME NEW w, NEW r, OP!Receive(w, r)
  PROVE  AS!Receive(w, r)
  BY DEF OP!Receive, AS!Receive, OP!Goto, AS!Goto, OP!Fail, AS!Fail, OP!Answer, AS!Answer,
         OP!Result, AS!Result, OP!NoResult, AS!NoResult, OP!NoEntry, AS!NoEntry, OP!stores,
         AS!stores

LEMMA SameChoices ==
  ASSUME NEW w
  PROVE  /\ OP!Picked(w) = AS!Picked(w) /\ OP!Registered(w) = AS!Registered(w)
         /\ OP!Explicit(w) = AS!Explicit(w) /\ OP!NewId(w) = AS!NewId(w)
         /\ OP!Mismatch(w) = AS!Mismatch(w) /\ OP!IllegalUri(w) = AS!IllegalUri(w)
         /\ OP!AnchorOf(w) = AS!AnchorOf(w)
<1>1. OP!Usable(chains[w]) = AS!Usable(chains[w]) /\ OP!Pick(chains[w]) = AS!Pick(chains[w])
  BY DEF OP!Usable, AS!Usable, OP!Pick, AS!Pick, OP!First, AS!First, OP!ToAnchor, AS!ToAnchor
<1>2. OP!Explicit(w) = AS!Explicit(w)
  BY DEF OP!Explicit, AS!Explicit
<1>3. OP!Picked(w) = AS!Picked(w)
  BY <1>1, <1>2 DEF OP!Picked, AS!Picked, OP!First, AS!First
<1>4. OP!Registered(w) = AS!Registered(w)
  BY <1>2, <1>3 DEF OP!Registered, AS!Registered
<1>. QED
  BY <1>2, <1>3, <1>4 DEF OP!NewId, AS!NewId, OP!Mismatch, AS!Mismatch, OP!IllegalUri,
                          AS!IllegalUri, OP!AnchorOf, AS!AnchorOf

LEMMA SameStep ==
  ASSUME NEW w, OP!Step(w)
  PROVE  AS!Step(w)
<1>. USE SameChoices
     DEF OP!Goto, AS!Goto, OP!Fail, AS!Fail, OP!Answer, AS!Answer, OP!Result, AS!Result,
         OP!locals, AS!locals, OP!stores, AS!stores
<1>1. OP!Collect(w) => AS!Collect(w)
  BY DEF OP!Collect, AS!Collect, OP!Usable, AS!Usable, OP!NoChain, AS!NoChain
<1>2. OP!NoteChain(w) => AS!NoteChain(w)
  BY DEF OP!NoteChain, AS!NoteChain
<1>3. OP!ImportKeys(w) => AS!ImportKeys(w)
  BY DEF OP!ImportKeys, AS!ImportKeys, OP!Import, AS!Import
<1>4. OP!Setup(w) => AS!Setup(w)
  BY DEF OP!Setup, AS!Setup
<1>5. OP!DoRegistration(w) => AS!DoRegistration(w)
  BY DEF OP!DoRegistration, AS!DoRegistration, OP!RefuseLate, AS!RefuseLate
<1>6. OP!AddSecret(w) => AS!AddSecret(w)
  BY DEF OP!AddSecret, AS!AddSecret
<1>7. OP!StoreClient(w) => AS!StoreClient(w)
  BY DEF OP!StoreClient, AS!StoreClient
<1>8. OP!Alias(w) => AS!Alias(w)
  BY DEF OP!Alias, AS!Alias, OP!Aliased, AS!Aliased, OP!Shared, AS!Shared
<1>9. OP!Authenticate(w) => AS!Authenticate(w)
  BY DEF OP!Authenticate, AS!Authenticate
<1>10. OP!RegisterKeys(w) => AS!RegisterKeys(w)
  BY DEF OP!RegisterKeys, AS!RegisterKeys, OP!ImportClientKeys, AS!ImportClientKeys,
         OP!Import, AS!Import
<1>. QED
  BY <1>1, <1>2, <1>3, <1>4, <1>5, <1>6, <1>7, <1>8, <1>9, <1>10 DEF OP!Step, AS!Step

\* What the server promises of one step of a worker.
LEMMA ServerSteps ==
  ASSUME AS!IInv, AS!Fresh, NEW w \in Workers,
         AS!Step(w) \/ \E r \in Requests : AS!Receive(w, r)
  PROVE  AS!IInv' /\ AS!Fresh' /\ AS!Stands
<1>1. AS!Next
  BY DEF AS!Next
<1>2. AS!IInv'
  BY <1>1, ServerAssumption, AS!NextPreserves DEF AS!NextPreserves
<1>. QED
  BY <1>2, ServerAssumption, AS!WorkersStand DEF AS!WorkersStand

LEMMA ServerFederates ==
  ASSUME AS!IInv, AS!Fresh, NEW e \in Entities, NEW cs \in Answers[e], AS!Federate(e, cs)
  PROVE  AS!IInv' /\ AS!Fresh' /\ AS!Stands /\ UNCHANGED request
<1>1. AS!Next
  BY DEF AS!Next
<1>2. AS!IInv'
  BY <1>1, ServerAssumption, AS!NextPreserves DEF AS!NextPreserves
<1>3. UNCHANGED <<cdb, pc, calls, request>>
  BY DEF AS!Federate, AS!stores, AS!locals
<1>. QED
  BY <1>2, <1>3 DEF AS!Fresh, AS!Stands, AS!Complete

LEMMA ServerStays ==
  ASSUME AS!IInv, AS!Fresh, UNCHANGED server
  PROVE  AS!IInv' /\ AS!Fresh' /\ AS!Stands
<1>1. UNCHANGED AS!vars
  BY DEF server, AS!vars
<1>2. AS!IInv'
  BY <1>1, ServerAssumption, AS!NextPreserves DEF AS!NextPreserves
<1>3. UNCHANGED <<cdb, pc, calls>>
  BY DEF server
<1>. QED
  BY <1>2, <1>3 DEF AS!Fresh, AS!Stands, AS!Complete

\* A step that serves a request does not change which request it is.
LEMMA RequestsStay ==
  ASSUME AS!IInv, NEW w \in Workers, AS!Step(w)
  PROVE  UNCHANGED request
  BY DEF AS!Step, AS!Collect, AS!NoteChain, AS!ImportKeys, AS!Setup, AS!DoRegistration,
         AS!RegisterKeys, AS!AddSecret, AS!StoreClient, AS!Alias, AS!Authenticate, AS!locals

-----------------------------------------------------------------------------
(* The invariant                                                           *)

Labels == {"idle", "provider_info", "registration", "authorization", "request"}

\* Posts are registration requests of the client's.
PostsAreTheClients ==
  /\ post \in [Threads -> Workers \cup {NoOne}]
  /\ \A t \in Threads : post[t] # NoOne => FromClient(request[post[t]])

\* The client registers when it knows the provider, and what it knows stays.
ClientKnowsProvider ==
  /\ rp_pc \in [Threads -> Labels] /\ collection \in Collections
  /\ \A t \in Threads : rp_pc[t] \in {"registration", "authorization", "request"} =>
       provider_info # NoOne
  /\ sent # {} => /\ provider_info # NoOne
                  /\ provider_info.automatic \/ registration_response # NoOne

\* The anchor it goes by is one it has been offered, and trusts.
GoesByAnOffer ==
  registration_response # NoOne => registration_response \in Offered \cap TrustAnchors

XInv ==
  AS!IInv /\ AS!Fresh /\ PostsAreTheClients /\ ClientKnowsProvider /\ GoesByAnOffer

LEMMA SameOffers ==
  /\ Offered = {a \in Anchors : \E id \in AS!Tokens, c \in Chains :
       /\ c.valid /\ c.subject = Client /\ c.anchor = a
       /\ AS!Complete(cdb[id]) /\ cdb[id].metadata = c.metadata}
  /\ Offered' = {a \in Anchors : \E id \in AS!Tokens, c \in Chains :
       /\ c.valid /\ c.subject = Client /\ c.anchor = a
       /\ AS!Complete(cdb'[id]) /\ cdb'[id].metadata = c.metadata}
  BY DEF Offered, OP!Tokens, AS!Tokens, OP!Complete, AS!Complete, OP!NoEntry, AS!NoEntry

\* Registrations stand, so offers do.
LEMMA OffersStand ==
  ASSUME AS!Stands
  PROVE  Offered \subseteq Offered'
  BY SameOffers DEF AS!Stands

\* What the server answers with success is an offer.
LEMMA SuccessIsAnOffer ==
  ASSUME XInv, NEW t \in Threads, post[t] # NoOne,
         Parsed(Http(result[post[t]])) = "message"
  PROVE  result[post[t]].anchor \in Offered
<1>. DEFINE w == post[t]
<1>1. w \in Workers /\ FromClient(request[w]) /\ result[w].status = "registered"
  BY DEF XInv, PostsAreTheClients, Http, Parsed
<1>2. /\ calls[w] # 0 /\ cdb[AS!Token(w)] \in AS!Entry
      /\ result[w].anchor = AS!Picked(w).anchor
      /\ cdb[AS!Token(w)].metadata = AS!Registered(w)
  BY <1>1 DEF XInv, AS!IInv, AS!WorkerOK, AS!Done
<1>3. /\ chains[w] \in Seq(Chains) /\ AS!Usable(chains[w]) # {}
      /\ \A i \in 1..Len(chains[w]) :
           chains[w][i].subject = Client \/ chains[w][i] = request[w].chain
      /\ config \in Configs /\ calls \in [Workers -> 0..MaxCalls] /\ MaxCalls \in Nat
  BY <1>1, ServerAssumption
  DEF XInv, AS!IInv, AS!Typed, AS!TypeOK, AS!Chained, FromClient, AS!RegistrationAssumption
<1>4. AS!Registered(w) = AS!Picked(w).metadata
  BY <1>1, <1>3, ExchangeAssumption DEF AS!Registered, ExchangeAssumption
<1>5. /\ \E i \in AS!Usable(chains[w]) : AS!Picked(w) = chains[w][i]
      /\ AS!Picked(w) \in Chains /\ AS!Picked(w).valid
  BY <1>3, ServerAssumption, AS!PickedIsUsable DEF AS!PickedIsUsable
<1>6. AS!Picked(w).subject = Client
  <2>1. request[w] \in Requests
    BY <1>1 DEF XInv, AS!IInv, AS!Typed, AS!TypeOK
  <2>2. request[w].chain = AS!NoChain
    BY <1>1, <2>1, ServerAssumption, AS!RequestType DEF AS!RequestType, FromClient
  <2>3. AS!NoChain \notin Chains
    <3>1. ASSUME NEW c \in Chains
          PROVE  c.subject # NoOne
      BY ServerAssumption, AS!ChainType DEF AS!ChainType, AS!RegistrationAssumption, AS!ClientIds
    <3>. QED
      BY <3>1 DEF AS!NoChain
  <2>. QED
    BY <1>3, <1>5, <2>2, <2>3 DEF AS!Usable
<1>7. AS!Picked(w).anchor \in Anchors /\ AS!Picked(w).metadata \in Metadata
  BY <1>5, ServerAssumption, AS!ChainType DEF AS!ChainType
<1>8. AS!Token(w) \in AS!Tokens
  BY <1>1, <1>2, <1>3 DEF AS!Token, AS!Tokens
<1>9. AS!Complete(cdb[AS!Token(w)])
  <2>1. AS!NoEntry \notin AS!Entry
    BY ServerAssumption, AS!EntryIsNotNoEntry DEF AS!EntryIsNotNoEntry
  <2>. QED
    BY <1>2, <1>4, <1>7, <2>1, ServerAssumption DEF AS!Complete, AS!RegistrationAssumption
<1>. QED
  BY <1>2, <1>4, <1>5, <1>6, <1>7, <1>8, <1>9, SameOffers

-----------------------------------------------------------------------------
(* Every step preserves it, and is one of the agreement                    *)

Refines == [Agreement!Next]_(Agreement!agreement)

\* The server goes on by itself.
LEMMA ServerGoesOn ==
  ASSUME XInv, UNCHANGED rp_vars, AS!IInv', AS!Fresh', AS!Stands, PostsAreTheClients'
  PROVE  XInv' /\ Refines
<1>1. UNCHANGED <<rp_pc, provider_info, sent, registration_response, collection>>
  BY DEF rp_vars, client, environment
<1>2. Offered \subseteq Offered'
  BY OffersStand
<1>3. ClientKnowsProvider' /\ GoesByAnOffer'
  BY <1>1, <1>2 DEF XInv, ClientKnowsProvider, GoesByAnOffer
<1>4. Refines
  <2>1. Offered' = Offered \cup Offered' /\ Offered' \in SUBSET Anchors
    BY <1>2, SameOffers
  <2>2. Agreement!Offer(Offered')
    BY <1>1, <2>1 DEF Agreement!Offer
  <2>. QED
    BY <2>1, <2>2 DEF Refines, Agreement!Next
<1>. QED
  BY <1>3, <1>4 DEF XInv

LEMMA SendIsOK ==
  ASSUME XInv, NEW t \in Threads, NEW w \in Workers, NEW r \in Requests, Send(t, w, r)
  PROVE  XInv' /\ Refines
<1>1. AS!Receive(w, r) /\ UNCHANGED rp_vars
  BY SameReceive DEF Send
<1>2. AS!IInv' /\ AS!Fresh' /\ AS!Stands
  BY <1>1, ServerSteps DEF XInv
<1>3. /\ request' = [request EXCEPT ![w] = r] /\ post' = [post EXCEPT ![t] = w]
      /\ FromClient(r) /\ \A u \in Threads : post[u] # w
  BY <1>1 DEF Send, AS!Receive, Posted
<1>4. request \in [Workers -> Requests]
  BY DEF XInv, AS!IInv, AS!Typed, AS!TypeOK
<1>5. PostsAreTheClients'
  BY <1>3, <1>4 DEF XInv, PostsAreTheClients
<1>. QED
  BY <1>1, <1>2, <1>5, ServerGoesOn

LEMMA OtherIsOK ==
  ASSUME XInv, NEW w \in Workers, NEW r \in Requests, Other(w, r)
  PROVE  XInv' /\ Refines
<1>1. AS!Receive(w, r) /\ UNCHANGED <<rp_vars, post>>
  BY SameReceive DEF Other
<1>2. AS!IInv' /\ AS!Fresh' /\ AS!Stands
  BY <1>1, ServerSteps DEF XInv
<1>3. request' = [request EXCEPT ![w] = r] /\ \A u \in Threads : post[u] # w
  BY <1>1 DEF Other, AS!Receive, Posted
<1>4. request \in [Workers -> Requests]
  BY DEF XInv, AS!IInv, AS!Typed, AS!TypeOK
<1>5. PostsAreTheClients'
  BY <1>1, <1>3, <1>4 DEF XInv, PostsAreTheClients
<1>. QED
  BY <1>1, <1>2, <1>5, ServerGoesOn

LEMMA ServeIsOK ==
  ASSUME XInv, NEW w \in Workers, Serve(w)
  PROVE  XInv' /\ Refines
<1>1. AS!Step(w) /\ UNCHANGED <<rp_vars, post>>
  BY SameStep DEF Serve
<1>2. AS!IInv' /\ AS!Fresh' /\ AS!Stands
  BY <1>1, ServerSteps DEF XInv
<1>3. UNCHANGED request
  BY <1>1, RequestsStay DEF XInv
<1>4. PostsAreTheClients'
  BY <1>1, <1>3 DEF XInv, PostsAreTheClients
<1>. QED
  BY <1>1, <1>2, <1>4, ServerGoesOn

\* The client goes on by itself.
LEMMA ClientGoesOn ==
  ASSUME XInv, UNCHANGED server, ClientKnowsProvider', PostsAreTheClients',
         \/ UNCHANGED registration_response
         \/ registration_response' \in Offered \cap TrustAnchors
  PROVE  XInv' /\ Refines
<1>1. AS!IInv' /\ AS!Fresh' /\ AS!Stands
  BY ServerStays DEF XInv
<1>2. Offered' = Offered
  BY DEF server, Offered, OP!Complete
<1>3. GoesByAnOffer'
  BY <1>2 DEF XInv, GoesByAnOffer
<1>4. Refines
  <2>1. CASE UNCHANGED registration_response
    BY <1>2, <2>1 DEF Refines, Agreement!agreement
  <2>2. CASE registration_response' \in Offered \cap TrustAnchors
    <3>1. registration_response' \in Anchors
      BY <2>2, SameOffers
    <3>2. Agreement!Accept(registration_response')
      BY <1>2, <2>2 DEF Agreement!Accept
    <3>. QED
      BY <3>1, <3>2 DEF Refines, Agreement!Next
  <2>. QED
    BY <2>1, <2>2
<1>. QED
  BY <1>1, <1>3, <1>4 DEF XInv

\* What Register does to the client.
LEMMA RegisterIs ==
  ASSUME XInv, NEW t \in Threads, NEW http, NEW anchor, Register(t, http, anchor)
  PROVE  /\ \/ UNCHANGED registration_response
            \/ /\ Parsed(http) = "message" /\ anchor \in TrustAnchors
               /\ registration_response' = anchor
         /\ ClientKnowsProvider'
<1>1. \/ UNCHANGED registration_response
      \/ /\ Parsed(http) = "message" /\ anchor \in TrustAnchors
         /\ registration_response' = anchor
  BY DEF Register, Accepts, Trusts
<1>2. /\ rp_pc[t] = "registration" /\ UNCHANGED <<provider_info, sent, collection>>
      /\ \E label \in {"authorization", "idle"} : rp_pc' = [rp_pc EXCEPT ![t] = label]
  BY DEF Register, At, Go, Raise, End, environment
<1>3. NoOne \notin TrustAnchors
  BY RelyingPartyAssumption DEF RelyingPartyAssumption
<1>. QED
  BY <1>1, <1>2, <1>3 DEF XInv, ClientKnowsProvider, Labels

LEMMA GetAnswerIsOK ==
  ASSUME XInv, NEW t \in Threads, GetAnswer(t)
  PROVE  XInv' /\ Refines
<1>. DEFINE http == Http(result[post[t]])
            anchor == result[post[t]].anchor
<1>1. post[t] # NoOne /\ Register(t, http, anchor) /\ UNCHANGED server
      /\ post' = [post EXCEPT ![t] = NoOne]
  BY DEF GetAnswer
<1>2. PostsAreTheClients'
  BY <1>1 DEF XInv, PostsAreTheClients, server
<1>3. Parsed(http) = "message" => anchor \in Offered
  BY <1>1, SuccessIsAnOffer
<1>. HIDE DEF http, anchor
<1>. QED
  BY <1>1, <1>2, <1>3, RegisterIs, ClientGoesOn

LEMMA LoseIsOK ==
  ASSUME XInv, NEW t \in Threads, Lose(t)
  PROVE  XInv' /\ Refines
<1>1. Register(t, "unreachable", NoOne) /\ UNCHANGED server
      /\ post' = [post EXCEPT ![t] = NoOne]
  BY DEF Lose
<1>2. PostsAreTheClients'
  BY <1>1 DEF XInv, PostsAreTheClients, server
<1>3. Parsed("unreachable") # "message"
  BY SMTT(30) DEF Parsed
<1>. QED
  BY <1>1, <1>2, <1>3, RegisterIs, ClientGoesOn

LEMMA ProceedIsOK ==
  ASSUME XInv, NEW t \in Threads, Proceed(t)
  PROVE  XInv' /\ Refines
<1>1. UNCHANGED <<server, post>>
  BY DEF Proceed
<1>2. PostsAreTheClients'
  BY <1>1 DEF XInv, PostsAreTheClients, server
<1>3. UNCHANGED registration_response
  BY DEF Proceed, Begin, DoProviderInfo, NoResponseMode, InitAuthorization, AutomaticRegistration, client
<1>4. ClientKnowsProvider'
  <2>. USE DEF XInv, ClientKnowsProvider, Labels, At, Go, End, Raise, environment
  <2>1. CASE Begin(t)
    BY <2>1 DEF Begin, client
  <2>2. CASE DoProviderInfo(t)
    <3>1. CASE provider_info # NoOne
      BY <2>2, <3>1 DEF DoProviderInfo
    <3>2. CASE provider_info = NoOne
      <4>1. collection \in Seq(Providers) /\ NoOne \notin Providers
        BY RelyingPartyAssumption DEF RelyingPartyAssumption
      <4>2. /\ rp_pc[t] = "provider_info" /\ UNCHANGED <<sent, collection>> /\ sent = {}
            /\ \/ /\ provider_info' # NoOne
                  /\ rp_pc' = [rp_pc EXCEPT ![t] = "registration"]
               \/ /\ UNCHANGED provider_info
                  /\ rp_pc' = [rp_pc EXCEPT ![t] = "idle"]
        BY <2>2, <3>2, <4>1 DEF DoProviderInfo
      <4>. QED
        BY <3>2, <4>2
    <3>. QED
      BY <3>1, <3>2
  <2>3. CASE InitAuthorization(t)
    BY <2>3 DEF InitAuthorization
  <2>4. CASE AutomaticRegistration(t)
    BY <2>4 DEF AutomaticRegistration, Refused
  <2>5. CASE NoResponseMode(t)
    BY <2>5 DEF NoResponseMode, client
  <2>. QED
    BY <2>1, <2>2, <2>3, <2>4, <2>5 DEF Proceed
<1>. QED
  BY <1>1, <1>2, <1>3, <1>4, ClientGoesOn

LEMMA ChangeIsOK ==
  ASSUME XInv, Change
  PROVE  XInv' /\ Refines
<1>1. CASE (\E found \in Collections, own \in OwnChains : Federate(found, own))
             /\ UNCHANGED <<server, post>>
  <2>1. UNCHANGED <<rp_pc, provider_info, sent, registration_response>>
        /\ collection' \in Collections
    BY <1>1 DEF Federate, client
  <2>2. PostsAreTheClients' /\ ClientKnowsProvider'
    BY <1>1, <2>1 DEF XInv, PostsAreTheClients, ClientKnowsProvider, server
  <2>. QED
    BY <1>1, <2>1, <2>2, ClientGoesOn
<1>2. CASE (\E e \in Entities : \E cs \in Answers[e] : OP!Federate(e, cs))
             /\ UNCHANGED <<rp_vars, post>>
  <2>1. AS!IInv' /\ AS!Fresh' /\ AS!Stands /\ UNCHANGED request
    BY <1>2, SameFederate, ServerFederates DEF XInv
  <2>2. PostsAreTheClients'
    BY <1>2, <2>1 DEF XInv, PostsAreTheClients
  <2>. QED
    BY <1>2, <2>1, <2>2, ServerGoesOn
<1>. QED
  BY <1>1, <1>2 DEF Change

LEMMA ExchangeInitIsOK == ExchangeInit => XInv /\ Agreement!Init
<1>. SUFFICES ASSUME ExchangeInit
              PROVE  XInv /\ Agreement!Init
  OBVIOUS
<1>1. AS!Init
  BY SameInit DEF ExchangeInit
<1>2. AS!IInv
  BY <1>1, ServerAssumption, AS!InitIsOK DEF AS!InitIsOK
<1>3. AS!Fresh
  BY <1>1, ServerAssumption, AS!InitIsFresh DEF AS!InitIsFresh
<1>4. PostsAreTheClients /\ ClientKnowsProvider /\ GoesByAnOffer
  BY DEF ExchangeInit, Init, PostsAreTheClients, ClientKnowsProvider, GoesByAnOffer, Labels
<1>5. Offered = {}
  <2>1. \A id \in AS!Tokens : ~AS!Complete(cdb[id])
    BY <1>1 DEF AS!Init, AS!Complete, AS!ClientIds
  <2>. QED
    BY <2>1, SameOffers
<1>6. Agreement!Init
  BY <1>5 DEF ExchangeInit, Init, Agreement!Init
<1>. QED
  BY <1>2, <1>3, <1>4, <1>6 DEF XInv

LEMMA ExchangeNextIsOK == XInv /\ [ExchangeNext]_exchange_vars => XInv' /\ Refines
<1>. SUFFICES ASSUME XInv, [ExchangeNext]_exchange_vars
              PROVE  XInv' /\ Refines
  OBVIOUS
<1>1. CASE UNCHANGED exchange_vars
  <2>1. UNCHANGED <<rp_vars, server, post>>
    BY <1>1 DEF exchange_vars
  <2>2. PostsAreTheClients' /\ ClientKnowsProvider' /\ UNCHANGED registration_response
    BY <2>1 DEF XInv, PostsAreTheClients, ClientKnowsProvider, server, rp_vars, client,
              environment
  <2>. QED
    BY <2>1, <2>2, ClientGoesOn
<1>2. CASE ExchangeNext
  BY <1>2, ProceedIsOK, GetAnswerIsOK, LoseIsOK, SendIsOK, OtherIsOK, ServeIsOK, ChangeIsOK
  DEF ExchangeNext
<1>. QED
  BY <1>1, <1>2

-----------------------------------------------------------------------------
(* Theorems                                                                *)

\* For any number of threads and workers, any chains, and answers lost at any time: what
\* the two parties do is what RegistrationAgreement allows.
THEOREM ExchangeImplementsAgreement == ExchangeSpec => ImplementsAgreement
<1>. QED
  BY ExchangeInitIsOK, ExchangeNextIsOK, PTL
  DEF ExchangeSpec, ImplementsAgreement, Agreement!Spec, Refines

\* Users sent to a provider that takes known clients only are sent to one that has the
\* client on file through an anchor the client trusts.
THEOREM SentUsersAreKnown == ExchangeSpec => []UsersAreSentToWhoKnowsTheClient
<1>1. XInv => UsersAreSentToWhoKnowsTheClient
  BY DEF XInv, ClientKnowsProvider, GoesByAnOffer, UsersAreSentToWhoKnowsTheClient
<1>2. ExchangeSpec => []XInv
  BY ExchangeInitIsOK, ExchangeNextIsOK, PTL DEF ExchangeSpec
<1>. QED
  BY <1>1, <1>2, PTL
=============================================================================
