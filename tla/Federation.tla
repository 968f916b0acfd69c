------------------------------ MODULE Federation ------------------------------
(***************************************************************************)
(* A federation entity that looks for others: the who endpoint searches    *)
(* the tree below a trust anchor (trawl) for entities of a type, asking    *)
(* each superior's list and fetch endpoints; trust marks are requested     *)
(* from an issuer.  Threads share the cached entity configurations, the    *)
(* stored trust chains and the client's context, and the federation        *)
(* changes while they search.                                              *)
(*                                                                         *)
(* Collecting and verifying chains gives chains of the entity asked for,   *)
(* or none.  One trust mark stands for those of an entity.  The variables  *)
(* steady, ever and overlapped only observe.                               *)
(***************************************************************************)
EXTENDS Superior

CONSTANTS
  Threads,     \* threads of the entity
  Searchers, Requesters,  \* those that search, those that request trust marks
  Me,          \* its entity ID
  Anchor,      \* the trust anchor that who is asked about
  Providers,   \* entities whose metadata has the type searched for
  CredentialIssuers, Suitable, \* those that issue credentials, and of the type asked for
  Hierarchy,   \* whom a superior may register
  Federations, \* what subordinates are registered when it starts
  Issuers,     \* whom trust marks are requested from
  RecursionLimit,  \* of calls of trawl
  MaxCalls,    \* bound: operations per thread
  MaxChanges   \* bound: changes of the federation and of the cache

ASSUME FederationAssumption ==
  /\ Searchers \cup Requesters = Threads
  /\ Me \in Entities /\ Anchor \in Superiors /\ Providers \subseteq Entities
  /\ Suitable \subseteq CredentialIssuers /\ CredentialIssuers \subseteq Entities
  /\ Hierarchy \subseteq Superiors \X Entities /\ Issuers \subseteq Entities
  /\ Federations \subseteq [Superiors -> [Entities -> Records \cup {Nothing}]]
  /\ \A f \in Federations, s \in Superiors, e \in Entities :
       f[s][e] # Nothing => <<s, e>> \in Hierarchy
  /\ RecursionLimit \in Nat /\ MaxCalls \in Nat /\ MaxChanges \in Nat

VARIABLES
  config_cache, \* of each entity: no configuration, or one that is "fresh" or "expired"
  trust_chain,  \* trust_chain[e]: whose chains are stored for e, which may be None
  issuer,       \* client.context.issuer
  at, stack,    \* where a thread is; the calls of trawl it is in
  request,      \* does the search ask for a credential type, for a trust mark?
  found,        \* the search's result so far
  kept, left,   \* what is kept of it, in the end the answer; what is still to be looked at
  asked, used,  \* whom a trust mark is requested from; whose chains gave the endpoint
  result,       \* how its last operation ended
  calls, changes,   \* for the bounds
  steady, ever, \* what was listed throughout its search, and at any time in it
  overlapped    \* has a request begun while a trust mark was requested?

sieve == <<kept, left>>
searching == <<stack, found, sieve, request>>
asking == <<asked, used>>
observed == <<steady, ever, overlapped>>
vars == <<superior_vars, config_cache, trust_chain, issuer, at, searching, asking, result,
          calls, changes, observed>>

\* Where the answer to a list request is an error message, its keys are taken for entity
\* IDs; Nothing stands for them.
NotAnEntity == Nothing
Anyone == Entities \cup {NotAnEntity}
HTTP == {"answer", "error", "raises"}

At(t, label) == at[t] = label
Goto(t, label) == at' = [at EXCEPT ![t] = label] /\ UNCHANGED result
End(t, how) == at' = [at EXCEPT ![t] = "idle"] /\ result' = [result EXCEPT ![t] = how]
\* An exception ends all calls of trawl.
Raise(t) ==
  /\ End(t, "exception")
  /\ stack' = [stack EXCEPT ![t] = <<>>]
  /\ found' = [found EXCEPT ![t] = {}]
  /\ kept' = [kept EXCEPT ![t] = {}] /\ left' = [left EXCEPT ![t] = {}]

\* do_request notes whom the request is about, in the context all requests share.  The
\* variant leaves what is there.
AboutNobody(e) == issuer' = issuer
About(e) == issuer' = e
Asking(t) == at[t] \in {"stored", "collect", "again", "collect_again"}
Request(t, e) ==
  /\ About(e)
  /\ overlapped' = (overlapped \/ \E u \in Threads \ {t} : Asking(u))

-----------------------------------------------------------------------------
(* What there is to find                                                   *)

Listed == [all |-> Subordinates(Anchor),
           type |-> {p \in Hierarchy : p[2] \in OfType(p[1])},
           intermediate |-> {p \in Hierarchy : p[2] \in Intermediates(p[1])}]

\* Where a search goes: to all below the anchor, and from superiors to intermediates.
Visited(lists) ==
  LET closed(V) == lists.all \subseteq V /\ \A p \in lists.intermediate : p[1] \in V => p[2] \in V
  IN {e \in Entities : \A V \in SUBSET Entities : closed(V) => e \in V}
Findable(lists) ==
  LET V == Visited(lists)
  IN (V \cap Providers) \cup {p[2] : p \in {q \in lists.type : q[1] \in V}}

Both(l, m) ==
  [all |-> l.all \cap m.all, type |-> l.type \cap m.type,
   intermediate |-> l.intermediate \cap m.intermediate]
Either(l, m) ==
  [all |-> l.all \cup m.all, type |-> l.type \cup m.type,
   intermediate |-> l.intermediate \cup m.intermediate]

-----------------------------------------------------------------------------
(* who and trawl                                                           *)

Top(t) == stack[t][Len(stack[t])]
Rest(t) == SubSeq(stack[t], 1, Len(stack[t]) - 1)
Frame(e, es) == [node |-> e, todo |-> es]
Note(t, es) == found' = [found EXCEPT ![t] = @ \cup es]

Who(t, credential_type, trust_mark_id) ==
  /\ At(t, "idle") /\ calls[t] < MaxCalls
  /\ calls' = [calls EXCEPT ![t] = @ + 1]
  /\ request' = [request EXCEPT ![t] = [credential_type |-> credential_type,
                                        trust_mark_id |-> trust_mark_id]]
  /\ found' = [found EXCEPT ![t] = {}] /\ kept' = [kept EXCEPT ![t] = {}]
  /\ at' = [at EXCEPT ![t] = "list"] /\ result' = [result EXCEPT ![t] = "none"]
  /\ steady' = [steady EXCEPT ![t] = Listed] /\ ever' = [ever EXCEPT ![t] = Listed]
  /\ Request(t, Anchor)
  /\ UNCHANGED <<superior_vars, config_cache, trust_chain, stack, left, asking, changes>>

\* The search starts below the anchor, in the name of this entity.
ListAll(t, http) ==
  /\ At(t, "list")
  /\ IF http # "answer" THEN Raise(t)
     ELSE /\ stack' = [stack EXCEPT ![t] = <<Frame(Me, Subordinates(Anchor))>>]
          /\ Goto(t, "descend")
          /\ UNCHANGED <<found, sieve>>
  /\ UNCHANGED <<superior_vars, config_cache, trust_chain, issuer, request, asking, calls,
                 changes, observed>>

\* The next one down, in any order, as deep as calls go; or back.  The variant goes to it
\* without crossing it off.  Without a credential type the search keeps nothing of what it
\* found.
DescendForever(t, e) == stack' = [stack EXCEPT ![t] = @ \o <<Frame(e, {})>>]
DescendTo(t, e) ==
  stack' = [stack EXCEPT ![t] =
    Rest(t) \o <<Frame(Top(t).node, Top(t).todo \ {e}), Frame(e, {})>>]

Wanted(t) == IF request[t].credential_type THEN found[t] ELSE {}

Descend(t) ==
  /\ At(t, "descend")
  /\ \/ /\ Len(stack[t]) < RecursionLimit
        /\ \E e \in Top(t).todo : DescendTo(t, e)
        /\ Goto(t, "configuration")
        /\ UNCHANGED <<found, sieve>>
     \/ /\ ~(Len(stack[t]) < RecursionLimit)
        /\ Top(t).todo # {}
        /\ Raise(t)
     \/ /\ Top(t).todo = {}
        /\ stack' = [stack EXCEPT ![t] = Rest(t)]
        /\ IF Len(stack[t]) > 1 THEN Goto(t, "descend") /\ UNCHANGED sieve
           ELSE /\ Goto(t, "verify")
                /\ kept' = [kept EXCEPT ![t] = Wanted(t)] /\ left' = [left EXCEPT ![t] = Wanted(t)]
        /\ UNCHANGED found
  /\ UNCHANGED <<superior_vars, config_cache, trust_chain, issuer, request, asking, calls,
                 changes, observed>>

\* A cached configuration is taken; an expired one is dropped and gives nothing.  Else
\* the statement is fetched from the superior, whose own configuration must be there: if it
\* has expired it is dropped too.
Evict(e) == [config_cache EXCEPT ![e] = IF @ = "expired" THEN "no" ELSE @]

Configuration(t, http) ==
  /\ At(t, "configuration")
  /\ LET e == Top(t).node
         s == stack[t][Len(stack[t]) - 1].node
         fetched == /\ e # NotAnEntity /\ http = "answer"
                    /\ s \in Superiors /\ config_cache[s] = "fresh"
                    /\ subordinate[s][e] # Nothing
         cached == e # NotAnEntity /\ config_cache[e] # "no"
     IN /\ \/ cached /\ UNCHANGED <<superior_vars, issuer, overlapped>>
           \/ /\ ~cached
              /\ Request(t, IF fetched THEN e ELSE s)
              /\ IF fetched THEN Fetch(s, e) ELSE UNCHANGED superior_vars
        /\ \/ /\ cached => config_cache[e] = "fresh"
              /\ cached \/ fetched
              /\ config_cache' = [config_cache EXCEPT ![e] = "fresh"]
              /\ Note(t, {e} \cap Providers)
              /\ Goto(t, IF e \in Superiors THEN "typed" ELSE "descend")
              /\ UNCHANGED <<stack, sieve>>
           \/ /\ IF cached THEN config_cache[e] = "expired" ELSE ~fetched
              /\ config_cache' = Evict(IF cached THEN e ELSE s)
              /\ Raise(t)
  /\ UNCHANGED <<trust_chain, request, asking, calls, changes, steady, ever>>

\* An answer that is an error gives its keys.  The variant takes it for an empty list.
AnswerOrEmpty(http, es) == IF http = "answer" THEN es ELSE {}
AnswerOrKeys(http, es) == IF http = "answer" THEN es ELSE {NotAnEntity}

\* The list endpoint is looked for again each time: at a trust anchor in its configuration,
\* elsewhere in the metadata of verified chains.  Who has none that answers is an exception.
Unreachable(http) == http = "raises"

ListTyped(t, http) ==
  /\ At(t, "typed")
  /\ Request(t, Top(t).node)
  /\ IF Unreachable(http) THEN Raise(t)
     ELSE /\ Note(t, AnswerOrKeys(http, OfType(Top(t).node)))
          /\ Goto(t, "intermediates")
          /\ UNCHANGED <<stack, sieve>>
  /\ UNCHANGED <<superior_vars, config_cache, trust_chain, request, asking, calls, changes,
                 steady, ever>>

ListIntermediates(t, http) ==
  /\ At(t, "intermediates")
  /\ Request(t, Top(t).node)
  /\ IF Unreachable(http) THEN Raise(t)
     ELSE /\ LET es == AnswerOrKeys(http, Intermediates(Top(t).node))
             IN stack' = [stack EXCEPT ![t] = Append(Rest(t), Frame(Top(t).node, es))]
          /\ Goto(t, "descend")
          /\ UNCHANGED <<found, sieve>>
  /\ UNCHANGED <<superior_vars, config_cache, trust_chain, request, asking, calls, changes,
                 steady, ever>>

\* get_verified_metadata, get_trust_chains: the chains on store, or else chains are collected
\* and stored.
Whose(e, chained) ==
  IF e # NotAnEntity /\ trust_chain[e] # Nothing THEN trust_chain[e]
  ELSE IF e # NotAnEntity /\ chained THEN e ELSE Nothing
StoreFound(e, whose) ==
  trust_chain' = IF whose = Nothing THEN trust_chain ELSE [trust_chain EXCEPT ![e] = whose]

Drop(t, e, good) ==
  /\ left' = [left EXCEPT ![t] = @ \ {e}]
  /\ kept' = IF good THEN kept ELSE [kept EXCEPT ![t] = @ \ {e}]
  /\ UNCHANGED <<at, result, stack, found>>

\* Each one is looked at once.  Without metadata there is a TypeError, and without the
\* metadata of a credential issuer a KeyError.
Verify(t, e, chained) ==
  /\ At(t, "verify") /\ e \in left[t]
  /\ LET whose == Whose(e, chained)
     IN /\ StoreFound(e, whose)
        /\ \/ whose \notin CredentialIssuers /\ Raise(t)
           \/ whose \in CredentialIssuers /\ Drop(t, e, whose \in Suitable)
  /\ UNCHANGED <<superior_vars, config_cache, issuer, request, asking, calls, changes, observed>>

LookForMarks(t) ==
  /\ At(t, "verify") /\ left[t] = {} /\ request[t].trust_mark_id
  /\ left' = [left EXCEPT ![t] = kept[t]]
  /\ Goto(t, "marks")
  /\ UNCHANGED <<superior_vars, config_cache, trust_chain, issuer, stack, found, kept, request,
                 asking, calls, changes, observed>>

\* verify_trust_mark of a mark from i, if e has one: a mark that cannot be verified, or that
\* its issuer does not call active, gives None and so an exception.  The issuer is asked at an
\* endpoint that is given: the request is about nobody.
CheckMark(t, e, i, chained) ==
  /\ At(t, "marks") /\ e \in left[t]
  /\ \/ Drop(t, e, FALSE) /\ UNCHANGED <<trust_chain, issuer, overlapped>>
     \/ LET whose == Whose(i, chained)
        IN /\ StoreFound(i, whose)
           /\ \/ Raise(t) /\ UNCHANGED <<issuer, overlapped>>
              \/ /\ whose # Nothing /\ Request(t, Nothing)
                 /\ Raise(t) \/ \E good \in BOOLEAN : Drop(t, e, good)
  /\ UNCHANGED <<superior_vars, config_cache, request, asking, calls, changes, steady, ever>>

Answer(t) ==
  /\ left[t] = {}
  /\ At(t, "marks") \/ (At(t, "verify") /\ ~request[t].trust_mark_id)
  /\ End(t, "answered")
  /\ UNCHANGED <<superior_vars, config_cache, trust_chain, issuer, searching, asking, calls,
                 changes, observed>>

-----------------------------------------------------------------------------
(* Requesting a trust mark: TrustMark.get_endpoint                         *)

\* The context's issuer is read three times, and chains are collected in between: for
\* get_trust_chains, which stores what it finds; if that is nothing, for collecting once
\* more; and for storing.
RequestTrustMark(t, e) ==
  /\ At(t, "idle") /\ calls[t] < MaxCalls
  /\ calls' = [calls EXCEPT ![t] = @ + 1]
  /\ asked' = [asked EXCEPT ![t] = e] /\ used' = [used EXCEPT ![t] = Nothing]
  /\ at' = [at EXCEPT ![t] = "stored"] /\ result' = [result EXCEPT ![t] = "none"]
  /\ Request(t, e)
  /\ UNCHANGED <<superior_vars, config_cache, trust_chain, searching, changes, steady, ever>>

Use(t, e) == used' = [used EXCEPT ![t] = e]
StoreChains(e, whose) == trust_chain' = [trust_chain EXCEPT ![e] = whose]

ReadIssuer(t) ==
  /\ \/ /\ At(t, "stored")
        /\ IF trust_chain[issuer] # Nothing THEN Use(t, trust_chain[issuer]) /\ End(t, "requested")
           ELSE Use(t, issuer) /\ Goto(t, "collect")
     \/ At(t, "again") /\ Use(t, issuer) /\ Goto(t, "collect_again")
  /\ UNCHANGED <<superior_vars, config_cache, trust_chain, issuer, searching, asked, calls,
                 changes, observed>>

Collect(t, chained) ==
  /\ at[t] \in {"collect", "collect_again"}
  /\ chained => used[t] # Nothing
  /\ IF chained
     THEN /\ StoreChains(IF At(t, "collect") THEN used[t] ELSE issuer, used[t])
          /\ End(t, "requested")
          /\ UNCHANGED used
     ELSE /\ IF At(t, "collect") THEN Goto(t, "again") ELSE End(t, "exception")
          /\ Use(t, Nothing)
          /\ UNCHANGED trust_chain
  /\ UNCHANGED <<superior_vars, config_cache, issuer, searching, asked, calls, changes, observed>>

-----------------------------------------------------------------------------
(* Administrators, and collections of chains that fill the cache           *)

Observe ==
  /\ steady' = [t \in Searchers |-> IF At(t, "idle") THEN steady[t] ELSE Both(steady[t], Listed')]
  /\ ever' = [t \in Searchers |-> IF At(t, "idle") THEN ever[t] ELSE Either(ever[t], Listed')]

Administrate ==
  /\ changes < MaxChanges /\ changes' = changes + 1
  /\ \E p \in Hierarchy :
       \/ \E record \in Records : Register(p[1], p[2], record)
       \/ Unregister(p[1], p[2])
       \/ \E new \in Policies \cup {NoPolicy} : SetPolicy(p[1], p[2], new)
  /\ Observe
  /\ UNCHANGED <<config_cache, trust_chain, issuer, at, searching, asking, result, calls,
                 overlapped>>

Age(e, c) ==
  /\ changes < MaxChanges /\ changes' = changes + 1
  /\ config_cache[e] # c
  /\ config_cache' = [config_cache EXCEPT ![e] = c]
  /\ UNCHANGED <<superior_vars, trust_chain, issuer, at, searching, asking, result, calls,
                 observed>>

Step(t) ==
  \/ Descend(t) \/ LookForMarks(t) \/ Answer(t) \/ ReadIssuer(t)
  \/ \E http \in HTTP :
       ListAll(t, http) \/ Configuration(t, http) \/ ListTyped(t, http) \/ ListIntermediates(t, http)
  \/ \E chained \in BOOLEAN :
       \/ Collect(t, chained)
       \/ \E e \in left[t] : Verify(t, e, chained) \/ \E i \in Issuers : CheckMark(t, e, i, chained)

Init ==
  /\ subordinate \in Federations
  /\ written = [s \in Superiors |-> [e \in Entities |-> NoPolicy]]
  /\ policy = written
  /\ config_cache = [e \in Entities |-> IF e = Me THEN "fresh" ELSE "no"]
  /\ trust_chain = [e \in Anyone |-> Nothing]
  /\ issuer = Me
  /\ at = [t \in Threads |-> "idle"]
  /\ stack = [t \in Threads |-> <<>>]
  /\ request = [t \in Threads |-> [credential_type |-> FALSE, trust_mark_id |-> FALSE]]
  /\ found = [t \in Threads |-> {}] /\ kept = found /\ left = found
  /\ asked = [t \in Threads |-> Nothing] /\ used = asked
  /\ result = [t \in Threads |-> "none"]
  /\ calls = [t \in Threads |-> 0] /\ changes = 0
  /\ steady = [t \in Searchers |-> [all |-> {}, type |-> {}, intermediate |-> {}]]
  /\ ever = steady
  /\ overlapped = FALSE

Next ==
  \/ \E t \in Searchers, c, m \in BOOLEAN : Who(t, c, m)
  \/ \E t \in Requesters, e \in Issuers : RequestTrustMark(t, e)
  \/ \E t \in Threads : Step(t)
  \/ Administrate
  \/ \E e \in Entities, c \in {"fresh", "expired"} : Age(e, c)

Spec == Init /\ [][Next]_vars /\ \A t \in Threads : WF_vars(Step(t))

-----------------------------------------------------------------------------
(* Properties                                                              *)

TypeOK ==
  /\ SuperiorTypeOK
  /\ config_cache \in [Entities -> {"no", "fresh", "expired"}]
  /\ trust_chain \in [Anyone -> Anyone] /\ issuer \in Anyone
  /\ \A t \in Threads :
       /\ found[t] \cup kept[t] \cup left[t] \subseteq Anyone
       /\ at[t] \in {"descend", "configuration", "typed", "intermediates"} => stack[t] # <<>>
       /\ at[t] \in {"configuration", "typed", "intermediates"} =>
            Len(stack[t]) > 1 /\ Top(t).todo = {}
  /\ asked \in [Threads -> Anyone] /\ used \in [Threads -> Anyone]
  /\ result \in [Threads -> {"none", "exception", "answered", "requested"}]
  /\ changes \in 0..MaxChanges

\* A search for a credential type leaves out none for want of an answer: when it gets to
\* one, each entity that superiors listed all the time was found, and nothing was found that
\* none ever listed.  As long as requests do not overlap with one for a trust mark, it answers
\* with those that issue such credentials: all of those, unless a trust mark is asked for.  A
\* search without a credential type answers with nobody, whatever it found.
SearchesAreComplete ==
  \A t \in Searchers : result[t] = "answered" =>
    IF request[t].credential_type
    THEN /\ Findable(steady[t]) \subseteq found[t]
         /\ found[t] \subseteq Findable(ever[t])
         /\ kept[t] \subseteq found[t]
         /\ ~overlapped => kept[t] \subseteq Suitable
         /\ ~overlapped /\ ~request[t].trust_mark_id => found[t] \cap Suitable \subseteq kept[t]
    ELSE kept[t] = {}

\* A trust mark is requested from the issuer that was asked for, and chains are stored
\* for the entity they are of, as long as no request begins while one looks for where
\* to request a trust mark.
TrustMarkRequestsGoWhereAsked ==
  ~overlapped =>
    /\ \A e \in Anyone : trust_chain[e] \in {e, Nothing}
    /\ \A t \in Threads : result[t] = "requested" => used[t] = asked[t]

\* Superiors below one another, in a circle too, unreachable ones and ones that change their
\* minds: a search comes to an end, which in a circle is the limit of the calls.
SearchesEnd == \A t \in Threads : at[t] # "idle" ~> at[t] = "idle"
=============================================================================
