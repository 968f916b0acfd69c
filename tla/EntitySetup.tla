----------------------------- MODULE EntitySetup -----------------------------
(***************************************************************************)
(* utils.py, build_entity.py, defaults.py and combo/: a program makes its  *)
(* federation entities, one after the other, each out of descriptions of   *)
(* services, functions and endpoints.  The descriptions are dictionaries   *)
(* of defaults.py that the entities share: building one writes to them.    *)
(* An entity that is made can be given more trust anchors.                 *)
(*                                                                         *)
(* A component is the arguments it was made with.  Dictionaries of trust   *)
(* anchors have names, since they are kept by reference: a caller may      *)
(* bring one to several entities, which then hold the same.  The variable  *)
(* given only observes.                                                    *)
(***************************************************************************)
CONSTANTS
  Entities,   \* entities the program makes
  Anchors,    \* trust anchors
  Items,      \* Items[k]: the services, functions or endpoints there are descriptions of
  Defaults,   \* Defaults[k]: those an entity has when nothing else is said
  Collector,  \* the function that holds the trust anchors
  Params,     \* parameters of components
  Values,     \* their values
  Orders,     \* what callers ask for
  Brought,    \* the dictionaries of trust anchors of callers
  Contents,   \* Contents[d]: what is in one at first
  Standard,   \* the dictionary of trust anchors in defaults.py
  Nothing     \* unset, not there

Kinds == {"service", "function", "endpoint"}
Names == UNION {Items[k] : k \in Kinds}
Args == [Params -> Values \cup {Nothing}]
NoArgs == [p \in Params |-> Nothing]
Dictionaries == Brought \cup {Standard}
AtFirst(d) == IF d = Standard THEN {} ELSE Contents[d]

\* An order: the items of each kind; those of which the caller brings the description;
\* init_kwargs and item_args; a dictionary of trust anchors and how it comes; another part of
\* the entity; and the endpoints of a trust mark entity.  The other part is a client or a
\* server of an entity type, with the client or server type in its configuration and, for a
\* client, the one among its arguments and whether services are named.
ASSUME SetupAssumption ==
  /\ \A k \in Kinds : Defaults[k] \subseteq Items[k] /\ Defaults[k] # {}
  /\ \A k, l \in Kinds : k # l => Items[k] \cap Items[l] = {}
  /\ Collector \in Items["function"]
  /\ Standard \notin Brought /\ Contents \in [Brought -> SUBSET Anchors]
  /\ Nothing \notin Dictionaries \cup Orders \cup Args
  /\ \A o \in Orders :
       /\ DOMAIN o.items = Kinds /\ o.own \subseteq Names \ Items["function"]
       /\ o.init \in [Names -> Args] /\ o.args \in [Names -> Args]
       /\ o.hand \in {"none", "make", "init"} /\ (o.hand # "none" => o.anchors \in Brought)
       /\ o.mark_endpoints \subseteq Items["endpoint"]

VARIABLES
  shared,      \* shared[n]: the arguments in the description of n in defaults.py
  dictionary,  \* the dictionary of trust anchors in that of the collector
  own,         \* own[e][n]: those in the description of n that e's caller brought
  trusted,     \* trusted[d]: what is in a dictionary of trust anchors
  at,          \* at[e]: how far the making of e is
  order,       \* order[e]: what e's caller asked for
  chosen,      \* chosen[e]: the items for e
  part,        \* part[e][n]: the arguments e's component n was made with
  holds,       \* holds[e]: the dictionary e's collector has
  keys,        \* keys[e]: the trust anchors whose keys are in e's key jar
  serves,      \* serves[e]: e's endpoints
  given        \* given[e]: the trust anchors that were given to e

descriptions == <<shared, dictionary, own>>
parts == <<part, holds, keys, serves>>
vars == <<descriptions, trusted, at, order, chosen, parts, given>>

Stages == Kinds \cup {"no", "instantiate", "attach", "made", "failed"}
At(e, stage) == at[e] = stage
Goto(e, stage) == at' = [at EXCEPT ![e] = stage]
Idle == \A e \in Entities : at[e] \in {"no", "made", "failed"}

-----------------------------------------------------------------------------
(* build_entity_config                                                     *)

\* Services of unknown names are left out, and naming none that is known is naming none.
Asked(e, k) == IF order[e].items[k] = Nothing THEN {} ELSE order[e].items[k] \cap Items[k]
Choice(e, k) == IF Asked(e, k) = {} THEN Defaults[k] ELSE Asked(e, k)

\* A function or an endpoint of an unknown name is a KeyError.
Raises(e, k) ==
  k # "service" /\ order[e].items[k] # Nothing /\ ~(order[e].items[k] \subseteq Items[k])

\* Where no service is wanted nothing is added of the kinds that are not named either.
Skipped(e, k) ==
  order[e].items["service"] = {} /\ order[e].items[k] \in {Nothing, {}}

\* dict.update
Updated(old, new) == [p \in Params |-> IF new[p] # Nothing THEN new[p] ELSE old[p]]

\* init_kwargs are written into the description, and item_args into that of an endpoint.
\* The variant writes them the other way round.
WrittenArgsFirst(e, k, n, old) ==
  IF k = "endpoint" THEN Updated(Updated(old, order[e].args[n]), order[e].init[n])
  ELSE Updated(old, order[e].init[n])
Written(e, k, n, old) ==
  LET new == Updated(old, order[e].init[n])
  IN IF k = "endpoint" THEN Updated(new, order[e].args[n]) ELSE new

Order(e, o) ==
  /\ Idle /\ At(e, "no")
  /\ order' = [order EXCEPT ![e] = o]
  /\ Goto(e, "service")
  /\ UNCHANGED <<descriptions, trusted, chosen, parts, given>>

Following(k) ==
  [service |-> "function", function |-> "endpoint", endpoint |-> "instantiate"][k]

\* add_services, add_functions, add_endpoints
Adds(e, k) ==
  /\ ~Skipped(e, k) /\ ~Raises(e, k)
  /\ Goto(e, Following(k))
  /\ LET new == Choice(e, k)
         written(n, old) == IF n \in new THEN Written(e, k, n, old) ELSE old
     IN /\ chosen' = [chosen EXCEPT ![e] = @ \cup new]
        /\ shared' = [n \in Names |-> IF n \in order[e].own THEN shared[n]
                                      ELSE written(n, shared[n])]
        /\ own' = [own EXCEPT ![e] = [n \in Names |-> IF n \in order[e].own
                                                      THEN written(n, @[n]) ELSE @[n]]]
        /\ IF Collector \in new /\ order[e].hand = "init"
           THEN /\ dictionary' = order[e].anchors
                /\ given' = [given EXCEPT ![e] = trusted[order[e].anchors]]
           ELSE UNCHANGED <<dictionary, given>>
  /\ UNCHANGED <<trusted, order, parts>>

Add(e, k) ==
  /\ At(e, k)
  /\ \/ Adds(e, k)
     \/ /\ Skipped(e, k) /\ Goto(e, Following(k))
        /\ UNCHANGED <<descriptions, trusted, order, chosen, parts, given>>
     \/ /\ ~Skipped(e, k) /\ Raises(e, k) /\ Goto(e, "failed")
        /\ UNCHANGED <<descriptions, trusted, order, chosen, parts, given>>

-----------------------------------------------------------------------------
(* FederationEntity and FederationCombo                                    *)

\* A client's type is what its configuration says, or the argument, or that of its entity
\* type.
ClientType(g) ==
  IF g.stated # "" THEN g.stated ELSE IF g.argument # "" THEN g.argument
  ELSE IF g.type = "oauth_client" THEN "oauth2" ELSE "oidc"
ServerType(g) ==
  IF g.stated # "" THEN g.stated ELSE IF g.type = "oauth_authorization_server" THEN "oauth2"
  ELSE IF g.type = "openid_provider" THEN "oidc" ELSE ""

\* An OAuth 2.0 client that names no services has those by default only if its type is an
\* argument; a server of no type has no schema for its metadata.
ClientWorks(g) == g.services \/ ClientType(g) = "oidc" \/ g.argument = "oauth2"
ServerWorks(g) == ServerType(g) \in {"oauth2", "oidc"}
Works(g) == IF g.class = "client" THEN ClientWorks(g) ELSE ServerWorks(g)

\* The arguments are those in the description by now.  An entity without endpoints cannot
\* be made.
Description(e, n) == IF n \in order[e].own THEN own[e][n] ELSE shared[n]

\* The endpoints the server of the entity is made with.
EndpointsMade(e) == chosen[e] \cap Items["endpoint"]

Instantiate(e) ==
  /\ At(e, "instantiate")
  /\ IF EndpointsMade(e) = {}
          \/ (order[e].guise # Nothing /\ ~Works(order[e].guise))
     THEN Goto(e, "failed") /\ UNCHANGED parts
     ELSE /\ part' = [part EXCEPT ![e] =
               [n \in Names |-> IF n \in chosen[e] THEN Description(e, n) ELSE Nothing]]
          /\ serves' = [serves EXCEPT ![e] = EndpointsMade(e)]
          /\ IF Collector \in chosen[e]
             THEN /\ holds' = [holds EXCEPT ![e] = dictionary]
                  /\ keys' = [keys EXCEPT ![e] = trusted[dictionary]]
             ELSE UNCHANGED <<holds, keys>>
          /\ Goto(e, "attach")
  /\ UNCHANGED <<descriptions, trusted, order, chosen, given>>

-----------------------------------------------------------------------------
(* make_federation_entity and make_federation_combo                        *)

\* The collector gets the caller's dictionary itself, no copy.  The variant copies what is in
\* it to the dictionary the collector has.
HandOverCopies(e) ==
  /\ trusted' = [trusted EXCEPT ![holds[e]] = @ \cup trusted[order[e].anchors]]
  /\ UNCHANGED holds
HandOver(e) ==
  /\ holds' = [holds EXCEPT ![e] = order[e].anchors]
  /\ UNCHANGED trusted

\* An empty dictionary is as good as none.
Brings(e) == order[e].hand = "make" /\ trusted[order[e].anchors] # {}

\* The keys of the trust anchors are imported first; then a collector must be there.
AttachAnchors(e) ==
  /\ keys' = [keys EXCEPT ![e] = @ \cup trusted[order[e].anchors]]
  /\ IF Collector \in chosen[e]
     THEN HandOver(e) /\ given' = [given EXCEPT ![e] = trusted[order[e].anchors]]
     ELSE UNCHANGED <<trusted, holds, given>>

Attach(e) ==
  /\ At(e, "attach")
  /\ IF Brings(e) THEN AttachAnchors(e)
     ELSE UNCHANGED <<trusted, holds, keys, given>>
  /\ IF Brings(e) /\ Collector \notin chosen[e]
     THEN Goto(e, "failed") /\ UNCHANGED serves
     ELSE /\ Goto(e, "made")
          /\ serves' = [serves EXCEPT ![e] = @ \cup order[e].mark_endpoints]
  /\ UNCHANGED <<descriptions, order, chosen, part>>

-----------------------------------------------------------------------------
(* Afterwards                                                              *)

\* Without a collector this is an AttributeError, once the keys are imported.
AddTrustAnchor(e, a) ==
  /\ Idle /\ At(e, "made")
  /\ keys' = [keys EXCEPT ![e] = @ \cup {a}]
  /\ IF holds[e] = Nothing THEN UNCHANGED <<trusted, given>>
     ELSE /\ trusted' = [trusted EXCEPT ![holds[e]] = @ \cup {a}]
          /\ given' = [given EXCEPT ![e] = @ \cup {a}]
  /\ UNCHANGED <<descriptions, at, order, chosen, part, holds, serves>>

-----------------------------------------------------------------------------
Init ==
  /\ shared = [n \in Names |-> NoArgs]
  /\ dictionary = Standard
  /\ own = [e \in Entities |-> [n \in Names |-> NoArgs]]
  /\ trusted = [d \in Dictionaries |-> AtFirst(d)]
  /\ at = [e \in Entities |-> "no"]
  /\ order = [e \in Entities |-> Nothing]
  /\ chosen = [e \in Entities |-> {}]
  /\ part = [e \in Entities |-> [n \in Names |-> Nothing]]
  /\ holds = [e \in Entities |-> Nothing]
  /\ keys = [e \in Entities |-> {}]
  /\ serves = [e \in Entities |-> {}]
  /\ given = [e \in Entities |-> {}]

Making(e) ==
  \/ \E o \in Orders : Order(e, o)
  \/ \E k \in Kinds : Add(e, k)
  \/ Instantiate(e)
  \/ Attach(e)
Next == \E e \in Entities : Making(e) \/ \E a \in Anchors : AddTrustAnchor(e, a)

Spec == Init /\ [][Next]_vars

-----------------------------------------------------------------------------
TypeOK ==
  /\ shared \in [Names -> Args] /\ own \in [Entities -> [Names -> Args]]
  /\ dictionary \in Dictionaries
  /\ trusted \in [Dictionaries -> SUBSET Anchors]
  /\ at \in [Entities -> Stages]
  /\ order \in [Entities -> Orders \cup {Nothing}]
  /\ chosen \in [Entities -> SUBSET Names]
  /\ part \in [Entities -> [Names -> Args \cup {Nothing}]]
  /\ holds \in [Entities -> Dictionaries \cup {Nothing}]
  /\ keys \in [Entities -> SUBSET Anchors]
  /\ serves \in [Entities -> SUBSET Names]
  /\ given \in [Entities -> SUBSET Anchors]

Made(e) == at[e] = "made"

\* What the caller of e says of a component: item_args of an endpoint before init_kwargs.
Wanted(e, n, p) ==
  IF n \in Items["endpoint"] /\ order[e].args[n][p] # Nothing THEN order[e].args[n][p]
  ELSE order[e].init[n][p]

\* An entity's components have the arguments its own caller asked for, whatever the callers
\* before wrote into the descriptions they share; and where the caller brought the description
\* they have no others (utils.py:65-94, build_entity.py:45-57, 71-87, 101-118).
ArgumentsAreHeeded ==
  \A e \in Entities : Made(e) =>
    \A n \in chosen[e] : \A p \in Params :
      Wanted(e, n, p) # Nothing \/ n \in order[e].own => part[e][n][p] = Wanted(e, n, p)

\* Trust anchors spill from one entity to another only through a dictionary both of them hold:
\* what an entity trusts was in its dictionary at first or was given to one that holds it; and
\* one whose caller brought a dictionary holds no other, whatever other callers brought.  An
\* entity has the keys of the anchors it was given (defaults.py:195, utils.py:138-145, 230-237,
\* entity/__init__.py:378-386).
AnchorsSpillOnlyThroughDictionaries ==
  \A e \in Entities : holds[e] # Nothing =>
    /\ trusted[holds[e]] = AtFirst(holds[e])
                             \cup UNION {given[f] : f \in {g \in Entities : holds[g] = holds[e]}}
    /\ Made(e) /\ order[e].hand = "init" => holds[e] = order[e].anchors
    /\ Made(e) /\ order[e].hand = "make" /\ Contents[order[e].anchors] # {} =>
         holds[e] = order[e].anchors
    /\ given[e] \subseteq keys[e]

\* An entity trusts the anchors it was given and no others (a test of an entity and its trust
\* anchors asserts it, test_41_federation_entity.py:370-376).
EntitiesTrustWhatTheyWereGiven ==
  \A e \in Entities : Made(e) /\ holds[e] # Nothing => trusted[holds[e]] = given[e]
=============================================================================
