# fedservice in TLA+

A verification development for `src/src/fedservice`, an implementation of OpenID
Federation: entities publish signed statements about themselves and about their
subordinates, and a service decides which other entities to trust by collecting
the statements between an entity and a trust anchor, verifying them and applying
the metadata policies they carry.

All source paths below are relative to `src/src/fedservice`.

## 1. Inventory

| component | state | operations | who it talks to |
|---|---|---|---|
| Trust chain collector (`entity/function/trust_chain_collector.py`, `entity/function/__init__.py`, `entity_statement/cache.py`) | `config_cache`, `entity_statement_cache` (two keys per statement: the JWT and its `exp`), `trust_anchors`; the recursion of a call | `__call__`, `collect_tree`, `collect_branch`, `get_entity_configuration`, `get_federation_fetch_endpoint`, `_get_entity_statement`, `get_metadata`, `get_chain`, `tree2chains`, `collect_trust_chains` | other entities over HTTP; called by every function below from request threads |
| Trust chain verifier (`entity/function/verifier.py`, `entity_statement/statement.py`) | the federation key jar | `trusted_anchor`, `verify_trust_chain`, `__call__` | reads the collector's chains; writes keys of every subject into the shared key jar; calls the constraints |
| Constraints (`entity_statement/constraints.py`) | none | `meets_restrictions` and its helpers | called by the verifier |
| Metadata policy (`entity/function/policy.py`, `policy_operator.py`) | none; writes `metadata` and `combined_policy` of the chain | `gather_policies`, `combine`, `apply_metadata_policy` | called after verification |
| Trust marks (`trust_mark_entity/`, `entity/function/trust_mark_verifier.py`) | the issued marks, in memory (`SimpleDB`) or in files (`FileDB`) | create, status, list, verify, verify delegation | HTTP endpoints; the verifier collects and verifies the issuer's chains |
| Federation endpoints (`entity/server/`) | the stored subordinate records | fetch, list, resolve, entity configuration, who | resolve runs collector, verifier and policy |
| Federation entity (`entity/__init__.py`, `entity/function/trust_anchor.py`) | stored verified chains, trust anchors | `get_trust_chains`, `store`, `get_verified_metadata`, `trawl`, `verify_trust_mark`, `add_trust_anchor` | everything above |
| Client registration at the OP/AS (`appserver/`) | the client database `cdb`, client keys | explicit registration, automatic registration in authorization, pushed and token requests | federation entity |
| Relying party (`appclient/`) | client contexts, chosen trust anchor, registration response | registration, authorization, session | federation entity, HTTP |
| Client services (`entity/client/`) | none of their own; the entity configuration service is a second writer of `config_cache` | request building, response parsing | HTTP |
| Messages, wiring, statement files (`message.py`, `combo/`, `utils.py`, `fetch_entity_statement/`, ...) | none after start | - | - |

What is hard here:

* **Threads.** The services run under Flask's `app.run` (for example
  `src/setup_federation/entity.py`), one thread per request, over one set of
  Python objects without a lock. Two caches, the key jar, the client database
  and the subordinate records are shared.
* **Time.** Every document has an expiry time, each cache has a margin
  (`allowed_delta`), and three places decide freshness with three different
  comparisons.
* **Other people's data.** Authority hints come from the entities themselves:
  they may form loops, name entities that are not there or not authorities.
* **Failure.** Every climb is a sequence of HTTP exchanges; any of them may fail,
  and what was put in a cache or a database before stays.
* **History.** Caches, key jar, client database and subordinate records make the
  answer to one request depend on earlier ones.

What makes each component correct: the collector returns all the chains of the
question it was asked and no others, ends, and uses no outdated statement; the
verifier accepts a chain only if each statement is signed with a key its
superior vouched for and the first issuer is an anchor, whatever it verified
before; the constraints are those of every superior together; a combined policy
admits nothing a superior ruled out; a trust mark is active iff issued; an
endpoint's answer does not depend on earlier requests; a client is in the
database iff its registration succeeded.

## 2. How the project is composed, and what is left

| layer | modules | rests on |
|---|---|---|
| collecting | `ChainCollection` (promise), `TrustChainCollector` | - |
| the resolve endpoint | `Resolver` | EXTENDS `TrustChainCollector` |
| verifying | `Constraints`, `ConstraintsCheck`, `TrustChainVerifier` | the last two use the first |
| policies | `MetadataPolicy`, `TrustChainPolicy` | the second uses the first |
| from one to the other | `ChainProcessing` | EXTENDS `ConstraintsCheck` and `TrustChainPolicy` |
| trust marks | `TrustMarks` | chains are the issuer's anchors |
| superiors and searches | `Superior`, `Federation` | EXTENDS `Superior` |
| registration at the server | `ClientRegistration` | a chain is its subject, anchor, metadata and verdict |
| the client | `RelyingParty` | the same |
| registration end to end | `RegistrationAgreement` (promise), `RegistrationExchange` | EXTENDS `RelyingParty`, INSTANCEs `ClientRegistration` |
| making entities | `EntitySetup` | - |

The `MC...` modules instantiate them for TLC. A property lives in the module of
the component it is about; a run checks one module.

What a next step would take up:

* the filters of the list endpoint (`entity/server/list.py:24-50`, `:80-94`), which
  iterate over the subordinates while configurations are fetched;
* logout and `has_active_authentication` of the relying party, once they call
  something that changes state of this repository;
* subordinates and persistence in `EntitySetup`.

## 3. Modules

Each component has a specification module, an `MC...` module with the instances
TLC checks, and a `...Proofs` module. Definitions named as variants in their
comments are not used by the specifications: they are plausible slips of
the definition that follows, kept to show that the properties notice them.

### ChainCollection

What the collector promises, without caches, clock or HTTP. `Ask` starts a call,
`Answer` ends it with all chains from the subject (`ChainsOf`), `Fail` ends it
with an exception. A chain is the sequence of entity IDs of its statements. It
ends at `stop_at`, at an entity without hints, or - this is what
`tree2chains` makes of a branch that is `None` - below an authority that has no
fetch endpoint or is an anchor that hints at itself.

### TrustChainCollector

One program counter per thread; each access to a cache, each exchange over HTTP
and each turn of the loop is a step.

| model | code |
|---|---|
| `config_cache[e]`, `statement_cache[<<a, e>>]`, `time_cache[<<a, e>>]` | `config_cache[e]`, `entity_statement_cache[cache_key(a, e)]`, `...[time_key(a, e)]`; a document is its `exp`, 0 is an absent key |
| `stack[w]`, frames `entity`, `todo` | the activations of `collect_tree`: its entity and the hints its loop has not visited |
| `authority[w]`, `statement[w]` | the locals of `collect_branch` and `_get_entity_statement` |
| `chains[w]` | the chains `tree2chains` makes of the finished part of the tree, leaf first |
| `result[w]` | how the call ended: normal return, early return, or which exception |
| `Call`, `CallWithConfiguration` | `__call__`; `collect_trust_chains` with the subject's signed configuration given |
| `FetchConfig`, `TryTenant`, `EmptyLeafPage`, `FetchFails` | `get_entity_configuration` with its two URLs and what its callers do with the answer |
| `EnterTree`, `NextAuthority`, `ReturnTree` | `collect_tree` and the head of `collect_branch` |
| `ReadStatement` ... `StoreTime` | `_get_entity_statement`, one action per access |
| `ReadConfig`, `Evict` | line 334, and the deletion inside `ESCache.__getitem__` |
| `Tick` | the system clock |

Abstractions. Hints are a set, visited in any order (the code visits a list in
its order, so each of its runs is a run of the model). An entity publishes the
same hints and endpoints in every document; only `exp` changes. Documents carry
`exp`; a document that fails to verify is one that could not be had
(`FetchFails`). The caller of `collect_trust_chains` may replace the hints of a
given configuration; the model takes the published ones. `seen` of a call is
empty, as every caller in the repository leaves it. Every statement has an `exp`: the code
stores one without it under its first key, unverified, and raises a `KeyError` at the second
(`trust_chain_collector.py:296-297`). `get_chain` is in `Resolver`;
`get_metadata`, a second reader of the configurations, is left out.

### Resolver

`entity/server/resolve.py` on top of the collector: `process_request` collects, verifies
and applies policies, picks the first chain to the anchor it was asked about, and then does
not answer with what it verified. `get_chain` reads the documents out of the caches again,
one after the other, while time passes and other requests use them.

| model | code |
|---|---|
| `phase[w]` | where a worker is in `process_request` |
| `picked[w]`, `answer[w]` | `iss_path` of the chain, and the documents `get_chain` has found, as their expiry times |
| `Resolve`, `Pick`, `Refuse` | lines 28-49: collection, the choice, no chain or an exception |
| `LookUpConfiguration`, `EvictConfiguration` | the subject's configuration; reading one that is too old deletes it, and `None['_jws']` raises |
| `LookUpStatement`, `Link` | the loop of `get_chain` over the pairs of the path |
| `Answer` | lines 51-59 |

Verification and policies let any of the chains through: what they refuse is the business
of the modules about them. As the code has it: the subject's own configuration is used by
collection until `exp + delta`, but given out by the cache only until `exp - delta`, so
that resolving near the expiry fails once and then fetches it anew; statements are given
out whatever their age; `with_ta_ec` is never passed; no chain to the anchor ends in an
`AttributeError`. With several threads a deletion of another (`trust_chain_collector.py:276`)
may leave `None` in the answer, as it may end a collection.

### MCTrustChainCollector and MCResolver

`Ladder` is a leaf, an intermediate and an anchor: a call that stops at the intermediate
returns another chain than one that does not, so that an answer shows whose `stop_at` it
was made with. The resolver's federation has everything a
climb can meet: a leaf below the anchor directly and through an intermediate, which also
names a superior without fetch endpoint; an anchor that hints at itself; and `loop`, which
hints at itself and at the leaf, an entity that is no `federation_entity`, and is where the
recursion limit is met.

### Constraints and ConstraintsCheck

`Constraints` has the functions of `entity_statement/constraints.py` as operators;
`MeetsRestrictions` is what the verifier calls. `ConstraintsCheck` runs the loop
over the statements of one chain, a statement per step.

| model | code |
|---|---|
| `MoreSpecific`, `Covered` | `more_specific`, and the loops of `excluded` and `permitted` |
| `UpdateSpecs`, `AddConstraints`, `UpdateNamingConstraints` | the functions of these names (`update_specs` and so on) |
| `CalculatePathLength` | `calculate_path_length` |
| `loop` (`naming`, `length`, `verdict`) | the locals of `meets_restrictions`; `"fails"` is `return False`, `"raises"` a `KeyError` |
| `CheckSuperior`, `CheckLeaf` | the body of its loop; what follows the loop |

Abstractions. A name is the sequence of its labels, last label first, and a
leading dot an empty label. An entity ID is an http or https URL; the parsing of
other schemes is left out. Lists of names are sets. `MeetsRestrictions` is a recursive
function over the chain, for the verifier, with the same operators for the loop's body as
the machine.

As the code has it, without a run of its own: `max_path_length` is not counted down along
the chain, because `max_assigned` never becomes true (line 132); a narrower exclusion further down
replaces the superior's (line 72), so `SoleExclusionHolds` is about chains with
one list; a statement without constraints is passed over before its subject is
checked (line 142); a statement with only one of the two lists raises `KeyError`
when the other is already set (line 88).

### ChainProcessing

A chain whose signatures are good goes through `meets_restrictions`, at the end of its
verification, and then through `apply_policies`: the machine of `ConstraintsCheck` runs until
its verdict, and that of `TrustChainPolicy` only if the chain is accepted. `Verified` says which
chains there are, as a pair of what each of the two modules sees of the statements. Nothing is shared
with other threads here.

### TrustChainVerifier

| model | code |
|---|---|
| `keyjar[e]` | the federation entity's key jar: the keys it has for issuer `e` |
| `trust_anchors` | `TrustChainCollector.trust_anchors` |
| `chain[w]`, `pos[w]` | the chain a thread verifies, and the statement it is at |
| `todo[w]`, `extra[w]` | the chains `verify_trust_chains` has not started on; the statements it appends to each |
| `verified[w]`, `refused[w]`, `result[w]` | chains the call returns, chains it does not, how it ended |
| `Verify`, `Return` | `verify_trust_chains` |
| `StartChain` | `__call__`, and `trusted_anchor` on the first issuer |
| `VerifyStatement` | one turn of `verify_trust_chain`'s loop |
| `CheckRestrictions` | the call of `meets_restrictions` and what is done on its answer |
| `AddTrustAnchor` | `TrustChainCollector.add_trust_anchor` |

Threads interleave between statements. Reading an issuer's keys and adding
those of the subject is one step: the jar only grows and a thread adds what it has
not seen there, so another thread in between can at most make it add a key twice. A statement is a
JWT signed with one key; keys are model values and a subject's key set a set. An
exception ends the whole call, the chains not yet looked at with it, as in
the code. What a chain records of its expiry (`trust_chain_expires_at`) is left out.
An empty key set (`jwks: {"keys": []}`) is treated like a missing claim, which ends the call
where the code goes on without a key; either way nothing comes into the jar.

As the code has it, without a run of its own: any issuer in the key jar counts as a trust
anchor (`verifier.py:28`), and verification fills that key jar, so that a truncated chain is
accepted once another has put the intermediate's keys there. `VerifiedChainsAreRooted` is
what is left: its keys lead back to an anchor all the same.

### MetadataPolicy and TrustChainPolicy

`MetadataPolicy` has the operators on one claim: joining two policies (`Combine`,
`CanCombine`) and applying one (`Applied`, `Adheres`). `TrustChainPolicy` is
`_policy` for one chain and one entity type.

| model | code |
|---|---|
| `chain` | the statements above the leaf's own, their `metadata` and `metadata_policy` for the entity type |
| `leaf` | the leaf's own metadata of that type, in the verified statement |
| `rule`, `pos` | `_rule` of `gather_policies`, and the statement it has come to |
| `metadata`, `todo` | what `apply_metadata_policy` works on, and the claims it has still to visit |
| `FirstStatement`, `NextStatement` | `gather_policies` |
| `NotOfType`, `StartApplying` | `_policy` on a leaf without that type; the head of `apply_policy` |
| `ApplyClaim` | one turn of `apply_metadata_policy`: all operators on one claim, in their order |
| `NoSuperior` | `__call__` on a chain of one statement |

Abstractions. A list is the set of its members, a single value a model value.
Where the code makes a set of a single string it gets the string's characters; the
model has `{Character}`, which meets no list of values. No value of a claim
is the name of an operator (`policy_operator.py:84` looks for the value among
the operators' names). Claims are visited in any order; the code's order is that of
a Python set. As the code does, `ApplyClaim` writes into the verified
statement unless superiors gave metadata, also when an operator raises.

As the code has it: a subordinate's `value` is not compared with a superior's `subset_of` or
`one_of` and replaces what it allows (line 153; run `policy_value`). Without a run: `superset_of` lists are
intersected, which loosens them; the first statement's own overlap of metadata and policy is
not looked at; the leaf's own metadata wins over what superiors say of
it (`apply_policy` updates the superiors' metadata with the leaf's); operators in
groups other than those of `FitTogether` are not compared.

### TrustMarks

An issuer (`trust_mark_entity/`) with one of the two stores, and an entity that verifies a
mark and asks the issuer about it (`FederationEntity.verify_trust_mark`,
`entity/function/trust_mark_verifier.py`). The issuer's threads share the record; it may
dump and load it, crash and restart, and change its key.

| model | code |
|---|---|
| `issued`, `dumped` | the files of `FileDB` or the dictionary of `SimpleDB`; what `dump_trust_marks` returned |
| `Create`, `Add`, `Sign` | `create_trust_mark`: the clock and the specification, the record, the signature |
| `FileFind`, `Find`, `List`, `ListOf` | `find` and `list`; a file is read backwards and the first line that has expired ends the search |
| `Crash`, `Survivor` | the end of the process: files stay |
| `StatusOfMark`, `Status` | the status endpoint asked about a mark, or about a subject and an identifier |
| `VerifyTrustMark` ... `CheckSignature` | `verify_trust_mark` and `TrustMarkVerifier`, one action per read of stored chains, clock or key jar |
| `AnswerStatus`, `TakeStatus` | the question to the issuer: when it is answered, and when the answer, an error or nothing arrives |
| `check` | `check_with_issuer`: if it is false nobody is asked and the mark is accepted |
| `LoadIntoFile`, `LoadIntoMemory` | `load` of the two stores: a file is added to, memory is replaced |
| `DelegationMayRaise` | `verify_delegation`: a bad delegation is a warning, but the owner's metadata may not be had |

Abstractions. `find` is never called with `iat`. The mark's own content is its identifier,
subject and expiry. A caller's own `exp` and self-signed marks are left out.

As the code has it: `find` is right only while lines are in the order of expiry, which
threads that append out of order, or an old dump loaded again, may break
(`GoodMarksAreActive` is about lines in order); the issuer is asked about a subject and an identifier,
not about the mark, so that its answer may be about another mark of the two or about one that has
expired meanwhile; `SimpleDB` keeps one mark per identifier, raises on the
second, on an unknown identifier and does not look at `exp`; `FileDB.list` lists who has
expired; a mark is on record before it is signed; keys the issuer no longer uses stay in the
verifying entity's key jar; an anchor that was stored long ago makes it reject genuine marks; a
mark that does not verify is `None`, and asking about `None` is a `TypeError`.

### Superior and Federation

`Superior` has the records of subordinates and the policies of a superior, with the fetch and
list endpoints that read, and in the case of fetch write, them. `Federation` has an entity
whose threads search the tree (`who.py`, `FederationEntity.trawl`) and request trust marks
(`entity/client/trust_mark.py`), over one client context, one cache and one store of chains.

| model | code |
|---|---|
| `subordinate`, `written`, `policy` | `server.subordinate`, what fetches left in a record, `server.policy` |
| `StatementPolicy`, `Fetch` | `Fetch.process_request`: the policy in the statement, which is written to the record |
| `Subordinates`, `OfType`, `Intermediates` | `List.process_request` |
| `issuer`, `About` | `client.context.issuer`, which every `do_request` sets |
| `stack`, `Descend`, `Configuration`, `ListTyped`, `ListIntermediates` | the calls of `trawl` and its requests |
| `Unreachable` | `get_verified_endpoint`, `get_response`: no endpoint, or nobody there |
| `Wanted` | `if credential_type:` of `who.py:67`; without one the answer is empty whatever was found |
| `Verify`, `Whose`, `StoreFound`, `Drop` | the loop of `who.py` over what was found: `get_verified_metadata`, with the chains on store or new ones; no metadata is a `TypeError`, metadata of another type a `KeyError` (`who.py:71`) |
| `LookForMarks`, `CheckMark`, `Answer` | the second loop of `who.py`, `verify_trust_mark`, whose status request is about nobody (`client/__init__.py:296`) |
| `Evict` | `config_cache`, which drops an expired configuration when it is read |
| `RequestTrustMark`, `ReadIssuer`, `Collect` | `TrustMark.get_endpoint`, which reads the shared issuer three times |

The variables `steady`, `ever` and `overlapped` only observe: what was listed throughout a
search and at some time in it, and whether a request began while a trust mark was
requested. One trust mark stands for those of an entity.

As the code has it: `trawl` has no set of visited entities, so that in a circle of intermediates it
ends only at `RecursionLimit`, with a `RecursionError`; the keys of
an error answer are taken for entity IDs; an expired cached
configuration is a `TypeError`; the superior of the first level is the entity itself; overlapping
requests may store chains under another entity; a policy that the administrator took
back stays in the record; list looks at `entity_type`, fetch at `entity_types`.

### ClientRegistration

How an OpenID provider or an authorization server gets its clients: explicitly, or on the way in an
authorization request or a pushed one. Every access to the shared client database, key jar
and attributes of the federation entity is a step.

| model | code |
|---|---|
| `cdb`, `keyjar` | `context.cdb`, the server's key jar by client ID |
| `trust_chain`, `trust_chain_anchor` | the federation entity's attributes of these names |
| `chains[w]`, `client_id[w]`, `cinfo[w]` | the locals of a request |
| `Receive` | the look-up in `cdb` that decides whether to register |
| `Collect`, `Usable`, `Pick` | `get_verified_trust_chains`, `pick_trust_chain` |
| `NoteChain`, `ImportKeys`, `RegisterKeys`, `Setup`, `DoRegistration`, `AddSecret`, `StoreClient` | `do_automatic_registration`, `client_registration_setup`, `do_client_registration` |
| `KeysBy`, `Included`, `Import` | keys in the metadata, by `jwks_uri`, which may not load, or by `signed_jwks_uri`, which nobody follows |
| `Alias` | the second entry of a client whose ID was generated |
| `Authenticate` | what follows, the library's |

Abstractions. A chain is its subject, anchor, metadata and whether it verifies. A chain that a request
brings may be anybody's: nothing compares its subject with the client
(`oauth2/authorization.py:53-76`, `pushed_authorization.py:46-68`), so `ClientsComeFromVerifiedChains`
asks for a verified chain and not for the client's own.
Secrets and generated IDs are random, so no two are the same.
`save_trust_chains` and `find_client_keys` are left out.

As the code has it: explicit registration at an OpenID provider takes the metadata of the request and
not what the policies leave, and generates an ID, since `net_id` (`oidc/registration.py:82-86`)
is not read; a stub is stored before the request is checked (`oauth2/registration.py:357`)
and stays after a refusal, so that the next authorization request finds "some info" for a
client that is not registered, against the comment at `oauth2/authorization.py:92`; keys by
`signed_jwks_uri` are not imported (`get_verified_jwks` returns `None`, `function/__init__.py:183`), against
the comment at `authorization.py:72`, and a client whose keys could not be had is registered
all the same; two automatic
registrations of one client race, and a complete entry may be overwritten by a stub.

### RelyingParty

`appclient/`: provider info through the federation, registration, the redirect, the callback,
tokens, refresh, user info and the binding of a user to a session, by threads that share the client.

| model | code |
|---|---|
| `provider_info`, `registration_response` | of the context; a registration is the anchor the provider chose |
| `cstate[s]` | the entry of a session in `context.cstate` |
| `bound`, `logged_in` | `bind`s of `sub` to a state; who logged in there, at the provider |
| `Begin` ... `Bind` | `begin`, `do_provider_info`, `do_client_registration`, `init_authorization`, `finalize` |
| `NoResponseMode` | `init_authorization` without a redirect URI for the response type and mode |
| `Merged`, `Valid` | a token may come without an expiry: it then keeps the one on file, and without any it is valid for ever |
| `Accepts`, `Register` | `parse_federation_registration_response`, oauth2 and oidc |
| `Refresh`, `GetValidAccessToken`, `ClearSession` | the methods of these names |
| `HTTP`, `Parsed` | what may come back, and what the service makes of it |

As the code has it: whether the provider's chains verify is not looked at; own chains are counted to
all anchors; provider info is never refreshed; an exception in `_automatic_registration` leaves a session
behind; a callback that is under way brings a cleared session back; concurrent refreshes
store in the order of their answers; plain OAuth 2.0 without user info is a `KeyError`
(`stand_alone_client_entity.py:604`); `_use_pushed_authorization_endpoint` returns `None`.

### RegistrationAgreement and RegistrationExchange

`RegistrationAgreement` is what explicit registration promises: the client goes by an anchor
only if it trusts it and the server has it on file with metadata that a chain to that anchor
gives. `RegistrationExchange` puts a `RelyingParty` and the `ClientRegistration` of an
authorization server together: requests are posted to workers (`Send`), answers read (`GetAnswer`)
or lost (`Lose`) while the worker goes on, other clients register beside it. It is about
OAuth 2.0, where the response carries the registered metadata.

### EntitySetup

A program makes its entities one after the other (`utils.py`, `build_entity.py`,
`defaults.py`, `combo/`), from descriptions that are module globals and are written to.

| model | code |
|---|---|
| `shared`, `own` | `kwargs` of the descriptions in `defaults.py`, and of those a caller brings |
| `dictionary`, `holds[e]` | which dictionary of trust anchors the collector's description has, and which the collector of `e` has |
| `trusted[d]` | what is in a dictionary: that of `defaults.py` (`Standard`) or one of a caller (`Brought`, at first `Contents`) |
| `order[e]` | the arguments of `make_federation_entity` or `make_federation_combo` |
| `Add`, `Choice`, `Written` | `add_services`, `add_functions`, `add_endpoints` |
| `Instantiate`, `Works` | `FederationEntity`, and the client or server beside it |
| `Attach`, `HandOver`, `AddTrustAnchor` | anchors and trust mark endpoints that come later |
| `hand` | how a caller brings anchors: as an argument of the collector (`"init"`), or to `make_federation_entity` or `make_federation_combo` (`"make"`) |

Dictionaries of anchors are kept by reference throughout (`trust_chain_collector.py:78`,
`utils.py:145`, `:237`), so that a caller who brings one dictionary to several entities makes them share it,
as `tests/xtest_57_metadata_verification.py:67-169` does.

Abstractions. The library instantiates a component with a shallow copy of its `kwargs`, values by
reference. `given` only observes. Subordinates and persistence are left out, and so are descriptions
that lack `kwargs` and what an entity says of itself (section 7).

As the code has it: a failed entity's writes stay in the shared descriptions; `item_args` count for
endpoints only; `services == []` is tested for every kind; an entity without endpoints is an
`AttributeError`; an OAuth 2.0 client that names no services works only if its client type is an
argument; an entity whose caller asks for nothing gets what an earlier caller wrote.

### Proof modules

See section 6. `TrustChainVerifierProofs` is about `ConstraintsCheck` too, and
`RegistrationExchangeProofs` about `RelyingParty`, whose specifications they extend.

## 4. Runs

| run | question | result |
|---|---|---|
| `collector_threads` | two threads on `Ladder`, where the two `stop_at` give different chains | each call still answers its own question (`ImplementsChainCollection`) |
| `resolver` | one thread of a resolver, five entities, a running clock | collection implements its promise, uses no stale statement and ends; the chain put together from the caches is whole |
| `verifier_threads` | two threads, complete and broken chains, a rotated key, an anchor added meanwhile | all keys lead back to configuration, no complete chain is refused, no verdict is taken back |
| `chain_processing` | constraints, all chains of up to three statements with lists of names, and policies, chains of up to three superiors with 20 policies for a claim | what a superior permits binds every subject checked below it; a sole exclusion holds; bounds, essential claims and superiors' metadata stand |
| `policy_value` | does a subordinate's policy only restrict? | **no**: see section 5 |
| `registration` | two workers, two clients, both kinds of server, all kinds of request, chains collected or brought, a client's own or another's | clients come from verified chains, have the keys their metadata includes, their secrets work, answers name their own anchor, aliases agree |
| `relying_party` | two threads, two sessions, two users, tokens with and without an expiry | tokens stay with their session and are kept, users find their own session, nobody is sent unregistered |
| `trust_marks` | two issuing threads, one verifier, both stores, crash, load, key change | what is handed out is on record and, while lines are in order, active; what is accepted is genuine |
| `federation` | a search, two requests for trust marks, a federation that changes and may have a circle | searches find what was there throughout, and end, in a circle too; requests go where asked |
| `registration_exchange` | two threads of a client, two workers, lost answers | the exchange implements the agreement; users are sent to who knows the client |
| `entity_setup` | three entities, 15 orders, dictionaries of the callers' own | arguments are heeded, anchors spill only through a dictionary that both entities hold |
| `entity_setup_spill` | does an entity trust what it was given, and no more? | **no**: see section 5 |

**Bounds.** *Collector and resolver*: `MaxTime`, `MaxCalls`, `Lifetimes` and
`RecursionLimit`. A lifetime of 2 and a delta of 1 give a document that is fresh, too old for
the caches and expired within two or three ticks, so each boundary is met between two calls and
inside one. `resolver` gives its thread two calls, one to fill the caches and one to use them, and a
`MaxTime` of 2, which is where a cached document expires but not where a configuration in hand is
`TooOld`; `collector_threads` gives each thread one call and a `MaxTime` of 3, which is. The recursion
limit is not below the longest simple path and is reached in `loop`. *Constraints*: three statements,
since a list may be set, narrowed and applied; two siblings and the domain above them, written
with its leading dot; a path length below zero, which the loop refuses. `chain_processing` has each of
these chains without policies and each of the policies' chains without constraints: the verdict is all that
passes from one to the other. *Verifier*: `MaxCalls` of 2 per thread, so that each meets a key jar it and another
thread have changed; chains of two and three statements, complete, truncated, empty, without
keys, with a wrong key, with the old and the new key of the intermediate, and one the
constraints refuse. *Policy*: three superiors, because what the combination of the first two
drops is met by the third; each operator alone and the pairs that are and are not compared.
*Registration*: one request per worker (`MaxCalls`), since two workers make every race of two
requests; four answers to one client's collection (none, one of two that verifies, two anchors of
which the second has priority, one that is refused late) and three to the other's (metadata that does not
verify, a `jwks` without keys, a `signed_jwks_uri`); brought chains of the client's own and
of the other's. *Relying
party*: `MaxLogins` and `MaxCalls` of 2 and a token that lives one tick, so that a
callback, a refresh and a check can be of another session, and a token can expire. *Trust
marks*: `MaxLines`, `MaxMarks`, `MaxKeys` and `MaxTime` of 2: two lines in or out of order, one of
them expired, and a mark signed with the old key. *Federation*: one operation per thread
and a `MaxChanges` of 1: what two changes would have to build is a federation the run starts with,
an entity registered with two superiors or two intermediates in a circle, and the one change adds or takes
something away while a search is under way (`SearchesFindEverything` is proved for any number). The
recursion limit is not below the longest simple path and is reached in the circle.
*Exchange*: two logins and one request per worker, so that an answer can be lost and the
registration tried again. *Setup*: three entities: one that writes to a description, one that
keeps it, and one that meets what both left. Symmetry is declared where constants are
interchangeable and no property is temporal with fairness. The runs end when calls are used up
or the chain is done, hence `CHECK_DEADLOCK FALSE`.

**Fairness.** `ResolverSpec` asks weak fairness of each thread's next step inside a request, and
`Federation` of each thread's `Step`: threads are scheduled by the operating system, and an
HTTP exchange ends with an answer, an error or a timeout. No fairness is asked of the
clock, of callers, of caches that age or of administrators. The other specifications state
safety only.

## 5. Findings

1. The empty dictionary of trust anchors in the collector's default description
   (`defaults.py:195`) is handed by reference to every entity made without anchors of its own
   (`trust_chain_collector.py:78`), and `init_kwargs` or `add_trust_anchor` writes to it: an anchor given to one
   entity is trusted by all of these. A dictionary of a caller's own is shared in the same way by all
   entities it is brought to (`utils.py:145`, `:237`). `tests/test_41_federation_entity.py:370-376` works around
   it ("some strange spill over"). `entity_setup_spill` finds it;
   `AnchorsSpillOnlyThroughDictionaries` shows that anchors pass only between entities that hold one
   dictionary, the default one or a caller's.
2. "Applying the child policy can only make the combined policy more restrictive", says the docstring at
   `entity/function/policy.py:115`. A child's `value` is not compared with a superior's `subset_of` or
   `one_of` (`:153`), and when policies are applied it is taken before the bounds, which are then not looked
   at (`policy_operator.py:32`): the claim gets a value that the superior's bound rules out. `policy_value`
   finds it (`ChildrenOnlyRestrict`). `SuperiorsNarrow` is about claims for which nobody gives a value.

Seen while modelling, in the model as in the code, and without a run:

* a cached statement is used without its issuer's configuration
  (`trust_chain_collector.py:334`);
* the age test of a cached statement reads the time separately from the statement (`:268`, `:275`),
  so that with two threads a stale one passes; an eviction between two reads ends a request;
* loops in the hints are logged and followed (`:258`); `max_superiors` is not enforced, the
  comparison being commented out (`:327`);
* `max_path_length` is never counted down: `max_assigned` stays false (`constraints.py:132`), against the
  docstring at `:124`;
* a refused registration leaves a stub (`appserver/oauth2/registration.py:357`), which the next
  authorization request takes for a client, against "If this is a registered client then this should
  return some info" (`appserver/oauth2/authorization.py:92`);
* `signed_jwks_uri` is never followed (`entity/function/__init__.py:179-183`), against the comment at
  `appserver/oauth2/authorization.py:72`;
* `find` ends at the first line that has expired (`trust_mark_entity/__init__.py:41`), so that with lines
  out of order it does not "Get the last issued" (`:35`);
* the issuer is asked about a subject and an identifier and not about the mark, against the comment at
  `entity/__init__.py:352`;
* what section 3 lists under "as the code has it" for each module.

These have no run of their own: each is one comparison or one missing statement that reading the
line shows, and the properties state what holds beside them.

## 6. Proofs

TLC checks the runs' instances; the theorems hold for every value of the
constants that satisfies the named assumption of the module.

`TrustChainCollectorProofs` (`ConstantsAssumption`: any set of
threads, any federation, any recursion limit and delta).

* `TypeCorrect`, `ChainsAreWellFormed`: `TypeOK`, the bound on the recursion
  included, and `ChainsWellFormed`. Neither is inductive alone. `IInv` adds
  `ControlOK` (outside a call there are no frames; inside a branch the authority is a
  hint of the top frame's entity) and `ClimbOK` (the frames are a climb from the
  subject that has not met `stop_at`). A chain is made from the frames, so `ClimbOK`
  is what makes it well formed, and `ControlOK` is what makes pushing the next frame
  preserve `ClimbOK`. Three lemmas (`MoveOn`, `CallEnds`, `BranchIsNone`) cover the
  shapes most actions have.
* `SingleThreadHasNoRace`, `SingleThreadStatementsAreFresh`: with one thread,
  `NoRaceCrash` and `CachedStatementIsFresh`. The invariant `SoloIInv` says that the
  two entries of a statement are equal except between their two stores or their two
  deletions. The assumption is needed: two threads may read
  the statement and its time at different moments.
* `OneThreadAnswersInFull`: `AnswersHaveEveryDocument` of `Resolver`, with one thread.
  `DocumentsOK` follows what a chain needs through collection: the statement of each link of
  each frame and chain is in the cache, except the one the branch is about to fetch again
  (`AtHand`), and that one comes back before the branch goes on, because only entities
  with a fetch endpoint ever had one (`PublishersOnly`). `ResolvingOK` carries it from there to
  the end of `get_chain`.
* `CollectorImplementsCollection`, `ResolverImplementsCollection`: the collector implements
  `ChainCollection` for any number of threads, called by itself or under the resolver.
  The invariant `CollectedOK` is what a depth-first climb keeps: no chain of the tree is one that
  `ChainsOf` has not (`NoneInvented`), and each one of `ChainsOf` is in the tree or ahead of the climb
  (`NoneForgotten`, `ToCome`): it begins with the entities of some of the frames and goes on with a
  hint that the last of them has yet to visit, or with the branch the worker is in. `FramesAnswer` and
  `BranchAnswers` say that the climb only goes through authorities that answer; for a statement
  taken from the cache that is `PublishersOnly` again, which is why it does not matter what other threads do
  to the caches. When the last frame is done nothing is ahead, so that the two sets are
  equal: the step is `Answer`. All other ends of a call are `Fail`, and everything in between
  is a stutter (`StepSimulates`).

`TrustChainVerifierProofs`, the loop of the constraints (`ChainsAssumption`: any names, chains of
any length).

* `CheckedStayPermitted`: `CheckedArePermitted`. What the loop has of permitted names
  changes with each statement; the invariant says that whatever it covers now, the
  first list covers too (`PermittedNarrows`), and that the subjects it has checked
  are covered by that list (`PermittedSoFar`). Both rest on the transitivity of
  being more specific.
* `SoleExclusionStays`: `SoleExclusionHolds`. From the one statement that excludes names on,
  what the loop excludes is that statement's list, because no other writes to it.

`TrustChainVerifierProofs`, the verifier (`VerifierAssumption`: any threads, statements, requests,
anchors).

* `KeysLeadBack`, `VerifiedLeadsBack`: `Rooted` is the least set that has the
  configured keys and is closed under signed statements; the key jar stays inside
  every closed set. For chains, each statement a thread has passed was signed with a
  key of that set, which the jar, growing only, does not lose.
* `CompleteChainsPass`: in a complete chain the key of the next statement is always
  in the jar, because the thread itself has put it there and nobody removes it.
* `VerdictsStayTheSame`: every key that verified a chain is still in the jar, so a
  thread that meets the chain later cannot refuse it for a key; `TypeCorrect`.

`TrustChainPolicyProofs` (`PolicyAssumption`: any claims, values, policies; chains of
any length).

* `SuperiorsBoundTheLeaf`, `FirstValueIsTheClaims`, `EssentialClaimsAreThere`,
  `SuperiorsDoNotDisagree`: the policy properties of `chain_processing`, and, without a run, that
  the first value given in a chain is what the leaf gets, whatever bounds others set. The invariant has
  two halves. `RuleKeeps`: for every statement gathered so far the rule has bounds no
  wider (unless there is a value), its value if it is the first, essential or a value
  instead of it, and its metadata. `VisitedAreContent`: a claim that has been visited
  has a value its policy is content with. The lemmas `CombineNarrows`,
  `CombineKeepsValue` and `CombineKeepsEssential` say what joining two policies
  preserves, `AppliedAdheres` and `ValuesStay` what applying one gives.

`ClientRegistrationProofs` (`RegistrationAssumption`: any workers, clients, chains,
requests and configurations).

* `TypeCorrect`; `RegistrationNeedsAChain`, `RegistrationBringsKeys`, `SecretsKeepWorking`,
  `AnswersAreTrue`, `AliasesStayAlike`: the five properties of `registration`. `RegistrationNeedsAChain` is
  about a verified chain, collected or brought with a request, with the metadata of whoever its subject is;
  `RegistrationBringsKeys` about keys that the metadata includes. The invariant
  has a part per worker, `WorkerOK` (what its locals are at each label: the chains it picked
  from verify, its keys are in the jar, its entry has its own secret), and a part about
  the database, `DatabaseOK`. A worker's step keeps the others' part because it writes nothing
  they have promised (`OthersStayOK`, `WorkersAreAlone`); it keeps the database's because what it stores is
  what its own part says (`WriteIsOK`, `SetupKeepsDatabase`, ...). That generated IDs and secrets are
  a worker's own (`WritesOwnToken`) is what keeps races apart.

`RegistrationExchangeProofs`, the client alone (`RelyingPartyAssumption`: any threads, users,
anchors, bounds).

* `TypeCorrect`; `TokensStayWithTheirSessions`, `BindingsAreTrue`, `OnlyTheRegisteredSend`,
  `TokensGoWithTheSession`: the four properties of `relying_party`. Four
  lemmas say how any step may change the tokens, the outcomes, the keys of threads and the rest
  (`TokensMove`, `OutcomesMove`, `KeysMove`, `RestMovesSo`); the invariant adds that a
  session a thread works on has begun, and that who is sent was registered with trust.

`RegistrationExchangeProofs`, client and server (`ExchangeAssumption`).

* `ExchangeImplementsAgreement`: `ExchangeSpec` implements `RegistrationAgreement`, with
  the anchors through which the server has the client on file as `offered` and the client's
  `registration_response` as `accepted`. It rests on the invariant of
  `ClientRegistrationProofs`, carried over to the server inside the exchange
  (`ServerSteps`): a registration stands once it can be seen, so offers only grow, and a
  success is an offer of the anchor it names (`SuccessIsAnOffer`), also when the answer is
  read long after.
* `SentUsersAreKnown`: `UsersAreSentToWhoKnowsTheClient`, from the same invariant.

`TrustMarksProofs` (`TrustMarksAssumption`: any threads, identifiers, subjects, forgeries that
bear no key of the issuer's, and what collecting its chains may give).

* `TypeCorrect`, `HandedOutIsOnRecord`, `AcceptedIsGenuine`. The invariant adds to `TypeOK`
  what the steps in between need: `Recorded` (a mark a thread is about to sign is on record
  already, and a dump of memory has no more than memory) and `Genuine` (a mark that is looked
  at turned up, and from the check of the signature on it is one that was signed). Files only
  grow, whatever is loaded (`RecordGrows`); the key jar has keys the issuer has had and
  a forgery bears none (`CheckSignatureStep`).
* `InOrderGoodIsActive`: for files of any length whose lines are in the order of expiry, which is
  where the order is needed.

`FederationProofs` (`FederationAssumption`: any threads, entities, federations and numbers of
changes, any limit of recursion; every federation stays within `Hierarchy`, which may have circles and is
the bound on what can be found).

* `SearchesFindEverything`: `SearchesAreComplete`, the empty answer to a search without a credential type
  included. `SearchInv` has, beside types and the shape of
  the stack of `trawl` (`Stacks`), what relates a search to a federation that changes under it:
  `Observed` (what is listed now was listed at some time, and includes what was listed
  throughout), `Covered`, `Bounded` (nothing else is ever found or visited) and `Keeps`.
  `Covered` is what makes it work for every shape of federation: there is a set of entities the
  search has gone through, for which it has found all that was listed throughout, and whoever should be
  in that set and is not is still ahead on the stack. When nothing is ahead the set is closed,
  and so has all that can be found.
* `RequestsGoWhereAsked`: `TrustMarkRequestsGoWhereAsked`. While nothing overlaps, the context's issuer
  is the one of the only thread that is between setting it and reading it (`OneThing`, `Straight`).
* `FederationTypes`.

`EntitySetupProofs` (`SetupAssumption`: any entities, descriptions, anchors and orders).

* `ArgumentsReachTheirEntity`: `ArgumentsAreHeeded`. What a caller wants is in the descriptions until the
  components are made (`Heeded`): entities are made one after the other (`InTurn`), so that nobody
  else writes in between, and of what is still to be added nothing was written before (`NotYet`).
* `AnchorsStayInTheirDictionary`: `AnchorsSpillOnlyThroughDictionaries`, with dictionaries by reference.
  `TrustedIsGiven` says that a dictionary has what it had at first and what was given to the entities that
  hold it, and nothing else, through hand-overs and later additions. `SetupTypes`.

Only model-checked: termination of collections and of searches (liveness).

## 7. Not modelled

* Statement files (`fetch_entity_statement/`): a helper of the tests.
* Field types, critical extensions, signatures and wire formats of messages
  (`message.py`): what a module needs of a message is modelled there, as whether it can be read.
* Building of URLs and queries, and response headers: formatting.
* Key material, persistence and HTTP parameters of entities; what an entity says of itself, in its
  configuration and in registration requests (`entity_statement/create.py`, `entity/context.py`).
* `get_metadata` of the collector, the list endpoint's filter by trust marks, the loop of
  policies over entity types, self-signed trust marks, logout: see the components' notes in
  `PROJECT.json`.
