------------------------- MODULE TrustChainCollector -------------------------
(***************************************************************************)
(* entity/function/trust_chain_collector.py and entity_statement/cache.py: *)
(* the threads of one service climb the authority hints of an entity,      *)
(* depth first, and share two caches and a clock.  Every access to a cache *)
(* and every HTTP exchange is a step of its own, so calls interleave the   *)
(* way Flask's request threads do.                                         *)
(*                                                                         *)
(* A document is represented by its expiry time: what else it says (hints, *)
(* fetch endpoint) is a function of its issuer.  Signatures verify; a      *)
(* document that does not verify counts as one that could not be had.      *)
(***************************************************************************)
EXTENDS Integers, Sequences, FiniteSets

CONSTANTS
  Workers,             \* threads of the service that call the collector
  Entities,            \* entity IDs
  TrustAnchors,        \* configured trust anchors
  FederationEntities,  \* entities with federation_entity metadata
  Publishers,          \* those of them whose metadata names a fetch endpoint
  Undated,             \* entities that may issue statements without exp
  Tenants,             \* entities with a second, tenant, well-known URL
  Hints,               \* Hints[e]: the authority_hints e publishes
  NoEntity,            \* the empty entity ID, stop_at's default
  Subjects,            \* the entities that callers ask about
  StopAts,             \* the values of stop_at that callers pass
  Lifetimes,           \* lifetimes, in ticks, that issuers give documents
  AllowedDelta,        \* allowed_delta of the collector and of both caches
  RecursionLimit,      \* depth at which the interpreter raises RecursionError
  MaxTime,             \* bound: the clock stops here
  MaxCalls             \* bound: calls per worker

ASSUME ConstantsAssumption ==
  /\ TrustAnchors \subseteq Entities
  /\ Publishers \subseteq FederationEntities
  /\ Undated \subseteq Entities
  /\ FederationEntities \subseteq Entities
  /\ Hints \in [Entities -> SUBSET Entities]
  /\ NoEntity \notin Entities
  /\ Subjects \subseteq Entities
  /\ StopAts \subseteq Entities \cup {NoEntity}
  /\ Lifetimes \subseteq Nat \ {0}
  /\ AllowedDelta \in Nat
  /\ RecursionLimit \in Nat \ {0}
  /\ MaxTime \in Nat
  /\ MaxCalls \in Nat

VARIABLES
  now,              \* the clock, in ticks
  config_cache,     \* exp of the cached configuration of each entity
  statement_cache,  \* entity_statement_cache at cache_key: exp in the JWT itself
  time_cache,       \* entity_statement_cache at time_key: the exp stored beside it
  pc,               \* where each worker is
  subject,          \* entity_id of the call
  stop_at,          \* stop_at of the call
  stack,            \* collect_tree frames: the entity and the hints still to visit
  authority,        \* collect_branch's authority
  statement,        \* entity_statement, the local variable
  chains,           \* chains of the tree built so far
  result,           \* how the worker's last call ended
  calls             \* calls made, for the bound

caches == <<config_cache, statement_cache, time_cache>>
call == <<subject, stop_at, calls>>
vars == <<now, config_cache, statement_cache, time_cache, pc, subject, stop_at,
          stack, authority, statement, chains, result, calls>>

NoEntry == 0    \* a key that is not in the cache; an expiry time is positive
Pairs == Entities \X Entities                        \* <<authority, entity>>
Frames == [entity : Entities, todo : SUBSET Entities]

FetchingConfig == {"fetch_config", "fetch_config_tenant"}
Labels == FetchingConfig \cup
  {"idle", "collect_tree", "loop", "read_statement", "check_time",
   "delete_statement", "delete_time", "find_endpoint", "evict_then_fetch",
   "fetch_statement", "store_time", "read_config", "evict_then_tree"}

\* "tree" is a normal return, "no_leaf_configuration" the early return of
\* __call__; each other value is an exception that ends the request.
Results == {"none", "tree", "no_leaf_configuration", "failed_retrieval",
            "no_configuration", "bad_metadata", "no_time_key", "missing_key",
            "recursion"}

-----------------------------------------------------------------------------
(* Freshness, as its three readers decide it.                              *)

\* ESCache.__getitem__ on a dictionary
Fresh(exp) == exp # NoEntry /\ now < exp - AllowedDelta

\* _get_entity_statement on the expiry time found at the time key.  The variant
\* adds allowed_delta instead of subtracting it.
TimedOutLate(exp) == now > exp + AllowedDelta
TimedOut(exp) == now > exp - AllowedDelta

\* TrustChainCollector.too_old, on the configuration of the subject
TooOld(exp) == now >= exp + AllowedDelta

-----------------------------------------------------------------------------
(* The worker's place in the recursion.                                    *)

Top(w) == stack[w][Len(stack[w])]
Path(w) == [i \in 1..Len(stack[w]) |-> stack[w][i].entity]
Seen(w) == Append(Tail(Path(w)), authority[w])      \* _seen in collect_branch
Key(w) == <<authority[w], Top(w).entity>>

\* The entity whose configuration the worker is after.
Wanted(w) == IF stack[w] = <<>> THEN subject[w] ELSE authority[w]

\* collect_tree returns at once: no hints, or stop_at is reached.  The variant takes the
\* stop_at of whichever call is running.
AtEndOfAnyCall(w, e) == Hints[e] = {} \/ \E v \in Workers : pc[v] # "idle" /\ e = stop_at[v]
AtEnd(w, e) == Hints[e] = {} \/ e = stop_at[w]

\* The interpreter refuses another frame.
TooDeep(w) == Len(stack[w]) = RecursionLimit

Goto(w, label) == pc' = [pc EXCEPT ![w] = label]

\* The call is over: a return, or an exception nobody catches.
Finish(w, how) ==
  /\ Goto(w, "idle")
  /\ result' = [result EXCEPT ![w] = how]
  /\ stack' = [stack EXCEPT ![w] = <<>>]

\* collect_branch returned None: the chain ends below the authority.  The variant
\* drops the branch instead.
NoBranchDropped(w) == Goto(w, "loop") /\ UNCHANGED chains
NoBranch(w) ==
  /\ chains' = [chains EXCEPT ![w] = @ \cup {Path(w)}]
  /\ Goto(w, "loop")

-----------------------------------------------------------------------------
(* __call__                                                                *)

Begin(w, e, s) ==
  /\ calls' = [calls EXCEPT ![w] = @ + 1]
  /\ subject' = [subject EXCEPT ![w] = e]
  /\ stop_at' = [stop_at EXCEPT ![w] = s]
  /\ chains' = [chains EXCEPT ![w] = {}]
  /\ result' = [result EXCEPT ![w] = "none"]

\* A configuration in the cache is used until allowed_delta past its expiry.
Call(w, e, s) ==
  /\ pc[w] = "idle" /\ calls[w] < MaxCalls
  /\ Begin(w, e, s)
  /\ Goto(w, IF config_cache[e] # NoEntry /\ ~TooOld(config_cache[e])
             THEN "collect_tree" ELSE "fetch_config")
  /\ UNCHANGED <<now, caches, stack, authority, statement>>

\* collect_trust_chains with a signed_entity_configuration: the caller brings
\* the subject's configuration, which is verified and not cached.
CallWithConfiguration(w, e, s) ==
  /\ pc[w] = "idle" /\ calls[w] < MaxCalls
  /\ Begin(w, e, s)
  /\ Goto(w, "collect_tree")
  /\ UNCHANGED <<now, caches, stack, authority, statement>>

-----------------------------------------------------------------------------
(* get_entity_configuration, for the subject and for an authority          *)

\* The document arrived and its signature is good.  An authority whose metadata
\* has no fetch endpoint is cached all the same, and its branch is None.
FetchConfig(w) ==
  /\ pc[w] \in FetchingConfig
  /\ stack[w] = <<>> \/ Wanted(w) \in FederationEntities
  /\ \E life \in Lifetimes :
       config_cache' = [config_cache EXCEPT ![Wanted(w)] = now + life]
  /\ \/ stack[w] = <<>> /\ Goto(w, "collect_tree") /\ UNCHANGED chains
     \/ stack[w] # <<>> /\ Wanted(w) \in Publishers
          /\ Goto(w, "fetch_statement") /\ UNCHANGED chains
     \/ stack[w] # <<>> /\ Wanted(w) \notin Publishers /\ NoBranch(w)
  /\ UNCHANGED <<now, statement_cache, time_cache, call, stack, authority,
                 statement, result>>

\* 404 at the well-known URL: try the tenant's, if that is another URL.
TryTenant(w) ==
  /\ pc[w] = "fetch_config"
  /\ Wanted(w) \in Tenants
  /\ Goto(w, "fetch_config_tenant")
  /\ UNCHANGED <<now, caches, call, stack, authority, statement, chains, result>>

\* An empty page about the subject makes __call__ return None.
EmptyLeafPage(w) ==
  /\ pc[w] \in FetchingConfig /\ stack[w] = <<>>
  /\ Finish(w, "no_leaf_configuration")
  /\ UNCHANGED <<now, caches, call, authority, statement, chains>>

\* No connection, an error status, a document that does not verify, or an
\* authority without federation_entity metadata: the exception ends the call.
FetchFails(w) ==
  /\ pc[w] \in FetchingConfig \cup {"fetch_statement"}
  /\ Finish(w, "failed_retrieval")
  /\ UNCHANGED <<now, caches, call, authority, statement, chains>>

-----------------------------------------------------------------------------
(* collect_tree                                                            *)

EnterTree(w) ==
  /\ pc[w] = "collect_tree"
  /\ LET e == Wanted(w) IN
     \/ /\ TooDeep(w)
        /\ Finish(w, "recursion")
        /\ UNCHANGED chains
     \/ /\ ~TooDeep(w) /\ ~AtEnd(w, e)
        /\ stack' = [stack EXCEPT ![w] = Append(@, [entity |-> e, todo |-> Hints[e]])]
        /\ Goto(w, "loop")
        /\ UNCHANGED <<chains, result>>
     \/ /\ ~TooDeep(w) /\ AtEnd(w, e) /\ stack[w] # <<>>
        /\ chains' = [chains EXCEPT ![w] = @ \cup {Append(Path(w), e)}]
        /\ Goto(w, "loop")
        /\ UNCHANGED <<stack, result>>
     \/ /\ ~TooDeep(w) /\ AtEnd(w, e) /\ stack[w] = <<>>
        /\ Finish(w, "tree")
        /\ UNCHANGED chains
  /\ UNCHANGED <<now, caches, call, authority, statement>>

\* The hints left to visit.  The variant visits the same one again.
NotVisitedAgain(w, a) == Top(w).todo
NotVisited(w, a) == Top(w).todo \ {a}

\* The loop over authority_hints: an authority in Seen only makes a log line.
NextAuthority(w, a) ==
  /\ pc[w] = "loop" /\ a \in Top(w).todo
  /\ stack' = [stack EXCEPT ![w][Len(stack[w])].todo = NotVisited(w, a)]
  /\ IF a = Top(w).entity /\ a \in TrustAnchors
     THEN NoBranch(w) /\ UNCHANGED authority
     ELSE /\ authority' = [authority EXCEPT ![w] = a]
          /\ Goto(w, "read_statement")
          /\ UNCHANGED chains
  /\ UNCHANGED <<now, caches, call, statement, result>>

ReturnTree(w) ==
  /\ pc[w] = "loop" /\ Top(w).todo = {}
  /\ IF Len(stack[w]) = 1
     THEN Finish(w, "tree")
     ELSE /\ stack' = [stack EXCEPT ![w] = SubSeq(@, 1, Len(@) - 1)]
          /\ UNCHANGED <<pc, result>>
  /\ UNCHANGED <<now, caches, call, authority, statement, chains>>

-----------------------------------------------------------------------------
(* _get_entity_statement                                                   *)

ReadStatement(w) ==
  /\ pc[w] = "read_statement"
  /\ statement' = [statement EXCEPT ![w] = statement_cache[Key(w)]]
  /\ Goto(w, IF statement_cache[Key(w)] = NoEntry THEN "find_endpoint" ELSE "check_time")
  /\ UNCHANGED <<now, caches, call, stack, authority, chains, result>>

CheckTime(w) ==
  /\ pc[w] = "check_time"
  /\ LET exp == time_cache[Key(w)] IN
     IF exp = NoEntry
     THEN Finish(w, "no_time_key")                  \* None - allowed_delta
     ELSE /\ Goto(w, IF TimedOut(exp) THEN "delete_statement" ELSE "read_config")
          /\ UNCHANGED <<stack, result>>
  /\ UNCHANGED <<now, caches, call, authority, statement, chains>>

DeleteStatement(w) ==
  /\ pc[w] = "delete_statement"
  /\ IF statement_cache[Key(w)] = NoEntry
     THEN Finish(w, "missing_key") /\ UNCHANGED statement_cache
     ELSE /\ statement_cache' = [statement_cache EXCEPT ![Key(w)] = NoEntry]
          /\ Goto(w, "delete_time")
          /\ UNCHANGED <<stack, result>>
  /\ UNCHANGED <<now, config_cache, time_cache, call, authority, statement, chains>>

DeleteTime(w) ==
  /\ pc[w] = "delete_time"
  /\ IF time_cache[Key(w)] = NoEntry
     THEN Finish(w, "missing_key") /\ UNCHANGED <<time_cache, statement>>
     ELSE /\ time_cache' = [time_cache EXCEPT ![Key(w)] = NoEntry]
          /\ statement' = [statement EXCEPT ![w] = NoEntry]
          /\ Goto(w, "find_endpoint")
          /\ UNCHANGED <<stack, result>>
  /\ UNCHANGED <<now, config_cache, statement_cache, call, authority, chains>>

\* get_federation_fetch_endpoint: an endpoint is only taken from a fresh entry.
FindEndpoint(w) ==
  /\ pc[w] = "find_endpoint"
  /\ LET exp == config_cache[authority[w]] IN
     \/ /\ Fresh(exp) /\ authority[w] \notin FederationEntities
        /\ Finish(w, "bad_metadata")                \* no metadata['federation_entity']
     \/ /\ ~(Fresh(exp) /\ authority[w] \notin FederationEntities)
        /\ Goto(w, IF Fresh(exp) /\ authority[w] \in Publishers THEN "fetch_statement"
                   ELSE IF exp # NoEntry /\ ~Fresh(exp) THEN "evict_then_fetch"
                   ELSE "fetch_config")
        /\ UNCHANGED <<stack, result>>
  /\ UNCHANGED <<now, caches, call, authority, statement, chains>>

\* get_entity_statement, and the first of the two stores of its answer.
FetchStatement(w) ==
  /\ pc[w] = "fetch_statement"
  /\ \E life \in Lifetimes :
       /\ statement_cache' = [statement_cache EXCEPT ![Key(w)] = now + life]
       /\ statement' = [statement EXCEPT ![w] = now + life]
  /\ Goto(w, "store_time")
  /\ UNCHANGED <<now, config_cache, time_cache, call, stack, authority, chains, result>>

\* The second store.  statement["exp"] raises on a statement without exp, which is in the
\* cache by then.
StoreTime(w) ==
  /\ pc[w] = "store_time"
  /\ \/ /\ time_cache' = [time_cache EXCEPT ![Key(w)] = statement[w]]
        /\ Goto(w, "read_config")
        /\ UNCHANGED <<stack, result>>
     \/ /\ authority[w] \in Undated
        /\ Finish(w, "missing_key")
        /\ UNCHANGED time_cache
  /\ UNCHANGED <<now, config_cache, statement_cache, call, authority, statement, chains>>

-----------------------------------------------------------------------------
(* The end of collect_branch, and the eviction ESCache does when read      *)

\* collect_tree(authority, None) raises on `'authority_hints' not in None`.
ReadConfig(w) ==
  /\ pc[w] = "read_config"
  /\ LET exp == config_cache[authority[w]] IN
     IF exp = NoEntry
     THEN Finish(w, "no_configuration")
     ELSE /\ Goto(w, IF Fresh(exp) THEN "collect_tree" ELSE "evict_then_tree")
          /\ UNCHANGED <<stack, result>>
  /\ UNCHANGED <<now, caches, call, authority, statement, chains>>

\* `del self._db[item]`: another thread may have deleted, or replaced, the entry.
Evict(w) ==
  /\ pc[w] \in {"evict_then_fetch", "evict_then_tree"}
  /\ config_cache' = [config_cache EXCEPT ![authority[w]] = NoEntry]
  /\ \/ /\ config_cache[authority[w]] = NoEntry
        /\ Finish(w, "missing_key")
     \/ /\ config_cache[authority[w]] # NoEntry /\ pc[w] = "evict_then_tree"
        /\ Finish(w, "no_configuration")
     \/ /\ config_cache[authority[w]] # NoEntry /\ pc[w] = "evict_then_fetch"
        /\ Goto(w, "fetch_config")
        /\ UNCHANGED <<stack, result>>
  /\ UNCHANGED <<now, statement_cache, time_cache, call, authority, statement, chains>>

-----------------------------------------------------------------------------
Tick ==
  /\ now < MaxTime
  /\ now' = now + 1
  /\ UNCHANGED <<caches, pc, call, stack, authority, statement, chains, result>>

\* What the worker does by itself once it is called.
Step(w) ==
  \/ FetchConfig(w) \/ TryTenant(w) \/ EmptyLeafPage(w) \/ FetchFails(w)
  \/ EnterTree(w) \/ ReturnTree(w)
  \/ \E a \in Entities : NextAuthority(w, a)
  \/ ReadStatement(w) \/ CheckTime(w) \/ DeleteStatement(w) \/ DeleteTime(w)
  \/ FindEndpoint(w) \/ FetchStatement(w) \/ StoreTime(w)
  \/ ReadConfig(w) \/ Evict(w)

Init ==
  /\ now = 0
  /\ config_cache = [e \in Entities |-> NoEntry]
  /\ statement_cache = [p \in Pairs |-> NoEntry]
  /\ time_cache = [p \in Pairs |-> NoEntry]
  /\ pc = [w \in Workers |-> "idle"]
  /\ subject = [w \in Workers |-> NoEntity]
  /\ stop_at = [w \in Workers |-> NoEntity]
  /\ stack = [w \in Workers |-> <<>>]
  /\ authority = [w \in Workers |-> NoEntity]
  /\ statement = [w \in Workers |-> NoEntry]
  /\ chains = [w \in Workers |-> {}]
  /\ result = [w \in Workers |-> "none"]
  /\ calls = [w \in Workers |-> 0]

Next ==
  \/ Tick
  \/ \E w \in Workers :
       \/ \E e \in Subjects, s \in StopAts :
            Call(w, e, s) \/ CallWithConfiguration(w, e, s)
       \/ Step(w)

Spec == Init /\ [][Next]_vars

\* A thread is scheduled, and an HTTP exchange ends with an answer or an error.
FairSpec == Spec /\ \A w \in Workers : WF_vars(Step(w))

-----------------------------------------------------------------------------
(* Properties                                                              *)

TypeOK ==
  /\ now \in Nat
  /\ config_cache \in [Entities -> Nat]
  /\ statement_cache \in [Pairs -> Nat]
  /\ time_cache \in [Pairs -> Nat]
  /\ pc \in [Workers -> Labels]
  /\ subject \in [Workers -> Entities \cup {NoEntity}]
  /\ stop_at \in [Workers -> Entities \cup {NoEntity}]
  /\ stack \in [Workers -> Seq(Frames)]
  /\ \A w \in Workers : Len(stack[w]) <= RecursionLimit
  /\ authority \in [Workers -> Entities \cup {NoEntity}]
  /\ statement \in [Workers -> Nat]
  /\ chains \in [Workers -> SUBSET Seq(Entities)]
  /\ result \in [Workers -> Results]
  /\ calls \in [Workers -> Nat]

\* The collector implements what ChainCollection promises: a call that returns
\* normally returns exactly the chains from its subject, whatever the caches
\* held and whatever other threads did to them meanwhile.
Collection == INSTANCE ChainCollection WITH
  busy <- {w \in Workers : pc[w] # "idle"},
  answer <- [w \in Workers |-> IF result[w] = "tree" THEN chains[w] ELSE {}],
  MaxLength <- RecursionLimit + 1
ImplementsChainCollection == Collection!Spec

\* p starts at e, climbs published hints, goes no further than s and has no more
\* links than the recursion may have frames.
IsClimb(p, e, s) ==
  /\ Len(p) \in 1..(RecursionLimit + 1)
  /\ p[1] = e
  /\ \A i \in 1..(Len(p) - 1) : p[i + 1] \in Hints[p[i]] /\ p[i] # s

\* Every chain a call builds is a climb from the call's subject to its stop_at,
\* also while other threads call with other arguments.
ChainsWellFormed ==
  \A w \in Workers : \A p \in chains[w] : IsClimb(p, subject[w], stop_at[w])

\* "Verify that the cached statement is not too old": a statement taken from
\* the cache has, by its own exp and not just by the one stored beside it, at
\* least allowed_delta left to live.
CachedStatementIsFresh ==
  [][\A w \in Workers :
       pc[w] = "check_time" /\ pc'[w] = "read_config"
         => now + AllowedDelta <= statement[w]]_vars

\* A request never dies because another key of the same cache entry, or the
\* entry it is about to evict, is gone.
NoRaceCrash == \A w \in Workers : result[w] \notin {"no_time_key", "missing_key"}

\* Every call ends, whatever the hints are: an unbounded climb is ended by the
\* interpreter's recursion limit.
CollectionTerminates == \A w \in Workers : pc[w] # "idle" ~> pc[w] = "idle"
=============================================================================
