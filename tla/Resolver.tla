------------------------------- MODULE Resolver -------------------------------
(***************************************************************************)
(* entity/server/resolve.py: the resolve endpoint collects the chains of   *)
(* an entity up to the trust anchor it is asked about, verifies them, and  *)
(* picks one.  The chain it answers with is not the one it verified: its   *)
(* documents are looked up in the collector's caches, one after the other, *)
(* while other requests use the collector.                                 *)
(***************************************************************************)
EXTENDS TrustChainCollector

VARIABLES
  phase,    \* where each worker is in process_request
  picked,   \* iss_path of the chain it picked
  answer,   \* expiry times of the documents it answers with
  outcome   \* how its last request to the endpoint ended

resolving == <<phase, picked, answer, outcome>>
resolver_vars == <<vars, resolving>>

Phases == {"none", "collect", "configuration", "evict", "statements"}
In(w, p) == phase[w] = p
Enter(w, p) == phase' = [phase EXCEPT ![w] = p]
End(w, how) == Enter(w, "none") /\ outcome' = [outcome EXCEPT ![w] = how]

-----------------------------------------------------------------------------
(* process_request                                                         *)

Resolve(w, e, anchor) ==
  /\ In(w, "none")
  /\ Call(w, e, anchor)
  /\ Enter(w, "collect")
  /\ picked' = [picked EXCEPT ![w] = <<>>]
  /\ answer' = [answer EXCEPT ![w] = <<>>]
  /\ outcome' = [outcome EXCEPT ![w] = "none"]

\* Verification and policies let any of the chains through.  The first that ends in the
\* anchor is taken.
EndsIn(p, anchor) == p[Len(p)] = anchor

Pick(w) ==
  /\ In(w, "collect") /\ pc[w] = "idle" /\ result[w] = "tree"
  /\ \E p \in chains[w] : EndsIn(p, stop_at[w]) /\ picked' = [picked EXCEPT ![w] = p]
  /\ Enter(w, "configuration")
  /\ UNCHANGED <<vars, answer, outcome>>

\* Collection raised, a chain or a policy did, or no chain gets through to the anchor, or
\* its metadata has not the type asked for.
Refuse(w) ==
  /\ In(w, "collect") /\ pc[w] = "idle"
  /\ End(w, "exception")
  /\ UNCHANGED <<vars, picked, answer>>

-----------------------------------------------------------------------------
(* get_chain                                                               *)

Note(w, exp) == answer' = [answer EXCEPT ![w] = Append(@, exp)]

\* The subject's configuration.  One that collection still used may be too old for the
\* cache, which then has none: None['_jws'].
LookUpConfiguration(w) ==
  /\ In(w, "configuration")
  /\ LET exp == config_cache[picked[w][1]] IN
     \/ Fresh(exp) /\ Note(w, exp) /\ Enter(w, "statements") /\ UNCHANGED outcome
     \/ exp = NoEntry /\ End(w, "exception") /\ UNCHANGED answer
     \/ exp # NoEntry /\ ~Fresh(exp) /\ Enter(w, "evict") /\ UNCHANGED <<answer, outcome>>
  /\ UNCHANGED <<vars, picked>>

EvictConfiguration(w) ==
  /\ In(w, "evict")
  /\ config_cache' = [config_cache EXCEPT ![picked[w][1]] = NoEntry]
  /\ End(w, "exception")
  /\ UNCHANGED <<now, statement_cache, time_cache, pc, call, stack, authority, statement,
                 chains, result, picked, answer>>

\* cache_key(iss_path[i + 1], iss_path[i]).  The variant has the two the other way round.
LinkSwapped(p, i) == <<p[i], p[i + 1]>>
Link(p, i) == <<p[i + 1], p[i]>>

\* Statements are strings to the cache, which gives them out whatever their age, and None
\* for one that is not there.
LookUpStatement(w) ==
  /\ In(w, "statements") /\ Len(answer[w]) < Len(picked[w])
  /\ Note(w, statement_cache[Link(picked[w], Len(answer[w]))])
  /\ UNCHANGED <<vars, phase, picked, outcome>>

Answer(w) ==
  /\ In(w, "statements") /\ Len(answer[w]) = Len(picked[w])
  /\ End(w, "answered")
  /\ UNCHANGED <<vars, picked, answer>>

-----------------------------------------------------------------------------
ResolverInit ==
  /\ Init
  /\ phase = [w \in Workers |-> "none"]
  /\ picked = [w \in Workers |-> <<>>]
  /\ answer = [w \in Workers |-> <<>>]
  /\ outcome = [w \in Workers |-> "none"]

\* What a worker does by itself.
ResolverStep(w) ==
  \/ Step(w) /\ UNCHANGED resolving
  \/ Pick(w) \/ Refuse(w)
  \/ LookUpConfiguration(w) \/ EvictConfiguration(w) \/ LookUpStatement(w) \/ Answer(w)

\* Other handlers call the collector too.
ResolverNext ==
  \/ Tick /\ UNCHANGED resolving
  \/ \E w \in Workers :
       \/ \E e \in Subjects, s \in StopAts :
            \/ Resolve(w, e, s)
            \/ In(w, "none") /\ Call(w, e, s) /\ UNCHANGED resolving
            \/ In(w, "none") /\ CallWithConfiguration(w, e, s) /\ UNCHANGED resolving
       \/ ResolverStep(w)

\* A thread is scheduled, and an HTTP exchange ends with an answer or an error.
ResolverSpec ==
  ResolverInit /\ [][ResolverNext]_resolver_vars
    /\ \A w \in Workers : WF_resolver_vars(ResolverStep(w))

-----------------------------------------------------------------------------
ResolverTypeOK ==
  /\ TypeOK
  /\ phase \in [Workers -> Phases]
  /\ picked \in [Workers -> Seq(Entities)]
  /\ answer \in [Workers -> Seq(Nat)]
  /\ outcome \in [Workers -> {"none", "exception", "answered"}]

\* The chain that is put together from the caches is complete: it is a climb from the subject
\* to the anchor that was asked about, and what collection put in the caches for it, the
\* subject's configuration and a statement for every link, is there (resolve.py:54-56,
\* trust_chain_collector.py:389-398).  It is stated of a resolver with one thread; others may
\* delete a statement that is too old in between.
AnswersHaveEveryDocument ==
  \A w \in Workers : In(w, "statements") =>
    /\ IsClimb(picked[w], subject[w], stop_at[w]) /\ EndsIn(picked[w], stop_at[w])
    /\ NoEntry \notin {answer[w][i] : i \in 1..Len(answer[w])}
=============================================================================
