-------------------------- MODULE TrustChainVerifier --------------------------
(***************************************************************************)
(* entity/function/verifier.py, and verify_trust_chains which calls it:    *)
(* threads verify chains statement by statement against one key jar and    *)
(* add to it the keys each verified statement gives for its subject.       *)
(*                                                                         *)
(* A chain lists statements from the superior-most one down; a statement   *)
(* has iss, sub, the key it is signed with, jwks (the keys it gives for    *)
(* its subject, none if the claim is missing) and perhaps constraints.     *)
(* Each statement is a signed JWT: what is none cannot be collected.       *)
(***************************************************************************)
EXTENDS Constraints, FiniteSets

CONSTANTS
  Workers,        \* threads
  Entities,       \* entity IDs
  Keys,           \* signing keys
  TrustAnchors,   \* trust anchors the service is configured with
  LateAnchors,    \* trust anchors that may be added while it runs
  ConfiguredKeys, \* ConfiguredKeys[e]: e's keys by configuration, an anchor's or our own
  Statements,     \* statements there are to verify
  Requests,       \* what callers pass: chains, and a statement to add to each
  MaxCalls        \* bound: calls per worker

NoJWKS == {}

ASSUME VerifierAssumption ==
  /\ TrustAnchors \subseteq Entities
  /\ LateAnchors \subseteq Entities
  /\ ConfiguredKeys \in [Entities -> SUBSET Keys]
  /\ \A a \in TrustAnchors \cup LateAnchors : ConfiguredKeys[a] # {}
  /\ \A s \in Statements :
       s.iss \in Entities /\ s.sub \in Entities /\ s.key \in Keys /\ s.jwks \in SUBSET Keys
  /\ \A r \in Requests : r.chains \in Seq(Seq(Statements)) /\ r.extra \in Seq(Statements)
  /\ MaxCalls \in Nat

VARIABLES
  keyjar,         \* the federation entity's key jar
  trust_anchors,  \* the trust anchors it knows
  pc,             \* where each worker is
  todo,           \* chains of the call it has not started on
  extra,          \* entity_statements of the call, put at the end of each chain
  chain,          \* the chain it verifies
  pos,            \* the statement it is at
  verified,       \* chains of the call it has verified
  refused,        \* chains of the call that were no good
  result,         \* how its last call ended
  calls           \* calls made, for the bound

call == <<extra, calls>>
vars == <<keyjar, trust_anchors, pc, todo, extra, chain, pos, verified, refused, result, calls>>

Labels == {"idle", "next_chain", "statement", "restrictions"}
Results == {"none", "returned", "empty_chain", "missing_key", "missing_jwks", "missing_constraint"}

\* The key jar a service starts with.
StartJar == [e \in Entities |->
               IF e \in LateAnchors \ TrustAnchors THEN {} ELSE ConfiguredKeys[e]]

Goto(w, label) == pc' = [pc EXCEPT ![w] = label]

\* verify_trust_chain came to nothing: the chain is left out.
Refuse(w, c) ==
  /\ refused' = [refused EXCEPT ![w] = @ \cup {c}]
  /\ Goto(w, "next_chain")

\* An exception ends the call, the chains not yet verified with it.
Raise(w, c, how) ==
  /\ refused' = [refused EXCEPT ![w] = @ \cup {c}]
  /\ result' = [result EXCEPT ![w] = how]
  /\ Goto(w, "idle")

-----------------------------------------------------------------------------
(* verify_trust_chains                                                     *)

Verify(w, r) ==
  /\ pc[w] = "idle" /\ calls[w] < MaxCalls
  /\ calls' = [calls EXCEPT ![w] = @ + 1]
  /\ todo' = [todo EXCEPT ![w] = r.chains]
  /\ extra' = [extra EXCEPT ![w] = r.extra]
  /\ verified' = [verified EXCEPT ![w] = {}]
  /\ refused' = [refused EXCEPT ![w] = {}]
  /\ result' = [result EXCEPT ![w] = "none"]
  /\ Goto(w, "next_chain")
  /\ UNCHANGED <<keyjar, trust_anchors, chain, pos>>

Return(w) ==
  /\ pc[w] = "next_chain" /\ todo[w] = <<>>
  /\ result' = [result EXCEPT ![w] = "returned"]
  /\ Goto(w, "idle")
  /\ UNCHANGED <<keyjar, trust_anchors, todo, call, chain, pos, verified, refused>>

\* trusted_anchor: is the first issuer in the key jar?
Known(s) == keyjar[s.iss] # {}

StartChain(w) ==
  /\ pc[w] = "next_chain" /\ todo[w] # <<>>
  /\ LET c == Head(todo[w]) \o extra[w] IN
     /\ chain' = [chain EXCEPT ![w] = c]
     /\ \/ /\ c = <<>>
           /\ Raise(w, c, "empty_chain")
        \/ /\ c # <<>> /\ ~Known(c[1])
           /\ Refuse(w, c)
           /\ UNCHANGED result
        \/ /\ c # <<>> /\ Known(c[1])
           /\ Goto(w, "statement")
           /\ UNCHANGED <<refused, result>>
  /\ todo' = [todo EXCEPT ![w] = Tail(@)]
  /\ pos' = [pos EXCEPT ![w] = 1]
  /\ UNCHANGED <<keyjar, trust_anchors, call, verified>>

-----------------------------------------------------------------------------
(* verify_trust_chain                                                      *)

\* keys = _keyjar.get_jwt_verify_keys(...), and the signature.  The variant does not
\* look at the issuer.
SignedByAnyone(s) == \E e \in Entities : s.key \in keyjar[e]
Signed(s) == s.key \in keyjar[s.iss]

AtLast(w) == pos[w] = Len(chain[w])

\* Only the last statement may come without keys for its subject.  The variant wants
\* keys there too.
LacksKeysAnywhere(w, s) == s.jwks = NoJWKS
LacksKeys(w, s) == s.jwks = NoJWKS /\ pos[w] # Len(chain[w])

\* The keys given for the subject join those the jar has.  One variant takes them
\* for the issuer's, the other replaces what the jar has.
AddKeysToIssuer(s) == keyjar' = [keyjar EXCEPT ![s.iss] = @ \cup s.jwks]
ReplaceKeys(s) == keyjar' = [keyjar EXCEPT ![s.sub] = s.jwks]
AddKeys(s) == keyjar' = [keyjar EXCEPT ![s.sub] = @ \cup s.jwks]

VerifyStatement(w) ==
  /\ pc[w] = "statement"
  /\ LET s == chain[w][pos[w]] IN
     \/ /\ ~Signed(s)
        /\ Raise(w, chain[w], "missing_key")
        /\ UNCHANGED <<keyjar, pos>>
     \/ /\ Signed(s) /\ LacksKeys(w, s)
        /\ Raise(w, chain[w], "missing_jwks")
        /\ UNCHANGED <<keyjar, pos>>
     \/ /\ Signed(s) /\ ~LacksKeys(w, s)
        /\ AddKeys(s)
        /\ pos' = [pos EXCEPT ![w] = @ + 1]
        /\ Goto(w, IF AtLast(w) THEN "restrictions" ELSE "statement")
        /\ UNCHANGED <<refused, result>>
  /\ UNCHANGED <<trust_anchors, todo, call, chain, verified>>

CheckRestrictions(w) ==
  /\ pc[w] = "restrictions"
  /\ LET verdict == MeetsRestrictions(chain[w]) IN
     \/ /\ verdict = "meets"
        /\ verified' = [verified EXCEPT ![w] = @ \cup {chain[w]}]
        /\ Goto(w, "next_chain")
        /\ UNCHANGED <<refused, result>>
     \/ /\ verdict = "fails"
        /\ Refuse(w, chain[w])
        /\ UNCHANGED <<verified, result>>
     \/ /\ verdict = "raises"
        /\ Raise(w, chain[w], "missing_constraint")
        /\ UNCHANGED verified
  /\ UNCHANGED <<keyjar, trust_anchors, todo, call, chain, pos>>

-----------------------------------------------------------------------------
\* TrustChainCollector.add_trust_anchor, while the service runs.
AddTrustAnchor(a) ==
  /\ a \notin trust_anchors
  /\ trust_anchors' = trust_anchors \cup {a}
  /\ keyjar' = [keyjar EXCEPT ![a] = @ \cup ConfiguredKeys[a]]
  /\ UNCHANGED <<pc, todo, call, chain, pos, verified, refused, result>>

Step(w) == Return(w) \/ StartChain(w) \/ VerifyStatement(w) \/ CheckRestrictions(w)

Init ==
  /\ keyjar = StartJar
  /\ trust_anchors = TrustAnchors
  /\ pc = [w \in Workers |-> "idle"]
  /\ todo = [w \in Workers |-> <<>>]
  /\ extra = [w \in Workers |-> <<>>]
  /\ chain = [w \in Workers |-> <<>>]
  /\ pos = [w \in Workers |-> 1]
  /\ verified = [w \in Workers |-> {}]
  /\ refused = [w \in Workers |-> {}]
  /\ result = [w \in Workers |-> "none"]
  /\ calls = [w \in Workers |-> 0]

Next ==
  \/ \E a \in LateAnchors : AddTrustAnchor(a)
  \/ \E w \in Workers : (\E r \in Requests : Verify(w, r)) \/ Step(w)

Spec == Init /\ [][Next]_vars

-----------------------------------------------------------------------------
(* Properties                                                              *)

TypeOK ==
  /\ keyjar \in [Entities -> SUBSET Keys]
  /\ trust_anchors \in SUBSET Entities
  /\ pc \in [Workers -> Labels]
  /\ todo \in [Workers -> Seq(Seq(Statements))]
  /\ extra \in [Workers -> Seq(Statements)]
  /\ chain \in [Workers -> Seq(Statements)]
  /\ pos \in [Workers -> Nat \ {0}]
  /\ \A w \in Workers : pc[w] = "statement" => pos[w] <= Len(chain[w])
  /\ verified \in [Workers -> SUBSET Seq(Statements)]
  /\ refused \in [Workers -> SUBSET Seq(Statements)]
  /\ result \in [Workers -> Results]
  /\ calls \in [Workers -> Nat]

\* S has the configured keys, and with the key of a statement those it gives.
IsClosed(S) ==
  /\ \A e \in Entities, k \in Keys : k \in ConfiguredKeys[e] => <<e, k>> \in S
  /\ \A s \in Statements : <<s.iss, s.key>> \in S => \A k \in s.jwks : <<s.sub, k>> \in S

\* The keys that lead back to configuration, statement by statement: what all
\* closed sets have in common.
Rooted ==
  LET pairs == Entities \X Keys IN
  pairs \ UNION {pairs \ S : S \in {S \in SUBSET pairs : IsClosed(S)}}

\* "Works its way down from the Trust Anchor to the leaf": whatever was verified, in
\* whatever order and by how many threads, the jar only has keys that lead
\* back to configuration.
KeysAreRooted == \A e \in Entities : \A k \in keyjar[e] : <<e, k>> \in Rooted

\* Each statement of a verified chain is signed with a key of its issuer's that
\* leads back to configuration.
VerifiedChainsAreRooted ==
  \A w \in Workers : \A c \in verified[w] : \A i \in 1..Len(c) :
    <<c[i].iss, c[i].key>> \in Rooted

\* A chain that hangs together by itself: from a trust anchor's configured key, each
\* statement giving the key of the next.
IsComplete(c) ==
  /\ c # <<>>
  /\ c[1].iss \in TrustAnchors /\ c[1].key \in ConfiguredKeys[c[1].iss]
  /\ \A i \in 1..(Len(c) - 1) : c[i + 1].iss = c[i].sub /\ c[i + 1].key \in c[i].jwks
  /\ MeetsRestrictions(c) = "meets"

\* No complete chain is refused and none raises, whatever the jar holds and
\* whatever other threads verify meanwhile, rotated keys included.
CompleteChainsAreVerified ==
  \A w \in Workers : \A c \in refused[w] : ~IsComplete(c)

\* Verdicts are stable: a chain that one thread has verified is not refused
\* afterwards, by it or by another.
VerdictsAreStable ==
  [][\A v, w \in Workers : \A c \in verified[v] :
       c \in verified'[v] /\ c \in refused'[w] => c \in refused[w]]_vars
=============================================================================
