---------------------- MODULE TrustChainVerifierProofs ----------------------
(***************************************************************************)
(* Proofs about TrustChainVerifier, for any threads, statements, requests  *)
(* and trust anchors, where MeetsRestrictions is left unexpanded; and      *)
(* about what that computes, in ConstraintsCheck, for chains of any length *)
(* over any names.                                                         *)
(***************************************************************************)
EXTENDS TrustChainVerifier, ConstraintsCheck, SequenceTheorems, WellFoundedInduction, TLAPS


\* What the actions do with the parts of a chain, typed.
LEMMA StatementType ==
  ASSUME NEW s \in Statements
  PROVE  s.iss \in Entities /\ s.sub \in Entities /\ s.key \in Keys /\ s.jwks \in SUBSET Keys
  BY VerifierAssumption DEF VerifierAssumption

LEMMA CurrentStatement ==
  ASSUME TypeOK, NEW w \in Workers, pc[w] = "statement"
  PROVE  /\ pos[w] \in 1..Len(chain[w])
         /\ Len(chain[w]) \in Nat
         /\ chain[w] \in Seq(Statements)
         /\ chain[w][pos[w]] \in Statements
<1>1. chain[w] \in Seq(Statements) /\ pos[w] \in Nat \ {0} /\ pos[w] <= Len(chain[w])
  BY DEF TypeOK
<1>. QED
  BY <1>1

-----------------------------------------------------------------------------
(* Types                                                                   *)

LEMMA InitIsTyped == Init => TypeOK
<1>1. StartJar \in [Entities -> SUBSET Keys]
  BY VerifierAssumption DEF StartJar, VerifierAssumption
<1>2. <<>> \in Seq(Statements) /\ <<>> \in Seq(Seq(Statements))
  OBVIOUS
<1>. QED
  BY <1>1, <1>2, VerifierAssumption DEF Init, TypeOK, Labels, Results, VerifierAssumption

LEMMA StepIsTyped == TypeOK /\ [Next]_vars => TypeOK'
<1>. SUFFICES ASSUME TypeOK, [Next]_vars
              PROVE  TypeOK'
  OBVIOUS
<1>1. CASE UNCHANGED vars
  BY <1>1 DEF TypeOK, vars
<1>2. ASSUME NEW a \in LateAnchors, AddTrustAnchor(a)
      PROVE  TypeOK'
  BY <1>2, VerifierAssumption DEF AddTrustAnchor, TypeOK, call, VerifierAssumption
<1>3. ASSUME NEW w \in Workers, NEW r \in Requests, Verify(w, r)
      PROVE  TypeOK'
  <2>1. r.chains \in Seq(Seq(Statements)) /\ r.extra \in Seq(Statements)
    BY VerifierAssumption DEF VerifierAssumption
  <2>. QED
    BY <1>3, <2>1 DEF Verify, TypeOK, Goto, Labels, Results
<1>4. ASSUME NEW w \in Workers, Return(w)
      PROVE  TypeOK'
  BY <1>4 DEF Return, TypeOK, Goto, call, Labels, Results
<1>5. ASSUME NEW w \in Workers, StartChain(w)
      PROVE  TypeOK'
  <2>. DEFINE c == Head(todo[w]) \o extra[w]
  <2>1. todo[w] \in Seq(Seq(Statements)) /\ todo[w] # <<>> /\ extra[w] \in Seq(Statements)
    BY <1>5 DEF StartChain, TypeOK
  <2>2. Head(todo[w]) \in Seq(Statements) /\ Tail(todo[w]) \in Seq(Seq(Statements))
    BY <2>1
  <2>3. c \in Seq(Statements)
    BY <2>1, <2>2, ConcatProperties
  <2>. HIDE DEF c
  <2>8. c # <<>> => 1 <= Len(c)
    BY <2>3
  <2>4. chain' = [chain EXCEPT ![w] = c] /\ pos' = [pos EXCEPT ![w] = 1]
        /\ todo' = [todo EXCEPT ![w] = Tail(@)] /\ UNCHANGED <<keyjar, trust_anchors, extra, calls, verified>>
    BY <1>5 DEF StartChain, call, c
  <2>5. CASE c = <<>> /\ Raise(w, c, "empty_chain")
    <3>1. refused' = [refused EXCEPT ![w] = @ \cup {c}] /\ result' = [result EXCEPT ![w] = "empty_chain"]
          /\ pc' = [pc EXCEPT ![w] = "idle"]
      BY <2>5 DEF Raise, Goto
    <3>2. refused' \in [Workers -> SUBSET Seq(Statements)]
      BY <2>3, <3>1 DEF TypeOK
    <3>. QED
      BY <2>2, <2>3, <2>4, <3>1, <3>2 DEF TypeOK, Labels, Results
  <2>6. CASE c # <<>> /\ Refuse(w, c) /\ UNCHANGED result
    BY <2>2, <2>3, <2>4, <2>6 DEF TypeOK, Refuse, Goto, Labels
  <2>7. CASE c # <<>> /\ Goto(w, "statement") /\ UNCHANGED <<refused, result>>
    BY <2>2, <2>3, <2>4, <2>7, <2>8 DEF TypeOK, Goto, Labels
  <2>. QED
    BY <1>5, <2>5, <2>6, <2>7 DEF StartChain, c
<1>6. ASSUME NEW w \in Workers, VerifyStatement(w)
      PROVE  TypeOK'
  <2>. DEFINE s == chain[w][pos[w]]
  <2>1. pos[w] \in 1..Len(chain[w]) /\ Len(chain[w]) \in Nat /\ chain[w] \in Seq(Statements)
        /\ s \in Statements
    BY <1>6, CurrentStatement DEF VerifyStatement
  <2>2. s.sub \in Entities /\ s.jwks \in SUBSET Keys
    BY <2>1, StatementType
  <2>3. UNCHANGED <<trust_anchors, todo, extra, calls, chain, verified>>
    BY <1>6 DEF VerifyStatement, call
  <2>. HIDE DEF s
  <2>4. ASSUME NEW how \in {"missing_key", "missing_jwks"},
               Raise(w, chain[w], how), UNCHANGED <<keyjar, pos>>
        PROVE  TypeOK'
    BY <2>1, <2>3, <2>4 DEF TypeOK, Raise, Goto, Labels, Results
  <2>5. CASE AddKeys(s) /\ pos' = [pos EXCEPT ![w] = @ + 1]
             /\ Goto(w, IF AtLast(w) THEN "restrictions" ELSE "statement")
             /\ UNCHANGED <<refused, result>>
    <3>1. AtLast(w) \/ pos[w] + 1 <= Len(chain[w])
      BY <2>1 DEF AtLast
    <3>2. pos' \in [Workers -> Nat \ {0}] /\ keyjar' \in [Entities -> SUBSET Keys]
      BY <2>1, <2>2, <2>5 DEF TypeOK, AddKeys
    <3>3. pc' \in [Workers -> Labels]
      BY <2>5 DEF TypeOK, Goto, Labels
    <3>4. \A v \in Workers : pc'[v] = "statement" => pos'[v] <= Len(chain'[v])
      BY <2>3, <2>5, <3>1 DEF TypeOK, Goto
    <3>. QED
      BY <2>3, <2>5, <3>2, <3>3, <3>4 DEF TypeOK
  <2>. QED
    BY <1>6, <2>4, <2>5 DEF VerifyStatement, s
<1>7. ASSUME NEW w \in Workers, CheckRestrictions(w)
      PROVE  TypeOK'
  <2>1. chain[w] \in Seq(Statements)
    BY DEF TypeOK
  <2>2. UNCHANGED <<keyjar, trust_anchors, todo, extra, calls, chain, pos>>
    BY <1>7 DEF CheckRestrictions, call
  <2>3. CASE verified' = [verified EXCEPT ![w] = @ \cup {chain[w]}]
             /\ Goto(w, "next_chain") /\ UNCHANGED <<refused, result>>
    BY <2>1, <2>2, <2>3 DEF TypeOK, Goto, Labels
  <2>4. CASE Refuse(w, chain[w]) /\ UNCHANGED <<verified, result>>
    BY <2>1, <2>2, <2>4 DEF TypeOK, Refuse, Goto, Labels
  <2>5. CASE Raise(w, chain[w], "missing_constraint") /\ UNCHANGED verified
    BY <2>1, <2>2, <2>5 DEF TypeOK, Raise, Goto, Labels, Results
  <2>. QED
    BY <1>7, <2>3, <2>4, <2>5 DEF CheckRestrictions
<1>. QED
  BY <1>1, <1>2, <1>3, <1>4, <1>5, <1>6, <1>7 DEF Next, Step

\* The verifier's variables keep their types, and a thread that verifies a statement
\* is at one of its chain.
THEOREM TypeCorrect == Spec => []TypeOK
  BY InitIsTyped, StepIsTyped, PTL DEF Spec

-----------------------------------------------------------------------------
(* Keys lead back to configuration                                         *)

\* What is in Rooted is in every closed set of pairs.
LEMMA InRooted ==
  ASSUME NEW p
  PROVE  p \in Rooted <=>
           /\ p \in Entities \X Keys
           /\ \A S \in SUBSET (Entities \X Keys) : IsClosed(S) => p \in S
  BY DEF Rooted

\* Rooted is itself closed: it has the configured keys ...
LEMMA ConfiguredIsRooted ==
  ASSUME NEW e \in Entities, NEW k \in ConfiguredKeys[e]
  PROVE  <<e, k>> \in Rooted
<1>1. k \in Keys
  BY VerifierAssumption DEF VerifierAssumption
<1>2. \A S \in SUBSET (Entities \X Keys) : IsClosed(S) => <<e, k>> \in S
  BY <1>1 DEF IsClosed
<1>. QED
  BY <1>1, <1>2, InRooted

\* ... and with a statement's key those it gives.
LEMMA GivenIsRooted ==
  ASSUME NEW s \in Statements, <<s.iss, s.key>> \in Rooted, NEW k \in s.jwks
  PROVE  <<s.sub, k>> \in Rooted
<1>1. s.sub \in Entities /\ k \in Keys
  BY StatementType
<1>2. ASSUME NEW S \in SUBSET (Entities \X Keys), IsClosed(S)
      PROVE  <<s.sub, k>> \in S
  <2>1. <<s.iss, s.key>> \in S
    BY <1>2, InRooted
  <2>. QED
    BY <1>2, <2>1 DEF IsClosed
<1>. QED
  BY <1>1, <1>2, InRooted

LEMMA InitIsRooted == Init => KeysAreRooted
<1>. SUFFICES ASSUME Init, NEW e \in Entities, NEW k \in keyjar[e]
              PROVE  <<e, k>> \in Rooted
  BY DEF KeysAreRooted
<1>1. k \in ConfiguredKeys[e]
  BY DEF Init, StartJar
<1>. QED
  BY <1>1, ConfiguredIsRooted

\* A step leaves the key jar alone, but for a new trust anchor's keys and those of
\* a statement just verified.
LEMMA JarSteps ==
  ASSUME TypeOK, [Next]_vars
  PROVE  \/ keyjar' = keyjar
         \/ \E a \in LateAnchors : keyjar' = [keyjar EXCEPT ![a] = @ \cup ConfiguredKeys[a]]
         \/ \E s \in Statements : Signed(s) /\ AddKeys(s)
<1>1. CASE UNCHANGED vars
  BY <1>1 DEF vars
<1>2. CASE \E a \in LateAnchors : AddTrustAnchor(a)
  BY <1>2 DEF AddTrustAnchor
<1>3. CASE \E w \in Workers : (\E r \in Requests : Verify(w, r)) \/ Return(w) \/ StartChain(w) \/ CheckRestrictions(w)
  BY <1>3 DEF Verify, Return, StartChain, CheckRestrictions
<1>4. ASSUME NEW w \in Workers, VerifyStatement(w)
      PROVE  keyjar' = keyjar \/ \E s \in Statements : Signed(s) /\ AddKeys(s)
  <2>1. chain[w][pos[w]] \in Statements
    BY <1>4, CurrentStatement DEF VerifyStatement
  <2>. QED
    BY <1>4, <2>1 DEF VerifyStatement
<1>. QED
  BY <1>1, <1>2, <1>3, <1>4 DEF Next, Step

\* The key jar never loses a key.
LEMMA JarGrows ==
  ASSUME TypeOK, [Next]_vars, NEW e \in Entities
  PROVE  keyjar[e] \subseteq keyjar'[e]
<1>1. CASE keyjar' = keyjar
  BY <1>1
<1>2. ASSUME NEW a \in LateAnchors, keyjar' = [keyjar EXCEPT ![a] = @ \cup ConfiguredKeys[a]]
      PROVE  keyjar[e] \subseteq keyjar'[e]
  BY <1>2 DEF TypeOK
<1>3. ASSUME NEW s \in Statements, AddKeys(s)
      PROVE  keyjar[e] \subseteq keyjar'[e]
  BY <1>3 DEF TypeOK, AddKeys
<1>. QED
  BY <1>1, <1>2, <1>3, JarSteps

LEMMA StepIsRooted == TypeOK /\ KeysAreRooted /\ [Next]_vars => KeysAreRooted'
<1>. SUFFICES ASSUME TypeOK, KeysAreRooted, [Next]_vars
              PROVE  KeysAreRooted'
  OBVIOUS
<1>. SUFFICES ASSUME NEW e \in Entities, NEW k \in keyjar'[e]
              PROVE  <<e, k>> \in Rooted
  BY DEF KeysAreRooted, Rooted, IsClosed
<1>1. CASE k \in keyjar[e]
  BY <1>1 DEF KeysAreRooted
<1>2. ASSUME NEW a \in LateAnchors, keyjar' = [keyjar EXCEPT ![a] = @ \cup ConfiguredKeys[a]],
             k \notin keyjar[e]
      PROVE  <<e, k>> \in Rooted
  <2>1. k \in ConfiguredKeys[e]
    BY <1>2 DEF TypeOK
  <2>. QED
    BY <2>1, ConfiguredIsRooted
<1>3. ASSUME NEW s \in Statements, Signed(s), AddKeys(s), k \notin keyjar[e]
      PROVE  <<e, k>> \in Rooted
  <2>1. e = s.sub /\ k \in s.jwks
    BY <1>3 DEF TypeOK, AddKeys
  <2>2. <<s.iss, s.key>> \in Rooted
    BY <1>3, StatementType DEF KeysAreRooted, Signed
  <2>. QED
    BY <2>1, <2>2, GivenIsRooted
<1>. QED
  BY <1>1, <1>2, <1>3, JarSteps

\* Every key in the jar, the subjects' keys included, leads back to a configured one,
\* whatever chains were verified, refused or given up half way.
THEOREM KeysLeadBack == Spec => []KeysAreRooted
  BY InitIsTyped, StepIsTyped, InitIsRooted, StepIsRooted, PTL DEF Spec

-----------------------------------------------------------------------------
(* Verified chains                                                         *)

\* The jar has the key of each of c's first n statements, and each but c's last
\* gives keys.
Holds(c, n) ==
  \A i \in 1..Len(c) : i <= n =>
    /\ c[i].key \in keyjar[c[i].iss]
    /\ i < Len(c) => c[i].jwks # NoJWKS

\* That is so of what a thread has been through ...
ProgressHolds ==
  \A w \in Workers : pc[w] \in {"statement", "restrictions"} =>
    /\ chain[w] # <<>>
    /\ Holds(chain[w], pos[w] - 1)
    /\ pc[w] = "restrictions" => pos[w] = Len(chain[w]) + 1

\* ... and of the chains it has verified.
VerifiedHold ==
  \A w \in Workers : \A c \in verified[w] :
    c # <<>> /\ Holds(c, Len(c)) /\ MeetsRestrictions(c) = "meets"

LEMMA HoldsStaysTrue ==
  ASSUME TypeOK, [Next]_vars, NEW c \in Seq(Statements), NEW n, Holds(c, n)
  PROVE  Holds(c, n)'
<1>1. ASSUME NEW i \in 1..Len(c)
      PROVE  keyjar[c[i].iss] \subseteq keyjar'[c[i].iss]
  <2>1. c[i] \in Statements
    OBVIOUS
  <2>. QED
    BY <2>1, StatementType, JarGrows
<1>. QED
  BY <1>1 DEF Holds

LEMMA InitHolds == Init => ProgressHolds /\ VerifiedHold
  BY DEF Init, ProgressHolds, VerifiedHold

\* So it does of a thread's chain that stays the same, up to n.
LEMMA ChainStillHolds ==
  ASSUME TypeOK, [Next]_vars, NEW v \in Workers, NEW n, Holds(chain[v], n),
         chain'[v] = chain[v], pos'[v] - 1 = n
  PROVE  Holds(chain[v], pos[v] - 1)'
<1>1. ASSUME NEW i \in 1..Len(chain[v]), i <= n
      PROVE  chain[v][i].key \in keyjar'[chain[v][i].iss] /\ (i < Len(chain[v]) => chain[v][i].jwks # NoJWKS)
  <2>1. chain[v][i] \in Statements
    BY DEF TypeOK
  <2>2. chain[v][i].key \in keyjar[chain[v][i].iss] /\ (i < Len(chain[v]) => chain[v][i].jwks # NoJWKS)
    BY <1>1 DEF Holds
  <2>. QED
    BY <2>1, <2>2, StatementType, JarGrows
<1>. QED
  BY <1>1 DEF Holds

\* And of the chains verified before the step.
LEMMA VerifiedStillHold ==
  ASSUME TypeOK, VerifiedHold, [Next]_vars, NEW v \in Workers, NEW c \in verified[v]
  PROVE  c # <<>> /\ Holds(c, Len(c))' /\ MeetsRestrictions(c) = "meets"
<1>1. c \in Seq(Statements) /\ c # <<>> /\ Holds(c, Len(c)) /\ MeetsRestrictions(c) = "meets"
  BY DEF TypeOK, VerifiedHold
<1>. QED
  BY <1>1, HoldsStaysTrue

LEMMA StepHolds ==
  ASSUME TypeOK, ProgressHolds, VerifiedHold, [Next]_vars
  PROVE  ProgressHolds' /\ VerifiedHold'
<1>. DEFINE Busy(v) == pc[v] \in {"statement", "restrictions"}
            Fine(v) == /\ Busy(v)' => /\ chain'[v] # <<>>
                                      /\ Holds(chain[v], pos[v] - 1)'
                                      /\ pc'[v] = "restrictions" => pos'[v] = Len(chain'[v]) + 1
                       /\ \A c \in verified'[v] :
                            c # <<>> /\ Holds(c, Len(c))' /\ MeetsRestrictions(c) = "meets"
<1>1. SUFFICES ASSUME NEW v \in Workers
               PROVE  Fine(v)
  BY DEF ProgressHolds, VerifiedHold, Holds
<1>2. ASSUME <<pc'[v], chain'[v], pos'[v], verified'[v]>> = <<pc[v], chain[v], pos[v], verified[v]>>
      PROVE  Fine(v)
  BY <1>2, ChainStillHolds, VerifiedStillHold DEF ProgressHolds
<1>3. CASE UNCHANGED vars \/ \E a \in LateAnchors : AddTrustAnchor(a)
  BY <1>2, <1>3 DEF vars, AddTrustAnchor
<1>4. ASSUME NEW w \in Workers, v # w, (\E r \in Requests : Verify(w, r)) \/ Step(w)
      PROVE  Fine(v)
  BY <1>2, <1>4 DEF Verify, Step, Return, StartChain, VerifyStatement, CheckRestrictions,
                    Goto, Raise, Refuse, TypeOK
<1>5. CASE \E r \in Requests : Verify(v, r)
  BY <1>5 DEF Verify, Goto, TypeOK
<1>6. CASE Return(v)
  BY <1>6, VerifiedStillHold DEF Return, Goto, TypeOK
<1>7. CASE StartChain(v)
  <2>. DEFINE c == Head(todo[v]) \o extra[v]
  <2>1. verified'[v] = verified[v] /\ chain'[v] = c /\ pos'[v] = 1
    BY <1>7 DEF StartChain, TypeOK
  <2>2. pc'[v] = "statement" => c # <<>>
    BY <1>7 DEF StartChain, Raise, Refuse, Goto, TypeOK
  <2>3. pc'[v] # "restrictions"
    BY <1>7 DEF StartChain, Raise, Refuse, Goto, TypeOK
  <2>4. Holds(chain[v], pos[v] - 1)'
    BY <2>1 DEF Holds
  <2>. QED
    BY <2>1, <2>2, <2>3, <2>4, VerifiedStillHold
<1>8. CASE VerifyStatement(v)
  <2>. DEFINE s == chain[v][pos[v]]
  <2>1. pos[v] \in 1..Len(chain[v]) /\ Len(chain[v]) \in Nat /\ chain[v] \in Seq(Statements)
        /\ s \in Statements /\ pc[v] = "statement"
    BY <1>8, CurrentStatement DEF VerifyStatement
  <2>2. chain'[v] = chain[v] /\ verified'[v] = verified[v] /\ chain[v] # <<>>
    BY <1>8, <2>1 DEF VerifyStatement, ProgressHolds
  <2>3. ASSUME NEW how, Raise(v, chain[v], how)
        PROVE  Fine(v)
    BY <2>2, <2>3, VerifiedStillHold DEF Raise, Goto, TypeOK
  <2>4. CASE Signed(s) /\ ~LacksKeys(v, s) /\ pos' = [pos EXCEPT ![v] = @ + 1]
             /\ Goto(v, IF AtLast(v) THEN "restrictions" ELSE "statement")
    <3>1. pos'[v] = pos[v] + 1 /\ pc'[v] = IF pos[v] = Len(chain[v]) THEN "restrictions" ELSE "statement"
      BY <2>4 DEF TypeOK, Goto, AtLast
    <3>2. Holds(chain[v], pos[v] - 1)
      BY <2>1 DEF ProgressHolds
    <3>3. Holds(chain[v], pos[v])
      BY <2>1, <2>4, <3>2 DEF Holds, Signed, LacksKeys
    <3>4. Holds(chain[v], pos[v] - 1)'
      BY <2>1, <2>2, <3>1, <3>3, ChainStillHolds
    <3>. QED
      BY <2>2, <3>1, <3>4, VerifiedStillHold
  <2>. QED
    BY <1>8, <2>3, <2>4 DEF VerifyStatement
<1>9. CASE CheckRestrictions(v)
  <2>1. pc'[v] \notin {"statement", "restrictions"}
    BY <1>9 DEF CheckRestrictions, Refuse, Raise, Goto, TypeOK
  <2>2. ASSUME NEW c \in verified'[v], c \notin verified[v]
        PROVE  c # <<>> /\ Holds(c, Len(c))' /\ MeetsRestrictions(c) = "meets"
    <3>1. c = chain[v] /\ MeetsRestrictions(c) = "meets"
      BY <1>9, <2>2 DEF CheckRestrictions, TypeOK
    <3>2. c \in Seq(Statements) /\ c # <<>> /\ Holds(c, Len(c))
      BY <1>9, <3>1 DEF CheckRestrictions, ProgressHolds, TypeOK
    <3>. QED
      BY <3>1, <3>2, HoldsStaysTrue
  <2>. QED
    BY <2>1, <2>2, VerifiedStillHold
<1>. QED
  BY <1>3, <1>4, <1>5, <1>6, <1>7, <1>8, <1>9 DEF Next, Step

LEMMA HoldingIsRooted == TypeOK /\ KeysAreRooted /\ VerifiedHold => VerifiedChainsAreRooted
<1>. SUFFICES ASSUME TypeOK, KeysAreRooted, VerifiedHold,
                     NEW w \in Workers, NEW c \in verified[w], NEW i \in 1..Len(c)
              PROVE  <<c[i].iss, c[i].key>> \in Rooted
  BY DEF VerifiedChainsAreRooted
<1>1. c \in Seq(Statements) /\ Holds(c, Len(c))
  BY DEF TypeOK, VerifiedHold
<1>2. c[i] \in Statements /\ c[i].key \in keyjar[c[i].iss]
  BY <1>1 DEF Holds
<1>. QED
  BY <1>2, StatementType DEF KeysAreRooted

\* No thread ever counts as verified a chain with a statement whose key does not lead
\* back to configuration.
THEOREM VerifiedLeadsBack == Spec => []VerifiedChainsAreRooted
<1>1. Init => TypeOK /\ KeysAreRooted /\ ProgressHolds /\ VerifiedHold
  BY InitIsTyped, InitIsRooted, InitHolds
<1>2. TypeOK /\ KeysAreRooted /\ ProgressHolds /\ VerifiedHold /\ [Next]_vars
        => (TypeOK /\ KeysAreRooted /\ ProgressHolds /\ VerifiedHold)'
  BY StepIsTyped, StepIsRooted, StepHolds
<1>. QED
  BY <1>1, <1>2, HoldingIsRooted, PTL DEF Spec

-----------------------------------------------------------------------------
(* Verdicts are stable                                                     *)

\* Why a chain is refused in a step: it is empty, its first issuer is unknown, the
\* statement it is at is not signed with a known key or has no keys, or the
\* restrictions are not met.
LEMMA WhyRefused ==
  ASSUME TypeOK, [Next]_vars, NEW w \in Workers, NEW c \in refused'[w], c \notin refused[w]
  PROVE  \/ c = <<>>
         \/ ~Known(c[1]) /\ pc[w] = "next_chain"
         \/ /\ pc[w] = "statement" /\ c = chain[w]
            /\ ~Signed(c[pos[w]]) \/ LacksKeys(w, c[pos[w]])
         \/ MeetsRestrictions(c) # "meets"
<1>1. CASE UNCHANGED vars \/ \E a \in LateAnchors : AddTrustAnchor(a)
  BY <1>1 DEF vars, AddTrustAnchor
<1>2. ASSUME NEW v \in Workers, v # w, (\E r \in Requests : Verify(v, r)) \/ Step(v)
      PROVE  FALSE
  BY <1>2 DEF Verify, Step, Return, StartChain, VerifyStatement, CheckRestrictions,
              Goto, Raise, Refuse, TypeOK
<1>3. CASE (\E r \in Requests : Verify(w, r)) \/ Return(w)
  BY <1>3 DEF Verify, Return, TypeOK
<1>4. CASE StartChain(w)
  <2>. DEFINE d == Head(todo[w]) \o extra[w]
  <2>. HIDE DEF d
  <2>1. /\ pc[w] = "next_chain"
        /\ \/ d = <<>> /\ refused' = [refused EXCEPT ![w] = @ \cup {d}]
           \/ ~Known(d[1]) /\ refused' = [refused EXCEPT ![w] = @ \cup {d}]
           \/ refused' = refused
    BY <1>4 DEF StartChain, Raise, Refuse, d
  <2>2. c = d /\ (d = <<>> \/ ~Known(d[1]))
    BY <2>1 DEF TypeOK
  <2>. QED
    BY <2>1, <2>2
<1>5. CASE VerifyStatement(w)
  BY <1>5 DEF VerifyStatement, Raise, TypeOK
<1>6. CASE CheckRestrictions(w)
  BY <1>6 DEF CheckRestrictions, Raise, Refuse, TypeOK
<1>. QED
  BY <1>1, <1>2, <1>3, <1>4, <1>5, <1>6 DEF Next, Step

LEMMA StepIsStable ==
  ASSUME TypeOK, VerifiedHold, [Next]_vars,
         NEW v \in Workers, NEW w \in Workers, NEW c \in verified[v], c \in refused'[w]
  PROVE  c \in refused[w]
<1>. SUFFICES ASSUME c \notin refused[w]
              PROVE  FALSE
  OBVIOUS
<1>1. c \in Seq(Statements) /\ c # <<>> /\ Holds(c, Len(c)) /\ MeetsRestrictions(c) = "meets"
  BY DEF TypeOK, VerifiedHold
<1>2. 1 \in 1..Len(c) /\ Len(c) \in Nat
  BY <1>1
<1>3. Known(c[1])
  BY <1>1, <1>2 DEF Holds, Known
<1>4. ASSUME pc[w] = "statement", c = chain[w]
      PROVE  Signed(c[pos[w]]) /\ ~LacksKeys(w, c[pos[w]])
  <2>1. pos[w] \in 1..Len(c)
    BY <1>4, CurrentStatement
  <2>. QED
    BY <1>1, <1>2, <1>4, <2>1 DEF Holds, Signed, LacksKeys
<1>. QED
  BY <1>1, <1>3, <1>4, WhyRefused

\* Once a chain is verified, no thread refuses it or raises on it: the key jar only
\* grows, and nothing else a verdict depends on changes.
THEOREM VerdictsStayTheSame == Spec => VerdictsAreStable
<1>1. Init => TypeOK /\ ProgressHolds /\ VerifiedHold
  BY InitIsTyped, InitHolds
<1>2. TypeOK /\ ProgressHolds /\ VerifiedHold /\ [Next]_vars
        => (TypeOK /\ ProgressHolds /\ VerifiedHold)'
  BY StepIsTyped, StepHolds
<1>3. TypeOK /\ VerifiedHold /\ [Next]_vars
        => [\A v, w \in Workers : \A c \in verified[v] :
              c \in verified'[v] /\ c \in refused'[w] => c \in refused[w]]_vars
  BY StepIsStable
<1>. QED
  BY <1>1, <1>2, <1>3, PTL DEF Spec, VerdictsAreStable

-----------------------------------------------------------------------------
(* Complete chains are verified                                            *)

\* The anchors' configured keys are never lost ...
AnchorsHaveKeys == \A a \in TrustAnchors : ConfiguredKeys[a] \subseteq keyjar[a]

\* ... and a complete chain finds the key of the statement it is at.
NextKeyIsThere ==
  \A w \in Workers : pc[w] = "statement" /\ IsComplete(chain[w]) =>
    Signed(chain[w][pos[w]])

LEMMA InitHasKeys == Init => AnchorsHaveKeys /\ NextKeyIsThere /\ CompleteChainsAreVerified
  BY VerifierAssumption
     DEF Init, AnchorsHaveKeys, NextKeyIsThere, CompleteChainsAreVerified, StartJar, VerifierAssumption

LEMMA AnchorsKeepKeys == TypeOK /\ AnchorsHaveKeys /\ [Next]_vars => AnchorsHaveKeys'
<1>. SUFFICES ASSUME TypeOK, AnchorsHaveKeys, [Next]_vars, NEW a \in TrustAnchors
              PROVE  ConfiguredKeys[a] \subseteq keyjar'[a]
  BY DEF AnchorsHaveKeys
<1>1. a \in Entities
  BY VerifierAssumption DEF VerifierAssumption
<1>. QED
  BY <1>1, JarGrows DEF AnchorsHaveKeys

LEMMA StepHasNextKey == TypeOK /\ AnchorsHaveKeys /\ NextKeyIsThere /\ [Next]_vars => NextKeyIsThere'
<1>. SUFFICES ASSUME TypeOK, AnchorsHaveKeys, NextKeyIsThere, [Next]_vars,
                     NEW v \in Workers, pc'[v] = "statement", IsComplete(chain'[v])
              PROVE  chain'[v][pos'[v]].key \in keyjar'[chain'[v][pos'[v]].iss]
  BY DEF NextKeyIsThere, Signed, IsComplete
<1>1. ASSUME pc[v] = "statement", chain'[v] = chain[v], pos'[v] = pos[v]
      PROVE  chain'[v][pos'[v]].key \in keyjar'[chain'[v][pos'[v]].iss]
  <2>1. chain[v][pos[v]] \in Statements
    BY <1>1, CurrentStatement
  <2>. QED
    BY <1>1, <2>1, StatementType, JarGrows DEF NextKeyIsThere, Signed
<1>2. CASE UNCHANGED vars \/ \E a \in LateAnchors : AddTrustAnchor(a)
  BY <1>1, <1>2 DEF vars, AddTrustAnchor
<1>3. ASSUME NEW w \in Workers, v # w, (\E r \in Requests : Verify(w, r)) \/ Step(w)
      PROVE  chain'[v][pos'[v]].key \in keyjar'[chain'[v][pos'[v]].iss]
  BY <1>1, <1>3 DEF Verify, Step, Return, StartChain, VerifyStatement, CheckRestrictions,
                    Goto, Raise, Refuse, TypeOK
<1>4. CASE (\E r \in Requests : Verify(v, r)) \/ Return(v) \/ CheckRestrictions(v)
  BY <1>4 DEF Verify, Return, CheckRestrictions, Refuse, Raise, Goto, TypeOK
<1>5. CASE StartChain(v)
  <2>1. pos'[v] = 1
    BY <1>5 DEF StartChain, TypeOK
  <2>2. chain'[v][1].iss \in TrustAnchors /\ chain'[v][1].key \in ConfiguredKeys[chain'[v][1].iss]
    BY DEF IsComplete
  <2>3. ConfiguredKeys[chain'[v][1].iss] \subseteq keyjar'[chain'[v][1].iss]
    BY <2>2, AnchorsKeepKeys DEF AnchorsHaveKeys
  <2>. QED
    BY <2>1, <2>2, <2>3
<1>6. CASE VerifyStatement(v)
  <2>. DEFINE s == chain[v][pos[v]]
              next == chain[v][pos[v] + 1]
  <2>1. pos[v] \in 1..Len(chain[v]) /\ Len(chain[v]) \in Nat /\ s \in Statements
    BY <1>6, CurrentStatement DEF VerifyStatement
  <2>2. chain'[v] = chain[v]
    BY <1>6 DEF VerifyStatement
  <2>3. ~AtLast(v) /\ AddKeys(s) /\ pos'[v] = pos[v] + 1
    BY <1>6 DEF VerifyStatement, Raise, Goto, TypeOK
  <2>4. next.iss = s.sub /\ next.key \in s.jwks
    BY <2>1, <2>2, <2>3 DEF AtLast, IsComplete
  <2>5. s.jwks \subseteq keyjar'[s.sub]
    BY <2>1, <2>3, StatementType DEF AddKeys, TypeOK
  <2>. QED
    BY <2>2, <2>3, <2>4, <2>5
<1>. QED
  BY <1>2, <1>3, <1>4, <1>5, <1>6 DEF Next, Step

LEMMA StepVerifiesComplete ==
  TypeOK /\ AnchorsHaveKeys /\ NextKeyIsThere /\ CompleteChainsAreVerified /\ [Next]_vars
    => CompleteChainsAreVerified'
<1>. SUFFICES ASSUME TypeOK, AnchorsHaveKeys, NextKeyIsThere, CompleteChainsAreVerified, [Next]_vars,
                     NEW w \in Workers, NEW c \in refused'[w], c \notin refused[w], IsComplete(c)
              PROVE  FALSE
  BY DEF CompleteChainsAreVerified, IsComplete
<1>1. c # <<>> /\ MeetsRestrictions(c) = "meets"
  BY DEF IsComplete
<1>2. Known(c[1])
  BY VerifierAssumption DEF IsComplete, AnchorsHaveKeys, Known, VerifierAssumption
<1>3. ASSUME pc[w] = "statement", c = chain[w]
      PROVE  Signed(c[pos[w]]) /\ ~LacksKeys(w, c[pos[w]])
  <2>1. pos[w] \in 1..Len(c) /\ Len(c) \in Nat
    BY <1>3, CurrentStatement
  <2>2. pos[w] # Len(c) => c[pos[w]].jwks # NoJWKS
    BY <2>1 DEF IsComplete, NoJWKS
  <2>. QED
    BY <1>3, <2>2 DEF NextKeyIsThere, LacksKeys
<1>. QED
  BY <1>1, <1>2, <1>3, WhyRefused

\* A chain that hangs together from a configured anchor key down is never refused,
\* whatever was verified before it and whatever other threads do meanwhile.
THEOREM CompleteChainsPass == Spec => []CompleteChainsAreVerified
<1>1. Init => TypeOK /\ AnchorsHaveKeys /\ NextKeyIsThere /\ CompleteChainsAreVerified
  BY InitIsTyped, InitHasKeys
<1>2. TypeOK /\ AnchorsHaveKeys /\ NextKeyIsThere /\ CompleteChainsAreVerified /\ [Next]_vars
        => (TypeOK /\ AnchorsHaveKeys /\ NextKeyIsThere /\ CompleteChainsAreVerified)'
  BY StepIsTyped, AnchorsKeepKeys, StepHasNextKey, StepVerifiesComplete
<1>. QED
  BY <1>1, <1>2, PTL DEF Spec

-----------------------------------------------------------------------------
(* Names                                                                   *)

\* More specific is transitive, blank labels included.
LEMMA MoreSpecificIsTransitive ==
  ASSUME NEW a \in Names, NEW b \in Names, NEW c \in Names,
         MoreSpecific(a, b), MoreSpecific(b, c)
  PROVE  MoreSpecific(a, c)
<1>1. Len(a) \in Nat /\ Len(b) \in Nat /\ Len(c) \in Nat /\ Len(a) >= Len(b) /\ Len(b) >= Len(c)
  BY DEF MoreSpecific, Names
<1>2. CASE \A i \in 1..Len(b) : a[i] = b[i]
  BY <1>1, <1>2 DEF MoreSpecific
<1>3. ASSUME NEW i \in 1..Len(b), \A j \in 1..(i - 1) : a[j] = b[j], b[i] = Blank, a[i] # Blank
      PROVE  MoreSpecific(a, c)
  <2>1. CASE \A k \in 1..Len(c) : b[k] = c[k]
    <3>1. CASE i \in 1..Len(c)
      BY <1>1, <1>3, <2>1, <3>1 DEF MoreSpecific
    <3>2. CASE i > Len(c)
      BY <1>1, <1>3, <2>1, <3>2 DEF MoreSpecific
    <3>. QED
      BY <1>1, <3>1, <3>2
  <2>2. ASSUME NEW k \in 1..Len(c), \A j \in 1..(k - 1) : b[j] = c[j], c[k] = Blank, b[k] # Blank
        PROVE  MoreSpecific(a, c)
    <3>1. CASE i < k
      <4>1. i \in 1..Len(c) /\ c[i] = Blank /\ \A j \in 1..(i - 1) : a[j] = c[j]
        BY <1>1, <1>3, <2>2, <3>1
      <4>. QED
        BY <1>1, <1>3, <4>1 DEF MoreSpecific
    <3>2. CASE k < i
      <4>1. a[k] # Blank /\ \A j \in 1..(k - 1) : a[j] = c[j]
        BY <1>1, <1>3, <2>2, <3>2
      <4>. QED
        BY <1>1, <2>2, <4>1 DEF MoreSpecific
    <3>. QED
      BY <1>3, <2>2, <3>1, <3>2
  <2>. QED
    BY <2>1, <2>2 DEF MoreSpecific
<1>. QED
  BY <1>2, <1>3 DEF MoreSpecific

\* A name covered by names that are covered is covered.
LEMMA CoveredIsTransitive ==
  ASSUME NEW name \in Names, NEW S \in SUBSET Names, NEW T \in SUBSET Names,
         Covered(name, S), \A n \in S : Covered(n, T)
  PROVE  Covered(name, T)
  BY MoreSpecificIsTransitive DEF Covered

\* A set of names covers each of its names.
LEMMA MemberIsCovered ==
  ASSUME NEW S \in SUBSET Names, NEW n \in S
  PROVE  Covered(n, S)
<1>1. Len(n) \in Nat
  BY DEF Names
<1>. QED
  BY <1>1 DEF Covered, MoreSpecific

\* Updating a list that is not empty leaves a list that is not empty and narrows
\* it: each of its names is covered by the old list.
LEMMA UpdateNarrows ==
  ASSUME NEW new \in SUBSET Names, NEW old \in SUBSET Names, old # {}
  PROVE  /\ UpdateSpecs(new, old) \in SUBSET Names
         /\ UpdateSpecs(new, old) # {}
         /\ \A n \in UpdateSpecs(new, old) : Covered(n, old)
<1>1. \A n \in UpdateSpecs(new, old) : Covered(n, old)
  BY MemberIsCovered DEF UpdateSpecs
<1>2. UpdateSpecs(new, old) # {}
  BY DEF UpdateSpecs, Covered
<1>. QED
  BY <1>1, <1>2 DEF UpdateSpecs

-----------------------------------------------------------------------------
(* One evaluation of meets_restrictions                                    *)

CheckTypeOK ==
  /\ trust_chain \in TrustChains
  /\ place \in 1..(Len(trust_chain) + 1)
  /\ \A key \in NamingKeys : loop.naming[key] \in SUBSET Names

\* While the loop runs, its permitted list is there as soon as a superior has one,
\* and is then within the first such list.
PermittedNarrows ==
  loop.verdict = "meets" /\ place <= Len(trust_chain) =>
    /\ (\A i \in 1..(place - 1) : ~Constrains(i, "permitted")) => loop.naming["permitted"] = {}
    /\ \A i \in 1..(place - 1) : FirstToSay(i, "permitted") =>
         /\ loop.naming["permitted"] # {}
         /\ \A n \in loop.naming["permitted"] : Covered(n, List(i, "permitted"))

\* CheckedArePermitted of the statements the loop has been through.
PermittedSoFar ==
  loop.verdict = "meets" =>
    \A i \in 1..(Len(trust_chain) - 1) : \A j \in i..(place - 1) :
      FirstToSay(i, "permitted") /\ Checked(j)
        => Covered(Host[trust_chain[j].sub], List(i, "permitted"))

\* The excluded list is that of the only superior that has one, once the loop has been there.
Sole(i) ==
  Constrains(i, "excluded") /\ \A k \in 1..(Len(trust_chain) - 1) : Constrains(k, "excluded") => k = i
ExclusionStands ==
  loop.verdict = "meets" /\ place <= Len(trust_chain) =>
    /\ (\A i \in 1..(place - 1) : ~Constrains(i, "excluded")) => loop.naming["excluded"] = {}
    /\ \A i \in 1..(place - 1) : Sole(i) => loop.naming["excluded"] = List(i, "excluded")

\* SoleExclusionHolds of the statements the loop has been through.
ExcludedSoFar ==
  loop.verdict = "meets" =>
    \A i \in 1..(Len(trust_chain) - 1) : \A j \in i..(place - 1) :
      Sole(i) /\ Checked(j) => ~Covered(Host[trust_chain[j].sub], List(i, "excluded"))

PermittedHeld == PermittedNarrows /\ PermittedSoFar
ExcludedHeld == ExclusionStands /\ ExcludedSoFar

\* A chain has a statement, and where the loop is there is one.
LEMMA PlaceIsInChain ==
  ASSUME CheckTypeOK
  PROVE  Len(trust_chain) \in Nat \ {0} /\ place \in Nat \ {0} /\ place <= Len(trust_chain) + 1
  BY ChainsAssumption DEF CheckTypeOK

\* What a superior's statement does to a list.
LEMMA SuperiorUpdates ==
  ASSUME CheckTypeOK, CheckSuperior, NEW key \in NamingKeys
  PROVE  /\ loop'.naming[key] \in SUBSET Names
         /\ ~Constrains(place, key) => loop'.naming[key] = loop.naming[key]
         /\ loop'.verdict = "meets" /\ Constrains(place, key) =>
              /\ List(place, key) \in SUBSET Names /\ List(place, key) # {}
              /\ loop'.naming[key] =
                   IF loop.naming[key] = {} THEN List(place, key)
                   ELSE UpdateSpecs(List(place, key), loop.naming[key])
<1>. DEFINE s == trust_chain[place]
            c == s.constraints
            new == c.naming_constraints
            old == loop.naming[key]
<1>1. loop' = Superior(loop, s) /\ place \in 1..Len(trust_chain)
  BY PlaceIsInChain DEF CheckSuperior
<1>2. /\ Constrains(place, key) => new[key] \in SUBSET Names
      /\ List(place, key) = new[key]
  BY <1>1, ChainsAssumption DEF CheckTypeOK, Constrains, List, IsNaming
<1>3. CASE "constraints" \notin DOMAIN s
  BY <1>1, <1>3 DEF Superior, Constrains, CheckTypeOK
<1>4. CASE "constraints" \in DOMAIN s /\ "naming_constraints" \notin DOMAIN c
  BY <1>1, <1>4 DEF Superior, Constrains, CheckTypeOK, UpdateNamingConstraints
<1>5. CASE "constraints" \in DOMAIN s /\ "naming_constraints" \in DOMAIN c
  <2>. DEFINE added == AddConstraints(new, loop.naming)[key]
  <2>1. \/ loop'.naming[key] = old /\ loop'.verdict # "meets"
        \/ loop'.naming[key] = added
    BY <1>1, <1>5 DEF Superior, UpdateNamingConstraints
  <2>2. CASE ~Constrains(place, key)
    <3>1. added = old
      BY <1>5, <2>2 DEF Constrains, AddConstraints
    <3>. QED
      BY <2>1, <2>2, <3>1 DEF CheckTypeOK
  <2>3. CASE Constrains(place, key)
    <3>1. added = IF old = {} THEN new[key] ELSE UpdateSpecs(new[key], old)
      BY <1>5, <2>3 DEF Constrains, AddConstraints
    <3>2. added \in SUBSET Names
      BY <1>2, <2>3, <3>1, UpdateNarrows DEF CheckTypeOK
    <3>3. new[key] # {}
      BY <2>3 DEF Constrains
    <3>. QED
      BY <1>2, <2>1, <2>3, <3>1, <3>2, <3>3 DEF CheckTypeOK
  <2>. QED
    BY <2>2, <2>3
<1>. QED
  BY <1>3, <1>4, <1>5

\* A superior's statement with constraints is accepted if its subject complies.
LEMMA SuperiorComplies ==
  ASSUME NEW l, NEW s, "constraints" \in DOMAIN s, Superior(l, s).verdict = "meets"
  PROVE  Complies(s.sub, Superior(l, s).naming)
<1>. DEFINE c == s.constraints
            length == CalculatePathLength(c, l.length, FALSE)
            lacks == "naming_constraints" \in DOMAIN c
                       /\ LacksList(c.naming_constraints, l.naming)
            naming == IF lacks \/ length < 0 THEN l.naming
                      ELSE UpdateNamingConstraints(c, l.naming)
<1>. HIDE DEF length, lacks, naming
<1>1. Superior(l, s) = [naming |-> naming, length |-> length,
                        verdict |-> IF length < 0 THEN "fails"
                                    ELSE IF lacks THEN "raises"
                                    ELSE IF Complies(s.sub, naming) THEN "meets" ELSE "fails"]
  BY DEF Superior, length, lacks, naming
<1>. QED
  BY <1>1

\* A subject that complies with a list within a superior's is permitted by that superior.
LEMMA CompliesIsPermitted ==
  ASSUME CheckTypeOK, NEW j \in 1..Len(trust_chain), NEW i \in 1..(Len(trust_chain) - 1),
         FirstToSay(i, "permitted"), NEW naming, Complies(trust_chain[j].sub, naming),
         naming["permitted"] # {}, naming["permitted"] \in SUBSET Names,
         \A n \in naming["permitted"] : Covered(n, List(i, "permitted"))
  PROVE  Covered(Host[trust_chain[j].sub], List(i, "permitted"))
<1>1. trust_chain \in TrustChains /\ Len(trust_chain) \in Nat /\ i \in 1..Len(trust_chain)
  BY ChainsAssumption DEF CheckTypeOK
<1>2. Host[trust_chain[j].sub] \in Names
  BY <1>1, ChainsAssumption
<1>3. List(i, "permitted") \in SUBSET Names
  BY <1>1, ChainsAssumption DEF FirstToSay, Constrains, List, IsNaming
<1>. QED
  BY <1>2, <1>3, CoveredIsTransitive DEF Complies

\* Neither the chain nor what it says changes.
LEMMA ChainStays ==
  ASSUME trust_chain' = trust_chain
  PROVE  \A i : /\ \A key : Constrains(i, key)' = Constrains(i, key) /\ List(i, key)' = List(i, key)
                /\ Checked(i)' = Checked(i) /\ Sole(i)' = Sole(i)
                /\ FirstToSay(i, "permitted")' = FirstToSay(i, "permitted")
<1>1. \A i, key : Constrains(i, key)' = Constrains(i, key) /\ List(i, key)' = List(i, key)
  BY DEF Constrains, List
<1>. QED
  BY <1>1 DEF Checked, Sole, FirstToSay

LEMMA CheckInitHolds == CheckInit => CheckTypeOK /\ PermittedHeld /\ ExcludedHeld
  BY ChainsAssumption
  DEF CheckInit, CheckTypeOK, PermittedHeld, PermittedNarrows, PermittedSoFar, ExcludedHeld,
      ExclusionStands, ExcludedSoFar, Start, Unrestricted, NamingKeys

LEMMA CheckStepIsTyped == CheckTypeOK /\ [CheckNext]_check_vars => CheckTypeOK'
<1>. SUFFICES ASSUME CheckTypeOK, [CheckNext]_check_vars PROVE CheckTypeOK'
  OBVIOUS
<1>1. CASE CheckSuperior
  <2>1. place' = place + 1 /\ trust_chain' = trust_chain /\ place < Len(trust_chain)
    BY <1>1 DEF CheckSuperior
  <2>. QED
    BY <1>1, <2>1, PlaceIsInChain, SuperiorUpdates DEF CheckTypeOK
<1>2. CASE CheckLeaf
  BY <1>2, PlaceIsInChain DEF CheckTypeOK, CheckLeaf, Leaf
<1>3. CASE UNCHANGED check_vars
  BY <1>3 DEF CheckTypeOK, check_vars
<1>. QED
  BY <1>1, <1>2, <1>3 DEF CheckNext

LEMMA SuperiorPermits ==
  ASSUME CheckTypeOK, PermittedHeld, CheckSuperior
  PROVE  PermittedHeld'
<1>. DEFINE old == loop.naming["permitted"]
            now == loop'.naming["permitted"]
            said == List(place, "permitted")
<1>1. /\ trust_chain \in TrustChains /\ place \in 1..(Len(trust_chain) - 1) /\ Len(trust_chain) \in Nat
      /\ place' = place + 1 /\ trust_chain' = trust_chain /\ loop.verdict = "meets"
  BY PlaceIsInChain DEF CheckTypeOK, CheckSuperior
<1>2. /\ now \in SUBSET Names /\ old \in SUBSET Names
      /\ ~Constrains(place, "permitted") => now = old
      /\ loop'.verdict = "meets" /\ Constrains(place, "permitted") =>
           /\ said \in SUBSET Names /\ said # {}
           /\ now = IF old = {} THEN said ELSE UpdateSpecs(said, old)
  BY SuperiorUpdates DEF CheckTypeOK, NamingKeys
<1>3. /\ (\A i \in 1..(place - 1) : ~Constrains(i, "permitted")) => old = {}
      /\ \A i \in 1..(place - 1) : FirstToSay(i, "permitted") =>
           old # {} /\ \A n \in old : Covered(n, List(i, "permitted"))
  BY <1>1 DEF PermittedHeld, PermittedNarrows
<1>4. PermittedNarrows'
  <2>. SUFFICES ASSUME loop'.verdict = "meets"
                PROVE  /\ (\A i \in 1..place : ~Constrains(i, "permitted")) => now = {}
                       /\ \A i \in 1..place : FirstToSay(i, "permitted") =>
                            now # {} /\ \A n \in now : Covered(n, List(i, "permitted"))
    BY <1>1, ChainStays DEF PermittedNarrows
  <2>1. (\A i \in 1..place : ~Constrains(i, "permitted")) => now = {}
    BY <1>1, <1>2, <1>3
  <2>2. ASSUME NEW i \in 1..place, FirstToSay(i, "permitted")
        PROVE  now # {} /\ \A n \in now : Covered(n, List(i, "permitted"))
    <3>1. CASE i = place
      <4>1. old = {}
        BY <1>1, <1>3, <2>2, <3>1 DEF FirstToSay
      <4>2. now = said /\ said # {} /\ said \in SUBSET Names
        BY <1>2, <2>2, <3>1, <4>1 DEF FirstToSay
      <4>. QED
        BY <3>1, <4>2, MemberIsCovered
    <3>2. CASE i < place
      <4>1. /\ old # {} /\ \A n \in old : Covered(n, List(i, "permitted"))
            /\ List(i, "permitted") \in SUBSET Names
        BY <1>1, <1>3, <2>2, <3>2, ChainsAssumption DEF FirstToSay, Constrains, List, IsNaming
      <4>2. CASE now = old
        BY <4>1, <4>2
      <4>3. CASE now = UpdateSpecs(said, old) /\ said \in SUBSET Names
        BY <4>1, <4>3, UpdateNarrows, CoveredIsTransitive, <1>2
      <4>. QED
        BY <1>2, <4>1, <4>2, <4>3
    <3>. QED
      BY <1>1, <3>1, <3>2
  <2>. QED
    BY <2>1, <2>2
<1>5. PermittedSoFar'
  <2>. SUFFICES ASSUME loop'.verdict = "meets", NEW i \in 1..(Len(trust_chain) - 1),
                       NEW j \in i..place, FirstToSay(i, "permitted"), Checked(j)
                PROVE  Covered(Host[trust_chain[j].sub], List(i, "permitted"))
    BY <1>1, ChainStays DEF PermittedSoFar
  <2>1. CASE j < place
    BY <1>1, <2>1 DEF PermittedHeld, PermittedSoFar
  <2>2. CASE j = place
    <3>1. now # {} /\ \A n \in now : Covered(n, List(i, "permitted"))
      <4>1. place' <= Len(trust_chain') /\ i \in 1..(place' - 1)
        BY <1>1, <2>2
      <4>. QED
        BY <1>1, <1>4, <4>1, ChainStays DEF PermittedNarrows
    <3>2. Complies(trust_chain[place].sub, loop'.naming)
      <4>1. "constraints" \in DOMAIN trust_chain[place] /\ loop' = Superior(loop, trust_chain[place])
        BY <1>1, <2>2 DEF CheckSuperior, Checked
      <4>. QED
        BY <4>1, SuperiorComplies
    <3>. QED
      BY <1>1, <1>2, <2>2, <3>1, <3>2, CompliesIsPermitted
  <2>. QED
    BY <1>1, <2>1, <2>2
<1>. QED
  BY <1>4, <1>5 DEF PermittedHeld

LEMMA LeafPermits ==
  ASSUME CheckTypeOK, PermittedHeld, CheckLeaf
  PROVE  PermittedHeld'
<1>1. /\ trust_chain \in TrustChains /\ place = Len(trust_chain) /\ Len(trust_chain) \in Nat \ {0}
      /\ place' = place + 1 /\ trust_chain' = trust_chain /\ loop.verdict = "meets"
      /\ loop' = Leaf(loop, trust_chain[place]) /\ loop'.naming = loop.naming
  BY PlaceIsInChain DEF CheckTypeOK, CheckLeaf, Leaf
<1>2. PermittedNarrows'
  BY <1>1 DEF PermittedNarrows
<1>3. PermittedSoFar'
  <2>. SUFFICES ASSUME loop'.verdict = "meets", NEW i \in 1..(Len(trust_chain) - 1),
                       NEW j \in i..place, FirstToSay(i, "permitted"), Checked(j)
                PROVE  Covered(Host[trust_chain[j].sub], List(i, "permitted"))
    BY <1>1, ChainStays DEF PermittedSoFar
  <2>1. CASE j < place
    BY <1>1, <2>1 DEF PermittedHeld, PermittedSoFar
  <2>2. CASE j = place
    <3>1. /\ loop.naming["permitted"] # {} /\ loop.naming["permitted"] \in SUBSET Names
          /\ \A n \in loop.naming["permitted"] : Covered(n, List(i, "permitted"))
      BY <1>1 DEF PermittedHeld, PermittedNarrows, CheckTypeOK, NamingKeys
    <3>2. Complies(trust_chain[place].sub, loop.naming)
      BY <1>1 DEF Leaf
    <3>. QED
      BY <1>1, <2>2, <3>1, <3>2, CompliesIsPermitted
  <2>. QED
    BY <1>1, <2>1, <2>2
<1>. QED
  BY <1>2, <1>3 DEF PermittedHeld

LEMMA SuperiorExcludes ==
  ASSUME CheckTypeOK, ExcludedHeld, CheckSuperior
  PROVE  ExcludedHeld'
<1>. DEFINE old == loop.naming["excluded"]
            now == loop'.naming["excluded"]
<1>1. /\ place \in 1..(Len(trust_chain) - 1) /\ Len(trust_chain) \in Nat
      /\ place' = place + 1 /\ trust_chain' = trust_chain /\ loop.verdict = "meets"
  BY PlaceIsInChain DEF CheckSuperior
<1>2. /\ ~Constrains(place, "excluded") => now = old
      /\ loop'.verdict = "meets" /\ Constrains(place, "excluded") /\ old = {} =>
           now = List(place, "excluded")
  BY SuperiorUpdates DEF NamingKeys
<1>3. /\ (\A i \in 1..(place - 1) : ~Constrains(i, "excluded")) => old = {}
      /\ \A i \in 1..(place - 1) : Sole(i) => old = List(i, "excluded")
  BY <1>1 DEF ExcludedHeld, ExclusionStands
<1>4. ASSUME loop'.verdict = "meets", NEW i \in 1..place, Sole(i)
      PROVE  now = List(i, "excluded")
  <2>1. CASE i = place
    <3>1. \A k \in 1..(place - 1) : ~Constrains(k, "excluded")
      BY <1>1, <1>4, <2>1 DEF Sole
    <3>. QED
      BY <1>2, <1>3, <1>4, <2>1, <3>1 DEF Sole
  <2>2. CASE i # place
    <3>1. ~Constrains(place, "excluded")
      BY <1>1, <1>4, <2>2 DEF Sole
    <3>. QED
      BY <1>1, <1>2, <1>3, <1>4, <2>2, <3>1
  <2>. QED
    BY <2>1, <2>2
<1>5. ExclusionStands'
  <2>1. (\A i \in 1..place : ~Constrains(i, "excluded")) => now = {}
    BY <1>1, <1>2, <1>3
  <2>. QED
    BY <1>1, <1>4, <2>1, ChainStays DEF ExclusionStands
<1>6. ExcludedSoFar'
  <2>. SUFFICES ASSUME loop'.verdict = "meets", NEW i \in 1..(Len(trust_chain) - 1),
                       NEW j \in i..place, Sole(i), Checked(j)
                PROVE  ~Covered(Host[trust_chain[j].sub], List(i, "excluded"))
    BY <1>1, ChainStays DEF ExcludedSoFar
  <2>1. CASE j < place
    BY <1>1, <2>1 DEF ExcludedHeld, ExcludedSoFar
  <2>2. CASE j = place
    <3>1. Complies(trust_chain[place].sub, loop'.naming)
      <4>1. "constraints" \in DOMAIN trust_chain[place] /\ loop' = Superior(loop, trust_chain[place])
        BY <1>1, <2>2 DEF CheckSuperior, Checked
      <4>. QED
        BY <4>1, SuperiorComplies
    <3>2. now = List(i, "excluded")
      BY <1>1, <1>4, <2>2
    <3>. QED
      BY <2>2, <3>1, <3>2 DEF Complies
  <2>. QED
    BY <1>1, <2>1, <2>2
<1>. QED
  BY <1>5, <1>6 DEF ExcludedHeld

LEMMA LeafExcludes ==
  ASSUME CheckTypeOK, ExcludedHeld, CheckLeaf
  PROVE  ExcludedHeld'
<1>1. /\ place = Len(trust_chain) /\ Len(trust_chain) \in Nat \ {0}
      /\ place' = place + 1 /\ trust_chain' = trust_chain /\ loop.verdict = "meets"
      /\ loop' = Leaf(loop, trust_chain[place])
  BY PlaceIsInChain DEF CheckLeaf
<1>2. ExclusionStands'
  BY <1>1 DEF ExclusionStands
<1>3. ExcludedSoFar'
  <2>. SUFFICES ASSUME loop'.verdict = "meets", NEW i \in 1..(Len(trust_chain) - 1),
                       NEW j \in i..place, Sole(i), Checked(j)
                PROVE  ~Covered(Host[trust_chain[j].sub], List(i, "excluded"))
    BY <1>1, ChainStays DEF ExcludedSoFar
  <2>1. CASE j < place
    BY <1>1, <2>1 DEF ExcludedHeld, ExcludedSoFar
  <2>2. CASE j = place
    <3>1. loop.naming["excluded"] = List(i, "excluded")
      BY <1>1 DEF ExcludedHeld, ExclusionStands
    <3>2. Complies(trust_chain[place].sub, loop.naming)
      BY <1>1 DEF Leaf
    <3>. QED
      BY <2>2, <3>1, <3>2 DEF Complies
  <2>. QED
    BY <1>1, <2>1, <2>2
<1>. QED
  BY <1>2, <1>3 DEF ExcludedHeld

LEMMA CheckTypes == CheckSpec => []CheckTypeOK
<1>1. CheckInit => CheckTypeOK
  BY CheckInitHolds
<1>. QED
  BY <1>1, CheckStepIsTyped, PTL DEF CheckSpec

\* Whatever superiors further down say, in chains of any length every subject that is
\* checked, the leaf's in particular, is one that the first superior with a permitted
\* list permits.
THEOREM CheckedStayPermitted == CheckSpec => []CheckedArePermitted
<1>1. CheckTypeOK /\ PermittedHeld /\ [CheckNext]_check_vars => PermittedHeld'
  <2>. SUFFICES ASSUME CheckTypeOK, PermittedHeld, [CheckNext]_check_vars PROVE PermittedHeld'
    OBVIOUS
  <2>1. CASE UNCHANGED check_vars
    BY <2>1, ChainStays DEF check_vars, PermittedHeld, PermittedNarrows, PermittedSoFar
  <2>. QED
    BY <2>1, SuperiorPermits, LeafPermits DEF CheckNext
<1>2. CheckTypeOK /\ PermittedHeld => CheckedArePermitted
  BY PlaceIsInChain DEF PermittedHeld, PermittedSoFar, CheckedArePermitted, Accepted
<1>3. CheckInit => PermittedHeld
  BY CheckInitHolds
<1>. QED
  BY <1>1, <1>2, <1>3, CheckTypes, PTL DEF CheckSpec

\* What the only superior with an excluded list excludes stays excluded down to the leaf: a
\* statement that says nothing of it takes nothing from it.
THEOREM SoleExclusionStays == CheckSpec => []SoleExclusionHolds
<1>1. CheckTypeOK /\ ExcludedHeld /\ [CheckNext]_check_vars => ExcludedHeld'
  <2>. SUFFICES ASSUME CheckTypeOK, ExcludedHeld, [CheckNext]_check_vars PROVE ExcludedHeld'
    OBVIOUS
  <2>1. CASE UNCHANGED check_vars
    BY <2>1, ChainStays DEF check_vars, ExcludedHeld, ExclusionStands, ExcludedSoFar
  <2>. QED
    BY <2>1, SuperiorExcludes, LeafExcludes DEF CheckNext
<1>2. CheckTypeOK /\ ExcludedHeld => SoleExclusionHolds
  <2>. SUFFICES ASSUME CheckTypeOK, ExcludedSoFar, Accepted, NEW i \in 1..(Len(trust_chain) - 1),
                       NEW j \in i..Len(trust_chain), Sole(i), Checked(j)
                PROVE  ~Covered(Host[trust_chain[j].sub], List(i, "excluded"))
    BY DEF ExcludedHeld, SoleExclusionHolds, Sole
  <2>1. place = Len(trust_chain) + 1 /\ loop.verdict = "meets" /\ j \in i..(place - 1)
    BY PlaceIsInChain DEF Accepted
  <2>. QED
    BY <2>1 DEF ExcludedSoFar
<1>3. CheckInit => ExcludedHeld
  BY CheckInitHolds
<1>. QED
  BY <1>1, <1>2, <1>3, CheckTypes, PTL DEF CheckSpec
=============================================================================
