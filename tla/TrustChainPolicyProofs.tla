------------------------ MODULE TrustChainPolicyProofs ------------------------
(***************************************************************************)
(* Proofs about TrustChainPolicy, for chains of any length, any claims and *)
(* any values.                                                             *)
(***************************************************************************)
EXTENDS TrustChainPolicy, TLAPS

\* A list of values is told from a single value and from none.
LEMMA ListsAreLists ==
  ASSUME NEW l \in Lists
  PROVE  IsList(l) /\ l # NoValue
  BY PolicyAssumption DEF PolicyAssumption, IsList, Lists

-----------------------------------------------------------------------------
(* Two policies for one claim                                              *)

\* Bounds only get narrower, unless a value is fixed.
LEMMA CombineNarrows ==
  ASSUME NEW sup, NEW sub, NEW op \in {"subset_of", "one_of"}, "value" \notin DOMAIN Combine(sup, sub)
  PROVE  /\ op \in DOMAIN sup => op \in DOMAIN Combine(sup, sub) /\ Combine(sup, sub)[op] \subseteq sup[op]
         /\ op \in DOMAIN sub => op \in DOMAIN Combine(sup, sub) /\ Combine(sup, sub)[op] \subseteq sub[op]
<1>1. "value" \notin DOMAIN sup /\ Combine(sup, sub) = Rule(sup, sub)
  BY DEF Combine
<1>2. op \in DOMAIN sup /\ op \in DOMAIN sub => Joined(op, sup[op], sub[op]) = sup[op] \cap sub[op]
  BY DEF Joined
<1>. QED
  BY <1>1, <1>2 DEF Rule

\* A value stays, and is the superior's if there are two.
LEMMA CombineKeepsValue ==
  ASSUME NEW sup, NEW sub
  PROVE  /\ "value" \in DOMAIN Combine(sup, sub) <=> ("value" \in DOMAIN sup \/ "value" \in DOMAIN sub)
         /\ "value" \in DOMAIN sup => Combine(sup, sub)["value"] = sup["value"]
         /\ "value" \in DOMAIN sub /\ "value" \notin DOMAIN sup => Combine(sup, sub)["value"] = sub["value"]
<1>1. CASE "value" \notin DOMAIN sup
  BY <1>1 DEF Combine, Rule
<1>2. CASE "value" \in DOMAIN sup /\ DOMAIN sub # {"essential"}
  BY <1>2 DEF Combine
<1>3. CASE "value" \in DOMAIN sup /\ DOMAIN sub = {"essential"}
  BY <1>3 DEF Combine
<1>. QED
  BY <1>1, <1>2, <1>3

\* Essential stays, or a value makes up for it.
LEMMA CombineKeepsEssential ==
  ASSUME NEW sup, NEW sub, IsClaimPolicy(sup), IsClaimPolicy(sub),
         \/ "essential" \in DOMAIN sup /\ sup["essential"] = TRUE
         \/ "essential" \in DOMAIN sub /\ sub["essential"] = TRUE
  PROVE  \/ "essential" \in DOMAIN Combine(sup, sub) /\ Combine(sup, sub)["essential"] = TRUE
         \/ "value" \in DOMAIN Combine(sup, sub)
<1>1. CASE "value" \in DOMAIN sup
  BY <1>1, CombineKeepsValue
<1>2. CASE "value" \notin DOMAIN sup
  <2>1. Combine(sup, sub) = Rule(sup, sub)
    BY <1>2 DEF Combine
  <2>2. \A v, w \in BOOLEAN : v = TRUE \/ w = TRUE => Joined("essential", v, w) = TRUE
    BY DEF Joined
  <2>3. /\ "essential" \in DOMAIN sup => sup["essential"] \in BOOLEAN
        /\ "essential" \in DOMAIN sub => sub["essential"] \in BOOLEAN
    BY DEF IsClaimPolicy
  <2>4. "essential" \in DOMAIN Rule(sup, sub) /\ Rule(sup, sub)["essential"] = TRUE
    BY <2>2, <2>3 DEF Rule
  <2>. QED
    BY <2>1, <2>4
<1>. QED
  BY <1>1, <1>2

\* What combines is a policy.
LEMMA CombineIsTyped ==
  ASSUME NEW sup, NEW sub, IsClaimPolicy(sup), IsClaimPolicy(sub)
  PROVE  IsClaimPolicy(Combine(sup, sub))
<1>1. \A v, w \in Data : Joined("add", v, w) \in Data
  BY DEF Joined, AsList, IsList, Data, Lists
<1>2. \A v, w \in Lists : \A op \in {"one_of", "subset_of", "superset_of"} : Joined(op, v, w) \in Lists
  BY DEF Joined, Lists
<1>3. \A v, w \in Data : \A op \in {"value", "default"} : Joined(op, v, w) \in Data
  BY DEF Joined
<1>4. \A v, w \in BOOLEAN : Joined("essential", v, w) \in BOOLEAN
  BY DEF Joined
<1>5. IsClaimPolicy(Rule(sup, sub))
  <2>1. DOMAIN Rule(sup, sub) = DOMAIN sup \cup DOMAIN sub
    BY DEF Rule
  <2>2. \A op \in DOMAIN Rule(sup, sub) :
          Rule(sup, sub)[op] = IF op \notin DOMAIN sub THEN sup[op]
                               ELSE IF op \notin DOMAIN sup THEN sub[op]
                               ELSE Joined(op, sup[op], sub[op])
    BY DEF Rule
  <2>. QED
    BY <1>1, <1>2, <1>3, <1>4, <2>1, <2>2 DEF IsClaimPolicy
<1>. QED
  BY <1>5 DEF Combine, IsClaimPolicy, Operators

-----------------------------------------------------------------------------
(* One claim's policy on its value                                         *)

LEMMA FilledIsTyped ==
  ASSUME NEW p, IsClaimPolicy(p), NEW v \in Data \cup {NoValue}
  PROVE  Filled(p, v) \in Data \cup {NoValue}
<1>. DEFINE added == IF "add" \notin DOMAIN p THEN v
                     ELSE IF v = NoValue THEN p["add"] ELSE AsList(v) \cup AsList(p["add"])
<1>1. \A w \in Data : AsList(w) \in Lists
  BY DEF AsList, IsList, Data, Lists
<1>2. "add" \in DOMAIN p => p["add"] \in Data
  BY DEF IsClaimPolicy
<1>3. added \in Data \cup {NoValue}
  BY <1>1, <1>2 DEF Data, Lists
<1>4. "default" \in DOMAIN p => p["default"] \in Data
  BY DEF IsClaimPolicy
<1>. QED
  BY <1>3, <1>4 DEF Filled

\* What the result of a policy is good for.
LEMMA AppliedAdheres ==
  ASSUME NEW p, IsClaimPolicy(p), NEW v \in Data \cup {NoValue}, Adheres(p, v)
  PROVE  LET r == Applied(p, v) IN
         /\ r \in Data \cup {NoValue}
         /\ "value" \in DOMAIN p => r = p["value"]
         /\ "value" \notin DOMAIN p /\ r # NoValue =>
              /\ "subset_of" \in DOMAIN p /\ IsList(r) => r \subseteq p["subset_of"]
              /\ "one_of" \in DOMAIN p /\ ~IsList(r) => r \in p["one_of"]
         /\ "essential" \in DOMAIN p /\ p["essential"] => r # NoValue
<1>. DEFINE r == Applied(p, v)
            filled == Filled(p, v)
<1>1. CASE "value" \in DOMAIN p
  <2>1. r = p["value"] /\ p["value"] \in Data
    BY <1>1 DEF Applied, IsClaimPolicy
  <2>. QED
    BY <1>1, <2>1 DEF Adheres
<1>2. CASE "value" \notin DOMAIN p
  <2>1. filled \in Data \cup {NoValue}
    BY FilledIsTyped
  <2>. HIDE DEF filled
  <2>2. CASE OneOfDecides(p, filled)
    <3>1. r = filled
      BY <1>2, <2>2 DEF Applied, filled
    <3>2. filled \in p["one_of"]
      BY <1>2, <2>2 DEF Adheres, AdheresUnlessEssential, filled
    <3>. QED
      BY <1>2, <2>1, <2>2, <3>1, <3>2 DEF OneOfDecides
  <2>3. CASE ~OneOfDecides(p, filled)
    <3>1. r = Narrowed(p, filled)
      BY <1>2, <2>3 DEF Applied, filled
    <3>2. "subset_of" \in DOMAIN p /\ filled # NoValue => IsList(filled)
      BY <1>2, <2>3 DEF Adheres, AdheresUnlessEssential, filled
    <3>3. "essential" \in DOMAIN p /\ p["essential"] => r # NoValue
      BY DEF Adheres
    <3>4. CASE "subset_of" \in DOMAIN p /\ filled # NoValue
      <4>1. filled \in Lists /\ p["subset_of"] \in Lists
        BY <2>1, <3>2, <3>4 DEF IsList, Data, IsClaimPolicy
      <4>2. r = filled \cap p["subset_of"] /\ r \in Lists
        BY <3>1, <3>2, <3>4, <4>1 DEF Narrowed, Lists
      <4>. QED
        BY <1>2, <3>3, <4>2, ListsAreLists DEF Data
    <3>5. CASE ~("subset_of" \in DOMAIN p /\ filled # NoValue)
      <4>1. r = filled
        BY <3>1, <3>5 DEF Narrowed
      <4>. QED
        BY <1>2, <2>1, <2>3, <3>3, <3>5, <4>1 DEF OneOfDecides
    <3>. QED
      BY <3>4, <3>5
  <2>. QED
    BY <2>2, <2>3
<1>. QED
  BY <1>1, <1>2

\* A claim that has a value keeps one, also under an operator that raises.
LEMMA ValuesStay ==
  ASSUME NEW p, IsClaimPolicy(p), NEW v \in Data
  PROVE  Applied(p, v) \in Data
<1>1. NoValue \notin Data
  BY PolicyAssumption DEF PolicyAssumption, Data
<1>2. Filled(p, v) \in Data
  <2>1. v # NoValue
    BY <1>1
  <2>2. AsList(v) \cup AsList(p["add"]) \in Data \/ "add" \notin DOMAIN p
    BY DEF AsList, IsList, Data, Lists, IsClaimPolicy
  <2>. QED
    BY <1>1, <2>1, <2>2 DEF Filled
<1>3. \A w \in Data : Narrowed(p, w) \in Data
  BY DEF Narrowed, IsList, Data, Lists
<1>4. "value" \in DOMAIN p => p["value"] \in Data
  BY DEF IsClaimPolicy
<1>. QED
  BY <1>2, <1>3, <1>4 DEF Applied

LEMMA ReachedIsTyped ==
  ASSUME NEW p, IsClaimPolicy(p), NEW v \in Data \cup {NoValue}
  PROVE  Reached(p, v) \in Data \cup {NoValue}
<1>1. \A w \in Data \cup {NoValue} : Narrowed(p, w) \in Data \cup {NoValue}
  BY DEF Narrowed, IsList, Data, Lists
<1>. QED
  BY <1>1, FilledIsTyped DEF Reached

-----------------------------------------------------------------------------
(* The inductive invariant                                                 *)

TypeInv ==
  /\ chain \in Chains
  /\ pos \in 1..(Len(chain) + 1)
  /\ IsMetadata(rule.metadata) /\ IsPolicy(rule.metadata_policy)
  /\ todo \subseteq DOMAIN rule.metadata_policy
  /\ IsMetadata(metadata)
  /\ outcome = "gathering" => todo = {} /\ (leaf # NoValue => IsMetadata(leaf))
  /\ outcome \in {"applying", "applied"} => pos = Len(chain) + 1
  /\ outcome = "applied" => todo = {}

\* What rule has of the statement at i for claim x: bounds no wider, the first value,
\* essential or a value.
Keeps(r, i, x) ==
  /\ \A op \in {"subset_of", "one_of"} : Says(i, x, op) =>
       /\ x \in DOMAIN r
       /\ "value" \notin DOMAIN r[x] => op \in DOMAIN r[x] /\ r[x][op] \subseteq Said(i, x, op)
  /\ Says(i, x, "value") => x \in DOMAIN r /\ "value" \in DOMAIN r[x]
  /\ Says(i, x, "essential") /\ Said(i, x, "essential") = TRUE =>
       /\ x \in DOMAIN r
       /\ ("essential" \in DOMAIN r[x] /\ r[x]["essential"] = TRUE) \/ "value" \in DOMAIN r[x]

\* A value in the rule is that of the first statement that has one.
ValueIsFirst(r, n, x) ==
  x \in DOMAIN r /\ "value" \in DOMAIN r[x] =>
    \E i \in 1..n : /\ Says(i, x, "value") /\ r[x]["value"] = Said(i, x, "value")
                    /\ \A j \in 1..(i - 1) : ~Says(j, x, "value")

\* The rule has what each statement gathered so far asks for.
RuleKeeps ==
  outcome # "policy_error" =>
    /\ \A i \in 1..(pos - 1), x \in Claims : Keeps(rule.metadata_policy, i, x)
    /\ \A x \in Claims : ValueIsFirst(rule.metadata_policy, pos - 1, x)
    /\ \A i \in 1..(pos - 1) : \A x \in DOMAIN chain[i].metadata :
         x \in DOMAIN rule.metadata /\ rule.metadata[x] = chain[i].metadata[x]

\* Claims that have been visited have a value their policy is content with.
IsContent(p, m, x) ==
  /\ "value" \in DOMAIN p => x \in DOMAIN m /\ m[x] = p["value"]
  /\ "value" \notin DOMAIN p /\ x \in DOMAIN m =>
       /\ "subset_of" \in DOMAIN p /\ IsList(m[x]) => m[x] \subseteq p["subset_of"]
       /\ "one_of" \in DOMAIN p /\ ~IsList(m[x]) => m[x] \in p["one_of"]
  /\ "essential" \in DOMAIN p /\ p["essential"] = TRUE => x \in DOMAIN m

VisitedAreContent ==
  outcome \in {"applying", "applied"} =>
    \A x \in DOMAIN rule.metadata_policy \ todo :
      IsContent(rule.metadata_policy[x], metadata, x)

IInv == TypeInv /\ RuleKeeps /\ VisitedAreContent

LEMMA ChainType ==
  ASSUME chain \in Chains
  PROVE  /\ Len(chain) \in Nat
         /\ \A i \in 1..Len(chain) : IsMetadata(chain[i].metadata) /\ IsPolicy(chain[i].metadata_policy)
  BY PolicyAssumption DEF PolicyAssumption

LEMMA InitIInv == Init => IInv
<1>. SUFFICES ASSUME Init
              PROVE  IInv
  OBVIOUS
<1>1. DOMAIN NoRule.metadata = {} /\ DOMAIN NoRule.metadata_policy = {} /\ DOMAIN <<>> = {}
  BY DEF NoRule
<1>2. TypeInv
  BY <1>1, ChainType, PolicyAssumption DEF PolicyAssumption, Init, TypeInv, IsMetadata, IsPolicy
<1>3. RuleKeeps
  BY <1>1 DEF Init, RuleKeeps, ValueIsFirst
<1>. QED
  BY <1>2, <1>3 DEF Init, IInv, VisitedAreContent

-----------------------------------------------------------------------------
(* Gathering                                                               *)

LEMMA FirstIInv == IInv /\ FirstStatement => IInv'
<1>. SUFFICES ASSUME IInv, FirstStatement
              PROVE  IInv'
  OBVIOUS
<1>1. /\ chain \in Chains /\ chain' = chain /\ Len(chain) \in Nat /\ pos' = 2 /\ rule' = chain[1]
      /\ outcome = "gathering" /\ UNCHANGED <<leaf, todo, metadata, outcome>> /\ todo = {}
  BY ChainType DEF IInv, TypeInv, FirstStatement
<1>2. 1 \in 1..Len(chain)
  <2>1. Len(chain) # 0
    BY <1>1 DEF FirstStatement, IInv, TypeInv
  <2>. QED
    BY <1>1, <2>1
<1>3. TypeInv'
  BY <1>1, <1>2, ChainType DEF IInv, TypeInv
<1>4. RuleKeeps'
  <2>1. ASSUME NEW x \in Claims
        PROVE  Keeps(chain[1].metadata_policy, 1, x) /\ ValueIsFirst(chain[1].metadata_policy, 1, x)
    BY DEF Keeps, ValueIsFirst, Says, Said
  <2>. QED
    BY <1>1, <2>1 DEF RuleKeeps, Keeps, ValueIsFirst, Says, Said
<1>. QED
  BY <1>1, <1>3, <1>4 DEF IInv, VisitedAreContent

\* What is combined with the rule for a claim is kept, and what it kept stays kept.
LEMMA CombiningKeeps ==
  ASSUME TypeInv, NEW k \in 1..Len(chain), NEW x \in Claims,
         \A i \in 1..(k - 1) : Keeps(rule.metadata_policy, i, x)
  PROVE  LET c == CombinePolicies(rule.metadata_policy, chain[k].metadata_policy)
         IN  \A i \in 1..k : Keeps(c, i, x)
<1>. DEFINE r == rule.metadata_policy
            s == chain[k].metadata_policy
            c == CombinePolicies(r, s)
<1>1. /\ IsPolicy(r) /\ IsPolicy(s) /\ DOMAIN c = DOMAIN r \cup DOMAIN s
      /\ x \in DOMAIN r \ DOMAIN s => c[x] = r[x]
      /\ x \in DOMAIN s \ DOMAIN r => c[x] = s[x]
      /\ x \in DOMAIN r \cap DOMAIN s => c[x] = Combine(r[x], s[x])
  BY ChainType DEF TypeInv, CombinePolicies
<1>2. x \in DOMAIN r => IsClaimPolicy(r[x])
  BY <1>1 DEF IsPolicy
<1>3. x \in DOMAIN s => IsClaimPolicy(s[x])
  BY <1>1 DEF IsPolicy
<1>4. Len(chain) \in Nat
  BY ChainType DEF TypeInv
<1>. HIDE DEF c, r
<1>5. ASSUME NEW i \in 1..(k - 1), Keeps(r, i, x)
      PROVE  Keeps(c, i, x)
  <2>1. CASE x \notin DOMAIN s
    BY <1>1, <1>5, <2>1 DEF Keeps
  <2>2. CASE x \notin DOMAIN r
    BY <1>1, <1>5, <2>2 DEF Keeps
  <2>3. CASE x \in DOMAIN r \cap DOMAIN s
    <3>1. \A op \in {"subset_of", "one_of"} : Says(i, x, op) /\ "value" \notin DOMAIN c[x] =>
            op \in DOMAIN c[x] /\ c[x][op] \subseteq Said(i, x, op)
      BY <1>1, <1>5, <2>3, CombineNarrows, CombineKeepsValue DEF Keeps
    <3>2. Says(i, x, "value") => "value" \in DOMAIN c[x]
      BY <1>1, <1>5, <2>3, CombineKeepsValue DEF Keeps
    <3>3. ASSUME Says(i, x, "essential"), Said(i, x, "essential") = TRUE
          PROVE  ("essential" \in DOMAIN c[x] /\ c[x]["essential"] = TRUE) \/ "value" \in DOMAIN c[x]
      <4>1. CASE "value" \in DOMAIN r[x]
        BY <1>1, <2>3, <4>1, CombineKeepsValue
      <4>2. CASE "value" \notin DOMAIN r[x]
        <5>1. "essential" \in DOMAIN r[x] /\ r[x]["essential"] = TRUE
          BY <1>5, <3>3, <4>2 DEF Keeps
        <5>2. c[x] = Combine(r[x], s[x]) /\ IsClaimPolicy(r[x]) /\ IsClaimPolicy(s[x])
          BY <1>1, <1>2, <1>3, <2>3
        <5>. QED
          BY <5>1, <5>2, CombineKeepsEssential
      <4>. QED
        BY <4>1, <4>2
    <3>. QED
      BY <1>1, <2>3, <3>1, <3>2, <3>3 DEF Keeps
  <2>. QED
    BY <2>1, <2>2, <2>3
<1>6. Keeps(c, k, x)
  <2>1. CASE x \notin DOMAIN s
    BY <2>1 DEF Keeps, Says
  <2>2. CASE x \in DOMAIN s \ DOMAIN r
    BY <1>1, <2>2 DEF Keeps, Says, Said
  <2>3. CASE x \in DOMAIN r \cap DOMAIN s
    <3>1. \A op \in {"subset_of", "one_of"} : Says(k, x, op) /\ "value" \notin DOMAIN c[x] =>
            op \in DOMAIN c[x] /\ c[x][op] \subseteq Said(k, x, op)
      BY <1>1, <2>3, CombineNarrows DEF Says, Said
    <3>2. Says(k, x, "value") => "value" \in DOMAIN c[x]
      BY <1>1, <2>3, CombineKeepsValue DEF Says
    <3>3. Says(k, x, "essential") /\ Said(k, x, "essential") = TRUE =>
            ("essential" \in DOMAIN c[x] /\ c[x]["essential"] = TRUE) \/ "value" \in DOMAIN c[x]
      BY <1>1, <1>2, <1>3, <2>3, CombineKeepsEssential DEF Says, Said
    <3>. QED
      BY <1>1, <2>3, <3>1, <3>2, <3>3 DEF Keeps
  <2>. QED
    BY <2>1, <2>2, <2>3
<1>. QED
  BY <1>4, <1>5, <1>6 DEF c, r

\* So does the first value.
LEMMA CombiningKeepsFirst ==
  ASSUME TypeInv, NEW k \in 1..Len(chain), NEW x \in Claims,
         ValueIsFirst(rule.metadata_policy, k - 1, x),
         \A i \in 1..(k - 1) : Keeps(rule.metadata_policy, i, x)
  PROVE  ValueIsFirst(CombinePolicies(rule.metadata_policy, chain[k].metadata_policy), k, x)
<1>. DEFINE r == rule.metadata_policy
            s == chain[k].metadata_policy
            c == CombinePolicies(r, s)
<1>1. /\ DOMAIN c = DOMAIN r \cup DOMAIN s
      /\ x \in DOMAIN r \ DOMAIN s => c[x] = r[x]
      /\ x \in DOMAIN s \ DOMAIN r => c[x] = s[x]
      /\ x \in DOMAIN r \cap DOMAIN s => c[x] = Combine(r[x], s[x])
  BY DEF CombinePolicies
<1>2. Len(chain) \in Nat
  BY ChainType DEF TypeInv
<1>. HIDE DEF c, r
<1>. SUFFICES ASSUME x \in DOMAIN c, "value" \in DOMAIN c[x]
              PROVE  \E i \in 1..k : /\ Says(i, x, "value") /\ c[x]["value"] = Said(i, x, "value")
                                     /\ \A j \in 1..(i - 1) : ~Says(j, x, "value")
  BY DEF ValueIsFirst, c, r
<1>3. CASE x \in DOMAIN r /\ "value" \in DOMAIN r[x]
  <2>1. c[x]["value"] = r[x]["value"]
    BY <1>1, <1>3, CombineKeepsValue
  <2>. QED
    BY <1>2, <1>3, <2>1 DEF ValueIsFirst, r
<1>4. CASE ~(x \in DOMAIN r /\ "value" \in DOMAIN r[x])
  <2>1. \A j \in 1..(k - 1) : ~Says(j, x, "value")
    BY <1>4 DEF Keeps, r
  <2>2. Says(k, x, "value") /\ c[x]["value"] = Said(k, x, "value")
    BY <1>1, <1>4, CombineKeepsValue DEF Says, Said
  <2>. QED
    BY <1>2, <2>1, <2>2
<1>. QED
  BY <1>3, <1>4

LEMMA NextIInv == IInv /\ NextStatement => IInv'
<1>. SUFFICES ASSUME IInv, NextStatement
              PROVE  IInv'
  OBVIOUS
<1>. DEFINE s == chain[pos]
<1>1. /\ chain \in Chains /\ chain' = chain /\ Len(chain) \in Nat /\ pos \in 1..Len(chain) /\ pos' = pos + 1
      /\ outcome = "gathering" /\ UNCHANGED <<leaf, todo, metadata>> /\ todo = {}
      /\ IsMetadata(s.metadata) /\ IsPolicy(s.metadata_policy)
  <2>1. chain \in Chains /\ chain' = chain /\ Len(chain) \in Nat /\ pos \in 1..Len(chain)
    BY ChainType DEF IInv, TypeInv, NextStatement
  <2>. QED
    BY <2>1, ChainType DEF IInv, TypeInv, NextStatement
<1>2. CASE outcome' = "policy_error" /\ rule' = rule
  BY <1>1, <1>2 DEF IInv, TypeInv, RuleKeeps, VisitedAreContent
<1>3. CASE /\ MetadataAgrees(rule.metadata, s.metadata)
           /\ rule' = [metadata |-> Updated(rule.metadata, s.metadata),
                       metadata_policy |-> CombinePolicies(rule.metadata_policy, s.metadata_policy)]
           /\ outcome' = outcome
  <2>1. IsMetadata(rule'.metadata)
    BY <1>1, <1>3 DEF IInv, TypeInv, IsMetadata, Updated
  <2>2. IsPolicy(rule'.metadata_policy)
    BY <1>1, <1>3, CombineIsTyped DEF IInv, TypeInv, IsPolicy, CombinePolicies
  <2>3. TypeInv'
    BY <1>1, <1>3, <2>1, <2>2 DEF IInv, TypeInv
  <2>4. \A i \in 1..pos, x \in Claims : Keeps(rule'.metadata_policy, i, x)
    BY <1>1, <1>3, CombiningKeeps DEF IInv, RuleKeeps
  <2>5. \A x \in Claims : ValueIsFirst(rule'.metadata_policy, pos, x)
    BY <1>1, <1>3, CombiningKeepsFirst DEF IInv, RuleKeeps
  <2>6. ASSUME NEW i \in 1..pos, NEW x \in DOMAIN chain[i].metadata
        PROVE  x \in DOMAIN rule'.metadata /\ rule'.metadata[x] = chain[i].metadata[x]
    <3>1. CASE i = pos
      BY <1>3, <2>6, <3>1 DEF Updated
    <3>2. CASE i \in 1..(pos - 1)
      <4>1. x \in DOMAIN rule.metadata /\ rule.metadata[x] = chain[i].metadata[x]
        BY <1>1, <2>6, <3>2 DEF IInv, RuleKeeps
      <4>. QED
        BY <1>3, <4>1 DEF Updated, MetadataAgrees
    <3>. QED
      BY <1>1, <3>1, <3>2
  <2>7. RuleKeeps'
    BY <1>1, <2>4, <2>5, <2>6 DEF RuleKeeps, Keeps, ValueIsFirst, Says, Said
  <2>. QED
    BY <1>1, <1>3, <2>3, <2>7 DEF IInv, VisitedAreContent
<1>. QED
  BY <1>2, <1>3 DEF NextStatement

-----------------------------------------------------------------------------
(* Applying                                                                *)

LEMMA StartIInv == IInv /\ StartApplying => IInv'
<1>. SUFFICES ASSUME IInv, StartApplying
              PROVE  IInv'
  OBVIOUS
<1>1. Len(chain) \in Nat /\ pos = Len(chain) + 1
  BY ChainType DEF IInv, TypeInv, StartApplying
<1>2. IsMetadata(metadata')
  BY DEF StartApplying, IInv, TypeInv, IsMetadata, Updated
<1>3. TypeInv'
  BY <1>1, <1>2 DEF IInv, TypeInv, StartApplying
<1>4. RuleKeeps'
  BY DEF IInv, StartApplying, RuleKeeps, Keeps, ValueIsFirst, Says, Said
<1>5. VisitedAreContent'
  BY DEF StartApplying, VisitedAreContent
<1>. QED
  BY <1>3, <1>4, <1>5 DEF IInv

LEMMA ApplyIInv ==
  ASSUME IInv, NEW x \in Claims, ApplyClaim(x)
  PROVE  IInv'
<1>. DEFINE p == rule.metadata_policy[x]
            v == ValueOf(x)
            r == IF Adheres(p, v) THEN Applied(p, v) ELSE Reached(p, v)
<1>1. x \in todo /\ x \in DOMAIN rule.metadata_policy /\ IsClaimPolicy(p) /\ outcome = "applying"
  BY DEF IInv, TypeInv, IsPolicy, ApplyClaim
<1>2. v \in Data \cup {NoValue} /\ (x \in DOMAIN metadata => v \in Data /\ v = metadata[x])
  BY DEF IInv, TypeInv, IsMetadata, ValueOf
<1>3. /\ metadata' = With(x, r) /\ todo' = todo \ {x} /\ UNCHANGED <<chain, pos, rule>>
      /\ outcome' = IF Adheres(p, v) THEN "applying" ELSE "policy_error"
  BY <1>1 DEF ApplyClaim
<1>4. r \in Data \cup {NoValue}
  BY <1>1, <1>2, AppliedAdheres, ReachedIsTyped
<1>. HIDE DEF p, v, r
<1>5. IsMetadata(metadata')
  BY <1>3, <1>4 DEF IInv, TypeInv, IsMetadata, With, Updated
<1>6. TypeInv'
  BY <1>1, <1>3, <1>5 DEF IInv, TypeInv
<1>7. RuleKeeps'
  BY <1>1, <1>3 DEF IInv, RuleKeeps, Keeps, ValueIsFirst, Says, Said
<1>8. ASSUME Adheres(p, v), NEW y \in DOMAIN rule.metadata_policy \ todo'
      PROVE  IsContent(rule.metadata_policy[y], metadata', y)
  <2>1. CASE y = x
    <3>1. r = Applied(p, v)
      BY <1>8 DEF r
    <3>2. x \in DOMAIN metadata' => r # NoValue /\ metadata'[x] = r
      <4>1. r = NoValue => x \notin DOMAIN metadata
        BY <1>1, <1>2, <3>1, ValuesStay, PolicyAssumption DEF PolicyAssumption, Data
      <4>. QED
        BY <1>3, <4>1 DEF With, Updated
    <3>3. r # NoValue => x \in DOMAIN metadata' /\ metadata'[x] = r
      BY <1>3 DEF With, Updated
    <3>4. "value" \in DOMAIN p => p["value"] # NoValue
      BY <1>1, PolicyAssumption DEF PolicyAssumption, IsClaimPolicy, Data
    <3>5. IsContent(p, metadata', x)
      BY <1>1, <1>2, <1>8, <3>1, <3>2, <3>3, <3>4, AppliedAdheres DEF IsContent
    <3>. QED
      BY <2>1, <3>5 DEF p
  <2>2. CASE y # x
    <3>1. y \in DOMAIN rule.metadata_policy \ todo
      BY <1>3, <1>8, <2>2
    <3>2. IsContent(rule.metadata_policy[y], metadata, y)
      BY <1>1, <3>1 DEF IInv, VisitedAreContent
    <3>3. (y \in DOMAIN metadata' <=> y \in DOMAIN metadata) /\ (y \in DOMAIN metadata => metadata'[y] = metadata[y])
      BY <1>3, <2>2 DEF With, Updated
    <3>. QED
      BY <3>2, <3>3 DEF IsContent
  <2>. QED
    BY <2>1, <2>2
<1>9. VisitedAreContent'
  BY <1>3, <1>8 DEF VisitedAreContent
<1>. QED
  BY <1>6, <1>7, <1>9 DEF IInv

LEMMA Inductive == IInv /\ [Next]_vars => IInv'
<1>. SUFFICES ASSUME IInv, [Next]_vars
              PROVE  IInv'
  OBVIOUS
<1>1. CASE NoSuperior
  BY <1>1 DEF NoSuperior, IInv, TypeInv, RuleKeeps, VisitedAreContent, Keeps, ValueIsFirst, Says, Said
<1>2. CASE NotOfType
  BY <1>2 DEF NotOfType, IInv, TypeInv, RuleKeeps, VisitedAreContent, Keeps, ValueIsFirst, Says, Said
<1>3. CASE Return
  BY <1>3 DEF Return, IInv, TypeInv, RuleKeeps, VisitedAreContent, Keeps, ValueIsFirst, Says, Said
<1>4. CASE UNCHANGED vars
  BY <1>4 DEF vars, IInv, TypeInv, RuleKeeps, VisitedAreContent, Keeps, ValueIsFirst, Says, Said
<1>. QED
  BY <1>1, <1>2, <1>3, <1>4, FirstIInv, NextIInv, StartIInv, ApplyIInv DEF Next

-----------------------------------------------------------------------------
(* What follows for metadata that got through                              *)

\* With everything gathered and applied, the rule keeps what every superior said and
\* the metadata is content with the rule.
LEMMA AtTheEnd ==
  ASSUME IInv, outcome = "applied", NEW i \in 1..Len(chain), NEW x, NEW op, Says(i, x, op)
  PROVE  /\ x \in Claims /\ IsClaimPolicy(chain[i].metadata_policy[x])
         /\ Keeps(rule.metadata_policy, i, x)
         /\ ValueIsFirst(rule.metadata_policy, Len(chain), x)
         /\ x \in DOMAIN rule.metadata_policy =>
              /\ IsContent(rule.metadata_policy[x], metadata, x)
              /\ IsClaimPolicy(rule.metadata_policy[x])
<1>1. x \in Claims /\ IsClaimPolicy(chain[i].metadata_policy[x])
  BY ChainType DEF IInv, TypeInv, IsPolicy, Says
<1>2. Len(chain) \in Nat /\ pos = Len(chain) + 1 /\ todo = {}
  BY ChainType DEF IInv, TypeInv
<1>3. Keeps(rule.metadata_policy, i, x) /\ ValueIsFirst(rule.metadata_policy, Len(chain), x)
  BY <1>1, <1>2 DEF IInv, RuleKeeps
<1>4. x \in DOMAIN rule.metadata_policy =>
        /\ IsContent(rule.metadata_policy[x], metadata, x)
        /\ IsClaimPolicy(rule.metadata_policy[x])
  BY <1>2 DEF IInv, TypeInv, VisitedAreContent, IsPolicy
<1>. QED
  BY <1>1, <1>3, <1>4

LEMMA IInvNarrows == IInv => SuperiorsNarrow
<1>. SUFFICES ASSUME IInv, outcome = "applied",
                     NEW i \in 1..Len(chain), NEW x \in DOMAIN metadata, ~HasValue(x),
                     NEW op \in {"subset_of", "one_of"}, Says(i, x, op)
              PROVE  /\ op = "subset_of" /\ IsList(metadata[x]) => metadata[x] \subseteq Said(i, x, op)
                     /\ op = "one_of" /\ ~IsList(metadata[x]) => metadata[x] \in Said(i, x, op)
  BY DEF SuperiorsNarrow, Within
<1>. DEFINE p == rule.metadata_policy[x]
<1>1. x \in DOMAIN rule.metadata_policy
  BY AtTheEnd DEF Keeps
<1>2. "value" \notin DOMAIN p
  BY <1>1, AtTheEnd DEF ValueIsFirst, HasValue
<1>3. op \in DOMAIN p /\ p[op] \subseteq Said(i, x, op)
  BY <1>2, AtTheEnd DEF Keeps
<1>4. IsContent(p, metadata, x)
  BY <1>1, AtTheEnd
<1>. QED
  BY <1>2, <1>3, <1>4 DEF IsContent

\* A value is compared with values only: what else superiors say of the claim gives way to it.
FirstValueStands ==
  outcome = "applied" => \A i \in 1..Len(chain), x \in Claims :
    Says(i, x, "value") /\ (\A j \in 1..(i - 1) : ~Says(j, x, "value")) =>
      x \in DOMAIN metadata /\ metadata[x] = Said(i, x, "value")

LEMMA IInvFirstValue == IInv => FirstValueStands
<1>. SUFFICES ASSUME IInv, outcome = "applied", NEW i \in 1..Len(chain), NEW x \in Claims,
                     Says(i, x, "value"), \A j \in 1..(i - 1) : ~Says(j, x, "value")
              PROVE  x \in DOMAIN metadata /\ metadata[x] = Said(i, x, "value")
  BY DEF FirstValueStands
<1>. DEFINE p == rule.metadata_policy[x]
<1>1. x \in DOMAIN rule.metadata_policy /\ "value" \in DOMAIN p
  BY AtTheEnd DEF Keeps
<1>2. PICK k \in 1..Len(chain) : /\ Says(k, x, "value") /\ p["value"] = Said(k, x, "value")
                                 /\ \A j \in 1..(k - 1) : ~Says(j, x, "value")
  BY <1>1, AtTheEnd DEF ValueIsFirst
<1>3. Len(chain) \in Nat
  BY ChainType DEF IInv, TypeInv
<1>4. k = i
  BY <1>2, <1>3
<1>5. IsContent(p, metadata, x)
  BY <1>1, AtTheEnd
<1>. QED
  BY <1>1, <1>2, <1>4, <1>5 DEF IsContent

LEMMA IInvEssential == IInv => EssentialIsThere
<1>. SUFFICES ASSUME IInv, outcome = "applied", NEW i \in 1..Len(chain), NEW x \in Claims,
                     Says(i, x, "essential"), Said(i, x, "essential")
              PROVE  x \in DOMAIN metadata
  BY DEF EssentialIsThere
<1>. DEFINE p == rule.metadata_policy[x]
<1>1. Said(i, x, "essential") = TRUE
  <2>1. Said(i, x, "essential") \in BOOLEAN
    BY AtTheEnd DEF IsClaimPolicy, Says, Said
  <2>. QED
    BY <2>1
<1>2. /\ x \in DOMAIN rule.metadata_policy
      /\ ("essential" \in DOMAIN p /\ p["essential"] = TRUE) \/ "value" \in DOMAIN p
  BY <1>1, AtTheEnd DEF Keeps
<1>3. IsContent(p, metadata, x)
  BY <1>2, AtTheEnd
<1>. QED
  BY <1>2, <1>3 DEF IsContent

LEMMA IInvAgrees == IInv => SuperiorsAgree
<1>. SUFFICES ASSUME IInv, outcome = "applied", NEW i \in 1..Len(chain), NEW j \in 1..Len(chain),
                     NEW x \in DOMAIN chain[i].metadata \cap DOMAIN chain[j].metadata
              PROVE  chain[i].metadata[x] = chain[j].metadata[x]
  BY DEF SuperiorsAgree
<1>1. Len(chain) \in Nat /\ pos = Len(chain) + 1
  BY ChainType DEF IInv, TypeInv
<1>2. \A k \in 1..Len(chain) : \A y \in DOMAIN chain[k].metadata : rule.metadata[y] = chain[k].metadata[y]
  BY <1>1 DEF IInv, RuleKeeps
<1>. QED
  BY <1>2

-----------------------------------------------------------------------------

\* Metadata that got through is within the bounds of every superior in the chain,
\* unless one of them fixes the value (SuperiorsNarrow).
THEOREM SuperiorsBoundTheLeaf == Spec => []SuperiorsNarrow
  BY InitIInv, Inductive, IInvNarrows, PTL DEF Spec

\* The first value in the chain is the claim's, whatever bounds others give it (FirstValueStands):
\* the one way metadata that got through leaves a superior's bounds.
THEOREM FirstValueIsTheClaims == Spec => []FirstValueStands
  BY InitIInv, Inductive, IInvFirstValue, PTL DEF Spec

\* What any superior calls essential is there (EssentialIsThere).
THEOREM EssentialClaimsAreThere == Spec => []EssentialIsThere
  BY InitIInv, Inductive, IInvEssential, PTL DEF Spec

\* No two superiors of metadata that got through disagree (SuperiorsAgree).
THEOREM SuperiorsDoNotDisagree == Spec => []SuperiorsAgree
  BY InitIInv, Inductive, IInvAgrees, PTL DEF Spec
=============================================================================
