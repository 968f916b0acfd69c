---------------------------- MODULE MetadataPolicy ----------------------------
(***************************************************************************)
(* entity/function/policy.py and policy_operator.py: how the policies of   *)
(* two statements are combined and how a combined policy is applied, one   *)
(* claim at a time.                                                        *)
(*                                                                         *)
(* The policy for a claim is a function from the operators it has to their *)
(* values, metadata a function from the claims it has to theirs.  A list   *)
(* is the set of its members.  A single value is a string: where the code  *)
(* makes a set of one by mistake, it gets the set of its characters.       *)
(***************************************************************************)
CONSTANTS
  Values,       \* single values of claims
  Character,    \* stands for the characters of a value
  NoValue       \* stands for a claim that is not there

Operators == {"value", "add", "default", "one_of", "subset_of", "superset_of", "essential"}
Lists == SUBSET Values
Data == Values \cup Lists

\* isinstance(v, list)
IsList(v) == v \notin Values
AsList(v) == IF IsList(v) THEN v ELSE {v}
\* set(v)
Members(v) == IF IsList(v) THEN v ELSE {Character}

-----------------------------------------------------------------------------
(* combine_claim_policy                                                    *)

\* Operators both sides have: how they are joined, and whether they can be.  The
\* variant keeps the subordinate's own list.
JoinedBySubordinate(op, sup, sub) ==
  CASE op = "add" -> AsList(sup) \cup AsList(sub)
    [] op = "essential" -> sup \/ sub
    [] op \in {"one_of", "subset_of", "superset_of", "value", "default"} -> sub
Joined(op, sup, sub) ==
  CASE op \in {"one_of", "subset_of", "superset_of"} -> sup \cap sub
    [] op = "add" -> AsList(sup) \cup AsList(sub)
    [] op = "essential" -> sup \/ sub
    [] op \in {"value", "default"} -> sup

CanJoin(op, sup, sub) ==
  CASE op \in {"one_of", "subset_of", "superset_of", "add"} -> Joined(op, sup, sub) # {}
    [] op = "essential" -> sup => sub
    [] op \in {"value", "default"} -> sup = sub

\* The rule, operator by operator.
Rule(sup, sub) ==
  [op \in DOMAIN sup \cup DOMAIN sub |->
     IF op \notin DOMAIN sub THEN sup[op]
     ELSE IF op \notin DOMAIN sup THEN sub[op]
     ELSE Joined(op, sup[op], sub[op])]

\* The operators of a rule that are compared with each other, when it has just these.
FitTogether(rule) ==
  LET Has(ops) == DOMAIN rule = ops IN
  /\ Has({"superset_of", "subset_of"}) \/ Has({"superset_of", "subset_of", "default"})
       => rule["superset_of"] \subseteq rule["subset_of"]
  /\ Has({"subset_of", "default"}) \/ Has({"superset_of", "subset_of", "default"})
       => Members(rule["default"]) \subseteq rule["subset_of"]
  /\ Has({"superset_of", "default"}) \/ Has({"superset_of", "subset_of", "default"})
       => rule["superset_of"] \subseteq Members(rule["default"])
  /\ Has({"one_of", "default"}) => AsList(rule["default"]) \subseteq rule["one_of"]
  /\ Has({"subset_of", "add"}) => Members(rule["add"]) \subseteq rule["subset_of"]
  /\ Has({"superset_of", "add"}) => rule["superset_of"] \subseteq Members(rule["add"])

\* What can be added to a fixed value: nothing, essential, or the same value.
AddsNothing(sup, sub) ==
  \/ DOMAIN sub = {} \/ DOMAIN sub = {"essential"}
  \/ /\ "value" \in DOMAIN sub /\ "essential" \notin DOMAIN sub
     /\ sub["value"] = sup["value"]

\* No PolicyError
CanCombine(sup, sub) ==
  IF "value" \in DOMAIN sup THEN AddsNothing(sup, sub)
  ELSE /\ \A op \in DOMAIN sup \cap DOMAIN sub : CanJoin(op, sup[op], sub[op])
       /\ LET ops == DOMAIN sup \cup DOMAIN sub IN
          "one_of" \in ops => "subset_of" \notin ops /\ "superset_of" \notin ops
       /\ FitTogether(Rule(sup, sub))

Combine(sup, sub) ==
  IF "value" \notin DOMAIN sup THEN Rule(sup, sub)
  ELSE IF DOMAIN sub # {"essential"} THEN sup
  ELSE [op \in {"value", "essential"} |-> IF op = "value" THEN sup["value"] ELSE sub["essential"]]

-----------------------------------------------------------------------------
(* combine_metadata and combine                                            *)

\* dict.update
Updated(f, g) == [x \in DOMAIN f \cup DOMAIN g |-> IF x \in DOMAIN g THEN g[x] ELSE f[x]]

\* A subordinate cannot change what a superior set.  The variant does not look.
MetadataAlwaysAgrees(sup, sub) == TRUE
MetadataAgrees(sup, sub) == \A x \in DOMAIN sup \cap DOMAIN sub : sup[x] = sub[x]

PoliciesAgree(sup, sub) == \A x \in DOMAIN sup \cap DOMAIN sub : CanCombine(sup[x], sub[x])
CombinePolicies(sup, sub) ==
  [x \in DOMAIN sup \cup DOMAIN sub |->
     IF x \notin DOMAIN sub THEN sup[x]
     ELSE IF x \notin DOMAIN sup THEN sub[x]
     ELSE Combine(sup[x], sub[x])]

-----------------------------------------------------------------------------
(* apply_metadata_policy, for one claim with value v or NoValue            *)

\* add, then default
Filled(p, v) ==
  LET added == IF "add" \notin DOMAIN p THEN v
               ELSE IF v = NoValue THEN p["add"] ELSE AsList(v) \cup AsList(p["add"])
  IN  IF "default" \in DOMAIN p /\ added = NoValue THEN p["default"] ELSE added

\* one_of looks at single values only, and then only essential is left to look at.
OneOfDecides(p, v) == "one_of" \in DOMAIN p /\ v # NoValue /\ ~IsList(v)

Narrowed(p, v) ==
  IF "subset_of" \in DOMAIN p /\ v # NoValue /\ IsList(v) THEN v \cap p["subset_of"] ELSE v

\* A value is all there is to it, but for essential.
Applied(p, v) ==
  IF "value" \in DOMAIN p THEN p["value"]
  ELSE LET filled == Filled(p, v) IN
       IF OneOfDecides(p, filled) THEN filled ELSE Narrowed(p, filled)

\* What the claim is left with by an operator that raises.
Reached(p, v) ==
  LET filled == Filled(p, v) IN
  IF OneOfDecides(p, filled) \/ Narrowed(p, filled) = {} THEN filled ELSE Narrowed(p, filled)

\* No PolicyError.  The variant does not look at essential.
AdheresUnlessEssential(p, v) ==
  \/ "value" \in DOMAIN p
  \/ LET filled == Filled(p, v)
         narrowed == Narrowed(p, filled)
     IN IF OneOfDecides(p, filled) THEN filled \in p["one_of"]
        ELSE /\ "subset_of" \in DOMAIN p /\ filled # NoValue => IsList(filled) /\ narrowed # {}
             /\ "superset_of" \in DOMAIN p /\ filled # NoValue
                  => p["superset_of"] \subseteq Members(narrowed)
Adheres(p, v) ==
  /\ AdheresUnlessEssential(p, v)
  /\ "essential" \in DOMAIN p /\ p["essential"] => Applied(p, v) # NoValue
=============================================================================
