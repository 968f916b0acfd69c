-------------------------- MODULE MCTrustChainPolicy --------------------------
(***************************************************************************)
(* Chains of up to three superiors with policies on one claim, and of up   *)
(* to two with metadata besides, for TrustChainPolicy.                     *)
(***************************************************************************)
EXTENDS TrustChainPolicy, TLC

CONSTANTS
  a, b,             \* values
  grant, uri        \* claims

\* Each operator by itself, and operators together that are compared, are not
\* compared for being more than two, or are never compared in one statement.
Alone ==
  {"value" :> {a}, "value" :> {b}, "add" :> {b}, "add" :> a, "default" :> {a}, "default" :> b,
   "one_of" :> {a}, "one_of" :> {a, b}, "subset_of" :> {a}, "subset_of" :> {a, b},
   "subset_of" :> {b}, "superset_of" :> {a}, "superset_of" :> {b},
   "essential" :> TRUE, "essential" :> FALSE}
Together ==
  {"subset_of" :> {a, b} @@ "superset_of" :> {a} @@ "default" :> {a},
   "subset_of" :> {a} @@ "essential" :> TRUE, "value" :> {b} @@ "essential" :> TRUE,
   "add" :> {b} @@ "subset_of" :> {a}, "one_of" :> {a} @@ "subset_of" :> {b}}
ClaimPolicies == Alone \cup Together

Statement(m, p) == [metadata |-> m, metadata_policy |-> p]
None == <<>>
OnGrant == {Statement(None, None)} \cup {Statement(None, grant :> p) : p \in ClaimPolicies}
WithMetadata ==
  {Statement(uri :> v, None) : v \in {a, b}}
    \cup {Statement(uri :> a, grant :> p) : p \in {"subset_of" :> {a}, "essential" :> TRUE}}
    \cup {Statement(uri :> a, uri :> ("one_of" :> {b})), Statement(grant :> {b}, uri :> ("add" :> b)),
          Statement(None, grant :> ("subset_of" :> {b}) @@ uri :> ("essential" :> TRUE))}

SomeChains ==
  UNION {[1..n -> OnGrant] : n \in 0..3}
    \cup UNION {[1..n -> OnGrant \cup WithMetadata] : n \in 1..2}

SomeLeaves ==
  {None, grant :> {a}, grant :> {a, b}, grant :> a, grant :> {b} @@ uri :> b}
=============================================================================
