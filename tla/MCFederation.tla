----------------------------- MODULE MCFederation -----------------------------
\* A trust anchor that searches below itself, and two others, each of which may be registered
\* with the other: below the anchor; with the anchor and with each other; or in a circle.
EXTENDS Federation, TLC

CONSTANTS t1, t2, ta, im, op, v

McHierarchy == {<<ta, im>>, <<ta, op>>, <<im, op>>, <<op, im>>}
Record(i, t) == [intermediate |-> i, entity_type |-> t, entity_types |-> t]
McRecords == {Record(TRUE, FALSE), Record(FALSE, TRUE)}
McPolicies == {[NoPolicy EXCEPT !["metadata"] = v]}
McTypePolicy == [s \in Superiors |-> [NoPolicy EXCEPT !["metadata_policy"] = v]]
Registered(r) == [s \in Superiors |-> [e \in Entities |->
                   IF <<s, e>> \in DOMAIN r THEN r[<<s, e>>] ELSE Nothing]]
McFederations ==
  {Registered(<<ta, im>> :> Record(TRUE, FALSE) @@ <<im, op>> :> Record(FALSE, TRUE)),
   Registered(<<ta, im>> :> Record(TRUE, FALSE) @@ <<im, op>> :> Record(FALSE, TRUE)
                @@ <<ta, op>> :> Record(FALSE, TRUE)),
   Registered([p \in {<<ta, im>>, <<im, op>>, <<op, im>>} |-> Record(TRUE, FALSE)])}
=============================================================================
