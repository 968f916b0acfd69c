----------------------------- MODULE Constraints -----------------------------
(***************************************************************************)
(* entity_statement/constraints.py: does a verified trust chain keep to    *)
(* the constraints its superiors put in their statements?                  *)
(*                                                                         *)
(* A chain lists statements from the trust anchor's to the leaf's.  What   *)
(* may be absent from a statement is a field it may not have: constraints, *)
(* and in it max_path_length and naming_constraints, and in that permitted *)
(* and excluded, sets of names.  A name is its labels, last label first:   *)
(* foo.example.org is <<org, example, foo>>.  A leading dot is a Blank:    *)
(* .example.org is <<org, example, Blank>>.                                *)
(***************************************************************************)
EXTENDS Integers, Sequences

CONSTANTS
  Host,     \* Host[e]: the labels of entity e's ID
  Blank     \* the empty label

NamingKeys == {"permitted", "excluded"}

-----------------------------------------------------------------------------
(* Names                                                                   *)

\* At the first label in which a differs from b, b is blank; or there is none.
MoreSpecific(a, b) ==
  /\ Len(a) >= Len(b)
  /\ \/ \A i \in 1..Len(b) : a[i] = b[i]
     \/ \E i \in 1..Len(b) : /\ \A j \in 1..(i - 1) : a[j] = b[j]
                             /\ b[i] = Blank /\ a[i] # Blank

\* excluded and permitted, the same loop over a list of names.
Covered(name, names) == \E n \in names : MoreSpecific(name, n)

-----------------------------------------------------------------------------
(* Naming constraints                                                      *)

\* New names replace the old ones they specialise; others are not taken in.  The
\* variant takes in all.
UpdateSpecsAll(new, old) == new \cup old
UpdateSpecs(new, old) ==
  {n \in new : Covered(n, old)} \cup {o \in old : ~\E n \in new : MoreSpecific(n, o)}

\* new_constraints[key] when the key is absent
LacksList(new, naming) == \E key \in NamingKeys : naming[key] # {} /\ key \notin DOMAIN new

AddConstraints(new, naming) ==
  [key \in NamingKeys |->
     IF key \notin DOMAIN new \/ new[key] = {} THEN naming[key]
     ELSE IF naming[key] = {} THEN new[key]
     ELSE UpdateSpecs(new[key], naming[key])]

UpdateNamingConstraints(c, naming) ==
  IF "naming_constraints" \in DOMAIN c
  THEN AddConstraints(c.naming_constraints, naming) ELSE naming

\* The checks on one subject.  The variant does not look at excluded.
CompliesIfPermitted(e, naming) ==
  naming["permitted"] # {} => Covered(Host[e], naming["permitted"])
Complies(e, naming) ==
  /\ ~Covered(Host[e], naming["excluded"])
  /\ naming["permitted"] # {} => Covered(Host[e], naming["permitted"])

-----------------------------------------------------------------------------
(* Path length                                                             *)

LessOf(m, n) == IF m < n THEN m ELSE n

CalculatePathLength(c, current, max_assigned) ==
  IF "max_path_length" \in DOMAIN c
  THEN IF max_assigned THEN LessOf(c.max_path_length, current - 1) ELSE c.max_path_length
  ELSE IF max_assigned THEN current - 1 ELSE 0

-----------------------------------------------------------------------------
(* meets_restrictions                                                      *)

\* What the loop carries from statement to statement, and how it stands:
\* "meets" so far, "fails" for a return False, "raises" for a KeyError.
Unrestricted == [key \in NamingKeys |-> {}]
Start == [naming |-> Unrestricted, length |-> 0, verdict |-> "meets"]

\* The loop's body for one superior's statement.  max_assigned stays False.
Superior(loop, s) ==
  IF "constraints" \notin DOMAIN s THEN loop
  ELSE LET c == s.constraints
           length == CalculatePathLength(c, loop.length, FALSE)
           lacks == "naming_constraints" \in DOMAIN c
                      /\ LacksList(c.naming_constraints, loop.naming)
           naming == IF lacks \/ length < 0 THEN loop.naming
                     ELSE UpdateNamingConstraints(c, loop.naming)
       IN [naming |-> naming, length |-> length,
           verdict |-> IF length < 0 THEN "fails"
                       ELSE IF lacks THEN "raises"
                       ELSE IF Complies(s.sub, naming) THEN "meets" ELSE "fails"]

\* What follows the loop: the check of the leaf.
Leaf(loop, s) ==
  [loop EXCEPT !.verdict = IF Complies(s.sub, loop.naming) THEN "meets" ELSE "fails"]

\* The loop over all statements but the last, which a return or a raise leaves.
Loop(chain) ==
  LET loop[i \in 0..(Len(chain) - 1)] ==
        IF i = 0 THEN Start
        ELSE IF loop[i - 1].verdict # "meets" THEN loop[i - 1]
        ELSE Superior(loop[i - 1], chain[i])
  IN loop[Len(chain) - 1]

MeetsRestrictions(chain) ==
  LET loop == Loop(chain) IN
  IF loop.verdict # "meets" THEN loop.verdict ELSE Leaf(loop, chain[Len(chain)]).verdict
=============================================================================
