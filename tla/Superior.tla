------------------------------- MODULE Superior -------------------------------
(***************************************************************************)
(* What a superior knows of its subordinates and tells about them: the     *)
(* fetch and list endpoints of intermediates and trust anchors.  The       *)
(* subordinates and the policies are dictionaries that an administrator    *)
(* changes; answering a fetch writes to the first.                         *)
(***************************************************************************)
EXTENDS Naturals, Sequences, FiniteSets

CONSTANTS
  Entities,    \* entity IDs
  Superiors,   \* those of intermediates and trust anchors
  Records,     \* how a subordinate may be registered
  Policies,    \* policies an administrator may write
  TypePolicy,  \* TypePolicy[s]: s's policy for entities of the type it has policies for
  Values,      \* contents of a part of a policy
  Nothing      \* no record, no content, no entity

Parts == {"metadata", "metadata_policy"}
NoPolicy == [p \in Parts |-> Nothing]

\* The list endpoint looks at entity_type, the fetch endpoint at entity_types.
ASSUME SuperiorAssumption ==
  /\ Superiors \subseteq Entities
  /\ Records \subseteq [intermediate : BOOLEAN, entity_type : BOOLEAN, entity_types : BOOLEAN]
  /\ Policies \subseteq [Parts -> Values \cup {Nothing}]
  /\ TypePolicy \in [Superiors -> [Parts -> Values \cup {Nothing}]]
  /\ Nothing \notin Records \cup Values \cup Entities

VARIABLES
  subordinate,  \* subordinate[s][e]: what s registered e as
  written,      \* the parts of a policy that fetches wrote into the record
  policy        \* policy[s][e]: what the administrator wrote for e

superior_vars == <<subordinate, written, policy>>

-----------------------------------------------------------------------------
(* list                                                                    *)

\* Everyone; those of the type; the intermediates.
Subordinates(s) == {e \in Entities : subordinate[s][e] # Nothing}
OfType(s) == {e \in Subordinates(s) : subordinate[s][e].entity_type}
Intermediates(s) == {e \in Subordinates(s) : subordinate[s][e].intermediate}

-----------------------------------------------------------------------------
(* fetch                                                                   *)

\* dict.update: of what both have, the new counts.
Updated(old, new) == [p \in Parts |-> IF new[p] # Nothing THEN new[p] ELSE old[p]]

Own(s, e) == policy[s][e] # NoPolicy
Typed(s, e) == subordinate[s][e].entity_types

\* The policy in the statement: the entity's own on top of what was written before; or
\* that of its type, and both parts of it; or what was written before.
StatementPolicy(s, e) ==
  IF Own(s, e) THEN Updated(written[s][e], policy[s][e])
  ELSE IF Typed(s, e) /\ TypePolicy[s] # NoPolicy THEN TypePolicy[s]
  ELSE written[s][e]

\* An entity's own policy is written into the record itself, that of a type into a copy.
Fetch(s, e) ==
  /\ subordinate[s][e] # Nothing
  /\ written' = IF Own(s, e) THEN [written EXCEPT ![s][e] = StatementPolicy(s, e)] ELSE written
  /\ UNCHANGED <<subordinate, policy>>

-----------------------------------------------------------------------------
(* The administrator                                                       *)

Register(s, e, record) ==
  /\ subordinate[s][e] = Nothing
  /\ subordinate' = [subordinate EXCEPT ![s][e] = record]
  /\ UNCHANGED <<written, policy>>

Unregister(s, e) ==
  /\ subordinate[s][e] # Nothing
  /\ subordinate' = [subordinate EXCEPT ![s][e] = Nothing]
  /\ written' = [written EXCEPT ![s][e] = NoPolicy]
  /\ UNCHANGED policy

SetPolicy(s, e, p) ==
  /\ policy[s][e] # p
  /\ policy' = [policy EXCEPT ![s][e] = p]
  /\ UNCHANGED <<subordinate, written>>

SuperiorTypeOK ==
  /\ subordinate \in [Superiors -> [Entities -> Records \cup {Nothing}]]
  /\ written \in [Superiors -> [Entities -> [Parts -> Values \cup {Nothing}]]]
  /\ policy \in [Superiors -> [Entities -> Policies \cup {NoPolicy}]]
=============================================================================
