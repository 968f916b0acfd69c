--------------------------- MODULE ConstraintsCheck ---------------------------
(***************************************************************************)
(* One evaluation of meets_restrictions, statement by statement, over any  *)
(* chain; what an accepted chain may then be relied on for.                *)
(***************************************************************************)
EXTENDS Constraints

CONSTANTS
  Subjects,   \* entity IDs
  HostLabels, \* labels of names, Blank among them
  TrustChains      \* the chains to check, anchor's statement first

Names == Seq(HostLabels)
IsNaming(n) == \A key \in DOMAIN n : key \in NamingKeys /\ n[key] \subseteq Names

\* A chain has a statement, each is about an entity, and naming constraints are
\* lists of names.
ASSUME ChainsAssumption ==
  /\ Host \in [Subjects -> Names]
  /\ Blank \in HostLabels
  /\ \A ch \in TrustChains :
       /\ ch # <<>> /\ Len(ch) \in Nat
       /\ \A i \in 1..Len(ch) :
            /\ {"sub"} \subseteq DOMAIN ch[i] /\ ch[i].sub \in Subjects
            /\ "constraints" \in DOMAIN ch[i] =>
                 LET c == ch[i].constraints IN
                 /\ "max_path_length" \in DOMAIN c => c.max_path_length \in Int
                 /\ "naming_constraints" \in DOMAIN c => IsNaming(c.naming_constraints)

VARIABLES
  trust_chain,  \* the chain to check
  place,        \* the statement the loop is at
  loop          \* what the loop carries, and how it stands

check_vars == <<trust_chain, place, loop>>

CheckInit == trust_chain \in TrustChains /\ place = 1 /\ loop = Start

CheckSuperior ==
  /\ loop.verdict = "meets" /\ place < Len(trust_chain)
  /\ loop' = Superior(loop, trust_chain[place])
  /\ place' = place + 1
  /\ UNCHANGED trust_chain

CheckLeaf ==
  /\ loop.verdict = "meets" /\ place = Len(trust_chain)
  /\ loop' = Leaf(loop, trust_chain[place])
  /\ place' = place + 1
  /\ UNCHANGED trust_chain

CheckNext == CheckSuperior \/ CheckLeaf
CheckSpec == CheckInit /\ [][CheckNext]_check_vars

-----------------------------------------------------------------------------
(* What the superior at i says                                             *)

Constrains(i, key) ==
  /\ "constraints" \in DOMAIN trust_chain[i]
  /\ "naming_constraints" \in DOMAIN trust_chain[i].constraints
  /\ key \in DOMAIN trust_chain[i].constraints.naming_constraints
  /\ trust_chain[i].constraints.naming_constraints[key] # {}
List(i, key) == trust_chain[i].constraints.naming_constraints[key]
FirstToSay(i, key) == Constrains(i, key) /\ \A j \in 1..(i - 1) : ~Constrains(j, key)

Accepted == place > Len(trust_chain) /\ loop.verdict = "meets"

-----------------------------------------------------------------------------
(* Properties                                                              *)

\* The loop looks at the subject of each statement that has constraints, and at the
\* leaf.  One without is passed over, whatever those above it say.
Checked(j) == j = Len(trust_chain) \/ "constraints" \in DOMAIN trust_chain[j]

\* Statements below the first superior that has a permitted list may narrow
\* it and never widen it: that superior permits all subjects checked from there on.
CheckedArePermitted ==
  Accepted => \A i \in 1..(Len(trust_chain) - 1) : \A j \in i..Len(trust_chain) :
    FirstToSay(i, "permitted") /\ Checked(j) => Covered(Host[trust_chain[j].sub], List(i, "permitted"))

\* If only one superior excludes names, no subject checked from there on is one of
\* them.  A second list would narrow the first, as it does for permitted names.
SoleExclusionHolds ==
  Accepted => \A i \in 1..(Len(trust_chain) - 1) : \A j \in i..Len(trust_chain) :
    /\ Constrains(i, "excluded") /\ \A k \in 1..(Len(trust_chain) - 1) : Constrains(k, "excluded") => k = i
    /\ Checked(j)
    => ~Covered(Host[trust_chain[j].sub], List(i, "excluded"))
=============================================================================
