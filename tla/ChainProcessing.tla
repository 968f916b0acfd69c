---------------------------- MODULE ChainProcessing ----------------------------
(***************************************************************************)
(* What becomes of a chain whose signatures are good: its constraints are  *)
(* looked at, at the end of verification, and only a chain that meets them *)
(* gets to apply_policies.  The two modules each look at a part of its     *)
(* statements.                                                             *)
(***************************************************************************)
EXTENDS ConstraintsCheck, TrustChainPolicy

CONSTANT Verified  \* chains, as the one module and as the other sees them

\* The policies' part of a chain lacks the leaf's statement.
ASSUME ProcessingAssumption ==
  /\ Verified \subseteq TrustChains \X Chains
  /\ \A v \in Verified : Len(v[1]) = Len(v[2]) + 1

ProcessingInit ==
  \E v \in Verified : trust_chain = v[1] /\ chain = v[2] /\ CheckInit /\ Init

\* A chain that is refused is dropped, an exception ends the request: there is no step then.
MeetConstraints == CheckNext /\ UNCHANGED vars
ApplyPolicies == Accepted /\ Next /\ UNCHANGED check_vars

ProcessingSpec ==
  ProcessingInit /\ [][MeetConstraints \/ ApplyPolicies]_<<check_vars, vars>>
=============================================================================
