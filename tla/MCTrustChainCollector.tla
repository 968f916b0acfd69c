------------------------ MODULE MCTrustChainCollector ------------------------
(***************************************************************************)
(* A ladder, on which each place to stop at gives another chain.           *)
(***************************************************************************)
EXTENDS TrustChainCollector, TLC

CONSTANTS leaf, inter, anchor

\* A call that stops at inter returns the chain that ends there, one that does not the chain
\* up to the anchor.
Ladder == leaf :> {inter} @@ inter :> {anchor} @@ anchor :> {}
=============================================================================
