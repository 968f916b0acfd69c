--------------------------- MODULE MCChainProcessing ---------------------------
\* Every chain of MCConstraintsCheck without policies, and every chain of MCTrustChainPolicy
\* without constraints.
EXTENDS ChainProcessing, MCConstraintsCheck, MCTrustChainPolicy

WithoutPolicies(c) == [i \in 1..(Len(c) - 1) |-> Statement(None, None)]
WithoutConstraints(c) == [i \in 1..(Len(c) + 1) |-> "sub" :> east]

McTrustChains == AllChains \cup {[i \in 1..n |-> "sub" :> east] : n \in 1..4}
McVerified ==
  {<<c, WithoutPolicies(c)>> : c \in AllChains} \cup {<<WithoutConstraints(c), c>> : c \in SomeChains}
=============================================================================
