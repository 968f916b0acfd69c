------------------------- MODULE RegistrationAgreement -------------------------
(***************************************************************************)
(* What explicit registration promises the two parties: the client goes by *)
(* a trust anchor only when it trusts that anchor and the provider has it  *)
(* on file with the metadata which the policies of that very anchor leave. *)
(***************************************************************************)
CONSTANTS
  Anchors,       \* trust anchors
  TrustAnchors,  \* those the client trusts
  NoOne          \* no anchor

VARIABLES
  offered,   \* anchors through which the provider has registered the client
  accepted   \* the anchor the client goes by

agreement == <<offered, accepted>>

Init == offered = {} /\ accepted = NoOne

\* The provider registers the client, with metadata that chains to several anchors may
\* give; it does not take a registration back.
Offer(as) == offered' = offered \cup as /\ UNCHANGED accepted

\* The client may register again, and through another anchor.
Accept(a) == a \in offered \cap TrustAnchors /\ accepted' = a /\ UNCHANGED offered

Next == (\E as \in SUBSET Anchors : Offer(as)) \/ (\E a \in Anchors : Accept(a))

Spec == Init /\ [][Next]_agreement
=============================================================================
