--------------------------- MODULE ChainCollection ---------------------------
(***************************************************************************)
(* What the trust chain collector promises its callers, without caches,    *)
(* clock, threads' steps or HTTP: a call about an entity either fails or   *)
(* returns every chain that leads from the entity, authority hint by       *)
(* authority hint, to an entity without superiors or to the entity the     *)
(* caller asked to stop at.                                                *)
(*                                                                         *)
(* A chain is the sequence of entity IDs <<leaf, superior, ...>>: element  *)
(* i + 1 issued the statement about element i, and the leaf's own entity   *)
(* configuration comes with it.  TrustChainCollector implements this       *)
(* specification.                                                          *)
(***************************************************************************)
EXTENDS Naturals, Sequences

CONSTANTS
  Workers,        \* threads of the service that call the collector
  Entities,       \* entity IDs
  TrustAnchors,   \* configured trust anchors
  Publishers,     \* entities whose configuration names a fetch endpoint
  Hints,          \* Hints[e]: the authority_hints e publishes
  NoEntity,       \* the empty entity ID, stop_at's default
  MaxLength       \* longest chain the recursion can build

VARIABLES
  busy,           \* workers inside a call
  subject,        \* subject[w]: the entity w asked about
  stop_at,        \* stop_at[w]: the superior w asked to stop at, or NoEntity
  answer          \* answer[w]: the chains w's last call returned

vars == <<busy, subject, stop_at, answer>>

\* collect_branch gets a statement by a about e: a names a fetch endpoint,
\* and is not a trust anchor that hints at itself.
Answers(a, e) == a \in Publishers /\ ~(a = e /\ a \in TrustAnchors)

\* p is a chain for entity e: it climbs the hints, goes no further than s, and
\* ends at s, at an entity without superiors, or below one that did not answer.
IsChain(p, e, s) ==
  LET top == p[Len(p)] IN
  /\ p[1] = e
  /\ \A i \in 1..(Len(p) - 1) :
       p[i] # s /\ p[i + 1] \in Hints[p[i]] /\ Answers(p[i + 1], p[i])
  /\ \/ Len(p) > 1 /\ (top = s \/ Hints[top] = {})
     \/ top # s /\ \E a \in Hints[top] : ~Answers(a, top)

Paths == UNION {[1..n -> Entities] : n \in 1..MaxLength}

\* The chains for each entity, and each value of stop_at.
ChainsOf == [e \in Entities |-> [s \in Entities \cup {NoEntity} |->
               {p \in Paths : IsChain(p, e, s)}]]

Init ==
  /\ busy = {}
  /\ subject = [w \in Workers |-> NoEntity]
  /\ stop_at = [w \in Workers |-> NoEntity]
  /\ answer = [w \in Workers |-> {}]

Ask(w, e, s) ==
  /\ w \notin busy
  /\ busy' = busy \cup {w}
  /\ subject' = [subject EXCEPT ![w] = e]
  /\ stop_at' = [stop_at EXCEPT ![w] = s]
  /\ answer' = [answer EXCEPT ![w] = {}]

Answer(w) ==
  /\ w \in busy
  /\ busy' = busy \ {w}
  /\ answer' = [answer EXCEPT ![w] = ChainsOf[subject[w]][stop_at[w]]]
  /\ UNCHANGED <<subject, stop_at>>

\* A document could not be had, or an exception ended the call.
Fail(w) ==
  /\ w \in busy
  /\ busy' = busy \ {w}
  /\ UNCHANGED <<subject, stop_at, answer>>

Next ==
  \E w \in Workers :
    \/ \E e \in Entities, s \in Entities \cup {NoEntity} : Ask(w, e, s)
    \/ Answer(w)
    \/ Fail(w)

Spec == Init /\ [][Next]_vars
=============================================================================
