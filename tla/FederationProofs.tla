--------------------------- MODULE FederationProofs ---------------------------
(***************************************************************************)
(* Proofs about Federation, for any federation, threads and numbers of     *)
(* operations and changes.                                                 *)
(***************************************************************************)
EXTENDS Federation, SequenceTheorems, TLAPS

Walking == {"descend", "configuration", "typed", "intermediates"}
Searching == Walking \cup {"list", "verify", "marks"}
Requesting == {"stored", "collect", "again", "collect_again"}
Lists == [all : SUBSET Entities, type : SUBSET Hierarchy, intermediate : SUBSET Hierarchy]
Frames == [node : Anyone, todo : SUBSET Anyone]
Requested == [credential_type : BOOLEAN, trust_mark_id : BOOLEAN]

\* The types of the variables, those that TypeOK leaves open too.
Types ==
  /\ SuperiorTypeOK
  /\ config_cache \in [Entities -> {"no", "fresh", "expired"}]
  /\ trust_chain \in [Anyone -> Anyone] /\ issuer \in Anyone
  /\ at \in [Threads -> {"idle"} \cup Searching \cup Requesting]
  /\ stack \in [Threads -> Seq(Frames)]
  /\ request \in [Threads -> Requested]
  /\ found \in [Threads -> SUBSET Anyone] /\ kept \in [Threads -> SUBSET Anyone]
  /\ left \in [Threads -> SUBSET Anyone]
  /\ asked \in [Threads -> Anyone] /\ used \in [Threads -> Anyone]
  /\ result \in [Threads -> {"none", "exception", "answered", "requested"}]
  /\ calls \in [Threads -> Nat] /\ changes \in 0..MaxChanges
  /\ steady \in [Searchers -> Lists] /\ ever \in [Searchers -> Lists]
  /\ overlapped \in BOOLEAN

\* The calls of trawl: none unless a search goes on, one in the name of this entity below
\* the others, and only the last may be about what is no entity.
StackFor(t) ==
  /\ At(t, "configuration") \/ At(t, "typed") \/ At(t, "intermediates") =>
       Len(stack[t]) > 1 /\ Top(t).todo = {}
  /\ At(t, "typed") \/ At(t, "intermediates") => Top(t).node \in Superiors
  /\ at[t] \in Walking =>
       /\ t \in Searchers /\ stack[t] # <<>>
       /\ \A i \in 1..Len(stack[t]) :
            stack[t][i].node \in Entities \/ (At(t, "configuration") /\ i = Len(stack[t]))
  /\ at[t] \notin Walking => stack[t] = <<>>
Stacks == \A t \in Threads : StackFor(t)

\* A thread does one thing at a time, and has no result until it is through.
OneFor(t) ==
  /\ at[t] # "idle" => result[t] = "none"
  /\ at[t] \in Searching \/ result[t] = "answered" => t \in Searchers
OneThing == \A t \in Threads : OneFor(t)

\* Trust marks are requested from whom they should be.
OwnChains == \A e \in Anyone : trust_chain[e] \in {e, Nothing}
AsksTheIssuer(t) ==
  Asking(t) => issuer = asked[t] /\ (at[t] \in {"collect", "collect_again"} => used[t] = asked[t])
WentThere(t) == result[t] = "requested" => used[t] = asked[t]
Straight == ~overlapped => OwnChains /\ \A t \in Threads : AsksTheIssuer(t) /\ WentThere(t)

\* Superiors register only whom they may.
WithinHierarchy ==
  \A s \in Superiors, e \in Entities : subordinate[s][e] # Nothing => <<s, e>> \in Hierarchy

\* What is listed now was listed at some time in the search, and includes what was listed
\* throughout.
Within(l, m) == l.all \subseteq m.all /\ l.type \subseteq m.type /\ l.intermediate \subseteq m.intermediate
ObservedFor(t) ==
  at[t] \in Searching => Within(steady[t], Listed) /\ Within(Listed, ever[t])
Observed == \A t \in Searchers : ObservedFor(t)

\* Whom a search has yet to get to.
Ahead(q, last) ==
  (UNION {q[i].todo : i \in 1..Len(q)}) \cup (IF last THEN {q[Len(q)].node} ELSE {})
Pending(t) == Ahead(stack[t], At(t, "configuration"))

\* Of those in D everything is found that was listed all the time, except what the search is
\* about to list; and who is not in D is yet to come.
Gone(t, D) ==
  /\ steady[t].all \subseteq D \cup Pending(t)
  /\ \A p \in steady[t].intermediate :
       p[1] \in D => \/ p[2] \in D \cup Pending(t)
                     \/ (At(t, "typed") \/ At(t, "intermediates")) /\ p[1] = Top(t).node
  /\ D \cap Providers \subseteq found[t]
  /\ \A p \in steady[t].type :
       p[1] \in D => p[2] \in found[t] \/ (At(t, "typed") /\ p[1] = Top(t).node)

\* A search has got to all there are, or it has met what is no entity.
Reached(t) ==
  NotAnEntity \in found[t] \cup Pending(t) \/ \E D \in SUBSET Entities : Gone(t, D)
CoveredFor(t) == at[t] \in Walking \cup {"verify", "marks"} \/ result[t] = "answered" => Reached(t)
Covered == \A t \in Searchers : CoveredFor(t)

\* It gets only to those that somebody listed.
Beneath(q, V) == \A i \in 2..Len(q) : q[i].node \in V
InBounds(t) ==
  /\ found[t] \subseteq Findable(ever[t]) \cup {NotAnEntity}
  /\ Pending(t) \subseteq Visited(ever[t]) \cup {NotAnEntity}
  /\ Beneath(stack[t], Visited(ever[t]) \cup {NotAnEntity})
BoundedFor(t) == at[t] \in Searching \/ result[t] = "answered" => InBounds(t)
Bounded == \A t \in Searchers : BoundedFor(t)

\* Of what it found it keeps, once it has looked at it, what is suitable; only a search for
\* trust marks drops more.
Unseen(t) == IF At(t, "verify") THEN left[t] ELSE {}
Sifting(t) == At(t, "verify") \/ At(t, "marks") \/ result[t] = "answered"
KeepsFor(t) ==
  /\ At(t, "marks") => request[t].trust_mark_id
  /\ Sifting(t) =>
       IF request[t].credential_type
       THEN /\ kept[t] \subseteq found[t]
            /\ NotAnEntity \in found[t] => NotAnEntity \in Unseen(t)
            /\ ~overlapped => kept[t] \ Unseen(t) \subseteq Suitable
            /\ ~overlapped /\ ~request[t].trust_mark_id => found[t] \cap Suitable \subseteq kept[t]
       ELSE kept[t] = {}
Keeps == \A t \in Searchers : KeepsFor(t)

-----------------------------------------------------------------------------
(* Superiors                                                               *)

Contents == [Parts -> Values \cup {Nothing}]

LEMMA PoliciesAreContents ==
  ASSUME SuperiorTypeOK, NEW s \in Superiors, NEW e \in Entities
  PROVE  /\ policy[s][e] \in Contents /\ written[s][e] \in Contents /\ TypePolicy[s] \in Contents
         /\ StatementPolicy(s, e) \in Contents
<1>1. NoPolicy \in Contents
  BY DEF NoPolicy, Contents
<1>2. policy[s][e] \in Contents /\ written[s][e] \in Contents /\ TypePolicy[s] \in Contents
  BY <1>1, SuperiorAssumption DEF SuperiorTypeOK, SuperiorAssumption, Contents
<1>3. Updated(written[s][e], policy[s][e]) \in Contents
  BY <1>2 DEF Updated, Contents
<1>. QED
  BY <1>2, <1>3 DEF StatementPolicy

LEMMA FetchTypes ==
  ASSUME SuperiorTypeOK, NEW s \in Superiors, NEW e \in Entities, Fetch(s, e)
  PROVE  SuperiorTypeOK' /\ UNCHANGED <<subordinate, policy>>
<1>1. written' \in [Superiors -> [Entities -> Contents]]
  BY PoliciesAreContents DEF Fetch, SuperiorTypeOK, Contents
<1>. QED
  BY <1>1 DEF Fetch, SuperiorTypeOK, Contents

LEMMA AdministrationTypes ==
  ASSUME SuperiorTypeOK, NEW p \in Hierarchy,
         \/ \E record \in Records : Register(p[1], p[2], record)
         \/ Unregister(p[1], p[2])
         \/ \E new \in Policies \cup {NoPolicy} : SetPolicy(p[1], p[2], new)
  PROVE  SuperiorTypeOK'
<1>. DEFINE s == p[1]
            e == p[2]
<1>1. s \in Superiors /\ e \in Entities
  BY FederationAssumption DEF FederationAssumption
<1>2. CASE \E record \in Records : Register(s, e, record)
  BY <1>1, <1>2 DEF Register, SuperiorTypeOK
<1>3. CASE Unregister(s, e)
  <2>1. NoPolicy \in [Parts -> Values \cup {Nothing}]
    BY DEF NoPolicy
  <2>. QED
    BY <1>1, <1>3, <2>1 DEF Unregister, SuperiorTypeOK
<1>4. CASE \E new \in Policies \cup {NoPolicy} : SetPolicy(s, e, new)
  BY <1>1, <1>4 DEF SetPolicy, SuperiorTypeOK
<1>. QED
  BY <1>2, <1>3, <1>4

LEMMA ListedIs == Listed \in Lists
<1>1. Subordinates(Anchor) \subseteq Entities
  BY DEF Subordinates
<1>. QED
  BY <1>1 DEF Listed, Lists

\* What a superior lists is what its list is for the search.
LEMMA ListsAre ==
  ASSUME NEW p \in Hierarchy
  PROVE  /\ p[1] \in Superiors /\ p[2] \in Entities
         /\ p \in Listed.type <=> p[2] \in OfType(p[1])
         /\ p \in Listed.intermediate <=> p[2] \in Intermediates(p[1])
BY FederationAssumption DEF FederationAssumption, Listed

-----------------------------------------------------------------------------
(* Stacks                                                                  *)

LEMMA FrameIs ==
  ASSUME NEW e \in Anyone, NEW es \in SUBSET Anyone
  PROVE  Frame(e, es) \in Frames /\ Frame(e, es).node = e /\ Frame(e, es).todo = es
BY DEF Frame, Frames

LEMMA InAhead ==
  ASSUME NEW q, NEW last \in BOOLEAN, NEW x
  PROVE  x \in Ahead(q, last)
           <=> (\E i \in 1..Len(q) : x \in q[i].todo) \/ (last /\ x = q[Len(q)].node)
<1>. DEFINE U == UNION {q[i].todo : i \in 1..Len(q)}
<1>1. x \in U <=> \E i \in 1..Len(q) : x \in q[i].todo
  OBVIOUS
<1>2. Ahead(q, last) = U \cup (IF last THEN {q[Len(q)].node} ELSE {})
  BY DEF Ahead
<1>. HIDE DEF U
<1>3. x \in Ahead(q, last) <=> x \in U \/ (last /\ x = q[Len(q)].node)
  BY <1>2
<1>. QED
  BY <1>1, <1>3

LEMMA StackIs ==
  ASSUME NEW q \in Seq(Frames), q # <<>>
  PROVE  /\ Len(q) \in Nat \ {0} /\ Len(q) \in 1..Len(q)
         /\ \A i \in 1..Len(q) : q[i] \in Frames /\ q[i].node \in Anyone /\ q[i].todo \subseteq Anyone
<1>1. Len(q) \in Nat \ {0} /\ \A i \in 1..Len(q) : q[i] \in Frames
  BY EmptySeq, ElementOfSeq
<1>. QED
  BY <1>1 DEF Frames

LEMMA AheadSplits ==
  ASSUME NEW q, NEW n \in Nat, Len(q) = n + 1, NEW last \in BOOLEAN, NEW x
  PROVE  x \in Ahead(q, last)
           <=> (\E i \in 1..n : x \in q[i].todo) \/ x \in q[n + 1].todo \/ (last /\ x = q[n + 1].node)
<1>1. \A i : i \in 1..(n + 1) <=> i \in 1..n \/ i = n + 1
  OBVIOUS
<1>2. (\E i \in 1..(n + 1) : x \in q[i].todo)
        <=> (\E i \in 1..n : x \in q[i].todo) \/ x \in q[n + 1].todo
  BY <1>1
<1>. QED
  BY <1>2, InAhead

Below(q) == SubSeq(q, 1, Len(q) - 1)

LEMMA BelowIs ==
  ASSUME NEW q \in Seq(Frames), q # <<>>
  PROVE  /\ Below(q) \in Seq(Frames) /\ Len(Below(q)) = Len(q) - 1
         /\ \A i \in 1..(Len(q) - 1) : Below(q)[i] = q[i]
<1>. DEFINE n == Len(q) - 1
            r == SubSeq(q, 1, n)
<1>1. Len(q) \in Nat \ {0} /\ \A i \in 1..Len(q) : q[i] \in Frames
  BY StackIs
<1>2. n \in Nat /\ (\A i \in 1..n : q[i] \in Frames) /\ 1 \in Int /\ n \in Int
  BY <1>1
<1>3. /\ r \in Seq(Frames) /\ Len(r) = IF 1 <= n THEN n - 1 + 1 ELSE 0
      /\ \A i \in 1..(n - 1 + 1) : r[i] = q[1 + i - 1]
  BY ONLY <1>2, SubSeqProperties
<1>4. n - 1 + 1 = n /\ \A i \in 1..n : 1 + i - 1 = i
  BY <1>2
<1>. HIDE DEF r, n
<1>5. r \in Seq(Frames) /\ Len(r) = n /\ \A i \in 1..n : r[i] = q[i]
  BY <1>2, <1>3, <1>4
<1>. QED
  BY <1>5 DEF Below, r, n

\* Going back from a node where nothing is left to do.
LEMMA PopIs ==
  ASSUME NEW q \in Seq(Frames), q # <<>>, q[Len(q)].todo = {}
  PROVE  Ahead(Below(q), FALSE) = Ahead(q, FALSE)
<1>1. ASSUME NEW x
      PROVE  x \in Ahead(Below(q), FALSE) <=> x \in Ahead(q, FALSE)
  <2>. DEFINE n == Len(q) - 1
  <2>1. n \in Nat /\ Len(q) = n + 1
    BY StackIs
  <2>2. Len(Below(q)) = n /\ \A i \in 1..n : Below(q)[i] = q[i]
    BY BelowIs
  <2>3. x \in Ahead(Below(q), FALSE) <=> \E i \in 1..n : x \in q[i].todo
    <3>. DEFINE r == Below(q)
    <3>1. Len(r) = n /\ \A i \in 1..n : r[i] = q[i]
      BY <2>2
    <3>. HIDE DEF r, n
    <3>2. x \in Ahead(r, FALSE) <=> \E i \in 1..Len(r) : x \in r[i].todo
      BY InAhead
    <3>3. x \in Ahead(r, FALSE) <=> \E i \in 1..n : x \in q[i].todo
      BY <3>1, <3>2
    <3>. QED
      BY <3>3 DEF r
  <2>4. x \in Ahead(q, FALSE) <=> \E i \in 1..n : x \in q[i].todo
    BY <2>1, AheadSplits
  <2>. QED
    BY <2>3, <2>4
<1>. QED
  BY <1>1

Descended(q, e) ==
  Below(q) \o <<Frame(q[Len(q)].node, q[Len(q)].todo \ {e}), Frame(e, {})>>

SameBelow(r, q) == \A i \in 1..(Len(q) - 1) : r[i] = q[i]

\* Going to the next one down.
LEMMA DescentFrames ==
  ASSUME NEW q \in Seq(Frames), q # <<>>, NEW e \in q[Len(q)].todo
  PROVE  /\ Descended(q, e) \in Seq(Frames) /\ Len(Descended(q, e)) = Len(q) + 1
         /\ SameBelow(Descended(q, e), q)
         /\ Descended(q, e)[Len(q)] = Frame(q[Len(q)].node, q[Len(q)].todo \ {e})
         /\ Descended(q, e)[Len(q)].node = q[Len(q)].node
         /\ Descended(q, e)[Len(q) + 1] = Frame(e, {})
         /\ Descended(q, e)[Len(q) + 1].node = e /\ Descended(q, e)[Len(q) + 1].todo = {}
<1>. DEFINE f == Frame(q[Len(q)].node, q[Len(q)].todo \ {e})
            g == Frame(e, {})
            r == Descended(q, e)
<1>1. /\ Len(q) \in Nat \ {0} /\ e \in Anyone /\ q[Len(q)].node \in Anyone
      /\ q[Len(q)].todo \subseteq Anyone
  BY StackIs
<1>2. /\ f \in Frames /\ f.node = q[Len(q)].node /\ f.todo = q[Len(q)].todo \ {e}
      /\ g \in Frames /\ g.node = e /\ g.todo = {}
  BY <1>1, FrameIs
<1>. HIDE DEF f, g
<1>3. /\ Below(q) \in Seq(Frames) /\ Len(Below(q)) = Len(q) - 1
      /\ \A i \in 1..(Len(q) - 1) : Below(q)[i] = q[i]
  BY BelowIs
<1>4. <<f, g>> \in Seq(Frames) /\ Len(<<f, g>>) = 2 /\ <<f, g>>[1] = f /\ <<f, g>>[2] = g
  BY <1>2
<1>5. r = Below(q) \o <<f, g>>
  BY DEF Descended, f, g
<1>6. /\ r \in Seq(Frames) /\ Len(r) = Len(q) + 1
      /\ \A i \in 1..Len(r) : r[i] = IF i <= Len(q) - 1 THEN Below(q)[i] ELSE <<f, g>>[i - (Len(q) - 1)]
  <2>1. /\ r \in Seq(Frames) /\ Len(r) = Len(Below(q)) + Len(<<f, g>>)
        /\ \A i \in 1..(Len(Below(q)) + Len(<<f, g>>)) :
             r[i] = IF i <= Len(Below(q)) THEN Below(q)[i] ELSE <<f, g>>[i - Len(Below(q))]
    BY ONLY <1>3, <1>4, <1>5, ConcatProperties
  <2>2. Len(Below(q)) + Len(<<f, g>>) = Len(q) + 1
    BY <1>1, <1>3, <1>4
  <2>. QED
    BY <1>3, <2>1, <2>2
<1>. HIDE DEF r
<1>7. /\ \A i \in 1..(Len(q) - 1) : r[i] = q[i]
      /\ r[Len(q)] = f /\ r[Len(q) + 1] = g
  <2>1. \A i \in 1..(Len(q) - 1) : r[i] = q[i]
    BY <1>1, <1>3, <1>6
  <2>2. r[Len(q)] = <<f, g>>[1] /\ r[Len(q) + 1] = <<f, g>>[2]
    <3>1. Len(q) - (Len(q) - 1) = 1 /\ Len(q) + 1 - (Len(q) - 1) = 2
      BY <1>1
    <3>. QED
      BY <1>1, <1>6, <3>1
  <2>. QED
    BY <1>4, <2>1, <2>2
<1>. QED
  BY <1>2, <1>6, <1>7 DEF SameBelow, r, f, g

LEMMA DescentKeeps ==
  ASSUME NEW q \in Seq(Frames), q # <<>>, NEW e \in q[Len(q)].todo
  PROVE  \A i \in 1..Len(q) : Descended(q, e)[i].node = q[i].node
<1>. DEFINE r == Descended(q, e)
<1>1. r[Len(q)].node = q[Len(q)].node
  BY DescentFrames
<1>0. SameBelow(r, q)
  BY DescentFrames
<1>. HIDE DEF r
<1>2. Len(q) \in Nat \ {0}
  BY StackIs
<1>3. \A i \in 1..Len(q) : r[i].node = q[i].node
  BY <1>0, <1>1, <1>2 DEF SameBelow
<1>. QED
  BY <1>3 DEF r

LEMMA DescentAhead ==
  ASSUME NEW q \in Seq(Frames), q # <<>>, NEW e \in q[Len(q)].todo
  PROVE  Ahead(Descended(q, e), TRUE) = Ahead(q, FALSE)
<1>. DEFINE r == Descended(q, e)
            n == Len(q) - 1
<1>1. ASSUME NEW x
      PROVE  x \in Ahead(r, TRUE) <=> x \in Ahead(q, FALSE)
  <2>1. n \in Nat /\ Len(q) = n + 1 /\ n + 1 \in Nat
    BY StackIs
  <2>2. SameBelow(r, q)
    BY DescentFrames
  <2>0. Len(r) = Len(q) + 1 /\ r[Len(q) + 1].node = e /\ r[Len(q) + 1].todo = {}
    BY DescentFrames
  <2>6. r[Len(q)].todo = q[Len(q)].todo \ {e}
    <3>1. r[Len(q)] = Frame(q[Len(q)].node, q[Len(q)].todo \ {e})
      BY DescentFrames
    <3>. QED
      BY <3>1 DEF Frame
  <2>7. r[Len(q) + 1].node = e
    BY DescentFrames
  <2>8. r[Len(q) + 1].todo = {}
    BY DescentFrames
  <2>. HIDE DEF r
  <2>3. x \in Ahead(r, TRUE) <=> (\E i \in 1..(n + 1) : x \in r[i].todo) \/ x = e
    <3>1. Len(r) = (n + 1) + 1 /\ r[(n + 1) + 1].todo = {} /\ r[(n + 1) + 1].node = e
      BY <2>0, <2>1, <2>7, <2>8
    <3>. QED
      BY <2>1, <3>1, AheadSplits
  <2>4. x \in Ahead(q, FALSE) <=> (\E i \in 1..n : x \in q[i].todo) \/ x \in q[n + 1].todo
    BY <2>1, AheadSplits
  <2>5. (\E i \in 1..(n + 1) : x \in r[i].todo)
          <=> (\E i \in 1..n : x \in q[i].todo) \/ x \in q[n + 1].todo \ {e}
    <3>1. \A i : i \in 1..(n + 1) <=> i \in 1..n \/ i = n + 1
      BY <2>1
    <3>2. r[n + 1].todo = q[n + 1].todo \ {e} /\ \A i \in 1..n : r[i] = q[i]
      BY <2>1, <2>2, <2>6 DEF SameBelow
    <3>. QED
      BY <3>1, <3>2
  <2>. QED
    BY <2>1, <2>3, <2>4, <2>5
<1>. QED
  BY <1>1

\* Coming to a node, and listing what is below it.
LEMMA ArrivalIs ==
  ASSUME NEW q
  PROVE  Ahead(q, TRUE) = Ahead(q, FALSE) \cup {q[Len(q)].node}
BY DEF Ahead

Replaced(q, es) == Append(Below(q), Frame(q[Len(q)].node, es))

LEMMA ReplacedIs ==
  ASSUME NEW q \in Seq(Frames), q # <<>>, q[Len(q)].todo = {}, NEW es \in SUBSET Anyone
  PROVE  /\ Replaced(q, es) \in Seq(Frames) /\ Len(Replaced(q, es)) = Len(q)
         /\ \A i \in 1..Len(q) : Replaced(q, es)[i].node = q[i].node
         /\ Ahead(Replaced(q, es), FALSE) = Ahead(q, FALSE) \cup es
<1>. DEFINE f == Frame(q[Len(q)].node, es)
            r == Replaced(q, es)
<1>1. Len(q) \in Nat \ {0} /\ q[Len(q)].node \in Anyone
  BY StackIs
<1>2. f \in Frames /\ f.node = q[Len(q)].node /\ f.todo = es
  BY <1>1, FrameIs
<1>3. /\ Below(q) \in Seq(Frames) /\ Len(Below(q)) = Len(q) - 1
      /\ \A i \in 1..(Len(q) - 1) : Below(q)[i] = q[i]
  BY BelowIs
<1>. HIDE DEF f
<1>4. r = Append(Below(q), f)
  BY DEF Replaced, f
<1>5. r \in Seq(Frames) /\ Len(r) = Len(q) /\ r[Len(q)] = f
  BY <1>1, <1>2, <1>3, <1>4
<1>6. \A i \in 1..(Len(q) - 1) : r[i] = q[i]
  BY <1>1, <1>2, <1>3, <1>4
<1>. HIDE DEF r
<1>7. \A i \in 1..Len(q) : r[i].node = q[i].node
  BY <1>1, <1>2, <1>5, <1>6
<1>8. ASSUME NEW x
      PROVE  x \in Ahead(r, FALSE) <=> x \in Ahead(q, FALSE) \cup es
  <2>. DEFINE n == Len(q) - 1
  <2>0. n \in Nat /\ Len(q) = n + 1 /\ Len(r) = n + 1
    BY <1>1, <1>5
  <2>1. x \in Ahead(r, FALSE) <=> (\E i \in 1..n : x \in q[i].todo) \/ x \in es
    <3>1. r[n + 1].todo = es /\ \A i \in 1..n : r[i].todo = q[i].todo
      BY <1>2, <1>5, <1>6, <2>0
    <3>2. x \in Ahead(r, FALSE) <=> (\E i \in 1..n : x \in r[i].todo) \/ x \in r[n + 1].todo
      BY <2>0, AheadSplits
    <3>. QED
      BY <3>1, <3>2
  <2>2. x \in Ahead(q, FALSE) <=> \E i \in 1..n : x \in q[i].todo
    BY <2>0, AheadSplits
  <2>. QED
    BY <2>1, <2>2
<1>. QED
  BY <1>5, <1>7, <1>8 DEF r

-----------------------------------------------------------------------------
(* What a step does to a thread                                            *)

Moves(t, label, q, fs, ks, how) ==
  /\ at' = [at EXCEPT ![t] = label] /\ stack' = [stack EXCEPT ![t] = q]
  /\ found' = [found EXCEPT ![t] = fs] /\ kept' = [kept EXCEPT ![t] = ks]
  /\ result' = [result EXCEPT ![t] = how]
Moved(t, label, q, fs, ks, how) ==
  /\ at'[t] = label /\ stack'[t] = q /\ found'[t] = fs /\ kept'[t] = ks /\ result'[t] = how
Unmoved(u) ==
  /\ at'[u] = at[u] /\ stack'[u] = stack[u] /\ found'[u] = found[u] /\ kept'[u] = kept[u]
  /\ result'[u] = result[u]

LEMMA MovesAre ==
  ASSUME Types, NEW t \in Threads, NEW label, NEW q, NEW fs, NEW ks, NEW how,
         Moves(t, label, q, fs, ks, how)
  PROVE  /\ Moved(t, label, q, fs, ks, how)
         /\ \A u \in Threads : u # t => Unmoved(u)
BY DEF Moves, Moved, Unmoved, Types

\* A step that only takes a thread from one place to another.
LEMMA GotoMoves ==
  ASSUME Types, NEW t \in Threads, NEW label, Goto(t, label), UNCHANGED <<stack, found, kept>>
  PROVE  Moves(t, label, stack[t], found[t], kept[t], result[t])
BY DEF Goto, Moves, Types

LEMMA MovesType ==
  ASSUME Types, NEW t \in Threads,
         NEW label \in {"idle"} \cup Searching \cup Requesting, NEW q \in Seq(Frames),
         NEW fs \in SUBSET Anyone, NEW ks \in SUBSET Anyone,
         NEW how \in {"none", "exception", "answered", "requested"},
         Moves(t, label, q, fs, ks, how)
  PROVE  /\ at' \in [Threads -> {"idle"} \cup Searching \cup Requesting]
         /\ stack' \in [Threads -> Seq(Frames)]
         /\ found' \in [Threads -> SUBSET Anyone] /\ kept' \in [Threads -> SUBSET Anyone]
         /\ result' \in [Threads -> {"none", "exception", "answered", "requested"}]
BY DEF Moves, Types

\* The steps of a search, one by one.
Fails(t) == at[t] \in Searching /\ Moves(t, "idle", <<>>, {}, {}, "exception")
Starts(t) ==
  /\ At(t, "list")
  /\ Moves(t, "descend", <<Frame(Me, Subordinates(Anchor))>>, found[t], kept[t], result[t])
Down(t, e) ==
  /\ At(t, "descend") /\ e \in Top(t).todo
  /\ Moves(t, "configuration", Descended(stack[t], e), found[t], kept[t], result[t])
Back(t) ==
  /\ At(t, "descend") /\ Top(t).todo = {} /\ Len(stack[t]) > 1
  /\ Moves(t, "descend", Below(stack[t]), found[t], kept[t], result[t])
Through(t) ==
  /\ At(t, "descend") /\ Top(t).todo = {} /\ Len(stack[t]) = 1
  /\ Moves(t, "verify", <<>>, found[t], Wanted(t), result[t])
  /\ left' = [left EXCEPT ![t] = Wanted(t)]
Arrives(t) ==
  /\ At(t, "configuration") /\ Top(t).node \in Entities
  /\ Moves(t, IF Top(t).node \in Superiors THEN "typed" ELSE "descend", stack[t],
           found[t] \cup ({Top(t).node} \cap Providers), kept[t], result[t])
Notes(t, es) ==
  /\ At(t, "typed") /\ es \in {OfType(Top(t).node), {NotAnEntity}}
  /\ Moves(t, "intermediates", stack[t], found[t] \cup es, kept[t], result[t])
Expands(t, es) ==
  /\ At(t, "intermediates") /\ es \in {Intermediates(Top(t).node), {NotAnEntity}}
  /\ Moves(t, "descend", Replaced(stack[t], es), found[t], kept[t], result[t])

\* The chains on store for an entity, or its own.
Of(e) == IF trust_chain[e] # Nothing THEN trust_chain[e] ELSE e
Finds == \E e \in Entities : Of(e) \in Entities /\ trust_chain' = [trust_chain EXCEPT ![e] = Of(e)]

Verifies(t, e) ==
  /\ At(t, "verify") /\ e \in left[t] /\ Of(e) \in CredentialIssuers
  /\ left' = [left EXCEPT ![t] = @ \ {e}]
  /\ Moves(t, "verify", stack[t], found[t],
           IF Of(e) \in Suitable THEN kept[t] ELSE kept[t] \ {e}, result[t])
Looks(t) ==
  /\ At(t, "verify") /\ left[t] = {} /\ request[t].trust_mark_id
  /\ Moves(t, "marks", stack[t], found[t], kept[t], result[t])
Sifts(t, ks) ==
  /\ At(t, "marks") /\ ks \subseteq kept[t]
  /\ Moves(t, "marks", stack[t], found[t], ks, result[t])
Answers(t) ==
  /\ At(t, "verify") \/ At(t, "marks")
  /\ left[t] = {}
  /\ Moves(t, "idle", stack[t], found[t], kept[t], "answered")
Sieves(t) ==
  \/ Looks(t) \/ Answers(t)
  \/ \E e \in Entities : Verifies(t, e)
  \/ \E ks \in SUBSET Anyone : Sifts(t, ks)

Asks(t) == UNCHANGED <<issuer, overlapped>> \/ \E e \in Anyone : Request(t, e)
\* What the steps of a search leave alone.
Around(t) ==
  /\ SuperiorTypeOK' /\ UNCHANGED subordinate /\ Asks(t)
  /\ config_cache' \in [Entities -> {"no", "fresh", "expired"}]
  /\ left' \in [Threads -> SUBSET Anyone] /\ \A u \in Threads \ {t} : left'[u] = left[u]
  /\ UNCHANGED <<request, asked, used, calls, changes, steady, ever>>
Searches(t) ==
  /\ Around(t)
  /\ UNCHANGED trust_chain \/ Finds
  /\ \/ Fails(t) \/ Starts(t) \/ Back(t) \/ Through(t) \/ Arrives(t) \/ Sieves(t)
     \/ \E e \in Anyone : Down(t, e)
     \/ \E es \in SUBSET Anyone : Notes(t, es) \/ Expands(t, es)

LEMMA RaiseIs ==
  ASSUME NEW t, at[t] \in Searching, Raise(t)
  PROVE  Fails(t)
BY DEF Raise, End, Fails, Moves

\* What is left to look at is set by the steps of a search for its own thread.
LEMMA LeftIs ==
  ASSUME Types, NEW t, UNCHANGED left \/ Raise(t) \/ \E ls \in SUBSET Anyone : left' = [left EXCEPT ![t] = ls]
  PROVE  left' \in [Threads -> SUBSET Anyone] /\ \A u \in Threads \ {t} : left'[u] = left[u]
<1>1. UNCHANGED left \/ \E ls \in SUBSET Anyone : left' = [left EXCEPT ![t] = ls]
  BY DEF Raise
<1>. QED
  BY <1>1 DEF Types

LEMMA ListAllIs ==
  ASSUME Types, NEW t \in Threads, NEW http, ListAll(t, http)
  PROVE  Searches(t)
<1>1. Around(t) /\ UNCHANGED trust_chain
  <2>1. UNCHANGED left \/ Raise(t)
    BY DEF ListAll, sieve
  <2>2. left' \in [Threads -> SUBSET Anyone] /\ \A u \in Threads \ {t} : left'[u] = left[u]
    BY <2>1, LeftIs
  <2>. QED
    BY <2>2 DEF ListAll, Around, Asks, superior_vars, observed, asking, Types, SuperiorTypeOK
<1>2. CASE Raise(t)
  BY <1>1, <1>2, RaiseIs DEF ListAll, At, Searching, Searches
<1>3. CASE ~Raise(t)
  <2>1. Starts(t)
    BY <1>3 DEF ListAll, Starts, Moves, Goto, Types, sieve
  <2>. QED
    BY <1>1, <2>1 DEF Searches
<1>. QED
  BY <1>2, <1>3

LEMMA DescendIs ==
  ASSUME Types, Stacks, NEW t \in Threads, Descend(t)
  PROVE  Searches(t)
<1>. DEFINE goes(e) == DescendTo(t, e) /\ Goto(t, "configuration") /\ UNCHANGED <<found, sieve>>
            through == /\ Goto(t, "verify")
                       /\ kept' = [kept EXCEPT ![t] = Wanted(t)] /\ left' = [left EXCEPT ![t] = Wanted(t)]
            back == /\ Top(t).todo = {} /\ stack' = [stack EXCEPT ![t] = Rest(t)]
                    /\ IF Len(stack[t]) > 1 THEN Goto(t, "descend") /\ UNCHANGED sieve
                       ELSE through
                    /\ UNCHANGED found
<1>0. (\E e \in Top(t).todo : goes(e)) \/ Raise(t) \/ back
  BY DEF Descend
<1>1. Around(t) /\ UNCHANGED trust_chain /\ At(t, "descend")
  <2>1. Wanted(t) \in SUBSET Anyone
    BY DEF Wanted, Types
  <2>2. UNCHANGED left \/ Raise(t) \/ left' = [left EXCEPT ![t] = Wanted(t)]
    BY <1>0 DEF sieve
  <2>3. left' \in [Threads -> SUBSET Anyone] /\ \A u \in Threads \ {t} : left'[u] = left[u]
    BY <2>1, <2>2, LeftIs
  <2>. QED
    BY <2>3 DEF Descend, Around, Asks, superior_vars, observed, asking, Types, SuperiorTypeOK
<1>2. stack[t] \in Seq(Frames) /\ stack[t] # <<>>
  BY <1>1 DEF Types, Stacks, StackFor, At, Walking
<1>3. Len(stack[t]) \in Nat \ {0} /\ Top(t).todo \subseteq Anyone
  BY <1>2, StackIs DEF Top
<1>4. CASE \E e \in Top(t).todo : goes(e)
  <2>1. PICK e \in Top(t).todo : goes(e)
    BY <1>4
  <2>2. stack' = [stack EXCEPT ![t] = Descended(stack[t], e)]
    BY <2>1 DEF DescendTo, Descended, Rest, Below, Top, Frame
  <2>3. Down(t, e)
    BY <1>1, <2>1, <2>2 DEF Down, Moves, Goto, Types, sieve
  <2>. QED
    BY <1>1, <1>3, <2>1, <2>3 DEF Searches
<1>5. CASE back
  <2>1. stack' = [stack EXCEPT ![t] = Below(stack[t])]
    BY <1>5 DEF Rest, Below
  <2>2. CASE Len(stack[t]) > 1
    <3>1. Back(t)
      BY <1>1, <1>5, <2>1, <2>2 DEF Back, Moves, Goto, Types, sieve
    <3>. QED
      BY <1>1, <3>1 DEF Searches
  <2>3. CASE ~(Len(stack[t]) > 1)
    <3>1. Len(stack[t]) = 1
      <4>. DEFINE n == Len(stack[t])
      <4>1. n \in Nat /\ n # 0 /\ ~(n > 1)
        BY <1>3, <2>3
      <4>. HIDE DEF n
      <4>2. n = 1
        BY <4>1
      <4>. QED
        BY <4>2 DEF n
    <3>2. Below(stack[t]) \in Seq(Frames) /\ Len(Below(stack[t])) = 0
      BY <1>2, <3>1, BelowIs
    <3>3. Below(stack[t]) = <<>>
      BY <3>2, EmptySeq
    <3>4. /\ stack' = [stack EXCEPT ![t] = <<>>] /\ Goto(t, "verify")
          /\ kept' = [kept EXCEPT ![t] = Wanted(t)] /\ left' = [left EXCEPT ![t] = Wanted(t)]
          /\ UNCHANGED found
      BY <1>1, <1>5, <2>1, <2>3, <3>3
    <3>5. Moves(t, "verify", <<>>, found[t], Wanted(t), result[t])
      <4>1. found = [found EXCEPT ![t] = found[t]] /\ result = [result EXCEPT ![t] = result[t]]
        BY DEF Types
      <4>. QED
        BY <3>4, <4>1 DEF Moves, Goto
    <3>6. Through(t)
      BY <1>1, <1>5, <3>1, <3>4, <3>5 DEF Through
    <3>. QED
      BY <1>1, <3>6 DEF Searches
  <2>. QED
    BY <2>2, <2>3
<1>6. CASE Raise(t)
  BY <1>1, <1>6, RaiseIs DEF Searches, At, Searching, Walking
<1>. QED
  BY <1>0, <1>4, <1>5, <1>6

\* The node of the last frame, and of the one before.
LEMMA NodesAre ==
  ASSUME Types, Stacks, NEW t \in Threads,
         At(t, "configuration") \/ At(t, "typed") \/ At(t, "intermediates")
  PROVE  /\ Top(t).node \in Anyone /\ Top(t).todo = {} /\ stack[t] \in Seq(Frames) /\ stack[t] # <<>>
         /\ stack[t][Len(stack[t]) - 1].node \in Entities
         /\ ~At(t, "configuration") => Top(t).node \in Superiors /\ Top(t).node \in Entities
<1>1. /\ Len(stack[t]) > 1 /\ Top(t).todo = {} /\ stack[t] # <<>> /\ stack[t] \in Seq(Frames)
      /\ \A i \in 1..Len(stack[t]) :
           stack[t][i].node \in Entities \/ (At(t, "configuration") /\ i = Len(stack[t]))
      /\ At(t, "typed") \/ At(t, "intermediates") => Top(t).node \in Superiors
  BY DEF Stacks, StackFor, At, Walking, Types
<1>2. Len(stack[t]) \in Nat /\ Top(t).node \in Anyone
  BY <1>1, StackIs DEF Top
<1>3. Len(stack[t]) - 1 \in 1..Len(stack[t]) /\ Len(stack[t]) - 1 # Len(stack[t])
  BY <1>1, <1>2
<1>. QED
  BY <1>1, <1>2, <1>3, SuperiorAssumption DEF SuperiorAssumption

LEMMA ConfigurationIs ==
  ASSUME Types, Stacks, NEW t \in Threads, NEW http, Configuration(t, http)
  PROVE  Searches(t)
<1>. DEFINE e == Top(t).node
            s == stack[t][Len(stack[t]) - 1].node
            fetched == /\ e # NotAnEntity /\ http = "answer"
                       /\ s \in Superiors /\ config_cache[s] = "fresh"
                       /\ subordinate[s][e] # Nothing
            cached == e # NotAnEntity /\ config_cache[e] # "no"
            succeeds == /\ cached \/ fetched
                        /\ config_cache' = [config_cache EXCEPT ![e] = "fresh"]
                        /\ Note(t, {e} \cap Providers)
                        /\ Goto(t, IF e \in Superiors THEN "typed" ELSE "descend")
                        /\ UNCHANGED <<stack, sieve>>
            fails == config_cache' = Evict(IF cached THEN e ELSE s) /\ Raise(t)
<1>1. /\ At(t, "configuration") /\ UNCHANGED <<trust_chain, request, asking, calls, changes, steady, ever>>
      /\ \/ cached /\ UNCHANGED <<superior_vars, issuer, overlapped>>
         \/ /\ ~cached /\ Request(t, IF fetched THEN e ELSE s)
            /\ IF fetched THEN Fetch(s, e) ELSE UNCHANGED superior_vars
      /\ succeeds \/ fails
  BY DEF Configuration
<1>2. e \in Anyone /\ s \in Entities
  BY <1>1, NodesAre
<1>3. e # NotAnEntity => e \in Entities
  BY <1>2 DEF Anyone
<1>4. cached \/ fetched => e \in Entities
  BY <1>3
<1>. HIDE DEF e, s
<1>5. Asks(t)
  <2>1. (IF fetched THEN e ELSE s) \in Anyone
    BY <1>2 DEF Anyone
  <2>2. UNCHANGED <<issuer, overlapped>> \/ Request(t, IF fetched THEN e ELSE s)
    BY <1>1
  <2>. QED
    BY <2>1, <2>2 DEF Asks
<1>6. SuperiorTypeOK' /\ UNCHANGED subordinate
  <2>1. CASE UNCHANGED superior_vars
    BY <2>1 DEF superior_vars, SuperiorTypeOK, Types
  <2>2. CASE Fetch(s, e) /\ fetched
    BY <1>3, <2>2, FetchTypes DEF Types
  <2>. QED
    BY <1>1, <2>1, <2>2
<1>7. config_cache' \in [Entities -> {"no", "fresh", "expired"}]
  <2>1. config_cache \in [Entities -> {"no", "fresh", "expired"}]
    BY DEF Types
  <2>. QED
    BY <1>1, <2>1 DEF Evict
<1>8. Around(t)
  <2>1. left' \in [Threads -> SUBSET Anyone] /\ \A u \in Threads \ {t} : left'[u] = left[u]
    BY <1>1, LeftIs DEF sieve
  <2>. QED
    BY <1>1, <1>5, <1>6, <1>7, <2>1 DEF Around, asking
<1>9. CASE succeeds
  <2>1. found' = [found EXCEPT ![t] = found[t] \cup ({e} \cap Providers)]
    BY <1>9 DEF Note
  <2>2. /\ stack = [stack EXCEPT ![t] = stack[t]] /\ kept = [kept EXCEPT ![t] = kept[t]]
        /\ result = [result EXCEPT ![t] = result[t]]
    BY DEF Types
  <2>3. Moves(t, IF e \in Superiors THEN "typed" ELSE "descend", stack[t],
              found[t] \cup ({e} \cap Providers), kept[t], result[t])
    BY <1>9, <2>1, <2>2 DEF Moves, Goto, sieve
  <2>4. Arrives(t)
    BY <1>1, <1>4, <1>9, <2>3 DEF Arrives, e
  <2>. QED
    BY <1>1, <1>8, <2>4 DEF Searches
<1>10. CASE Raise(t)
  BY <1>1, <1>8, <1>10, RaiseIs DEF Searches, At, Searching, Walking
<1>. QED
  BY <1>1, <1>9, <1>10

LEMMA ListTypedIs ==
  ASSUME Types, Stacks, NEW t \in Threads, NEW http, ListTyped(t, http)
  PROVE  Searches(t)
<1>1. At(t, "typed") /\ Top(t).node \in Entities
  BY NodesAre DEF ListTyped, At
<1>2. Around(t) /\ UNCHANGED trust_chain
  <2>1. Asks(t)
    BY <1>1 DEF ListTyped, Asks, Anyone
  <2>2. UNCHANGED <<superior_vars, config_cache, trust_chain, request, asking, calls, changes,
                    steady, ever>>
    BY DEF ListTyped
  <2>3. left' \in [Threads -> SUBSET Anyone] /\ \A u \in Threads \ {t} : left'[u] = left[u]
    <3>1. UNCHANGED left \/ Raise(t)
      BY DEF ListTyped, sieve
    <3>. QED
      BY <3>1, LeftIs
  <2>. QED
    BY <2>1, <2>2, <2>3 DEF Around, superior_vars, asking, Types, SuperiorTypeOK
<1>3. CASE Raise(t)
  BY <1>1, <1>2, <1>3, RaiseIs DEF Searches, At, Searching, Walking
<1>4. CASE ~Raise(t)
  <2>. DEFINE es == AnswerOrKeys(http, OfType(Top(t).node))
  <2>1. es \in {OfType(Top(t).node), {NotAnEntity}} /\ es \in SUBSET Anyone
    BY DEF AnswerOrKeys, OfType, Subordinates, Anyone
  <2>2. Note(t, es) /\ Goto(t, "intermediates") /\ UNCHANGED <<stack, sieve>>
    BY <1>4 DEF ListTyped
  <2>. HIDE DEF es
  <2>3. /\ stack = [stack EXCEPT ![t] = stack[t]] /\ kept = [kept EXCEPT ![t] = kept[t]]
        /\ result = [result EXCEPT ![t] = result[t]]
    BY DEF Types
  <2>4. Moves(t, "intermediates", stack[t], found[t] \cup es, kept[t], result[t])
    BY <2>2, <2>3 DEF Moves, Goto, Note, sieve
  <2>5. Notes(t, es)
    BY <1>1, <2>1, <2>4 DEF Notes
  <2>. QED
    BY <1>2, <2>1, <2>5 DEF Searches
<1>. QED
  BY <1>3, <1>4

LEMMA ListIntermediatesIs ==
  ASSUME Types, Stacks, NEW t \in Threads, NEW http, ListIntermediates(t, http)
  PROVE  Searches(t)
<1>1. At(t, "intermediates") /\ Top(t).node \in Entities
  BY NodesAre DEF ListIntermediates, At
<1>2. Around(t) /\ UNCHANGED trust_chain
  <2>1. Asks(t)
    BY <1>1 DEF ListIntermediates, Asks, Anyone
  <2>2. UNCHANGED <<superior_vars, config_cache, trust_chain, request, asking, calls, changes,
                    steady, ever>>
    BY DEF ListIntermediates
  <2>3. left' \in [Threads -> SUBSET Anyone] /\ \A u \in Threads \ {t} : left'[u] = left[u]
    <3>1. UNCHANGED left \/ Raise(t)
      BY DEF ListIntermediates, sieve
    <3>. QED
      BY <3>1, LeftIs
  <2>. QED
    BY <2>1, <2>2, <2>3 DEF Around, superior_vars, asking, Types, SuperiorTypeOK
<1>3. CASE Raise(t)
  BY <1>1, <1>2, <1>3, RaiseIs DEF Searches, At, Searching, Walking
<1>4. CASE ~Raise(t)
  <2>. DEFINE es == AnswerOrKeys(http, Intermediates(Top(t).node))
  <2>1. es \in {Intermediates(Top(t).node), {NotAnEntity}} /\ es \in SUBSET Anyone
    BY DEF AnswerOrKeys, Intermediates, Subordinates, Anyone
  <2>2. /\ stack' = [stack EXCEPT ![t] = Append(Rest(t), Frame(Top(t).node, es))]
        /\ Goto(t, "descend") /\ UNCHANGED <<found, sieve>>
    BY <1>4 DEF ListIntermediates
  <2>. HIDE DEF es
  <2>3. stack' = [stack EXCEPT ![t] = Replaced(stack[t], es)]
    BY <2>2 DEF Replaced, Rest, Below, Top
  <2>4. /\ found = [found EXCEPT ![t] = found[t]] /\ kept = [kept EXCEPT ![t] = kept[t]]
        /\ result = [result EXCEPT ![t] = result[t]]
    BY DEF Types
  <2>5. Moves(t, "descend", Replaced(stack[t], es), found[t], kept[t], result[t])
    BY <2>2, <2>3, <2>4 DEF Moves, Goto, sieve
  <2>6. Expands(t, es)
    BY <1>1, <2>1, <2>5 DEF Expands
  <2>. QED
    BY <1>2, <2>1, <2>6 DEF Searches
<1>. QED
  BY <1>3, <1>4

LEMMA SameIs ==
  ASSUME Types, NEW t \in Threads
  PROVE  /\ stack = [stack EXCEPT ![t] = stack[t]] /\ found = [found EXCEPT ![t] = found[t]]
         /\ kept = [kept EXCEPT ![t] = kept[t]] /\ result = [result EXCEPT ![t] = result[t]]
BY DEF Types

LEMMA WhoseIs ==
  ASSUME Types, NEW e \in Anyone, NEW chained, StoreFound(e, Whose(e, chained))
  PROVE  \/ Whose(e, chained) = Nothing /\ UNCHANGED trust_chain
         \/ /\ e \in Entities /\ Whose(e, chained) = Of(e) /\ Of(e) \in Entities
            /\ trust_chain' = [trust_chain EXCEPT ![e] = Of(e)]
<1>1. CASE Whose(e, chained) = Nothing
  BY <1>1 DEF StoreFound
<1>2. CASE Whose(e, chained) # Nothing
  <2>1. e \in Entities /\ Whose(e, chained) = Of(e)
    BY <1>2 DEF Whose, Of, Anyone, NotAnEntity
  <2>2. Of(e) \in Entities
    BY <2>1 DEF Of, Types, Anyone, NotAnEntity
  <2>. QED
    BY <1>2, <2>1, <2>2 DEF StoreFound
<1>. QED
  BY <1>1, <1>2

LEMMA DropIs ==
  ASSUME Types, NEW t \in Threads, NEW e, NEW good, Drop(t, e, good)
  PROVE  /\ Moves(t, at[t], stack[t], found[t], IF good THEN kept[t] ELSE kept[t] \ {e}, result[t])
         /\ left' = [left EXCEPT ![t] = @ \ {e}]
<1>1. at = [at EXCEPT ![t] = at[t]] /\ kept = [kept EXCEPT ![t] = kept[t]]
  BY DEF Types
<1>. QED
  BY <1>1, SameIs DEF Drop, Moves

\* What is left after one was looked at.
LEMMA RestIs ==
  ASSUME Types, NEW t \in Threads, NEW e, Raise(t) \/ left' = [left EXCEPT ![t] = @ \ {e}]
  PROVE  left' \in [Threads -> SUBSET Anyone] /\ \A u \in Threads \ {t} : left'[u] = left[u]
<1>1. left[t] \ {e} \in SUBSET Anyone
  BY DEF Types
<1>. QED
  BY <1>1, LeftIs

LEMMA VerifyIs ==
  ASSUME Types, NEW t \in Threads, NEW e \in left[t], NEW chained \in BOOLEAN, Verify(t, e, chained)
  PROVE  Searches(t)
<1>. DEFINE whose == Whose(e, chained)
<1>1. /\ At(t, "verify") /\ StoreFound(e, whose)
      /\ UNCHANGED <<superior_vars, config_cache, issuer, request, asking, calls, changes, observed>>
      /\ \/ whose \notin CredentialIssuers /\ Raise(t)
         \/ whose \in CredentialIssuers /\ Drop(t, e, whose \in Suitable)
  BY DEF Verify
<1>2. Around(t)
  <2>1. left' \in [Threads -> SUBSET Anyone] /\ \A u \in Threads \ {t} : left'[u] = left[u]
    BY <1>1, RestIs, DropIs
  <2>. QED
    BY <1>1, <2>1 DEF Around, Asks, superior_vars, asking, observed, Types, SuperiorTypeOK
<1>3. e \in Anyone
  BY DEF Types
<1>4. UNCHANGED trust_chain \/ Finds
  BY <1>1, <1>3, WhoseIs DEF Finds
<1>5. CASE Raise(t)
  BY <1>1, <1>2, <1>4, <1>5, RaiseIs DEF Searches, At, Searching
<1>6. CASE whose \in CredentialIssuers /\ Drop(t, e, whose \in Suitable)
  <2>1. whose # Nothing
    BY <1>6, FederationAssumption, SuperiorAssumption DEF FederationAssumption, SuperiorAssumption
  <2>2. e \in Entities /\ whose = Of(e)
    BY <1>1, <1>3, <2>1, WhoseIs
  <2>. HIDE DEF whose
  <2>3. /\ Moves(t, at[t], stack[t], found[t], IF Of(e) \in Suitable THEN kept[t] ELSE kept[t] \ {e}, result[t])
        /\ left' = [left EXCEPT ![t] = @ \ {e}]
    <3>1. Of(e) \in Suitable => Drop(t, e, TRUE)
      BY <1>6, <2>2 DEF Drop
    <3>2. Of(e) \notin Suitable => Drop(t, e, FALSE)
      BY <1>6, <2>2 DEF Drop
    <3>. QED
      BY <3>1, <3>2, DropIs
  <2>4. Verifies(t, e)
    BY <1>1, <1>6, <2>2, <2>3 DEF Verifies, At
  <2>. QED
    BY <1>2, <1>4, <2>2, <2>4 DEF Searches, Sieves
<1>. QED
  BY <1>1, <1>5, <1>6

LEMMA LookForMarksIs ==
  ASSUME Types, NEW t \in Threads, LookForMarks(t)
  PROVE  Searches(t)
<1>1. Around(t) /\ UNCHANGED trust_chain
  <2>1. kept[t] \in SUBSET Anyone
    BY DEF Types
  <2>2. left' \in [Threads -> SUBSET Anyone] /\ \A u \in Threads \ {t} : left'[u] = left[u]
    BY <2>1, LeftIs DEF LookForMarks
  <2>. QED
    BY <2>2 DEF LookForMarks, Around, Asks, superior_vars, asking, observed, Types, SuperiorTypeOK
<1>2. Looks(t)
  BY GotoMoves DEF LookForMarks, Looks
<1>. QED
  BY <1>1, <1>2 DEF Searches, Sieves

LEMMA CheckMarkIs ==
  ASSUME Types, NEW t \in Threads, NEW e \in left[t], NEW i \in Issuers, NEW chained \in BOOLEAN,
         CheckMark(t, e, i, chained)
  PROVE  Searches(t)
<1>1. i \in Anyone /\ Nothing \in Anyone
  BY FederationAssumption DEF FederationAssumption, Anyone, NotAnEntity
<1>2. /\ At(t, "marks")
      /\ Raise(t) \/ \E good \in BOOLEAN : Drop(t, e, good)
      /\ UNCHANGED <<superior_vars, config_cache, request, asking, calls, changes, steady, ever>>
      /\ UNCHANGED trust_chain \/ StoreFound(i, Whose(i, chained))
      /\ UNCHANGED <<issuer, overlapped>> \/ Request(t, Nothing)
  BY DEF CheckMark
<1>3. Around(t)
  <2>1. left' \in [Threads -> SUBSET Anyone] /\ \A u \in Threads \ {t} : left'[u] = left[u]
    BY <1>2, RestIs, DropIs
  <2>. QED
    BY <1>1, <1>2, <2>1 DEF Around, Asks, superior_vars, asking, Types, SuperiorTypeOK
<1>4. UNCHANGED trust_chain \/ Finds
  BY <1>1, <1>2, WhoseIs DEF Finds
<1>5. CASE Raise(t)
  BY <1>2, <1>3, <1>4, <1>5, RaiseIs DEF Searches, At, Searching
<1>6. ASSUME NEW good \in BOOLEAN, Drop(t, e, good)
      PROVE  Searches(t)
  <2>. DEFINE ks == IF good THEN kept[t] ELSE kept[t] \ {e}
  <2>1. Moves(t, at[t], stack[t], found[t], ks, result[t])
    BY <1>6, DropIs
  <2>2. ks \subseteq kept[t] /\ ks \in SUBSET Anyone
    BY DEF Types
  <2>. HIDE DEF ks
  <2>3. Sifts(t, ks)
    BY <1>2, <2>1, <2>2 DEF Sifts, At
  <2>. QED
    BY <1>3, <1>4, <2>2, <2>3 DEF Searches, Sieves
<1>. QED
  BY <1>2, <1>5, <1>6

LEMMA AnswerIs ==
  ASSUME Types, NEW t \in Threads, Answer(t)
  PROVE  Searches(t)
<1>1. Around(t) /\ UNCHANGED trust_chain
  <2>1. UNCHANGED left
    BY DEF Answer, searching, sieve
  <2>2. left' \in [Threads -> SUBSET Anyone] /\ \A u \in Threads \ {t} : left'[u] = left[u]
    BY <2>1, LeftIs
  <2>. QED
    BY <2>2 DEF Answer, Around, Asks, superior_vars, searching, asking, observed, Types, SuperiorTypeOK
<1>2. Moves(t, "idle", stack[t], found[t], kept[t], "answered")
  BY SameIs DEF Answer, End, Moves, searching, sieve
<1>3. Answers(t)
  BY <1>2 DEF Answer, Answers
<1>. QED
  BY <1>1, <1>3 DEF Searches, Sieves

\* The steps of a request for a trust mark.
Here(t, label, how) == Moves(t, label, stack[t], found[t], kept[t], how)
Begins(t, e) ==
  /\ At(t, "idle") /\ Here(t, "stored", "none") /\ Request(t, e) /\ UNCHANGED trust_chain
  /\ asked' = [asked EXCEPT ![t] = e] /\ used' = [used EXCEPT ![t] = Nothing]
Reads(t) ==
  /\ UNCHANGED <<issuer, overlapped, asked, trust_chain>>
  /\ \/ /\ At(t, "stored") /\ trust_chain[issuer] # Nothing
        /\ Use(t, trust_chain[issuer]) /\ Here(t, "idle", "requested")
     \/ At(t, "stored") /\ Use(t, issuer) /\ Here(t, "collect", result[t])
     \/ At(t, "again") /\ Use(t, issuer) /\ Here(t, "collect_again", result[t])
Collects(t) ==
  /\ UNCHANGED <<issuer, overlapped, asked>>
  /\ \/ /\ at[t] \in {"collect", "collect_again"} /\ UNCHANGED used
        /\ StoreChains(IF At(t, "collect") THEN used[t] ELSE issuer, used[t])
        /\ Here(t, "idle", "requested")
     \/ /\ At(t, "collect") /\ Use(t, Nothing) /\ Here(t, "again", result[t])
        /\ UNCHANGED trust_chain
     \/ /\ At(t, "collect_again") /\ Use(t, Nothing) /\ Here(t, "idle", "exception")
        /\ UNCHANGED trust_chain

LEMMA BeginsIs ==
  ASSUME Types, NEW t \in Threads, NEW e, RequestTrustMark(t, e)
  PROVE  Begins(t, e)
BY SameIs DEF RequestTrustMark, Begins, Here, Moves, searching, sieve

LEMMA ReadsIs ==
  ASSUME Types, NEW t \in Threads, ReadIssuer(t)
  PROVE  Reads(t)
BY SameIs DEF ReadIssuer, Reads, Here, Moves, searching, sieve, observed, Goto, End

LEMMA CollectsIs ==
  ASSUME Types, NEW t \in Threads, NEW chained, Collect(t, chained)
  PROVE  Collects(t)
BY SameIs DEF Collect, Collects, Here, Moves, searching, sieve, observed, Goto, End, At

-----------------------------------------------------------------------------
(* Types                                                                   *)

LEMMA TypesAtFirst == Init => Types
<1>. SUFFICES ASSUME Init
              PROVE  Types
  OBVIOUS
<1>1. NoPolicy \in Policies \cup {NoPolicy} /\ NoPolicy \in [Parts -> Values \cup {Nothing}]
  BY DEF NoPolicy
<1>2. SuperiorTypeOK
  <2>1. subordinate \in [Superiors -> [Entities -> Records \cup {Nothing}]]
    BY FederationAssumption DEF FederationAssumption, Init
  <2>2. /\ written \in [Superiors -> [Entities -> [Parts -> Values \cup {Nothing}]]]
        /\ policy \in [Superiors -> [Entities -> Policies \cup {NoPolicy}]]
    BY <1>1 DEF Init
  <2>. QED
    BY <2>1, <2>2 DEF SuperiorTypeOK
<1>3. [all |-> {}, type |-> {}, intermediate |-> {}] \in Lists
  BY DEF Lists
<1>4. <<>> \in Seq(Frames)
  OBVIOUS
<1>5. /\ issuer \in Anyone /\ changes \in 0..MaxChanges /\ overlapped \in BOOLEAN
      /\ config_cache \in [Entities -> {"no", "fresh", "expired"}]
      /\ trust_chain \in [Anyone -> Anyone]
  <2>1. issuer \in Anyone /\ changes \in 0..MaxChanges /\ Nothing \in Anyone
    BY FederationAssumption DEF FederationAssumption, Init, Anyone, NotAnEntity
  <2>. QED
    BY <2>1 DEF Init
<1>6. /\ at \in [Threads -> {"idle"} \cup Searching \cup Requesting]
      /\ stack \in [Threads -> Seq(Frames)]
      /\ found \in [Threads -> SUBSET Anyone] /\ kept \in [Threads -> SUBSET Anyone]
      /\ left \in [Threads -> SUBSET Anyone] /\ request \in [Threads -> Requested]
      /\ asked \in [Threads -> Anyone] /\ used \in [Threads -> Anyone]
      /\ result \in [Threads -> {"none", "exception", "answered", "requested"}]
      /\ calls \in [Threads -> Nat]
  <2>1. Nothing \in Anyone /\ [credential_type |-> FALSE, trust_mark_id |-> FALSE] \in Requested
    BY DEF Anyone, NotAnEntity, Requested
  <2>. QED
    BY <1>4, <2>1 DEF Init
<1>7. steady \in [Searchers -> Lists] /\ ever \in [Searchers -> Lists]
  BY <1>3 DEF Init
<1>. QED
  BY <1>2, <1>5, <1>6, <1>7 DEF Types

LEMMA AsksTypes ==
  ASSUME Types, NEW t, Asks(t)
  PROVE  issuer' \in Anyone /\ overlapped' \in BOOLEAN
BY DEF Types, Asks, Request, About

\* Where the steps of a search take a thread.
LEMMA SearchTypes ==
  ASSUME Types, Stacks, NEW t \in Threads, Searches(t)
  PROVE  Types'
<1>. DEFINE typed == /\ at' \in [Threads -> {"idle"} \cup Searching \cup Requesting]
                     /\ stack' \in [Threads -> Seq(Frames)]
                     /\ found' \in [Threads -> SUBSET Anyone] /\ kept' \in [Threads -> SUBSET Anyone]
                     /\ result' \in [Threads -> {"none", "exception", "answered", "requested"}]
            Labels == {"idle"} \cup Searching \cup Requesting
            Results == {"none", "exception", "answered", "requested"}
<1>1. \A label \in Labels, q \in Seq(Frames), fs, ks \in SUBSET Anyone, how \in Results :
        Moves(t, label, q, fs, ks, how) => typed
  BY MovesType
<1>2. /\ {"idle", "list", "descend", "configuration", "typed", "intermediates", "verify", "marks"} \subseteq Labels
      /\ stack[t] \in Seq(Frames) /\ found[t] \in SUBSET Anyone /\ kept[t] \in SUBSET Anyone
      /\ result[t] \in Results /\ {"exception", "answered"} \subseteq Results
      /\ <<>> \in Seq(Frames) /\ {} \in SUBSET Anyone
  BY DEF Types, Searching, Walking
<1>3. at[t] \in Walking => stack[t] # <<>>
  BY DEF Stacks, StackFor
<1>. HIDE DEF typed, Labels, Results
<1>4. ASSUME Fails(t)
      PROVE  typed
  BY <1>1, <1>2, <1>4 DEF Fails
<1>5. ASSUME Starts(t)
      PROVE  typed
  <2>1. Me \in Anyone /\ Subordinates(Anchor) \in SUBSET Anyone
    BY FederationAssumption DEF FederationAssumption, Anyone, Subordinates
  <2>2. <<Frame(Me, Subordinates(Anchor))>> \in Seq(Frames)
    BY <2>1, FrameIs
  <2>. QED
    BY <1>1, <1>2, <1>5, <2>2 DEF Starts
<1>6. ASSUME NEW e \in Anyone, Down(t, e)
      PROVE  typed
  <2>1. Descended(stack[t], e) \in Seq(Frames)
    BY <1>2, <1>3, <1>6, DescentFrames DEF Down, At, Walking, Top
  <2>. QED
    BY <1>1, <1>2, <1>6, <2>1 DEF Down
<1>7. ASSUME Back(t)
      PROVE  typed
  <2>1. Below(stack[t]) \in Seq(Frames)
    BY <1>2, <1>3, <1>7, BelowIs DEF Back, At, Walking
  <2>. QED
    BY <1>1, <1>2, <1>7, <2>1 DEF Back
<1>8. ASSUME Through(t)
      PROVE  typed
  <2>1. Wanted(t) \in SUBSET Anyone
    BY <1>2 DEF Wanted
  <2>. QED
    BY <1>1, <1>2, <1>8, <2>1 DEF Through
<1>9. ASSUME Arrives(t)
      PROVE  typed
  <2>. DEFINE label == IF Top(t).node \in Superiors THEN "typed" ELSE "descend"
              fs == found[t] \cup ({Top(t).node} \cap Providers)
  <2>1. label \in Labels
    BY <1>2
  <2>2. fs \in SUBSET Anyone
    BY <1>2, FederationAssumption DEF FederationAssumption, Anyone
  <2>3. Moves(t, label, stack[t], fs, kept[t], result[t])
    BY <1>9 DEF Arrives
  <2>. HIDE DEF label, fs
  <2>. QED
    BY <1>1, <1>2, <2>1, <2>2, <2>3
<1>10. ASSUME NEW es \in SUBSET Anyone, Notes(t, es)
       PROVE  typed
  <2>1. found[t] \cup es \in SUBSET Anyone
    BY <1>2
  <2>. QED
    BY <1>1, <1>2, <1>10, <2>1 DEF Notes
<1>11. ASSUME NEW es \in SUBSET Anyone, Expands(t, es)
       PROVE  typed
  <2>1. Replaced(stack[t], es) \in Seq(Frames)
    BY <1>2, <1>11, NodesAre, ReplacedIs DEF Expands, Top
  <2>. QED
    BY <1>1, <1>2, <1>11, <2>1 DEF Expands
<1>12. ASSUME Looks(t) \/ Answers(t)
       PROVE  typed
  BY <1>1, <1>2, <1>12 DEF Looks, Answers
<1>13. ASSUME NEW e \in Entities, Verifies(t, e)
       PROVE  typed
  <2>. DEFINE ks == IF Of(e) \in Suitable THEN kept[t] ELSE kept[t] \ {e}
  <2>1. ks \in SUBSET Anyone /\ Moves(t, "verify", stack[t], found[t], ks, result[t])
    BY <1>2, <1>13 DEF Verifies
  <2>. HIDE DEF ks
  <2>. QED
    BY <1>1, <1>2, <2>1
<1>14. ASSUME NEW ks \in SUBSET Anyone, Sifts(t, ks)
       PROVE  typed
  BY <1>1, <1>2, <1>14 DEF Sifts
<1>15. typed
  BY <1>4, <1>5, <1>6, <1>7, <1>8, <1>9, <1>10, <1>11, <1>12, <1>13, <1>14 DEF Searches, Sieves
<1>16. trust_chain' \in [Anyone -> Anyone]
  <2>1. CASE UNCHANGED trust_chain
    BY <2>1 DEF Types
  <2>2. CASE Finds
    BY <2>2 DEF Finds, Types, Anyone
  <2>. QED
    BY <2>1, <2>2 DEF Searches
<1>17. issuer' \in Anyone /\ overlapped' \in BOOLEAN
  BY AsksTypes DEF Searches, Around
<1>. QED
  BY <1>15, <1>16, <1>17 DEF Searches, Around, Types, typed

LEMMA HereTypes ==
  ASSUME Types, NEW t \in Threads, NEW label \in {"idle"} \cup Requesting,
         NEW how \in {"none", "exception", "answered", "requested"}, Here(t, label, how)
  PROVE  /\ at' \in [Threads -> {"idle"} \cup Searching \cup Requesting]
         /\ stack' \in [Threads -> Seq(Frames)]
         /\ found' \in [Threads -> SUBSET Anyone] /\ kept' \in [Threads -> SUBSET Anyone]
         /\ result' \in [Threads -> {"none", "exception", "answered", "requested"}]
<1>1. /\ stack[t] \in Seq(Frames) /\ found[t] \in SUBSET Anyone /\ kept[t] \in SUBSET Anyone
      /\ label \in {"idle"} \cup Searching \cup Requesting
  BY DEF Types
<1>. QED
  BY <1>1, MovesType DEF Here

Opens(t) ==
  /\ At(t, "idle") /\ Moves(t, "list", stack[t], {}, {}, "none") /\ Request(t, Anchor)
  /\ steady' = [steady EXCEPT ![t] = Listed] /\ ever' = [ever EXCEPT ![t] = Listed]
  /\ UNCHANGED <<subordinate, trust_chain, left, asked, used>>
  /\ \A u \in Threads \ {t} : request'[u] = request[u]

LEMMA OpensIs ==
  ASSUME Types, NEW t \in Threads, NEW c, NEW m, Who(t, c, m)
  PROVE  Opens(t)
<1>1. \A u \in Threads \ {t} : request'[u] = request[u]
  BY DEF Who, Types
<1>. QED
  BY <1>1, SameIs DEF Who, Opens, Moves, superior_vars, asking

LEMMA WhoTypes ==
  ASSUME Types, NEW t \in Searchers, NEW c \in BOOLEAN, NEW m \in BOOLEAN, Who(t, c, m)
  PROVE  Types'
<1>1. t \in Threads /\ Anchor \in Entities
  BY FederationAssumption, SuperiorAssumption DEF FederationAssumption, SuperiorAssumption
<1>2. /\ Moves(t, "list", stack[t], {}, {}, "none") /\ Request(t, Anchor)
      /\ steady' = [steady EXCEPT ![t] = Listed] /\ ever' = [ever EXCEPT ![t] = Listed]
  BY <1>1, OpensIs DEF Opens
<1>3. /\ at' \in [Threads -> {"idle"} \cup Searching \cup Requesting]
      /\ stack' \in [Threads -> Seq(Frames)]
      /\ found' \in [Threads -> SUBSET Anyone] /\ kept' \in [Threads -> SUBSET Anyone]
      /\ result' \in [Threads -> {"none", "exception", "answered", "requested"}]
  <2>1. stack[t] \in Seq(Frames) /\ "list" \in {"idle"} \cup Searching \cup Requesting
    BY <1>1 DEF Types, Searching
  <2>. QED
    BY <1>1, <1>2, <2>1, MovesType
<1>4. steady' \in [Searchers -> Lists] /\ ever' \in [Searchers -> Lists]
  BY <1>2, ListedIs DEF Types
<1>5. issuer' \in Anyone /\ overlapped' \in BOOLEAN
  BY <1>1, <1>2, AsksTypes DEF Asks, Anyone
<1>6. calls' \in [Threads -> Nat] /\ request' \in [Threads -> Requested]
  BY <1>1 DEF Who, Types, Requested
<1>7. UNCHANGED <<superior_vars, config_cache, trust_chain, left, asking, changes>>
  BY DEF Who
<1>. QED
  BY <1>3, <1>4, <1>5, <1>6, <1>7 DEF Types, superior_vars, asking, SuperiorTypeOK

LEMMA RequestTrustMarkTypes ==
  ASSUME Types, NEW t \in Threads, NEW e \in Issuers, RequestTrustMark(t, e)
  PROVE  Types'
<1>1. e \in Entities /\ Begins(t, e)
  BY BeginsIs, FederationAssumption DEF FederationAssumption
<1>2. /\ at' \in [Threads -> {"idle"} \cup Searching \cup Requesting]
      /\ stack' \in [Threads -> Seq(Frames)]
      /\ found' \in [Threads -> SUBSET Anyone] /\ kept' \in [Threads -> SUBSET Anyone]
      /\ result' \in [Threads -> {"none", "exception", "answered", "requested"}]
  BY <1>1, HereTypes DEF Begins, Requesting
<1>3. issuer' \in Anyone /\ overlapped' \in BOOLEAN
  BY <1>1, AsksTypes DEF Asks, Begins, Anyone
<1>4. asked' \in [Threads -> Anyone] /\ used' \in [Threads -> Anyone]
  BY <1>1 DEF Begins, Types, Anyone, NotAnEntity
<1>5. calls' \in [Threads -> Nat]
  BY DEF RequestTrustMark, Types
<1>6. UNCHANGED <<superior_vars, config_cache, trust_chain, left, request, changes, steady, ever>>
  BY DEF RequestTrustMark, searching, sieve
<1>. QED
  BY <1>2, <1>3, <1>4, <1>5, <1>6 DEF Types, superior_vars, SuperiorTypeOK

LEMMA ReadIssuerTypes ==
  ASSUME Types, NEW t \in Threads, ReadIssuer(t)
  PROVE  Types'
<1>1. Reads(t)
  BY ReadsIs
<1>2. /\ at' \in [Threads -> {"idle"} \cup Searching \cup Requesting]
      /\ stack' \in [Threads -> Seq(Frames)]
      /\ found' \in [Threads -> SUBSET Anyone] /\ kept' \in [Threads -> SUBSET Anyone]
      /\ result' \in [Threads -> {"none", "exception", "answered", "requested"}]
  <2>1. result[t] \in {"none", "exception", "answered", "requested"}
    BY DEF Types
  <2>. QED
    BY <1>1, <2>1, HereTypes DEF Reads, Requesting
<1>3. used' \in [Threads -> Anyone]
  <2>1. issuer \in Anyone /\ trust_chain[issuer] \in Anyone
    BY DEF Types
  <2>. QED
    BY <1>1, <2>1 DEF Reads, Use, Types
<1>4. UNCHANGED <<superior_vars, config_cache, trust_chain, issuer, left, request, asked, calls,
                  changes, observed>>
  BY DEF ReadIssuer, searching, sieve
<1>. QED
  BY <1>2, <1>3, <1>4 DEF Types, superior_vars, observed, SuperiorTypeOK

LEMMA CollectTypes ==
  ASSUME Types, NEW t \in Threads, NEW chained, Collect(t, chained)
  PROVE  Types'
<1>1. Collects(t)
  BY CollectsIs
<1>2. /\ at' \in [Threads -> {"idle"} \cup Searching \cup Requesting]
      /\ stack' \in [Threads -> Seq(Frames)]
      /\ found' \in [Threads -> SUBSET Anyone] /\ kept' \in [Threads -> SUBSET Anyone]
      /\ result' \in [Threads -> {"none", "exception", "answered", "requested"}]
  <2>1. result[t] \in {"none", "exception", "answered", "requested"}
    BY DEF Types
  <2>. QED
    BY <1>1, <2>1, HereTypes DEF Collects, Requesting
<1>3. used' \in [Threads -> Anyone] /\ trust_chain' \in [Anyone -> Anyone]
  <2>1. /\ issuer \in Anyone /\ used \in [Threads -> Anyone] /\ Nothing \in Anyone
        /\ trust_chain \in [Anyone -> Anyone]
    BY DEF Types, Anyone, NotAnEntity
  <2>2. UNCHANGED trust_chain \/ \E e \in Anyone : StoreChains(e, used[t])
    BY <1>1, <2>1 DEF Collects
  <2>3. UNCHANGED used \/ Use(t, Nothing)
    BY <1>1 DEF Collects
  <2>. QED
    BY <2>1, <2>2, <2>3 DEF StoreChains, Use
<1>4. UNCHANGED <<superior_vars, config_cache, issuer, left, request, asked, calls, changes, observed>>
  BY DEF Collect, searching, sieve
<1>. QED
  BY <1>2, <1>3, <1>4 DEF Types, superior_vars, observed, SuperiorTypeOK

LEMMA BothAndEitherAre ==
  ASSUME NEW l \in Lists, NEW m \in Lists
  PROVE  /\ Both(l, m) \in Lists /\ Within(Both(l, m), l) /\ Within(Both(l, m), m)
         /\ Either(l, m) \in Lists /\ Within(l, Either(l, m)) /\ Within(m, Either(l, m))
<1>1. /\ l.all \subseteq Entities /\ l.type \subseteq Hierarchy /\ l.intermediate \subseteq Hierarchy
      /\ m.all \subseteq Entities /\ m.type \subseteq Hierarchy /\ m.intermediate \subseteq Hierarchy
  BY DEF Lists
<1>2. Both(l, m) \in Lists /\ Within(Both(l, m), l) /\ Within(Both(l, m), m)
  BY <1>1 DEF Both, Lists, Within
<1>3. Either(l, m) \in Lists /\ Within(l, Either(l, m)) /\ Within(m, Either(l, m))
  BY <1>1 DEF Either, Lists, Within
<1>. QED
  BY <1>2, <1>3

LEMMA AdministrateIs ==
  ASSUME Types, Administrate
  PROVE  /\ UNCHANGED <<config_cache, trust_chain, issuer, at, searching, asking, result, calls,
                        overlapped>>
         /\ Listed' \in Lists
         /\ \A t \in Searchers :
              /\ steady'[t] = IF At(t, "idle") THEN steady[t] ELSE Both(steady[t], Listed')
              /\ ever'[t] = IF At(t, "idle") THEN ever[t] ELSE Either(ever[t], Listed')
<1>1. Listed' \in Lists
  <2>1. Subordinates(Anchor)' \subseteq Entities
    BY DEF Subordinates
  <2>. QED
    BY <2>1 DEF Listed, Lists
<1>2. Observe
  BY DEF Administrate
<1>3. UNCHANGED <<config_cache, trust_chain, issuer, at, searching, asking, result, calls, overlapped>>
  BY DEF Administrate
<1>4. \A t \in Searchers :
        /\ steady'[t] = IF At(t, "idle") THEN steady[t] ELSE Both(steady[t], Listed')
        /\ ever'[t] = IF At(t, "idle") THEN ever[t] ELSE Either(ever[t], Listed')
  BY <1>2 DEF Observe
<1>. QED
  BY <1>1, <1>3, <1>4

LEMMA AdministrateTypes ==
  ASSUME Types, Administrate
  PROVE  Types'
<1>1. SuperiorTypeOK'
  <2>1. PICK p \in Hierarchy :
          \/ \E record \in Records : Register(p[1], p[2], record)
          \/ Unregister(p[1], p[2])
          \/ \E new \in Policies \cup {NoPolicy} : SetPolicy(p[1], p[2], new)
    BY DEF Administrate
  <2>. QED
    BY <2>1, AdministrationTypes DEF Types
<1>2. changes' \in 0..MaxChanges
  BY FederationAssumption DEF Administrate, Types, FederationAssumption
<1>3. steady' \in [Searchers -> Lists] /\ ever' \in [Searchers -> Lists]
  <2>1. \A t \in Searchers : steady[t] \in Lists /\ ever[t] \in Lists
    BY DEF Types
  <2>2. /\ steady' = [t \in Searchers |-> IF At(t, "idle") THEN steady[t] ELSE Both(steady[t], Listed')]
        /\ ever' = [t \in Searchers |-> IF At(t, "idle") THEN ever[t] ELSE Either(ever[t], Listed')]
    BY DEF Administrate, Observe
  <2>3. \A t \in Searchers : Both(steady[t], Listed') \in Lists /\ Either(ever[t], Listed') \in Lists
    BY <2>1, AdministrateIs, BothAndEitherAre
  <2>. QED
    BY <2>1, <2>2, <2>3
<1>4. UNCHANGED <<config_cache, trust_chain, issuer, at, searching, asking, result, calls, overlapped>>
  BY AdministrateIs
<1>. QED
  BY <1>1, <1>2, <1>3, <1>4 DEF Types, searching, sieve, asking

LEMMA AgeTypes ==
  ASSUME Types, NEW e \in Entities, NEW c \in {"fresh", "expired"}, Age(e, c)
  PROVE  Types'
<1>1. changes' \in 0..MaxChanges
  BY FederationAssumption DEF Age, Types, FederationAssumption
<1>2. config_cache' \in [Entities -> {"no", "fresh", "expired"}]
  <2>1. config_cache \in [Entities -> {"no", "fresh", "expired"}]
    BY DEF Types
  <2>2. config_cache' = [config_cache EXCEPT ![e] = c]
    BY DEF Age
  <2>. QED
    BY <2>1, <2>2
<1>3. UNCHANGED <<superior_vars, trust_chain, issuer, at, searching, asking, result, calls, observed>>
  BY DEF Age
<1>. QED
  BY <1>1, <1>2, <1>3 DEF Types, superior_vars, searching, sieve, asking, observed, SuperiorTypeOK

\* What a step may be.
LEMMA StepIs ==
  ASSUME Types, Stacks, NEW t \in Threads, Step(t)
  PROVE  \/ Searches(t)
         \/ ReadIssuer(t) /\ Reads(t)
         \/ Collects(t) /\ \E chained \in BOOLEAN : Collect(t, chained)
BY DescendIs, ReadsIs, ListAllIs, ConfigurationIs, ListTypedIs, ListIntermediatesIs, CollectsIs,
   VerifyIs, LookForMarksIs, CheckMarkIs, AnswerIs DEF Step

LEMMA TypesStay ==
  ASSUME Types, Stacks, [Next]_vars
  PROVE  Types'
<1>1. ASSUME NEW t \in Searchers, NEW c \in BOOLEAN, NEW m \in BOOLEAN, Who(t, c, m)
      PROVE  Types'
  BY <1>1, WhoTypes
<1>2. ASSUME NEW t \in Requesters, NEW e \in Issuers, RequestTrustMark(t, e)
      PROVE  Types'
  BY <1>2, RequestTrustMarkTypes, FederationAssumption DEF FederationAssumption
<1>3. ASSUME NEW t \in Threads, Step(t)
      PROVE  Types'
  BY <1>3, StepIs, SearchTypes, ReadIssuerTypes, CollectTypes
<1>4. CASE UNCHANGED vars
  BY <1>4 DEF vars, Types, superior_vars, searching, sieve, asking, observed, SuperiorTypeOK
<1>. QED
  BY <1>1, <1>2, <1>3, <1>4, AdministrateTypes, AgeTypes DEF Next

-----------------------------------------------------------------------------
(* What the threads do, in turn                                            *)

Requests(t) ==
  /\ UNCHANGED <<subordinate, left, request, steady, ever>>
  /\ (\E e \in Entities : Begins(t, e)) \/ Reads(t) \/ Collects(t)
Still ==
  UNCHANGED <<subordinate, trust_chain, issuer, at, searching, asking, result, observed>>

LEMMA NextIs ==
  ASSUME Types, Stacks, [Next]_vars
  PROVE  \/ \E t \in Searchers : Opens(t)
         \/ \E t \in Threads : Searches(t) \/ Requests(t)
         \/ Administrate
         \/ Still
<1>1. ASSUME NEW t \in Searchers, NEW c, NEW m, Who(t, c, m)
      PROVE  Opens(t)
  BY <1>1, OpensIs, FederationAssumption DEF FederationAssumption
<1>2. ASSUME NEW t \in Requesters, NEW e \in Issuers, RequestTrustMark(t, e)
      PROVE  t \in Threads /\ Requests(t)
  <2>1. t \in Threads /\ e \in Entities
    BY FederationAssumption DEF FederationAssumption
  <2>2. Begins(t, e)
    BY <1>2, <2>1, BeginsIs
  <2>3. UNCHANGED <<subordinate, left, request, steady, ever>>
    BY <1>2 DEF RequestTrustMark, superior_vars, searching, sieve
  <2>. QED
    BY <2>1, <2>2, <2>3 DEF Requests
<1>3. ASSUME NEW t \in Threads, Step(t)
      PROVE  Searches(t) \/ Requests(t)
  <2>1. CASE ReadIssuer(t) /\ Reads(t)
    BY <2>1 DEF ReadIssuer, Requests, superior_vars, searching, sieve, observed
  <2>2. CASE Collects(t) /\ \E chained \in BOOLEAN : Collect(t, chained)
    BY <2>2 DEF Collect, Requests, superior_vars, searching, sieve, observed
  <2>. QED
    BY <1>3, <2>1, <2>2, StepIs
<1>4. ASSUME NEW e \in Entities, NEW c \in {"fresh", "expired"}, Age(e, c)
      PROVE  Still
  BY <1>4 DEF Age, Still, superior_vars
<1>5. CASE UNCHANGED vars
  BY <1>5 DEF vars, Still, superior_vars
<1>. QED
  BY <1>1, <1>2, <1>3, <1>4, <1>5 DEF Next

LEMMA OthersStay ==
  ASSUME Types, NEW t \in Threads, Opens(t) \/ Searches(t) \/ Requests(t),
         NEW u \in Threads, u # t
  PROVE  /\ Unmoved(u) /\ asked'[u] = asked[u] /\ used'[u] = used[u]
         /\ left'[u] = left[u] /\ request'[u] = request[u]
<1>1. \E label, q, fs, ks, how : Moves(t, label, q, fs, ks, how)
  BY DEF Opens, Searches, Requests, Begins, Reads, Collects, Here, Fails, Starts, Down, Back,
         Through, Arrives, Notes, Expands, Sieves, Verifies, Looks, Sifts, Answers
<1>2. Unmoved(u)
  BY <1>1, MovesAre
<1>3. asked'[u] = asked[u]
  BY DEF Opens, Searches, Around, Requests, Begins, Reads, Collects, Types
<1>4. used'[u] = used[u]
  BY DEF Opens, Searches, Around, Requests, Begins, Reads, Collects, Use, Types
<1>5. left'[u] = left[u] /\ request'[u] = request[u]
  BY DEF Opens, Searches, Around, Requests
<1>. QED
  BY <1>2, <1>3, <1>4, <1>5

LEMMA AdministrateStill ==
  ASSUME Types, Administrate \/ Still
  PROVE  UNCHANGED <<trust_chain, issuer, at, stack, found, kept, left, request, asked, used,
                     result, overlapped>>
BY AdministrateIs DEF Still, searching, sieve, asking, observed

-----------------------------------------------------------------------------
(* Stacks                                                                  *)

LEMMA OtherStacks ==
  ASSUME Stacks, NEW u \in Threads, Unmoved(u)
  PROVE  StackFor(u)'
<1>1. StackFor(u) /\ at'[u] = at[u] /\ stack'[u] = stack[u]
  BY DEF Stacks, Unmoved
<1>2. Top(u)' = Top(u)
  BY <1>1 DEF Top
<1>. QED
  BY <1>1, <1>2 DEF StackFor, At

\* A thread that has no calls of trawl.
LEMMA NoStack ==
  ASSUME NEW t, at'[t] \notin Walking, stack'[t] = <<>>
  PROVE  StackFor(t)'
BY DEF StackFor, At, Walking

\* One that has some, and looks for the next.
LEMMA DescendingStack ==
  ASSUME NEW t \in Searchers, at'[t] = "descend", stack'[t] # <<>>,
         \A i \in 1..Len(stack'[t]) : stack'[t][i].node \in Entities
  PROVE  StackFor(t)'
BY DEF StackFor, At, Walking

\* Verifying what was found, and choosing from it.
LEMMA SievingKeeps ==
  ASSUME Types, NEW t \in Threads, Sieves(t)
  PROVE  /\ at[t] \in {"verify", "marks"} /\ at'[t] \in {"verify", "marks", "idle"}
         /\ found'[t] = found[t] /\ stack'[t] = stack[t]
<1>1. at[t] \in {"verify", "marks"}
  BY DEF Sieves, Verifies, Looks, Sifts, Answers, At
<1>2. \E label \in {"verify", "marks", "idle"} : \E ks, how :
       Moves(t, label, stack[t], found[t], ks, how)
  BY DEF Sieves, Verifies, Looks, Sifts, Answers
<1>. QED
  BY <1>1, <1>2, MovesAre DEF Moved

LEMMA SearchStack ==
  ASSUME Types, Stacks, OneThing, NEW t \in Threads, Searches(t)
  PROVE  StackFor(t)'
<1>1. /\ at[t] \notin Walking => stack[t] = <<>>
      /\ at[t] \in Searching => t \in Searchers
      /\ at[t] \in Walking => stack[t] # <<>> /\ stack[t] \in Seq(Frames)
      /\ At(t, "descend") \/ At(t, "typed") \/ At(t, "intermediates") =>
           \A i \in 1..Len(stack[t]) : stack[t][i].node \in Entities
  BY DEF Stacks, StackFor, OneThing, OneFor, Types, At, Walking
<1>2. CASE Fails(t)
  BY <1>2, MovesAre, NoStack DEF Fails, Moved, Walking
<1>3. CASE Starts(t)
  <2>1. /\ at'[t] = "descend" /\ stack'[t] = <<Frame(Me, Subordinates(Anchor))>>
        /\ t \in Searchers
    BY <1>1, <1>3, MovesAre DEF Starts, Moved, At, Searching
  <2>2. Frame(Me, Subordinates(Anchor)).node = Me /\ Me \in Entities
    BY FederationAssumption DEF FederationAssumption, Frame
  <2>3. Len(stack'[t]) = 1 /\ stack'[t] # <<>> /\ stack'[t][1].node \in Entities
    BY <2>1, <2>2
  <2>4. \A i \in 1..Len(stack'[t]) : i = 1
    BY <2>3
  <2>. QED
    BY <2>1, <2>3, <2>4, DescendingStack
<1>4. ASSUME NEW e \in Anyone, Down(t, e)
      PROVE  StackFor(t)'
  <2>1. /\ at'[t] = "configuration" /\ stack'[t] = Descended(stack[t], e) /\ t \in Searchers
        /\ stack[t] # <<>> /\ stack[t] \in Seq(Frames) /\ e \in stack[t][Len(stack[t])].todo
        /\ \A i \in 1..Len(stack[t]) : stack[t][i].node \in Entities
    BY <1>1, <1>4, MovesAre DEF Down, Moved, At, Searching, Walking, Top
  <2>2. /\ Len(stack[t]) \in Nat \ {0} /\ Len(stack'[t]) = Len(stack[t]) + 1
        /\ \A i \in 1..Len(stack[t]) : stack'[t][i].node = stack[t][i].node
        /\ stack'[t][Len(stack[t]) + 1].todo = {}
    <3>. DEFINE q == stack[t]
                r == Descended(q, e)
    <3>1. q \in Seq(Frames) /\ q # <<>> /\ e \in q[Len(q)].todo
      BY <2>1
    <3>2. stack'[t] = r
      BY <2>1
    <3>. HIDE DEF q, r
    <3>3. Len(r) = Len(q) + 1 /\ r[Len(q) + 1].todo = {}
      BY <3>1, DescentFrames DEF r
    <3>4. \A i \in 1..Len(q) : r[i].node = q[i].node
      BY ONLY <3>1, DescentKeeps DEF r
    <3>5. Len(q) \in Nat \ {0}
      BY ONLY <3>1, StackIs
    <3>. QED
      BY <3>2, <3>3, <3>4, <3>5 DEF q
  <2>. DEFINE n == Len(stack[t])
  <2>3. /\ n \in Nat \ {0} /\ Len(stack'[t]) = n + 1 /\ n + 1 > 1
        /\ \A i \in 1..(n + 1) : i \in 1..n \/ i = n + 1
    BY <2>2
  <2>. HIDE DEF n
  <2>4. \A i \in 1..Len(stack'[t]) : stack'[t][i].node \in Entities \/ i = Len(stack'[t])
    BY <2>1, <2>2, <2>3 DEF n
  <2>5. stack'[t] # <<>>
    BY <2>3
  <2>6. Top(t)'.todo = {}
    BY <2>2 DEF Top
  <2>. QED
    BY <2>1, <2>3, <2>4, <2>5, <2>6 DEF StackFor, At, Walking
<1>5. CASE Back(t)
  <2>1. /\ at'[t] = "descend" /\ stack'[t] = Below(stack[t]) /\ t \in Searchers
        /\ stack[t] # <<>> /\ stack[t] \in Seq(Frames) /\ Len(stack[t]) > 1
        /\ \A i \in 1..Len(stack[t]) : stack[t][i].node \in Entities
    BY <1>1, <1>5, MovesAre DEF Back, Moved, At, Searching, Walking
  <2>2. /\ Len(stack[t]) \in Nat /\ Len(stack'[t]) = Len(stack[t]) - 1
        /\ \A i \in 1..(Len(stack[t]) - 1) : stack'[t][i] = stack[t][i]
    BY <2>1, BelowIs, StackIs
  <2>3. stack'[t] # <<>> /\ \A i \in 1..Len(stack'[t]) : stack'[t][i].node \in Entities
    BY <2>1, <2>2
  <2>. QED
    BY <2>1, <2>3, DescendingStack
<1>6. CASE Through(t)
  BY <1>6, MovesAre, NoStack DEF Through, Moved, Walking
<1>7. CASE Arrives(t)
  <2>1. /\ stack'[t] = stack[t] /\ stack[t] # <<>> /\ t \in Searchers /\ Len(stack[t]) > 1
        /\ Top(t).todo = {} /\ Top(t).node \in Entities /\ Top(t)' = Top(t)
        /\ at'[t] = IF Top(t).node \in Superiors THEN "typed" ELSE "descend"
    BY <1>1, <1>7, MovesAre DEF Arrives, Moved, At, Searching, Walking, Top, Stacks, StackFor
  <2>2. \A i \in 1..Len(stack[t]) : stack[t][i].node \in Entities
    BY <1>7, <2>1 DEF Arrives, Stacks, StackFor, At, Walking, Top
  <2>. QED
    BY <2>1, <2>2 DEF StackFor, At, Walking
<1>8. ASSUME NEW es \in SUBSET Anyone, Notes(t, es)
      PROVE  StackFor(t)'
  <2>1. /\ stack'[t] = stack[t] /\ at'[t] = "intermediates" /\ at[t] = "typed" /\ Top(t)' = Top(t)
    BY <1>8, MovesAre DEF Notes, Moved, At, Top
  <2>2. StackFor(t)
    BY DEF Stacks
  <2>. QED
    BY <2>1, <2>2 DEF StackFor, At, Walking
<1>9. ASSUME NEW es \in SUBSET Anyone, Expands(t, es)
      PROVE  StackFor(t)'
  <2>1. /\ at'[t] = "descend" /\ stack'[t] = Replaced(stack[t], es) /\ t \in Searchers
        /\ stack[t] # <<>> /\ stack[t] \in Seq(Frames) /\ stack[t][Len(stack[t])].todo = {}
        /\ \A i \in 1..Len(stack[t]) : stack[t][i].node \in Entities
    BY <1>1, <1>9, MovesAre, NodesAre DEF Expands, Moved, At, Searching, Walking, Top
  <2>2. /\ Len(stack[t]) \in Nat \ {0} /\ Len(stack'[t]) = Len(stack[t])
        /\ \A i \in 1..Len(stack[t]) : stack'[t][i].node = stack[t][i].node
    <3>. DEFINE q == stack[t]
                r == Replaced(q, es)
    <3>1. q \in Seq(Frames) /\ q # <<>> /\ q[Len(q)].todo = {}
      BY <2>1
    <3>2. stack'[t] = r
      BY <2>1
    <3>. HIDE DEF q, r
    <3>3. Len(q) \in Nat \ {0} /\ Len(r) = Len(q) /\ \A i \in 1..Len(q) : r[i].node = q[i].node
      BY <3>1, ReplacedIs, StackIs DEF r
    <3>. QED
      BY <3>2, <3>3 DEF q
  <2>3. stack'[t] # <<>> /\ \A i \in 1..Len(stack'[t]) : stack'[t][i].node \in Entities
    BY <2>1, <2>2
  <2>. QED
    BY <2>1, <2>3, DescendingStack
<1>10. CASE Sieves(t)
  BY <1>1, <1>10, SievingKeeps, NoStack DEF Walking
<1>. QED
  BY <1>2, <1>3, <1>4, <1>5, <1>6, <1>7, <1>8, <1>9, <1>10 DEF Searches

LEMMA StacksStay ==
  ASSUME Types, Stacks, OneThing, [Next]_vars
  PROVE  Stacks'
<1>1. ASSUME NEW t \in Threads, Opens(t) \/ Searches(t) \/ Requests(t)
      PROVE  Stacks'
  <2>1. \A u \in Threads : u # t => StackFor(u)'
    BY <1>1, OthersStay, OtherStacks
  <2>2. StackFor(t)'
    <3>1. CASE Searches(t)
      BY <3>1, SearchStack
    <3>2. CASE Opens(t) \/ Requests(t)
      <4>1. at[t] \notin Walking /\ at'[t] \notin Walking /\ stack'[t] = stack[t]
        BY <3>2, MovesAre DEF Opens, Requests, Begins, Reads, Collects, Here, Moved, At, Walking
      <4>2. stack[t] = <<>>
        BY <4>1 DEF Stacks, StackFor
      <4>. QED
        BY <4>1, <4>2, NoStack
    <3>. QED
      BY <1>1, <3>1, <3>2
  <2>. QED
    BY <2>1, <2>2 DEF Stacks
<1>2. CASE Administrate \/ Still
  <2>1. \A u \in Threads : Unmoved(u)
    BY <1>2, AdministrateStill DEF Unmoved
  <2>. QED
    BY <2>1, OtherStacks DEF Stacks
<1>. QED
  BY <1>1, <1>2, NextIs, FederationAssumption DEF FederationAssumption
-----------------------------------------------------------------------------
(* One thing at a time                                                     *)

\* Where a step of a search takes the thread.
LEMMA SearchGoes ==
  ASSUME Types, Stacks, OneThing, NEW t \in Threads, Searches(t)
  PROVE  /\ at[t] \in Searching /\ t \in Searchers /\ result[t] = "none"
         /\ \/ at'[t] \in Searching /\ result'[t] = "none"
            \/ at'[t] = "idle" /\ result'[t] \in {"exception", "answered"}
<1>1. at[t] \in Searching
  BY DEF Searches, Fails, Starts, Down, Back, Through, Arrives, Notes, Expands,
         Sieves, Verifies, Looks, Sifts, Answers, At, Searching, Walking
<1>2. t \in Searchers /\ result[t] = "none"
  BY <1>1 DEF OneThing, OneFor, Searching, Walking
<1>3. \/ \E label, q, fs, ks : Moves(t, label, q, fs, ks, result[t]) /\ label \in Searching
      \/ \E q, fs, ks, how : Moves(t, "idle", q, fs, ks, how) /\ how \in {"exception", "answered"}
  BY DEF Searches, Fails, Starts, Down, Back, Through, Arrives, Notes, Expands,
         Sieves, Verifies, Looks, Sifts, Answers, Searching, Walking
<1>. QED
  BY <1>1, <1>2, <1>3, MovesAre DEF Moved

LEMMA OthersOneThing ==
  ASSUME OneThing, NEW u \in Threads, Unmoved(u)
  PROVE  OneFor(u)'
BY DEF OneThing, OneFor, Unmoved

LEMMA OneThingStays ==
  ASSUME Types, Stacks, OneThing, [Next]_vars
  PROVE  OneThing'
<1>1. ASSUME NEW t \in Threads, (Opens(t) /\ t \in Searchers) \/ Searches(t) \/ Requests(t)
      PROVE  OneThing'
  <2>1. \A u \in Threads : u # t => OneFor(u)'
    BY <1>1, OthersStay, OthersOneThing
  <2>2. CASE Searches(t)
    BY <2>1, <2>2, SearchGoes DEF OneThing, OneFor, Searching, Walking
  <2>3. CASE Opens(t) /\ t \in Searchers
    <3>1. at'[t] = "list" /\ result'[t] = "none"
      BY <2>3, MovesAre DEF Opens, Moved
    <3>. QED
      BY <2>1, <2>3, <3>1 DEF OneThing, OneFor
  <2>4. ASSUME NEW e \in Entities, Begins(t, e)
        PROVE  OneThing'
    <3>1. at'[t] = "stored" /\ result'[t] = "none"
      BY <2>4, MovesAre DEF Begins, Here, Moved
    <3>. QED
      BY <2>1, <3>1 DEF OneThing, OneFor, Searching, Walking
  <2>5. CASE Reads(t)
    <3>1. result[t] = "none"
      BY <2>5 DEF Reads, OneThing, OneFor, At
    <3>2. \/ at'[t] = "idle" /\ result'[t] = "requested"
          \/ at'[t] \in {"collect", "collect_again"} /\ result'[t] = "none"
      BY <2>5, <3>1, MovesAre DEF Reads, Here, Moved
    <3>. QED
      BY <2>1, <3>1, <3>2 DEF OneThing, OneFor, Searching, Walking
  <2>6. CASE Collects(t)
    <3>1. result[t] = "none"
      BY <2>6 DEF Collects, OneThing, OneFor, At
    <3>2. \/ at'[t] = "idle" /\ result'[t] \in {"requested", "exception"}
          \/ at'[t] = "again" /\ result'[t] = "none"
      BY <2>6, <3>1, MovesAre DEF Collects, Here, Moved
    <3>. QED
      BY <2>1, <3>2 DEF OneThing, OneFor, Searching, Walking
  <2>. QED
    BY <1>1, <2>2, <2>3, <2>4, <2>5, <2>6 DEF Requests
<1>2. CASE Administrate \/ Still
  BY <1>2, AdministrateStill, OthersOneThing DEF OneThing, Unmoved
<1>. QED
  BY <1>1, <1>2, NextIs, FederationAssumption DEF FederationAssumption

-----------------------------------------------------------------------------
(* Trust marks are requested from whom they should be                      *)

LEMMA OthersAreStraight ==
  ASSUME NEW u \in Threads, Unmoved(u), asked'[u] = asked[u], used'[u] = used[u],
         AsksTheIssuer(u), WentThere(u), issuer' = issuer \/ ~Asking(u)
  PROVE  AsksTheIssuer(u)' /\ WentThere(u)'
BY DEF Unmoved, AsksTheIssuer, WentThere, Asking

LEMMA StraightStays ==
  ASSUME Types, Stacks, OneThing, Straight, [Next]_vars
  PROVE  Straight'
<1>. SUFFICES ASSUME ~overlapped'
              PROVE  OwnChains' /\ \A t \in Threads : AsksTheIssuer(t)' /\ WentThere(t)'
  BY DEF Straight
<1>1. ASSUME NEW t \in Threads, (Opens(t) /\ t \in Searchers) \/ Searches(t) \/ Requests(t)
      PROVE  OwnChains' /\ \A u \in Threads : AsksTheIssuer(u)' /\ WentThere(u)'
  <2>1. ~overlapped /\ \A u \in Threads \ {t} : issuer' = issuer \/ ~Asking(u)
    <3>1. UNCHANGED <<issuer, overlapped>> \/ \E e : Request(t, e)
      BY <1>1 DEF Opens, Searches, Around, Asks, Requests, Begins, Reads, Collects
    <3>2. CASE UNCHANGED <<issuer, overlapped>>
      BY <3>2
    <3>3. ASSUME NEW e, Request(t, e)
          PROVE  ~overlapped /\ \A u \in Threads \ {t} : ~Asking(u)
      <4>1. overlapped' = (overlapped \/ \E u \in Threads \ {t} : Asking(u))
        BY <3>3 DEF Request
      <4>. QED
        BY <4>1
    <3>. QED
      BY <3>1, <3>2, <3>3
  <2>2. OwnChains /\ \A u \in Threads : AsksTheIssuer(u) /\ WentThere(u)
    BY <2>1 DEF Straight
  <2>3. \A u \in Threads : u # t => AsksTheIssuer(u)' /\ WentThere(u)'
    BY <1>1, <2>1, <2>2, OthersStay, OthersAreStraight
  <2>4. CASE Searches(t)
    <3>1. AsksTheIssuer(t)' /\ WentThere(t)'
      BY <2>4, SearchGoes DEF AsksTheIssuer, WentThere, Asking, Searching, Walking
    <3>2. OwnChains'
      <4>1. CASE UNCHANGED trust_chain
        BY <2>2, <4>1 DEF OwnChains
      <4>2. CASE Finds
        <5>1. PICK e \in Entities : trust_chain' = [trust_chain EXCEPT ![e] = Of(e)]
          BY <4>2 DEF Finds
        <5>2. Of(e) = e
          BY <2>2 DEF Of, OwnChains, Anyone
        <5>. QED
          BY <2>2, <5>1, <5>2 DEF OwnChains, Types
      <4>. QED
        BY <2>4, <4>1, <4>2 DEF Searches
    <3>. QED
      BY <2>3, <3>1, <3>2
  <2>5. CASE Opens(t)
    <3>1. at'[t] = "list" /\ result'[t] = "none" /\ UNCHANGED trust_chain
      BY <2>5, MovesAre DEF Opens, Moved
    <3>. QED
      BY <2>2, <2>3, <3>1 DEF OwnChains, AsksTheIssuer, WentThere, Asking
  <2>6. ASSUME NEW e \in Entities, Begins(t, e)
        PROVE  OwnChains' /\ \A u \in Threads : AsksTheIssuer(u)' /\ WentThere(u)'
    <3>1. at'[t] = "stored" /\ result'[t] = "none" /\ UNCHANGED trust_chain
      BY <2>6, MovesAre DEF Begins, Here, Moved
    <3>2. asked'[t] = e /\ issuer' = e
      BY <2>6 DEF Begins, Request, About, Types
    <3>. QED
      BY <2>2, <2>3, <3>1, <3>2 DEF OwnChains, AsksTheIssuer, WentThere, Asking
  <2>7. CASE Reads(t)
    <3>1. issuer = asked[t] /\ issuer \in Anyone /\ result[t] = "none"
      BY <2>2, <2>7 DEF Reads, AsksTheIssuer, Asking, At, Types, OneThing, OneFor
    <3>2. UNCHANGED <<trust_chain, issuer, asked>> /\ used'[t] = issuer
      BY <2>2, <2>7, <3>1 DEF Reads, Use, OwnChains, Types
    <3>. QED
      BY <2>2, <2>3, <3>1, <3>2 DEF OwnChains, AsksTheIssuer, WentThere
  <2>8. CASE Collects(t)
    <3>1. at[t] \in {"collect", "collect_again"}
      BY <2>8 DEF Collects, At
    <3>2. issuer = asked[t] /\ used[t] = asked[t] /\ issuer \in Anyone /\ result[t] = "none"
      BY <2>2, <3>1 DEF AsksTheIssuer, Asking, Types, OneThing, OneFor
    <3>3. UNCHANGED <<issuer, asked>>
      BY <2>8 DEF Collects
    <3>4. CASE UNCHANGED used /\ Here(t, "idle", "requested")
               /\ StoreChains(IF At(t, "collect") THEN used[t] ELSE issuer, used[t])
      <4>1. trust_chain' = [trust_chain EXCEPT ![issuer] = issuer] /\ used'[t] = asked[t]
        BY <3>2, <3>4 DEF StoreChains
      <4>2. OwnChains'
        BY <2>2, <3>2, <4>1 DEF OwnChains, Types
      <4>3. at'[t] = "idle"
        BY <3>4, MovesAre DEF Here, Moved
      <4>. QED
        BY <2>3, <3>3, <4>1, <4>2, <4>3 DEF AsksTheIssuer, WentThere, Asking
    <3>5. CASE UNCHANGED trust_chain
               /\ \/ Here(t, "again", result[t]) \/ Here(t, "idle", "exception")
      <4>1. at'[t] \in {"again", "idle"} /\ result'[t] \in {"none", "exception"}
        BY <3>2, <3>5, MovesAre DEF Here, Moved
      <4>. QED
        BY <2>2, <2>3, <3>2, <3>3, <3>5, <4>1 DEF OwnChains, AsksTheIssuer, WentThere
    <3>. QED
      BY <2>8, <3>4, <3>5 DEF Collects
  <2>. QED
    BY <1>1, <2>4, <2>5, <2>6, <2>7, <2>8 DEF Requests
<1>2. CASE Administrate \/ Still
  <2>1. UNCHANGED <<trust_chain, issuer, at, asked, used, result, overlapped>>
    BY <1>2, AdministrateStill
  <2>2. OwnChains /\ \A u \in Threads : AsksTheIssuer(u) /\ WentThere(u)
    BY <2>1 DEF Straight
  <2>. QED
    BY <2>1, <2>2 DEF OwnChains, AsksTheIssuer, WentThere, Asking
<1>. QED
  BY <1>1, <1>2, NextIs, FederationAssumption DEF FederationAssumption
-----------------------------------------------------------------------------
(* What is listed                                                          *)

LEMMA ListedStays ==
  ASSUME UNCHANGED subordinate
  PROVE  Listed' = Listed
BY DEF Listed, OfType, Intermediates, Subordinates

LEMMA WithinHierarchyStays ==
  ASSUME Types, Stacks, WithinHierarchy, [Next]_vars
  PROVE  WithinHierarchy'
<1>1. CASE UNCHANGED subordinate
  BY <1>1 DEF WithinHierarchy
<1>2. CASE Administrate
  <2>1. PICK p \in Hierarchy :
          \/ \E record \in Records : Register(p[1], p[2], record)
          \/ Unregister(p[1], p[2])
          \/ \E new \in Policies \cup {NoPolicy} : SetPolicy(p[1], p[2], new)
    BY <1>2 DEF Administrate
  <2>2. p[1] \in Superiors /\ p[2] \in Entities /\ p = <<p[1], p[2]>>
    BY FederationAssumption DEF FederationAssumption
  <2>3. ASSUME NEW s \in Superiors, NEW e \in Entities, subordinate'[s][e] # Nothing
        PROVE  subordinate[s][e] # Nothing \/ <<s, e>> = p
    <3>1. subordinate \in [Superiors -> [Entities -> Records \cup {Nothing}]]
      BY DEF Types, SuperiorTypeOK
    <3>. QED
      BY <2>1, <2>2, <2>3, <3>1 DEF Register, Unregister, SetPolicy
  <2>. QED
    BY <2>3 DEF WithinHierarchy
<1>. QED
  BY <1>1, <1>2, NextIs DEF Opens, Searches, Around, Requests, Still

LEMMA OthersObserved ==
  ASSUME NEW u, ObservedFor(u), at'[u] \in Searching => at[u] \in Searching,
         steady'[u] = steady[u], ever'[u] = ever[u], Listed' = Listed
  PROVE  ObservedFor(u)'
BY DEF ObservedFor, Within

\* Where a step of a request takes the thread.
LEMMA RequestGoes ==
  ASSUME Types, OneThing, NEW t \in Threads, Requests(t)
  PROVE  /\ at[t] \notin Searching /\ at'[t] \notin Searching /\ result'[t] # "answered"
         /\ stack'[t] = stack[t] /\ found'[t] = found[t] /\ kept'[t] = kept[t]
<1>1. at[t] = "idle" \/ (at[t] \in Requesting /\ result[t] = "none")
  BY DEF Requests, Begins, Reads, Collects, At, Requesting, OneThing, OneFor
<1>2. \E label \in Requesting \cup {"idle"}, how \in {"none", "requested", "exception"} :
        Here(t, label, how)
  <2>1. CASE \E e \in Entities : Begins(t, e)
    BY <2>1 DEF Begins, Requesting
  <2>2. CASE Reads(t)
    BY <1>1, <2>2 DEF Reads, At, Requesting
  <2>3. CASE Collects(t)
    BY <1>1, <2>3 DEF Collects, At, Requesting
  <2>. QED
    BY <2>1, <2>2, <2>3 DEF Requests
<1>3. /\ at'[t] \in Requesting \cup {"idle"} /\ result'[t] \in {"none", "requested", "exception"}
      /\ stack'[t] = stack[t] /\ found'[t] = found[t] /\ kept'[t] = kept[t]
  BY <1>2, MovesAre DEF Here, Moved
<1>. QED
  BY <1>1, <1>3 DEF Requesting, Searching, Walking

LEMMA ObservedStays ==
  ASSUME Types, Stacks, OneThing, Observed, [Next]_vars
  PROVE  Observed'
<1>0. Searchers \subseteq Threads
  BY FederationAssumption DEF FederationAssumption
<1>1. ASSUME NEW t \in Threads, Searches(t) \/ Requests(t)
      PROVE  Observed'
  <2>1. \A u \in Searchers : at'[u] \in Searching => at[u] \in Searching
    BY <1>0, <1>1, OthersStay, SearchGoes, RequestGoes DEF Unmoved
  <2>2. Listed' = Listed /\ UNCHANGED <<steady, ever>>
    BY <1>1, ListedStays DEF Searches, Around, Requests
  <2>. QED
    BY <2>1, <2>2, OthersObserved DEF Observed
<1>2. ASSUME NEW t \in Searchers, Opens(t)
      PROVE  Observed'
  <2>1. Listed' = Listed
    BY <1>2, ListedStays DEF Opens
  <2>2. \A u \in Searchers : u # t => ObservedFor(u)'
    <3>1. \A u \in Searchers : u # t => at'[u] = at[u]
      BY <1>0, <1>2, OthersStay DEF Unmoved
    <3>2. \A u \in Searchers : u # t => steady'[u] = steady[u] /\ ever'[u] = ever[u]
      BY <1>2 DEF Opens, Types
    <3>. QED
      BY <2>1, <3>1, <3>2, OthersObserved DEF Observed
  <2>3. steady'[t] = Listed /\ ever'[t] = Listed
    BY <1>2 DEF Opens, Types
  <2>. QED
    BY <2>1, <2>2, <2>3 DEF Observed, ObservedFor, Within
<1>3. CASE Administrate
  <2>1. ASSUME NEW t \in Searchers, at'[t] \in Searching
        PROVE  Within(steady'[t], Listed') /\ Within(Listed', ever'[t])
    <3>1. at[t] # "idle" /\ Listed' \in Lists /\ steady[t] \in Lists /\ ever[t] \in Lists
      BY <1>3, <2>1, AdministrateIs DEF Types, Searching, Walking
    <3>2. steady'[t] = Both(steady[t], Listed') /\ ever'[t] = Either(ever[t], Listed')
      BY <1>3, <3>1, AdministrateIs DEF At
    <3>. QED
      BY <3>1, <3>2, BothAndEitherAre
  <2>. QED
    BY <2>1 DEF Observed, ObservedFor
<1>4. CASE Still
  <2>1. Listed' = Listed /\ UNCHANGED <<at, steady, ever>>
    BY <1>4, ListedStays DEF Still, observed
  <2>. QED
    BY <2>1, OthersObserved DEF Observed
<1>. QED
  BY <1>1, <1>2, <1>3, <1>4, NextIs

-----------------------------------------------------------------------------
(* What there is to find                                                   *)

LEMMA VisitedIs ==
  ASSUME NEW l \in Lists
  PROVE  /\ Visited(l) \subseteq Entities /\ l.all \subseteq Visited(l)
         /\ \A p \in l.intermediate : p[1] \in Visited(l) => p[2] \in Visited(l)
<1>1. l.all \subseteq Entities /\ \A p \in l.intermediate : p[2] \in Entities
  BY FederationAssumption DEF FederationAssumption, Lists
<1>2. Visited(l) \subseteq Entities
  BY DEF Visited
<1>3. l.all \subseteq Visited(l)
  BY <1>1 DEF Visited
<1>4. ASSUME NEW p \in l.intermediate, p[1] \in Visited(l)
      PROVE  p[2] \in Visited(l)
  BY <1>1, <1>4 DEF Visited
<1>. QED
  BY <1>2, <1>3, <1>4

\* It is the least such set.
LEMMA VisitedIsLeast ==
  ASSUME NEW l, NEW D \in SUBSET Entities, l.all \subseteq D,
         \A p \in l.intermediate : p[1] \in D => p[2] \in D
  PROVE  Visited(l) \subseteq D
BY DEF Visited

LEMMA FindableIs ==
  ASSUME NEW l, NEW x
  PROVE  x \in Findable(l)
           <=> \/ x \in Visited(l) /\ x \in Providers
               \/ \E p \in l.type : p[1] \in Visited(l) /\ x = p[2]
BY DEF Findable

LEMMA MoreToFind ==
  ASSUME NEW l \in Lists, NEW m \in Lists, Within(l, m)
  PROVE  Visited(l) \subseteq Visited(m) /\ Findable(l) \subseteq Findable(m)
<1>1. Visited(l) \subseteq Visited(m)
  <2>1. Visited(m) \in SUBSET Entities /\ l.all \subseteq Visited(m)
    BY VisitedIs DEF Within
  <2>2. \A p \in l.intermediate : p[1] \in Visited(m) => p[2] \in Visited(m)
    BY VisitedIs DEF Within
  <2>. QED
    BY <2>1, <2>2, VisitedIsLeast
<1>2. ASSUME NEW x \in Findable(l)
      PROVE  x \in Findable(m)
  BY <1>1, FindableIs DEF Within
<1>. QED
  BY <1>1, <1>2
-----------------------------------------------------------------------------
(* Whom a search has yet to get to                                         *)

LEMMA PendingIs ==
  ASSUME NEW t
  PROVE  /\ at[t] = "configuration" => Pending(t) = Ahead(stack[t], TRUE)
         /\ at[t] # "configuration" => Pending(t) = Ahead(stack[t], FALSE)
         /\ at'[t] = "configuration" => Pending(t)' = Ahead(stack'[t], TRUE)
         /\ at'[t] # "configuration" => Pending(t)' = Ahead(stack'[t], FALSE)
BY DEF Pending, Ahead, At

LEMMA NothingAhead == Ahead(<<>>, FALSE) = {}
BY DEF Ahead

LEMMA StartPends ==
  ASSUME Types, NEW t \in Threads, Starts(t)
  PROVE  Pending(t)' = Subordinates(Anchor)
<1>. DEFINE es == Subordinates(Anchor)
            q == <<Frame(Me, es)>>
<1>1. stack'[t] = q /\ at'[t] = "descend"
  BY MovesAre DEF Starts, Moved
<1>2. Len(q) = 1 /\ q[1].todo = es
  BY DEF Frame
<1>. HIDE DEF q, es
<1>3. Ahead(q, FALSE) = es
  <2>1. ASSUME NEW x
        PROVE  x \in Ahead(q, FALSE) <=> x \in es
    <3>1. \A i : i \in 1..Len(q) <=> i = 1
      BY <1>2
    <3>. QED
      BY <1>2, <3>1, InAhead
  <2>. QED
    BY <2>1
<1>. QED
  BY <1>1, <1>3, PendingIs DEF es

LEMMA DownPends ==
  ASSUME Types, Stacks, NEW t \in Threads, NEW e, Down(t, e)
  PROVE  Pending(t)' = Pending(t)
<1>1. /\ stack[t] \in Seq(Frames) /\ stack[t] # <<>> /\ e \in stack[t][Len(stack[t])].todo
      /\ at[t] = "descend" /\ at'[t] = "configuration" /\ stack'[t] = Descended(stack[t], e)
  BY MovesAre DEF Down, Moved, Types, Stacks, StackFor, At, Walking, Top
<1>2. Ahead(Descended(stack[t], e), TRUE) = Ahead(stack[t], FALSE)
  BY <1>1, DescentAhead
<1>. QED
  BY <1>1, <1>2, PendingIs

LEMMA BackPends ==
  ASSUME Types, Stacks, NEW t \in Threads, Back(t)
  PROVE  Pending(t)' = Pending(t)
<1>1. /\ stack[t] \in Seq(Frames) /\ stack[t] # <<>> /\ stack[t][Len(stack[t])].todo = {}
      /\ at[t] = "descend" /\ at'[t] = "descend" /\ stack'[t] = Below(stack[t])
  BY MovesAre DEF Back, Moved, Types, Stacks, StackFor, At, Walking, Top
<1>2. Ahead(Below(stack[t]), FALSE) = Ahead(stack[t], FALSE)
  BY <1>1, PopIs
<1>. QED
  BY <1>1, <1>2, PendingIs

LEMMA ThroughPends ==
  ASSUME Types, Stacks, NEW t \in Threads, Through(t)
  PROVE  Pending(t)' = Pending(t)
<1>1. /\ stack[t] \in Seq(Frames) /\ stack[t] # <<>> /\ stack[t][Len(stack[t])].todo = {}
      /\ Len(stack[t]) = 1
      /\ at[t] = "descend" /\ at'[t] = "verify" /\ stack'[t] = <<>>
  BY MovesAre DEF Through, Moved, Types, Stacks, StackFor, At, Walking, Top
<1>2. Below(stack[t]) = <<>>
  <2>1. Below(stack[t]) \in Seq(Frames) /\ Len(Below(stack[t])) = 0
    BY <1>1, BelowIs
  <2>. QED
    BY <2>1, EmptySeq
<1>3. Ahead(Below(stack[t]), FALSE) = Ahead(stack[t], FALSE)
  BY <1>1, PopIs
<1>. QED
  BY <1>1, <1>2, <1>3, PendingIs

LEMMA ArrivalPends ==
  ASSUME Types, Stacks, NEW t \in Threads, Arrives(t)
  PROVE  Pending(t) = Pending(t)' \cup {Top(t).node}
<1>1. at[t] = "configuration" /\ at'[t] # "configuration" /\ stack'[t] = stack[t]
  BY MovesAre DEF Arrives, Moved, At
<1>2. Ahead(stack[t], TRUE) = Ahead(stack[t], FALSE) \cup {Top(t).node}
  BY ArrivalIs DEF Top
<1>. QED
  BY <1>1, <1>2, PendingIs

LEMMA ExpansionPends ==
  ASSUME Types, Stacks, NEW t \in Threads, NEW es \in SUBSET Anyone, Expands(t, es)
  PROVE  Pending(t)' = Pending(t) \cup es
<1>1. /\ stack[t] \in Seq(Frames) /\ stack[t] # <<>> /\ stack[t][Len(stack[t])].todo = {}
      /\ at[t] = "intermediates" /\ at'[t] = "descend" /\ stack'[t] = Replaced(stack[t], es)
  BY MovesAre, NodesAre DEF Expands, Moved, At, Top
<1>2. Ahead(Replaced(stack[t], es), FALSE) = Ahead(stack[t], FALSE) \cup es
  BY <1>1, ReplacedIs
<1>. QED
  BY <1>1, <1>2, PendingIs

\* Steps that leave the stack as it is.
LEMMA StandingPends ==
  ASSUME NEW t, stack'[t] = stack[t], at[t] # "configuration", at'[t] # "configuration"
  PROVE  Pending(t)' = Pending(t)
BY PendingIs

-----------------------------------------------------------------------------
(* Searches get to all there are                                           *)

\* What a search has reached stays reached when it finds more, less was listed all the
\* time, and it is not in the middle of listing.
LEMMA ReachedStays ==
  ASSUME NEW t, Reached(t), Pending(t)' = Pending(t), found[t] \subseteq found'[t],
         Within(steady'[t], steady[t]),
         at[t] \in {"typed", "intermediates"} => at'[t] = at[t] /\ Top(t)' = Top(t)
  PROVE  Reached(t)'
<1>1. CASE NotAnEntity \in found[t] \cup Pending(t)
  BY <1>1 DEF Reached
<1>2. ASSUME NEW D \in SUBSET Entities, Gone(t, D)
      PROVE  Gone(t, D)'
  <2>1. steady'[t].all \subseteq D \cup Pending(t)' /\ D \cap Providers \subseteq found'[t]
    BY <1>2 DEF Gone, Within
  <2>2. ASSUME NEW p \in steady'[t].intermediate, p[1] \in D
        PROVE  \/ p[2] \in D \cup Pending(t)'
               \/ at'[t] \in {"typed", "intermediates"} /\ p[1] = Top(t)'.node
    BY <1>2, <2>2 DEF Gone, Within, At
  <2>3. ASSUME NEW p \in steady'[t].type, p[1] \in D
        PROVE  p[2] \in found'[t] \/ (at'[t] = "typed" /\ p[1] = Top(t)'.node)
    BY <1>2, <2>3 DEF Gone, Within, At
  <2>. QED
    BY <2>1, <2>2, <2>3 DEF Gone, At
<1>. QED
  BY <1>1, <1>2 DEF Reached

LEMMA OthersReach ==
  ASSUME NEW u, Reached(u), Unmoved(u), Within(steady'[u], steady[u])
  PROVE  Reached(u)'
<1>1. Top(u)' = Top(u)
  BY DEF Unmoved, Top
<1>2. Pending(u)' = Pending(u)
  BY DEF Pending, Unmoved, At
<1>. QED
  BY <1>1, <1>2, ReachedStays DEF Unmoved

LEMMA ArrivalReaches ==
  ASSUME Types, Stacks, NEW t \in Searchers, t \in Threads, Reached(t), Arrives(t),
         UNCHANGED steady
  PROVE  Reached(t)'
<1>. DEFINE e == Top(t).node
<1>1. /\ e \in Entities /\ found'[t] = found[t] \cup ({e} \cap Providers) /\ Top(t)' = Top(t)
      /\ at[t] = "configuration" /\ at'[t] = IF e \in Superiors THEN "typed" ELSE "descend"
  BY MovesAre DEF Arrives, Moved, At, Top
<1>2. Pending(t) = Pending(t)' \cup {e}
  BY ArrivalPends
<1>3. \A p \in steady[t].type \cup steady[t].intermediate : p[1] \in Superiors
  BY FederationAssumption DEF FederationAssumption, Types, Lists
<1>. HIDE DEF e
<1>4. CASE NotAnEntity \in found[t] \cup Pending(t)
  BY <1>1, <1>2, <1>4, SuperiorAssumption DEF Reached, SuperiorAssumption, NotAnEntity
<1>5. ASSUME NEW D \in SUBSET Entities, Gone(t, D), NEW E \in SUBSET Entities, E = D \cup {e}
      PROVE  Gone(t, E)'
  <2>1. steady'[t].all \subseteq E \cup Pending(t)' /\ E \cap Providers \subseteq found'[t]
    BY <1>1, <1>2, <1>5 DEF Gone
  <2>2. ASSUME NEW p \in steady'[t].intermediate, p[1] \in E
        PROVE  p[2] \in E \cup Pending(t)' \/ (at'[t] = "typed" /\ p[1] = Top(t)'.node)
    <3>1. CASE p[1] \in D
      BY <1>1, <1>2, <1>5, <2>2, <3>1 DEF Gone, At
    <3>2. CASE p[1] = e
      BY <1>1, <1>3, <2>2, <3>2 DEF e
    <3>. QED
      BY <1>5, <2>2, <3>1, <3>2
  <2>3. ASSUME NEW p \in steady'[t].type, p[1] \in E
        PROVE  p[2] \in found'[t] \/ (at'[t] = "typed" /\ p[1] = Top(t)'.node)
    <3>1. CASE p[1] \in D
      BY <1>1, <1>5, <2>3, <3>1 DEF Gone, At
    <3>2. CASE p[1] = e
      BY <1>1, <1>3, <2>3, <3>2 DEF e
    <3>. QED
      BY <1>5, <2>3, <3>1, <3>2
  <2>. QED
    BY <2>1, <2>2, <2>3 DEF Gone, At
<1>6. \A D \in SUBSET Entities : \E E \in SUBSET Entities : E = D \cup {e}
  BY <1>1
<1>7. ASSUME NEW D \in SUBSET Entities, Gone(t, D)
      PROVE  Reached(t)'
  <2>1. PICK E \in SUBSET Entities : E = D \cup {e}
    BY <1>6
  <2>2. Gone(t, E)'
    BY <1>5, <1>7, <2>1
  <2>. QED
    BY <2>2 DEF Reached
<1>. QED
  BY <1>4, <1>7 DEF Reached

LEMMA NotingReaches ==
  ASSUME Types, Stacks, Observed, NEW t \in Searchers, t \in Threads, Reached(t),
         NEW es \in SUBSET Anyone, Notes(t, es), UNCHANGED steady
  PROVE  Reached(t)'
<1>1. /\ found'[t] = found[t] \cup es /\ Top(t)' = Top(t)
      /\ at[t] = "typed" /\ at'[t] = "intermediates"
      /\ es \in {OfType(Top(t).node), {NotAnEntity}}
      /\ stack'[t] = stack[t]
  BY MovesAre DEF Notes, Moved, At, Top
<1>2. Pending(t)' = Pending(t)
  BY <1>1, StandingPends
<1>3. \A p \in steady[t].type : p \in Hierarchy /\ p \in Listed.type
  BY <1>1 DEF Observed, ObservedFor, Within, Searching, Walking, Types, Lists
<1>4. CASE NotAnEntity \in found[t] \cup Pending(t) \/ es = {NotAnEntity}
  BY <1>1, <1>2, <1>4 DEF Reached
<1>5. ASSUME NEW D \in SUBSET Entities, Gone(t, D), es = OfType(Top(t).node)
      PROVE  Gone(t, D)'
  <2>1. steady'[t].all \subseteq D \cup Pending(t)' /\ D \cap Providers \subseteq found'[t]
    BY <1>1, <1>2, <1>5 DEF Gone
  <2>2. ASSUME NEW p \in steady'[t].intermediate, p[1] \in D
        PROVE  p[2] \in D \cup Pending(t)' \/ (at'[t] = "intermediates" /\ p[1] = Top(t)'.node)
    BY <1>1, <1>2, <1>5, <2>2 DEF Gone, At
  <2>3. ASSUME NEW p \in steady'[t].type, p[1] \in D
        PROVE  p[2] \in found'[t]
    <3>1. CASE p[1] = Top(t).node
      <4>1. p[2] \in OfType(p[1])
        BY <1>3, ListsAre
      <4>. QED
        BY <1>1, <1>5, <3>1, <4>1
    <3>2. CASE p[1] # Top(t).node
      BY <1>1, <1>5, <2>3, <3>2 DEF Gone
    <3>. QED
      BY <3>1, <3>2
  <2>. QED
    BY <2>1, <2>2, <2>3 DEF Gone, At
<1>. QED
  BY <1>1, <1>4, <1>5 DEF Reached

LEMMA ExpansionReaches ==
  ASSUME Types, Stacks, Observed, NEW t \in Searchers, t \in Threads, Reached(t),
         NEW es \in SUBSET Anyone, Expands(t, es), UNCHANGED steady
  PROVE  Reached(t)'
<1>1. /\ found'[t] = found[t] /\ at[t] = "intermediates" /\ at'[t] = "descend"
      /\ es \in {Intermediates(Top(t).node), {NotAnEntity}}
  BY MovesAre DEF Expands, Moved, At
<1>2. Pending(t)' = Pending(t) \cup es
  BY ExpansionPends
<1>3. \A p \in steady[t].intermediate : p \in Hierarchy /\ p \in Listed.intermediate
  BY <1>1 DEF Observed, ObservedFor, Within, Searching, Walking, Types, Lists
<1>4. CASE NotAnEntity \in found[t] \cup Pending(t) \/ es = {NotAnEntity}
  BY <1>1, <1>2, <1>4 DEF Reached
<1>5. ASSUME NEW D \in SUBSET Entities, Gone(t, D), es = Intermediates(Top(t).node)
      PROVE  Gone(t, D)'
  <2>1. steady'[t].all \subseteq D \cup Pending(t)' /\ D \cap Providers \subseteq found'[t]
    BY <1>1, <1>2, <1>5 DEF Gone
  <2>2. ASSUME NEW p \in steady'[t].intermediate, p[1] \in D
        PROVE  p[2] \in D \cup Pending(t)'
    <3>1. CASE p[1] = Top(t).node
      <4>1. p[2] \in Intermediates(p[1])
        BY <1>3, ListsAre
      <4>. QED
        BY <1>2, <1>5, <3>1, <4>1
    <3>2. CASE p[1] # Top(t).node
      BY <1>1, <1>2, <1>5, <2>2, <3>2 DEF Gone
    <3>. QED
      BY <3>1, <3>2
  <2>3. ASSUME NEW p \in steady'[t].type, p[1] \in D
        PROVE  p[2] \in found'[t]
    BY <1>1, <1>5, <2>3 DEF Gone, At
  <2>. QED
    BY <2>1, <2>2, <2>3 DEF Gone, At
<1>. QED
  BY <1>1, <1>4, <1>5 DEF Reached

LEMMA SearchReaches ==
  ASSUME Types, Stacks, OneThing, Observed, NEW t \in Searchers, CoveredFor(t), Searches(t)
  PROVE  CoveredFor(t)'
<1>0. t \in Threads
  BY FederationAssumption DEF FederationAssumption
<1>. SUFFICES ASSUME at'[t] \in Walking \cup {"verify", "marks"} \/ result'[t] = "answered"
              PROVE  Reached(t)'
  BY DEF CoveredFor
<1>1. UNCHANGED steady /\ Within(steady'[t], steady[t])
  BY DEF Searches, Around, Within
<1>2. at[t] \in Walking \cup {"verify", "marks"} => Reached(t)
  BY DEF CoveredFor
<1>3. CASE Fails(t)
  BY <1>0, <1>3, MovesAre DEF Fails, Moved, Walking
<1>4. CASE Starts(t)
  <2>1. Pending(t)' = Subordinates(Anchor)
    BY <1>0, <1>4, StartPends
  <2>2. steady[t].all \subseteq Subordinates(Anchor)
    BY <1>4 DEF Observed, ObservedFor, Starts, At, Searching, Within, Listed
  <2>3. Gone(t, {})'
    BY <1>1, <2>1, <2>2 DEF Gone
  <2>. QED
    BY <2>3 DEF Reached
<1>5. ASSUME NEW e \in Anyone, Down(t, e)
      PROVE  Reached(t)'
  <2>1. at[t] = "descend" /\ found'[t] = found[t]
    BY <1>0, <1>5, MovesAre DEF Down, Moved, At
  <2>2. Pending(t)' = Pending(t)
    BY <1>0, <1>5, DownPends
  <2>. QED
    BY <1>1, <1>2, <2>1, <2>2, ReachedStays DEF Walking
<1>6. CASE Back(t)
  <2>1. at[t] = "descend" /\ found'[t] = found[t]
    BY <1>0, <1>6, MovesAre DEF Back, Moved, At
  <2>2. Pending(t)' = Pending(t)
    BY <1>0, <1>6, BackPends
  <2>. QED
    BY <1>1, <1>2, <2>1, <2>2, ReachedStays DEF Walking
<1>7. CASE Through(t)
  <2>1. at[t] = "descend" /\ found'[t] = found[t]
    BY <1>0, <1>7, MovesAre DEF Through, Moved, At
  <2>2. Pending(t)' = Pending(t)
    BY <1>0, <1>7, ThroughPends
  <2>. QED
    BY <1>1, <1>2, <2>1, <2>2, ReachedStays DEF Walking
<1>8. CASE Arrives(t)
  <2>1. at[t] = "configuration"
    BY <1>8 DEF Arrives, At
  <2>. QED
    BY <1>0, <1>1, <1>2, <1>8, <2>1, ArrivalReaches DEF Walking
<1>9. ASSUME NEW es \in SUBSET Anyone, Notes(t, es)
      PROVE  Reached(t)'
  <2>1. at[t] = "typed"
    BY <1>9 DEF Notes, At
  <2>. QED
    BY <1>0, <1>1, <1>2, <1>9, <2>1, NotingReaches DEF Walking
<1>10. ASSUME NEW es \in SUBSET Anyone, Expands(t, es)
       PROVE  Reached(t)'
  <2>1. at[t] = "intermediates"
    BY <1>10 DEF Expands, At
  <2>. QED
    BY <1>0, <1>1, <1>2, <1>10, <2>1, ExpansionReaches DEF Walking
<1>11. CASE Sieves(t)
  <2>1. /\ at[t] \in {"verify", "marks"} /\ at'[t] # "configuration"
        /\ found'[t] = found[t] /\ stack'[t] = stack[t]
    BY <1>0, <1>11, SievingKeeps
  <2>2. Pending(t)' = Pending(t)
    BY <2>1, StandingPends
  <2>. QED
    BY <1>1, <1>2, <2>1, <2>2, ReachedStays
<1>. QED
  BY <1>3, <1>4, <1>5, <1>6, <1>7, <1>8, <1>9, <1>10, <1>11 DEF Searches

LEMMA CoveredStays ==
  ASSUME Types, Stacks, OneThing, Observed, Covered, [Next]_vars
  PROVE  Covered'
<1>0. Searchers \subseteq Threads
  BY FederationAssumption DEF FederationAssumption
<1>1. ASSUME NEW t \in Threads, (Opens(t) /\ t \in Searchers) \/ Searches(t) \/ Requests(t)
      PROVE  Covered'
  <2>1. ASSUME NEW u \in Searchers, u # t
        PROVE  CoveredFor(u)'
    <3>1. Unmoved(u)
      BY <1>0, <1>1, <2>1, OthersStay
    <3>2. Within(steady'[u], steady[u])
      BY <1>1, <2>1 DEF Opens, Searches, Around, Requests, Types, Within
    <3>. QED
      BY <3>1, <3>2, OthersReach DEF Covered, CoveredFor, Unmoved
  <2>2. ASSUME t \in Searchers
        PROVE  CoveredFor(t)'
    <3>1. CASE Searches(t)
      BY <2>2, <3>1, SearchReaches DEF Covered
    <3>2. CASE Requests(t)
      <4>1. at'[t] \notin Searching /\ result'[t] # "answered"
        BY <3>2, RequestGoes
      <4>. QED
        BY <4>1 DEF CoveredFor, Searching
    <3>3. CASE Opens(t)
      BY <3>3, MovesAre DEF Opens, Moved, CoveredFor, Walking
    <3>. QED
      BY <1>1, <3>1, <3>2, <3>3
  <2>. QED
    BY <2>1, <2>2 DEF Covered
<1>2. CASE Administrate \/ Still
  <2>1. \A u \in Searchers : Unmoved(u)
    BY <1>2, AdministrateStill DEF Unmoved
  <2>2. ASSUME NEW u \in Searchers
        PROVE  Within(steady'[u], steady[u])
    <3>1. CASE Still
      BY <3>1 DEF Still, observed, Within
    <3>2. CASE Administrate
      <4>1. steady[u] \in Lists /\ Listed' \in Lists
        BY <3>2, AdministrateIs DEF Types
      <4>2. steady'[u] = steady[u] \/ steady'[u] = Both(steady[u], Listed')
        BY <3>2, AdministrateIs
      <4>3. Within(Both(steady[u], Listed'), steady[u]) /\ Within(steady[u], steady[u])
        BY <4>1, BothAndEitherAre DEF Within
      <4>. QED
        BY <4>2, <4>3
    <3>. QED
      BY <1>2, <3>1, <3>2
  <2>. QED
    BY <2>1, <2>2, OthersReach DEF Covered, CoveredFor, Unmoved
<1>. QED
  BY <1>0, <1>1, <1>2, NextIs
-----------------------------------------------------------------------------
(* Searches get only to those that somebody listed                         *)

\* What is in bounds stays so when no more is found or ahead, and more was listed.
LEMMA InBoundsStays ==
  ASSUME NEW t, ever[t] \in Lists, ever'[t] \in Lists, Within(ever[t], ever'[t]), InBounds(t),
         found'[t] \subseteq found[t], Pending(t)' \subseteq Pending(t),
         Beneath(stack[t], Visited(ever[t]) \cup {NotAnEntity}) =>
           Beneath(stack'[t], Visited(ever[t]) \cup {NotAnEntity})
  PROVE  InBounds(t)'
<1>1. Visited(ever[t]) \subseteq Visited(ever'[t]) /\ Findable(ever[t]) \subseteq Findable(ever'[t])
  BY MoreToFind
<1>2. Beneath(stack'[t], Visited(ever'[t]) \cup {NotAnEntity})
  BY <1>1 DEF InBounds, Beneath
<1>. QED
  BY <1>1, <1>2 DEF InBounds

LEMMA OthersInBounds ==
  ASSUME Types, Types', NEW u \in Searchers, InBounds(u), Unmoved(u), Within(ever[u], ever'[u])
  PROVE  InBounds(u)'
<1>1. Pending(u)' = Pending(u)
  BY DEF Pending, Unmoved, At
<1>2. ever[u] \in Lists /\ ever'[u] \in Lists
  BY DEF Types
<1>. QED
  BY <1>1, <1>2, InBoundsStays DEF Unmoved

\* A search that lists is at a superior that somebody listed.
LEMMA TopIsVisited ==
  ASSUME Types, Stacks, NEW t \in Threads, InBounds(t),
         At(t, "configuration") \/ At(t, "typed") \/ At(t, "intermediates"),
         Top(t).node \in Entities
  PROVE  Top(t).node \in Visited(ever[t])
<1>1. stack[t] \in Seq(Frames) /\ stack[t] # <<>> /\ Len(stack[t]) > 1
  BY DEF Types, Stacks, StackFor
<1>2. Len(stack[t]) \in Nat
  BY <1>1
<1>3. Len(stack[t]) \in 2..Len(stack[t])
  BY <1>1, <1>2
<1>4. Top(t).node \in Visited(ever[t]) \cup {NotAnEntity}
  BY <1>3 DEF InBounds, Beneath, Top
<1>. QED
  BY <1>4, SuperiorAssumption DEF SuperiorAssumption, NotAnEntity

LEMMA DescentBeneath ==
  ASSUME NEW q \in Seq(Frames), q # <<>>, NEW e \in q[Len(q)].todo, NEW V, e \in V, Beneath(q, V)
  PROVE  Beneath(Descended(q, e), V)
<1>. DEFINE r == Descended(q, e)
<1>1. Len(q) \in Nat \ {0}
  BY StackIs
<1>2. Len(r) = Len(q) + 1 /\ r[Len(q) + 1].node = e
  BY DescentFrames
<1>3. \A i \in 1..Len(q) : r[i].node = q[i].node
  BY DescentKeeps
<1>. HIDE DEF r
<1>4. ASSUME NEW i \in 2..Len(r)
      PROVE  r[i].node \in V
  <2>1. i \in 2..Len(q) \/ i = Len(q) + 1
    BY <1>1, <1>2
  <2>2. i \in 2..Len(q) => i \in 1..Len(q)
    BY <1>1
  <2>. QED
    BY <1>2, <1>3, <2>1, <2>2 DEF Beneath
<1>. QED
  BY <1>4 DEF Beneath, r

LEMMA SearchInBounds ==
  ASSUME Types, Stacks, OneThing, WithinHierarchy, Observed, NEW t \in Searchers, BoundedFor(t),
         Searches(t)
  PROVE  BoundedFor(t)'
<1>0. t \in Threads
  BY FederationAssumption DEF FederationAssumption
<1>1. /\ ever' = ever /\ ever[t] \in Lists /\ Within(ever[t], ever'[t])
      /\ InBounds(t) /\ Within(Listed, ever[t])
  BY <1>0, SearchGoes DEF Searches, Around, Within, Types, BoundedFor, Observed, ObservedFor
<1>. DEFINE V == Visited(ever[t])
<1>2. /\ V \subseteq Entities /\ ever[t].all \subseteq V
      /\ \A p \in ever[t].intermediate : p[1] \in V => p[2] \in V
  BY <1>1, VisitedIs
<1>3. /\ found[t] \subseteq Findable(ever[t]) \cup {NotAnEntity}
      /\ Pending(t) \subseteq V \cup {NotAnEntity} /\ Beneath(stack[t], V \cup {NotAnEntity})
  BY <1>1 DEF InBounds
<1>. HIDE DEF V
<1>. SUFFICES ASSUME at'[t] \in Searching \/ result'[t] = "answered"
              PROVE  InBounds(t)'
  BY DEF BoundedFor
<1>4. CASE Fails(t)
  BY <1>0, <1>4, MovesAre DEF Fails, Moved, Searching, Walking
<1>5. CASE Starts(t)
  <2>1. Pending(t)' = Subordinates(Anchor)
    BY <1>0, <1>5, StartPends
  <2>2. Subordinates(Anchor) \subseteq V
    BY <1>1, <1>2 DEF Within, Listed
  <2>3. /\ found'[t] = found[t] /\ stack'[t] = <<Frame(Me, Subordinates(Anchor))>>
    BY <1>0, <1>5, MovesAre DEF Starts, Moved
  <2>4. Beneath(stack'[t], V \cup {NotAnEntity})
    BY <2>3 DEF Beneath
  <2>. QED
    BY <1>1, <1>3, <2>1, <2>2, <2>3, <2>4 DEF InBounds, V
<1>6. ASSUME NEW e \in Anyone, Down(t, e)
      PROVE  InBounds(t)'
  <2>1. Pending(t)' = Pending(t)
    BY <1>0, <1>6, DownPends
  <2>2. /\ stack[t] \in Seq(Frames) /\ stack[t] # <<>> /\ e \in stack[t][Len(stack[t])].todo
        /\ at'[t] = "configuration" /\ found'[t] = found[t] /\ stack'[t] = Descended(stack[t], e)
    BY <1>0, <1>6, MovesAre DEF Down, Moved, Types, Stacks, StackFor, At, Walking, Top
  <2>3. e \in V \cup {NotAnEntity}
    <3>1. e = stack'[t][Len(stack'[t])].node
      <4>1. Len(Descended(stack[t], e)) = Len(stack[t]) + 1
        BY <2>2, DescentFrames
      <4>2. Descended(stack[t], e)[Len(stack[t]) + 1].node = e
        BY <2>2, DescentFrames
      <4>. QED
        BY <2>2, <4>1, <4>2
    <3>2. e \in Pending(t)'
      BY <2>2, <3>1 DEF Pending, Ahead, At
    <3>. QED
      BY <1>3, <2>1, <3>2
  <2>4. Beneath(stack'[t], V \cup {NotAnEntity})
    BY <1>3, <2>2, <2>3, DescentBeneath
  <2>. QED
    BY <1>1, <1>3, <2>1, <2>2, <2>4 DEF InBounds, V
<1>7. CASE Back(t)
  <2>1. Pending(t)' = Pending(t)
    BY <1>0, <1>7, BackPends
  <2>2. /\ stack[t] \in Seq(Frames) /\ stack[t] # <<>>
        /\ found'[t] = found[t] /\ stack'[t] = Below(stack[t])
    BY <1>0, <1>7, MovesAre DEF Back, Moved, Types, Stacks, StackFor, At, Walking, Top
  <2>3. Len(stack[t]) \in Nat \ {0}
    BY <2>2, StackIs
  <2>4. Len(Below(stack[t])) = Len(stack[t]) - 1
        /\ \A i \in 1..(Len(stack[t]) - 1) : Below(stack[t])[i] = stack[t][i]
    BY <2>2, BelowIs
  <2>5. Beneath(stack'[t], V \cup {NotAnEntity})
    BY <1>3, <2>2, <2>3, <2>4 DEF Beneath
  <2>. QED
    BY <1>1, <1>3, <2>1, <2>2, <2>5 DEF InBounds, V
<1>8. CASE Through(t)
  <2>1. Pending(t)' = Pending(t)
    BY <1>0, <1>8, ThroughPends
  <2>2. found'[t] = found[t] /\ stack'[t] = <<>>
    BY <1>0, <1>8, MovesAre DEF Through, Moved
  <2>3. Beneath(stack'[t], V \cup {NotAnEntity})
    BY <2>2 DEF Beneath
  <2>. QED
    BY <1>1, <1>3, <2>1, <2>2, <2>3 DEF InBounds, V
<1>9. CASE Arrives(t)
  <2>1. Pending(t) = Pending(t)' \cup {Top(t).node}
    BY <1>0, <1>9, ArrivalPends
  <2>2. Top(t).node \in V
    BY <1>0, <1>1, <1>9, TopIsVisited DEF Arrives, V
  <2>3. found'[t] = found[t] \cup ({Top(t).node} \cap Providers) /\ stack'[t] = stack[t]
    BY <1>0, <1>9, MovesAre DEF Arrives, Moved
  <2>4. {Top(t).node} \cap Providers \subseteq Findable(ever[t])
    BY <2>2, FindableIs DEF V
  <2>. QED
    BY <1>1, <1>3, <2>1, <2>3, <2>4 DEF InBounds, V
<1>10. ASSUME NEW es \in SUBSET Anyone, Notes(t, es)
       PROVE  InBounds(t)'
  <2>1. /\ at[t] = "typed" /\ at'[t] = "intermediates" /\ stack'[t] = stack[t]
        /\ found'[t] = found[t] \cup es /\ es \in {OfType(Top(t).node), {NotAnEntity}}
    BY <1>0, <1>10, MovesAre DEF Notes, Moved, At
  <2>2. Pending(t)' = Pending(t)
    BY <2>1, StandingPends
  <2>3. Top(t).node \in Superiors /\ Top(t).node \in V
    BY <1>0, <1>1, <2>1, NodesAre, TopIsVisited DEF At, V
  <2>4. ASSUME NEW x \in OfType(Top(t).node)
        PROVE  x \in Findable(ever[t])
    <3>1. <<Top(t).node, x>> \in Hierarchy
      BY <2>3, <2>4 DEF OfType, Subordinates, WithinHierarchy
    <3>2. <<Top(t).node, x>> \in ever[t].type
      BY <1>1, <2>4, <3>1, ListsAre DEF Within
    <3>. QED
      BY <2>3, <3>2, FindableIs DEF V
  <2>5. es \subseteq Findable(ever[t]) \cup {NotAnEntity}
    BY <2>1, <2>4
  <2>. QED
    BY <1>1, <1>3, <2>1, <2>2, <2>5 DEF InBounds, V
<1>11. ASSUME NEW es \in SUBSET Anyone, Expands(t, es)
       PROVE  InBounds(t)'
  <2>1. /\ at[t] = "intermediates" /\ found'[t] = found[t] /\ stack'[t] = Replaced(stack[t], es)
        /\ es \in {Intermediates(Top(t).node), {NotAnEntity}}
    BY <1>0, <1>11, MovesAre DEF Expands, Moved, At
  <2>2. Pending(t)' = Pending(t) \cup es
    BY <1>0, <1>11, ExpansionPends
  <2>3. Top(t).node \in Superiors /\ Top(t).node \in V
    BY <1>0, <1>1, <2>1, NodesAre, TopIsVisited DEF At, V
  <2>4. ASSUME NEW x \in Intermediates(Top(t).node)
        PROVE  x \in V
    <3>1. <<Top(t).node, x>> \in Hierarchy
      BY <2>3, <2>4 DEF Intermediates, Subordinates, WithinHierarchy
    <3>2. <<Top(t).node, x>> \in ever[t].intermediate
      BY <1>1, <2>4, <3>1, ListsAre DEF Within
    <3>. QED
      BY <1>2, <2>3, <3>2
  <2>5. es \subseteq V \cup {NotAnEntity}
    BY <2>1, <2>4
  <2>6. stack[t] \in Seq(Frames) /\ stack[t] # <<>> /\ stack[t][Len(stack[t])].todo = {}
    BY <1>0, <2>1, NodesAre DEF At, Top
  <2>7. Len(Replaced(stack[t], es)) = Len(stack[t])
        /\ \A i \in 1..Len(stack[t]) : Replaced(stack[t], es)[i].node = stack[t][i].node
    BY <2>6, ReplacedIs
  <2>8. Beneath(stack'[t], V \cup {NotAnEntity})
    BY <1>3, <2>1, <2>7 DEF Beneath
  <2>. QED
    BY <1>1, <1>3, <2>1, <2>2, <2>5, <2>8 DEF InBounds, V
<1>12. CASE Sieves(t)
  <2>1. /\ at[t] \in {"verify", "marks"} /\ at'[t] # "configuration"
        /\ found'[t] = found[t] /\ stack'[t] = stack[t]
    BY <1>0, <1>12, SievingKeeps
  <2>2. Pending(t)' = Pending(t)
    BY <2>1, StandingPends
  <2>. QED
    BY <1>1, <1>3, <2>1, <2>2 DEF InBounds, V
<1>. QED
  BY <1>4, <1>5, <1>6, <1>7, <1>8, <1>9, <1>10, <1>11, <1>12 DEF Searches

LEMMA BoundedStays ==
  ASSUME Types, Types', Stacks, OneThing, WithinHierarchy, Observed, Bounded, [Next]_vars
  PROVE  Bounded'
<1>0. Searchers \subseteq Threads
  BY FederationAssumption DEF FederationAssumption
<1>1. ASSUME NEW t \in Threads, (Opens(t) /\ t \in Searchers) \/ Searches(t) \/ Requests(t)
      PROVE  Bounded'
  <2>1. ASSUME NEW u \in Searchers, u # t
        PROVE  BoundedFor(u)'
    <3>1. Unmoved(u)
      BY <1>0, <1>1, <2>1, OthersStay
    <3>2. Within(ever[u], ever'[u])
      BY <1>1, <2>1 DEF Opens, Searches, Around, Requests, Types, Within
    <3>. QED
      BY <3>1, <3>2, OthersInBounds DEF Bounded, BoundedFor, Unmoved
  <2>2. ASSUME t \in Searchers
        PROVE  BoundedFor(t)'
    <3>1. CASE Searches(t)
      BY <2>2, <3>1, SearchInBounds DEF Bounded
    <3>2. CASE Requests(t)
      <4>1. at'[t] \notin Searching /\ result'[t] # "answered"
        BY <3>2, RequestGoes
      <4>. QED
        BY <4>1 DEF BoundedFor
    <3>3. CASE Opens(t)
      <4>1. /\ at[t] = "idle" /\ at'[t] = "list" /\ stack'[t] = stack[t] /\ found'[t] = {}
        BY <3>3, MovesAre DEF Opens, Moved, At
      <4>2. stack[t] = <<>>
        BY <4>1 DEF Stacks, StackFor, Walking
      <4>3. Pending(t)' = {}
        BY <4>1, <4>2, PendingIs, NothingAhead
      <4>4. Beneath(stack'[t], Visited(ever'[t]) \cup {NotAnEntity})
        BY <4>1, <4>2 DEF Beneath
      <4>. QED
        BY <4>1, <4>3, <4>4 DEF BoundedFor, InBounds
    <3>. QED
      BY <1>1, <3>1, <3>2, <3>3
  <2>. QED
    BY <2>1, <2>2 DEF Bounded
<1>2. CASE Administrate \/ Still
  <2>1. \A u \in Searchers : Unmoved(u)
    BY <1>2, AdministrateStill DEF Unmoved
  <2>2. ASSUME NEW u \in Searchers
        PROVE  Within(ever[u], ever'[u])
    <3>1. CASE Still
      BY <3>1 DEF Still, observed, Within
    <3>2. CASE Administrate
      <4>1. ever[u] \in Lists /\ Listed' \in Lists
        BY <3>2, AdministrateIs DEF Types
      <4>2. ever'[u] = ever[u] \/ ever'[u] = Either(ever[u], Listed')
        BY <3>2, AdministrateIs
      <4>3. Within(ever[u], Either(ever[u], Listed')) /\ Within(ever[u], ever[u])
        BY <4>1, BothAndEitherAre DEF Within
      <4>. QED
        BY <4>2, <4>3
    <3>. QED
      BY <1>2, <3>1, <3>2
  <2>. QED
    BY <2>1, <2>2, OthersInBounds DEF Bounded, BoundedFor, Unmoved
<1>. QED
  BY <1>0, <1>1, <1>2, NextIs

-----------------------------------------------------------------------------
(* What the answer keeps                                                   *)

\* Requests that overlapped did so for good.
LEMMA OverlapStays ==
  ASSUME Types, Stacks, [Next]_vars, ~overlapped'
  PROVE  ~overlapped
<1>1. ASSUME NEW t, NEW e, Request(t, e)
      PROVE  ~overlapped
  <2>1. overlapped' = (overlapped \/ \E u \in Threads \ {t} : Asking(u))
    BY <1>1 DEF Request
  <2>. QED
    BY <2>1
<1>2. ASSUME NEW t, Opens(t) \/ Searches(t) \/ Requests(t)
      PROVE  UNCHANGED overlapped \/ \E e : Request(t, e)
  BY <1>2 DEF Opens, Searches, Around, Asks, Requests, Begins, Reads, Collects
<1>3. ASSUME Administrate \/ Still
      PROVE  UNCHANGED overlapped
  BY <1>3, AdministrateStill
<1>. QED
  BY <1>1, <1>2, <1>3, NextIs

LEMMA OthersKeep ==
  ASSUME NEW u, KeepsFor(u), Unmoved(u), left'[u] = left[u], request'[u] = request[u],
         ~overlapped' => ~overlapped
  PROVE  KeepsFor(u)'
BY DEF KeepsFor, Sifting, Unseen, Unmoved, At

\* A thread that has nothing to keep.
LEMMA NothingKept ==
  ASSUME NEW t, at'[t] \notin {"verify", "marks"}, result'[t] # "answered"
  PROVE  KeepsFor(t)'
BY DEF KeepsFor, Sifting, At

LEMMA SieveKeeps ==
  ASSUME Types, Types', Stacks, OneThing, Straight, NEW t \in Searchers, t \in Threads, KeepsFor(t),
         Sieves(t), UNCHANGED request, ~overlapped' => ~overlapped, UNCHANGED left \/ At(t, "verify") \/ At(t, "marks")
  PROVE  KeepsFor(t)'
<1>1. Sifting(t) /\ found'[t] = found[t] /\ UNCHANGED request
  BY SievingKeeps DEF Sifting, At
<1>2. ASSUME NEW e \in Entities, Verifies(t, e)
      PROVE  KeepsFor(t)'
  <2>1. /\ at[t] = "verify" /\ at'[t] = "verify" /\ e \in left[t] /\ left'[t] = left[t] \ {e}
        /\ kept'[t] = IF Of(e) \in Suitable THEN kept[t] ELSE kept[t] \ {e}
    BY <1>2, MovesAre DEF Verifies, Moved, At, Types
  <2>2. Unseen(t) = left[t] /\ Unseen(t)' = left[t] \ {e}
    BY <2>1 DEF Unseen, At
  <2>3. ~At(t, "marks")'
    BY <2>1 DEF At
  <2>4. CASE ~request[t].credential_type
    BY <1>1, <2>1, <2>3, <2>4 DEF KeepsFor
  <2>5. CASE request[t].credential_type
    <3>1. /\ kept[t] \subseteq found[t]
          /\ NotAnEntity \in found[t] => NotAnEntity \in left[t]
          /\ ~overlapped => kept[t] \ left[t] \subseteq Suitable
          /\ ~overlapped /\ ~request[t].trust_mark_id => found[t] \cap Suitable \subseteq kept[t]
      BY <1>1, <2>2, <2>5 DEF KeepsFor
    <3>2. e # NotAnEntity
      BY SuperiorAssumption DEF SuperiorAssumption, NotAnEntity
    <3>3. ~overlapped => Of(e) = e
      BY DEF Straight, OwnChains, Of, Anyone
    <3>4. /\ kept'[t] \subseteq found[t]
          /\ NotAnEntity \in found[t] => NotAnEntity \in left[t] \ {e}
      BY <2>1, <3>1, <3>2
    <3>5. ~overlapped => kept'[t] \ (left[t] \ {e}) \subseteq Suitable
      BY <2>1, <3>1, <3>3
    <3>6. ~overlapped /\ ~request[t].trust_mark_id => found[t] \cap Suitable \subseteq kept'[t]
      BY <2>1, <3>1, <3>3
    <3>. QED
      BY <1>1, <2>2, <2>3, <2>5, <3>4, <3>5, <3>6 DEF KeepsFor
  <2>. QED
    BY <2>4, <2>5
<1>3. CASE Looks(t)
  <2>1. /\ at[t] = "verify" /\ at'[t] = "marks" /\ left[t] = {} /\ request[t].trust_mark_id
        /\ kept'[t] = kept[t]
    BY <1>3, MovesAre DEF Looks, Moved, At
  <2>2. Unseen(t) = {} /\ Unseen(t)' = {}
    BY <2>1 DEF Unseen, At
  <2>. QED
    BY <1>1, <2>1, <2>2 DEF KeepsFor
<1>4. ASSUME NEW ks \in SUBSET Anyone, Sifts(t, ks)
      PROVE  KeepsFor(t)'
  <2>1. at[t] = "marks" /\ at'[t] = "marks" /\ kept'[t] \subseteq kept[t]
    BY <1>4, MovesAre DEF Sifts, Moved, At
  <2>2. Unseen(t) = {} /\ Unseen(t)' = {} /\ request[t].trust_mark_id
    BY <2>1 DEF Unseen, At, KeepsFor
  <2>. QED
    BY <1>1, <2>1, <2>2 DEF KeepsFor
<1>5. CASE Answers(t)
  <2>1. at'[t] = "idle" /\ left[t] = {} /\ kept'[t] = kept[t]
    BY <1>5, MovesAre DEF Answers, Moved, At
  <2>2. Unseen(t) = {} /\ Unseen(t)' = {}
    BY <2>1 DEF Unseen, At
  <2>3. ~At(t, "marks")'
    BY <2>1 DEF At
  <2>. QED
    BY <1>1, <2>1, <2>2, <2>3 DEF KeepsFor
<1>. QED
  BY <1>2, <1>3, <1>4, <1>5 DEF Sieves

LEMMA SearchKeeps ==
  ASSUME Types, Types', Stacks, OneThing, Straight, NEW t \in Searchers, KeepsFor(t), Searches(t),
         ~overlapped' => ~overlapped
  PROVE  KeepsFor(t)'
<1>0. t \in Threads /\ UNCHANGED request
  BY FederationAssumption DEF FederationAssumption, Searches, Around
<1>1. CASE Sieves(t)
  BY <1>0, <1>1, SieveKeeps, SievingKeeps DEF At
<1>2. CASE Through(t)
  <2>1. /\ at'[t] = "verify" /\ found'[t] = found[t] /\ kept'[t] = Wanted(t) /\ left'[t] = Wanted(t)
        /\ result'[t] = "none"
    BY <1>0, <1>2, MovesAre, SearchGoes DEF Through, Moved, Types
  <2>2. Unseen(t)' = Wanted(t) /\ ~At(t, "marks")'
    BY <2>1 DEF Unseen, At
  <2>. QED
    BY <1>0, <2>1, <2>2 DEF KeepsFor, Wanted
<1>3. ASSUME NEW label \in {"idle", "descend", "configuration", "typed", "intermediates"},
             NEW q, NEW fs, NEW ks, NEW how \in {"none", "exception"}, Moves(t, label, q, fs, ks, how)
      PROVE  KeepsFor(t)'
  BY <1>0, <1>3, MovesAre, NothingKept DEF Moved
<1>4. result[t] = "none"
  BY <1>0, SearchGoes
<1>5. CASE Fails(t) \/ Starts(t) \/ Back(t) \/ Arrives(t)
  BY <1>3, <1>4, <1>5 DEF Fails, Starts, Back, Arrives
<1>6. ASSUME NEW e \in Anyone, Down(t, e)
      PROVE  KeepsFor(t)'
  BY <1>3, <1>4, <1>6 DEF Down
<1>7. ASSUME NEW es \in SUBSET Anyone, Notes(t, es) \/ Expands(t, es)
      PROVE  KeepsFor(t)'
  BY <1>3, <1>4, <1>7 DEF Notes, Expands
<1>. QED
  BY <1>1, <1>2, <1>5, <1>6, <1>7 DEF Searches

LEMMA KeepsStays ==
  ASSUME Types, Types', Stacks, OneThing, Straight, Keeps, [Next]_vars
  PROVE  Keeps'
<1>0. Searchers \subseteq Threads
  BY FederationAssumption DEF FederationAssumption
<1>1. ~overlapped' => ~overlapped
  BY OverlapStays
<1>2. ASSUME NEW t \in Threads, (Opens(t) /\ t \in Searchers) \/ Searches(t) \/ Requests(t)
      PROVE  Keeps'
  <2>1. ASSUME NEW u \in Searchers, u # t
        PROVE  KeepsFor(u)'
    <3>1. Unmoved(u) /\ left'[u] = left[u] /\ request'[u] = request[u]
      BY <1>0, <1>2, <2>1, OthersStay
    <3>. QED
      BY <1>1, <2>1, <3>1, OthersKeep DEF Keeps
  <2>2. ASSUME t \in Searchers
        PROVE  KeepsFor(t)'
    <3>1. CASE Searches(t)
      BY <1>1, <2>2, <3>1, SearchKeeps DEF Keeps
    <3>2. CASE Requests(t)
      <4>1. at'[t] \notin Searching /\ result'[t] # "answered"
        BY <3>2, RequestGoes
      <4>. QED
        BY <4>1, NothingKept DEF Searching
    <3>3. CASE Opens(t)
      BY <3>3, MovesAre, NothingKept DEF Opens, Moved
    <3>. QED
      BY <1>2, <3>1, <3>2, <3>3
  <2>. QED
    BY <2>1, <2>2 DEF Keeps
<1>3. CASE Administrate \/ Still
  <2>1. \A u \in Searchers : Unmoved(u) /\ left'[u] = left[u] /\ request'[u] = request[u]
    BY <1>3, AdministrateStill DEF Unmoved
  <2>. QED
    BY <1>1, <2>1, OthersKeep DEF Keeps
<1>. QED
  BY <1>0, <1>2, <1>3, NextIs
-----------------------------------------------------------------------------
(* The invariant, and what follows from it                                 *)

SearchInv ==
  /\ Types /\ Stacks /\ OneThing
  /\ Straight
  /\ WithinHierarchy /\ Observed
  /\ Covered /\ Bounded /\ Keeps

LEMMA SearchInvAtFirst == Init => SearchInv
<1>. SUFFICES ASSUME Init
              PROVE  SearchInv
  OBVIOUS
<1>1. Types
  BY TypesAtFirst
<1>2. Searchers \subseteq Threads
  BY FederationAssumption DEF FederationAssumption
<1>3. /\ \A t \in Threads : at[t] = "idle" /\ stack[t] = <<>> /\ result[t] = "none"
      /\ trust_chain = [e \in Anyone |-> Nothing]
  BY DEF Init
<1>4. Stacks /\ OneThing
  BY <1>3 DEF Stacks, StackFor, OneThing, OneFor, At, Walking, Searching
<1>5. Straight
  BY <1>3 DEF Straight, OwnChains, AsksTheIssuer, WentThere, Asking
<1>6. WithinHierarchy
  BY FederationAssumption DEF Init, FederationAssumption, WithinHierarchy
<1>7. Observed /\ Covered /\ Bounded /\ Keeps
  BY <1>2, <1>3 DEF Observed, ObservedFor, Covered, CoveredFor, Bounded, BoundedFor, Keeps,
     KeepsFor, Sifting, At, Walking, Searching
<1>. QED
  BY <1>1, <1>4, <1>5, <1>6, <1>7 DEF SearchInv

LEMMA SearchInvStays == SearchInv /\ [Next]_vars => SearchInv'
<1>. SUFFICES ASSUME SearchInv, [Next]_vars
              PROVE  SearchInv'
  OBVIOUS
<1>1. /\ Types /\ Stacks /\ OneThing /\ Straight /\ WithinHierarchy /\ Observed
      /\ Covered /\ Bounded /\ Keeps
  BY DEF SearchInv
<1>2. Types' /\ Stacks' /\ OneThing' /\ Straight'
  BY <1>1, TypesStay, StacksStay, OneThingStays, StraightStays
<1>3. WithinHierarchy' /\ Observed'
  BY <1>1, WithinHierarchyStays, ObservedStays
<1>4. Covered' /\ Bounded' /\ Keeps'
  BY <1>1, <1>2, CoveredStays, BoundedStays, KeepsStays
<1>. QED
  BY <1>2, <1>3, <1>4 DEF SearchInv

LEMMA SearchInvHolds == Spec => []SearchInv
BY SearchInvAtFirst, SearchInvStays, PTL DEF Spec

\* A search that has answered is through with all it found: what it reached is all there was.
LEMMA AnsweredReachesAll ==
  ASSUME SearchInv, NEW t \in Searchers, result[t] = "answered", request[t].credential_type
  PROVE  Findable(steady[t]) \subseteq found[t]
<1>1. t \in Threads /\ at[t] = "idle" /\ stack[t] = <<>>
  BY FederationAssumption
  DEF FederationAssumption, SearchInv, OneThing, OneFor, Stacks, StackFor, Walking
<1>2. Pending(t) = {}
  BY <1>1, PendingIs, NothingAhead
<1>3. Reached(t) /\ NotAnEntity \notin found[t]
  BY <1>1 DEF SearchInv, Covered, CoveredFor, Keeps, KeepsFor, Sifting, Unseen, At
<1>4. PICK D \in SUBSET Entities : Gone(t, D)
  BY <1>2, <1>3 DEF Reached
<1>5. Visited(steady[t]) \subseteq D
  <2>1. steady[t].all \subseteq D /\ \A p \in steady[t].intermediate : p[1] \in D => p[2] \in D
    BY <1>1, <1>2, <1>4 DEF Gone, At
  <2>. QED
    BY <2>1, VisitedIsLeast
<1>6. ASSUME NEW x \in Findable(steady[t])
      PROVE  x \in found[t]
  <2>1. CASE x \in Visited(steady[t]) /\ x \in Providers
    BY <1>4, <1>5, <2>1 DEF Gone
  <2>2. CASE \E p \in steady[t].type : p[1] \in Visited(steady[t]) /\ x = p[2]
    BY <1>1, <1>4, <1>5, <2>2 DEF Gone, At
  <2>. QED
    BY <1>6, <2>1, <2>2, FindableIs
<1>. QED
  BY <1>6

\* The variables have their types, the calls of trawl that a search is in those that its
\* place in the code needs, whatever the federation and its threads are.
THEOREM FederationTypes == Spec => []TypeOK
<1>1. ASSUME SearchInv
      PROVE  TypeOK
  <2>1. Types /\ Stacks /\ OneThing
    BY <1>1 DEF SearchInv
  <2>2. ASSUME NEW t \in Threads
        PROVE  /\ found[t] \cup kept[t] \cup left[t] \subseteq Anyone
               /\ at[t] \in {"descend", "configuration", "typed", "intermediates"} => stack[t] # <<>>
               /\ at[t] \in {"configuration", "typed", "intermediates"} =>
                    Len(stack[t]) > 1 /\ Top(t).todo = {}
    BY <2>1 DEF Types, Stacks, StackFor, At, Walking
  <2>. QED
    BY <2>1, <2>2 DEF TypeOK, Types
<1>. QED
  BY <1>1, SearchInvHolds, PTL

\* The answer of a search for a credential type has found all that superiors listed the whole
\* time and nothing that none ever listed; unless requests overlapped it answers with those
\* that issue such credentials, with all of them if no trust mark is asked for; and a search
\* without a credential type answers with nobody.  For every federation, however deep and with
\* whatever circles, that changes while any number of threads search it and request trust marks.
THEOREM SearchesFindEverything == Spec => []SearchesAreComplete
<1>1. ASSUME SearchInv
      PROVE  SearchesAreComplete
  <2>1. ASSUME NEW t \in Searchers, result[t] = "answered"
        PROVE  IF request[t].credential_type
               THEN /\ Findable(steady[t]) \subseteq found[t]
                    /\ found[t] \subseteq Findable(ever[t])
                    /\ kept[t] \subseteq found[t]
                    /\ ~overlapped => kept[t] \subseteq Suitable
                    /\ ~overlapped /\ ~request[t].trust_mark_id =>
                         found[t] \cap Suitable \subseteq kept[t]
               ELSE kept[t] = {}
    <3>1. KeepsFor(t) /\ Sifting(t)
      BY <1>1, <2>1 DEF SearchInv, Keeps, Sifting
    <3>2. CASE ~request[t].credential_type
      BY <3>1, <3>2 DEF KeepsFor
    <3>3. CASE request[t].credential_type
      <4>1. Findable(steady[t]) \subseteq found[t]
        BY <1>1, <2>1, <3>3, AnsweredReachesAll
      <4>2. Unseen(t) = {}
        BY <1>1, <2>1, FederationAssumption
        DEF FederationAssumption, SearchInv, OneThing, OneFor, Unseen, At
      <4>3. /\ NotAnEntity \notin found[t] /\ kept[t] \subseteq found[t]
            /\ ~overlapped => kept[t] \subseteq Suitable
            /\ ~overlapped /\ ~request[t].trust_mark_id => found[t] \cap Suitable \subseteq kept[t]
        BY <3>1, <3>3, <4>2 DEF KeepsFor
      <4>4. found[t] \subseteq Findable(ever[t]) \cup {NotAnEntity}
        BY <1>1, <2>1 DEF SearchInv, Bounded, BoundedFor, InBounds
      <4>. QED
        BY <3>3, <4>1, <4>3, <4>4
    <3>. QED
      BY <3>2, <3>3
  <2>. QED
    BY <2>1 DEF SearchesAreComplete
<1>. QED
  BY <1>1, SearchInvHolds, PTL

\* While no request begins during another's search for an endpoint, trust marks are requested
\* from the issuer that was asked for and chains are stored for whom they are of: for any
\* number of threads.
THEOREM RequestsGoWhereAsked == Spec => []TrustMarkRequestsGoWhereAsked
<1>1. SearchInv => TrustMarkRequestsGoWhereAsked
  BY DEF SearchInv, Straight, OwnChains, WentThere, TrustMarkRequestsGoWhereAsked
<1>. QED
  BY <1>1, SearchInvHolds, PTL
=============================================================================
