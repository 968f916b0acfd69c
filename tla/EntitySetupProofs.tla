--------------------------- MODULE EntitySetupProofs ---------------------------
(***************************************************************************)
(* Proofs about EntitySetup, for any entities, descriptions, orders and    *)
(* trust anchors.                                                          *)
(***************************************************************************)
EXTENDS EntitySetup, TLAPS

Busy(e) == at[e] \notin {"no", "made", "failed"}
\* The kinds of items that e has not got yet.
ToCome(e) ==
  IF at[e] \in {"no", "service"} THEN Kinds
  ELSE IF at[e] = "function" THEN {"function", "endpoint"}
  ELSE IF at[e] = "endpoint" THEN {"endpoint"} ELSE {}
Wants(e, n, p) == Wanted(e, n, p) # Nothing \/ n \in order[e].own

\* One entity is made at a time, as its caller orders.
InTurn ==
  /\ \A e, f \in Entities : Busy(e) /\ Busy(f) => e = f
  /\ \A e \in Entities : ~At(e, "no") => order[e] \in Orders

\* Of what is to come nothing is chosen and nothing is written into what the caller brought.
NotYetFor(e) ==
  \A k \in ToCome(e) : \A n \in Items[k] : n \notin chosen[e] /\ own[e][n] = NoArgs
NotYet == \A e \in Entities : NotYetFor(e)

\* What the caller wants is in the descriptions until the components are made, and in them
\* from then on.
HeededFor(e) ==
  \A n \in chosen[e] : \A p \in Params : Wants(e, n, p) =>
    /\ at[e] \in Kinds \cup {"instantiate"} => Description(e, n)[p] = Wanted(e, n, p)
    /\ at[e] \in {"attach", "made"} => part[e][n][p] = Wanted(e, n, p)
Heeded == \A e \in Entities : HeededFor(e)

\* e's caller brought a dictionary of trust anchors in init_kwargs, and it is in the description.
Took(e) == order[e] # Nothing /\ order[e].hand = "init" /\ Collector \in chosen[e]
\* The entities that hold a dictionary of trust anchors.
Holders(d) == {g \in Entities : holds[g] = d}

\* An entity holds a dictionary of trust anchors once it has a collector, and was given none
\* before, except those in init_kwargs.
Collected ==
  \A e \in Entities :
    /\ holds[e] # Nothing => Collector \in chosen[e]
    /\ at[e] \in Kinds \cup {"no", "instantiate"} => holds[e] = Nothing
    /\ at[e] \in Kinds \cup {"no", "instantiate", "attach"} /\ ~Took(e) => given[e] = {}

\* What init_kwargs bring is in the description until the collector is made, and what a caller
\* brought is what his entity's collector holds.
Handed ==
  \A e \in Entities :
    /\ Took(e) /\ at[e] \in {"endpoint", "instantiate"} =>
         dictionary = order[e].anchors /\ given[e] \subseteq trusted[dictionary]
    /\ Took(e) => holds[e] \in {order[e].anchors, Nothing}
    /\ Made(e) /\ order[e].hand = "make" /\ Contents[order[e].anchors] # {} =>
         holds[e] \in {order[e].anchors, Nothing}

\* A dictionary has what was in it at first and what those that hold it were given.
TrustedIsGiven ==
  /\ \A d \in Dictionaries : trusted[d] = AtFirst(d) \cup UNION {given[f] : f \in Holders(d)}
  /\ \A e \in Entities : holds[e] # Nothing => given[e] \subseteq keys[e]

-----------------------------------------------------------------------------
(* Orders, and what they write                                             *)

LEMMA KindsApart ==
  ASSUME NEW k \in Kinds, NEW n \in Items[k]
  PROVE  n \in Names /\ \A l \in Kinds : n \in Items[l] => l = k
BY SetupAssumption DEF SetupAssumption, Names

LEMMA OrderFields ==
  ASSUME NEW o \in Orders
  PROVE  /\ o.own \subseteq Names \ Items["function"]
         /\ o.init \in [Names -> Args] /\ o.args \in [Names -> Args]
         /\ o.hand # "none" => o.anchors \in Brought /\ o.anchors # Standard
         /\ o.mark_endpoints \subseteq Names /\ o # Nothing
<1>1. Items["endpoint"] \subseteq Names
  BY DEF Names, Kinds
<1>. QED
  BY <1>1, SetupAssumption DEF SetupAssumption

LEMMA ChoiceIsOfKind ==
  ASSUME NEW e, NEW k \in Kinds
  PROVE  Choice(e, k) \subseteq Items[k] /\ Choice(e, k) \subseteq Names
<1>1. Choice(e, k) \subseteq Items[k]
  BY SetupAssumption DEF SetupAssumption, Choice, Asked
<1>. QED
  BY <1>1 DEF Names

LEMMA UpdatedIs ==
  ASSUME NEW old \in Args, NEW new \in Args
  PROVE  /\ Updated(old, new) \in Args
         /\ \A p \in Params : Updated(old, new)[p] = IF new[p] # Nothing THEN new[p] ELSE old[p]
BY DEF Updated, Args

\* What is written has what the caller wants, and nothing else if nothing else was there.
LEMMA WrittenIsWanted ==
  ASSUME NEW e, order[e] \in Orders, NEW k \in Kinds, NEW n \in Items[k], NEW old \in Args
  PROVE  /\ Written(e, k, n, old) \in Args
         /\ \A p \in Params : Wanted(e, n, p) # Nothing => Written(e, k, n, old)[p] = Wanted(e, n, p)
         /\ \A p \in Params : old = NoArgs => Written(e, k, n, old)[p] = Wanted(e, n, p)
<1>. DEFINE init == order[e].init[n]
            args == order[e].args[n]
            new == Updated(old, init)
<1>1. init \in Args /\ args \in Args
  BY KindsApart, OrderFields
<1>2. /\ new \in Args
      /\ \A p \in Params : new[p] = IF init[p] # Nothing THEN init[p] ELSE old[p]
  BY <1>1, UpdatedIs
<1>3. \A p \in Params : NoArgs[p] = Nothing
  BY DEF NoArgs
<1>4. CASE k = "endpoint"
  <2>1. Written(e, k, n, old) = Updated(new, args)
    BY <1>4 DEF Written
  <2>. HIDE DEF new
  <2>2. /\ Updated(new, args) \in Args
        /\ \A p \in Params : Updated(new, args)[p] = IF args[p] # Nothing THEN args[p] ELSE new[p]
    BY <1>1, <1>2, UpdatedIs
  <2>3. \A p \in Params : Wanted(e, n, p) = IF args[p] # Nothing THEN args[p] ELSE init[p]
    BY <1>4 DEF Wanted
  <2>. QED
    BY <1>2, <1>3, <2>1, <2>2, <2>3
<1>5. CASE k # "endpoint"
  <2>1. Written(e, k, n, old) = new
    BY <1>5 DEF Written
  <2>2. \A p \in Params : Wanted(e, n, p) = init[p]
    BY <1>5, KindsApart DEF Wanted, Kinds
  <2>. HIDE DEF new, init
  <2>. QED
    BY <1>2, <1>3, <2>1, <2>2
<1>. QED
  BY <1>4, <1>5

\* What an item that is added has afterwards.
LEMMA AddsAre ==
  ASSUME TypeOK, InTurn, NEW e \in Entities, NEW k \in Kinds, At(e, k), Adds(e, k)
  PROVE  /\ order[e] \in Orders /\ order' = order /\ UNCHANGED parts
         /\ at' = [at EXCEPT ![e] = Following(k)]
         /\ chosen' = [chosen EXCEPT ![e] = chosen[e] \cup Choice(e, k)]
         /\ shared' \in [Names -> Args] /\ own' \in [Entities -> [Names -> Args]]
         /\ \A n \in Names : n \notin Choice(e, k) => shared'[n] = shared[n] /\ own'[e][n] = own[e][n]
         /\ \A n \in Choice(e, k) :
              IF n \in order[e].own THEN own'[e][n] = Written(e, k, n, own[e][n])
              ELSE shared'[n] = Written(e, k, n, shared[n]) /\ own'[e][n] = own[e][n]
         /\ \A f \in Entities : f # e => own'[f] = own[f]
<1>. DEFINE new == Choice(e, k)
            written(n, old) == IF n \in new THEN Written(e, k, n, old) ELSE old
<1>1. order[e] \in Orders
  BY DEF InTurn, At, Kinds
<1>2. \A n \in Names, old \in Args : written(n, old) \in Args
  BY <1>1, WrittenIsWanted, ChoiceIsOfKind
<1>3. /\ shared' = [n \in Names |-> IF n \in order[e].own THEN shared[n] ELSE written(n, shared[n])]
      /\ own' = [own EXCEPT ![e] = [n \in Names |-> IF n \in order[e].own
                                                    THEN written(n, own[e][n]) ELSE own[e][n]]]
      /\ chosen' = [chosen EXCEPT ![e] = chosen[e] \cup new]
      /\ at' = [at EXCEPT ![e] = Following(k)] /\ order' = order /\ UNCHANGED parts
  BY DEF Adds, Goto
<1>4. new \subseteq Names
  BY ChoiceIsOfKind
<1>5. shared \in [Names -> Args] /\ own \in [Entities -> [Names -> Args]]
  BY DEF TypeOK
<1>. HIDE DEF new
<1>6. shared' \in [Names -> Args]
  BY <1>2, <1>3, <1>5
<1>7. own' \in [Entities -> [Names -> Args]]
  <2>1. [n \in Names |-> IF n \in order[e].own THEN written(n, own[e][n]) ELSE own[e][n]]
          \in [Names -> Args]
    BY <1>2, <1>5
  <2>. QED
    BY <1>3, <1>5, <2>1
<1>8. \A n \in Names :
        /\ shared'[n] = IF n \in order[e].own THEN shared[n] ELSE written(n, shared[n])
        /\ own'[e][n] = IF n \in order[e].own THEN written(n, own[e][n]) ELSE own[e][n]
  BY <1>3, <1>5
<1>9. \A f \in Entities : f # e => own'[f] = own[f]
  BY <1>3, <1>5
<1>10. \A n \in Names : n \notin new => shared'[n] = shared[n] /\ own'[e][n] = own[e][n]
  BY <1>8
<1>11. \A n \in new :
         IF n \in order[e].own THEN own'[e][n] = Written(e, k, n, own[e][n])
         ELSE shared'[n] = Written(e, k, n, shared[n]) /\ own'[e][n] = own[e][n]
  BY <1>4, <1>8
<1>. QED
  BY <1>1, <1>3, <1>6, <1>7, <1>9, <1>10, <1>11 DEF new

-----------------------------------------------------------------------------
(* Types                                                                   *)

LEMMA TypesAtFirst == Init => TypeOK
<1>1. NoArgs \in Args /\ "no" \in Stages
  BY DEF NoArgs, Args, Stages
<1>. QED
  BY <1>1, SetupAssumption DEF Init, TypeOK, Dictionaries, AtFirst, SetupAssumption

LEMMA GotoIsTyped ==
  ASSUME NEW stage \in Stages, NEW e, at \in [Entities -> Stages], Goto(e, stage)
  PROVE  at' \in [Entities -> Stages]
BY DEF Goto

LEMMA OrderTypes ==
  ASSUME TypeOK, NEW e \in Entities, NEW o \in Orders, Order(e, o)
  PROVE  TypeOK'
<1>1. at' \in [Entities -> Stages]
  BY GotoIsTyped DEF Order, TypeOK, Stages, Kinds
<1>2. order' \in [Entities -> Orders \cup {Nothing}]
  BY DEF Order, TypeOK
<1>. QED
  BY <1>1, <1>2 DEF Order, TypeOK, descriptions, parts

LEMMA AddTypes ==
  ASSUME TypeOK, InTurn, NEW e \in Entities, NEW k \in Kinds, Add(e, k)
  PROVE  TypeOK'
<1>1. At(e, k) /\ Following(k) \in Stages /\ "failed" \in Stages
  BY DEF Add, Following, Kinds, Stages
<1>2. at' \in [Entities -> Stages]
  BY <1>1, GotoIsTyped DEF Add, Adds, TypeOK
<1>3. CASE Adds(e, k)
  <2>1. /\ order[e] \in Orders /\ order' = order /\ UNCHANGED parts
        /\ chosen' = [chosen EXCEPT ![e] = chosen[e] \cup Choice(e, k)]
        /\ shared' \in [Names -> Args] /\ own' \in [Entities -> [Names -> Args]]
    BY <1>1, <1>3, AddsAre
  <2>2. chosen' \in [Entities -> SUBSET Names]
    BY <2>1, ChoiceIsOfKind DEF TypeOK
  <2>3. /\ dictionary' \in Dictionaries /\ trusted' \in [Dictionaries -> SUBSET Anchors]
        /\ given' \in [Entities -> SUBSET Anchors]
    <3>1. order[e].hand # "none" => order[e].anchors \in Dictionaries
      BY <2>1, OrderFields DEF Dictionaries
    <3>2. CASE /\ order[e].hand = "init" /\ dictionary' = order[e].anchors /\ UNCHANGED trusted
               /\ given' = [given EXCEPT ![e] = trusted[order[e].anchors]]
      BY <3>1, <3>2 DEF TypeOK
    <3>3. CASE UNCHANGED <<dictionary, trusted, given>>
      BY <3>3 DEF TypeOK
    <3>. QED
      BY <1>3, <3>2, <3>3 DEF Adds
  <2>. QED
    BY <1>2, <2>1, <2>2, <2>3 DEF TypeOK, parts
<1>4. CASE UNCHANGED <<descriptions, trusted, order, chosen, parts, given>>
  BY <1>2, <1>4 DEF TypeOK, descriptions, parts
<1>. QED
  BY <1>3, <1>4 DEF Add

LEMMA InstantiateTypes ==
  ASSUME TypeOK, NEW e \in Entities, Instantiate(e)
  PROVE  TypeOK'
<1>1. at' \in [Entities -> Stages]
  BY GotoIsTyped DEF Instantiate, TypeOK, Stages
<1>2. part' \in [Entities -> [Names -> Args \cup {Nothing}]]
  <2>1. [n \in Names |-> IF n \in chosen[e] THEN Description(e, n) ELSE Nothing]
          \in [Names -> Args \cup {Nothing}]
    BY DEF TypeOK, Description
  <2>. QED
    BY <2>1 DEF Instantiate, TypeOK, parts
<1>3. serves' \in [Entities -> SUBSET Names]
  BY DEF Instantiate, TypeOK, parts, EndpointsMade
<1>4. /\ holds' \in [Entities -> Dictionaries \cup {Nothing}]
      /\ keys' \in [Entities -> SUBSET Anchors]
  <2>1. /\ holds \in [Entities -> Dictionaries \cup {Nothing}] /\ dictionary \in Dictionaries
        /\ keys \in [Entities -> SUBSET Anchors] /\ trusted[dictionary] \subseteq Anchors
    BY DEF TypeOK
  <2>2. \/ UNCHANGED <<holds, keys>>
        \/ /\ holds' = [holds EXCEPT ![e] = dictionary]
           /\ keys' = [keys EXCEPT ![e] = trusted[dictionary]]
    BY DEF Instantiate, parts
  <2>. QED
    BY <2>1, <2>2
<1>. QED
  BY <1>1, <1>2, <1>3, <1>4 DEF Instantiate, TypeOK, descriptions

LEMMA AttachTypes ==
  ASSUME TypeOK, InTurn, NEW e \in Entities, Attach(e)
  PROVE  TypeOK'
<1>1. /\ order[e].hand # "none" => order[e].anchors \in Dictionaries
      /\ order[e].mark_endpoints \subseteq Names
  BY OrderFields DEF Attach, At, InTurn, Dictionaries
<1>2. at' \in [Entities -> Stages]
  BY GotoIsTyped DEF Attach, TypeOK, Stages
<1>3. serves' \in [Entities -> SUBSET Names]
  <2>1. \/ UNCHANGED serves
        \/ serves' = [serves EXCEPT ![e] = serves[e] \cup order[e].mark_endpoints]
    BY DEF Attach
  <2>2. serves \in [Entities -> SUBSET Names]
    BY DEF TypeOK
  <2>. QED
    BY <1>1, <2>1, <2>2
<1>4. /\ trusted' \in [Dictionaries -> SUBSET Anchors] /\ keys' \in [Entities -> SUBSET Anchors]
      /\ given' \in [Entities -> SUBSET Anchors]
      /\ holds' \in [Entities -> Dictionaries \cup {Nothing}]
  <2>1. /\ trusted \in [Dictionaries -> SUBSET Anchors] /\ keys \in [Entities -> SUBSET Anchors]
        /\ given \in [Entities -> SUBSET Anchors]
        /\ holds \in [Entities -> Dictionaries \cup {Nothing}]
    BY DEF TypeOK
  <2>2. CASE UNCHANGED <<trusted, holds, keys, given>>
    BY <2>1, <2>2
  <2>3. CASE Brings(e) /\ AttachAnchors(e)
    <3>1. order[e].anchors \in Dictionaries /\ trusted[order[e].anchors] \subseteq Anchors
      BY <1>1, <2>1, <2>3 DEF Brings
    <3>2. keys' = [keys EXCEPT ![e] = keys[e] \cup trusted[order[e].anchors]]
      BY <2>3 DEF AttachAnchors
    <3>3. \/ UNCHANGED <<trusted, holds, given>>
          \/ /\ UNCHANGED trusted /\ holds' = [holds EXCEPT ![e] = order[e].anchors]
             /\ given' = [given EXCEPT ![e] = trusted[order[e].anchors]]
      BY <2>3 DEF AttachAnchors, HandOver
    <3>. QED
      BY <2>1, <3>1, <3>2, <3>3
  <2>. QED
    BY <2>2, <2>3 DEF Attach
<1>. QED
  BY <1>2, <1>3, <1>4 DEF Attach, TypeOK, descriptions

LEMMA AddTrustAnchorTypes ==
  ASSUME TypeOK, NEW e \in Entities, NEW a \in Anchors, AddTrustAnchor(e, a)
  PROVE  TypeOK'
<1>1. /\ trusted' \in [Dictionaries -> SUBSET Anchors] /\ keys' \in [Entities -> SUBSET Anchors]
      /\ given' \in [Entities -> SUBSET Anchors]
  <2>1. /\ trusted \in [Dictionaries -> SUBSET Anchors] /\ keys \in [Entities -> SUBSET Anchors]
        /\ given \in [Entities -> SUBSET Anchors]
        /\ holds[e] # Nothing => holds[e] \in Dictionaries
    BY DEF TypeOK
  <2>2. keys' = [keys EXCEPT ![e] = keys[e] \cup {a}]
    BY DEF AddTrustAnchor
  <2>3. \/ UNCHANGED <<trusted, given>>
        \/ /\ holds[e] # Nothing
           /\ trusted' = [trusted EXCEPT ![holds[e]] = trusted[holds[e]] \cup {a}]
           /\ given' = [given EXCEPT ![e] = given[e] \cup {a}]
    BY DEF AddTrustAnchor
  <2>. QED
    BY <2>1, <2>2, <2>3
<1>. QED
  BY <1>1 DEF AddTrustAnchor, TypeOK, descriptions

-----------------------------------------------------------------------------
(* One entity is made at a time, and the others stay as they are           *)

\* What an entity has been made with so far does not change.
Stays(f) ==
  /\ at'[f] = at[f] /\ order'[f] = order[f] /\ chosen'[f] = chosen[f] /\ own'[f] = own[f]
  /\ part'[f] = part[f] /\ holds'[f] = holds[f] /\ keys'[f] = keys[f] /\ given'[f] = given[f]

LEMMA OthersWait ==
  ASSUME TypeOK, InTurn, NEW e \in Entities, Making(e), NEW f \in Entities, f # e
  PROVE  ~Busy(f) /\ Stays(f)
<1>1. CASE \E o \in Orders : Order(e, o)
  BY <1>1 DEF Order, Idle, Busy, Goto, Stays, descriptions, parts, TypeOK
<1>2. ASSUME NEW k \in Kinds, Add(e, k)
      PROVE  ~Busy(f) /\ Stays(f)
  <2>1. ~Busy(f)
    BY <1>2 DEF Add, At, Kinds, Busy, InTurn
  <2>2. CASE Adds(e, k)
    <3>1. own'[f] = own[f] /\ order' = order /\ UNCHANGED parts
      BY <1>2, <2>2, AddsAre DEF Add
    <3>2. at'[f] = at[f] /\ chosen'[f] = chosen[f]
      BY <2>2 DEF Adds, Goto, TypeOK
    <3>3. given'[f] = given[f]
      BY <2>2 DEF Adds, TypeOK
    <3>. QED
      BY <2>1, <3>1, <3>2, <3>3 DEF Stays, parts
  <2>3. CASE ~Adds(e, k)
    <3>1. UNCHANGED <<descriptions, order, chosen, parts, given>>
      BY <1>2, <2>3 DEF Add
    <3>2. at'[f] = at[f]
      BY <1>2, <2>3 DEF Add, Goto, TypeOK
    <3>. QED
      BY <2>1, <3>1, <3>2 DEF Stays, descriptions, parts
  <2>. QED
    BY <2>2, <2>3
<1>3. CASE Instantiate(e)
  <2>1. ~Busy(f)
    BY <1>3 DEF Instantiate, At, Busy, InTurn
  <2>2. at'[f] = at[f] /\ UNCHANGED <<descriptions, order, chosen, given>>
    BY <1>3 DEF Instantiate, Goto, TypeOK
  <2>3. part'[f] = part[f] /\ holds'[f] = holds[f] /\ keys'[f] = keys[f]
    BY <1>3 DEF Instantiate, parts, TypeOK
  <2>. QED
    BY <2>1, <2>2, <2>3 DEF Stays, descriptions
<1>4. CASE Attach(e)
  <2>1. ~Busy(f)
    BY <1>4 DEF Attach, At, Busy, InTurn
  <2>2. at'[f] = at[f] /\ UNCHANGED <<descriptions, order, chosen, part>>
    BY <1>4 DEF Attach, Goto, TypeOK
  <2>3. given'[f] = given[f] /\ holds'[f] = holds[f] /\ keys'[f] = keys[f]
    BY <1>4 DEF Attach, AttachAnchors, HandOver, TypeOK
  <2>. QED
    BY <2>1, <2>2, <2>3 DEF Stays, descriptions
<1>. QED
  BY <1>1, <1>2, <1>3, <1>4 DEF Making

LEMMA TurnsStay ==
  ASSUME TypeOK, InTurn, NEW e \in Entities, Making(e)
  PROVE  InTurn'
<1>1. \A f \in Entities : f # e => ~Busy(f) /\ Stays(f)
  BY OthersWait
<1>2. ASSUME NEW f \in Entities, NEW g \in Entities, Busy(f)', Busy(g)'
      PROVE  f = g
  BY <1>1, <1>2 DEF Busy, Stays
<1>3. order'[e] \in Orders
  <2>1. CASE \E o \in Orders : Order(e, o)
    BY <2>1 DEF Order, TypeOK
  <2>2. CASE \E k \in Kinds : Add(e, k)
    BY <2>2 DEF Add, Adds, At, Kinds, InTurn
  <2>3. CASE Instantiate(e)
    BY <2>3 DEF Instantiate, At, InTurn
  <2>4. CASE Attach(e)
    BY <2>4 DEF Attach, At, InTurn
  <2>. QED
    BY <2>1, <2>2, <2>3, <2>4 DEF Making
<1>4. ASSUME NEW f \in Entities, ~At(f, "no")'
      PROVE  order'[f] \in Orders
  BY <1>1, <1>3, <1>4 DEF At, Stays, InTurn
<1>. QED
  BY <1>2, <1>4 DEF InTurn

-----------------------------------------------------------------------------
(* Arguments                                                               *)

LEMMA OthersKeepTheirs ==
  ASSUME TypeOK, InTurn, NotYet, Heeded, NEW e \in Entities, Making(e),
         NEW f \in Entities, f # e
  PROVE  NotYetFor(f)' /\ HeededFor(f)'
<1>1. ~Busy(f) /\ Stays(f)
  BY OthersWait
<1>2. NotYetFor(f) /\ HeededFor(f)
  BY DEF NotYet, Heeded
<1>3. NotYetFor(f)'
  BY <1>1, <1>2 DEF NotYetFor, ToCome, Stays
<1>4. HeededFor(f)'
  <2>1. at'[f] = at[f] /\ at[f] \notin Kinds \cup {"instantiate"}
    BY <1>1 DEF Busy, Kinds, Stays
  <2>2. /\ chosen'[f] = chosen[f] /\ part'[f] = part[f]
        /\ \A n, p : Wants(f, n, p)' = Wants(f, n, p) /\ Wanted(f, n, p)' = Wanted(f, n, p)
    BY <1>1 DEF Stays, Wants, Wanted
  <2>. QED
    BY <1>2, <2>1, <2>2 DEF HeededFor
<1>. QED
  BY <1>3, <1>4

LEMMA OrderIsHeeded ==
  ASSUME TypeOK, NotYet, NEW e \in Entities, NEW o \in Orders, Order(e, o)
  PROVE  NotYetFor(e)' /\ HeededFor(e)'
<1>1. at[e] = "no" /\ at'[e] = "service" /\ chosen' = chosen /\ own' = own
  BY DEF Order, At, Goto, TypeOK, descriptions
<1>2. NotYetFor(e)
  BY DEF NotYet
<1>3. NotYetFor(e)'
  BY <1>1, <1>2 DEF NotYetFor, ToCome
<1>4. chosen'[e] = {}
  <2>1. \A n \in Names : n \notin chosen[e]
    BY <1>1, <1>2 DEF NotYetFor, ToCome, Names
  <2>. QED
    BY <1>1, <2>1 DEF TypeOK
<1>5. HeededFor(e)'
  BY <1>4 DEF HeededFor
<1>. QED
  BY <1>3, <1>5

\* What comes after a kind is less than what came before.
LEMMA LessToCome ==
  ASSUME TypeOK, NEW e \in Entities, NEW k \in Kinds, At(e, k), Add(e, k)
  PROVE  /\ k \in ToCome(e) /\ ToCome(e)' \subseteq ToCome(e) \ {k} /\ ToCome(e) \subseteq Kinds
         /\ at'[e] \in {Following(k), "failed"}
<1>1. at'[e] \in {Following(k), "failed"}
  BY DEF Add, Adds, Goto, TypeOK
<1>2. at[e] = k
  BY DEF At
<1>. QED
  BY <1>1, <1>2 DEF ToCome, Following, Kinds

LEMMA AddIsHeeded ==
  ASSUME TypeOK, InTurn, NotYet, Heeded, NEW e \in Entities, NEW k \in Kinds, Add(e, k)
  PROVE  NotYetFor(e)' /\ HeededFor(e)'
<1>1. /\ k \in ToCome(e) /\ ToCome(e)' \subseteq ToCome(e) \ {k} /\ ToCome(e) \subseteq Kinds
      /\ at'[e] \in {Following(k), "failed"} /\ At(e, k) /\ at[e] = k
  BY LessToCome DEF Add, At
<1>2. NotYetFor(e) /\ HeededFor(e)
  BY DEF NotYet, Heeded
<1>3. at'[e] \notin {"attach", "made"}
  BY <1>1 DEF Following, Kinds
<1>4. CASE ~Adds(e, k)
  <2>1. UNCHANGED <<shared, own, order, chosen, part>>
    BY <1>4 DEF Add, descriptions, parts
  <2>2. NotYetFor(e)'
    BY <1>1, <1>2, <2>1 DEF NotYetFor
  <2>3. HeededFor(e)'
    BY <1>1, <1>2, <1>3, <2>1 DEF HeededFor, Wants, Wanted, Description
  <2>. QED
    BY <2>2, <2>3
<1>5. CASE Adds(e, k)
  <2>1. /\ order[e] \in Orders /\ order' = order /\ UNCHANGED parts
        /\ chosen' = [chosen EXCEPT ![e] = chosen[e] \cup Choice(e, k)]
        /\ \A n \in Names : n \notin Choice(e, k) => shared'[n] = shared[n] /\ own'[e][n] = own[e][n]
        /\ \A n \in Choice(e, k) :
             IF n \in order[e].own THEN own'[e][n] = Written(e, k, n, own[e][n])
             ELSE shared'[n] = Written(e, k, n, shared[n]) /\ own'[e][n] = own[e][n]
    BY <1>1, <1>5, AddsAre
  <2>2. chosen'[e] = chosen[e] \cup Choice(e, k) /\ chosen[e] \subseteq Names
    BY <2>1 DEF TypeOK
  <2>3. Choice(e, k) \subseteq Items[k] /\ Choice(e, k) \subseteq Names
    BY ChoiceIsOfKind
  <2>4. \A n \in Choice(e, k) : n \notin chosen[e] /\ own[e][n] = NoArgs
    BY <1>1, <1>2, <2>3 DEF NotYetFor
  <2>5. NotYetFor(e)'
    <3>. SUFFICES ASSUME NEW l \in ToCome(e)', NEW n \in Items[l]
                  PROVE  n \notin chosen'[e] /\ own'[e][n] = NoArgs
      BY DEF NotYetFor
    <3>1. l \in Kinds /\ l # k /\ n \notin chosen[e] /\ own[e][n] = NoArgs
      BY <1>1, <1>2 DEF NotYetFor
    <3>2. n \in Names /\ n \notin Choice(e, k)
      BY <2>3, <3>1, KindsApart
    <3>. QED
      BY <2>1, <2>2, <3>1, <3>2
  <2>6. HeededFor(e)'
    <3>. SUFFICES ASSUME NEW n \in chosen'[e], NEW p \in Params, Wants(e, n, p)'
                  PROVE  Description(e, n)'[p] = Wanted(e, n, p)
      BY <1>3, <2>1 DEF HeededFor, Wanted
    <3>1. Wants(e, n, p)
      BY <2>1 DEF Wants, Wanted
    <3>2. CASE n \notin Choice(e, k)
      <4>1. n \in chosen[e] /\ n \in Names
        BY <2>2, <3>2
      <4>2. Description(e, n)' = Description(e, n)
        BY <2>1, <3>2, <4>1 DEF Description
      <4>. QED
        BY <1>1, <1>2, <3>1, <4>1, <4>2 DEF HeededFor
    <3>3. CASE n \in Choice(e, k) /\ n \in order[e].own
      <4>1. Description(e, n)' = Written(e, k, n, NoArgs)
        BY <2>1, <2>4, <3>3 DEF Description
      <4>2. NoArgs \in Args
        BY DEF NoArgs, Args
      <4>. QED
        BY <2>1, <2>3, <3>3, <4>1, <4>2, WrittenIsWanted
    <3>4. CASE n \in Choice(e, k) /\ n \notin order[e].own
      <4>1. Description(e, n)' = Written(e, k, n, shared[n])
        BY <2>1, <3>4 DEF Description
      <4>2. shared[n] \in Args /\ Wanted(e, n, p) # Nothing
        BY <2>3, <3>1, <3>4 DEF TypeOK, Wants
      <4>. QED
        BY <2>1, <2>3, <3>4, <4>1, <4>2, WrittenIsWanted
    <3>. QED
      BY <3>2, <3>3, <3>4
  <2>. QED
    BY <2>5, <2>6
<1>. QED
  BY <1>4, <1>5

LEMMA InstantiateIsHeeded ==
  ASSUME TypeOK, NotYet, Heeded, NEW e \in Entities, Instantiate(e)
  PROVE  NotYetFor(e)' /\ HeededFor(e)'
<1>1. /\ at[e] = "instantiate" /\ UNCHANGED <<shared, own, order, chosen>>
      /\ at'[e] \in {"attach", "failed"}
  BY DEF Instantiate, At, Goto, TypeOK, descriptions
<1>2. NotYetFor(e)'
  BY <1>1 DEF NotYetFor, ToCome, Kinds
<1>3. ASSUME at'[e] = "attach", NEW n \in chosen'[e], NEW p \in Params, Wants(e, n, p)'
      PROVE  part'[e][n][p] = Wanted(e, n, p)'
  <2>1. part'[e] = [m \in Names |-> IF m \in chosen[e] THEN Description(e, m) ELSE Nothing]
    BY <1>1, <1>3 DEF Instantiate, Goto, TypeOK
  <2>2. n \in chosen[e] /\ n \in Names /\ Wants(e, n, p) /\ Wanted(e, n, p)' = Wanted(e, n, p)
    BY <1>1, <1>3 DEF TypeOK, Wants, Wanted
  <2>3. Description(e, n)[p] = Wanted(e, n, p)
    BY <1>1, <2>2 DEF Heeded, HeededFor
  <2>. QED
    BY <2>1, <2>2, <2>3
<1>. QED
  BY <1>1, <1>2, <1>3 DEF HeededFor, Kinds

LEMMA AttachIsHeeded ==
  ASSUME TypeOK, NotYet, Heeded, NEW e \in Entities, Attach(e)
  PROVE  NotYetFor(e)' /\ HeededFor(e)'
<1>1. /\ at[e] = "attach" /\ UNCHANGED <<order, chosen, part>>
      /\ at'[e] \in {"made", "failed"}
  BY DEF Attach, At, Goto, TypeOK
<1>2. HeededFor(e)
  BY DEF Heeded
<1>. QED
  BY <1>1, <1>2 DEF NotYetFor, ToCome, Kinds, HeededFor, Wants, Wanted

-----------------------------------------------------------------------------
(* An entity's components have the arguments its caller asked for          *)

HeedInv == TypeOK /\ InTurn /\ NotYet /\ Heeded

LEMMA HeedInvAtFirst == Init => HeedInv
<1>. SUFFICES ASSUME Init
              PROVE  HeedInv
  OBVIOUS
<1>1. \A e \in Entities : /\ at[e] = "no" /\ chosen[e] = {}
                          /\ \A n \in Names : own[e][n] = NoArgs
  BY DEF Init
<1>2. \A k \in Kinds : Items[k] \subseteq Names
  BY DEF Names
<1>3. NotYet
  BY <1>1, <1>2 DEF NotYet, NotYetFor, ToCome
<1>4. InTurn /\ Heeded
  BY <1>1 DEF InTurn, Busy, At, Heeded, HeededFor
<1>. QED
  BY <1>3, <1>4, TypesAtFirst DEF HeedInv

LEMMA HeedInvStays == HeedInv /\ [Next]_vars => HeedInv'
<1>. SUFFICES ASSUME HeedInv, [Next]_vars
              PROVE  HeedInv'
  OBVIOUS
<1>. USE DEF HeedInv
<1>1. ASSUME NEW e \in Entities, Making(e)
      PROVE  HeedInv'
  <2>1. TypeOK' /\ NotYetFor(e)' /\ HeededFor(e)'
    <3>1. CASE \E o \in Orders : Order(e, o)
      BY <3>1, OrderTypes, OrderIsHeeded
    <3>2. CASE \E k \in Kinds : Add(e, k)
      BY <3>2, AddTypes, AddIsHeeded
    <3>3. CASE Instantiate(e)
      BY <3>3, InstantiateTypes, InstantiateIsHeeded
    <3>4. CASE Attach(e)
      BY <3>4, AttachTypes, AttachIsHeeded
    <3>. QED
      BY <1>1, <3>1, <3>2, <3>3, <3>4 DEF Making
  <2>2. InTurn'
    BY <1>1, TurnsStay
  <2>3. \A f \in Entities : f # e => NotYetFor(f)' /\ HeededFor(f)'
    BY <1>1, OthersKeepTheirs
  <2>. QED
    BY <2>1, <2>2, <2>3 DEF NotYet, Heeded
<1>2. ASSUME NEW e \in Entities, NEW a \in Anchors, AddTrustAnchor(e, a)
      PROVE  HeedInv'
  <2>1. TypeOK' /\ UNCHANGED <<shared, own, at, order, chosen, part>>
    BY <1>2, AddTrustAnchorTypes DEF AddTrustAnchor, descriptions
  <2>2. InTurn'
    BY <2>1 DEF InTurn, Busy, At
  <2>3. NotYet'
    BY <2>1 DEF NotYet, NotYetFor, ToCome
  <2>4. Heeded'
    BY <2>1 DEF Heeded, HeededFor, Wants, Wanted, Description
  <2>. QED
    BY <2>1, <2>2, <2>3, <2>4
<1>3. CASE UNCHANGED vars
  <2>. USE <1>3 DEF vars, descriptions, parts
  <2>1. TypeOK' /\ InTurn'
    BY DEF TypeOK, InTurn, Busy, At
  <2>2. NotYet' /\ Heeded'
    BY DEF NotYet, NotYetFor, ToCome, Heeded, HeededFor, Wants, Wanted, Description
  <2>. QED
    BY <2>1, <2>2
<1>. QED
  BY <1>1, <1>2, <1>3 DEF Next

\* The variables have their types, whatever is ordered and in whatever order entities are made.
THEOREM SetupTypes == Spec => []TypeOK
<1>1. HeedInv => TypeOK
  BY DEF HeedInv
<1>. QED
  BY <1>1, HeedInvAtFirst, HeedInvStays, PTL DEF Spec

\* The components of an entity have the arguments its own caller asked for, whatever the
\* callers of other entities wrote into the descriptions the entities share.
THEOREM ArgumentsReachTheirEntity == Spec => []ArgumentsAreHeeded
<1>1. HeedInv => ArgumentsAreHeeded
  BY DEF HeedInv, Heeded, HeededFor, ArgumentsAreHeeded, Made, Wants
<1>. QED
  BY <1>1, HeedInvAtFirst, HeedInvStays, PTL DEF Spec

-----------------------------------------------------------------------------
(* Trust anchors                                                           *)

AnchorInv == HeedInv /\ Collected /\ Handed /\ TrustedIsGiven

LEMMA CollectorIsFunction == Collector \in Names /\ \A k \in Kinds : Collector \in Items[k] <=> k = "function"
BY SetupAssumption, KindsApart DEF SetupAssumption, Kinds

\* An entity has no collector before the functions are added.
LEMMA NoneTakenYet ==
  ASSUME NotYet, NEW e \in Entities, at[e] \in {"no", "service", "function"}
  PROVE  Collector \notin chosen[e] /\ ~Took(e)
<1>1. "function" \in ToCome(e)
  BY DEF ToCome, Kinds
<1>. QED
  BY <1>1, CollectorIsFunction DEF NotYet, NotYetFor, Took, Kinds

\* A step of e that gives no trust anchors and makes no collector.
LEMMA QuietStep ==
  ASSUME Collected, Handed, TrustedIsGiven,
         UNCHANGED <<dictionary, trusted, holds, given>>,
         \A f \in Entities :
           /\ Took(f)' <=> Took(f)
           /\ Took(f) => order'[f] = order[f]
           /\ chosen[f] \subseteq chosen'[f] /\ keys[f] \subseteq keys'[f]
           /\ Took(f) /\ at'[f] \in {"endpoint", "instantiate"} => at[f] \in {"endpoint", "instantiate"}
           /\ at'[f] \in Kinds \cup {"no", "instantiate"} => at[f] \in Kinds \cup {"no", "instantiate"}
           /\ at'[f] = "attach" => at[f] \in {"attach", "instantiate"}
           /\ at'[f] = "made" /\ order'[f].hand = "make" /\ Contents[order'[f].anchors] # {} =>
                holds[f] \in {order'[f].anchors, Nothing}
  PROVE  Collected' /\ Handed' /\ TrustedIsGiven'
<1>1. Collected'
  BY DEF Collected
<1>2. Handed'
  <2>. SUFFICES ASSUME NEW f \in Entities
                PROVE  (/\ Took(f) /\ at[f] \in {"endpoint", "instantiate"} =>
                             dictionary = order[f].anchors /\ given[f] \subseteq trusted[dictionary]
                        /\ Took(f) => holds[f] \in {order[f].anchors, Nothing}
                        /\ Made(f) /\ order[f].hand = "make" /\ Contents[order[f].anchors] # {} =>
                             holds[f] \in {order[f].anchors, Nothing})'
    BY DEF Handed
  <2>1. (Took(f) => holds[f] \in {order[f].anchors, Nothing})'
    BY DEF Handed
  <2>2. (Took(f) /\ at[f] \in {"endpoint", "instantiate"} =>
           dictionary = order[f].anchors /\ given[f] \subseteq trusted[dictionary])'
    BY DEF Handed
  <2>. QED
    BY <2>1, <2>2 DEF Made
<1>3. TrustedIsGiven'
  BY DEF TrustedIsGiven, Holders
<1>. QED
  BY <1>1, <1>2, <1>3

LEMMA OrderKeepsAnchors ==
  ASSUME AnchorInv, NEW e \in Entities, NEW o \in Orders, Order(e, o)
  PROVE  Collected' /\ Handed' /\ TrustedIsGiven'
<1>. USE DEF AnchorInv, HeedInv
<1>1. /\ at[e] = "no" /\ at' = [at EXCEPT ![e] = "service"] /\ order' = [order EXCEPT ![e] = o]
      /\ UNCHANGED <<dictionary, trusted, holds, given, keys, chosen>>
  BY DEF Order, At, Goto, descriptions, parts
<1>2. Collector \notin chosen[e] /\ ~Took(e)
  BY <1>1, NoneTakenYet
<1>3. \A f \in Entities : f # e => at'[f] = at[f] /\ order'[f] = order[f]
  BY <1>1 DEF TypeOK
<1>4. \A f \in Entities : (Took(f)' <=> Took(f)) /\ (Took(f) => order'[f] = order[f])
  BY <1>1, <1>2, <1>3 DEF Took
<1>5. at'[e] = "service"
  BY <1>1 DEF TypeOK
<1>6. \A f \in Entities :
        at'[f] = "made" /\ order'[f].hand = "make" /\ Contents[order'[f].anchors] # {} =>
          holds[f] \in {order'[f].anchors, Nothing}
  BY <1>3, <1>5 DEF Handed, Made
<1>. QED
  BY <1>1, <1>3, <1>4, <1>5, <1>6, QuietStep DEF Kinds

\* The functions of e are added with a dictionary of trust anchors that its caller brings.
LEMMA BringingKeepsAnchors ==
  ASSUME AnchorInv, NEW e \in Entities, NEW k \in Kinds, At(e, k), Adds(e, k),
         Collector \in Choice(e, k), order[e].hand = "init"
  PROVE  Collected' /\ Handed' /\ TrustedIsGiven'
<1>. USE DEF AnchorInv, HeedInv
<1>1. k = "function"
  BY ChoiceIsOfKind, CollectorIsFunction
<1>2. /\ dictionary' = order[e].anchors /\ given' = [given EXCEPT ![e] = trusted[order[e].anchors]]
      /\ order' = order /\ UNCHANGED <<trusted, holds, keys>>
      /\ at' = [at EXCEPT ![e] = "endpoint"]
      /\ chosen' = [chosen EXCEPT ![e] = chosen[e] \cup Choice(e, k)]
  BY <1>1 DEF Adds, Goto, Following, parts
<1>3. at[e] = "function" /\ ~Took(e) /\ holds[e] = Nothing /\ order[e] # Nothing
  <2>1. at[e] = "function" /\ order[e] \in Orders
    BY <1>1 DEF At, InTurn
  <2>. QED
    BY <2>1, NoneTakenYet, OrderFields DEF Collected, Kinds
<1>4. \A f \in Entities : f # e => /\ at'[f] = at[f] /\ chosen'[f] = chosen[f] /\ given'[f] = given[f]
                                  /\ ~Busy(f) /\ (Took(f)' <=> Took(f))
  <2>1. \A f \in Entities : f # e => ~Busy(f)
    BY <1>3 DEF InTurn, Busy
  <2>. QED
    BY <1>2, <2>1 DEF TypeOK, Took
<1>5. /\ at'[e] = "endpoint" /\ chosen'[e] = chosen[e] \cup Choice(e, k)
      /\ given'[e] = trusted[order[e].anchors]
  BY <1>2 DEF TypeOK
<1>6. Took(e)'
  BY <1>2, <1>3, <1>5 DEF Took
<1>7. Collected'
  BY <1>2, <1>3, <1>4, <1>5, <1>6 DEF Collected
<1>8. Handed'
  BY <1>2, <1>3, <1>4, <1>5 DEF Handed, Busy, Made
<1>9. TrustedIsGiven'
  <2>1. ASSUME NEW d \in Dictionaries
        PROVE  trusted'[d] = AtFirst(d) \cup UNION {given'[f] : f \in Holders(d)'}
    <3>1. Holders(d)' = Holders(d)
      BY <1>2 DEF Holders
    <3>2. \A f \in Holders(d) : given'[f] = given[f]
      BY <1>3, <1>4, SetupAssumption DEF Holders, SetupAssumption
    <3>3. trusted[d] = AtFirst(d) \cup UNION {given[f] : f \in Holders(d)}
      BY DEF TrustedIsGiven
    <3>. QED
      BY <1>2, <3>1, <3>2, <3>3
  <2>2. (\A f \in Entities : holds[f] # Nothing => given[f] \subseteq keys[f])'
    BY <1>2, <1>3, <1>4 DEF TrustedIsGiven
  <2>. QED
    BY <2>1, <2>2 DEF TrustedIsGiven, Holders
<1>. QED
  BY <1>7, <1>8, <1>9

LEMMA AddKeepsAnchors ==
  ASSUME AnchorInv, NEW e \in Entities, NEW k \in Kinds, Add(e, k)
  PROVE  Collected' /\ Handed' /\ TrustedIsGiven'
<1>. USE DEF AnchorInv, HeedInv
<1>1. at[e] = k /\ at'[e] \in {Following(k), "failed"} /\ At(e, k)
  BY LessToCome DEF Add, At
<1>2. \A f \in Entities : f # e => at'[f] = at[f]
  BY DEF Add, Adds, Goto, TypeOK
<1>3. CASE Adds(e, k) /\ Collector \in Choice(e, k) /\ order[e].hand = "init"
  BY <1>1, <1>3, BringingKeepsAnchors
<1>4. CASE ~(Adds(e, k) /\ Collector \in Choice(e, k) /\ order[e].hand = "init")
  <2>1. UNCHANGED <<dictionary, trusted, given, order, holds, keys>>
    BY <1>4 DEF Add, Adds, descriptions, parts
  <2>2. /\ chosen'[e] = chosen[e] \/ (Adds(e, k) /\ chosen'[e] = chosen[e] \cup Choice(e, k))
        /\ \A f \in Entities : f # e => chosen'[f] = chosen[f]
    BY DEF Add, Adds, TypeOK
  <2>3. \A f \in Entities : (Took(f)' <=> Took(f)) /\ chosen[f] \subseteq chosen'[f]
    BY <1>4, <2>1, <2>2 DEF Took
  <2>4. Took(e) => k = "endpoint"
    BY <1>1, NoneTakenYet DEF Kinds
  <2>5. \A f \in Entities :
           /\ Took(f) /\ at'[f] \in {"endpoint", "instantiate"} => at[f] \in {"endpoint", "instantiate"}
           /\ at'[f] \in Kinds \cup {"no", "instantiate"} => at[f] \in Kinds \cup {"no", "instantiate"}
           /\ at'[f] = "attach" => at[f] \in {"attach", "instantiate"}
           /\ at'[f] = "made" => at[f] = "made"
    BY <1>1, <1>2, <2>4 DEF Following, Kinds
  <2>6. \A f \in Entities :
          at'[f] = "made" /\ order'[f].hand = "make" /\ Contents[order'[f].anchors] # {} =>
            holds[f] \in {order'[f].anchors, Nothing}
    BY <2>1, <2>5 DEF Handed, Made
  <2>. QED
    BY <2>1, <2>3, <2>5, <2>6, QuietStep
<1>. QED
  BY <1>3, <1>4

\* The collector of e is made.
LEMMA InstantiateKeepsAnchors ==
  ASSUME AnchorInv, NEW e \in Entities, Instantiate(e)
  PROVE  Collected' /\ Handed' /\ TrustedIsGiven'
<1>. USE DEF AnchorInv, HeedInv
<1>1. /\ at[e] = "instantiate" /\ UNCHANGED <<dictionary, trusted, given, order, chosen>>
      /\ at'[e] \in {"attach", "failed"} /\ \A f \in Entities : f # e => at'[f] = at[f]
  BY DEF Instantiate, At, Goto, TypeOK, descriptions
<1>2. \A f \in Entities : Took(f)' <=> Took(f)
  BY <1>1 DEF Took
<1>3. CASE UNCHANGED <<holds, keys>>
  <2>1. \A f \in Entities :
          at'[f] = "made" /\ order'[f].hand = "make" /\ Contents[order'[f].anchors] # {} =>
            holds[f] \in {order'[f].anchors, Nothing}
    BY <1>1 DEF Handed, Made
  <2>. QED
    BY <1>1, <1>2, <1>3, <2>1, QuietStep DEF Kinds
<1>4. CASE /\ holds' = [holds EXCEPT ![e] = dictionary] /\ Collector \in chosen[e]
           /\ keys' = [keys EXCEPT ![e] = trusted[dictionary]]
  <2>1. /\ holds'[e] = dictionary /\ keys'[e] = trusted[dictionary] /\ holds[e] = Nothing
        /\ \A f \in Entities : f # e => holds'[f] = holds[f] /\ keys'[f] = keys[f]
    BY <1>1, <1>4 DEF TypeOK, Collected
  <2>2. Took(e) => dictionary = order[e].anchors
    BY <1>1 DEF Handed
  <2>3. given[e] \subseteq trusted[dictionary]
    BY <1>1 DEF Handed, Collected
  <2>4. Collected'
    BY <1>1, <1>2, <1>4, <2>1 DEF Collected, Kinds
  <2>5. Handed'
    BY <1>1, <1>2, <2>1, <2>2 DEF Handed, Made
  <2>6. TrustedIsGiven'
    <3>1. ASSUME NEW d \in Dictionaries
          PROVE  trusted[d] = AtFirst(d) \cup UNION {given[f] : f \in Holders(d)'}
      <4>1. trusted[d] = AtFirst(d) \cup UNION {given[f] : f \in Holders(d)}
        BY DEF TrustedIsGiven
      <4>2. CASE d = dictionary
        <5>1. Holders(d)' = Holders(d) \cup {e}
          BY <2>1, <4>2 DEF Holders
        <5>2. UNION {given[f] : f \in Holders(d) \cup {e}}
                = (UNION {given[f] : f \in Holders(d)}) \cup given[e]
          OBVIOUS
        <5>. QED
          BY <2>3, <4>1, <4>2, <5>1, <5>2
      <4>3. CASE d # dictionary
        <5>1. Holders(d)' = Holders(d)
          BY <2>1, <4>3, SetupAssumption DEF Holders, SetupAssumption
        <5>. QED
          BY <4>1, <5>1
      <4>. QED
        BY <4>2, <4>3
    <3>2. (\A f \in Entities : holds[f] # Nothing => given[f] \subseteq keys[f])'
      BY <1>1, <2>1, <2>3 DEF TrustedIsGiven
    <3>. QED
      BY <1>1, <3>1, <3>2 DEF TrustedIsGiven
  <2>. QED
    BY <2>4, <2>5, <2>6
<1>. QED
  BY <1>3, <1>4 DEF Instantiate, parts

\* The collector of e gets the dictionary that e's caller hands over.
LEMMA AttachKeepsAnchors ==
  ASSUME AnchorInv, NEW e \in Entities, Attach(e)
  PROVE  Collected' /\ Handed' /\ TrustedIsGiven'
<1>. USE DEF AnchorInv, HeedInv
<1>1. /\ at[e] = "attach" /\ UNCHANGED <<dictionary, order, chosen>>
      /\ at'[e] \in {"made", "failed"} /\ \A f \in Entities : f # e => at'[f] = at[f]
  BY DEF Attach, At, Goto, TypeOK, descriptions
<1>2. \A f \in Entities : Took(f)' <=> Took(f)
  BY <1>1 DEF Took
<1>3. order[e] \in Orders
  BY <1>1 DEF InTurn, At
<1>4. \A f \in Entities : keys[f] \subseteq keys'[f]
  <2>1. keys' = [keys EXCEPT ![e] = keys[e] \cup trusted[order[e].anchors]] \/ UNCHANGED keys
    BY DEF Attach, AttachAnchors
  <2>. QED
    BY <2>1 DEF TypeOK
<1>5. CASE ~(Brings(e) /\ Collector \in chosen[e])
  <2>1. UNCHANGED <<trusted, holds, given>> /\ (Brings(e) => at'[e] = "failed")
    BY <1>5 DEF Attach, AttachAnchors, Goto, TypeOK
  <2>2. order[e].hand = "make" /\ Contents[order[e].anchors] # {} => Brings(e)
    <3>. SUFFICES ASSUME order[e].hand = "make", Contents[order[e].anchors] # {}
                  PROVE  trusted[order[e].anchors] # {}
      BY DEF Brings
    <3>1. order[e].anchors \in Dictionaries /\ order[e].anchors # Standard
      BY <1>3, OrderFields DEF Dictionaries
    <3>2. Contents[order[e].anchors] \subseteq trusted[order[e].anchors]
      BY <3>1 DEF TrustedIsGiven, AtFirst
    <3>. QED
      BY <3>2
  <2>3. \A f \in Entities :
          at'[f] = "made" /\ order'[f].hand = "make" /\ Contents[order'[f].anchors] # {} =>
            holds[f] \in {order'[f].anchors, Nothing}
    BY <1>1, <2>1, <2>2 DEF Handed, Made
  <2>. QED
    BY <1>1, <1>2, <1>4, <2>1, <2>3, QuietStep DEF Kinds
<1>6. CASE Brings(e) /\ Collector \in chosen[e]
  <2>. DEFINE brought == order[e].anchors
  <2>1. /\ UNCHANGED trusted /\ holds' = [holds EXCEPT ![e] = brought]
        /\ given' = [given EXCEPT ![e] = trusted[brought]]
        /\ keys' = [keys EXCEPT ![e] = keys[e] \cup trusted[brought]]
    BY <1>6 DEF Attach, AttachAnchors, HandOver
  <2>2. /\ holds'[e] = brought /\ given'[e] = trusted[brought] /\ given'[e] \subseteq keys'[e]
        /\ \A f \in Entities : f # e =>
             holds'[f] = holds[f] /\ given'[f] = given[f] /\ keys'[f] = keys[f]
    BY <2>1 DEF TypeOK
  <2>3. ~Took(e) /\ given[e] = {}
    BY <1>1, <1>6 DEF Took, Collected, Brings
  <2>4. Collected'
    BY <1>1, <1>2, <1>6, <2>2 DEF Collected, Kinds
  <2>5. Handed'
    BY <1>1, <1>2, <2>1, <2>2, <2>3 DEF Handed, Made
  <2>6. TrustedIsGiven'
    <3>1. ASSUME NEW d \in Dictionaries
          PROVE  trusted[d] = AtFirst(d) \cup UNION {given'[f] : f \in Holders(d)'}
      <4>. HIDE DEF brought
      <4>1. trusted[d] = AtFirst(d) \cup UNION {given[f] : f \in Holders(d)}
        BY DEF TrustedIsGiven
      <4>2. UNION {given[f] : f \in Holders(d)} = UNION {given'[f] : f \in Holders(d) \ {e}}
        <5>1. \A f \in Holders(d) \ {e} : given'[f] = given[f]
          BY <2>2 DEF Holders
        <5>. QED
          BY <2>3, <5>1
      <4>3. CASE d = brought
        <5>1. Holders(d)' = (Holders(d) \ {e}) \cup {e}
          BY <2>2, <4>3 DEF Holders
        <5>2. UNION {given'[f] : f \in (Holders(d) \ {e}) \cup {e}}
                = (UNION {given'[f] : f \in Holders(d) \ {e}}) \cup given'[e]
          OBVIOUS
        <5>. QED
          BY <2>2, <4>1, <4>2, <4>3, <5>1, <5>2
      <4>4. CASE d # brought
        <5>1. Holders(d)' = Holders(d) \ {e}
          BY <2>2, <4>4 DEF Holders
        <5>. QED
          BY <4>1, <4>2, <5>1
      <4>. QED
        BY <4>3, <4>4
    <3>2. (\A f \in Entities : holds[f] # Nothing => given[f] \subseteq keys[f])'
      BY <2>2 DEF TrustedIsGiven
    <3>. QED
      BY <2>1, <3>1, <3>2 DEF TrustedIsGiven
  <2>. QED
    BY <2>4, <2>5, <2>6
<1>. QED
  BY <1>5, <1>6

LEMMA AddTrustAnchorKeepsAnchors ==
  ASSUME AnchorInv, NEW e \in Entities, NEW a \in Anchors, AddTrustAnchor(e, a)
  PROVE  Collected' /\ Handed' /\ TrustedIsGiven'
<1>. USE DEF AnchorInv, HeedInv
<1>1. /\ at[e] = "made" /\ UNCHANGED <<dictionary, order, chosen, at, holds>>
      /\ keys' = [keys EXCEPT ![e] = keys[e] \cup {a}]
  BY DEF AddTrustAnchor, At, descriptions
<1>2. \A f \in Entities : (Took(f)' <=> Took(f)) /\ keys[f] \subseteq keys'[f]
  BY <1>1 DEF Took, TypeOK
<1>3. CASE holds[e] = Nothing
  <2>1. UNCHANGED <<trusted, given>>
    BY <1>3 DEF AddTrustAnchor
  <2>2. \A f \in Entities :
          at'[f] = "made" /\ order'[f].hand = "make" /\ Contents[order'[f].anchors] # {} =>
            holds[f] \in {order'[f].anchors, Nothing}
    BY <1>1 DEF Handed, Made
  <2>. QED
    BY <1>1, <1>2, <2>1, <2>2, QuietStep
<1>4. CASE holds[e] # Nothing
  <2>1. /\ trusted' = [trusted EXCEPT ![holds[e]] = trusted[holds[e]] \cup {a}]
        /\ given' = [given EXCEPT ![e] = given[e] \cup {a}]
    BY <1>4 DEF AddTrustAnchor
  <2>2. /\ holds[e] \in Dictionaries /\ trusted'[holds[e]] = trusted[holds[e]] \cup {a}
        /\ \A d \in Dictionaries : d # holds[e] => trusted'[d] = trusted[d]
        /\ given'[e] = given[e] \cup {a} /\ keys'[e] = keys[e] \cup {a}
        /\ \A f \in Entities : f # e => given'[f] = given[f] /\ keys'[f] = keys[f]
    BY <1>1, <1>4, <2>1 DEF TypeOK
  <2>3. Collected'
    BY <1>1, <1>2, <2>2 DEF Collected, Kinds
  <2>4. Handed'
    <3>1. \A f \in Entities : at[f] \notin {"endpoint", "instantiate"}
      BY DEF AddTrustAnchor, Idle
    <3>. QED
      BY <1>1, <1>2, <3>1 DEF Handed, Made
  <2>5. TrustedIsGiven'
    <3>1. ASSUME NEW d \in Dictionaries
          PROVE  trusted'[d] = AtFirst(d) \cup UNION {given'[f] : f \in Holders(d)}
      <4>1. trusted[d] = AtFirst(d) \cup UNION {given[f] : f \in Holders(d)}
        BY DEF TrustedIsGiven
      <4>2. CASE d = holds[e]
        <5>. DEFINE before == UNION {given[f] : f \in Holders(d)}
                    after == UNION {given'[f] : f \in Holders(d)}
        <5>1. e \in Holders(d) /\ Holders(d) \subseteq Entities
          BY <4>2 DEF Holders
        <5>2. \A x : x \in after <=> x \in before \cup {a}
          <6>1. \A x : x \in after <=> \E f \in Holders(d) : x \in given'[f]
            OBVIOUS
          <6>2. \A x : x \in before <=> \E f \in Holders(d) : x \in given[f]
            OBVIOUS
          <6>. HIDE DEF after, before
          <6>. QED
            BY <2>2, <5>1, <6>1, <6>2
        <5>3. trusted'[d] = trusted[d] \cup {a}
          BY <2>2, <4>2
        <5>. HIDE DEF after
        <5>4. AtFirst(d) \cup after = trusted[d] \cup {a}
          BY <4>1, <5>2
        <5>. QED
          BY <5>3, <5>4 DEF after
      <4>3. CASE d # holds[e]
        <5>1. \A f \in Holders(d) : given'[f] = given[f]
          BY <2>2, <4>3 DEF Holders
        <5>. QED
          BY <2>2, <4>1, <4>3, <5>1
      <4>. QED
        BY <4>2, <4>3
    <3>2. (\A f \in Entities : holds[f] # Nothing => given[f] \subseteq keys[f])'
      BY <1>1, <2>2 DEF TrustedIsGiven
    <3>3. \A d : Holders(d)' = Holders(d)
      BY <1>1 DEF Holders
    <3>. QED
      BY <1>1, <3>1, <3>2, <3>3 DEF TrustedIsGiven
  <2>. QED
    BY <2>3, <2>4, <2>5
<1>. QED
  BY <1>3, <1>4

LEMMA AnchorInvAtFirst == Init => AnchorInv
<1>. SUFFICES ASSUME Init
              PROVE  AnchorInv
  OBVIOUS
<1>1. /\ \A e \in Entities : /\ at[e] = "no" /\ chosen[e] = {} /\ holds[e] = Nothing
                             /\ given[e] = {} /\ order[e] = Nothing
      /\ \A d \in Dictionaries : trusted[d] = AtFirst(d)
  BY DEF Init
<1>2. Collected /\ Handed
  BY <1>1 DEF Collected, Handed, Took, Made
<1>3. TrustedIsGiven
  <2>1. \A d : \A f \in Holders(d) : given[f] = {}
    BY <1>1 DEF Holders
  <2>. QED
    BY <1>1, <2>1 DEF TrustedIsGiven
<1>. QED
  BY <1>2, <1>3, HeedInvAtFirst DEF AnchorInv

LEMMA AnchorInvStays == AnchorInv /\ [Next]_vars => AnchorInv'
<1>. SUFFICES ASSUME AnchorInv, [Next]_vars
              PROVE  Collected' /\ Handed' /\ TrustedIsGiven'
  BY HeedInvStays DEF AnchorInv
<1>1. ASSUME NEW e \in Entities, Making(e)
      PROVE  Collected' /\ Handed' /\ TrustedIsGiven'
  BY <1>1, OrderKeepsAnchors, AddKeepsAnchors, InstantiateKeepsAnchors, AttachKeepsAnchors
     DEF Making
<1>2. ASSUME NEW e \in Entities, NEW a \in Anchors, AddTrustAnchor(e, a)
      PROVE  Collected' /\ Handed' /\ TrustedIsGiven'
  BY <1>2, AddTrustAnchorKeepsAnchors
<1>3. CASE UNCHANGED vars
  BY <1>3 DEF vars, descriptions, parts, AnchorInv, Collected, Handed, TrustedIsGiven,
     Took, Holders, Made
<1>. QED
  BY <1>1, <1>2, <1>3 DEF Next

\* Trust anchors get from one entity to another only through a dictionary that both of them
\* hold, and one whose caller brought a dictionary holds no other.
THEOREM AnchorsStayInTheirDictionary == Spec => []AnchorsSpillOnlyThroughDictionaries
<1>1. AnchorInv => AnchorsSpillOnlyThroughDictionaries
  <2>. SUFFICES ASSUME AnchorInv, NEW e \in Entities, holds[e] # Nothing
                PROVE  /\ trusted[holds[e]] = AtFirst(holds[e])
                                                \cup UNION {given[f] : f \in Holders(holds[e])}
                       /\ Made(e) /\ order[e].hand = "init" => holds[e] = order[e].anchors
                       /\ Made(e) /\ order[e].hand = "make" /\ Contents[order[e].anchors] # {} =>
                            holds[e] = order[e].anchors
                       /\ given[e] \subseteq keys[e]
    BY DEF AnchorsSpillOnlyThroughDictionaries, Holders
  <2>1. /\ holds[e] \in Dictionaries /\ Collector \in chosen[e]
        /\ Made(e) => order[e] \in Orders
    BY DEF AnchorInv, HeedInv, TypeOK, Collected, InTurn, At, Made
  <2>2. Made(e) /\ order[e].hand = "init" => Took(e)
    BY <2>1, OrderFields DEF Took
  <2>. QED
    BY <2>1, <2>2 DEF AnchorInv, Handed, TrustedIsGiven
<1>. QED
  BY <1>1, AnchorInvAtFirst, AnchorInvStays, PTL DEF Spec
=============================================================================
