----------------------- MODULE ClientRegistrationProofs -----------------------
(***************************************************************************)
(* Proofs about ClientRegistration, for any threads, clients, chains,      *)
(* requests and configurations.                                            *)
(***************************************************************************)
EXTENDS ClientRegistration, WellFoundedInduction, TLAPS

-----------------------------------------------------------------------------
(* Choosing a chain                                                        *)

\* There is a first.
LEMMA FirstIsOne ==
  ASSUME NEW S \in SUBSET Nat, S # {}
  PROVE  First(S) \in S
<1>. DEFINE R == {p \in Nat \X Nat : p[1] < p[2]}
<1>1. IsWellFoundedOn(R, Nat)
  BY NatLessThanWellFounded DEF OpToRel
<1>2. PICK i \in S : \A j \in S : ~ (<<j, i>> \in R)
  <2>. HIDE DEF R
  <2>. QED
    BY <1>1, WFMin
<1>3. ASSUME NEW j \in S
      PROVE  i <= j
  <2>1. <<j, i>> \notin R
    BY <1>2
  <2>2. i \in Nat /\ j \in Nat
    OBVIOUS
  <2>3. <<j, i>> \in Nat \X Nat /\ <<j, i>>[1] = j /\ <<j, i>>[2] = i
    BY <2>2
  <2>4. ~(j < i)
    BY <2>1, <2>3
  <2>. QED
    BY <2>2, <2>4
<1>. QED
  BY <1>3 DEF First

LEMMA UsableIndices ==
  ASSUME NEW cs \in Seq(Chains)
  PROVE  Usable(cs) \in SUBSET Nat /\ \A i \in Usable(cs) : cs[i] \in Chains /\ cs[i].valid
  BY DEF Usable

\* The chain that is picked is one of those that can be used.
LEMMA PickIsUsable ==
  ASSUME NEW cs \in Seq(Chains), Usable(cs) # {}
  PROVE  \E i \in Usable(cs) : Pick(cs) = cs[i]
<1>. DEFINE ranked == {n \in 1..Len(TrPriority) : ToAnchor(cs, TrPriority[n]) # {}}
            S == IF ranked = {} THEN Usable(cs) ELSE ToAnchor(cs, TrPriority[First(ranked)])
<1>1. ranked \in SUBSET Nat
  OBVIOUS
<1>2. ranked # {} => First(ranked) \in ranked
  BY <1>1, FirstIsOne
<1>3. S \subseteq Usable(cs) /\ S # {}
  BY <1>2 DEF ToAnchor
<1>4. First(S) \in S
  <2>. HIDE DEF S
  <2>. QED
    BY <1>3, UsableIndices, FirstIsOne
<1>5. Pick(cs) = cs[First(S)]
  BY DEF Pick
<1>. QED
  BY <1>3, <1>4, <1>5

LEMMA PickedIsUsable ==
  ASSUME NEW w, chains[w] \in Seq(Chains), Usable(chains[w]) # {}
  PROVE  /\ \E i \in Usable(chains[w]) : Picked(w) = chains[w][i]
         /\ Picked(w) \in Chains /\ Picked(w).valid
<1>1. First(Usable(chains[w])) \in Usable(chains[w])
  BY UsableIndices, FirstIsOne
<1>2. \E i \in Usable(chains[w]) : Picked(w) = chains[w][i]
  BY <1>1, PickIsUsable DEF Picked
<1>. QED
  BY <1>2, UsableIndices

-----------------------------------------------------------------------------
(* Types                                                                   *)

LEMMA ChainType ==
  ASSUME NEW c \in Chains
  PROVE  c.subject \in Entities /\ c.anchor \in Anchors /\ c.metadata \in Metadata
  BY RegistrationAssumption DEF RegistrationAssumption

LEMMA RequestType ==
  ASSUME NEW r \in Requests
  PROVE  /\ r.kind \in {"explicit", "authorize", "push"} /\ r.entity \in Entities
         /\ r.chain \in Chains \cup {NoChain} /\ r.metadata \in Metadata
         /\ r.kind = "explicit" => r.chain = NoChain
  BY RegistrationAssumption DEF RegistrationAssumption

LEMMA ConfigType ==
  ASSUME NEW c \in Configs
  PROVE  c.protocol \in {"oauth2", "oidc"} /\ c.automatic \in BOOLEAN /\ c.new_id \in BOOLEAN
  BY RegistrationAssumption DEF RegistrationAssumption

\* Between Collect and the answer there are chains that can be used, the client's own
\* or the one that came with the request.
Handling == {"note_chain", "import_keys", "setup", "register", "client_keys", "add_secret",
             "store", "alias"}
Chained ==
  \A w \in Workers : pc[w] \in Handling \/ result[w].status = "registered" =>
    /\ Usable(chains[w]) # {}
    /\ \A i \in 1..Len(chains[w]) :
         chains[w][i].subject = request[w].entity \/ chains[w][i] = request[w].chain

LEMMA RegisteredType ==
  ASSUME TypeOK, NEW w \in Workers, Usable(chains[w]) # {}
  PROVE  Registered(w) \in Metadata /\ Picked(w).anchor \in Anchors
<1>1. Picked(w) \in Chains
  BY PickedIsUsable DEF TypeOK
<1>. QED
  BY <1>1, ChainType, RequestType DEF Registered, TypeOK

LEMMA EntryType ==
  ASSUME NEW id \in ClientIds, NEW t \in Tokens, NEW m \in Metadata \cup {NoMetadata},
         NEW e \in Entities \cup {NoOne}
  PROVE  /\ [client_id |-> id, secret |-> t, metadata |-> m, entity_id |-> e] \in Entry
         /\ \A c \in Entry : [c EXCEPT !.client_id = id, !.metadata = m] \in Entry
         /\ \A c \in Entry : [c EXCEPT !.entity_id = e] \in Entry
  BY DEF Entry

LEMMA EntryIsNotNoEntry == NoEntry \notin Entry
  BY RegistrationAssumption DEF NoEntry, Entry, RegistrationAssumption

LEMMA TokenType ==
  ASSUME TypeOK, NEW w \in Workers, pc[w] # "idle"
  PROVE  <<w, calls[w]>> \in Tokens /\ <<w, calls[w]>> \in ClientIds
  BY RegistrationAssumption DEF TypeOK, Tokens, ClientIds, RegistrationAssumption

Writing == {"register", "client_keys", "add_secret", "store", "alias"}

\* When a worker reads the database where it has written, something is there.
Written ==
  \A w \in Workers : pc[w] \in Writing \cup {"authenticate"} =>
    client_id[w] \in ClientIds /\ cdb[client_id[w]] # NoEntry

Typed == TypeOK /\ Chained /\ Written

LEMMA InitIsTyped == Init => Typed
<1>. SUFFICES ASSUME Init
              PROVE  Typed
  OBVIOUS
<1>1. \A e \in Entities : Answers[e] \in SUBSET Seq(Chains)
  BY RegistrationAssumption DEF RegistrationAssumption
<1>2. answers \in [Entities -> Seq(Chains)] /\ \A e \in Entities : answers[e] \in Answers[e]
  BY <1>1 DEF Init
<1>3. request \in [Workers -> Requests]
  <2>1. (CHOOSE r \in Requests : TRUE) \in Requests
    BY RegistrationAssumption DEF RegistrationAssumption
  <2>. QED
    BY <2>1 DEF Init
<1>4. <<>> \in Seq(Chains)
  OBVIOUS
<1>5. calls \in [Workers -> 0..MaxCalls]
  BY RegistrationAssumption DEF Init, RegistrationAssumption
<1>6. result \in [Workers -> [status : Statuses, client_id : ClientIds \cup {NoOne},
                            secret : Tokens \cup {NoOne}, anchor : Anchors \cup {NoOne}]]
  BY DEF Init, NoResult, Result, Statuses
<1>7. TypeOK
  BY <1>2, <1>3, <1>4, <1>5, <1>6 DEF Init, TypeOK
<1>. QED
  BY <1>7 DEF Init, Typed, Chained, Written, Writing, Handling, NoResult, Result

LEMMA FederateIsTyped ==
  ASSUME Typed, NEW e \in Entities, NEW cs \in Answers[e], Federate(e, cs)
  PROVE  Typed'
<1>1. cs \in Seq(Chains)
  BY RegistrationAssumption DEF RegistrationAssumption
<1>2. answers' \in [Entities -> Seq(Chains)] /\ \A f \in Entities : answers'[f] \in Answers[f]
  BY <1>1 DEF Typed, TypeOK, Federate
<1>3. TypeOK'
  BY <1>2 DEF Typed, TypeOK, Federate, stores, locals
<1>. QED
  BY <1>3 DEF Typed, Chained, Written, Writing, Federate, stores, locals

\* How a step leaves pc and result.
Moves(w, label, r) ==
  pc' = [pc EXCEPT ![w] = label] /\ result' = [result EXCEPT ![w] = r]

ResultType ==
  [status : Statuses, client_id : ClientIds \cup {NoOne}, secret : Tokens \cup {NoOne},
   anchor : Anchors \cup {NoOne}]

LEMMA FailIs ==
  ASSUME TypeOK, NEW w \in Workers, NEW status \in Statuses \ {"registered"}, Fail(w, status)
  PROVE  \E r \in ResultType : r.status # "registered" /\ Moves(w, "idle", r)
  BY DEF Fail, Answer, Goto, Moves, Result, ResultType, Statuses

LEMMA GotoIs ==
  ASSUME TypeOK, NEW w \in Workers, NEW label, Goto(w, label), UNCHANGED result
  PROVE  result[w] \in ResultType /\ Moves(w, label, result[w])
  BY DEF Goto, Moves, TypeOK, ResultType

LEMMA ReceiveMoves ==
  ASSUME Typed, NEW w \in Workers, NEW r \in Requests, Receive(w, r)
  PROVE  \E label \in {"collect", "authenticate", "idle"}, a \in ResultType :
           /\ Moves(w, label, a) /\ a.status # "registered"
           /\ label = "authenticate" => cdb[r.entity] # NoEntry
<1>1. NoResult \in ResultType /\ NoResult.status = "none"
  BY DEF NoResult, Result, ResultType, Statuses
<1>2. CASE Goto(w, "collect") /\ result' = [result EXCEPT ![w] = NoResult]
  BY <1>1, <1>2 DEF Moves, Goto
<1>3. CASE Goto(w, "authenticate") /\ result' = [result EXCEPT ![w] = NoResult]
           /\ cdb[r.entity] # NoEntry
  BY <1>1, <1>3 DEF Moves, Goto
<1>4. CASE Fail(w, "unauthorized_client")
  BY <1>4, FailIs DEF Typed, Statuses
<1>. QED
  BY <1>2, <1>3, <1>4 DEF Receive

LEMMA ReceiveIsTyped ==
  ASSUME Typed, NEW w \in Workers, NEW r \in Requests, Receive(w, r)
  PROVE  Typed'
<1>1. /\ request' \in [Workers -> Requests]
      /\ client_id' \in [Workers -> ClientIds \cup {NoOne}]
      /\ client_id' = [client_id EXCEPT ![w] = r.entity] /\ r.entity \in ClientIds
  BY RequestType DEF Typed, TypeOK, Receive, ClientIds
<1>2. calls' \in [Workers -> 0..MaxCalls] /\ calls'[w] # 0
      /\ \A v \in Workers \ {w} : calls'[v] = calls[v]
  <2>1. MaxCalls \in Nat
    BY RegistrationAssumption DEF RegistrationAssumption
  <2>2. calls \in [Workers -> 0..MaxCalls] /\ calls[w] < MaxCalls
        /\ calls' = [calls EXCEPT ![w] = @ + 1]
    BY DEF Typed, TypeOK, Receive
  <2>. QED
    BY <2>1, <2>2
<1>3. PICK label \in {"collect", "authenticate", "idle"}, a \in ResultType :
        /\ Moves(w, label, a) /\ a.status # "registered"
        /\ label = "authenticate" => cdb[r.entity] # NoEntry
  BY ReceiveMoves
<1>4. UNCHANGED <<config, answers, cdb, keyjar, trust_chain, trust_chain_anchor, chains, cinfo>>
  BY DEF Receive, stores
<1>5. TypeOK'
  BY <1>1, <1>2, <1>3, <1>4 DEF Typed, TypeOK, Moves, ResultType
<1>6. Chained'
  <2>. SUFFICES ASSUME NEW v \in Workers,
                       pc'[v] \in Handling \/ result'[v].status = "registered"
                PROVE  /\ Usable(chains'[v]) # {}
                       /\ \A i \in 1..Len(chains'[v]) :
                            \/ chains'[v][i].subject = request'[v].entity
                            \/ chains'[v][i] = request'[v].chain
    BY DEF Chained
  <2>1. v # w
    BY <1>3 DEF Moves, Handling, Typed, TypeOK
  <2>2. pc'[v] = pc[v] /\ result'[v] = result[v] /\ request'[v] = request[v]
    BY <1>3, <2>1 DEF Moves, Typed, TypeOK, Receive
  <2>. QED
    BY <1>4, <2>2 DEF Typed, Chained
<1>7. Written'
  BY <1>1, <1>3, <1>4 DEF Typed, TypeOK, Written, Writing, Moves
<1>. QED
  BY <1>5, <1>6, <1>7 DEF Typed

LEMMA CollectIsTyped ==
  ASSUME Typed, NEW w \in Workers, Collect(w)
  PROVE  Typed'
<1>. DEFINE r == request[w]
            cs == IF r.chain # NoChain THEN <<r.chain>> ELSE answers[r.entity]
<1>1. r \in Requests
  BY DEF Typed, TypeOK
<1>2. cs \in Seq(Chains) /\ \A i \in 1..Len(cs) : cs[i].subject = r.entity \/ cs[i] = r.chain
  <2>1. CASE r.chain # NoChain
    BY <1>1, <2>1, RequestType
  <2>2. CASE r.chain = NoChain
    BY <1>1, <2>2, RequestType, RegistrationAssumption DEF Typed, TypeOK, RegistrationAssumption
  <2>. QED
    BY <2>1, <2>2
<1>3. UNCHANGED <<config, answers, cdb, keyjar, trust_chain, trust_chain_anchor, request,
                  client_id, cinfo, calls>>
  BY DEF Collect, stores
<1>4. CASE UNCHANGED chains /\ \E status \in Statuses \ {"registered"} : Fail(w, status)
  <2>1. PICK a \in ResultType : a.status # "registered" /\ Moves(w, "idle", a)
    BY <1>4, FailIs DEF Typed
  <2>2. TypeOK'
    BY <1>3, <1>4, <2>1 DEF Typed, TypeOK, Moves, ResultType
  <2>. QED
    BY <1>3, <1>4, <2>1, <2>2 DEF Typed, TypeOK, Chained, Written, Writing, Moves, Handling
<1>5. CASE /\ Usable(cs) # {} /\ chains' = [chains EXCEPT ![w] = cs]
           /\ Goto(w, "note_chain") /\ UNCHANGED result
  <2>1. result[w] \in ResultType /\ Moves(w, "note_chain", result[w])
    BY <1>5, GotoIs DEF Typed
  <2>2. TypeOK'
    <3>. HIDE DEF cs
    <3>. QED
      BY <1>2, <1>3, <1>5, <2>1 DEF Typed, TypeOK, Moves, ResultType, Collect
  <2>3. Chained'
    <3>. HIDE DEF cs
    <3>. QED
      BY <1>2, <1>3, <1>5, <2>1 DEF Typed, TypeOK, Chained, Moves, Handling
  <2>4. Written'
    BY <1>3, <2>1 DEF Typed, TypeOK, Written, Writing, Moves
  <2>. QED
    BY <2>2, <2>3, <2>4 DEF Typed
<1>. QED
  BY <1>4, <1>5 DEF Collect, Statuses

LEMMA ChainedStays ==
  ASSUME Typed, NEW w \in Workers, NEW label, NEW a, Moves(w, label, a),
         UNCHANGED <<chains, request>>,
         pc[w] \in Handling \/ (label \notin Handling /\ a.status # "registered")
  PROVE  Chained'
  BY DEF Typed, TypeOK, Chained, Moves

\* No entry is ever deleted.
LEMMA WrittenStays ==
  ASSUME Typed, NEW w \in Workers, NEW label, NEW a, Moves(w, label, a),
         \A v \in Workers \ {w} : client_id'[v] = client_id[v],
         \A id \in ClientIds : cdb[id] # NoEntry => cdb'[id] # NoEntry,
         label \in Writing \cup {"authenticate"} =>
           client_id'[w] \in ClientIds /\ cdb'[client_id'[w]] # NoEntry
  PROVE  Written'
  BY DEF Typed, TypeOK, Written, Writing, Moves

LEMMA NoteChainIsTyped ==
  ASSUME Typed, NEW w \in Workers, NoteChain(w)
  PROVE  Typed'
<1>1. Picked(w).anchor \in Anchors
  BY RegisteredType DEF Typed, Chained, Handling, NoteChain
<1>2. request[w].entity \in Entities
  BY RequestType DEF Typed, TypeOK
<1>3. /\ UNCHANGED <<config, answers, cdb, keyjar, request, chains, client_id, cinfo, result, calls>>
      /\ pc[w] = "note_chain"
  BY DEF NoteChain, locals
<1>4. result[w] \in ResultType /\ Moves(w, "import_keys", result[w])
  BY GotoIs DEF NoteChain, Typed
<1>5. /\ trust_chain' \in [Entities -> Anchors \cup {NoOne}]
      /\ trust_chain_anchor' \in Anchors \cup {NoOne}
  BY <1>1, <1>2 DEF NoteChain, Typed, TypeOK
<1>6. TypeOK'
  BY <1>3, <1>4, <1>5 DEF Typed, TypeOK, Moves, ResultType
<1>7. Chained'
  BY <1>3, <1>4, ChainedStays DEF Handling
<1>8. Written'
  BY <1>3, <1>4, WrittenStays DEF Writing
<1>. QED
  BY <1>6, <1>7, <1>8 DEF Typed

LEMMA KeyJarGrows ==
  ASSUME keyjar \in [ClientIds -> SUBSET (Keys \cup Tokens)], NEW id \in ClientIds,
         NEW ks \in SUBSET (Keys \cup Tokens)
  PROVE  /\ [keyjar EXCEPT ![id] = @ \cup ks] \in [ClientIds -> SUBSET (Keys \cup Tokens)]
         /\ [keyjar EXCEPT ![id] = @ \cup ks][id] = keyjar[id] \cup ks
         /\ \A i \in ClientIds : keyjar[i] \subseteq [keyjar EXCEPT ![id] = @ \cup ks][i]
  OBVIOUS

LEMMA ImportIs ==
  ASSUME keyjar \in [ClientIds -> SUBSET (Keys \cup Tokens)], NEW id \in ClientIds,
         NEW m \in Metadata, Import(id, m)
  PROVE  /\ keyjar' \in [ClientIds -> SUBSET (Keys \cup Tokens)]
         /\ Included(m) \subseteq keyjar'[id]
         /\ \A i \in ClientIds : keyjar[i] \subseteq keyjar'[i]
<1>1. KeysIn[m] \in SUBSET (Keys \cup Tokens)
  BY RegistrationAssumption DEF RegistrationAssumption
<1>2. CASE KeysBy[m] # "signed_jwks_uri" /\ keyjar' = [keyjar EXCEPT ![id] = @ \cup KeysIn[m]]
  BY <1>1, <1>2, KeyJarGrows DEF Included
<1>3. CASE KeysBy[m] # "jwks" /\ UNCHANGED keyjar
  BY <1>3 DEF Included
<1>. QED
  BY <1>2, <1>3 DEF Import

LEMMA ImportKeysIsTyped ==
  ASSUME Typed, NEW w \in Workers, ImportKeys(w)
  PROVE  Typed'
<1>1. Registered(w) \in Metadata
  BY RegisteredType DEF Typed, Chained, Handling, ImportKeys
<1>2. request[w].entity \in Entities /\ request[w].entity \in ClientIds
  BY RequestType DEF Typed, TypeOK, ClientIds
<1>3. /\ UNCHANGED <<config, answers, cdb, trust_chain, trust_chain_anchor, request, chains,
                     client_id, cinfo, calls>>
      /\ pc[w] = "import_keys"
  BY DEF ImportKeys, locals
<1>4. PICK label \in {"setup", "idle"}, a \in ResultType : Moves(w, label, a)
  <2>1. CASE Fail(w, "key_error")
    BY <2>1, FailIs DEF Typed, Statuses
  <2>2. CASE Goto(w, "setup") /\ UNCHANGED result
    BY <2>2, GotoIs DEF Typed
  <2>. QED
    BY <2>1, <2>2 DEF ImportKeys
<1>5. keyjar' \in [ClientIds -> SUBSET (Keys \cup Tokens)]
  <2>1. UNCHANGED keyjar \/ Import(request[w].entity, Registered(w))
    BY DEF ImportKeys
  <2>. QED
    BY <1>1, <1>2, <2>1, ImportIs DEF Typed, TypeOK
<1>6. TypeOK'
  BY <1>3, <1>4, <1>5 DEF Typed, TypeOK, Moves, ResultType
<1>7. Chained'
  BY <1>3, <1>4, ChainedStays DEF Handling
<1>8. Written'
  BY <1>3, <1>4, WrittenStays DEF Writing
<1>. QED
  BY <1>6, <1>7, <1>8 DEF Typed

LEMMA SetupIsTyped ==
  ASSUME Typed, NEW w \in Workers, Setup(w)
  PROVE  Typed'
<1>. DEFINE token == <<w, calls[w]>>
            id == IF NewId(w) THEN token ELSE request[w].entity
            stub == [client_id |-> id, secret |-> token, metadata |-> NoMetadata,
                     entity_id |-> NoOne]
<1>1. token \in Tokens /\ id \in ClientIds
  BY TokenType, RequestType DEF Setup, Typed, TypeOK, ClientIds
<1>2. stub \in Entry /\ stub # NoEntry
  <2>. HIDE DEF token, id
  <2>1. stub \in Entry
    BY <1>1 DEF Entry
  <2>. QED
    BY <2>1, EntryIsNotNoEntry
<1>3. /\ UNCHANGED <<config, answers, keyjar, trust_chain, trust_chain_anchor, request, chains,
                     cinfo, calls>>
      /\ pc[w] = "setup"
  BY DEF Setup
<1>4. CASE Fail(w, "refused") /\ UNCHANGED <<cdb, client_id>>
  <2>1. PICK a \in ResultType : Moves(w, "idle", a)
    BY <1>4, FailIs DEF Typed, Statuses
  <2>2. TypeOK'
    BY <1>3, <1>4, <2>1 DEF Typed, TypeOK, Moves, ResultType
  <2>3. Chained'
    BY <1>3, <2>1, ChainedStays DEF Handling
  <2>4. Written'
    BY <1>4, <2>1, WrittenStays DEF Writing
  <2>. QED
    BY <2>2, <2>3, <2>4 DEF Typed
<1>5. CASE /\ client_id' = [client_id EXCEPT ![w] = id]
           /\ cdb' = [cdb EXCEPT ![id] = stub]
           /\ Goto(w, "register") /\ UNCHANGED result
  <2>. HIDE DEF token, id, stub
  <2>1. result[w] \in ResultType /\ Moves(w, "register", result[w])
    BY <1>5, GotoIs DEF Typed
  <2>2. TypeOK'
    BY <1>1, <1>2, <1>3, <1>5, <2>1 DEF Typed, TypeOK, Moves, ResultType
  <2>3. Chained'
    BY <1>3, <2>1, ChainedStays DEF Handling
  <2>4. Written'
    <3>1. \A v \in Workers \ {w} : client_id'[v] = client_id[v]
      BY <1>5 DEF Typed, TypeOK
    <3>2. \A i \in ClientIds : cdb[i] # NoEntry => cdb'[i] # NoEntry
      BY <1>2, <1>5 DEF Typed, TypeOK
    <3>3. client_id'[w] \in ClientIds /\ cdb'[client_id'[w]] # NoEntry
      BY <1>1, <1>2, <1>5 DEF Typed, TypeOK
    <3>. QED
      BY <2>1, <3>1, <3>2, <3>3, WrittenStays DEF Writing
  <2>. QED
    BY <2>2, <2>3, <2>4 DEF Typed
<1>. QED
  BY <1>4, <1>5 DEF Setup

LEMMA DoRegistrationIsTyped ==
  ASSUME Typed, NEW w \in Workers, DoRegistration(w)
  PROVE  Typed'
<1>. DEFINE m == Registered(w)
            id == client_id[w]
            filled == [cdb[id] EXCEPT !.client_id = id, !.metadata = m]
<1>1. m \in Metadata
  BY RegisteredType DEF Typed, Chained, Handling, DoRegistration
<1>2. id \in ClientIds /\ cdb[id] \in Entry
  BY DEF DoRegistration, Typed, TypeOK, Written, Writing
<1>3. filled \in Entry /\ filled # NoEntry
  <2>. HIDE DEF m, id
  <2>1. filled \in Entry
    BY <1>1, <1>2 DEF Entry
  <2>. QED
    BY <2>1, EntryIsNotNoEntry
<1>4. /\ UNCHANGED <<config, answers, cdb, keyjar, trust_chain, trust_chain_anchor, request,
                     chains, client_id, calls>>
      /\ pc[w] = "register"
  BY DEF DoRegistration, stores
<1>5. CASE Fail(w, "refused") /\ UNCHANGED cinfo
  <2>1. PICK a \in ResultType : Moves(w, "idle", a)
    BY <1>5, FailIs DEF Typed, Statuses
  <2>2. TypeOK'
    BY <1>4, <1>5, <2>1 DEF Typed, TypeOK, Moves, ResultType
  <2>3. Chained' /\ Written'
    BY <1>4, <2>1, ChainedStays, WrittenStays DEF Handling, Writing
  <2>. QED
    BY <2>2, <2>3 DEF Typed
<1>6. CASE /\ cinfo' = [cinfo EXCEPT ![w] = filled]
           /\ Goto(w, "client_keys") /\ UNCHANGED result
  <2>1. result[w] \in ResultType /\ Moves(w, "client_keys", result[w])
    BY <1>6, GotoIs DEF Typed
  <2>. HIDE DEF m, id, filled
  <2>2. TypeOK'
    BY <1>3, <1>4, <1>6, <2>1 DEF Typed, TypeOK, Moves, ResultType
  <2>3. Chained' /\ Written'
    <3>1. client_id[w] \in ClientIds /\ cdb[client_id[w]] # NoEntry
      BY <1>4 DEF Typed, Written, Writing
    <3>. QED
      BY <1>4, <2>1, <3>1, ChainedStays, WrittenStays DEF Handling, Writing
  <2>. QED
    BY <2>2, <2>3 DEF Typed
<1>. QED
  BY <1>5, <1>6 DEF DoRegistration, RefuseLate

LEMMA RegisterKeysIsTyped ==
  ASSUME Typed, NEW w \in Workers, RegisterKeys(w)
  PROVE  Typed'
<1>1. /\ UNCHANGED <<config, answers, cdb, trust_chain, trust_chain_anchor, request, chains,
                     client_id, cinfo, calls, result>>
      /\ pc[w] = "client_keys"
  BY DEF RegisterKeys, locals
<1>2. result[w] \in ResultType /\ Moves(w, "add_secret", result[w])
  BY GotoIs DEF RegisterKeys, Typed
<1>3. client_id[w] \in ClientIds /\ cdb[client_id[w]] # NoEntry
  BY <1>1 DEF Typed, Written, Writing
<1>4. Registered(w) \in Metadata
  BY <1>1, RegisteredType DEF Typed, Chained, Handling
<1>5. keyjar' \in [ClientIds -> SUBSET (Keys \cup Tokens)]
  BY <1>3, <1>4, ImportIs DEF RegisterKeys, ImportClientKeys, Typed, TypeOK
<1>6. TypeOK'
  BY <1>1, <1>2, <1>5 DEF Typed, TypeOK, Moves, ResultType
<1>. QED
  BY <1>1, <1>2, <1>3, <1>6, ChainedStays, WrittenStays DEF Handling, Writing, Typed

LEMMA AddSecretIsTyped ==
  ASSUME Typed, NEW w \in Workers, AddSecret(w)
  PROVE  Typed'
<1>1. /\ UNCHANGED <<config, answers, cdb, trust_chain, trust_chain_anchor, request, chains,
                     client_id, cinfo, calls, result>>
      /\ pc[w] = "add_secret"
  BY DEF AddSecret, locals
<1>2. result[w] \in ResultType /\ Moves(w, "store", result[w])
  BY GotoIs DEF AddSecret, Typed
<1>3. client_id[w] \in ClientIds /\ cdb[client_id[w]] # NoEntry
  BY <1>1 DEF Typed, Written, Writing
<1>4. keyjar' \in [ClientIds -> SUBSET (Keys \cup Tokens)]
  <2>1. {<<w, calls[w]>>} \in SUBSET (Keys \cup Tokens)
    BY <1>1, TokenType DEF Typed
  <2>2. keyjar' = [keyjar EXCEPT ![client_id[w]] = @ \cup {<<w, calls[w]>>}]
    BY DEF AddSecret
  <2>3. keyjar \in [ClientIds -> SUBSET (Keys \cup Tokens)]
    BY DEF Typed, TypeOK
  <2>. QED
    BY ONLY <1>3, <2>1, <2>2, <2>3, KeyJarGrows
<1>5. TypeOK'
  BY <1>1, <1>2, <1>4 DEF Typed, TypeOK, Moves, ResultType
<1>. QED
  BY <1>1, <1>2, <1>3, <1>5, ChainedStays, WrittenStays DEF Handling, Writing, Typed

LEMMA StoreClientIsTyped ==
  ASSUME Typed, NEW w \in Workers, StoreClient(w)
  PROVE  Typed'
<1>1. /\ UNCHANGED <<config, answers, keyjar, trust_chain, trust_chain_anchor, request, chains,
                     client_id, cinfo, calls>>
      /\ pc[w] = "store" /\ cdb' = [cdb EXCEPT ![client_id[w]] = cinfo[w]]
  BY DEF StoreClient, locals
<1>2. client_id[w] \in ClientIds /\ cinfo[w] \in Entry /\ cinfo[w] # NoEntry
  BY <1>1 DEF Typed, TypeOK, Written, Writing
<1>3. PICK label \in {"idle", "alias", "authenticate"}, a \in ResultType : Moves(w, label, a)
  <2>1. Result("registered", client_id[w], cinfo[w].secret, AnchorOf(w)) \in ResultType
    BY <1>1, <1>2, RegisteredType
    DEF Result, ResultType, Statuses, AnchorOf, Typed, Chained, Handling, Entry
  <2>2. CASE Answer(w, Result("registered", client_id[w], cinfo[w].secret, AnchorOf(w)))
    BY <2>1, <2>2 DEF Answer, Goto, Moves
  <2>3. CASE /\ Goto(w, IF client_id[w] # request[w].entity THEN "alias" ELSE "authenticate")
             /\ UNCHANGED result
    BY <2>3, GotoIs DEF Typed
  <2>. QED
    BY <2>2, <2>3 DEF StoreClient
<1>4. TypeOK'
  BY <1>1, <1>2, <1>3 DEF Typed, TypeOK, Moves, ResultType
<1>5. Chained'
  BY <1>1, <1>3, ChainedStays DEF Handling
<1>6. Written'
  <2>1. \A id \in ClientIds : cdb[id] # NoEntry => cdb'[id] # NoEntry
    BY <1>1, <1>2 DEF Typed, TypeOK
  <2>2. cdb'[client_id[w]] # NoEntry
    BY <1>1, <1>2 DEF Typed, TypeOK
  <2>. QED
    BY <1>1, <1>2, <1>3, <2>1, <2>2, WrittenStays DEF Writing
<1>. QED
  BY <1>4, <1>5, <1>6 DEF Typed

\* What Alias leaves in the database.
LEMMA AliasedIs ==
  ASSUME TypeOK, NEW w \in Workers, NEW e, NEW id \in ClientIds, e = request[w].entity,
         id = client_id[w], cdb[id] \in Entry
  PROVE  /\ Aliased(w) \in [ClientIds -> Entry \cup {NoEntry}]
         /\ [cdb[id] EXCEPT !.entity_id = e] \in Entry
         /\ Aliased(w)[e] = [cdb[id] EXCEPT !.entity_id = e]
         /\ Aliased(w)[id] = [cdb[id] EXCEPT !.entity_id = e]
         /\ \A i \in ClientIds \ {e, id} : Aliased(w)[i] = cdb[i]
<1>1. e \in Entities /\ e \in ClientIds
  BY RequestType DEF TypeOK, ClientIds
<1>. DEFINE new == [cdb[id] EXCEPT !.entity_id = e]
            shared == [cdb EXCEPT ![e] = new]
<1>2. new \in Entry
  BY <1>1 DEF Entry
<1>3. shared \in [ClientIds -> Entry \cup {NoEntry}]
  <2>. HIDE DEF new
  <2>. QED
    BY <1>1, <1>2 DEF TypeOK
<1>4. Aliased(w) = [shared EXCEPT ![id] = [shared[id] EXCEPT !.entity_id = e]]
  BY DEF Aliased, Shared
<1>5. [shared[id] EXCEPT !.entity_id = e] = new
  <2>1. CASE id = e
    BY <1>1, <1>2, <2>1 DEF TypeOK, Entry
  <2>2. CASE id # e
    BY <1>1, <2>2 DEF TypeOK
  <2>. QED
    BY <2>1, <2>2
<1>6. Aliased(w) = [shared EXCEPT ![id] = new]
  BY <1>4, <1>5
<1>7. \A i \in ClientIds \ {e} : shared[i] = cdb[i]
  BY <1>1 DEF TypeOK
<1>8. shared[e] = new
  BY <1>1 DEF TypeOK
<1>. HIDE DEF new, shared
<1>9. /\ Aliased(w) \in [ClientIds -> Entry \cup {NoEntry}]
      /\ Aliased(w)[e] = new /\ Aliased(w)[id] = new
      /\ \A i \in ClientIds \ {e, id} : Aliased(w)[i] = cdb[i]
  BY <1>1, <1>2, <1>3, <1>6, <1>7, <1>8
<1>. QED
  BY <1>2, <1>9 DEF new

LEMMA AliasIsTyped ==
  ASSUME Typed, NEW w \in Workers, Alias(w)
  PROVE  Typed'
<1>1. /\ UNCHANGED <<config, answers, keyjar, trust_chain, trust_chain_anchor, request, chains,
                     client_id, cinfo, calls, result>>
      /\ pc[w] = "alias" /\ cdb' = Aliased(w)
  BY DEF Alias, locals
<1>2. client_id[w] \in ClientIds /\ cdb[client_id[w]] \in Entry
  BY <1>1 DEF Typed, TypeOK, Written, Writing
<1>3. result[w] \in ResultType /\ Moves(w, "authenticate", result[w])
  BY GotoIs DEF Alias, Typed
<1>4. /\ cdb' \in [ClientIds -> Entry \cup {NoEntry}]
      /\ \A id \in ClientIds : cdb[id] # NoEntry => cdb'[id] # NoEntry
  <2>. DEFINE id == client_id[w]
              e == request[w].entity
              new == [cdb[id] EXCEPT !.entity_id = e]
  <2>1. /\ cdb' \in [ClientIds -> Entry \cup {NoEntry}] /\ new \in Entry
        /\ cdb'[e] = new /\ cdb'[id] = new
        /\ \A i \in ClientIds \ {e, id} : cdb'[i] = cdb[i]
    BY <1>1, <1>2, AliasedIs DEF Typed
  <2>. HIDE DEF new, id, e
  <2>. QED
    BY <2>1, EntryIsNotNoEntry
<1>5. TypeOK'
  BY <1>1, <1>3, <1>4 DEF Typed, TypeOK, Moves, ResultType
<1>6. cdb'[client_id[w]] # NoEntry
  BY <1>2, <1>4, EntryIsNotNoEntry
<1>. QED
  BY <1>1, <1>2, <1>3, <1>4, <1>5, <1>6, ChainedStays, WrittenStays DEF Handling, Writing, Typed

LEMMA AuthenticateMoves ==
  ASSUME Typed, NEW w \in Workers, Authenticate(w)
  PROVE  \E a \in ResultType : a.status # "registered" /\ Moves(w, "idle", a)
<1>. DEFINE id == client_id[w]
            anchor == IF id \in Entities THEN trust_chain[id] ELSE NoOne
<1>1. /\ Result("authenticated", id, NoOne, anchor) \in ResultType
      /\ Result("authenticated", id, NoOne, anchor).status # "registered"
  BY DEF Authenticate, Result, ResultType, Statuses, Typed, TypeOK
<1>2. CASE Answer(w, Result("authenticated", id, NoOne, anchor))
  BY <1>1, <1>2 DEF Answer, Goto, Moves
<1>3. CASE Fail(w, "unauthorized_client")
  BY <1>3, FailIs DEF Typed, Statuses
<1>. QED
  BY <1>2, <1>3 DEF Authenticate

LEMMA AuthenticateIsTyped ==
  ASSUME Typed, NEW w \in Workers, Authenticate(w)
  PROVE  Typed'
<1>1. /\ UNCHANGED <<config, answers, cdb, keyjar, trust_chain, trust_chain_anchor, request,
                     chains, client_id, cinfo, calls>>
      /\ pc[w] = "authenticate"
  BY DEF Authenticate, locals, stores
<1>2. PICK a \in ResultType : a.status # "registered" /\ Moves(w, "idle", a)
  BY AuthenticateMoves
<1>3. TypeOK'
  BY <1>1, <1>2 DEF Typed, TypeOK, Moves, ResultType
<1>. QED
  BY <1>1, <1>2, <1>3, ChainedStays, WrittenStays DEF Handling, Writing, Typed

LEMMA NextIsTyped == Typed /\ [Next]_vars => Typed'
<1>. SUFFICES ASSUME Typed, [Next]_vars
              PROVE  Typed'
  OBVIOUS
<1>1. CASE UNCHANGED vars
  BY <1>1 DEF Typed, TypeOK, Chained, Written, Writing, vars
<1>2. CASE \E e \in Entities : \E cs \in Answers[e] : Federate(e, cs)
  BY <1>2, FederateIsTyped
<1>3. CASE \E w \in Workers : \E r \in Requests : Receive(w, r)
  BY <1>3, ReceiveIsTyped
<1>4. CASE \E w \in Workers : Step(w)
  BY <1>4, CollectIsTyped, NoteChainIsTyped, ImportKeysIsTyped, SetupIsTyped,
     DoRegistrationIsTyped, RegisterKeysIsTyped, AddSecretIsTyped, StoreClientIsTyped, AliasIsTyped,
     AuthenticateIsTyped DEF Step
<1>. QED
  BY <1>1, <1>2, <1>3, <1>4 DEF Next

LEMMA AlwaysTyped == Spec => []Typed
<1>. QED
  BY InitIsTyped, NextIsTyped, PTL DEF Spec

\* Whatever requests come, on however many threads, the stores and the threads' own
\* variables keep their types.
THEOREM TypeCorrect == Spec => []TypeOK
<1>1. Typed => TypeOK
  BY DEF Typed
<1>. QED
  BY <1>1, AlwaysTyped, PTL

-----------------------------------------------------------------------------
(* The invariant                                                           *)

\* The secret of the request, and the client ID generated for it.
Token(w) == <<w, calls[w]>>

\* A worker that writes the database writes under its own token or, when registering
\* automatically, under the entity ID; what it has put under its token is its own.
Own(w) ==
  pc[w] \in Writing =>
    /\ client_id[w] = Token(w) \/ (client_id[w] = request[w].entity /\ ~Explicit(w))
    /\ client_id[w] = Token(w) =>
         cdb[Token(w)].client_id = Token(w) /\ cdb[Token(w)].secret = Token(w)

\* What it is about to store is what it was asked to register, with keys in place.
Filled(w) ==
  /\ pc[w] \in {"client_keys", "add_secret", "store"} =>
       /\ cinfo[w].client_id = client_id[w] /\ cinfo[w].metadata = Registered(w)
       /\ client_id[w] = Token(w) => cinfo[w].secret = Token(w)
  /\ pc[w] \in {"add_secret", "store"} => Included(Registered(w)) \subseteq keyjar[client_id[w]]
  /\ pc[w] = "store" => Token(w) \in keyjar[client_id[w]]

EntityKeys(w) ==
  (pc[w] = "setup" \/ pc[w] \in Writing) /\ ~Explicit(w) =>
    Included(Registered(w)) \subseteq keyjar[request[w].entity]

Stored(w) ==
  pc[w] = "alias" =>
    ~Explicit(w) /\ client_id[w] = Token(w) /\ cdb[Token(w)].metadata = Registered(w)

\* An answered registration is the one on file.
Done(w) ==
  result[w].status = "registered" =>
    /\ pc[w] = "idle" /\ calls[w] # 0
    /\ result[w].client_id = Token(w) /\ result[w].secret = Token(w)
    /\ result[w].anchor = Picked(w).anchor
    /\ Token(w) \in keyjar[Token(w)] /\ cdb[Token(w)] \in Entry
    /\ cdb[Token(w)].secret = Token(w) /\ cdb[Token(w)].metadata = Registered(w)

WorkerOK(w) == Own(w) /\ Filled(w) /\ EntityKeys(w) /\ Stored(w) /\ Done(w)

\* The request that a token is of does not write any more.
Finished(t) ==
  \/ t[2] < calls[t[1]]
  \/ t[2] = calls[t[1]] /\ pc[t[1]] \in {"authenticate", "idle"}

AliasesAreFinished ==
  \A e \in Entities : (cdb[e] # NoEntry /\ cdb[e].client_id # e) =>
    /\ Complete(cdb[e]) /\ cdb[e].client_id \in Tokens /\ Finished(cdb[e].client_id)
    /\ cdb[cdb[e].client_id] = cdb[e]

DatabaseOK ==
  ClientsComeFromVerifiedChains /\ RegisteredClientsHaveTheirKeys /\ AliasesAreFinished

IInv == Typed /\ DatabaseOK /\ \A w \in Workers : WorkerOK(w)

-----------------------------------------------------------------------------
(* What a worker does not disturb                                          *)

LEMMA SameChoice ==
  ASSUME NEW w, UNCHANGED config, request'[w] = request[w], chains'[w] = chains[w]
  PROVE  Picked(w)' = Picked(w) /\ Registered(w)' = Registered(w) /\ Explicit(w)' = Explicit(w)
<1>1. Picked(w)' = Picked(w) /\ Explicit(w)' = Explicit(w)
  BY DEF Picked, Explicit
<1>. QED
  BY <1>1 DEF Registered

\* A worker's own variables and its token's entry are its own, and no key is lost.
Alone(v) ==
  /\ UNCHANGED config
  /\ \A w \in Workers \ {v} :
       /\ pc'[w] = pc[w] /\ request'[w] = request[w] /\ chains'[w] = chains[w]
       /\ client_id'[w] = client_id[w] /\ cinfo'[w] = cinfo[w] /\ result'[w] = result[w]
       /\ calls'[w] = calls[w]
  /\ \A id \in ClientIds : keyjar[id] \subseteq keyjar'[id]
  /\ \A id \in Tokens \ {Token(v)} : cdb'[id] = cdb[id]

LEMMA OthersStayOK ==
  ASSUME Typed, NEW v, Alone(v), NEW w \in Workers \ {v}, WorkerOK(w)
  PROVE  WorkerOK(w)'
<1>1. /\ pc'[w] = pc[w] /\ request'[w] = request[w] /\ chains'[w] = chains[w]
      /\ client_id'[w] = client_id[w] /\ cinfo'[w] = cinfo[w] /\ result'[w] = result[w]
      /\ calls'[w] = calls[w] /\ UNCHANGED config
  BY DEF Alone
<1>2. /\ Picked(w)' = Picked(w) /\ Registered(w)' = Registered(w)
      /\ Explicit(w)' = Explicit(w) /\ Token(w)' = Token(w)
  BY <1>1, SameChoice DEF Token
<1>3. \A id \in ClientIds : keyjar[id] \subseteq keyjar'[id]
  BY DEF Alone
<1>4. calls[w] # 0 => Token(w) \in Tokens /\ Token(w) \in ClientIds
  BY RegistrationAssumption DEF Token, Tokens, ClientIds, Typed, TypeOK, RegistrationAssumption
<1>5. pc[w] # "idle" => calls[w] # 0
  BY DEF Typed, TypeOK
<1>6. calls[w] # 0 => cdb'[Token(w)] = cdb[Token(w)]
  BY <1>4 DEF Alone, Token
<1>7. pc[w] \in Writing => client_id[w] \in ClientIds
  BY DEF Typed, Written, Writing
<1>8. request[w].entity \in ClientIds
  BY RequestType DEF Typed, TypeOK, ClientIds
<1>9. Own(w)'
  BY <1>1, <1>2, <1>5, <1>6 DEF WorkerOK, Own, Writing
<1>10. Filled(w)'
  BY <1>1, <1>2, <1>3, <1>7 DEF WorkerOK, Filled, Writing
<1>11. EntityKeys(w)'
  BY <1>1, <1>2, <1>3, <1>8 DEF WorkerOK, EntityKeys
<1>12. Stored(w)'
  BY <1>1, <1>2, <1>5, <1>6 DEF WorkerOK, Stored
<1>13. Done(w)'
  BY <1>1, <1>2, <1>3, <1>4, <1>6 DEF WorkerOK, Done
<1>. QED
  BY <1>9, <1>10, <1>11, <1>12, <1>13 DEF WorkerOK

\* A worker touches no token's entry but its own.
LEMMA WritesOwnToken ==
  ASSUME Typed, NEW w \in Workers, pc[w] \in Writing, WorkerOK(w)
  PROVE  /\ client_id[w] \in ClientIds /\ request[w].entity \in Entities
         /\ Token(w) \in Tokens /\ Token(w) \notin Entities
         /\ \A id \in Tokens \ {Token(w)} : id # client_id[w] /\ id # request[w].entity
<1>1. Token(w) \in Tokens /\ Entities \cap Tokens = {}
  BY TokenType, RegistrationAssumption DEF Token, Writing, RegistrationAssumption, Typed
<1>2. request[w].entity \in Entities /\ client_id[w] \in ClientIds
  BY RequestType DEF Typed, TypeOK, Written, Writing
<1>. QED
  BY <1>1, <1>2 DEF WorkerOK, Own

LEMMA WorkersAreAlone ==
  ASSUME Typed, NEW w \in Workers, WorkerOK(w), Step(w) \/ \E r \in Requests : Receive(w, r)
  PROVE  Alone(w)
<1>1. \A v \in Workers \ {w} :
        /\ pc'[v] = pc[v] /\ request'[v] = request[v] /\ chains'[v] = chains[v]
        /\ client_id'[v] = client_id[v] /\ cinfo'[v] = cinfo[v] /\ result'[v] = result[v]
        /\ calls'[v] = calls[v]
  <2>. USE DEF Typed, TypeOK, Goto, Fail, Answer, locals
  <2>1. CASE \E r \in Requests : Receive(w, r)
    BY <2>1 DEF Receive
  <2>2. CASE Collect(w) \/ NoteChain(w) \/ ImportKeys(w)
    BY <2>2 DEF Collect, NoteChain, ImportKeys
  <2>3. CASE Setup(w) \/ DoRegistration(w) \/ AddSecret(w)
    BY <2>3 DEF Setup, DoRegistration, AddSecret, RefuseLate
  <2>4. CASE StoreClient(w) \/ Alias(w) \/ Authenticate(w)
    BY <2>4 DEF StoreClient, Alias, Authenticate
  <2>5. CASE RegisterKeys(w)
    BY <2>5 DEF RegisterKeys
  <2>. QED
    BY <2>1, <2>2, <2>3, <2>4, <2>5 DEF Step
<1>2. UNCHANGED config
  BY DEF Step, Receive, Collect, NoteChain, ImportKeys, Setup, DoRegistration, RegisterKeys,
         AddSecret, StoreClient, Alias, Authenticate
<1>3. \A id \in ClientIds : keyjar[id] \subseteq keyjar'[id]
  <2>1. CASE ImportKeys(w)
    <3>1. Registered(w) \in Metadata /\ request[w].entity \in ClientIds
      BY <2>1, RegisteredType, RequestType
      DEF Typed, TypeOK, Chained, Handling, ImportKeys, ClientIds
    <3>2. UNCHANGED keyjar \/ Import(request[w].entity, Registered(w))
      BY <2>1 DEF ImportKeys
    <3>. QED
      BY <3>1, <3>2, ImportIs DEF Typed, TypeOK
  <2>2. CASE RegisterKeys(w)
    <3>1. Registered(w) \in Metadata /\ client_id[w] \in ClientIds
      BY <2>2, RegisteredType
      DEF Typed, TypeOK, Chained, Handling, RegisterKeys, Written, Writing
    <3>. QED
      BY <2>2, <3>1, ImportIs DEF RegisterKeys, ImportClientKeys, Typed, TypeOK
  <2>3. CASE AddSecret(w)
    BY <2>3 DEF AddSecret, Typed, TypeOK
  <2>4. CASE \/ \E r \in Requests : Receive(w, r)
             \/ Collect(w) \/ NoteChain(w) \/ Setup(w) \/ DoRegistration(w)
             \/ StoreClient(w) \/ Alias(w) \/ Authenticate(w)
    BY <2>4 DEF Receive, Collect, NoteChain, Setup, DoRegistration, StoreClient, Alias,
                Authenticate, stores
  <2>. QED
    BY <2>1, <2>2, <2>3, <2>4 DEF Step
<1>4. \A id \in Tokens \ {Token(w)} : cdb'[id] = cdb[id]
  <2>1. CASE Setup(w)
    <3>1. Token(w) \in Tokens /\ request[w].entity \in Entities /\ Entities \cap Tokens = {}
      BY <2>1, TokenType, RequestType, RegistrationAssumption
      DEF Token, Setup, RegistrationAssumption, Typed, TypeOK
    <3>2. \/ UNCHANGED cdb
          \/ \E id \in {Token(w), request[w].entity} :
               \E c : cdb' = [cdb EXCEPT ![id] = c]
      BY <2>1 DEF Setup, Token
    <3>. QED
      BY <3>1, <3>2 DEF Typed, TypeOK, ClientIds
  <2>2. CASE StoreClient(w)
    <3>1. /\ cdb' = [cdb EXCEPT ![client_id[w]] = cinfo[w]]
          /\ \A id \in Tokens \ {Token(w)} : id # client_id[w]
      BY <2>2, WritesOwnToken DEF StoreClient, Writing
    <3>. QED
      BY <3>1 DEF Typed, TypeOK, ClientIds
  <2>3. CASE Alias(w)
    <3>1. /\ \A id \in Tokens \ {Token(w)} : id # client_id[w] /\ id # request[w].entity
          /\ client_id[w] \in ClientIds /\ cdb' = Aliased(w) /\ cdb[client_id[w]] \in Entry
      BY <2>3, WritesOwnToken DEF Alias, Writing, Typed, TypeOK, Written, Writing
    <3>2. \A i \in ClientIds \ {request[w].entity, client_id[w]} : Aliased(w)[i] = cdb[i]
      <4>. DEFINE e == request[w].entity
                  id == client_id[w]
                  new == [cdb[id] EXCEPT !.entity_id = e]
      <4>1. /\ cdb' \in [ClientIds -> Entry \cup {NoEntry}] /\ new \in Entry
            /\ cdb'[e] = new /\ cdb'[id] = new
            /\ \A i \in ClientIds \ {e, id} : cdb'[i] = cdb[i]
        BY <3>1, AliasedIs DEF Typed
      <4>. QED
        BY <3>1, <4>1
    <3>. QED
      BY <3>1, <3>2 DEF ClientIds
  <2>4. CASE \/ \E r \in Requests : Receive(w, r)
             \/ Collect(w) \/ NoteChain(w) \/ ImportKeys(w) \/ DoRegistration(w)
             \/ RegisterKeys(w) \/ AddSecret(w) \/ Authenticate(w)
    BY <2>4 DEF Receive, Collect, NoteChain, ImportKeys, DoRegistration, RegisterKeys,
                AddSecret, Authenticate, stores
  <2>. QED
    BY <2>1, <2>2, <2>3, <2>4 DEF Step
<1>. QED
  BY <1>1, <1>2, <1>3, <1>4 DEF Alone

LEMMA FinishedStays ==
  ASSUME Typed, NEW w \in Workers, Step(w) \/ \E r \in Requests : Receive(w, r),
         NEW t \in Tokens, Finished(t)
  PROVE  Finished(t)'
<1>1. t[1] \in Workers /\ t[2] \in Nat /\ \A v \in Workers : calls[v] \in Nat
  BY RegistrationAssumption DEF Tokens, Typed, TypeOK, RegistrationAssumption
<1>2. CASE \E r \in Requests : Receive(w, r)
  <2>1. calls' = [calls EXCEPT ![w] = @ + 1] /\ \A v \in Workers \ {w} : pc'[v] = pc[v]
    BY <1>2 DEF Receive, Goto, Fail, Answer, Typed, TypeOK
  <2>2. CASE t[1] = w
    BY <1>1, <2>1, <2>2 DEF Finished, Typed, TypeOK
  <2>3. CASE t[1] # w
    BY <1>1, <2>1, <2>3 DEF Finished, Typed, TypeOK
  <2>. QED
    BY <2>2, <2>3
<1>3. CASE Step(w)
  <2>1. UNCHANGED calls /\ pc[w] # "idle" /\ \A v \in Workers \ {w} : pc'[v] = pc[v]
    <3>. USE DEF Typed, TypeOK, Goto, Fail, Answer
    <3>1. CASE Collect(w) \/ NoteChain(w) \/ ImportKeys(w) \/ Setup(w)
      BY <3>1 DEF Collect, NoteChain, ImportKeys, Setup
    <3>2. CASE DoRegistration(w) \/ RegisterKeys(w) \/ AddSecret(w) \/ StoreClient(w)
      BY <3>2 DEF DoRegistration, RefuseLate, RegisterKeys, AddSecret, StoreClient
    <3>3. CASE Alias(w) \/ Authenticate(w)
      BY <3>3 DEF Alias, Authenticate
    <3>. QED
      BY <1>3, <3>1, <3>2, <3>3 DEF Step
  <2>2. pc[w] = "authenticate" => pc'[w] = "idle"
    BY <1>3 DEF Step, Collect, NoteChain, ImportKeys, Setup, DoRegistration,
                RegisterKeys, AddSecret, StoreClient, Alias, Authenticate, Fail, Answer, Goto,
                Typed, TypeOK
  <2>. QED
    BY <1>1, <2>1, <2>2 DEF Finished
<1>. QED
  BY <1>2, <1>3

LEMMA DatabaseStays ==
  ASSUME Typed, DatabaseOK, UNCHANGED cdb,
         \A id \in ClientIds : keyjar[id] \subseteq keyjar'[id],
         \A t \in Tokens : Finished(t) => Finished(t)'
  PROVE  DatabaseOK'
<1>1. ClientsComeFromVerifiedChains'
  BY DEF DatabaseOK, ClientsComeFromVerifiedChains, Complete, Vouched
<1>2. RegisteredClientsHaveTheirKeys'
  BY DEF DatabaseOK, RegisteredClientsHaveTheirKeys, Complete, Included
<1>3. AliasesAreFinished'
  BY DEF DatabaseOK, AliasesAreFinished, Complete
<1>. QED
  BY <1>1, <1>2, <1>3 DEF DatabaseOK

-----------------------------------------------------------------------------
(* Every step preserves it                                                 *)

\* Nothing is asked of a worker that has not come to the keys, or has given up.
LEMMA EarlyIsOK ==
  ASSUME Typed, NEW w \in Workers, NEW label, NEW a, Moves(w, label, a),
         label \notin Writing \cup {"setup"}, a.status # "registered"
  PROVE  WorkerOK(w)'
  BY DEF WorkerOK, Own, Filled, EntityKeys, Stored, Done, Writing, Moves, Typed, TypeOK

LEMMA NotDoneYet ==
  ASSUME Typed, NEW w \in Workers, pc[w] # "idle", WorkerOK(w)
  PROVE  result[w].status # "registered"
  BY DEF WorkerOK, Done

LEMMA FirstStepsAreOK ==
  ASSUME Typed, NEW w \in Workers, WorkerOK(w),
         \/ \E r \in Requests : Receive(w, r)
         \/ Collect(w) \/ NoteChain(w) \/ Authenticate(w)
  PROVE  WorkerOK(w)'
<1>1. CASE \E r \in Requests : Receive(w, r)
  <2>1. \E label \in {"collect", "authenticate", "idle"} : \E a :
          Moves(w, label, a) /\ a.status # "registered"
    BY <1>1, ReceiveMoves
  <2>. QED
    BY <2>1, EarlyIsOK DEF Writing
<1>2. CASE Collect(w) \/ NoteChain(w)
  <2>1. result[w].status # "registered"
    BY <1>2, NotDoneYet DEF Collect, NoteChain
  <2>2. \E label \in {"note_chain", "import_keys", "idle"} : \E a :
          Moves(w, label, a) /\ a.status # "registered"
    BY <1>2, <2>1, GotoIs DEF Collect, NoteChain, Fail, Goto, Answer, Moves, Result, Typed, TypeOK
  <2>. QED
    BY <2>2, EarlyIsOK DEF Writing
<1>3. CASE Authenticate(w)
  <2>1. \E a : Moves(w, "idle", a) /\ a.status # "registered"
    BY <1>3, AuthenticateMoves
  <2>. QED
    BY <2>1, EarlyIsOK DEF Writing
<1>. QED
  BY <1>1, <1>2, <1>3

LEMMA ImportKeysIsOK ==
  ASSUME Typed, NEW w \in Workers, WorkerOK(w), ImportKeys(w)
  PROVE  WorkerOK(w)'
<1>1. CASE Fail(w, "key_error")
  <2>1. \E a : Moves(w, "idle", a) /\ a.status # "registered"
    BY <1>1, FailIs DEF Typed, Statuses
  <2>. QED
    BY <2>1, EarlyIsOK DEF Writing
<1>2. CASE Goto(w, "setup") /\ UNCHANGED result
  <2>1. /\ pc'[w] = "setup" /\ result'[w].status # "registered"
        /\ Registered(w)' = Registered(w) /\ Explicit(w)' = Explicit(w)
    BY <1>2, NotDoneYet, SameChoice DEF ImportKeys, Goto, Typed, TypeOK, locals
  <2>2. ~Explicit(w) => Included(Registered(w)) \subseteq keyjar'[request[w].entity]
    <3>1. /\ request[w].entity \in ClientIds /\ Registered(w) \in Metadata
          /\ keyjar \in [ClientIds -> SUBSET (Keys \cup Tokens)]
      BY RequestType, RegisteredType DEF Typed, TypeOK, Chained, Handling, ImportKeys, ClientIds
    <3>2. ~Explicit(w) => Import(request[w].entity, Registered(w))
      BY <1>2 DEF ImportKeys, Fail, Answer, Goto, Typed, TypeOK
    <3>. QED
      BY <3>1, <3>2, ImportIs
  <2>3. UNCHANGED request
    BY DEF ImportKeys, locals
  <2>4. EntityKeys(w)'
    BY <2>1, <2>2, <2>3 DEF EntityKeys
  <2>. QED
    BY <2>1, <2>4 DEF WorkerOK, Own, Filled, Stored, Done, Writing
<1>. QED
  BY <1>1, <1>2 DEF ImportKeys

LEMMA SetupIsOK ==
  ASSUME Typed, NEW w \in Workers, WorkerOK(w), Setup(w)
  PROVE  WorkerOK(w)'
<1>1. CASE Fail(w, "refused")
  <2>1. \E a : Moves(w, "idle", a) /\ a.status # "registered"
    BY <1>1, FailIs DEF Typed, Statuses
  <2>. QED
    BY <2>1, EarlyIsOK DEF Writing
<1>2. CASE ~Mismatch(w)
  <2>. DEFINE id == IF NewId(w) THEN Token(w) ELSE request[w].entity
  <2>1. /\ client_id' = [client_id EXCEPT ![w] = id]
        /\ cdb' = [cdb EXCEPT ![id] = [client_id |-> id, secret |-> Token(w),
                                       metadata |-> NoMetadata, entity_id |-> NoOne]]
        /\ pc' = [pc EXCEPT ![w] = "register"] /\ pc[w] = "setup"
        /\ UNCHANGED <<config, keyjar, request, chains, calls, result>>
    BY <1>2 DEF Setup, Token, Goto, Fail, Answer
  <2>2. id \in ClientIds /\ request[w].entity # Token(w)
    <3>1. Token(w) \in Tokens
      BY <2>1, TokenType DEF Token, Typed
    <3>2. request[w].entity \in Entities /\ Entities \cap Tokens = {}
      BY RequestType, RegistrationAssumption DEF Typed, TypeOK, RegistrationAssumption
    <3>. QED
      BY <3>1, <3>2 DEF ClientIds
  <2>3. ~NewId(w) => ~Explicit(w)
    BY DEF NewId, Explicit
  <2>4. client_id'[w] = id /\ cdb'[id].client_id = id /\ cdb'[id].secret = Token(w)
    <3>. HIDE DEF id
    <3>. QED
      BY <2>1, <2>2 DEF Typed, TypeOK
  <2>5. /\ pc'[w] = "register" /\ result'[w].status # "registered" /\ Token(w)' = Token(w)
        /\ Registered(w)' = Registered(w) /\ Explicit(w)' = Explicit(w)
    BY <2>1, NotDoneYet, SameChoice DEF Typed, TypeOK, Token
  <2>6. Own(w)'
    BY <2>1, <2>2, <2>3, <2>4, <2>5 DEF Own
  <2>7. EntityKeys(w)'
    BY <2>1, <2>5 DEF EntityKeys, WorkerOK
  <2>. QED
    BY <2>5, <2>6, <2>7 DEF WorkerOK, Filled, Stored, Done
<1>. QED
  BY <1>1, <1>2 DEF Setup

LEMMA DoRegistrationIsOK ==
  ASSUME Typed, NEW w \in Workers, WorkerOK(w), DoRegistration(w)
  PROVE  WorkerOK(w)'
<1>1. CASE Fail(w, "refused")
  <2>1. \E a : Moves(w, "idle", a) /\ a.status # "registered"
    BY <1>1, FailIs DEF Typed, Statuses
  <2>. QED
    BY <2>1, EarlyIsOK DEF Writing
<1>2. CASE ~IllegalUri(w)
  <2>. DEFINE id == client_id[w]
              m == Registered(w)
  <2>1. /\ cinfo' = [cinfo EXCEPT ![w] = [cdb[id] EXCEPT !.client_id = id, !.metadata = m]]
        /\ pc' = [pc EXCEPT ![w] = "client_keys"] /\ pc[w] = "register"
        /\ UNCHANGED <<config, cdb, keyjar, request, chains, client_id, calls, result>>
    BY <1>2 DEF DoRegistration, RefuseLate, Goto, Fail, Answer, stores
  <2>2. id \in ClientIds /\ cdb[id] \in Entry
    BY <2>1 DEF Typed, TypeOK, Written, Writing
  <2>3. /\ cinfo'[w].client_id = id /\ cinfo'[w].metadata = m
        /\ cinfo'[w].secret = cdb[id].secret
    <3>. HIDE DEF id, m
    <3>1. cinfo'[w] = [cdb[id] EXCEPT !.client_id = id, !.metadata = m]
      BY <2>1 DEF Typed, TypeOK
    <3>. QED
      BY <2>2, <3>1 DEF Entry
  <2>4. /\ pc'[w] = "client_keys" /\ result'[w].status # "registered" /\ Token(w)' = Token(w)
        /\ Registered(w)' = Registered(w) /\ Explicit(w)' = Explicit(w)
    BY <2>1, NotDoneYet, SameChoice DEF Typed, TypeOK, Token
  <2>5. Own(w)
    BY DEF WorkerOK
  <2>6. Own(w)' /\ (id = Token(w) => cinfo'[w].secret = Token(w))
    BY <2>1, <2>3, <2>4, <2>5 DEF Own, Writing
  <2>7. Filled(w)'
    BY <2>1, <2>3, <2>4, <2>6 DEF Filled
  <2>8. EntityKeys(w)'
    BY <2>1, <2>4 DEF EntityKeys, WorkerOK, Writing
  <2>. QED
    BY <2>4, <2>6, <2>7, <2>8 DEF WorkerOK, Stored, Done
<1>. QED
  BY <1>1, <1>2 DEF DoRegistration, RefuseLate

LEMMA RegisterKeysIsOK ==
  ASSUME Typed, NEW w \in Workers, WorkerOK(w), RegisterKeys(w)
  PROVE  WorkerOK(w)'
<1>1. /\ pc' = [pc EXCEPT ![w] = "add_secret"] /\ pc[w] = "client_keys"
      /\ UNCHANGED <<config, cdb, request, chains, client_id, cinfo, calls, result>>
  BY DEF RegisterKeys, Goto, locals
<1>2. /\ client_id[w] \in ClientIds /\ request[w].entity \in ClientIds
      /\ Registered(w) \in Metadata
  BY <1>1, RequestType, RegisteredType
  DEF Typed, TypeOK, Chained, Handling, Written, Writing, ClientIds
<1>3. /\ Included(Registered(w)) \subseteq keyjar'[client_id[w]]
      /\ \A i \in ClientIds : keyjar[i] \subseteq keyjar'[i]
  BY <1>2, ImportIs DEF RegisterKeys, ImportClientKeys, Typed, TypeOK
<1>4. /\ pc'[w] = "add_secret" /\ result'[w].status # "registered" /\ Token(w)' = Token(w)
      /\ Registered(w)' = Registered(w) /\ Explicit(w)' = Explicit(w)
  BY <1>1, NotDoneYet, SameChoice DEF Typed, TypeOK, Token
<1>5. Own(w)'
  BY <1>1, <1>4 DEF WorkerOK, Own, Writing
<1>6. Filled(w)'
  BY <1>1, <1>3, <1>4 DEF WorkerOK, Filled
<1>7. EntityKeys(w)'
  BY <1>1, <1>2, <1>3, <1>4 DEF WorkerOK, EntityKeys, Writing
<1>. QED
  BY <1>4, <1>5, <1>6, <1>7 DEF WorkerOK, Stored, Done

LEMMA AddSecretIsOK ==
  ASSUME Typed, NEW w \in Workers, WorkerOK(w), AddSecret(w)
  PROVE  WorkerOK(w)'
<1>1. /\ keyjar' = [keyjar EXCEPT ![client_id[w]] = @ \cup {Token(w)}]
      /\ pc' = [pc EXCEPT ![w] = "store"] /\ pc[w] = "add_secret"
      /\ UNCHANGED <<config, cdb, request, chains, client_id, cinfo, calls, result>>
  BY DEF AddSecret, Goto, Token, locals
<1>2. client_id[w] \in ClientIds /\ request[w].entity \in ClientIds
  BY <1>1, RequestType DEF Typed, TypeOK, Written, Writing, ClientIds
<1>3. Token(w) \in keyjar'[client_id[w]] /\ \A i \in ClientIds : keyjar[i] \subseteq keyjar'[i]
  BY <1>1, <1>2 DEF Typed, TypeOK
<1>4. /\ pc'[w] = "store" /\ result'[w].status # "registered" /\ Token(w)' = Token(w)
      /\ Registered(w)' = Registered(w) /\ Explicit(w)' = Explicit(w)
  BY <1>1, NotDoneYet, SameChoice DEF Typed, TypeOK, Token
<1>5. Own(w)'
  BY <1>1, <1>4 DEF WorkerOK, Own, Writing
<1>6. Filled(w)'
  BY <1>1, <1>2, <1>3, <1>4 DEF WorkerOK, Filled
<1>7. EntityKeys(w)'
  BY <1>1, <1>2, <1>3, <1>4 DEF WorkerOK, EntityKeys, Writing
<1>. QED
  BY <1>4, <1>5, <1>6, <1>7 DEF WorkerOK, Stored, Done

LEMMA StoreClientIsOK ==
  ASSUME Typed, NEW w \in Workers, WorkerOK(w), StoreClient(w)
  PROVE  WorkerOK(w)'
<1>1. /\ cdb' = [cdb EXCEPT ![client_id[w]] = cinfo[w]] /\ pc[w] = "store"
      /\ UNCHANGED <<config, keyjar, request, chains, client_id, cinfo, calls>>
  BY DEF StoreClient, locals
<1>2. /\ Picked(w)' = Picked(w) /\ Registered(w)' = Registered(w)
      /\ Explicit(w)' = Explicit(w) /\ Token(w)' = Token(w)
  BY <1>1, SameChoice DEF Token
<1>3. /\ client_id[w] \in ClientIds /\ cdb'[client_id[w]] = cinfo[w] /\ cinfo[w] \in Entry
      /\ calls[w] # 0
  BY <1>1 DEF Typed, TypeOK, Written, Writing
<1>4. /\ client_id[w] = Token(w) \/ (client_id[w] = request[w].entity /\ ~Explicit(w))
      /\ cinfo[w].client_id = client_id[w] /\ cinfo[w].metadata = Registered(w)
      /\ client_id[w] = Token(w) => cinfo[w].secret = Token(w)
      /\ Token(w) \in keyjar[client_id[w]]
  BY <1>1 DEF WorkerOK, Own, Filled, Writing
<1>5. CASE Explicit(w)
  <2>1. /\ pc' = [pc EXCEPT ![w] = "idle"]
        /\ result' = [result EXCEPT ![w] = [status |-> "registered", client_id |-> client_id[w],
                                            secret |-> cinfo[w].secret, anchor |-> AnchorOf(w)]]
    BY <1>5 DEF StoreClient, Answer, Goto, Result
  <2>2. /\ pc'[w] = "idle" /\ result'[w].status = "registered"
        /\ result'[w].client_id = client_id[w] /\ result'[w].secret = cinfo[w].secret
        /\ result'[w].anchor = Picked(w).anchor
    BY <2>1 DEF Typed, TypeOK, AnchorOf
  <2>3. Done(w)'
    BY <1>1, <1>2, <1>3, <1>4, <1>5, <2>2 DEF Done
  <2>. QED
    BY <2>2, <2>3 DEF WorkerOK, Own, Filled, EntityKeys, Stored, Writing
<1>6. CASE ~Explicit(w) /\ client_id[w] # request[w].entity
  <2>1. pc'[w] = "alias" /\ result'[w].status # "registered"
    BY <1>1, <1>6, NotDoneYet DEF StoreClient, Goto, Answer, Typed, TypeOK
  <2>2. client_id[w] = Token(w)
    BY <1>4, <1>6
  <2>3. Own(w)' /\ Stored(w)'
    BY <1>1, <1>2, <1>3, <1>4, <1>6, <2>1, <2>2 DEF Own, Stored
  <2>4. EntityKeys(w)'
    BY <1>1, <1>2 DEF WorkerOK, EntityKeys, Writing
  <2>. QED
    BY <2>1, <2>3, <2>4 DEF WorkerOK, Filled, Done
<1>7. CASE ~Explicit(w) /\ client_id[w] = request[w].entity
  <2>1. Moves(w, "authenticate", result[w]) /\ result[w].status # "registered"
    BY <1>1, <1>7, NotDoneYet DEF StoreClient, Goto, Answer, Moves, Typed, TypeOK
  <2>. QED
    BY <2>1, EarlyIsOK DEF Writing
<1>. QED
  BY <1>5, <1>6, <1>7

LEMMA AliasIsOK ==
  ASSUME Typed, NEW w \in Workers, WorkerOK(w), Alias(w)
  PROVE  WorkerOK(w)'
<1>1. Moves(w, "authenticate", result[w]) /\ result[w].status # "registered"
  BY NotDoneYet DEF Alias, Goto, Moves, Typed, TypeOK
<1>. QED
  BY <1>1, EarlyIsOK DEF Writing

LEMMA WorkerStaysOK ==
  ASSUME Typed, NEW w \in Workers, WorkerOK(w), Step(w) \/ \E r \in Requests : Receive(w, r)
  PROVE  WorkerOK(w)'
  BY FirstStepsAreOK, ImportKeysIsOK, SetupIsOK, DoRegistrationIsOK, RegisterKeysIsOK,
     AddSecretIsOK, StoreClientIsOK, AliasIsOK DEF Step

-----------------------------------------------------------------------------
(* The database                                                            *)

\* What an automatic registration stores comes from a verified chain, of the client's or
\* brought in its name.
LEMMA AutomaticIsVerified ==
  ASSUME Typed, NEW w \in Workers, pc[w] \in Handling, ~Explicit(w)
  PROVE  Vouched(request[w].entity, Registered(w))
<1>1. /\ chains[w] \in Seq(Chains) /\ Usable(chains[w]) # {} /\ request[w] \in Requests
      /\ \A i \in 1..Len(chains[w]) :
           chains[w][i].subject = request[w].entity \/ chains[w][i] = request[w].chain
  BY DEF Typed, TypeOK, Chained
<1>2. PICK i \in Usable(chains[w]) : Picked(w) = chains[w][i]
  BY <1>1, PickedIsUsable
<1>3. /\ Picked(w) \in Chains /\ Picked(w).valid
      /\ Picked(w).subject = request[w].entity \/ Picked(w) = request[w].chain
  BY <1>1, <1>2, PickedIsUsable DEF Usable
<1>4. Registered(w) = Picked(w).metadata
  BY DEF Registered
<1>. QED
  BY <1>1, <1>3, <1>4 DEF Vouched

\* One entry is written: a stub, or the client information of a finished form.  Entries
\* that are aliased are neither: their registration has finished.
LEMMA WriteIsOK ==
  ASSUME Typed, DatabaseOK, NEW id \in ClientIds, NEW c \in Entry,
         cdb' = [cdb EXCEPT ![id] = c], UNCHANGED keyjar,
         \A t \in Tokens : Finished(t) => Finished(t)' /\ t # id,
         c.client_id = id,
         Complete(c) => Included(c.metadata) \subseteq keyjar[id],
         Complete(c) /\ id \in Entities => Vouched(id, c.metadata)
  PROVE  DatabaseOK'
<1>1. cdb'[id] = c /\ \A i \in ClientIds \ {id} : cdb'[i] = cdb[i]
  BY DEF Typed, TypeOK
<1>2. ClientsComeFromVerifiedChains'
  <2>. SUFFICES ASSUME NEW e \in Entities, Complete(cdb'[e])
                PROVE  Vouched(e, cdb'[e].metadata)
    BY DEF ClientsComeFromVerifiedChains, Complete, Vouched
  <2>1. CASE e = id
    BY <1>1, <2>1
  <2>2. CASE e # id
    BY <1>1, <2>2 DEF DatabaseOK, ClientsComeFromVerifiedChains, ClientIds
  <2>. QED
    BY <2>1, <2>2
<1>3. RegisteredClientsHaveTheirKeys'
  <2>. SUFFICES ASSUME NEW i \in ClientIds, Complete(cdb'[i])
                PROVE  Included(cdb'[i].metadata) \subseteq keyjar[i]
    BY DEF RegisteredClientsHaveTheirKeys, Complete, Included
  <2>. QED
    BY <1>1 DEF DatabaseOK, RegisteredClientsHaveTheirKeys
<1>4. AliasesAreFinished'
  <2>. SUFFICES ASSUME NEW e \in Entities, (cdb[e] # NoEntry /\ cdb[e].client_id # e)'
                PROVE  (/\ Complete(cdb[e]) /\ cdb[e].client_id \in Tokens
                        /\ Finished(cdb[e].client_id)
                        /\ cdb[cdb[e].client_id] = cdb[e])'
    BY DEF AliasesAreFinished
  <2>1. cdb'[e] = cdb[e] /\ e \in ClientIds
    BY <1>1 DEF ClientIds
  <2>2. /\ Complete(cdb[e]) /\ cdb[e].client_id \in Tokens /\ Finished(cdb[e].client_id)
        /\ cdb[cdb[e].client_id] = cdb[e]
    BY <2>1 DEF DatabaseOK, AliasesAreFinished
  <2>3. PICK t \in Tokens : t = cdb[e].client_id
    BY <2>2
  <2>4. t # id /\ Finished(t)'
    <3>1. Finished(t)
      BY <2>2, <2>3
    <3>. QED
      BY <3>1
  <2>5. t \in ClientIds
    BY DEF ClientIds
  <2>. QED
    BY <1>1, <2>1, <2>2, <2>3, <2>4, <2>5 DEF Complete, Finished
<1>. QED
  BY <1>2, <1>3, <1>4 DEF DatabaseOK

LEMMA WritersAreUnfinished ==
  ASSUME Typed, NEW w \in Workers, pc[w] \notin {"authenticate", "idle"}
  PROVE  ~Finished(Token(w))
  BY RegistrationAssumption DEF Finished, Token, Typed, TypeOK, RegistrationAssumption

LEMMA SetupKeepsDatabase ==
  ASSUME Typed, DatabaseOK, NEW w \in Workers, Setup(w),
         \A t \in Tokens : Finished(t) => Finished(t)'
  PROVE  DatabaseOK'
<1>1. CASE UNCHANGED cdb
  BY <1>1, DatabaseStays DEF Setup, Typed, TypeOK
<1>2. CASE ~Mismatch(w) /\ cdb' # cdb
  <2>. DEFINE id == IF NewId(w) THEN Token(w) ELSE request[w].entity
              c == [client_id |-> id, secret |-> Token(w), metadata |-> NoMetadata,
                    entity_id |-> NoOne]
  <2>1. cdb' = [cdb EXCEPT ![id] = c] /\ UNCHANGED keyjar /\ pc[w] = "setup"
    BY <1>2 DEF Setup, Token
  <2>2. /\ Token(w) \in Tokens /\ request[w].entity \in Entities /\ Entities \cap Tokens = {}
        /\ Token(w) \in ClientIds
    <3>1. Token(w) \in Tokens /\ Token(w) \in ClientIds
      BY <2>1, TokenType DEF Token, Typed
    <3>2. request[w].entity \in Entities /\ Entities \cap Tokens = {}
      BY RequestType, RegistrationAssumption DEF Typed, TypeOK, RegistrationAssumption
    <3>. QED
      BY <3>1, <3>2
  <2>3. id \in ClientIds /\ \A t \in Tokens : Finished(t) => t # id
    BY <2>1, <2>2, WritersAreUnfinished DEF ClientIds
  <2>4. c \in Entry /\ c.client_id = id /\ ~Complete(c)
    <3>. HIDE DEF id
    <3>1. c \in Entry
      BY <2>2, <2>3 DEF Entry
    <3>. QED
      BY <3>1 DEF Complete
  <2>. HIDE DEF id, c
  <2>. QED
    BY <2>1, <2>3, <2>4, WriteIsOK
<1>. QED
  BY <1>1, <1>2 DEF Setup

LEMMA StoreClientKeepsDatabase ==
  ASSUME Typed, DatabaseOK, NEW w \in Workers, WorkerOK(w), StoreClient(w),
         \A t \in Tokens : Finished(t) => Finished(t)'
  PROVE  DatabaseOK'
<1>. DEFINE id == client_id[w]
            c == cinfo[w]
<1>1. cdb' = [cdb EXCEPT ![id] = c] /\ UNCHANGED keyjar /\ pc[w] = "store"
  BY DEF StoreClient
<1>2. id \in ClientIds /\ c \in Entry
  BY <1>1 DEF Typed, TypeOK, Written, Writing
<1>3. /\ id = Token(w) \/ (id = request[w].entity /\ ~Explicit(w))
      /\ c.client_id = id /\ c.metadata = Registered(w)
      /\ Included(Registered(w)) \subseteq keyjar[id]
  BY <1>1 DEF WorkerOK, Own, Filled, Writing
<1>4. /\ Token(w) \in Tokens /\ request[w].entity \in Entities /\ Entities \cap Tokens = {}
  BY <1>1, TokenType, RequestType, RegistrationAssumption
  DEF Token, Typed, TypeOK, RegistrationAssumption
<1>5. \A t \in Tokens : Finished(t) => t # id
  BY <1>1, <1>3, <1>4, WritersAreUnfinished
<1>6. Complete(c) /\ id \in Entities => Vouched(id, c.metadata)
  <2>1. id \in Entities => id = request[w].entity /\ ~Explicit(w)
    BY <1>3, <1>4
  <2>. QED
    BY <1>1, <1>3, <2>1, AutomaticIsVerified DEF Handling
<1>. HIDE DEF id, c
<1>. QED
  BY <1>1, <1>2, <1>3, <1>5, <1>6, WriteIsOK

LEMMA AliasKeepsDatabase ==
  ASSUME Typed, DatabaseOK, NEW w \in Workers, WorkerOK(w), Alias(w),
         \A t \in Tokens : Finished(t) => Finished(t)'
  PROVE  DatabaseOK'
<1>. DEFINE e == request[w].entity
            id == Token(w)
            new == [cdb[id] EXCEPT !.entity_id = e]
<1>1. /\ pc[w] = "alias" /\ client_id[w] = id /\ ~Explicit(w) /\ cdb' = Aliased(w)
      /\ cdb[id].client_id = id /\ cdb[id].metadata = Registered(w)
      /\ UNCHANGED <<keyjar, calls>>
  BY DEF Alias, WorkerOK, Own, Stored, Writing
<1>2. /\ id \in Tokens /\ id \in ClientIds /\ e \in Entities /\ e \in ClientIds /\ e # id
      /\ \A t \in Tokens : t \notin Entities
  <2>1. id \in Tokens
    BY <1>1, TokenType DEF Token, Typed
  <2>2. e \in Entities /\ \A t \in Tokens : t \notin Entities
    BY RequestType, RegistrationAssumption DEF Typed, TypeOK, RegistrationAssumption
  <2>. QED
    BY <2>1, <2>2 DEF ClientIds
<1>3. cdb[id] \in Entry
  BY <1>1 DEF Typed, TypeOK, Written, Writing
<1>4. /\ new \in Entry /\ cdb'[e] = new /\ cdb'[id] = new
      /\ \A i \in ClientIds \ {e, id} : cdb'[i] = cdb[i]
  BY <1>1, <1>2, <1>3, AliasedIs DEF Typed
<1>5. Registered(w) \in Metadata
  BY <1>1, RegisteredType DEF Typed, Chained, Handling
<1>6. new.client_id = id /\ new.metadata = Registered(w) /\ Complete(new) /\ Complete(cdb[id])
  <2>1. new.client_id = id /\ new.metadata = Registered(w)
    BY <1>1, <1>3 DEF Entry
  <2>2. new # NoEntry /\ cdb[id] # NoEntry /\ Registered(w) # NoMetadata
    BY <1>3, <1>4, <1>5, EntryIsNotNoEntry, RegistrationAssumption DEF RegistrationAssumption
  <2>. HIDE DEF new
  <2>. QED
    BY <1>1, <2>1, <2>2 DEF Complete
<1>7. /\ Included(Registered(w)) \subseteq keyjar[e]
      /\ Included(Registered(w)) \subseteq keyjar[id]
  BY <1>1, <1>2, <1>6
  DEF WorkerOK, EntityKeys, Writing, DatabaseOK, RegisteredClientsHaveTheirKeys
<1>8. Vouched(e, Registered(w))
  BY <1>1, AutomaticIsVerified DEF Handling
<1>9. Finished(id)'
  <2>1. pc'[w] = "authenticate"
    BY DEF Alias, Goto, Typed, TypeOK
  <2>. QED
    BY <1>1, <2>1 DEF Finished, Token
<1>10. \A t \in Tokens : Finished(t) => t # id
  BY <1>1, WritersAreUnfinished
<1>11. (id)' = id
  BY <1>1 DEF Token
<1>12. PICK f \in Entities : f = e
  BY <1>2
<1>13. PICK t \in Tokens : t = id
  BY <1>2
<1>. HIDE DEF new, e, id
<1>14. ClientsComeFromVerifiedChains'
  <2>. SUFFICES ASSUME NEW g \in Entities, Complete(cdb'[g])
                PROVE  Vouched(g, cdb'[g].metadata)
    BY DEF ClientsComeFromVerifiedChains, Complete, Vouched
  <2>1. CASE g = e
    BY <1>4, <1>6, <1>8, <2>1
  <2>2. CASE g # e
    <3>1. cdb'[g] = cdb[g]
      BY <1>2, <1>4, <2>2 DEF ClientIds
    <3>. QED
      BY <3>1 DEF DatabaseOK, ClientsComeFromVerifiedChains
  <2>. QED
    BY <2>1, <2>2
<1>15. RegisteredClientsHaveTheirKeys'
  <2>. SUFFICES ASSUME NEW i \in ClientIds, Complete(cdb'[i])
                PROVE  Included(cdb'[i].metadata) \subseteq keyjar[i]
    BY <1>1 DEF RegisteredClientsHaveTheirKeys, Complete, Included
  <2>1. CASE i \in {e, id}
    BY <1>4, <1>6, <1>7, <2>1
  <2>2. CASE i \notin {e, id}
    BY <1>4, <2>2 DEF DatabaseOK, RegisteredClientsHaveTheirKeys
  <2>. QED
    BY <2>1, <2>2
<1>16. AliasesAreFinished'
  <2>. SUFFICES ASSUME NEW g \in Entities, (cdb[g] # NoEntry /\ cdb[g].client_id # g)'
                PROVE  (/\ Complete(cdb[g]) /\ cdb[g].client_id \in Tokens
                        /\ Finished(cdb[g].client_id)
                        /\ cdb[cdb[g].client_id] = cdb[g])'
    BY DEF AliasesAreFinished
  <2>1. CASE g = f
    <3>1. cdb'[g] = new /\ new.client_id = t /\ cdb'[t] = new /\ Finished(t)'
      <4>1. Finished(t)'
        BY <1>9, <1>11, <1>13 DEF Finished
      <4>. QED
        BY <1>4, <1>6, <1>12, <1>13, <2>1, <4>1
    <3>. QED
      BY <1>6, <3>1 DEF Complete, Finished
  <2>2. CASE g # f
    <3>1. cdb'[g] = cdb[g]
      BY <1>2, <1>4, <1>12, <2>2 DEF ClientIds
    <3>2. /\ Complete(cdb[g]) /\ cdb[g].client_id \in Tokens /\ Finished(cdb[g].client_id)
          /\ cdb[cdb[g].client_id] = cdb[g]
      BY <3>1 DEF DatabaseOK, AliasesAreFinished
    <3>3. PICK u \in Tokens : u = cdb[g].client_id
      BY <3>2
    <3>4. u # id /\ u # e /\ Finished(u)' /\ u \in ClientIds
      <4>1. Finished(u)
        BY <3>2, <3>3
      <4>. QED
        BY <1>2, <1>10, <4>1 DEF ClientIds
    <3>5. cdb'[u] = cdb[u]
      BY <1>4, <3>4
    <3>. QED
      BY <3>1, <3>2, <3>3, <3>4, <3>5 DEF Complete, Finished
  <2>. QED
    BY <2>1, <2>2
<1>. QED
  BY <1>14, <1>15, <1>16 DEF DatabaseOK

-----------------------------------------------------------------------------
(* Theorems                                                                *)

LEMMA InitIsOK == Init => IInv
<1>. SUFFICES ASSUME Init
              PROVE  IInv
  OBVIOUS
<1>1. \A id \in ClientIds : cdb[id] = NoEntry
  BY DEF Init
<1>2. DatabaseOK
  BY <1>1 DEF DatabaseOK, ClientsComeFromVerifiedChains, RegisteredClientsHaveTheirKeys,
              AliasesAreFinished, Complete, ClientIds
<1>3. \A w \in Workers : WorkerOK(w)
  BY DEF Init, WorkerOK, Own, Filled, EntityKeys, Stored, Done, Writing, NoResult, Result
<1>. QED
  BY <1>2, <1>3, InitIsTyped DEF IInv

LEMMA WorkersPreserve ==
  ASSUME IInv, NEW w \in Workers, Step(w) \/ \E r \in Requests : Receive(w, r)
  PROVE  IInv'
<1>1. Typed' /\ Alone(w) /\ \A v \in Workers : WorkerOK(v)'
  <2>1. Typed'
    BY NextIsTyped DEF IInv, Next
  <2>2. Alone(w)
    BY WorkersAreAlone DEF IInv
  <2>. QED
    BY <2>1, <2>2, OthersStayOK, WorkerStaysOK DEF IInv
<1>2. \A t \in Tokens : Finished(t) => Finished(t)'
  BY FinishedStays DEF IInv
<1>3. DatabaseOK'
  <2>1. CASE Setup(w) \/ StoreClient(w) \/ Alias(w)
    BY <1>2, <2>1, SetupKeepsDatabase, StoreClientKeepsDatabase, AliasKeepsDatabase DEF IInv
  <2>2. CASE \/ \E r \in Requests : Receive(w, r)
             \/ Collect(w) \/ NoteChain(w) \/ ImportKeys(w) \/ DoRegistration(w)
             \/ RegisterKeys(w) \/ AddSecret(w) \/ Authenticate(w)
    <3>1. UNCHANGED cdb
      BY <2>2 DEF Receive, Collect, NoteChain, ImportKeys, DoRegistration, RegisterKeys,
                  AddSecret, Authenticate, stores
    <3>. QED
      BY <1>1, <1>2, <3>1, DatabaseStays DEF IInv, Alone
  <2>. QED
    BY <2>1, <2>2 DEF Step
<1>. QED
  BY <1>1, <1>3 DEF IInv

LEMMA NextPreserves == IInv /\ [Next]_vars => IInv'
<1>. SUFFICES ASSUME IInv, [Next]_vars
              PROVE  IInv'
  OBVIOUS
<1>1. CASE \E w \in Workers : Step(w) \/ \E r \in Requests : Receive(w, r)
  BY <1>1, WorkersPreserve
<1>2. CASE UNCHANGED <<config, cdb, keyjar, pc, request, chains, client_id, cinfo, result, calls>>
  <2>1. Typed'
    BY NextIsTyped DEF IInv
  <2>2. DatabaseOK'
    <3>1. \A t \in Tokens : Finished(t) => Finished(t)'
      BY <1>2 DEF Finished
    <3>. QED
      BY <1>2, <3>1, DatabaseStays DEF IInv
  <2>3. \A w \in Workers : WorkerOK(w)'
    <3>. SUFFICES ASSUME NEW w \in Workers
                  PROVE  WorkerOK(w)'
      OBVIOUS
    <3>1. /\ Picked(w)' = Picked(w) /\ Registered(w)' = Registered(w)
          /\ Explicit(w)' = Explicit(w) /\ Token(w)' = Token(w)
      BY <1>2, SameChoice DEF Token
    <3>2. WorkerOK(w)
      BY DEF IInv
    <3>. QED
      BY <1>2, <3>1, <3>2 DEF WorkerOK, Own, Filled, EntityKeys, Stored, Done
  <2>. QED
    BY <2>1, <2>2, <2>3 DEF IInv
<1>. QED
  BY <1>1, <1>2 DEF Next, Federate, stores, locals, vars

LEMMA Invariant == Spec => []IInv
<1>. QED
  BY InitIsOK, NextPreserves, PTL DEF Spec

\* Whatever requests race with one another, on any number of threads: a client known by
\* its entity ID has metadata of a verified chain, its own or one brought in its name.
THEOREM RegistrationNeedsAChain == Spec => []ClientsComeFromVerifiedChains
<1>1. IInv => ClientsComeFromVerifiedChains
  BY DEF IInv, DatabaseOK
<1>. QED
  BY <1>1, Invariant, PTL

\* A registration that can be seen to be complete has its keys, under either ID.
THEOREM RegistrationBringsKeys == Spec => []RegisteredClientsHaveTheirKeys
<1>1. IInv => RegisteredClientsHaveTheirKeys
  BY DEF IInv, DatabaseOK
<1>. QED
  BY <1>1, Invariant, PTL

\* The secret that was answered is the one on file and the one in the key jar.
THEOREM SecretsKeepWorking == Spec => []IssuedSecretsWork
<1>1. IInv => IssuedSecretsWork
  BY DEF IInv, WorkerOK, Done, IssuedSecretsWork
<1>. QED
  BY <1>1, Invariant, PTL

\* The anchor that was answered is that of a chain of the client's, and the client is
\* on file with the metadata of that chain.
THEOREM AnswersAreTrue == Spec => []AnswersNameTheirAnchor
<1>1. IInv => AnswersNameTheirAnchor
  <2>. SUFFICES ASSUME IInv, NEW w \in Workers, result[w].status = "registered"
                PROVE  \E i \in Usable(chains[w]) :
                         /\ chains[w][i].anchor = result[w].anchor
                         /\ \/ config.protocol = "oidc"
                            \/ cdb[result[w].client_id].metadata = chains[w][i].metadata
    BY DEF AnswersNameTheirAnchor
  <2>1. /\ result[w].anchor = Picked(w).anchor
        /\ cdb[result[w].client_id].metadata = Registered(w)
    BY DEF IInv, WorkerOK, Done
  <2>2. PICK i \in Usable(chains[w]) : Picked(w) = chains[w][i]
    BY PickedIsUsable DEF IInv, Typed, TypeOK, Chained
  <2>3. config.protocol # "oidc" => Registered(w) = Picked(w).metadata
    BY DEF Registered
  <2>. QED
    BY <2>1, <2>2, <2>3
<1>. QED
  BY <1>1, Invariant, PTL

\* An entity ID that stands for a generated ID stands for a registration that is
\* complete, and both show the same.
THEOREM AliasesStayAlike == Spec => []AliasesAgree
<1>1. IInv => AliasesAgree
  BY DEF IInv, DatabaseOK, AliasesAreFinished, AliasesAgree
<1>. QED
  BY <1>1, Invariant, PTL

-----------------------------------------------------------------------------
(* Registrations stand                                                     *)

\* A generated ID is not complete before its request has stored it.
Fresh ==
  \A t \in Tokens :
    \/ t[2] > calls[t[1]]
    \/ /\ t[2] = calls[t[1]]
       /\ pc[t[1]] \in {"collect", "note_chain", "import_keys", "setup", "register",
                        "client_keys", "add_secret", "store"}
    => ~Complete(cdb[t])

\* What is complete under a generated ID stays so, with the same metadata.
Stands ==
  \A t \in Tokens : Complete(cdb[t]) =>
    Complete(cdb'[t]) /\ cdb'[t].metadata = cdb[t].metadata

LEMMA InitIsFresh == Init => Fresh
  BY DEF Init, Fresh, Complete, ClientIds

LEMMA WorkersStand ==
  ASSUME IInv, Fresh, NEW w \in Workers, Step(w) \/ \E r \in Requests : Receive(w, r)
  PROVE  Fresh' /\ Stands
<1>1. Typed /\ Alone(w) /\ WorkerOK(w)
  BY WorkersAreAlone DEF IInv
<1>2. \A t \in Tokens \ {Token(w)} : cdb'[t] = cdb[t]
  BY <1>1 DEF Alone
<1>3. \A v \in Workers \ {w} : pc'[v] = pc[v] /\ calls'[v] = calls[v]
  BY <1>1 DEF Alone
<1>4. calls \in [Workers -> Nat] /\ \A t \in Tokens : t[1] \in Workers /\ t[2] \in Nat
  BY <1>1, RegistrationAssumption DEF Typed, TypeOK, Tokens, RegistrationAssumption
<1>5. \A t \in Tokens : t[1] = w /\ t[2] = calls[w] <=> t = Token(w)
  BY DEF Tokens, Token
<1>6. CASE UNCHANGED cdb /\ UNCHANGED calls /\ pc[w] # "idle"
           /\ (pc'[w] \in {"note_chain", "import_keys", "setup", "register", "client_keys",
                           "add_secret", "store"}
                 => pc[w] \in {"collect", "note_chain", "import_keys", "setup", "register",
                               "client_keys", "add_secret"})
           /\ pc'[w] # "collect"
  BY <1>3, <1>4, <1>6 DEF Fresh, Stands, Complete
<1>7. CASE \E r \in Requests : Receive(w, r)
  <2>1. UNCHANGED cdb /\ calls' = [calls EXCEPT ![w] = @ + 1]
    BY <1>7 DEF Receive, stores
  <2>2. calls'[w] = calls[w] + 1 /\ calls'[w] \in Nat
    BY <1>4, <2>1
  <2>. QED
    BY <1>3, <1>4, <2>1, <2>2 DEF Fresh, Stands, Complete
<1>8. CASE Setup(w) /\ cdb' # cdb
  <2>. DEFINE id == IF NewId(w) THEN Token(w) ELSE request[w].entity
              c == [client_id |-> id, secret |-> Token(w), metadata |-> NoMetadata,
                    entity_id |-> NoOne]
  <2>1. /\ cdb' = [cdb EXCEPT ![id] = c] /\ pc[w] = "setup" /\ pc'[w] = "register"
        /\ UNCHANGED calls
    BY <1>1, <1>8 DEF Setup, Token, Goto, Typed, TypeOK
  <2>2. ~Complete(c)
    BY DEF Complete
  <2>3. Token(w) \in Tokens /\ Token(w) \in ClientIds
    BY <1>1, <2>1, TokenType DEF Token, Typed
  <2>4. ~Complete(cdb[Token(w)])
    BY <1>4, <1>5, <2>1, <2>3 DEF Fresh
  <2>5. ~Complete(cdb'[Token(w)])
    <3>. HIDE DEF id, c
    <3>. QED
      BY <1>1, <2>1, <2>2, <2>3, <2>4 DEF Typed, TypeOK
  <2>6. Stands
    BY <1>2, <2>4 DEF Stands
  <2>7. Fresh'
    BY <1>2, <1>3, <1>4, <1>5, <2>1, <2>5 DEF Fresh, Complete
  <2>. QED
    BY <2>6, <2>7
<1>9. CASE StoreClient(w)
  <2>1. pc[w] = "store" /\ pc'[w] \in {"idle", "alias", "authenticate"} /\ UNCHANGED calls
    BY <1>1, <1>9 DEF StoreClient, Answer, Goto, Typed, TypeOK
  <2>2. Token(w) \in Tokens
    BY <1>1, <2>1, TokenType DEF Token, Typed
  <2>3. ~Complete(cdb[Token(w)])
    BY <1>4, <1>5, <2>1, <2>2 DEF Fresh
  <2>. QED
    BY <1>2, <1>3, <1>4, <1>5, <2>1, <2>3 DEF Fresh, Stands, Complete
<1>10. CASE Alias(w)
  <2>1. pc[w] = "alias" /\ pc'[w] = "authenticate" /\ UNCHANGED calls /\ cdb' = Aliased(w)
    BY <1>1, <1>10 DEF Alias, Goto, Typed, TypeOK
  <2>2. Token(w) \in Tokens /\ client_id[w] = Token(w) /\ cdb[Token(w)] \in Entry
        /\ Token(w) \in ClientIds
    BY <1>1, <2>1, TokenType DEF Token, Typed, TypeOK, Written, Writing, WorkerOK, Stored
  <2>3. cdb'[Token(w)] \in Entry /\ cdb'[Token(w)].metadata = cdb[Token(w)].metadata
    <3>. DEFINE e == request[w].entity
                id == Token(w)
                new == [cdb[id] EXCEPT !.entity_id = e]
    <3>1. new \in Entry /\ cdb'[id] = new
      BY <1>1, <2>1, <2>2, AliasedIs DEF Typed
    <3>2. new.metadata = cdb[id].metadata
      BY <2>2 DEF Entry
    <3>. QED
      BY <3>1, <3>2
  <2>4. Complete(cdb[Token(w)]) => Complete(cdb'[Token(w)])
    BY <2>3, EntryIsNotNoEntry DEF Complete
  <2>. QED
    BY <1>2, <1>3, <1>4, <1>5, <2>1, <2>3, <2>4 DEF Fresh, Stands, Complete
<1>11. CASE \/ Collect(w) \/ NoteChain(w) \/ ImportKeys(w) \/ DoRegistration(w)
            \/ RegisterKeys(w) \/ AddSecret(w) \/ Authenticate(w) \/ (Setup(w) /\ cdb' = cdb)
  <2>. USE DEF Typed, TypeOK, Goto, Fail, Answer
  <2>1. CASE Collect(w) \/ NoteChain(w) \/ ImportKeys(w)
    BY <1>1, <1>6, <2>1 DEF Collect, NoteChain, ImportKeys, stores
  <2>2. CASE DoRegistration(w) \/ RegisterKeys(w) \/ AddSecret(w)
    BY <1>1, <1>6, <2>2 DEF DoRegistration, RefuseLate, RegisterKeys, AddSecret, stores
  <2>3. CASE Authenticate(w) \/ (Setup(w) /\ cdb' = cdb)
    BY <1>1, <1>6, <2>3 DEF Authenticate, Setup, stores
  <2>. QED
    BY <1>11, <2>1, <2>2, <2>3
<1>. QED
  BY <1>7, <1>8, <1>9, <1>10, <1>11 DEF Step
=============================================================================
