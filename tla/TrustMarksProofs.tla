--------------------------- MODULE TrustMarksProofs ---------------------------
(***************************************************************************)
(* Proofs about TrustMarks, for any issuer, marks and threads.             *)
(***************************************************************************)
EXTENDS TrustMarks, TLAPS

-----------------------------------------------------------------------------
(* The store                                                               *)

LEMMA BoundsAreNumbers ==
  /\ MaxTime \in Nat /\ Never \in Nat /\ Times \subseteq Int /\ Never = MaxTime + 1
  /\ MaxKeys \in Nat \ {0} /\ MaxCalls \in Nat /\ MaxLines \in Nat
BY TrustMarksAssumption DEF TrustMarksAssumption, Never, Times

LEMMA InfoFields ==
  ASSUME NEW info \in Infos
  PROVE  info.id \in Ids /\ info.sub \in Subjects /\ info.exp \in 0..Never
BY DEF Infos

LEMMA MarkFields ==
  ASSUME NEW m \in Marks
  PROVE  m.info \in Infos /\ m.key \in 0..MaxKeys
BY DEF Marks

LEMMA ForgeriesBearNoKey == \A m \in Forgeries : m \in Marks /\ m.key = 0
BY TrustMarksAssumption DEF TrustMarksAssumption

\* Who is found has a line of its own.
LEMMA FoundHasALine ==
  ASSUME NEW id, NEW sub, Find(id, sub)
  PROVE  id \in Ids /\ \E i \in 1..Len(issued[id]) : issued[id][i].sub = sub
BY DEF Find, Unknown, FileFind, Matches

\* A sequence's elements are the members of its set; appending adds one, joining keeps all.
LEMMA ElementsAre ==
  ASSUME NEW S, NEW s \in Seq(S), NEW x
  PROVE  x \in ToSet(s) <=> \E i \in 1..Len(s) : s[i] = x
BY DEF ToSet

LEMMA AppendKeeps ==
  ASSUME NEW S, NEW s \in Seq(S), NEW e \in S
  PROVE  /\ Append(s, e) \in Seq(S) /\ e \in ToSet(Append(s, e))
         /\ ToSet(s) \subseteq ToSet(Append(s, e))
<1>1. /\ Append(s, e) \in Seq(S) /\ Len(Append(s, e)) = Len(s) + 1
      /\ \A i \in 1..Len(s) : Append(s, e)[i] = s[i]
      /\ Append(s, e)[Len(s) + 1] = e
  OBVIOUS
<1>2. Len(s) \in Nat
  OBVIOUS
<1>3. e \in ToSet(Append(s, e))
  <2>1. Len(s) + 1 \in 1..Len(Append(s, e))
    BY <1>1, <1>2
  <2>. QED
    BY <1>1, <2>1, ElementsAre
<1>4. ASSUME NEW x \in ToSet(s)
      PROVE  x \in ToSet(Append(s, e))
  <2>1. PICK i \in 1..Len(s) : s[i] = x
    BY <1>4, ElementsAre
  <2>2. i \in 1..Len(Append(s, e)) /\ Append(s, e)[i] = x
    BY <1>1, <1>2, <2>1
  <2>. QED
    BY <1>1, <2>2, ElementsAre
<1>. QED
  BY <1>1, <1>3, <1>4

LEMMA JoinKeeps ==
  ASSUME NEW S, NEW s \in Seq(S), NEW t \in Seq(S)
  PROVE  s \o t \in Seq(S) /\ ToSet(s) \subseteq ToSet(s \o t)
<1>1. /\ s \o t \in Seq(S) /\ Len(s \o t) = Len(s) + Len(t)
      /\ \A i \in 1..Len(s) : (s \o t)[i] = s[i]
      /\ Len(s) \in Nat /\ Len(t) \in Nat
  OBVIOUS
<1>2. ASSUME NEW x \in ToSet(s)
      PROVE  x \in ToSet(s \o t)
  <2>1. PICK i \in 1..Len(s) : s[i] = x
    BY <1>2, ElementsAre
  <2>2. i \in 1..Len(s \o t) /\ (s \o t)[i] = x
    BY <1>1, <2>1
  <2>. QED
    BY <1>1, <2>2, ElementsAre
<1>. QED
  BY <1>1, <1>2

-----------------------------------------------------------------------------
(* The invariant                                                           *)

\* What is dumped is no more than memory held; what is about to be signed is on record,
\* and so is what was signed, with a key of the issuer's.
Recorded ==
  /\ db = "simple" => \A id \in Ids : Len(dumped[id]) <= 1
  /\ db = "file" => \A w \in Workers : At(w, "sign") => content[w] \in ToSet(issued[content[w].id])
  /\ MarksAreOnRecord
  /\ \A m \in marks : m.key # 0

\* A mark that is looked at turned up, and from the signature on it is genuine.
Genuine ==
  /\ \A v \in Verifiers : ~VAt(v, "idle") => mark[v] \in marks \cup Forgeries
  /\ \A v \in Verifiers : VAt(v, "status") \/ VAt(v, "active") \/ VAt(v, "not_found")
                            => mark[v] \in marks
  /\ AcceptedMarksAreGenuine

IInv == TypeOK /\ Recorded /\ Genuine

LEMMA ContentIsInfo ==
  ASSUME TypeOK, NEW w \in Workers, tm_pc[w] # "idle"
  PROVE  content[w] \in Infos
BY DEF TypeOK

LEMMA LinesAreInfos ==
  ASSUME TypeOK, NEW id \in Ids
  PROVE  issued[id] \in Seq(Infos) /\ dumped[id] \in Seq(Infos)
BY DEF TypeOK

LEMMA InitHolds == Init => IInv
<1>. SUFFICES ASSUME Init PROVE IInv
  OBVIOUS
<1>. USE BoundsAreNumbers DEF Init
<1>1. /\ issued \in [Ids -> Seq(Infos)] /\ dumped \in [Ids -> Seq(Infos)]
      /\ \A id \in Ids : Len(issued[id]) = 0 /\ Len(dumped[id]) = 0
  OBVIOUS
<1>2. key \in 1..MaxKeys /\ marks \subseteq Marks /\ now \in Times
  BY DEF Times
<1>3. TypeOK
  BY <1>1, <1>2 DEF TypeOK
<1>4. Recorded
  BY <1>1 DEF Recorded, MarksAreOnRecord, At
<1>5. Genuine
  BY DEF Genuine, AcceptedMarksAreGenuine, VAt
<1>. QED
  BY <1>3, <1>4, <1>5 DEF IInv

\* Steps of the issuer's that leave the verifier alone and take no mark back.
LEMMA GenuineUnlessVerifying ==
  ASSUME Genuine, marks \subseteq marks', UNCHANGED <<v_pc, mark, verdict>>
  PROVE  Genuine'
BY DEF Genuine, AcceptedMarksAreGenuine, VAt

\* Steps that leave the issuer alone.
LEMMA RecordedUnlessIssuing ==
  ASSUME Recorded, UNCHANGED <<db, issuer>>
  PROVE  Recorded'
BY DEF Recorded, MarksAreOnRecord, At, issuer

-----------------------------------------------------------------------------
(* The issuer's steps keep it                                              *)

LEMMA CreateStep ==
  ASSUME IInv, NEW w \in Workers, NEW id \in AllIds, NEW sub \in Subjects, Create(w, id, sub)
  PROVE  IInv'
<1>. USE DEF IInv, At
<1>. DEFINE exp == IF Lifetime[id] = 0 \/ now + Lifetime[id] > MaxTime THEN Never
                   ELSE now + Lifetime[id]
            info == [id |-> id, sub |-> sub, exp |-> exp]
<1>1. id \in Ids /\ Lifetime[id] \in Nat /\ now \in Nat
  BY TrustMarksAssumption DEF Create, TrustMarksAssumption, TypeOK, Times
<1>2. exp \in 0..Never
  BY <1>1, BoundsAreNumbers
<1>3. info \in Infos /\ info # NoOne
  BY <1>1, <1>2, TrustMarksAssumption DEF Infos, TrustMarksAssumption
<1>4. /\ content' = [content EXCEPT ![w] = info] /\ tm_pc' = [tm_pc EXCEPT ![w] = "add"]
      /\ UNCHANGED <<db, issued, dumped, key, marks, verifier, now>>
  BY DEF Create, Goto
<1>. HIDE DEF info, exp
<1>5. TypeOK'
  BY <1>3, <1>4 DEF TypeOK, verifier
<1>6. Recorded'
  BY <1>3, <1>4 DEF Recorded, MarksAreOnRecord, TypeOK
<1>7. Genuine'
  BY <1>4, GenuineUnlessVerifying DEF verifier
<1>. QED
  BY <1>5, <1>6, <1>7

LEMMA AddStep ==
  ASSUME IInv, NEW w \in Workers, Add(w)
  PROVE  IInv'
<1>. USE DEF IInv, At
<1>. DEFINE id == content[w].id
<1>1. tm_pc[w] = "add" /\ content[w] \in Infos /\ id \in Ids
  BY ContentIsInfo, InfoFields DEF Add
<1>2. Genuine'
  BY GenuineUnlessVerifying DEF Add, verifier
<1>3. CASE /\ Taken(id) /\ content' = [content EXCEPT ![w] = NoOne]
           /\ tm_pc' = [tm_pc EXCEPT ![w] = "idle"]
           /\ UNCHANGED <<db, issued, dumped, key, marks, verifier, now>>
  <2>1. TypeOK'
    BY <1>3 DEF TypeOK, verifier
  <2>2. Recorded'
    BY <1>3 DEF Recorded, MarksAreOnRecord, TypeOK
  <2>. QED
    BY <1>2, <2>1, <2>2
<1>4. CASE /\ ~Taken(id) /\ issued' = [issued EXCEPT ![id] = Append(@, content[w])]
           /\ tm_pc' = [tm_pc EXCEPT ![w] = "sign"]
           /\ UNCHANGED <<db, content, dumped, key, marks, verifier, now>>
  <2>1. /\ issued[id] \in Seq(Infos) /\ issued'[id] = Append(issued[id], content[w])
        /\ \A i \in Ids : i # id => issued'[i] = issued[i]
        /\ issued' \in [Ids -> Seq(Infos)]
    BY <1>1, <1>4, LinesAreInfos, AppendKeeps DEF TypeOK
  <2>2. ASSUME NEW i \in Ids
        PROVE  ToSet(issued[i]) \subseteq ToSet(issued'[i])
    <3>1. CASE i = id
      <4>1. ToSet(issued[id]) \subseteq ToSet(Append(issued[id], content[w]))
        BY <1>1, <2>1, AppendKeeps
      <4>. QED
        BY <2>1, <3>1, <4>1
    <3>2. CASE i # id
      BY <2>1, <3>2
    <3>. QED
      BY <3>1, <3>2
  <2>3. content[w] \in ToSet(issued'[id])
    BY <1>1, <2>1, AppendKeeps
  <2>4. db = "simple" => Len(issued'[id]) = 1
    <3>1. db = "simple" => issued[id] = <<>>
      BY <1>4 DEF Taken
    <3>. QED
      BY <2>1, <3>1
  <2>. HIDE DEF id
  <2>5. TypeOK'
    BY <1>1, <1>4, <2>1, <2>4 DEF TypeOK, verifier
  <2>6. ASSUME db = "file", NEW u \in Workers, tm_pc'[u] = "sign"
        PROVE  content[u] \in ToSet(issued'[content[u].id])
    <3>1. CASE u = w
      BY <2>3, <3>1 DEF id
    <3>2. CASE u # w
      <4>1. tm_pc[u] = "sign" /\ content[u].id \in Ids
        BY <1>4, <2>6, <3>2, ContentIsInfo, InfoFields DEF TypeOK
      <4>2. content[u] \in ToSet(issued[content[u].id])
        BY <2>6, <4>1 DEF Recorded
      <4>. QED
        BY <2>2, <4>1, <4>2
    <3>. QED
      BY <3>1, <3>2
  <2>7. ASSUME db = "file", NEW m \in marks
        PROVE  m.info \in ToSet(issued'[m.info.id])
    <3>1. m.info.id \in Ids
      BY MarkFields, InfoFields DEF TypeOK
    <3>. QED
      BY <2>2, <2>7, <3>1 DEF Recorded, MarksAreOnRecord
  <2>8. Recorded'
    BY <1>4, <2>6, <2>7 DEF Recorded, MarksAreOnRecord
  <2>. QED
    BY <1>2, <2>5, <2>8
<1>. QED
  BY <1>3, <1>4 DEF Add, Goto

LEMMA SignStep ==
  ASSUME IInv, NEW w \in Workers, Sign(w)
  PROVE  IInv'
<1>. USE DEF IInv, At
<1>. DEFINE m == [info |-> content[w], key |-> key]
<1>1. tm_pc[w] = "sign" /\ content[w] \in Infos
  BY ContentIsInfo DEF Sign
<1>2. key \in 0..MaxKeys /\ key # 0
  BY BoundsAreNumbers DEF TypeOK
<1>3. m \in Marks /\ m.info = content[w] /\ m.key # 0
  BY <1>1, <1>2 DEF Marks
<1>4. /\ marks' = marks \cup {m} /\ content' = [content EXCEPT ![w] = NoOne]
      /\ tm_pc' = [tm_pc EXCEPT ![w] = "idle"]
      /\ UNCHANGED <<db, issued, dumped, key, verifier, now>>
  BY DEF Sign, Goto
<1>. HIDE DEF m
<1>5. TypeOK'
  BY <1>3, <1>4 DEF TypeOK, verifier
<1>6. Recorded'
  BY <1>1, <1>3, <1>4 DEF Recorded, MarksAreOnRecord, TypeOK
<1>7. Genuine'
  BY <1>4, GenuineUnlessVerifying DEF verifier
<1>. QED
  BY <1>5, <1>6, <1>7

LEMMA DumpStep ==
  ASSUME IInv, Dump
  PROVE  IInv'
<1>. USE DEF IInv, Dump
<1>1. TypeOK'
  BY DEF TypeOK, verifier
<1>2. Recorded'
  BY DEF Recorded, MarksAreOnRecord, TypeOK, At
<1>3. Genuine'
  BY GenuineUnlessVerifying DEF verifier
<1>. QED
  BY <1>1, <1>2, <1>3

\* Whether lines are added to a file or stay in it, what is on record remains there.
LEMMA RecordGrows ==
  ASSUME TypeOK, Recorded, UNCHANGED <<db, dumped, marks>>,
         db = "file" => \A id \in Ids : ToSet(issued[id]) \subseteq ToSet(issued'[id]),
         db = "file" => \A w \in Workers : At(w, "sign")' => At(w, "sign") /\ content'[w] = content[w]
  PROVE  Recorded'
<1>1. ASSUME db = "file", NEW u \in Workers, At(u, "sign")'
      PROVE  content'[u] \in ToSet(issued'[content'[u].id])
  <2>1. At(u, "sign") /\ content'[u] = content[u]
    BY <1>1
  <2>2. content[u].id \in Ids
    BY <2>1, ContentIsInfo, InfoFields DEF At
  <2>. QED
    BY <1>1, <2>1, <2>2 DEF Recorded
<1>2. ASSUME db = "file", NEW m \in marks
      PROVE  m.info \in ToSet(issued'[m.info.id])
  <2>1. m.info.id \in Ids
    BY MarkFields, InfoFields DEF TypeOK
  <2>. QED
    BY <1>2, <2>1 DEF Recorded, MarksAreOnRecord
<1>. QED
  BY <1>1, <1>2 DEF Recorded, MarksAreOnRecord, At

LEMMA LoadStep ==
  ASSUME IInv, Load
  PROVE  IInv'
<1>. USE DEF IInv
<1>1. UNCHANGED <<db, dumped, key, marks, tm_pc, content, verifier, now>>
  BY DEF Load
<1>2. /\ issued' \in [Ids -> Seq(Infos)]
      /\ db = "simple" => issued' = dumped
      /\ db # "simple" => \A id \in Ids : ToSet(issued[id]) \subseteq ToSet(issued'[id])
  <2>1. CASE db = "simple"
    BY <2>1 DEF Load, LoadIntoMemory, TypeOK
  <2>2. CASE db # "simple"
    <3>1. issued' = [id \in Ids |-> issued[id] \o dumped[id]]
      BY <2>2 DEF Load, LoadIntoFile
    <3>2. \A id \in Ids : issued[id] \o dumped[id] \in Seq(Infos)
                        /\ ToSet(issued[id]) \subseteq ToSet(issued[id] \o dumped[id])
      BY LinesAreInfos, JoinKeeps
    <3>. QED
      BY <2>2, <3>1, <3>2
  <2>. QED
    BY <2>1, <2>2
<1>3. TypeOK'
  BY <1>1, <1>2 DEF TypeOK, verifier, Recorded
<1>4. Recorded'
  BY <1>1, <1>2, RecordGrows DEF At
<1>5. Genuine'
  BY <1>1, GenuineUnlessVerifying DEF verifier
<1>. QED
  BY <1>3, <1>4, <1>5

LEMMA CrashStep ==
  ASSUME IInv, Crash
  PROVE  IInv'
<1>. USE DEF IInv
<1>1. /\ tm_pc' = [w \in Workers |-> "idle"] /\ content' = [w \in Workers |-> NoOne]
      /\ UNCHANGED <<db, dumped, key, marks, verifier, now>>
  BY DEF Crash
<1>2. /\ issued' \in [Ids -> Seq(Infos)]
      /\ db = "file" => issued' = issued
      /\ db = "simple" => \A id \in Ids : Len(issued'[id]) <= 1
  BY DEF Crash, Survivor, TypeOK
<1>3. TypeOK'
  BY <1>1, <1>2 DEF TypeOK, verifier
<1>4. Recorded'
  BY <1>1, <1>2, RecordGrows DEF At
<1>5. Genuine'
  BY <1>1, GenuineUnlessVerifying DEF verifier
<1>. QED
  BY <1>3, <1>4, <1>5

LEMMA RotateStep ==
  ASSUME IInv, Rotate
  PROVE  IInv'
<1>. USE DEF IInv, Rotate
<1>1. key' \in 1..MaxKeys /\ keyjar' \subseteq 1..key'
  BY BoundsAreNumbers DEF TypeOK, verifier
<1>2. TypeOK'
  BY <1>1 DEF TypeOK, verifier
<1>3. Recorded'
  BY DEF Recorded, MarksAreOnRecord, At
<1>4. Genuine'
  BY GenuineUnlessVerifying DEF verifier
<1>. QED
  BY <1>2, <1>3, <1>4

-----------------------------------------------------------------------------
(* The verifier's steps keep it                                            *)

LEMMA VerifyTrustMarkStep ==
  ASSUME IInv, NEW v \in Verifiers, NEW m \in Marks, VerifyTrustMark(v, m)
  PROVE  IInv'
<1>. USE DEF IInv, VAt
<1>1. m \in marks \cup Forgeries /\ m # NoOne
  BY TrustMarksAssumption DEF TrustMarksAssumption, VerifyTrustMark
<1>2. /\ mark' = [mark EXCEPT ![v] = m] /\ v_pc' = [v_pc EXCEPT ![v] = "chains"]
      /\ verdict' = [verdict EXCEPT ![v] = "none"]
      /\ UNCHANGED <<db, issuer, trust_chain, keyjar, now>>
  BY DEF VerifyTrustMark
<1>3. TypeOK'
  BY <1>1, <1>2 DEF TypeOK, issuer
<1>4. Recorded'
  BY <1>2, RecordedUnlessIssuing
<1>5. Genuine'
  BY <1>1, <1>2 DEF Genuine, AcceptedMarksAreGenuine, TypeOK, issuer
<1>. QED
  BY <1>3, <1>4, <1>5

\* The key jar holds keys the issuer has, and its chains end at anchors.
LEMMA LearnTypes ==
  ASSUME TypeOK, NEW founding \in Foundings, Learn(founding)
  PROVE  /\ keyjar' \subseteq 1..key
         /\ founding # <<>> => founding[1] \in Anchors /\ founding[1] # NoOne
<1>1. keyjar' \subseteq 1..key
  BY BoundsAreNumbers DEF Learn, TypeOK
<1>2. founding \in Seq(Anchors)
  BY TrustMarksAssumption DEF TrustMarksAssumption
<1>3. founding # <<>> => founding[1] \in Anchors
  BY <1>2
<1>. QED
  BY <1>1, <1>3, TrustMarksAssumption DEF TrustMarksAssumption

LEMMA GetTrustChainsStep ==
  ASSUME IInv, NEW v \in Verifiers, NEW founding \in Foundings, GetTrustChains(v, founding)
  PROVE  IInv'
<1>. USE DEF IInv, VAt
<1>1. v_pc[v] = "chains" /\ UNCHANGED <<db, issuer, mark, v_calls, now>>
  BY DEF GetTrustChains, Asking
<1>2. Recorded'
  BY <1>1, RecordedUnlessIssuing
<1>3. CASE /\ trust_chain # NoOne /\ v_pc' = [v_pc EXCEPT ![v] = "expiry"]
           /\ UNCHANGED <<verdict, trust_chain, keyjar>>
  <2>1. TypeOK'
    BY <1>1, <1>3 DEF TypeOK, issuer
  <2>2. Genuine'
    BY <1>1, <1>3 DEF Genuine, AcceptedMarksAreGenuine, TypeOK, issuer
  <2>. QED
    BY <1>2, <2>1, <2>2
<1>4. CASE /\ Learn(founding) /\ v_pc' = [v_pc EXCEPT ![v] = "idle"]
           /\ verdict' = [verdict EXCEPT ![v] = "rejected"] /\ UNCHANGED trust_chain
  <2>1. keyjar' \subseteq 1..key
    BY <1>4, LearnTypes
  <2>2. TypeOK'
    BY <1>1, <1>4, <2>1 DEF TypeOK, issuer
  <2>3. Genuine'
    BY <1>1, <1>4 DEF Genuine, AcceptedMarksAreGenuine, TypeOK, issuer
  <2>. QED
    BY <1>2, <2>2, <2>3
<1>5. CASE /\ Learn(founding) /\ founding # <<>> /\ v_pc' = [v_pc EXCEPT ![v] = "expiry"]
           /\ UNCHANGED verdict /\ trust_chain' = founding[1]
  <2>1. keyjar' \subseteq 1..key /\ trust_chain' \in Anchors /\ trust_chain' # NoOne
    BY <1>5, LearnTypes
  <2>2. TypeOK'
    BY <1>1, <1>5, <2>1 DEF TypeOK, issuer
  <2>3. Genuine'
    BY <1>1, <1>5 DEF Genuine, AcceptedMarksAreGenuine, TypeOK, issuer
  <2>. QED
    BY <1>2, <2>2, <2>3
<1>. QED
  BY <1>3, <1>4, <1>5 DEF GetTrustChains, VGoto, VEnd

LEMMA CheckExpiryStep ==
  ASSUME IInv, NEW v \in Verifiers, NEW check \in BOOLEAN, CheckExpiry(v, check)
  PROVE  IInv'
<1>. USE DEF IInv, VAt
<1>1. v_pc[v] = "expiry" /\ UNCHANGED <<db, issuer, trust_chain, keyjar, mark, v_calls, now>>
  BY DEF CheckExpiry, Asking
<1>2. \/ /\ v_pc' = [v_pc EXCEPT ![v] = "idle"]
         /\ \E how \in {"exception", "rejected"} : verdict' = [verdict EXCEPT ![v] = how]
      \/ v_pc' = [v_pc EXCEPT ![v] = "signature"] /\ UNCHANGED verdict
  <2>1. CASE NotVerified(v, check)
    BY <2>1 DEF NotVerified, VEnd
  <2>2. CASE VGoto(v, "signature") \/ VEnd(v, "exception")
    BY <2>2 DEF VGoto, VEnd
  <2>. QED
    BY <2>1, <2>2 DEF CheckExpiry
<1>3. TypeOK'
  <2>1. CASE v_pc' = [v_pc EXCEPT ![v] = "signature"] /\ UNCHANGED verdict
    BY <1>1, <2>1 DEF TypeOK, issuer
  <2>2. ASSUME NEW how \in {"exception", "rejected"},
               v_pc' = [v_pc EXCEPT ![v] = "idle"], verdict' = [verdict EXCEPT ![v] = how]
        PROVE  TypeOK'
    BY <1>1, <2>2 DEF TypeOK, issuer
  <2>. QED
    BY <1>2, <2>1, <2>2
<1>4. Recorded'
  BY <1>1, RecordedUnlessIssuing
<1>5. Genuine'
  BY <1>1, <1>2 DEF Genuine, AcceptedMarksAreGenuine, TypeOK, issuer
<1>. QED
  BY <1>3, <1>4, <1>5

\* No key of the issuer's is nobody's: a signature that is good makes the mark genuine.
LEMMA CheckSignatureStep ==
  ASSUME IInv, NEW v \in Verifiers, NEW founding \in Foundings, NEW check \in BOOLEAN,
         CheckSignature(v, founding, check)
  PROVE  IInv'
<1>. USE DEF IInv, VAt
<1>1. /\ v_pc[v] = "signature" /\ Learn(founding)
      /\ UNCHANGED <<db, issuer, trust_chain, mark, v_calls, now>>
  BY DEF CheckSignature, Asking
<1>2. keyjar' \subseteq 1..key
  BY <1>1, LearnTypes
<1>3. Recorded'
  BY <1>1, RecordedUnlessIssuing
<1>4. CASE /\ mark[v].key \in keyjar'
           /\ \/ v_pc' = [v_pc EXCEPT ![v] = "status"] /\ UNCHANGED verdict
              \/ /\ v_pc' = [v_pc EXCEPT ![v] = "idle"]
                 /\ verdict' = [verdict EXCEPT ![v] = "accepted"]
  <2>1. mark[v].key # 0
    BY <1>2, <1>4, BoundsAreNumbers DEF TypeOK
  <2>2. mark[v] \in marks
    BY <1>1, <2>1, ForgeriesBearNoKey DEF Genuine
  <2>3. TypeOK'
    BY <1>1, <1>2, <1>4 DEF TypeOK, issuer
  <2>4. Genuine'
    BY <1>1, <1>4, <2>2 DEF Genuine, AcceptedMarksAreGenuine, TypeOK, issuer
  <2>. QED
    BY <1>3, <2>3, <2>4
<1>5. CASE /\ v_pc' = [v_pc EXCEPT ![v] = "idle"]
           /\ \E how \in {"exception", "rejected"} : verdict' = [verdict EXCEPT ![v] = how]
  <2>1. TypeOK'
    BY <1>1, <1>2, <1>5 DEF TypeOK, issuer
  <2>2. Genuine'
    BY <1>1, <1>5 DEF Genuine, AcceptedMarksAreGenuine, TypeOK, issuer
  <2>. QED
    BY <1>3, <2>1, <2>2
<1>. QED
  BY <1>4, <1>5 DEF CheckSignature, NotVerified, SignedByIssuer, VGoto, VEnd

LEMMA AnswerStatusStep ==
  ASSUME IInv, NEW v \in Verifiers, AnswerStatus(v)
  PROVE  IInv'
<1>. USE DEF IInv, VAt
<1>1. v_pc[v] = "status" /\ UNCHANGED <<db, issuer, trust_chain, keyjar, mark, v_calls, now>>
  BY DEF AnswerStatus, Asking
<1>2. PICK label \in {"active", "not_found"} :
        v_pc' = [v_pc EXCEPT ![v] = label] /\ UNCHANGED verdict
  BY DEF AnswerStatus, VGoto
<1>3. TypeOK'
  BY <1>1, <1>2 DEF TypeOK, issuer
<1>4. Recorded'
  BY <1>1, RecordedUnlessIssuing
<1>5. Genuine'
  BY <1>1, <1>2 DEF Genuine, AcceptedMarksAreGenuine, TypeOK, issuer
<1>. QED
  BY <1>3, <1>4, <1>5

LEMMA TakeStatusStep ==
  ASSUME IInv, NEW v \in Verifiers, NEW http, TakeStatus(v, http)
  PROVE  IInv'
<1>. USE DEF IInv, VAt
<1>1. /\ v_pc[v] \in {"active", "not_found"}
      /\ UNCHANGED <<db, issuer, trust_chain, keyjar, mark, v_calls, now>>
  BY DEF TakeStatus, Asking
<1>2. PICK how \in {"exception", "accepted", "rejected"} :
        v_pc' = [v_pc EXCEPT ![v] = "idle"] /\ verdict' = [verdict EXCEPT ![v] = how]
  BY DEF TakeStatus, VEnd
<1>3. TypeOK'
  BY <1>1, <1>2 DEF TypeOK, issuer
<1>4. Recorded'
  BY <1>1, RecordedUnlessIssuing
<1>5. Genuine'
  BY <1>1, <1>2 DEF Genuine, AcceptedMarksAreGenuine, TypeOK, issuer
<1>. QED
  BY <1>3, <1>4, <1>5

LEMMA TickStep ==
  ASSUME IInv, Tick
  PROVE  IInv'
<1>. USE DEF IInv
<1>1. now' \in Times /\ UNCHANGED <<db, issuer, verifier>>
  BY BoundsAreNumbers DEF Tick, TypeOK, Times
<1>2. TypeOK'
  BY <1>1 DEF TypeOK, issuer, verifier
<1>3. Recorded'
  BY <1>1, RecordedUnlessIssuing
<1>4. Genuine'
  BY <1>1, GenuineUnlessVerifying DEF issuer, verifier
<1>. QED
  BY <1>2, <1>3, <1>4

LEMMA NextHolds == IInv /\ [Next]_vars => IInv'
<1>. SUFFICES ASSUME IInv, [Next]_vars PROVE IInv'
  OBVIOUS
<1>1. ASSUME NEW w \in Workers, NEW id \in AllIds, NEW sub \in Subjects, Create(w, id, sub)
      PROVE  IInv'
  BY <1>1, CreateStep
<1>2. ASSUME NEW w \in Workers, Add(w) \/ Sign(w)
      PROVE  IInv'
  BY <1>2, AddStep, SignStep
<1>3. CASE Dump \/ Load \/ Crash \/ Rotate
  BY <1>3, DumpStep, LoadStep, CrashStep, RotateStep
<1>4. ASSUME NEW v \in Verifiers, NEW m \in Marks, VerifyTrustMark(v, m)
      PROVE  IInv'
  BY <1>4, VerifyTrustMarkStep
<1>5. ASSUME NEW v \in Verifiers, NEW check \in BOOLEAN,
             CheckExpiry(v, check) \/ \E found \in Foundings : CheckSignature(v, found, check)
      PROVE  IInv'
  BY <1>5, CheckExpiryStep, CheckSignatureStep
<1>6. ASSUME NEW v \in Verifiers, NEW found \in Foundings, GetTrustChains(v, found)
      PROVE  IInv'
  BY <1>6, GetTrustChainsStep
<1>7. ASSUME NEW v \in Verifiers, NEW http, AnswerStatus(v) \/ TakeStatus(v, http)
      PROVE  IInv'
  BY <1>7, AnswerStatusStep, TakeStatusStep
<1>8. CASE Tick
  BY <1>8, TickStep
<1>9. CASE UNCHANGED vars
  <2>1. UNCHANGED <<db, issuer, verifier, now>>
    BY <1>9 DEF vars
  <2>2. Recorded'
    BY <2>1, RecordedUnlessIssuing DEF IInv
  <2>3. Genuine'
    BY <2>1, GenuineUnlessVerifying DEF IInv, issuer, verifier
  <2>4. TypeOK'
    BY <2>1 DEF IInv, TypeOK, issuer, verifier
  <2>. QED
    BY <2>2, <2>3, <2>4 DEF IInv
<1>. QED
  BY <1>1, <1>2, <1>3, <1>4, <1>5, <1>6, <1>7, <1>8, <1>9 DEF Next

-----------------------------------------------------------------------------
(* Theorems                                                                *)

\* Recorded and Genuine are what makes the properties inductive.
THEOREM Invariance == Spec => []IInv
BY InitHolds, NextHolds, PTL DEF Spec

\* Every variable keeps its type, and memory holds one mark of a kind at most.
THEOREM TypeCorrect == Spec => []TypeOK
BY Invariance, PTL DEF IInv

\* create_trust_mark adds to the file before it signs, and nothing leaves the file: what
\* was handed out is on record, through any crashes.
THEOREM HandedOutIsOnRecord == Spec => []MarksAreOnRecord
BY Invariance, PTL DEF IInv, Recorded

\* Whatever is in the key jar is a key the issuer has had, and no made up mark bears one.
THEOREM AcceptedIsGenuine == Spec => []AcceptedMarksAreGenuine
BY Invariance, PTL DEF IInv, Genuine

\* A mark whose line is in a file that is in order is found as long as it has not expired.
LEMMA InOrderGoodIsFound ==
  ASSUME TypeOK, db = "file", NEW id \in Ids, InOrder(issued[id]),
         NEW i \in 1..Len(issued[id]), ~Expired(issued[id][i])
  PROVE  Find(id, issued[id][i].sub)
<1>1. issued[id] \in Seq(Infos) /\ now \in Int
  BY LinesAreInfos, BoundsAreNumbers DEF TypeOK
<1>2. ASSUME NEW j \in i..Len(issued[id])
      PROVE  ~Expired(issued[id][j])
  <2>1. j \in 1..Len(issued[id]) /\ i <= j
    BY <1>1
  <2>2. issued[id][i] \in Infos /\ issued[id][j] \in Infos
    BY <1>1, <2>1
  <2>3. issued[id][i].exp \in Int /\ issued[id][j].exp \in Int
    BY <2>2, InfoFields, BoundsAreNumbers
  <2>4. issued[id][i].exp <= issued[id][j].exp
    BY <2>1 DEF InOrder
  <2>. QED
    BY <1>1, <2>3, <2>4 DEF Expired
<1>3. FileFind(issued[id], issued[id][i].sub)
  BY <1>2 DEF FileFind, Matches
<1>. QED
  BY <1>3 DEF Find, Unknown

LEMMA FoundIsListed ==
  ASSUME TypeOK, NEW id, NEW sub, Find(id, sub)
  PROVE  sub \in List(id) \cap ListOf(id, sub)
<1>1. PICK i \in 1..Len(issued[id]) : issued[id][i].sub = sub
  BY FoundHasALine
<1>2. issued[id] \in Seq(Infos)
  BY FoundHasALine, LinesAreInfos
<1>3. issued[id][i] \in ToSet(issued[id])
  BY <1>2, ElementsAre
<1>. QED
  BY <1>1, <1>3 DEF List, ListOf

LEMMA IInvActive == IInv => GoodMarksAreActive
<1>. SUFFICES ASSUME IInv, db = "file", NEW m \in marks, ~Expired(m.info), InOrder(issued[m.info.id])
              PROVE  CountsAsActive(m)
  BY DEF GoodMarksAreActive
<1>1. m.key # 0 /\ m.info \in ToSet(issued[m.info.id])
  BY DEF IInv, Recorded, MarksAreOnRecord
<1>2. m.info.id \in Ids
  BY MarkFields, InfoFields DEF IInv, TypeOK
<1>3. issued[m.info.id] \in Seq(Infos)
  BY <1>2, LinesAreInfos DEF IInv
<1>4. PICK i \in 1..Len(issued[m.info.id]) : issued[m.info.id][i] = m.info
  BY <1>1, <1>3, ElementsAre
<1>5. Find(m.info.id, m.info.sub)
  BY <1>2, <1>4, InOrderGoodIsFound DEF IInv
<1>. QED
  BY <1>1, <1>5, FoundIsListed DEF CountsAsActive, StatusOfMark, Status, IInv

\* What was handed out is on record through any crashes, and FileDB.find, which stops at the first
\* line that has expired, finds it until it expires itself as long as lines come in the order of
\* expiry; so the status endpoint and the lists have it.
THEOREM InOrderGoodIsActive == Spec => []GoodMarksAreActive
BY Invariance, IInvActive, PTL
=============================================================================
