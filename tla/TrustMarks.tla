------------------------------ MODULE TrustMarks ------------------------------
(***************************************************************************)
(* Trust marks: an issuer that keeps a record of what it issues, in a file *)
(* or in memory, answers status and list requests and may crash, and an    *)
(* entity that verifies a mark and asks the issuer about it.  Threads of   *)
(* the issuer share the record.                                            *)
(*                                                                         *)
(* A mark without a lifetime expires after the last moment there is.  The  *)
(* issuer's trust chains are their anchors, in the order they are found.   *)
(***************************************************************************)
EXTENDS SequencesExt

CONSTANTS
  Workers,   \* threads of the issuer
  Verifiers, \* threads of the entity that verifies
  Ids,       \* trust mark identifiers that the issuer has a specification of
  AllIds,    \* those there are
  Subjects,  \* entities that get trust marks
  Delegated, \* those of Ids whose marks carry a delegation
  Forgeries, \* marks that somebody made up
  Lifetime,  \* Lifetime[id]: of marks with that identifier, 0 if there is none
  Stores,    \* which stores the issuer may have: "file", "simple"
  Foundings, \* what collecting the issuer's verified chains may give
  Anchors,   \* trust anchors
  NoOne,     \* no anchor, no mark
  MaxTime, MaxLines, MaxMarks, MaxKeys, MaxCalls  \* bounds

Times == 0..MaxTime
Never == MaxTime + 1
\* No caller asks about the time of issue.
Infos == [id : Ids, sub : Subjects, exp : 0..Never]
\* Somebody else's key is 0; the issuer's are numbered in the order it uses them.
Marks == [info : Infos, key : 0..MaxKeys]

ASSUME TrustMarksAssumption ==
  /\ MaxTime \in Nat /\ MaxLines \in Nat /\ MaxMarks \in Nat /\ MaxKeys \in Nat \ {0} /\ MaxCalls \in Nat
  /\ Ids \subseteq AllIds /\ Delegated \subseteq Ids /\ Lifetime \in [Ids -> Nat]
  /\ Stores \subseteq {"file", "simple"}
  /\ Forgeries \subseteq {m \in Marks : m.key = 0}
  /\ Foundings \subseteq Seq(Anchors) /\ NoOne \notin Anchors \cup Infos \cup Marks

VARIABLES
  db,         \* which store the issuer has; never changes
  issued,     \* the store: under each identifier, what was added
  dumped,     \* what dump_trust_marks gave
  key,        \* the key it signs with now
  marks,      \* the marks it signed
  tm_pc, content,  \* where its threads are, and the mark each is about to issue
  trust_chain,  \* at the verifying entity: the anchor of the chain on store
  keyjar,     \* at the verifying entity: keys of the issuer
  v_pc, mark, \* where the verifying threads are, and the mark each is about
  verdict,    \* how its last verification ended
  v_calls,    \* verifications begun, for the bound
  now         \* the time

issuer == <<issued, dumped, key, marks, tm_pc, content>>
verifier == <<trust_chain, keyjar, v_pc, mark, verdict, v_calls>>
vars == <<db, issuer, verifier, now>>

-----------------------------------------------------------------------------
(* The store: FileDB, SimpleDB                                             *)

Matches(info, sub) == info.sub = sub

\* A line counts until it has expired, and so does a mark.
Expired(info) == now > info.exp

\* find in a file: the last issued comes first, and one that has expired ends the
\* search, whoever it was for.  The variant starts with the first.
FileFindForward(lines, sub) ==
  \E i \in 1..Len(lines) :
    Matches(lines[i], sub) /\ \A j \in 1..i : ~Expired(lines[j])
FileFind(lines, sub) ==
  \E i \in 1..Len(lines) :
    Matches(lines[i], sub) /\ \A j \in i..Len(lines) : ~Expired(lines[j])

\* find says yes, no, or that it never heard of the identifier (KeyError).  In memory
\* an identifier is unknown until the first mark.
Unknown(id) == id \notin Ids \/ (db = "simple" /\ issued[id] = <<>>)
Find(id, sub) ==
  /\ ~Unknown(id)
  /\ IF db = "file" THEN FileFind(issued[id], sub)
     ELSE \E i \in 1..Len(issued[id]) : Matches(issued[id][i], sub)

\* list forgets nobody; of one subject it knows what find does.
List(id) == {info.sub : info \in ToSet(issued[id])}
ListOf(id, sub) == IF Find(id, sub) THEN {sub} ELSE {}

-----------------------------------------------------------------------------
(* The issuer: create_trust_mark, dump_trust_marks, load_trust_marks       *)

At(w, label) == tm_pc[w] = label
Goto(w, label) == tm_pc' = [tm_pc EXCEPT ![w] = label]

\* The clock is read, and the specification looked up: an unknown identifier is refused.
Create(w, id, sub) ==
  /\ At(w, "idle") /\ id \in Ids /\ Cardinality(marks) < MaxMarks
  /\ content' = [content EXCEPT ![w] =
       [id |-> id, sub |-> sub,
        exp |-> IF Lifetime[id] = 0 \/ now + Lifetime[id] > MaxTime THEN Never
                ELSE now + Lifetime[id]]]
  /\ Goto(w, "add")
  /\ UNCHANGED <<db, issued, dumped, key, marks, verifier, now>>

\* In memory the second mark with the same identifier is an AttributeError.
Taken(id) == db = "simple" /\ issued[id] # <<>>

Add(w) ==
  /\ At(w, "add")
  /\ LET id == content[w].id IN
     \/ /\ Taken(id)
        /\ content' = [content EXCEPT ![w] = NoOne]
        /\ Goto(w, "idle")
        /\ UNCHANGED issued
     \/ /\ ~Taken(id)
        /\ Len(issued[id]) < MaxLines
        /\ issued' = [issued EXCEPT ![id] = Append(@, content[w])]
        /\ Goto(w, "sign")
        /\ UNCHANGED content
  /\ UNCHANGED <<db, dumped, key, marks, verifier, now>>

Sign(w) ==
  /\ At(w, "sign")
  /\ marks' = marks \cup {[info |-> content[w], key |-> key]}
  /\ content' = [content EXCEPT ![w] = NoOne]
  /\ Goto(w, "idle")
  /\ UNCHANGED <<db, issued, dumped, key, verifier, now>>

Dump ==
  /\ dumped' = issued
  /\ UNCHANGED <<db, issued, key, marks, tm_pc, content, verifier, now>>

\* A file is added to, memory is replaced.
LoadIntoFile ==
  /\ \A id \in Ids : Len(issued[id]) + Len(dumped[id]) <= MaxLines
  /\ issued' = [id \in Ids |-> issued[id] \o dumped[id]]
LoadIntoMemory == issued' = dumped

Load ==
  /\ IF db = "simple" THEN LoadIntoMemory ELSE LoadIntoFile
  /\ UNCHANGED <<db, dumped, key, marks, tm_pc, content, verifier, now>>

\* The process ends and starts again.  What survives is the file, and the dump.  The
\* variant opens the file for writing whether it exists or not.
SurvivorNone == [id \in Ids |-> <<>>]
Survivor == IF db = "file" THEN issued ELSE [id \in Ids |-> <<>>]
Crash ==
  /\ issued' = Survivor
  /\ tm_pc' = [w \in Workers |-> "idle"]
  /\ content' = [w \in Workers |-> NoOne]
  /\ UNCHANGED <<db, dumped, key, marks, verifier, now>>

\* The issuer signs with a new key and publishes only that.
Rotate ==
  /\ key < MaxKeys
  /\ key' = key + 1
  /\ UNCHANGED <<db, issued, dumped, marks, tm_pc, content, verifier, now>>

\* The status endpoint: asked about a mark, which must bear a signature of the issuer's,
\* or about a subject and an identifier.  Neither way does iat or exp of the mark count.
StatusOfMark(m) == m.key # 0 /\ Find(m.info.id, m.info.sub)
Status(id, sub) == Find(id, sub)

-----------------------------------------------------------------------------
(* The verifying entity: verify_trust_mark, TrustMarkVerifier              *)

VAt(v, label) == v_pc[v] = label
VGoto(v, label) == v_pc' = [v_pc EXCEPT ![v] = label] /\ UNCHANGED verdict
\* A verified mark, None, or an exception.
VEnd(v, how) ==
  /\ v_pc' = [v_pc EXCEPT ![v] = "idle"]
  /\ verdict' = [verdict EXCEPT ![v] = how]
Asking == UNCHANGED <<mark, v_calls>>
\* TrustMarkVerifier gives None: so does verify_trust_mark, unless it goes on to ask the issuer
\* about None.  The option check_with_issuer is looked at once, and chosen there.
NotVerified(v, check) == VEnd(v, IF check THEN "exception" ELSE "rejected")

\* A mark turns up: one that was signed, or one that somebody made up.
VerifyTrustMark(v, m) ==
  /\ VAt(v, "idle") /\ v_calls[v] < MaxCalls
  /\ m \in marks \cup Forgeries
  /\ v_calls' = [v_calls EXCEPT ![v] = @ + 1]
  /\ mark' = [mark EXCEPT ![v] = m]
  /\ v_pc' = [v_pc EXCEPT ![v] = "chains"]
  /\ verdict' = [verdict EXCEPT ![v] = "none"]
  /\ UNCHANGED <<db, issuer, trust_chain, keyjar, now>>

\* Verifying the issuer's chains puts the key it publishes into the key jar.  What is in
\* the key jar stays there.
Learn(founding) == keyjar' = IF founding = <<>> THEN keyjar ELSE keyjar \cup {key}

\* get_trust_chains: what is on store is not looked at again.
GetTrustChains(v, founding) ==
  /\ VAt(v, "chains") /\ Asking
  /\ \/ /\ trust_chain # NoOne
        /\ VGoto(v, "expiry")
        /\ UNCHANGED <<trust_chain, keyjar>>
     \/ /\ trust_chain = NoOne /\ Learn(founding)
        /\ IF founding = <<>> THEN VEnd(v, "rejected") /\ UNCHANGED trust_chain
           ELSE VGoto(v, "expiry") /\ trust_chain' = founding[1]
  /\ UNCHANGED <<db, issuer, now>>

\* What is wrong with the delegation is a warning, unless the owner's metadata cannot be had.
DelegationMayRaise(m) == m.info.id \in Delegated

CheckExpiry(v, check) ==
  /\ VAt(v, "expiry") /\ Asking
  /\ \/ Expired(mark[v].info) /\ NotVerified(v, check)
     \/ ~Expired(mark[v].info) /\ VGoto(v, "signature")
     \/ ~Expired(mark[v].info) /\ DelegationMayRaise(mark[v]) /\ VEnd(v, "exception")
  /\ UNCHANGED <<db, issuer, trust_chain, keyjar, now>>

\* The signature is good if the key is among the issuer's.  The variant does not look.
SignedByAnyone(v) == TRUE
SignedByIssuer(v) == mark[v].key \in keyjar'

\* Is the issuer still found below the anchor on store?
BelowAnchor(founding) == trust_chain \in ToSet(founding)

CheckSignature(v, founding, check) ==
  /\ VAt(v, "signature") /\ Asking
  /\ Learn(founding)
  /\ IF ~BelowAnchor(founding) \/ ~SignedByIssuer(v) THEN NotVerified(v, check)
     ELSE IF check THEN VGoto(v, "status") ELSE VEnd(v, "accepted")
  /\ UNCHANGED <<db, issuer, trust_chain, now>>

\* The question names a subject and an identifier, and the issuer's status endpoint looks for a
\* mark of that kind.
AnswerStatus(v) ==
  /\ VAt(v, "status") /\ Asking
  /\ VGoto(v, IF Status(mark[v].info.id, mark[v].info.sub) THEN "active" ELSE "not_found")
  /\ UNCHANGED <<db, issuer, trust_chain, keyjar, now>>

\* The answer arrives, an error comes back, or nothing that can be read.
TakeStatus(v, http) ==
  /\ VAt(v, "active") \/ VAt(v, "not_found")
  /\ VEnd(v, IF http = "raises" THEN "exception"
             ELSE IF http = "answer" /\ VAt(v, "active") THEN "accepted" ELSE "rejected")
  /\ Asking
  /\ UNCHANGED <<db, issuer, trust_chain, keyjar, now>>

-----------------------------------------------------------------------------
Tick ==
  /\ now < MaxTime
  /\ now' = now + 1
  /\ UNCHANGED <<db, issuer, verifier>>

Init ==
  /\ db \in Stores
  /\ issued = [id \in Ids |-> <<>>] /\ dumped = issued
  /\ key = 1 /\ marks = {} /\ now = 0
  /\ tm_pc = [w \in Workers |-> "idle"]
  /\ content = [w \in Workers |-> NoOne]
  /\ trust_chain = NoOne /\ keyjar = {}
  /\ v_pc = [v \in Verifiers |-> "idle"]
  /\ mark = [v \in Verifiers |-> NoOne]
  /\ verdict = [v \in Verifiers |-> "none"]
  /\ v_calls = [v \in Verifiers |-> 0]

Next ==
  \/ \E w \in Workers :
       \/ \E id \in AllIds, sub \in Subjects : Create(w, id, sub)
       \/ Add(w) \/ Sign(w)
  \/ Dump \/ Load \/ Crash \/ Rotate
  \/ \E v \in Verifiers :
       \/ \E m \in Marks : VerifyTrustMark(v, m)
       \/ AnswerStatus(v)
       \/ \E check \in BOOLEAN :
            CheckExpiry(v, check) \/ \E found \in Foundings : CheckSignature(v, found, check)
       \/ \E found \in Foundings : GetTrustChains(v, found)
       \/ \E http \in {"answer", "error", "raises"} : TakeStatus(v, http)
  \/ Tick

Spec == Init /\ [][Next]_vars

-----------------------------------------------------------------------------
(* Properties                                                              *)

TypeOK ==
  /\ db \in Stores
  /\ issued \in [Ids -> Seq(Infos)] /\ dumped \in [Ids -> Seq(Infos)]
  /\ key \in 1..MaxKeys /\ marks \subseteq Marks /\ now \in Times
  /\ tm_pc \in [Workers -> {"idle", "add", "sign"}]
  /\ content \in [Workers -> Infos \cup {NoOne}]
  /\ \A w \in Workers : tm_pc[w] # "idle" => content[w] # NoOne
  /\ trust_chain \in Anchors \cup {NoOne}
  /\ keyjar \subseteq 1..key
  /\ v_pc \in [Verifiers -> {"idle", "chains", "expiry", "signature", "status", "active", "not_found"}]
  /\ mark \in [Verifiers -> Marks \cup {NoOne}]
  /\ verdict \in [Verifiers -> {"none", "accepted", "rejected", "exception"}]
  /\ \A v \in Verifiers : v_pc[v] \notin {"idle", "chains"} => trust_chain # NoOne
  /\ \A v \in Verifiers : v_pc[v] # "idle" => mark[v] # NoOne
  /\ db = "simple" => \A id \in Ids : Len(issued[id]) <= 1

InOrder(lines) == \A i, j \in 1..Len(lines) : i <= j => lines[i].exp <= lines[j].exp

\* Nobody is told that there is no such mark: not by the status endpoint, asked about the mark or
\* about the subject, and not by a list.
CountsAsActive(m) ==
  /\ StatusOfMark(m) /\ Status(m.info.id, m.info.sub)
  /\ m.info.sub \in List(m.info.id) \cap ListOf(m.info.id, m.info.sub)

\* The search of a file may end at the first line that has expired because lines come in the order
\* of expiry.  As long as they do, a mark that was handed out counts as active until it expires,
\* whatever was added for others, dumped and loaded, and through crashes and restarts.
GoodMarksAreActive ==
  db = "file" => \A m \in marks :
    ~Expired(m.info) /\ InOrder(issued[m.info.id]) => CountsAsActive(m)

\* A mark that was handed out is on record in the file, through crashes and restarts.
MarksAreOnRecord ==
  db = "file" => \A m \in marks : m.info \in ToSet(issued[m.info.id])

\* A mark the verifying entity accepts was signed by the issuer, however the issuer's
\* keys and chains changed between the steps of the verification.
AcceptedMarksAreGenuine ==
  \A v \in Verifiers : verdict[v] = "accepted" => mark[v] \in marks
=============================================================================
