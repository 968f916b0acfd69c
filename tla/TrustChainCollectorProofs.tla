---------------------- MODULE TrustChainCollectorProofs ----------------------
(***************************************************************************)
(* Proofs about TrustChainCollector and Resolver, for every federation,    *)
(* every number of threads and every clock.                                *)
(***************************************************************************)
EXTENDS Resolver, SequenceTheorems, TLAPS

\* Where a worker may be: outside a call it has no frames; inside a branch its
\* authority is a hint of the entity in the top frame.
ControlOK ==
  \A w \in Workers :
    /\ pc[w] = "idle" => stack[w] = <<>>
    /\ pc[w] # "idle" => subject[w] \in Entities
    /\ stack[w] = <<>> => pc[w] \in FetchingConfig \cup {"idle", "collect_tree"}
    /\ pc[w] \notin {"idle", "loop"} /\ stack[w] # <<>>
         => authority[w] \in Hints[Top(w).entity]

\* The frames are a climb from the subject that has not reached stop_at.
ClimbOK ==
  \A w \in Workers :
    /\ stack[w] # <<>> => stack[w][1].entity = subject[w]
    /\ \A i \in 1..Len(stack[w]) :
         /\ stack[w][i].entity # stop_at[w]
         /\ stack[w][i].todo \subseteq Hints[stack[w][i].entity]
    /\ \A i \in 1..(Len(stack[w]) - 1) :
         stack[w][i + 1].entity \in Hints[stack[w][i].entity]

IInv == TypeOK /\ ControlOK /\ ClimbOK /\ ChainsWellFormed

-----------------------------------------------------------------------------
\* The path of a worker that is inside a branch is itself a well-formed chain.
LEMMA PathIsChain ==
  ASSUME IInv, NEW w \in Workers, stack[w] # <<>>
  PROVE  /\ Path(w) \in Seq(Entities)
         /\ Len(Path(w)) = Len(stack[w])
         /\ IsClimb(Path(w), subject[w], stop_at[w])
         /\ Path(w)[Len(Path(w))] = Top(w).entity
         /\ Top(w).entity # stop_at[w]
         /\ Top(w) \in Frames
         /\ Len(stack[w]) \in 1..RecursionLimit
<1>1. stack[w] \in Seq(Frames) /\ Len(stack[w]) \in Nat \ {0} /\ Len(stack[w]) <= RecursionLimit
  BY ConstantsAssumption DEF IInv, TypeOK
<1>2. \A i \in 1..Len(stack[w]) : stack[w][i] \in Frames
  BY <1>1
<1>3. Path(w) \in Seq(Entities) /\ Len(Path(w)) = Len(stack[w])
  BY <1>1, <1>2 DEF Path, Frames
<1>4. \A i \in 1..Len(stack[w]) : Path(w)[i] = stack[w][i].entity
  BY DEF Path
<1>5. RecursionLimit \in Nat \ {0}
  BY ConstantsAssumption
<1>. QED
  BY <1>1, <1>2, <1>3, <1>4, <1>5 DEF IInv, ClimbOK, Top, IsClimb

LEMMA InitIInv == Init => IInv
  BY ConstantsAssumption
  DEF Init, IInv, TypeOK, ControlOK, ClimbOK, ChainsWellFormed, NoEntry, Labels, Results

-----------------------------------------------------------------------------
(* Three shapes of step cover most actions.                                *)

CachesOK ==
  /\ now \in Nat
  /\ config_cache \in [Entities -> Nat]
  /\ statement_cache \in [Pairs -> Nat]
  /\ time_cache \in [Pairs -> Nat]
  /\ statement \in [Workers -> Nat]

\* A worker inside a branch, or on its way to the subject's configuration, goes
\* to another such place.
LEMMA MoveOn ==
  ASSUME IInv, NEW w \in Workers, NEW label \in Labels \ {"idle", "loop"},
         pc[w] \notin {"idle", "loop"},
         stack[w] = <<>> => label \in FetchingConfig \cup {"collect_tree"},
         Goto(w, label), CachesOK', UNCHANGED <<call, stack, authority, chains, result>>
  PROVE  IInv'
<1>1. TypeOK'
  BY DEF IInv, TypeOK, CachesOK, Goto, call
<1>2. ControlOK'
  BY DEF IInv, TypeOK, ControlOK, Goto, Top, call
<1>3. ClimbOK' /\ ChainsWellFormed'
  BY DEF IInv, ClimbOK, ChainsWellFormed, call
<1>. QED
  BY <1>1, <1>2, <1>3 DEF IInv

\* A call ends, with a return or an exception.
LEMMA CallEnds ==
  ASSUME IInv, NEW w \in Workers, NEW how \in Results,
         Finish(w, how), CachesOK', UNCHANGED <<call, authority, chains>>
  PROVE  IInv'
<1>1. <<>> \in Seq(Frames) /\ Len(<<>>) = 0
  OBVIOUS
<1>2. /\ stack' \in [Workers -> Seq(Frames)]
      /\ \A v \in Workers : stack'[v] = IF v = w THEN <<>> ELSE stack[v]
  BY <1>1 DEF IInv, TypeOK, Finish
<1>3. /\ pc' \in [Workers -> Labels]
      /\ \A v \in Workers : pc'[v] = IF v = w THEN "idle" ELSE pc[v]
  BY DEF IInv, TypeOK, Finish, Goto, Labels
<1>4. TypeOK'
  <2>1. result' \in [Workers -> Results]
    BY DEF IInv, TypeOK, Finish
  <2>2. \A v \in Workers : Len(stack'[v]) <= RecursionLimit
    BY <1>1, <1>2, ConstantsAssumption DEF IInv, TypeOK
  <2>. QED
    BY <1>2, <1>3, <2>1, <2>2 DEF IInv, TypeOK, CachesOK, call
<1>5. ControlOK'
  BY <1>2, <1>3 DEF IInv, ControlOK, Top, call
<1>6. ClimbOK'
  <2>. SUFFICES ASSUME NEW v \in Workers
                PROVE  /\ stack'[v] # <<>> => stack'[v][1].entity = subject[v]
                       /\ \A i \in 1..Len(stack'[v]) :
                            /\ stack'[v][i].entity # stop_at[v]
                            /\ stack'[v][i].todo \subseteq Hints[stack'[v][i].entity]
                       /\ \A i \in 1..(Len(stack'[v]) - 1) :
                            stack'[v][i + 1].entity \in Hints[stack'[v][i].entity]
    BY DEF ClimbOK, call
  <2>1. CASE v = w
    BY <2>1, <1>1, <1>2
  <2>2. CASE v # w
    BY <2>2, <1>2 DEF IInv, ClimbOK
  <2>. QED
    BY <2>1, <2>2
<1>7. ChainsWellFormed'
  BY DEF IInv, ChainsWellFormed, call
<1>. QED
  BY <1>4, <1>5, <1>6, <1>7 DEF IInv

\* A branch is None: the path becomes a chain and the loop goes on.
LEMMA BranchIsNone ==
  ASSUME IInv, NEW w \in Workers, stack[w] # <<>>, pc[w] # "idle",
         NoBranch(w), CachesOK', UNCHANGED <<call, stack, authority, result>>
  PROVE  IInv'
<1>1. Path(w) \in Seq(Entities)
  BY PathIsChain
<1>2. TypeOK'
  <2>1. chains' \in [Workers -> SUBSET Seq(Entities)]
    BY <1>1 DEF IInv, TypeOK, NoBranch
  <2>2. pc' \in [Workers -> Labels]
    BY DEF IInv, TypeOK, NoBranch, Goto, Labels
  <2>. QED
    BY <2>1, <2>2 DEF IInv, TypeOK, CachesOK, call
<1>3. ControlOK'
  BY DEF IInv, TypeOK, ControlOK, NoBranch, Goto, Top, call
<1>4. ClimbOK'
  BY DEF IInv, ClimbOK, NoBranch, call
<1>5. ChainsWellFormed'
  <2>1. ASSUME NEW v \in Workers, NEW p \in chains'[v]
        PROVE  (v = w /\ p = Path(w)) \/ p \in chains[v]
    BY <2>1 DEF NoBranch, IInv, TypeOK
  <2>2. IsClimb(Path(w), subject[w], stop_at[w])
    BY PathIsChain
  <2>. QED
    BY <2>1, <2>2 DEF ChainsWellFormed, IInv, call
<1>. QED
  BY <1>2, <1>3, <1>4, <1>5 DEF IInv

-----------------------------------------------------------------------------
(* One lemma per action.                                                   *)

\* Inside a branch the caches are indexed by keys they have.
LEMMA InBranch ==
  ASSUME IInv, NEW w \in Workers, pc[w] \notin FetchingConfig \cup {"idle", "collect_tree", "loop"}
  PROVE  /\ stack[w] # <<>>
         /\ authority[w] \in Hints[Top(w).entity]
         /\ authority[w] \in Entities
         /\ Key(w) \in Pairs
         /\ pc[w] \in Labels
<1>1. stack[w] # <<>> /\ authority[w] \in Hints[Top(w).entity]
  BY DEF IInv, ControlOK
<1>2. Top(w).entity \in Entities
  BY <1>1, PathIsChain DEF Frames
<1>. QED
  BY <1>1, <1>2, ConstantsAssumption DEF Key, Pairs, IInv, TypeOK

LEMMA ReadStatementIInv ==
  ASSUME IInv, NEW w \in Workers, ReadStatement(w)
  PROVE  IInv'
<1>1. stack[w] # <<>> /\ Key(w) \in Pairs
  BY InBranch DEF ReadStatement, FetchingConfig
<1>2. CachesOK'
  BY <1>1 DEF IInv, TypeOK, CachesOK, ReadStatement, caches
<1>. QED
  BY <1>1, <1>2, MoveOn DEF ReadStatement, Labels

LEMMA CheckTimeIInv ==
  ASSUME IInv, NEW w \in Workers, CheckTime(w)
  PROVE  IInv'
<1>1. stack[w] # <<>> /\ Key(w) \in Pairs
  BY InBranch DEF CheckTime, FetchingConfig
<1>2. CachesOK'
  BY DEF IInv, TypeOK, CachesOK, CheckTime, caches
<1>3. CASE time_cache[Key(w)] = NoEntry
  BY <1>2, <1>3, CallEnds DEF CheckTime, Results
<1>4. CASE time_cache[Key(w)] # NoEntry
  <2>1. \E label \in {"delete_statement", "read_config"} : Goto(w, label)
    BY <1>4 DEF CheckTime
  <2>. QED
    BY <1>1, <1>2, <1>4, <2>1, MoveOn DEF CheckTime, Labels
<1>. QED
  BY <1>3, <1>4

LEMMA DeleteStatementIInv ==
  ASSUME IInv, NEW w \in Workers, DeleteStatement(w)
  PROVE  IInv'
<1>1. stack[w] # <<>> /\ Key(w) \in Pairs
  BY InBranch DEF DeleteStatement, FetchingConfig
<1>2. CachesOK'
  BY DEF IInv, TypeOK, CachesOK, DeleteStatement, NoEntry
<1>3. CASE statement_cache[Key(w)] = NoEntry
  BY <1>2, <1>3, CallEnds DEF DeleteStatement, Results
<1>4. CASE statement_cache[Key(w)] # NoEntry
  BY <1>1, <1>2, <1>4, MoveOn DEF DeleteStatement, Labels
<1>. QED
  BY <1>3, <1>4

LEMMA DeleteTimeIInv ==
  ASSUME IInv, NEW w \in Workers, DeleteTime(w)
  PROVE  IInv'
<1>1. stack[w] # <<>> /\ Key(w) \in Pairs
  BY InBranch DEF DeleteTime, FetchingConfig
<1>2. CachesOK'
  <2>1. CASE UNCHANGED <<time_cache, statement>>
    BY <2>1 DEF IInv, TypeOK, CachesOK, DeleteTime
  <2>2. CASE /\ time_cache' = [time_cache EXCEPT ![Key(w)] = NoEntry]
             /\ statement' = [statement EXCEPT ![w] = NoEntry]
    BY <2>2 DEF IInv, TypeOK, CachesOK, DeleteTime, NoEntry
  <2>. QED
    BY <2>1, <2>2 DEF DeleteTime
<1>3. CASE time_cache[Key(w)] = NoEntry
  <2>1. Finish(w, "missing_key") /\ UNCHANGED <<call, authority, chains>>
    BY <1>3 DEF DeleteTime
  <2>. QED
    BY <1>2, <2>1, CallEnds DEF Results
<1>4. CASE time_cache[Key(w)] # NoEntry
  BY <1>1, <1>2, <1>4, MoveOn DEF DeleteTime, Labels
<1>. QED
  BY <1>3, <1>4

LEMMA FindEndpointIInv ==
  ASSUME IInv, NEW w \in Workers, FindEndpoint(w)
  PROVE  IInv'
<1>1. stack[w] # <<>>
  BY InBranch DEF FindEndpoint, FetchingConfig
<1>2. CachesOK'
  BY DEF IInv, TypeOK, CachesOK, FindEndpoint, caches
<1>3. CASE Finish(w, "bad_metadata")
  BY <1>2, <1>3, CallEnds DEF FindEndpoint, Results
<1>4. CASE \E label \in {"fetch_statement", "evict_then_fetch", "fetch_config"} :
             Goto(w, label) /\ UNCHANGED <<stack, result>>
  BY <1>1, <1>2, <1>4, MoveOn DEF FindEndpoint, Labels, FetchingConfig
<1>. QED
  BY <1>3, <1>4 DEF FindEndpoint

LEMMA FetchStatementIInv ==
  ASSUME IInv, NEW w \in Workers, FetchStatement(w)
  PROVE  IInv'
<1>1. stack[w] # <<>>
  BY InBranch DEF FetchStatement, FetchingConfig
<1>2. CachesOK'
  <2>1. PICK life \in Lifetimes :
          /\ statement_cache' = [statement_cache EXCEPT ![Key(w)] = now + life]
          /\ statement' = [statement EXCEPT ![w] = now + life]
    BY DEF FetchStatement
  <2>2. now + life \in Nat
    BY ConstantsAssumption DEF IInv, TypeOK
  <2>3. statement_cache' \in [Pairs -> Nat] /\ statement' \in [Workers -> Nat]
    BY <2>1, <2>2 DEF IInv, TypeOK
  <2>. QED
    BY <2>3 DEF IInv, TypeOK, CachesOK, FetchStatement
<1>. QED
  BY <1>1, <1>2, MoveOn DEF FetchStatement, Labels

LEMMA StoreTimeIInv ==
  ASSUME IInv, NEW w \in Workers, StoreTime(w)
  PROVE  IInv'
<1>1. stack[w] # <<>>
  BY InBranch DEF StoreTime, FetchingConfig
<1>2. CachesOK'
  BY DEF IInv, TypeOK, CachesOK, StoreTime
<1>3. CASE Goto(w, "read_config") /\ UNCHANGED <<stack, result>>
  BY <1>1, <1>2, <1>3, MoveOn DEF StoreTime, Labels
<1>4. CASE Finish(w, "missing_key")
  BY <1>2, <1>4, CallEnds DEF StoreTime, Results
<1>. QED
  BY <1>3, <1>4 DEF StoreTime

LEMMA ReadConfigIInv ==
  ASSUME IInv, NEW w \in Workers, ReadConfig(w)
  PROVE  IInv'
<1>1. stack[w] # <<>>
  BY InBranch DEF ReadConfig, FetchingConfig
<1>2. CachesOK'
  BY DEF IInv, TypeOK, CachesOK, ReadConfig, caches
<1>3. CASE config_cache[authority[w]] = NoEntry
  BY <1>2, <1>3, CallEnds DEF ReadConfig, Results
<1>4. CASE config_cache[authority[w]] # NoEntry
  BY <1>1, <1>2, <1>4, MoveOn DEF ReadConfig, Labels
<1>. QED
  BY <1>3, <1>4

LEMMA EvictIInv ==
  ASSUME IInv, NEW w \in Workers, Evict(w)
  PROVE  IInv'
<1>1. stack[w] # <<>> /\ pc[w] \notin {"idle", "loop"}
  BY InBranch DEF Evict, FetchingConfig
<1>2. CachesOK' /\ UNCHANGED <<call, authority, chains>>
  BY DEF IInv, TypeOK, CachesOK, Evict, NoEntry
<1>3. CASE \E how \in {"missing_key", "no_configuration"} : Finish(w, how)
  BY <1>2, <1>3, CallEnds DEF Results
<1>4. CASE Goto(w, "fetch_config") /\ UNCHANGED <<stack, result>>
  BY <1>1, <1>2, <1>4, MoveOn DEF Labels, FetchingConfig
<1>. QED
  BY <1>3, <1>4 DEF Evict

LEMMA FetchConfigIInv ==
  ASSUME IInv, NEW w \in Workers, FetchConfig(w)
  PROVE  IInv'
<1>1. CachesOK'
  <2>1. PICK life \in Lifetimes :
          config_cache' = [config_cache EXCEPT ![Wanted(w)] = now + life]
    BY DEF FetchConfig
  <2>2. now + life \in Nat
    BY ConstantsAssumption DEF IInv, TypeOK
  <2>3. config_cache' \in [Entities -> Nat]
    BY <2>1, <2>2 DEF IInv, TypeOK
  <2>. QED
    BY <2>3 DEF IInv, TypeOK, CachesOK, FetchConfig
<1>2. pc[w] \notin {"idle", "loop"}
  BY DEF FetchConfig, FetchingConfig
<1>3. CASE stack[w] = <<>> /\ Goto(w, "collect_tree") /\ UNCHANGED chains
  BY <1>1, <1>2, <1>3, MoveOn DEF FetchConfig, Labels
<1>4. CASE stack[w] # <<>> /\ Goto(w, "fetch_statement") /\ UNCHANGED chains
  BY <1>1, <1>2, <1>4, MoveOn DEF FetchConfig, Labels
<1>5. CASE stack[w] # <<>> /\ NoBranch(w)
  BY <1>1, <1>2, <1>5, BranchIsNone DEF FetchConfig
<1>. QED
  BY <1>3, <1>4, <1>5 DEF FetchConfig

LEMMA TryTenantIInv ==
  ASSUME IInv, NEW w \in Workers, TryTenant(w)
  PROVE  IInv'
<1>1. CachesOK'
  BY DEF IInv, TypeOK, CachesOK, TryTenant, caches
<1>. QED
  BY <1>1, MoveOn DEF TryTenant, Labels, FetchingConfig

LEMMA FailuresIInv ==
  ASSUME IInv, NEW w \in Workers, EmptyLeafPage(w) \/ FetchFails(w)
  PROVE  IInv'
<1>1. CachesOK' /\ UNCHANGED <<call, authority, chains>>
  BY DEF IInv, TypeOK, CachesOK, EmptyLeafPage, FetchFails, caches
<1>2. \E how \in {"no_leaf_configuration", "failed_retrieval"} : Finish(w, how)
  BY DEF EmptyLeafPage, FetchFails
<1>. QED
  BY <1>1, <1>2, CallEnds DEF Results

\* A climb that has not reached its end goes on with a hint of its last entity.
LEMMA ClimbGoesOn ==
  ASSUME NEW p \in Seq(Entities), NEW a \in Entities, NEW s, NEW t,
         IsClimb(p, s, t), Len(p) \in 1..RecursionLimit,
         p[Len(p)] # t, a \in Hints[p[Len(p)]]
  PROVE  Append(p, a) \in Seq(Entities) /\ IsClimb(Append(p, a), s, t)
<1>. DEFINE q == Append(p, a)
<1>1. /\ q \in Seq(Entities) /\ Len(q) = Len(p) + 1 /\ q[Len(p) + 1] = a
      /\ \A i \in 1..Len(p) : q[i] = p[i]
  BY AppendProperties
<1>2. RecursionLimit \in Nat /\ Len(p) \in Nat \ {0}
  BY ConstantsAssumption
<1>. HIDE DEF q
<1>3. Len(q) \in 1..(RecursionLimit + 1) /\ q[1] = s
  BY <1>1, <1>2 DEF IsClimb
<1>4. ASSUME NEW i \in 1..(Len(q) - 1)
      PROVE  q[i + 1] \in Hints[q[i]] /\ q[i] # t
  <2>1. i \in 1..Len(p) /\ q[i] = p[i]
    BY <1>1, <1>2
  <2>2. CASE i = Len(p)
    BY <1>1, <2>1, <2>2
  <2>3. CASE i # Len(p)
    <3>1. i \in 1..(Len(p) - 1) /\ i + 1 \in 1..Len(p)
      BY <1>2, <2>1, <2>3
    <3>. QED
      BY <1>1, <3>1 DEF IsClimb
  <2>. QED
    BY <2>2, <2>3
<1>. QED
  BY <1>1, <1>3, <1>4 DEF IsClimb, q

\* collect_tree pushes a frame, or its path is complete.
LEMMA EnterTreeIInv ==
  ASSUME IInv, NEW w \in Workers, EnterTree(w)
  PROVE  IInv'
<1>. DEFINE e == Wanted(w)
            frame == [entity |-> e, todo |-> Hints[e]]
<1>1. CachesOK'
  BY DEF IInv, TypeOK, CachesOK, EnterTree, caches
<1>2. /\ pc[w] = "collect_tree" /\ e \in Entities /\ Hints[e] \subseteq Entities
      /\ stack[w] # <<>> => e \in Hints[Top(w).entity]
      /\ stack[w] = <<>> => e = subject[w]
  <2>1. CASE stack[w] = <<>>
    BY <2>1, ConstantsAssumption DEF EnterTree, IInv, ControlOK, Wanted
  <2>2. CASE stack[w] # <<>>
    <3>1. e \in Hints[Top(w).entity] /\ Top(w).entity \in Entities
      BY <2>2, PathIsChain DEF EnterTree, IInv, ControlOK, Wanted, Frames
    <3>. QED
      BY <2>2, <3>1, ConstantsAssumption DEF EnterTree
  <2>. QED
    BY <2>1, <2>2
<1>3. stack[w] \in Seq(Frames) /\ Len(stack[w]) \in 0..RecursionLimit
  BY ConstantsAssumption DEF IInv, TypeOK
<1>4. CASE \E how \in {"recursion", "tree"} : Finish(w, how) /\ UNCHANGED chains
  BY <1>1, <1>4, CallEnds DEF EnterTree, Results
<1>5. CASE /\ ~TooDeep(w) /\ ~AtEnd(w, e)
           /\ stack' = [stack EXCEPT ![w] = Append(@, frame)]
           /\ Goto(w, "loop") /\ UNCHANGED <<chains, result>>
  <2>1. frame \in Frames
    BY <1>2 DEF Frames
  <2>2. /\ stack'[w] \in Seq(Frames)
        /\ Len(stack'[w]) = Len(stack[w]) + 1
        /\ \A i \in 1..Len(stack[w]) : stack'[w][i] = stack[w][i]
        /\ stack'[w][Len(stack[w]) + 1] = frame
        /\ stack'[w] # <<>>
    BY <1>3, <1>5, <2>1, AppendProperties DEF IInv, TypeOK
  <2>3. \A v \in Workers \ {w} : stack'[v] = stack[v] /\ pc'[v] = pc[v]
    BY <1>5 DEF IInv, TypeOK, Goto
  <2>4. pc'[w] = "loop" /\ pc' \in [Workers -> Labels]
    BY <1>5 DEF IInv, TypeOK, Goto, Labels
  <2>5. TypeOK'
    <3>1. stack' \in [Workers -> Seq(Frames)]
      BY <1>5, <2>2 DEF IInv, TypeOK
    <3>2. \A v \in Workers : Len(stack'[v]) <= RecursionLimit
      BY <1>3, <1>5, <2>2, <2>3, ConstantsAssumption DEF IInv, TypeOK, TooDeep
    <3>. QED
      BY <1>1, <1>5, <2>4, <3>1, <3>2 DEF IInv, TypeOK, CachesOK, EnterTree, call
  <2>6. ControlOK'
    <3>1. UNCHANGED <<subject, authority>>
      BY DEF EnterTree, call
    <3>2. subject[w] \in Entities
      BY <1>2 DEF IInv, ControlOK
    <3>. QED
      BY <2>2, <2>3, <2>4, <3>1, <3>2 DEF IInv, ControlOK, Top
  <2>7. ClimbOK'
    <3>1. UNCHANGED <<subject, stop_at>>
      BY DEF EnterTree, call
    <3>2. frame.entity = e /\ frame.todo = Hints[e] /\ e # stop_at[w]
      BY <1>5 DEF AtEnd
    <3>3. /\ stack'[w][1].entity = subject[w]
          /\ \A i \in 1..Len(stack'[w]) :
               /\ stack'[w][i].entity # stop_at[w]
               /\ stack'[w][i].todo \subseteq Hints[stack'[w][i].entity]
          /\ \A i \in 1..(Len(stack'[w]) - 1) :
               stack'[w][i + 1].entity \in Hints[stack'[w][i].entity]
      <4>1. stack[w] # <<>> => Len(stack[w]) > 0
        BY <1>3
      <4>2. stack[w] = <<>> => Len(stack[w]) = 0
        OBVIOUS
      <4>3. stack'[w][1].entity = subject[w]
        BY <1>2, <1>3, <2>2, <3>2, <4>1, <4>2 DEF IInv, ClimbOK
      <4>4. \A i \in 1..Len(stack'[w]) :
               /\ stack'[w][i].entity # stop_at[w]
               /\ stack'[w][i].todo \subseteq Hints[stack'[w][i].entity]
        BY <1>3, <2>2, <3>2 DEF IInv, ClimbOK
      <4>5. ASSUME NEW i \in 1..(Len(stack'[w]) - 1)
            PROVE  stack'[w][i + 1].entity \in Hints[stack'[w][i].entity]
        <5>1. CASE i = Len(stack[w])
          BY <1>2, <1>3, <2>2, <3>2, <4>2, <5>1 DEF Top
        <5>2. CASE i < Len(stack[w])
          BY <1>3, <2>2, <5>2 DEF IInv, ClimbOK
        <5>. QED
          BY <1>3, <2>2, <5>1, <5>2
      <4>. QED
        BY <4>3, <4>4, <4>5
    <3>4. ASSUME NEW v \in Workers
          PROVE  /\ stack'[v] # <<>> => stack'[v][1].entity = subject'[v]
                 /\ \A i \in 1..Len(stack'[v]) :
                      /\ stack'[v][i].entity # stop_at'[v]
                      /\ stack'[v][i].todo \subseteq Hints[stack'[v][i].entity]
                 /\ \A i \in 1..(Len(stack'[v]) - 1) :
                      stack'[v][i + 1].entity \in Hints[stack'[v][i].entity]
      <4>1. CASE v = w
        BY <3>1, <3>3, <4>1
      <4>2. CASE v # w
        BY <2>3, <3>1, <4>2 DEF IInv, ClimbOK
      <4>. QED
        BY <4>1, <4>2
    <3>. QED
      BY <3>4 DEF ClimbOK
  <2>8. ChainsWellFormed'
    BY <1>5 DEF IInv, ChainsWellFormed, EnterTree, call
  <2>. QED
    BY <2>5, <2>6, <2>7, <2>8 DEF IInv
<1>6. CASE /\ stack[w] # <<>>
           /\ chains' = [chains EXCEPT ![w] = @ \cup {Append(Path(w), e)}]
           /\ Goto(w, "loop") /\ UNCHANGED <<stack, result>>
  <2>1. /\ Append(Path(w), e) \in Seq(Entities)
        /\ IsClimb(Append(Path(w), e), subject[w], stop_at[w])
    <3>1. /\ Path(w) \in Seq(Entities) /\ Len(Path(w)) \in 1..RecursionLimit
          /\ IsClimb(Path(w), subject[w], stop_at[w])
          /\ Path(w)[Len(Path(w))] = Top(w).entity /\ Top(w).entity # stop_at[w]
      BY <1>6, PathIsChain
    <3>2. PICK p \in Seq(Entities) : p = Path(w)
      BY <3>1
    <3>3. PICK a \in Entities : a = e
      BY <1>2
    <3>4. a \in Hints[p[Len(p)]]
      BY <1>2, <1>6, <3>1, <3>2, <3>3
    <3>5. PICK s, t : s = subject[w] /\ t = stop_at[w]
      OBVIOUS
    <3>6. Append(p, a) \in Seq(Entities) /\ IsClimb(Append(p, a), s, t)
      BY <3>1, <3>2, <3>4, <3>5, ClimbGoesOn
    <3>. QED
      BY <3>2, <3>3, <3>5, <3>6
  <2>2. TypeOK'
    <3>1. chains' \in [Workers -> SUBSET Seq(Entities)]
      BY <1>6, <2>1 DEF IInv, TypeOK
    <3>. QED
      BY <1>1, <1>6, <3>1 DEF IInv, TypeOK, CachesOK, EnterTree, Goto, Labels, call
  <2>3. ControlOK' /\ ClimbOK'
    BY <1>2, <1>6 DEF IInv, TypeOK, ControlOK, ClimbOK, EnterTree, Goto, Top, call
  <2>4. ChainsWellFormed'
    <3>1. ASSUME NEW v \in Workers, NEW p \in chains'[v]
          PROVE  (v = w /\ p = Append(Path(w), e)) \/ p \in chains[v]
      BY <1>6, <3>1 DEF IInv, TypeOK
    <3>. QED
      BY <2>1, <3>1 DEF IInv, ChainsWellFormed, EnterTree, call
  <2>. QED
    BY <2>2, <2>3, <2>4 DEF IInv
<1>. QED
  BY <1>4, <1>5, <1>6 DEF EnterTree

\* The loop picks a hint of the top frame and drops it from the frame's list.
LEMMA NextAuthorityIInv ==
  ASSUME IInv, NEW w \in Workers, NEW a \in Entities, NextAuthority(w, a)
  PROVE  IInv'
<1>. DEFINE n == Len(stack[w])
            frame == [stack[w][n] EXCEPT !.todo = NotVisited(w, a)]
<1>1. CachesOK'
  BY DEF IInv, TypeOK, CachesOK, NextAuthority, caches
<1>2. /\ stack[w] # <<>> /\ pc[w] = "loop"
      /\ stack[w] \in Seq(Frames) /\ n \in 1..RecursionLimit
      /\ Top(w) \in Frames /\ a \in Top(w).todo /\ Top(w) = stack[w][n]
  BY PathIsChain DEF NextAuthority, IInv, ControlOK, TypeOK, FetchingConfig, Top
<1>3. a \in Hints[Top(w).entity]
  BY <1>2 DEF IInv, ClimbOK
<1>4. /\ frame \in Frames /\ frame.entity = Top(w).entity
      /\ frame.todo \subseteq Top(w).todo
  BY <1>2 DEF Frames, NotVisited
<1>5. stack'[w] = [stack[w] EXCEPT ![n] = frame]
  BY <1>2 DEF NextAuthority, IInv, TypeOK
<1>6. /\ stack'[w] \in Seq(Frames) /\ Len(stack'[w]) = n
      /\ \A i \in 1..n : stack'[w][i] = IF i = n THEN frame ELSE stack[w][i]
  BY <1>2, <1>4, <1>5, ExceptSeq
<1>7. \A v \in Workers \ {w} : stack'[v] = stack[v]
  BY DEF NextAuthority, IInv, TypeOK
<1>8. stack' \in [Workers -> Seq(Frames)] /\ stack'[w] # <<>>
  BY <1>2, <1>6, <1>7 DEF NextAuthority, IInv, TypeOK
<1>9. \A v \in Workers : \A i \in 1..Len(stack'[v]) :
        /\ Len(stack'[v]) = Len(stack[v])
        /\ stack'[v][i].entity = stack[v][i].entity
        /\ stack'[v][i].todo \subseteq stack[v][i].todo
  BY <1>2, <1>4, <1>6, <1>7
<1>10. /\ chains' \in [Workers -> SUBSET Seq(Entities)]
       /\ \A v \in Workers : \A p \in chains'[v] :
            (v = w /\ p = Path(w)) \/ p \in chains[v]
  <2>1. CASE UNCHANGED chains
    BY <2>1 DEF IInv, TypeOK
  <2>2. CASE NoBranch(w)
    BY <1>2, <2>2, PathIsChain DEF IInv, TypeOK, NoBranch
  <2>. QED
    BY <2>1, <2>2 DEF NextAuthority
<1>11. /\ pc' \in [Workers -> Labels] /\ pc'[w] \in {"loop", "read_statement"}
       /\ \A v \in Workers \ {w} : pc'[v] = pc[v] /\ authority'[v] = authority[v]
       /\ authority' \in [Workers -> Entities \cup {NoEntity}]
       /\ pc'[w] = "read_statement" => authority'[w] = a
  BY DEF NextAuthority, NoBranch, Goto, IInv, TypeOK, Labels
<1>12. TypeOK'
  <2>1. \A v \in Workers : Len(stack'[v]) <= RecursionLimit
    BY <1>2, <1>6, <1>7 DEF IInv, TypeOK
  <2>. QED
    BY <1>1, <1>8, <1>10, <1>11, <2>1 DEF IInv, TypeOK, CachesOK, NextAuthority, call
<1>13. ControlOK'
  <2>1. Top(w)'.entity = Top(w).entity
    <3>1. n \in 1..n /\ stack'[w][n] = frame
      BY <1>2, <1>6
    <3>2. Top(w)' = frame
      BY <1>6, <3>1 DEF Top
    <3>. QED
      BY <1>4, <3>2
  <2>2. \A v \in Workers \ {w} : Top(v)' = Top(v)
    BY <1>7 DEF Top
  <2>3. UNCHANGED subject /\ subject[w] \in Entities
    BY <1>2 DEF NextAuthority, call, IInv, ControlOK
  <2>. QED
    BY <1>3, <1>7, <1>8, <1>11, <2>1, <2>2, <2>3 DEF IInv, ControlOK
<1>14. ClimbOK'
  <2>1. UNCHANGED <<subject, stop_at>>
    BY DEF NextAuthority, call
  <2>2. \A v \in Workers : stack'[v] # <<>> => stack'[v][1].entity = subject[v]
    <3>1. stack'[w][1].entity = stack[w][1].entity
      BY <1>2, <1>6, <1>9
    <3>. QED
      BY <1>2, <1>7, <3>1 DEF IInv, ClimbOK
  <2>3. \A v \in Workers : \A i \in 1..Len(stack'[v]) :
          /\ stack'[v][i].entity # stop_at[v]
          /\ stack'[v][i].todo \subseteq Hints[stack'[v][i].entity]
    BY <1>9 DEF IInv, ClimbOK
  <2>4. \A v \in Workers : \A i \in 1..(Len(stack'[v]) - 1) :
          stack'[v][i + 1].entity \in Hints[stack'[v][i].entity]
    <3>1. SUFFICES ASSUME NEW v \in Workers, NEW i \in 1..(Len(stack'[v]) - 1)
                   PROVE  stack'[v][i + 1].entity \in Hints[stack'[v][i].entity]
      OBVIOUS
    <3>2. Len(stack'[v]) \in Nat
      BY <1>8
    <3>. QED
      BY <1>9, <3>2 DEF IInv, ClimbOK
  <2>. QED
    BY <2>1, <2>2, <2>3, <2>4 DEF ClimbOK
<1>15. ChainsWellFormed'
  <2>1. IsClimb(Path(w), subject[w], stop_at[w])
    BY <1>2, PathIsChain
  <2>. QED
    BY <1>10, <2>1 DEF IInv, ChainsWellFormed, NextAuthority, call
<1>. QED
  BY <1>12, <1>13, <1>14, <1>15 DEF IInv

\* A finished loop returns to the frame below, or ends the call.
LEMMA ReturnTreeIInv ==
  ASSUME IInv, NEW w \in Workers, ReturnTree(w)
  PROVE  IInv'
<1>. DEFINE n == Len(stack[w])
<1>1. CachesOK'
  BY DEF IInv, TypeOK, CachesOK, ReturnTree, caches
<1>2. /\ stack[w] # <<>> /\ pc[w] = "loop"
      /\ stack[w] \in Seq(Frames) /\ n \in 1..RecursionLimit
  BY PathIsChain DEF ReturnTree, IInv, ControlOK, TypeOK, FetchingConfig
<1>3. CASE n = 1
  <2>1. Finish(w, "tree") /\ UNCHANGED <<call, authority, chains>>
    BY <1>3 DEF ReturnTree
  <2>. QED
    BY <1>1, <2>1, CallEnds DEF Results
<1>4. CASE n # 1
  <2>1. /\ stack' = [stack EXCEPT ![w] = SubSeq(@, 1, n - 1)]
        /\ UNCHANGED <<pc, result, call, authority, chains>>
    BY <1>4 DEF ReturnTree
  <2>2. \A i \in 1..(n - 1) : stack[w][i] \in Frames
    BY <1>2
  <2>3. /\ stack'[w] \in Seq(Frames) /\ Len(stack'[w]) = n - 1
        /\ \A i \in 1..(n - 1) : stack'[w][i] = stack[w][i]
    <3>1. stack'[w] = SubSeq(stack[w], 1, n - 1)
      BY <2>1 DEF IInv, TypeOK
    <3>. QED
      BY <1>2, <1>4, <2>2, <3>1
  <2>4. \A v \in Workers \ {w} : stack'[v] = stack[v]
    BY <2>1 DEF IInv, TypeOK
  <2>5. TypeOK'
    <3>1. stack' \in [Workers -> Seq(Frames)]
      BY <2>1, <2>3 DEF IInv, TypeOK
    <3>2. \A v \in Workers : Len(stack'[v]) <= RecursionLimit
      <4>1. Len(stack'[w]) <= RecursionLimit
        BY <1>2, <2>3, ConstantsAssumption
      <4>. QED
        BY <2>4, <4>1 DEF IInv, TypeOK
    <3>. QED
      BY <1>1, <2>1, <3>1, <3>2 DEF IInv, TypeOK, CachesOK, call
  <2>6. ControlOK'
    <3>1. stack'[w] # <<>> /\ stack[w] # <<>>
      <4>1. Len(stack'[w]) # 0
        BY <1>2, <1>4, <2>3
      <4>. QED
        BY <1>2, <4>1
    <3>. QED
      BY <1>2, <2>1, <2>4, <3>1 DEF IInv, ControlOK, Top, call
  <2>7. ClimbOK'
    BY <1>2, <1>4, <2>1, <2>3, <2>4 DEF IInv, ClimbOK, call
  <2>8. ChainsWellFormed'
    BY <2>1 DEF IInv, ChainsWellFormed, call
  <2>. QED
    BY <2>5, <2>6, <2>7, <2>8 DEF IInv
<1>. QED
  BY <1>3, <1>4

\* A call starts outside any frame, with no chains.
LEMMA CallIInv ==
  ASSUME IInv, NEW w \in Workers, NEW e \in Subjects, NEW s \in StopAts,
         Call(w, e, s) \/ CallWithConfiguration(w, e, s)
  PROVE  IInv'
<1>1. /\ CachesOK' /\ UNCHANGED <<stack, authority>>
      /\ Begin(w, e, s) /\ pc[w] = "idle"
      /\ \E label \in {"collect_tree", "fetch_config"} : Goto(w, label)
  BY DEF IInv, TypeOK, CachesOK, Call, CallWithConfiguration, caches
<1>2. e \in Entities /\ s \in Entities \cup {NoEntity}
  BY ConstantsAssumption
<1>3. stack[w] = <<>> /\ Len(stack[w]) = 0
  BY <1>1 DEF IInv, ControlOK
<1>4. TypeOK'
  BY <1>1, <1>2 DEF IInv, TypeOK, CachesOK, Begin, Goto, Labels, FetchingConfig, Results
<1>5. ControlOK'
  BY <1>1, <1>2, <1>3 DEF IInv, TypeOK, ControlOK, Begin, Goto, FetchingConfig, Top
<1>6. ClimbOK'
  BY <1>1, <1>3 DEF IInv, TypeOK, ClimbOK, Begin
<1>7. ChainsWellFormed'
  BY <1>1 DEF IInv, TypeOK, ChainsWellFormed, Begin
<1>. QED
  BY <1>4, <1>5, <1>6, <1>7 DEF IInv

LEMMA TickIInv ==
  ASSUME IInv, Tick
  PROVE  IInv'
<1>1. TypeOK'
  BY DEF IInv, TypeOK, Tick, caches, call
<1>2. ControlOK' /\ ClimbOK' /\ ChainsWellFormed'
  BY DEF IInv, ControlOK, ClimbOK, ChainsWellFormed, Tick, call, Top
<1>. QED
  BY <1>1, <1>2 DEF IInv

LEMMA NextIInv == IInv /\ [Next]_vars => IInv'
<1>1. SUFFICES ASSUME IInv, [Next]_vars PROVE IInv'
  OBVIOUS
<1>2. CASE Tick
  BY <1>1, <1>2, TickIInv
<1>3. ASSUME NEW w \in Workers, NEW e \in Subjects, NEW s \in StopAts,
             Call(w, e, s) \/ CallWithConfiguration(w, e, s)
      PROVE  IInv'
  BY <1>1, <1>3, CallIInv
<1>4. ASSUME NEW w \in Workers, Step(w)
      PROVE  IInv'
  BY <1>1, <1>4, FetchConfigIInv, TryTenantIInv, FailuresIInv, EnterTreeIInv,
     ReturnTreeIInv, NextAuthorityIInv, ReadStatementIInv, CheckTimeIInv,
     DeleteStatementIInv, DeleteTimeIInv, FindEndpointIInv, FetchStatementIInv,
     StoreTimeIInv, ReadConfigIInv, EvictIInv
     DEF Step
<1>5. CASE UNCHANGED vars
  <2>1. TypeOK'
    BY <1>1, <1>5 DEF IInv, TypeOK, vars
  <2>2. ControlOK' /\ ClimbOK' /\ ChainsWellFormed'
    BY <1>1, <1>5 DEF IInv, ControlOK, ClimbOK, ChainsWellFormed, vars, Top
  <2>. QED
    BY <2>1, <2>2 DEF IInv
<1>. QED
  BY <1>1, <1>2, <1>3, <1>4, <1>5 DEF Next

\* Every variable keeps its type, and the recursion never has more frames than
\* the interpreter allows, in every federation and for any number of threads.
THEOREM TypeCorrect == Spec => []TypeOK
<1>1. IInv => TypeOK
  BY DEF IInv
<1>. QED
  BY <1>1, InitIInv, NextIInv, PTL DEF Spec

\* The chains a call builds are climbs from its own subject to its own stop_at,
\* whatever other threads do.
THEOREM ChainsAreWellFormed == Spec => []ChainsWellFormed
<1>1. IInv => ChainsWellFormed
  BY DEF IInv
<1>. QED
  BY <1>1, InitIInv, NextIInv, PTL DEF Spec
-----------------------------------------------------------------------------
(* One thread.  The two entries that make up a cached statement agree      *)
(* except between their two stores, or their two deletions, and nobody     *)
(* else touches them there.                                                *)

SoloOK(w) ==
  /\ \A p \in Pairs : \/ statement_cache[p] = time_cache[p]
                      \/ pc[w] \in {"store_time", "delete_time"} /\ p = Key(w)
  /\ pc[w] = "store_time" => statement_cache[Key(w)] = statement[w]
  /\ pc[w] = "check_time" =>
       statement_cache[Key(w)] = statement[w] /\ statement[w] # NoEntry
  /\ pc[w] = "delete_statement" => statement_cache[Key(w)] # NoEntry
  /\ pc[w] = "delete_time" =>
       statement_cache[Key(w)] = NoEntry /\ time_cache[Key(w)] # NoEntry
  /\ pc[w] \in {"evict_then_fetch", "evict_then_tree"} =>
       config_cache[authority[w]] # NoEntry
  /\ result[w] \notin {"no_time_key", "missing_key"}

SoloIInv == IInv /\ \A w \in Workers : SoloOK(w)

\* A step that touches no statement and stays out of the places SoloOK speaks of.
Elsewhere == {"idle", "collect_tree", "loop", "read_statement", "find_endpoint",
              "fetch_config", "fetch_config_tenant", "fetch_statement", "read_config"}

LEMMA SoloElsewhere ==
  ASSUME NEW w \in Workers, SoloOK(w), pc[w] \notin {"store_time", "delete_time"},
         UNCHANGED <<statement_cache, time_cache>>, pc'[w] \in Elsewhere,
         result'[w] \notin {"no_time_key", "missing_key"}
  PROVE  SoloOK(w)'
<1>1. \A p \in Pairs : statement_cache'[p] = time_cache'[p]
  BY DEF SoloOK
<1>. QED
  BY <1>1 DEF SoloOK, Elsewhere

LEMMA SoloStep ==
  ASSUME Undated = {}, IInv, NEW w \in Workers, SoloOK(w), Step(w)
  PROVE  SoloOK(w)'
<1>. USE DEF NoEntry
<1>1. /\ pc \in [Workers -> Labels] /\ result \in [Workers -> Results]
      /\ result[w] \notin {"no_time_key", "missing_key"}
      /\ statement_cache \in [Pairs -> Nat] /\ time_cache \in [Pairs -> Nat]
      /\ statement \in [Workers -> Nat] /\ authority \in [Workers -> Entities \cup {NoEntity}]
  BY DEF IInv, TypeOK, SoloOK
<1>2. CASE FetchConfig(w)
  <2>1. pc'[w] \in Elsewhere
    BY <1>1, <1>2 DEF FetchConfig, Goto, NoBranch, Elsewhere
  <2>. QED
    BY <1>1, <1>2, <2>1, SoloElsewhere DEF FetchConfig, FetchingConfig
<1>3. CASE TryTenant(w)
  <2>1. pc'[w] \in Elsewhere
    BY <1>1, <1>3 DEF TryTenant, Goto, Elsewhere
  <2>. QED
    BY <1>1, <1>3, <2>1, SoloElsewhere DEF TryTenant, caches
<1>4. CASE EmptyLeafPage(w) \/ FetchFails(w)
  <2>1. pc'[w] \in Elsewhere /\ result'[w] \notin {"no_time_key", "missing_key"}
    BY <1>1, <1>4 DEF EmptyLeafPage, FetchFails, Finish, Goto, Elsewhere
  <2>. QED
    BY <1>1, <1>4, <2>1, SoloElsewhere DEF EmptyLeafPage, FetchFails, FetchingConfig, caches
<1>5. CASE EnterTree(w)
  <2>1. pc'[w] \in Elsewhere /\ result'[w] \notin {"no_time_key", "missing_key"}
    BY <1>1, <1>5 DEF EnterTree, Finish, Goto, Elsewhere
  <2>. QED
    BY <1>1, <1>5, <2>1, SoloElsewhere DEF EnterTree, caches
<1>6. CASE ReturnTree(w)
  <2>1. pc'[w] \in Elsewhere /\ result'[w] \notin {"no_time_key", "missing_key"}
    BY <1>1, <1>6 DEF ReturnTree, Finish, Goto, Elsewhere
  <2>. QED
    BY <1>1, <1>6, <2>1, SoloElsewhere DEF ReturnTree, caches
<1>7. ASSUME NEW a \in Entities, NextAuthority(w, a) PROVE SoloOK(w)'
  <2>1. pc'[w] \in Elsewhere
    BY <1>1, <1>7 DEF NextAuthority, NoBranch, Goto, Elsewhere
  <2>. QED
    BY <1>1, <1>7, <2>1, SoloElsewhere DEF NextAuthority, caches
<1>8. CASE ReadStatement(w)
  <2>1. /\ pc'[w] = IF statement_cache[Key(w)] = NoEntry THEN "find_endpoint" ELSE "check_time"
        /\ statement'[w] = statement_cache[Key(w)] /\ Key(w)' = Key(w)
    BY <1>1, <1>8 DEF ReadStatement, Goto, Key, Top
  <2>. QED
    BY <1>1, <1>8, <2>1 DEF SoloOK, ReadStatement, caches
<1>9. CASE CheckTime(w)
  <2>1. Key(w) \in Pairs
    BY <1>9, InBranch DEF CheckTime, FetchingConfig
  <2>2. time_cache[Key(w)] = statement[w] /\ statement[w] # NoEntry
    BY <1>9, <2>1 DEF CheckTime, SoloOK
  <2>3. /\ pc'[w] \in {"delete_statement", "read_config"}
        /\ Key(w)' = Key(w) /\ result'[w] = result[w]
    BY <1>1, <1>9, <2>2 DEF CheckTime, Goto, Key, Top
  <2>. QED
    BY <1>1, <1>9, <2>2, <2>3 DEF SoloOK, CheckTime, caches
<1>10. CASE DeleteStatement(w)
  <2>1. Key(w) \in Pairs
    BY <1>10, InBranch DEF DeleteStatement, FetchingConfig
  <2>2. statement_cache[Key(w)] # NoEntry /\ time_cache[Key(w)] # NoEntry
    BY <1>10, <2>1 DEF DeleteStatement, SoloOK
  <2>3. /\ pc'[w] = "delete_time" /\ Key(w)' = Key(w) /\ result'[w] = result[w]
        /\ statement_cache' = [statement_cache EXCEPT ![Key(w)] = NoEntry]
        /\ time_cache' = time_cache
    BY <1>1, <1>10, <2>2 DEF DeleteStatement, Goto, Key, Top
  <2>. QED
    BY <1>1, <1>10, <2>1, <2>2, <2>3 DEF SoloOK, DeleteStatement
<1>11. CASE DeleteTime(w)
  <2>1. Key(w) \in Pairs
    BY <1>11, InBranch DEF DeleteTime, FetchingConfig
  <2>2. /\ pc'[w] = "find_endpoint" /\ result'[w] = result[w]
        /\ time_cache' = [time_cache EXCEPT ![Key(w)] = NoEntry]
        /\ statement_cache' = statement_cache /\ statement_cache[Key(w)] = NoEntry
    BY <1>1, <1>11 DEF DeleteTime, Goto, SoloOK
  <2>3. \A p \in Pairs : statement_cache'[p] = time_cache'[p]
    BY <1>1, <1>11, <2>1, <2>2 DEF SoloOK
  <2>. QED
    BY <1>1, <2>2, <2>3 DEF SoloOK
<1>12. CASE FindEndpoint(w)
  <2>1. /\ pc'[w] \in Elsewhere \cup {"evict_then_fetch"}
        /\ pc'[w] = "evict_then_fetch" => config_cache[authority[w]] # NoEntry
        /\ result'[w] \notin {"no_time_key", "missing_key"}
    BY <1>1, <1>12 DEF FindEndpoint, Finish, Goto, Elsewhere
  <2>2. \A p \in Pairs : statement_cache'[p] = time_cache'[p]
    BY <1>12 DEF SoloOK, FindEndpoint, caches
  <2>. QED
    BY <1>12, <2>1, <2>2 DEF SoloOK, FindEndpoint, caches, Elsewhere
<1>13. CASE FetchStatement(w)
  <2>1. Key(w) \in Pairs
    BY <1>13, InBranch DEF FetchStatement, FetchingConfig
  <2>2. PICK life \in Lifetimes :
          /\ statement_cache' = [statement_cache EXCEPT ![Key(w)] = now + life]
          /\ statement' = [statement EXCEPT ![w] = now + life]
    BY <1>13 DEF FetchStatement
  <2>3. /\ pc'[w] = "store_time" /\ Key(w)' = Key(w) /\ result'[w] = result[w]
        /\ statement_cache'[Key(w)] = statement'[w] /\ time_cache' = time_cache
    BY <1>1, <1>13, <2>1, <2>2 DEF FetchStatement, Goto, Key, Top
  <2>4. \A p \in Pairs : p # Key(w) => statement_cache'[p] = time_cache'[p]
    BY <1>1, <1>13, <2>2, <2>3 DEF SoloOK, FetchStatement
  <2>. QED
    BY <1>1, <2>3, <2>4 DEF SoloOK
<1>14. CASE StoreTime(w)
  <2>1. Key(w) \in Pairs
    BY <1>14, InBranch DEF StoreTime, FetchingConfig
  <2>2. /\ pc'[w] = "read_config" /\ result'[w] = result[w]
        /\ time_cache' = [time_cache EXCEPT ![Key(w)] = statement[w]]
        /\ statement_cache' = statement_cache /\ statement_cache[Key(w)] = statement[w]
    BY <1>1, <1>14 DEF StoreTime, Goto, SoloOK
  <2>3. \A p \in Pairs : statement_cache'[p] = time_cache'[p]
    BY <1>1, <1>14, <2>1, <2>2 DEF SoloOK
  <2>. QED
    BY <1>1, <2>2, <2>3 DEF SoloOK
<1>15. CASE ReadConfig(w)
  <2>1. /\ pc'[w] \in Elsewhere \cup {"evict_then_tree"}
        /\ pc'[w] = "evict_then_tree" => config_cache[authority[w]] # NoEntry
        /\ result'[w] \notin {"no_time_key", "missing_key"}
    BY <1>1, <1>15 DEF ReadConfig, Finish, Goto, Elsewhere
  <2>2. \A p \in Pairs : statement_cache'[p] = time_cache'[p]
    BY <1>15 DEF SoloOK, ReadConfig, caches
  <2>. QED
    BY <1>15, <2>1, <2>2 DEF SoloOK, ReadConfig, caches, Elsewhere
<1>16. CASE Evict(w)
  <2>1. config_cache[authority[w]] # NoEntry
    BY <1>16 DEF SoloOK, Evict
  <2>2. pc'[w] \in Elsewhere /\ result'[w] \notin {"no_time_key", "missing_key"}
    BY <1>1, <1>16, <2>1 DEF Evict, Finish, Goto, Elsewhere
  <2>. QED
    BY <1>1, <1>16, <2>2, SoloElsewhere DEF Evict
<1>. QED
  BY <1>2, <1>3, <1>4, <1>5, <1>6, <1>7, <1>8, <1>9, <1>10, <1>11, <1>12, <1>13,
     <1>14, <1>15, <1>16 DEF Step

LEMMA SoloNext ==
  ASSUME \A v, w \in Workers : v = w, Undated = {}, SoloIInv, [Next]_vars
  PROVE  SoloIInv'
<1>1. IInv'
  BY NextIInv DEF SoloIInv
<1>2. ASSUME NEW w \in Workers PROVE SoloOK(w)'
  <2>1. IInv /\ SoloOK(w)
    BY DEF SoloIInv
  <2>2. CASE Step(w)
    BY <2>1, <2>2, SoloStep
  <2>3. ASSUME NEW e \in Subjects, NEW s \in StopAts,
               Call(w, e, s) \/ CallWithConfiguration(w, e, s)
        PROVE  SoloOK(w)'
    <3>1. /\ pc'[w] \in Elsewhere /\ result'[w] = "none" /\ pc[w] = "idle"
          /\ UNCHANGED <<statement_cache, time_cache>>
      BY <2>1, <2>3 DEF Call, CallWithConfiguration, Begin, Goto, IInv, TypeOK, caches, Elsewhere
    <3>. QED
      BY <2>1, <3>1, SoloElsewhere
  <2>4. CASE Tick \/ UNCHANGED vars
    <3>1. UNCHANGED <<config_cache, statement_cache, time_cache, pc, stack, authority,
                      statement, result>>
      BY <2>4 DEF Tick, vars, caches
    <3>2. Key(w)' = Key(w)
      BY <3>1 DEF Key, Top
    <3>. QED
      BY <2>1, <3>1, <3>2 DEF SoloOK
  <2>. QED
    BY <2>2, <2>3, <2>4 DEF Next
<1>. QED
  BY <1>1, <1>2 DEF SoloIInv

LEMMA SoloInit == Init => SoloIInv
<1>1. Init => IInv
  BY InitIInv
<1>2. Init => \A w \in Workers : SoloOK(w)
  BY DEF Init, SoloOK
<1>. QED
  BY <1>1, <1>2 DEF SoloIInv

\* With one thread, and statements that all have an exp, no request dies because an entry of the caches went away
\* between two of its accesses.
THEOREM SingleThreadHasNoRace ==
  ASSUME \A v, w \in Workers : v = w, Undated = {}
  PROVE  Spec => []NoRaceCrash
<1>1. SoloIInv /\ [Next]_vars => SoloIInv'
  BY SoloNext
<1>2. SoloIInv => NoRaceCrash
  BY DEF SoloIInv, SoloOK, NoRaceCrash
<1>. QED
  BY <1>1, <1>2, SoloInit, PTL DEF Spec

\* With one thread, and statements that all have an exp, a statement is only taken from the cache while its own exp
\* leaves it at least allowed_delta to live.
THEOREM SingleThreadStatementsAreFresh ==
  ASSUME \A v, w \in Workers : v = w, Undated = {}
  PROVE  Spec => CachedStatementIsFresh
<1>. DEFINE Taken == \A w \in Workers : pc[w] = "check_time" /\ pc'[w] = "read_config"
                       => now + AllowedDelta <= statement[w]
<1>1. SoloIInv /\ [Next]_vars => SoloIInv'
  BY SoloNext
<1>2. SoloIInv /\ [Next]_vars => [Taken]_vars
  <2>. SUFFICES ASSUME SoloIInv, Next, NEW w \in Workers,
                       pc[w] = "check_time", pc'[w] = "read_config"
                PROVE  now + AllowedDelta <= statement[w]
    OBVIOUS
  <2>1. IInv /\ SoloOK(w) /\ Key(w) \in Pairs
    BY InBranch DEF SoloIInv, FetchingConfig
  <2>2. CheckTime(w)
    BY <2>1 DEF Next, Tick, Call, CallWithConfiguration, Step, FetchConfig, TryTenant,
      EmptyLeafPage, FetchFails, EnterTree, ReturnTree, NextAuthority, ReadStatement,
      DeleteStatement, DeleteTime, FindEndpoint, FetchStatement, StoreTime, ReadConfig,
      Evict, FetchingConfig
  <2>3. time_cache[Key(w)] = statement[w] /\ statement[w] # NoEntry /\ statement[w] \in Nat
    BY <2>1 DEF SoloOK, IInv, TypeOK
  <2>4. ~TimedOut(time_cache[Key(w)])
    BY <2>1, <2>2, <2>3 DEF CheckTime, Goto, IInv, TypeOK
  <2>. QED
    BY <2>1, <2>3, <2>4, ConstantsAssumption DEF TimedOut, IInv, TypeOK
<1>. QED
  BY <1>1, <1>2, SoloInit, PTL DEF Spec, CachedStatementIsFresh
-----------------------------------------------------------------------------
(* One thread.  What it needs for the chains it builds stays in the cache  *)
(* while it builds them, but for a statement it is about to fetch again.   *)

Refetching == {"delete_time", "find_endpoint", "evict_then_fetch", "fetch_statement"} \cup FetchingConfig
AtHand(w, k) ==
  \/ statement_cache[k] # NoEntry
  \/ pc[w] \in Refetching /\ stack[w] # <<>> /\ k = Key(w) /\ authority[w] \in Publishers
FramesAtHand(w) ==
  \A i \in 1..(Len(stack[w]) - 1) : AtHand(w, <<stack[w][i + 1].entity, stack[w][i].entity>>)
ChainAtHand(w, p) == \A i \in 1..(Len(p) - 1) : AtHand(w, Link(p, i))
ChainsAtHand(w) == \A p \in chains[w] : ChainAtHand(w, p)

\* Places where the statement about the branch is in the cache.
HasStatement(w) ==
  \/ pc[w] \in {"check_time", "delete_statement", "store_time", "read_config", "evict_then_tree"}
  \/ pc[w] = "collect_tree" /\ stack[w] # <<>>

DocumentsOK(w) ==
  /\ pc[w] # "idle" \/ result[w] = "tree" => ChainsAtHand(w)
  /\ FramesAtHand(w)
  /\ HasStatement(w) => statement_cache[Key(w)] # NoEntry
  /\ pc[w] = "fetch_statement" => authority[w] \in Publishers

\* Only those that have a fetch endpoint were asked for a statement.
PublishersOnly == \A k \in Pairs : statement_cache[k] # NoEntry => k[1] \in Publishers

LEMMA LinksArePairs ==
  ASSUME IInv, NEW w \in Workers, NEW p \in chains[w], NEW i \in 1..(Len(p) - 1)
  PROVE  Link(p, i) \in Pairs
<1>1. p \in Seq(Entities)
  BY DEF IInv, TypeOK
<1>2. i \in 1..Len(p) /\ i + 1 \in 1..Len(p)
  BY <1>1
<1>. QED
  BY <1>1, <1>2 DEF Link, Pairs

LEMMA FrameLinksArePairs ==
  ASSUME IInv, NEW w \in Workers, NEW i \in 1..(Len(stack[w]) - 1)
  PROVE  <<stack[w][i + 1].entity, stack[w][i].entity>> \in Pairs
<1>1. stack[w] \in Seq(Frames)
  BY DEF IInv, TypeOK
<1>2. i \in 1..Len(stack[w]) /\ i + 1 \in 1..Len(stack[w])
  BY <1>1
<1>3. stack[w][i] \in Frames /\ stack[w][i + 1] \in Frames
  BY <1>1, <1>2
<1>. QED
  BY <1>3 DEF Frames, Pairs

\* The links of a worker's path are those of its frames.
LEMMA PathAtHand ==
  ASSUME IInv, NEW w \in Workers, stack[w] # <<>>, FramesAtHand(w)
  PROVE  ChainAtHand(w, Path(w))
<1>1. /\ Len(Path(w)) = Len(stack[w]) /\ Len(stack[w]) \in Nat
      /\ \A i \in 1..Len(stack[w]) : Path(w)[i] = stack[w][i].entity
  BY PathIsChain DEF Path
<1>2. ASSUME NEW i \in 1..(Len(Path(w)) - 1)
      PROVE  Link(Path(w), i) = <<stack[w][i + 1].entity, stack[w][i].entity>>
  <2>1. i \in 1..Len(stack[w]) /\ i + 1 \in 1..Len(stack[w])
    BY <1>1
  <2>. QED
    BY <1>1, <2>1 DEF Link
<1>. QED
  BY <1>1, <1>2 DEF FramesAtHand, ChainAtHand

\* A call that fails has no chains to answer for.
LEMMA FailureNeedsNothing ==
  ASSUME IInv, NEW w \in Workers, NEW how \in Results \ {"tree"}, Finish(w, how)
  PROVE  DocumentsOK(w)'
<1>1. pc'[w] = "idle" /\ result'[w] = how /\ stack'[w] = <<>>
  BY DEF Finish, Goto, IInv, TypeOK
<1>. QED
  BY <1>1 DEF DocumentsOK, FramesAtHand, HasStatement

\* What is at hand for a chain stays so if it stays so for every link.
LEMMA ChainKept ==
  ASSUME NEW w \in Workers, NEW p \in Seq(Entities), ChainAtHand(w, p),
         \A k \in Pairs : AtHand(w, k) => AtHand(w, k)'
  PROVE  ChainAtHand(w, p)'
<1>1. ASSUME NEW i \in 1..(Len(p) - 1)
      PROVE  AtHand(w, Link(p, i))'
  <2>1. i \in 1..Len(p) /\ i + 1 \in 1..Len(p)
    OBVIOUS
  <2>2. Link(p, i) \in Pairs
    <3>1. p[i] \in Entities /\ p[i + 1] \in Entities
      BY <2>1
    <3>. QED
      BY <3>1 DEF Link, Pairs
  <2>3. AtHand(w, Link(p, i))
    BY DEF ChainAtHand
  <2>. QED
    BY <2>2, <2>3
<1>. QED
  BY <1>1 DEF ChainAtHand

\* A step that adds a chain at most.
LEMMA ChainsKept ==
  ASSUME IInv, NEW w \in Workers, ChainsAtHand(w), NEW p \in Seq(Entities),
         \A k \in Pairs : AtHand(w, k) => AtHand(w, k)',
         \/ chains'[w] = chains[w]
         \/ chains'[w] = chains[w] \cup {p} /\ ChainAtHand(w, p)
  PROVE  ChainsAtHand(w)'
<1>1. ASSUME NEW q \in chains'[w]
      PROVE  ChainAtHand(w, q)'
  <2>1. q \in Seq(Entities) /\ ChainAtHand(w, q)
    <3>1. CASE q \in chains[w]
      BY <3>1 DEF ChainsAtHand, IInv, TypeOK
    <3>2. CASE q \notin chains[w]
      BY <1>1, <3>2
    <3>. QED
      BY <3>1, <3>2
  <2>. QED
    BY <2>1, ChainKept
<1>. QED
  BY <1>1 DEF ChainsAtHand

LEMMA FramesKept ==
  ASSUME IInv, NEW w \in Workers, FramesAtHand(w), stack'[w] = stack[w],
         \A k \in Pairs : AtHand(w, k) => AtHand(w, k)'
  PROVE  FramesAtHand(w)'
<1>1. ASSUME NEW i \in 1..(Len(stack[w]) - 1)
      PROVE  AtHand(w, <<stack[w][i + 1].entity, stack[w][i].entity>>)'
  <2>1. PICK k \in Pairs : k = <<stack[w][i + 1].entity, stack[w][i].entity>>
    BY FrameLinksArePairs
  <2>2. AtHand(w, <<stack[w][i + 1].entity, stack[w][i].entity>>)
    BY DEF FramesAtHand
  <2>3. AtHand(w, k)'
    BY <2>1, <2>2
  <2>4. k = <<stack'[w][i + 1].entity, stack'[w][i].entity>>
    BY <2>1
  <2>. QED
    BY <2>3, <2>4 DEF AtHand
<1>. QED
  BY <1>1 DEF FramesAtHand

\* What is at hand outside the steps that fetch a statement again is in the cache.
LEMMA CachedStaysAtHand ==
  ASSUME NEW w \in Workers, pc[w] \notin Refetching, UNCHANGED statement_cache
  PROVE  \A k \in Pairs : AtHand(w, k) => AtHand(w, k)'
BY DEF AtHand

\* Steps inside a branch that keep what is at hand.
LEMMA BranchKeeps ==
  ASSUME IInv, NEW w \in Workers, DocumentsOK(w), pc[w] # "idle", pc'[w] # "idle",
         UNCHANGED <<stack, authority, chains>>,
         \A k \in Pairs : AtHand(w, k) => AtHand(w, k)',
         HasStatement(w)' => statement_cache'[Key(w)] # NoEntry,
         pc'[w] = "fetch_statement" => authority[w] \in Publishers
  PROVE  DocumentsOK(w)'
<1>1. Key(w)' = Key(w)
  BY DEF Key, Top
<1>2. ChainsAtHand(w)'
  <2>1. <<>> \in Seq(Entities)
    OBVIOUS
  <2>2. ChainsAtHand(w) /\ chains'[w] = chains[w]
    BY DEF DocumentsOK
  <2>. QED
    BY <2>1, <2>2, ChainsKept
<1>3. FramesAtHand(w)'
  BY FramesKept DEF DocumentsOK
<1>. QED
  BY <1>1, <1>2, <1>3 DEF DocumentsOK

\* A branch is None: the path of the worker becomes a chain.
LEMMA NoBranchKeeps ==
  ASSUME IInv, NEW w \in Workers, DocumentsOK(w), pc[w] # "idle", stack[w] # <<>>, NoBranch(w),
         \A k \in Pairs : AtHand(w, k) => AtHand(w, k)',
         stack'[w] = stack[w] \/ FramesAtHand(w)'
  PROVE  DocumentsOK(w)'
<1>1. pc'[w] = "loop" /\ chains'[w] = chains[w] \cup {Path(w)}
  BY DEF NoBranch, Goto, IInv, TypeOK
<1>2. ChainAtHand(w, Path(w)) /\ Path(w) \in Seq(Entities)
  BY PathAtHand, PathIsChain DEF DocumentsOK
<1>3. PICK p \in Seq(Entities) : p = Path(w)
  BY <1>2
<1>4. ChainAtHand(w, p)
  BY <1>2, <1>3
<1>5. chains'[w] = chains[w] \cup {p} /\ ChainsAtHand(w)
  BY <1>1, <1>3 DEF DocumentsOK
<1>6. ChainsAtHand(w)'
  BY <1>4, <1>5, ChainsKept
<1>7. FramesAtHand(w)'
  BY FramesKept DEF DocumentsOK
<1>. QED
  BY <1>1, <1>6, <1>7 DEF DocumentsOK, HasStatement

\* Of the frames there were all, or all but the last, are left.
LEMMA FramesAgree ==
  ASSUME IInv, NEW w \in Workers, FramesAtHand(w), Len(stack'[w]) \in 0..Len(stack[w]),
         \A i \in 1..Len(stack'[w]) : stack'[w][i].entity = stack[w][i].entity,
         \A k \in Pairs : AtHand(w, k) => AtHand(w, k)'
  PROVE  FramesAtHand(w)'
<1>1. ASSUME NEW i \in 1..(Len(stack'[w]) - 1)
      PROVE  AtHand(w, <<stack[w][i + 1].entity, stack[w][i].entity>>)'
  <2>0. Len(stack[w]) \in Nat /\ Len(stack'[w]) \in Nat /\ Len(stack'[w]) <= Len(stack[w])
    BY DEF IInv, TypeOK
  <2>1. i \in 1..(Len(stack[w]) - 1) /\ i \in 1..Len(stack'[w]) /\ i + 1 \in 1..Len(stack'[w])
    BY <2>0
  <2>2. PICK k \in Pairs : k = <<stack[w][i + 1].entity, stack[w][i].entity>>
    BY <2>1, FrameLinksArePairs
  <2>3. AtHand(w, <<stack[w][i + 1].entity, stack[w][i].entity>>)
    BY <2>1 DEF FramesAtHand
  <2>4. AtHand(w, k)'
    BY <2>2, <2>3
  <2>5. k = <<stack'[w][i + 1].entity, stack'[w][i].entity>>
    BY <2>1, <2>2
  <2>. QED
    BY <2>4, <2>5 DEF AtHand
<1>. QED
  BY <1>1 DEF FramesAtHand

LEMMA NextAuthorityFrames ==
  ASSUME IInv, NEW w \in Workers, NEW a \in Entities, NextAuthority(w, a)
  PROVE  /\ stack[w] # <<>> /\ Len(stack'[w]) \in 0..Len(stack[w])
         /\ \A i \in 1..Len(stack'[w]) : stack'[w][i].entity = stack[w][i].entity
<1>. DEFINE n == Len(stack[w])
            frame == [stack[w][n] EXCEPT !.todo = NotVisited(w, a)]
<1>1. /\ stack[w] # <<>> /\ stack[w] \in Seq(Frames) /\ n \in 1..RecursionLimit
      /\ Top(w) \in Frames /\ Top(w) = stack[w][n]
  BY PathIsChain DEF NextAuthority, IInv, ControlOK, TypeOK, FetchingConfig, Top
<1>2. frame \in Frames /\ frame.entity = stack[w][n].entity
  BY <1>1 DEF Frames, NotVisited
<1>3. stack'[w] = [stack[w] EXCEPT ![n] = frame]
  BY DEF NextAuthority, IInv, TypeOK
<1>4. /\ Len(stack'[w]) = n
      /\ \A i \in 1..n : stack'[w][i] = IF i = n THEN frame ELSE stack[w][i]
  BY <1>1, <1>2, <1>3, ExceptSeq
<1>5. n \in 0..n
  BY <1>1, ConstantsAssumption
<1>. HIDE DEF frame
<1>. QED
  BY <1>1, <1>2, <1>4, <1>5

LEMMA NextAuthorityKeeps ==
  ASSUME IInv, NEW w \in Workers, DocumentsOK(w), NEW a \in Entities, NextAuthority(w, a)
  PROVE  DocumentsOK(w)' /\ UNCHANGED statement_cache
<1>1. pc[w] = "loop" /\ UNCHANGED <<statement_cache, result>>
  BY DEF NextAuthority, caches
<1>2. \A k \in Pairs : AtHand(w, k) => AtHand(w, k)'
  BY <1>1, CachedStaysAtHand DEF Refetching, FetchingConfig
<1>3. FramesAtHand(w)' /\ stack[w] # <<>>
  BY <1>2, NextAuthorityFrames, FramesAgree DEF DocumentsOK
<1>4. CASE NoBranch(w)
  BY <1>1, <1>2, <1>3, <1>4, NoBranchKeeps
<1>5. CASE Goto(w, "read_statement") /\ UNCHANGED chains
  <2>1. pc'[w] = "read_statement" /\ chains'[w] = chains[w] /\ ChainsAtHand(w) /\ <<>> \in Seq(Entities)
    BY <1>1, <1>5 DEF Goto, IInv, TypeOK, DocumentsOK
  <2>2. ChainsAtHand(w)'
    BY <1>2, <2>1, ChainsKept
  <2>. QED
    BY <1>1, <1>3, <2>1, <2>2 DEF DocumentsOK, HasStatement
<1>. QED
  BY <1>1, <1>4, <1>5 DEF NextAuthority

LEMMA ReturnTreeKeeps ==
  ASSUME IInv, NEW w \in Workers, DocumentsOK(w), ReturnTree(w)
  PROVE  DocumentsOK(w)' /\ UNCHANGED statement_cache
<1>. DEFINE n == Len(stack[w])
<1>1. pc[w] = "loop" /\ UNCHANGED <<statement_cache, chains>>
  BY DEF ReturnTree, caches
<1>2. \A k \in Pairs : AtHand(w, k) => AtHand(w, k)'
  BY <1>1, CachedStaysAtHand DEF Refetching, FetchingConfig
<1>3. stack[w] # <<>> /\ stack[w] \in Seq(Frames) /\ n \in 1..RecursionLimit
  BY <1>1, PathIsChain DEF IInv, ControlOK, TypeOK, FetchingConfig
<1>4. chains'[w] = chains[w] /\ ChainsAtHand(w) /\ <<>> \in Seq(Entities)
  BY <1>1 DEF DocumentsOK
<1>5. ChainsAtHand(w)'
  BY <1>2, <1>4, ChainsKept
<1>6. CASE Finish(w, "tree")
  <2>1. pc'[w] = "idle" /\ stack'[w] = <<>>
    BY <1>6 DEF Finish, Goto, IInv, TypeOK
  <2>. QED
    BY <1>1, <1>5, <2>1 DEF DocumentsOK, FramesAtHand, HasStatement
<1>7. CASE n # 1 /\ stack' = [stack EXCEPT ![w] = SubSeq(@, 1, n - 1)] /\ UNCHANGED pc
  <2>1. stack'[w] = SubSeq(stack[w], 1, n - 1)
    BY <1>7 DEF IInv, TypeOK
  <2>2. n \in Nat /\ n - 1 \in Nat /\ n # 1 /\ \A i \in 1..(n - 1) : stack[w][i] \in Frames
    BY <1>3, <1>7, ConstantsAssumption
  <2>3. Len(stack'[w]) = n - 1 /\ \A i \in 1..(n - 1) : stack'[w][i] = stack[w][i]
    BY <1>3, <2>1, <2>2
  <2>4. Len(stack'[w]) \in 0..n /\ \A i \in 1..Len(stack'[w]) : stack'[w][i].entity = stack[w][i].entity
    BY <2>2, <2>3
  <2>5. FramesAtHand(w)'
    BY <1>2, <2>4, FramesAgree DEF DocumentsOK
  <2>. QED
    BY <1>1, <1>5, <1>7, <2>5 DEF DocumentsOK, HasStatement
<1>. QED
  BY <1>1, <1>6, <1>7 DEF ReturnTree

\* The statement about the new frame's entity is that of the branch it is entered for.
LEMMA PushKeeps ==
  ASSUME IInv, NEW w \in Workers, DocumentsOK(w), pc[w] = "collect_tree",
         stack' = [stack EXCEPT ![w] = Append(@, [entity |-> Wanted(w), todo |-> Hints[Wanted(w)]])],
         Goto(w, "loop"), UNCHANGED <<statement_cache, chains>>
  PROVE  DocumentsOK(w)'
<1>. DEFINE n == Len(stack[w])
            frame == [entity |-> Wanted(w), todo |-> Hints[Wanted(w)]]
<1>1. \A k \in Pairs : AtHand(w, k) => AtHand(w, k)'
  BY CachedStaysAtHand DEF Refetching, FetchingConfig
<1>2. pc'[w] = "loop" /\ stack'[w] = Append(stack[w], frame) /\ stack[w] \in Seq(Frames) /\ n \in Nat
  BY DEF Goto, IInv, TypeOK
<1>3. Len(stack'[w]) = n + 1 /\ stack'[w][n + 1] = frame /\ \A i \in 1..n : stack'[w][i] = stack[w][i]
  BY <1>2
<1>4. chains'[w] = chains[w] /\ ChainsAtHand(w) /\ <<>> \in Seq(Entities)
  BY DEF DocumentsOK
<1>5. ChainsAtHand(w)'
  BY <1>1, <1>4, ChainsKept
<1>6. frame.entity = Wanted(w)
  OBVIOUS
<1>. HIDE DEF frame
<1>7. ASSUME NEW i \in 1..(Len(stack'[w]) - 1)
      PROVE  statement_cache'[<<stack'[w][i + 1].entity, stack'[w][i].entity>>] # NoEntry
  <2>1. CASE i = n
    <3>1. n # 0 /\ stack[w] # <<>>
      BY <1>2, <1>3, <2>1
    <3>2. statement_cache[Key(w)] # NoEntry
      BY <3>1 DEF DocumentsOK, HasStatement
    <3>3. Key(w) = <<stack'[w][i + 1].entity, stack'[w][i].entity>>
      BY <1>2, <1>3, <1>6, <2>1, <3>1 DEF Key, Top, Wanted
    <3>. QED
      BY <3>2, <3>3
  <2>2. CASE i # n
    <3>1. i \in 1..(n - 1) /\ i \in 1..n /\ i + 1 \in 1..n
      BY <1>2, <1>3, <2>2
    <3>2. AtHand(w, <<stack[w][i + 1].entity, stack[w][i].entity>>)
      BY <3>1 DEF DocumentsOK, FramesAtHand
    <3>3. statement_cache[<<stack[w][i + 1].entity, stack[w][i].entity>>] # NoEntry
      BY <3>2 DEF AtHand, Refetching, FetchingConfig
    <3>. QED
      BY <1>3, <3>1, <3>3
  <2>. QED
    BY <2>1, <2>2
<1>8. FramesAtHand(w)'
  BY <1>7 DEF FramesAtHand, AtHand
<1>. QED
  BY <1>2, <1>5, <1>8 DEF DocumentsOK, HasStatement

\* The path with the entity at its end becomes a chain.
LEMMA ChainEndsKeeps ==
  ASSUME IInv, NEW w \in Workers, DocumentsOK(w), pc[w] = "collect_tree", stack[w] # <<>>,
         chains' = [chains EXCEPT ![w] = @ \cup {Append(Path(w), Wanted(w))}],
         Goto(w, "loop"), UNCHANGED <<statement_cache, stack>>
  PROVE  DocumentsOK(w)'
<1>1. \A k \in Pairs : AtHand(w, k) => AtHand(w, k)'
  BY CachedStaysAtHand DEF Refetching, FetchingConfig
<1>2. /\ Path(w) \in Seq(Entities) /\ Len(Path(w)) \in Nat \ {0} /\ Len(Path(w)) = Len(stack[w])
      /\ Path(w)[Len(Path(w))] = Top(w).entity /\ ChainAtHand(w, Path(w))
  BY PathIsChain, PathAtHand, ConstantsAssumption DEF DocumentsOK
<1>3. Wanted(w) = authority[w] /\ authority[w] \in Entities
  <2>1. authority[w] \in Hints[Top(w).entity] /\ Top(w).entity \in Entities
    BY PathIsChain DEF IInv, ControlOK, Frames
  <2>. QED
    BY <2>1, ConstantsAssumption DEF Wanted
<1>4. PICK q \in Seq(Entities) : q = Path(w)
  BY <1>2
<1>5. PICK a \in Entities : a = authority[w]
  BY <1>3
<1>. DEFINE p == Append(q, a)
<1>6. p \in Seq(Entities) /\ Len(p) = Len(q) + 1 /\ p[Len(q) + 1] = a /\ \A i \in 1..Len(q) : p[i] = q[i]
  BY AppendProperties
<1>7. p = Append(Path(w), Wanted(w))
  BY <1>3, <1>4, <1>5
<1>. HIDE DEF p
<1>8. statement_cache[Key(w)] # NoEntry
  BY DEF DocumentsOK, HasStatement
<1>9. ASSUME NEW i \in 1..(Len(p) - 1)
      PROVE  AtHand(w, Link(p, i))
  <2>0. Len(q) \in Nat \ {0}
    BY <1>2, <1>4
  <2>1. CASE i = Len(q)
    <3>1. Link(p, i) = Key(w)
      BY <1>2, <1>4, <1>5, <1>6, <2>0, <2>1 DEF Link, Key
    <3>. QED
      BY <1>8, <3>1 DEF AtHand
  <2>2. CASE i # Len(q)
    <3>1. i \in 1..(Len(q) - 1) /\ i \in 1..Len(q) /\ i + 1 \in 1..Len(q)
      BY <1>6, <2>0, <2>2
    <3>2. Link(p, i) = Link(q, i)
      BY <1>6, <3>1 DEF Link
    <3>3. ChainAtHand(w, q)
      BY <1>2, <1>4
    <3>. QED
      BY <3>1, <3>2, <3>3 DEF ChainAtHand
  <2>. QED
    BY <2>1, <2>2
<1>10. ChainAtHand(w, p)
  BY <1>9 DEF ChainAtHand
<1>11. chains'[w] = chains[w] \cup {p} /\ ChainsAtHand(w)
  BY <1>7 DEF IInv, TypeOK, DocumentsOK
<1>12. ChainsAtHand(w)'
  BY <1>1, <1>6, <1>10, <1>11, ChainsKept
<1>13. FramesAtHand(w)'
  BY <1>1, FramesKept DEF DocumentsOK
<1>14. pc'[w] = "loop"
  BY DEF Goto, IInv, TypeOK
<1>. QED
  BY <1>12, <1>13, <1>14 DEF DocumentsOK, HasStatement

LEMMA EnterTreeKeeps ==
  ASSUME IInv, NEW w \in Workers, DocumentsOK(w), EnterTree(w)
  PROVE  DocumentsOK(w)' /\ UNCHANGED statement_cache
<1>1. pc[w] = "collect_tree" /\ UNCHANGED statement_cache
  BY DEF EnterTree, caches
<1>2. CASE Finish(w, "recursion")
  BY <1>1, <1>2, FailureNeedsNothing DEF Results
<1>3. CASE /\ stack' = [stack EXCEPT ![w] = Append(@, [entity |-> Wanted(w), todo |-> Hints[Wanted(w)]])]
           /\ Goto(w, "loop") /\ UNCHANGED chains
  BY <1>1, <1>3, PushKeeps
<1>4. CASE /\ stack[w] # <<>> /\ chains' = [chains EXCEPT ![w] = @ \cup {Append(Path(w), Wanted(w))}]
           /\ Goto(w, "loop") /\ UNCHANGED stack
  BY <1>1, <1>4, ChainEndsKeeps
<1>5. CASE Finish(w, "tree") /\ UNCHANGED chains
  <2>1. pc'[w] = "idle" /\ stack'[w] = <<>> /\ chains'[w] = chains[w]
    BY <1>5 DEF Finish, Goto, IInv, TypeOK
  <2>2. ChainsAtHand(w) /\ <<>> \in Seq(Entities)
    BY <1>1 DEF DocumentsOK
  <2>3. \A k \in Pairs : AtHand(w, k) => AtHand(w, k)'
    BY <1>1, CachedStaysAtHand DEF Refetching, FetchingConfig
  <2>4. ChainsAtHand(w)'
    BY <2>1, <2>2, <2>3, ChainsKept
  <2>. QED
    BY <1>1, <2>1, <2>4 DEF DocumentsOK, FramesAtHand, HasStatement
<1>. QED
  BY <1>1, <1>2, <1>3, <1>4, <1>5 DEF EnterTree

LEMMA FetchConfigKeeps ==
  ASSUME IInv, NEW w \in Workers, DocumentsOK(w), FetchConfig(w)
  PROVE  DocumentsOK(w)' /\ UNCHANGED statement_cache
<1>1. /\ pc[w] \in FetchingConfig /\ UNCHANGED <<statement_cache, stack, authority, result>>
      /\ stack[w] # <<>> => Wanted(w) = authority[w]
  BY DEF FetchConfig, Wanted
<1>2. CASE stack[w] = <<>> /\ Goto(w, "collect_tree") /\ UNCHANGED chains
  <2>1. pc'[w] = "collect_tree"
    BY <1>2 DEF Goto, IInv, TypeOK
  <2>2. \A k \in Pairs : AtHand(w, k) => AtHand(w, k)'
    BY <1>1, <1>2 DEF AtHand
  <2>. QED
    BY <1>1, <1>2, <2>1, <2>2, BranchKeeps DEF HasStatement, FetchingConfig
<1>3. CASE /\ stack[w] # <<>> /\ Wanted(w) \in Publishers
           /\ Goto(w, "fetch_statement") /\ UNCHANGED chains
  <2>1. pc'[w] = "fetch_statement" /\ Key(w)' = Key(w)
    BY <1>1, <1>3 DEF Goto, IInv, TypeOK, Key, Top
  <2>2. \A k \in Pairs : AtHand(w, k) => AtHand(w, k)'
    BY <1>1, <2>1 DEF AtHand, Refetching
  <2>. QED
    BY <1>1, <1>3, <2>1, <2>2, BranchKeeps DEF HasStatement, FetchingConfig
<1>4. CASE stack[w] # <<>> /\ Wanted(w) \notin Publishers /\ NoBranch(w)
  <2>1. authority[w] \notin Publishers
    BY <1>1, <1>4
  <2>2. \A k \in Pairs : AtHand(w, k) => AtHand(w, k)'
    BY <1>1, <2>1 DEF AtHand
  <2>. QED
    BY <1>1, <1>4, <2>2, NoBranchKeeps DEF FetchingConfig
<1>. QED
  BY <1>1, <1>2, <1>3, <1>4 DEF FetchConfig

\* Goes to another place of the branch, where no more is to be at hand than was.
LEMMA GoesOnKeeps ==
  ASSUME IInv, NEW w \in Workers, DocumentsOK(w), pc[w] # "idle", NEW label, Goto(w, label),
         label # "idle", pc[w] \in Refetching => label \in Refetching,
         UNCHANGED <<statement_cache, stack, authority, chains>>,
         (label \in {"check_time", "delete_statement", "store_time", "read_config", "evict_then_tree"}
            \/ (label = "collect_tree" /\ stack[w] # <<>>)) => statement_cache[Key(w)] # NoEntry,
         label = "fetch_statement" => authority[w] \in Publishers
  PROVE  DocumentsOK(w)'
<1>1. pc'[w] = label /\ Key(w)' = Key(w)
  BY DEF Goto, IInv, TypeOK, Key, Top
<1>2. \A k \in Pairs : AtHand(w, k) => AtHand(w, k)'
  BY <1>1 DEF AtHand
<1>3. HasStatement(w)' => statement_cache'[Key(w)] # NoEntry
  BY <1>1 DEF HasStatement
<1>. QED
  BY <1>1, <1>2, <1>3, BranchKeeps

LEMMA DeletionKeeps ==
  ASSUME IInv, NEW w \in Workers, SoloOK(w), DocumentsOK(w), PublishersOnly, DeleteStatement(w)
  PROVE  DocumentsOK(w)' /\ PublishersOnly'
<1>1. Key(w) \in Pairs /\ stack[w] # <<>> /\ pc[w] = "delete_statement"
  BY InBranch DEF DeleteStatement, FetchingConfig
<1>2. statement_cache[Key(w)] # NoEntry
  BY <1>1 DEF SoloOK
<1>3. authority[w] \in Publishers
  <2>1. Key(w)[1] \in Publishers
    BY <1>1, <1>2 DEF PublishersOnly
  <2>. QED
    BY <2>1 DEF Key
<1>4. /\ statement_cache' = [statement_cache EXCEPT ![Key(w)] = NoEntry]
      /\ Goto(w, "delete_time") /\ UNCHANGED <<stack, authority, chains, result>>
  BY <1>2 DEF DeleteStatement
<1>5. pc'[w] = "delete_time" /\ Key(w)' = Key(w)
  BY <1>4 DEF Goto, IInv, TypeOK, Key, Top
<1>6. \A k \in Pairs : statement_cache'[k] = IF k = Key(w) THEN NoEntry ELSE statement_cache[k]
  BY <1>4 DEF IInv, TypeOK
<1>7. \A k \in Pairs : AtHand(w, k) => AtHand(w, k)'
  BY <1>1, <1>3, <1>4, <1>5, <1>6 DEF AtHand, Refetching, FetchingConfig
<1>8. DocumentsOK(w)'
  BY <1>1, <1>4, <1>5, <1>7, BranchKeeps DEF HasStatement
<1>. QED
  BY <1>6, <1>8 DEF PublishersOnly

LEMMA FetchedKeeps ==
  ASSUME IInv, NEW w \in Workers, DocumentsOK(w), PublishersOnly, FetchStatement(w)
  PROVE  DocumentsOK(w)' /\ PublishersOnly'
<1>1. Key(w) \in Pairs /\ stack[w] # <<>> /\ pc[w] = "fetch_statement"
  BY InBranch DEF FetchStatement, FetchingConfig
<1>2. authority[w] \in Publishers
  BY <1>1 DEF DocumentsOK
<1>3. PICK life \in Lifetimes : statement_cache' = [statement_cache EXCEPT ![Key(w)] = now + life]
  BY DEF FetchStatement
<1>4. Goto(w, "store_time") /\ UNCHANGED <<stack, authority, chains, result>>
  BY DEF FetchStatement
<1>5. pc'[w] = "store_time" /\ Key(w)' = Key(w)
  BY <1>4 DEF Goto, IInv, TypeOK, Key, Top
<1>6. now + life # NoEntry
  BY ConstantsAssumption DEF IInv, TypeOK, NoEntry
<1>7. \A k \in Pairs : statement_cache'[k] = IF k = Key(w) THEN now + life ELSE statement_cache[k]
  BY <1>3 DEF IInv, TypeOK
<1>8. \A k \in Pairs : AtHand(w, k) => AtHand(w, k)'
  BY <1>6, <1>7 DEF AtHand
<1>9. statement_cache'[Key(w)] # NoEntry
  BY <1>1, <1>6, <1>7
<1>10. DocumentsOK(w)'
  BY <1>1, <1>4, <1>5, <1>8, <1>9, BranchKeeps
<1>11. ASSUME NEW k \in Pairs, statement_cache'[k] # NoEntry
       PROVE  k[1] \in Publishers
  BY <1>2, <1>7, <1>11 DEF PublishersOnly, Key
<1>. QED
  BY <1>10, <1>11 DEF PublishersOnly

LEMMA DocumentsStep ==
  ASSUME IInv, NEW w \in Workers, SoloOK(w), DocumentsOK(w), PublishersOnly, Step(w)
  PROVE  DocumentsOK(w)' /\ PublishersOnly'
<1>0. UNCHANGED statement_cache => PublishersOnly'
  BY DEF PublishersOnly
<1>. USE DEF FetchingConfig
<1>1. CASE FetchConfig(w)
  BY <1>0, <1>1, FetchConfigKeeps
<1>2. CASE TryTenant(w)
  <2>1. UNCHANGED <<statement_cache, stack, authority, chains>> /\ pc[w] = "fetch_config"
    BY <1>2 DEF TryTenant, caches
  <2>2. DocumentsOK(w)'
    BY <1>2, <2>1, GoesOnKeeps DEF TryTenant, Refetching
  <2>. QED
    BY <1>0, <2>1, <2>2
<1>3. CASE EmptyLeafPage(w) \/ FetchFails(w)
  <2>1. Finish(w, "no_leaf_configuration") \/ Finish(w, "failed_retrieval")
    BY <1>3 DEF EmptyLeafPage, FetchFails
  <2>2. DocumentsOK(w)'
    BY <2>1, FailureNeedsNothing DEF Results
  <2>. QED
    BY <1>0, <1>3, <2>2 DEF EmptyLeafPage, FetchFails, caches
<1>4. CASE EnterTree(w)
  BY <1>0, <1>4, EnterTreeKeeps
<1>5. CASE ReturnTree(w)
  BY <1>0, <1>5, ReturnTreeKeeps
<1>6. ASSUME NEW a \in Entities, NextAuthority(w, a)
      PROVE  DocumentsOK(w)' /\ PublishersOnly'
  BY <1>0, <1>6, NextAuthorityKeeps
<1>7. CASE ReadStatement(w)
  <2>1. UNCHANGED <<statement_cache, stack, authority, chains>> /\ pc[w] = "read_statement"
    BY <1>7 DEF ReadStatement, caches
  <2>2. CASE statement_cache[Key(w)] = NoEntry
    BY <1>0, <1>7, <2>1, <2>2, GoesOnKeeps DEF ReadStatement, Refetching
  <2>3. CASE statement_cache[Key(w)] # NoEntry
    BY <1>0, <1>7, <2>1, <2>3, GoesOnKeeps DEF ReadStatement, Refetching
  <2>. QED
    BY <2>2, <2>3
<1>8. CASE CheckTime(w)
  <2>1. UNCHANGED <<statement_cache, authority, chains>> /\ pc[w] = "check_time"
    BY <1>8 DEF CheckTime, caches
  <2>2. statement_cache[Key(w)] # NoEntry
    BY <2>1 DEF DocumentsOK, HasStatement
  <2>3. CASE Finish(w, "no_time_key")
    BY <1>0, <2>1, <2>3, FailureNeedsNothing DEF Results
  <2>4. CASE (Goto(w, "delete_statement") \/ Goto(w, "read_config")) /\ UNCHANGED stack
    BY <1>0, <2>1, <2>2, <2>4, GoesOnKeeps DEF Refetching
  <2>. QED
    BY <1>8, <2>3, <2>4 DEF CheckTime
<1>9. CASE DeleteStatement(w)
  BY <1>9, DeletionKeeps
<1>10. CASE DeleteTime(w)
  <2>1. UNCHANGED <<statement_cache, authority, chains>> /\ pc[w] = "delete_time"
    BY <1>10 DEF DeleteTime
  <2>2. CASE Finish(w, "missing_key")
    BY <1>0, <2>1, <2>2, FailureNeedsNothing DEF Results
  <2>3. CASE Goto(w, "find_endpoint") /\ UNCHANGED stack
    BY <1>0, <2>1, <2>3, GoesOnKeeps DEF Refetching
  <2>. QED
    BY <1>10, <2>2, <2>3 DEF DeleteTime
<1>11. CASE FindEndpoint(w)
  <2>1. UNCHANGED <<statement_cache, authority, chains>> /\ pc[w] = "find_endpoint"
    BY <1>11 DEF FindEndpoint, caches
  <2>2. CASE Finish(w, "bad_metadata")
    BY <1>0, <2>1, <2>2, FailureNeedsNothing DEF Results
  <2>3. CASE Goto(w, "fetch_statement") /\ authority[w] \in Publishers /\ UNCHANGED stack
    BY <1>0, <2>1, <2>3, GoesOnKeeps DEF Refetching
  <2>4. CASE (Goto(w, "evict_then_fetch") \/ Goto(w, "fetch_config")) /\ UNCHANGED stack
    BY <1>0, <2>1, <2>4, GoesOnKeeps DEF Refetching
  <2>. QED
    BY <1>11, <2>2, <2>3, <2>4 DEF FindEndpoint
<1>12. CASE FetchStatement(w)
  BY <1>12, FetchedKeeps
<1>13. CASE StoreTime(w)
  <2>1. UNCHANGED <<statement_cache, authority, chains>> /\ pc[w] = "store_time"
    BY <1>13 DEF StoreTime
  <2>2. statement_cache[Key(w)] # NoEntry
    BY <2>1 DEF DocumentsOK, HasStatement
  <2>3. CASE Goto(w, "read_config") /\ UNCHANGED stack
    BY <1>0, <2>1, <2>2, <2>3, GoesOnKeeps DEF Refetching
  <2>4. CASE Finish(w, "missing_key")
    BY <1>0, <2>1, <2>4, FailureNeedsNothing DEF Results
  <2>. QED
    BY <1>13, <2>3, <2>4 DEF StoreTime
<1>14. CASE ReadConfig(w)
  <2>1. UNCHANGED <<statement_cache, authority, chains>> /\ pc[w] = "read_config"
    BY <1>14 DEF ReadConfig, caches
  <2>2. statement_cache[Key(w)] # NoEntry
    BY <2>1 DEF DocumentsOK, HasStatement
  <2>3. CASE Finish(w, "no_configuration")
    BY <1>0, <2>1, <2>3, FailureNeedsNothing DEF Results
  <2>4. CASE (Goto(w, "collect_tree") \/ Goto(w, "evict_then_tree")) /\ UNCHANGED stack
    BY <1>0, <2>1, <2>2, <2>4, GoesOnKeeps DEF Refetching
  <2>. QED
    BY <1>14, <2>3, <2>4 DEF ReadConfig
<1>15. CASE Evict(w)
  <2>1. UNCHANGED <<statement_cache, authority, chains>> /\ pc[w] \in {"evict_then_fetch", "evict_then_tree"}
    BY <1>15 DEF Evict
  <2>2. CASE Finish(w, "missing_key") \/ Finish(w, "no_configuration")
    BY <1>0, <2>1, <2>2, FailureNeedsNothing DEF Results
  <2>3. CASE Goto(w, "fetch_config") /\ UNCHANGED stack
    BY <1>0, <2>1, <2>3, GoesOnKeeps DEF Refetching
  <2>. QED
    BY <1>15, <2>2, <2>3 DEF Evict
<1>. QED
  BY <1>1, <1>2, <1>3, <1>4, <1>5, <1>6, <1>7, <1>8, <1>9, <1>10, <1>11, <1>12, <1>13,
     <1>14, <1>15 DEF Step

-----------------------------------------------------------------------------
(* The resolver: what is cached when a call returns is there as long as    *)
(* the thread reads it.                                                    *)

\* The chain that was picked, and its statements.
Settled(w) ==
  /\ pc[w] = "idle" /\ picked[w] \in Seq(Entities)
  /\ IsClimb(picked[w], subject[w], stop_at[w]) /\ EndsIn(picked[w], stop_at[w])
  /\ \A i \in 1..(Len(picked[w]) - 1) : statement_cache[Link(picked[w], i)] # NoEntry

\* What has been found of its documents.
FoundSoFar(w) ==
  /\ answer[w] \in Seq(Nat) /\ Len(answer[w]) \in 1..Len(picked[w])
  /\ \A i \in 1..Len(answer[w]) : answer[w][i] # NoEntry

ResolvingOK(w) ==
  /\ phase[w] \in {"configuration", "evict", "statements"} => Settled(w)
  /\ phase[w] \in {"collect", "configuration", "evict"} => answer[w] = <<>>
  /\ phase[w] = "statements" => FoundSoFar(w)

ResolverTypes ==
  /\ phase \in [Workers -> Phases]
  /\ picked \in [Workers -> Seq(Entities)]
  /\ answer \in [Workers -> Seq(Nat)]
  /\ outcome \in [Workers -> {"none", "exception", "answered"}]

ResolverIInv ==
  /\ SoloIInv /\ ResolverTypes /\ PublishersOnly
  /\ \A w \in Workers : DocumentsOK(w) /\ ResolvingOK(w)

LEMMA ResolverInitIInv == ResolverInit => ResolverIInv
<1>. SUFFICES ASSUME ResolverInit PROVE ResolverIInv
  OBVIOUS
<1>1. SoloIInv /\ Init
  BY SoloInit DEF ResolverInit
<1>2. ResolverTypes
  BY DEF ResolverInit, ResolverTypes, Phases
<1>3. PublishersOnly
  BY <1>1 DEF Init, PublishersOnly
<1>4. ASSUME NEW w \in Workers
      PROVE  DocumentsOK(w) /\ ResolvingOK(w)
  <2>1. pc[w] = "idle" /\ result[w] = "none" /\ stack[w] = <<>> /\ phase[w] = "none"
    BY <1>1 DEF Init, ResolverInit
  <2>. QED
    BY <2>1 DEF DocumentsOK, FramesAtHand, HasStatement, ResolvingOK
<1>. QED
  BY <1>1, <1>2, <1>3, <1>4 DEF ResolverIInv

\* A worker that is not in a call answers for the chains of its last one.
LEMMA CallKeeps ==
  ASSUME IInv, NEW w \in Workers, NEW e \in Subjects, NEW s \in StopAts,
         Call(w, e, s) \/ CallWithConfiguration(w, e, s)
  PROVE  DocumentsOK(w)' /\ UNCHANGED statement_cache
<1>1. /\ pc'[w] \in {"collect_tree", "fetch_config"} /\ chains'[w] = {} /\ pc[w] = "idle"
      /\ UNCHANGED <<statement_cache, stack>>
  BY DEF Call, CallWithConfiguration, Begin, Goto, IInv, TypeOK, caches
<1>2. stack'[w] = <<>>
  BY <1>1 DEF IInv, ControlOK
<1>. QED
  BY <1>1, <1>2 DEF DocumentsOK, ChainsAtHand, FramesAtHand, HasStatement

\* Nothing the worker answers for changes, but the clock or the configurations.
LEMMA StillDocumented ==
  ASSUME NEW w \in Workers, DocumentsOK(w),
         UNCHANGED <<pc, result, stack, chains, authority, statement_cache>>
  PROVE  DocumentsOK(w)'
<1>1. Key(w)' = Key(w)
  BY DEF Key, Top
<1>2. FramesAtHand(w)' /\ (ChainsAtHand(w) => ChainsAtHand(w)')
  BY <1>1 DEF DocumentsOK, FramesAtHand, ChainsAtHand, ChainAtHand, AtHand
<1>. QED
  BY <1>1, <1>2 DEF DocumentsOK, HasStatement

LEMMA StillSettled ==
  ASSUME NEW w \in Workers, Settled(w),
         UNCHANGED <<pc, picked, subject, stop_at, statement_cache>>
  PROVE  Settled(w)'
BY DEF Settled, IsClimb, EndsIn

\* The steps of collection do not touch what has been picked: none is in a call by then.
LEMMA CollectingKeeps ==
  ASSUME NEW w \in Workers, ResolvingOK(w), pc[w] # "idle", UNCHANGED resolving
  PROVE  ResolvingOK(w)'
BY DEF ResolvingOK, Settled, resolving

LEMMA StepIsInACall ==
  ASSUME NEW w \in Workers, Step(w)
  PROVE  pc[w] # "idle"
BY DEF Step, FetchConfig, TryTenant, EmptyLeafPage, FetchFails, EnterTree, ReturnTree,
  NextAuthority, ReadStatement, CheckTime, DeleteStatement, DeleteTime, FindEndpoint,
  FetchStatement, StoreTime, ReadConfig, Evict, FetchingConfig

LEMMA ResolvingTypesStay ==
  ASSUME ResolverTypes, NEW w \in Workers,
         \/ UNCHANGED phase \/ \E p \in Phases : Enter(w, p),
         \/ UNCHANGED picked \/ \E p \in Seq(Entities) : picked' = [picked EXCEPT ![w] = p],
         \/ UNCHANGED answer \/ \E q \in Seq(Nat) : answer' = [answer EXCEPT ![w] = q],
         \/ UNCHANGED outcome
         \/ \E how \in {"none", "exception", "answered"} : outcome' = [outcome EXCEPT ![w] = how]
  PROVE  ResolverTypes'
BY DEF ResolverTypes, Enter

\* A chain that ends in the anchor is picked when the call has returned: its statements are
\* all in the cache.
LEMMA PickKeeps ==
  ASSUME ResolverIInv, NEW w \in Workers, Pick(w)
  PROVE  ResolvingOK(w)' /\ ResolverTypes'
<1>1. PICK p \in chains[w] : EndsIn(p, stop_at[w]) /\ picked' = [picked EXCEPT ![w] = p]
  BY DEF Pick
<1>2. IInv /\ DocumentsOK(w) /\ ResolvingOK(w) /\ ResolverTypes
  BY DEF ResolverIInv, SoloIInv
<1>3. /\ pc[w] = "idle" /\ result[w] = "tree" /\ phase[w] = "collect" /\ answer[w] = <<>>
      /\ UNCHANGED <<vars, answer, outcome>> /\ Enter(w, "configuration")
  BY <1>2 DEF Pick, In, ResolvingOK
<1>4. p \in Seq(Entities) /\ IsClimb(p, subject[w], stop_at[w])
  BY <1>2 DEF IInv, TypeOK, ChainsWellFormed
<1>5. ChainAtHand(w, p)
  BY <1>2, <1>3 DEF DocumentsOK, ChainsAtHand
<1>6. \A i \in 1..(Len(p) - 1) : statement_cache[Link(p, i)] # NoEntry
  BY <1>3, <1>5 DEF ChainAtHand, AtHand, Refetching, FetchingConfig
<1>7. picked'[w] = p /\ phase'[w] = "configuration" /\ answer'[w] = <<>>
  BY <1>1, <1>2, <1>3 DEF ResolverTypes, Enter
<1>8. UNCHANGED <<pc, subject, stop_at, statement_cache>>
  BY <1>3 DEF vars
<1>9. Settled(w)'
  BY <1>1, <1>3, <1>4, <1>6, <1>7, <1>8 DEF Settled, IsClimb, EndsIn
<1>10. ResolverTypes'
  BY <1>1, <1>2, <1>3, <1>4, ResolvingTypesStay DEF Phases
<1>. QED
  BY <1>7, <1>9, <1>10 DEF ResolvingOK

LEMMA PickedIs ==
  ASSUME ResolverIInv, NEW w \in Workers, Settled(w)
  PROVE  picked[w][1] \in Entities /\ Len(picked[w]) \in Nat \ {0}
<1>1. picked[w] \in Seq(Entities) /\ Len(picked[w]) \in 1..(RecursionLimit + 1)
  BY DEF Settled, IsClimb
<1>2. Len(picked[w]) \in Nat \ {0} /\ 1 \in 1..Len(picked[w])
  BY <1>1, ConstantsAssumption
<1>. QED
  BY <1>1, <1>2

LEMMA OneMore ==
  ASSUME NEW q \in Seq(Nat), NEW x \in Nat
  PROVE  \E r \in Seq(Nat) : /\ r = Append(q, x) /\ Len(r) = Len(q) + 1 /\ r[Len(q) + 1] = x
                            /\ \A i \in 1..Len(q) : r[i] = q[i]
<1>1. /\ Append(q, x) \in Seq(Nat) /\ Len(Append(q, x)) = Len(q) + 1
      /\ Append(q, x)[Len(q) + 1] = x /\ \A i \in 1..Len(q) : Append(q, x)[i] = q[i]
  BY AppendProperties
<1>. QED
  BY <1>1

LEMMA LookUpConfigurationKeeps ==
  ASSUME ResolverIInv, NEW w \in Workers, LookUpConfiguration(w)
  PROVE  ResolvingOK(w)' /\ ResolverTypes'
<1>. DEFINE exp == config_cache[picked[w][1]]
<1>1. IInv /\ ResolvingOK(w) /\ ResolverTypes
  BY DEF ResolverIInv, SoloIInv
<1>2. phase[w] = "configuration" /\ Settled(w) /\ answer[w] = <<>> /\ UNCHANGED <<vars, picked>>
  BY <1>1 DEF LookUpConfiguration, In, ResolvingOK
<1>3. exp \in Nat /\ Len(picked[w]) \in Nat \ {0}
  BY <1>1, <1>2, PickedIs DEF IInv, TypeOK
<1>4. Settled(w)'
  BY <1>2, StillSettled DEF vars
<1>. HIDE DEF exp
<1>5. CASE Fresh(exp) /\ Note(w, exp) /\ Enter(w, "statements") /\ UNCHANGED outcome
  <2>1. answer' = [answer EXCEPT ![w] = Append(answer[w], exp)] /\ exp # NoEntry
    BY <1>5 DEF Note, Fresh
  <2>2. PICK q \in Seq(Nat) : q = Append(answer[w], exp) /\ Len(q) = 1 /\ q[1] = exp
    <3>1. answer[w] \in Seq(Nat) /\ Len(answer[w]) = 0
      BY <1>2
    <3>2. PICK r \in Seq(Nat) : /\ r = Append(answer[w], exp) /\ Len(r) = Len(answer[w]) + 1
                               /\ r[Len(answer[w]) + 1] = exp
      BY <1>3, <3>1, OneMore
    <3>3. Len(answer[w]) + 1 = 1
      BY <3>1
    <3>. QED
      BY <3>2, <3>3
  <2>3. answer'[w] = q /\ phase'[w] = "statements" /\ picked'[w] = picked[w]
    BY <1>1, <1>2, <1>5, <2>1, <2>2 DEF ResolverTypes, Enter
  <2>4. FoundSoFar(w)'
    BY <1>3, <2>1, <2>2, <2>3 DEF FoundSoFar
  <2>5. ResolverTypes'
    BY <1>1, <1>2, <1>5, <2>1, <2>2, ResolvingTypesStay DEF Phases
  <2>. QED
    BY <1>4, <2>3, <2>4, <2>5 DEF ResolvingOK
<1>6. CASE End(w, "exception") /\ UNCHANGED answer
  <2>1. ResolverTypes' /\ phase'[w] = "none"
    BY <1>1, <1>2, <1>6, ResolvingTypesStay DEF Phases, End, Enter, ResolverTypes
  <2>. QED
    BY <2>1 DEF ResolvingOK
<1>7. CASE Enter(w, "evict") /\ UNCHANGED <<answer, outcome>>
  <2>1. ResolverTypes' /\ phase'[w] = "evict" /\ answer'[w] = <<>>
    BY <1>1, <1>2, <1>7, ResolvingTypesStay DEF Phases, Enter, ResolverTypes
  <2>. QED
    BY <1>4, <2>1 DEF ResolvingOK
<1>. QED
  BY <1>5, <1>6, <1>7 DEF LookUpConfiguration, exp

LEMMA LookUpStatementKeeps ==
  ASSUME ResolverIInv, NEW w \in Workers, LookUpStatement(w)
  PROVE  ResolvingOK(w)' /\ ResolverTypes'
<1>. DEFINE n == Len(answer[w])
            exp == statement_cache[Link(picked[w], n)]
<1>1. IInv /\ ResolvingOK(w) /\ ResolverTypes
  BY DEF ResolverIInv, SoloIInv
<1>2. /\ phase[w] = "statements" /\ Settled(w) /\ FoundSoFar(w) /\ n < Len(picked[w])
      /\ UNCHANGED <<vars, phase, picked, outcome>>
  BY <1>1 DEF LookUpStatement, In, ResolvingOK
<1>3. Len(picked[w]) \in Nat \ {0} /\ n \in 1..Len(picked[w]) /\ answer[w] \in Seq(Nat)
  BY <1>2, PickedIs DEF FoundSoFar
<1>4. n \in 1..(Len(picked[w]) - 1) /\ n \in 1..Len(picked[w]) /\ n + 1 \in 1..Len(picked[w]) /\ n \in Nat
  BY <1>2, <1>3
<1>5. Link(picked[w], n) \in Pairs
  <2>1. picked[w][n] \in Entities /\ picked[w][n + 1] \in Entities
    BY <1>2, <1>4 DEF Settled
  <2>. QED
    BY <2>1 DEF Link, Pairs
<1>6. exp \in Nat /\ exp # NoEntry
  BY <1>1, <1>2, <1>4, <1>5 DEF IInv, TypeOK, Settled
<1>7. answer' = [answer EXCEPT ![w] = Append(answer[w], exp)]
  BY DEF LookUpStatement, Note
<1>. HIDE DEF exp
<1>8. PICK q \in Seq(Nat) : /\ q = Append(answer[w], exp) /\ Len(q) = n + 1 /\ q[n + 1] = exp
                            /\ \A i \in 1..n : q[i] = answer[w][i]
  BY <1>3, <1>6, OneMore
<1>9. answer'[w] = q /\ phase'[w] = "statements" /\ picked'[w] = picked[w]
  BY <1>1, <1>2, <1>7, <1>8 DEF ResolverTypes
<1>10. \A i \in 1..Len(q) : q[i] # NoEntry
  <2>1. ASSUME NEW i \in 1..Len(q)
        PROVE  q[i] # NoEntry
    <3>1. CASE i = n + 1
      BY <1>6, <1>8, <3>1
    <3>2. CASE i # n + 1
      <4>1. i \in 1..n
        BY <1>4, <1>8, <3>2
      <4>. QED
        BY <1>2, <1>8, <4>1 DEF FoundSoFar
    <3>. QED
      BY <3>1, <3>2
  <2>. QED
    BY <2>1
<1>11. FoundSoFar(w)'
  BY <1>4, <1>8, <1>9, <1>10 DEF FoundSoFar
<1>12. Settled(w)'
  BY <1>2, StillSettled DEF vars
<1>13. ResolverTypes'
  BY <1>1, <1>2, <1>7, <1>8, ResolvingTypesStay
<1>. QED
  BY <1>9, <1>11, <1>12, <1>13 DEF ResolvingOK

\* A step that ends the request.
LEMMA EndKeeps ==
  ASSUME ResolverIInv, NEW w \in Workers, Refuse(w) \/ EvictConfiguration(w) \/ Answer(w)
  PROVE  ResolvingOK(w)' /\ ResolverTypes'
<1>1. ResolverTypes
  BY DEF ResolverIInv
<1>2. UNCHANGED <<picked, answer>> /\ (End(w, "exception") \/ End(w, "answered"))
  BY DEF Refuse, EvictConfiguration, Answer
<1>3. ResolverTypes' /\ phase'[w] = "none"
  BY <1>1, <1>2, ResolvingTypesStay DEF Phases, End, Enter, ResolverTypes
<1>. QED
  BY <1>3 DEF ResolvingOK

\* Nothing but the configurations changes.
LEMMA EvictionIsSafe ==
  ASSUME IInv, NEW w \in Workers, EvictConfiguration(w)
  PROVE  IInv' /\ UNCHANGED <<pc, subject, stop_at, stack, chains, authority, statement, result,
                              statement_cache, time_cache>>
<1>1. /\ UNCHANGED <<now, pc, subject, stop_at, calls, stack, chains, authority, statement, result,
                     statement_cache, time_cache>>
      /\ config_cache' = [config_cache EXCEPT ![picked[w][1]] = NoEntry]
  BY DEF EvictConfiguration, call
<1>2. TypeOK'
  BY <1>1 DEF IInv, TypeOK, NoEntry
<1>3. ControlOK' /\ ClimbOK' /\ ChainsWellFormed'
  BY <1>1 DEF IInv, ControlOK, ClimbOK, ChainsWellFormed, Top
<1>. QED
  BY <1>1, <1>2, <1>3 DEF IInv

LEMMA ResolverNextIInv ==
  ASSUME \A v, w \in Workers : v = w, Undated = {}, ResolverIInv, [ResolverNext]_resolver_vars
  PROVE  ResolverIInv'
<1>1. /\ IInv /\ SoloIInv /\ ResolverTypes /\ PublishersOnly
      /\ \A w \in Workers : SoloOK(w) /\ DocumentsOK(w) /\ ResolvingOK(w)
  BY DEF ResolverIInv, SoloIInv
<1>2. ASSUME [Next]_vars
      PROVE  SoloIInv'
  BY <1>1, <1>2, SoloNext
<1>3. UNCHANGED resolving => ResolverTypes'
  BY <1>1 DEF resolving, ResolverTypes
<1>4. UNCHANGED statement_cache => PublishersOnly'
  BY <1>1 DEF PublishersOnly
<1>5. ASSUME NEW w \in Workers, SoloIInv', ResolverTypes', PublishersOnly', DocumentsOK(w)', ResolvingOK(w)'
      PROVE  ResolverIInv'
  <2>1. \A v \in Workers : v = w
    OBVIOUS
  <2>. QED
    BY <1>5, <2>1 DEF ResolverIInv
<1>6. ASSUME NEW w \in Workers, UNCHANGED <<pc, subject, stop_at, stack, chains, authority, result,
                                          statement_cache, phase, picked, answer>>
      PROVE  PublishersOnly' /\ DocumentsOK(w)' /\ ResolvingOK(w)'
  <2>1. PublishersOnly' /\ DocumentsOK(w)'
    BY <1>1, <1>4, <1>6, StillDocumented
  <2>2. Settled(w) => Settled(w)'
    BY <1>6, StillSettled
  <2>3. ResolvingOK(w)'
    BY <1>1, <1>6, <2>2 DEF ResolvingOK, FoundSoFar
  <2>. QED
    BY <2>1, <2>3
<1>7. CASE (Tick /\ UNCHANGED resolving) \/ UNCHANGED resolver_vars
  <2>1. /\ [Next]_vars /\ UNCHANGED resolving
        /\ UNCHANGED <<pc, subject, stop_at, stack, chains, authority, result, statement_cache,
                       phase, picked, answer>>
    <3>1. CASE Tick /\ UNCHANGED resolving
      BY <3>1 DEF Next, Tick, resolving, caches, call
    <3>2. CASE UNCHANGED resolver_vars
      BY <3>2 DEF resolver_vars, resolving, vars
    <3>. QED
      BY <1>7, <3>1, <3>2
  <2>2. SoloIInv' /\ ResolverTypes'
    BY <1>2, <1>3, <2>1
  <2>. QED
    BY <1>4, <1>6, <2>1, <2>2 DEF ResolverIInv
<1>8. ASSUME NEW w \in Workers, NEW e \in Subjects, NEW s \in StopAts,
             Call(w, e, s) \/ CallWithConfiguration(w, e, s)
      PROVE  SoloIInv' /\ PublishersOnly' /\ DocumentsOK(w)'
  <2>1. Next
    BY <1>8 DEF Next
  <2>. QED
    BY <1>1, <1>2, <1>4, <1>8, <2>1, CallKeeps
<1>9. ASSUME NEW w \in Workers, NEW e \in Subjects, NEW s \in StopAts, Resolve(w, e, s)
      PROVE  ResolverIInv'
  <2>1. Call(w, e, s) /\ Enter(w, "collect") /\ answer' = [answer EXCEPT ![w] = <<>>]
    BY <1>9 DEF Resolve
  <2>2. phase'[w] = "collect" /\ answer'[w] = <<>>
    BY <1>1, <2>1 DEF ResolverTypes, Enter
  <2>3. ResolverTypes'
    <3>1. <<>> \in Seq(Entities) /\ <<>> \in Seq(Nat) /\ "collect" \in Phases
      BY DEF Phases
    <3>. QED
      BY <1>1, <1>9, <2>1, <3>1, ResolvingTypesStay DEF Resolve
  <2>4. ResolvingOK(w)'
    BY <2>2 DEF ResolvingOK
  <2>. QED
    BY <1>5, <1>8, <2>1, <2>3, <2>4
<1>10. ASSUME NEW w \in Workers, NEW e \in Subjects, NEW s \in StopAts, In(w, "none"),
              Call(w, e, s) \/ CallWithConfiguration(w, e, s), UNCHANGED resolving
       PROVE  ResolverIInv'
  <2>1. phase'[w] = "none"
    BY <1>10 DEF In, resolving
  <2>2. ResolvingOK(w)'
    BY <2>1 DEF ResolvingOK
  <2>. QED
    BY <1>3, <1>5, <1>8, <1>10, <2>2
<1>11. ASSUME NEW w \in Workers, Step(w), UNCHANGED resolving
       PROVE  ResolverIInv'
  <2>1. Next
    BY <1>11 DEF Next
  <2>2. DocumentsOK(w)' /\ PublishersOnly'
    BY <1>1, <1>11, DocumentsStep
  <2>3. ResolvingOK(w)'
    BY <1>1, <1>11, StepIsInACall, CollectingKeeps
  <2>. QED
    BY <1>2, <1>3, <1>5, <1>11, <2>1, <2>2, <2>3
<1>12. ASSUME NEW w \in Workers, Pick(w) \/ Refuse(w) \/ LookUpConfiguration(w) \/ LookUpStatement(w) \/ Answer(w)
       PROVE  ResolverIInv'
  <2>1. ResolvingOK(w)' /\ ResolverTypes'
    BY <1>12, PickKeeps, EndKeeps, LookUpConfigurationKeeps, LookUpStatementKeeps
  <2>2. UNCHANGED vars
    BY <1>12 DEF Pick, Refuse, LookUpConfiguration, LookUpStatement, Answer
  <2>3. SoloIInv'
    BY <1>2, <2>2
  <2>4. PublishersOnly' /\ DocumentsOK(w)'
    BY <1>1, <1>4, <2>2, StillDocumented DEF vars
  <2>. QED
    BY <1>5, <2>1, <2>3, <2>4
<1>13. ASSUME NEW w \in Workers, EvictConfiguration(w)
       PROVE  ResolverIInv'
  <2>1. IInv' /\ UNCHANGED <<pc, stack, chains, authority, statement, result, statement_cache, time_cache>>
    BY <1>1, <1>13, EvictionIsSafe
  <2>2. pc[w] = "idle"
    BY <1>1, <1>13 DEF EvictConfiguration, In, ResolvingOK, Settled
  <2>3. SoloOK(w)'
    BY <1>1, <2>1, <2>2 DEF SoloOK
  <2>4. SoloIInv'
    BY <2>1, <2>3 DEF SoloIInv
  <2>5. PublishersOnly' /\ DocumentsOK(w)'
    BY <1>1, <1>4, <2>1, StillDocumented
  <2>6. ResolvingOK(w)' /\ ResolverTypes'
    BY <1>13, EndKeeps
  <2>. QED
    BY <1>5, <2>4, <2>5, <2>6
<1>. QED
  BY <1>7, <1>9, <1>10, <1>11, <1>12, <1>13 DEF ResolverNext, ResolverStep

\* A resolver with one thread finds in the caches whatever the chain it has collected needs, in
\* every federation: the answer is a climb from the subject to the anchor that was asked
\* about, and none of its documents is missing.
THEOREM OneThreadAnswersInFull ==
  ASSUME \A v, w \in Workers : v = w, Undated = {}
  PROVE  ResolverSpec => []AnswersHaveEveryDocument
<1>1. ResolverIInv /\ [ResolverNext]_resolver_vars => ResolverIInv'
  BY ResolverNextIInv
<1>2. ResolverIInv => AnswersHaveEveryDocument
  <2>. SUFFICES ASSUME ResolverIInv, NEW w \in Workers, In(w, "statements")
                PROVE  /\ IsClimb(picked[w], subject[w], stop_at[w]) /\ EndsIn(picked[w], stop_at[w])
                       /\ NoEntry \notin {answer[w][i] : i \in 1..Len(answer[w])}
    BY DEF AnswersHaveEveryDocument
  <2>1. Settled(w) /\ FoundSoFar(w)
    BY DEF ResolverIInv, ResolvingOK, In
  <2>. QED
    BY <2>1 DEF Settled, FoundSoFar
<1>. QED
  BY <1>1, <1>2, ResolverInitIInv, PTL DEF ResolverSpec
-----------------------------------------------------------------------------
(* The chains of ChainCollection.  Each of them is in the tree already or  *)
(* ahead of the depth-first climb: below the hint that some frame has yet  *)
(* to visit, or below the branch that the worker is in.                    *)

Promised(p, e, s) ==
  p \in Seq(Entities) /\ Len(p) \in 1..(RecursionLimit + 1) /\ Collection!IsChain(p, e, s)

\* p begins with the entities of the worker's first i frames.
Along(w, i, p) == Len(p) >= i /\ \A j \in 1..i : p[j] = stack[w][j].entity
AheadOfFrame(w, i, p) ==
  /\ Along(w, i, p)
  /\ \/ Len(p) = i /\ \E a \in stack[w][i].todo : ~Collection!Answers(a, stack[w][i].entity)
     \/ Len(p) > i /\ p[i + 1] \in stack[w][i].todo
AheadOfBranch(w, p) ==
  /\ pc[w] \notin {"idle", "loop"}
  /\ Along(w, Len(stack[w]), p)
  /\ \/ Len(p) = Len(stack[w]) /\ ~Collection!Answers(authority[w], Top(w).entity)
     \/ Len(p) > Len(stack[w]) /\ p[Len(stack[w]) + 1] = Wanted(w)
ToCome(w, p) == AheadOfBranch(w, p) \/ \E i \in 1..Len(stack[w]) : AheadOfFrame(w, i, p)

\* An authority whose branch goes on answers, and so did those of the frames.
BranchAnswers(w) ==
  /\ pc[w] \notin {"idle", "loop"} /\ stack[w] # <<>> =>
       ~(authority[w] = Top(w).entity /\ authority[w] \in TrustAnchors)
  /\ HasStatement(w) \/ pc[w] = "fetch_statement" => authority[w] \in Publishers
FramesAnswer(w) ==
  \A i \in 1..(Len(stack[w]) - 1) : Collection!Answers(stack[w][i + 1].entity, stack[w][i].entity)

NoneInvented(w) == \A p \in chains[w] : Promised(p, subject[w], stop_at[w])
NoneForgotten(w) ==
  \A p \in Seq(Entities) :
    Promised(p, subject[w], stop_at[w]) => p \in chains[w] \/ (pc[w] # "idle" /\ ToCome(w, p))
CollectedOK(w) ==
  /\ pc[w] # "idle" => result[w] = "none"
  /\ BranchAnswers(w) /\ FramesAnswer(w) /\ NoneInvented(w)
  /\ pc[w] # "idle" \/ result[w] = "tree" => NoneForgotten(w)
CollectorInv == IInv /\ PublishersOnly /\ \A w \in Workers : CollectedOK(w)

LEMMA ChainsArePromised ==
  ASSUME NEW e \in Entities, NEW s \in Entities \cup {NoEntity}, NEW p
  PROVE  p \in Collection!ChainsOf[e][s] <=> Promised(p, e, s)
<1>1. RecursionLimit + 1 \in Nat
  BY ConstantsAssumption
<1>2. Collection!ChainsOf[e][s] = {q \in Collection!Paths : Collection!IsChain(q, e, s)}
  BY DEF Collection!ChainsOf
<1>3. p \in Collection!Paths <=> p \in Seq(Entities) /\ Len(p) \in 1..(RecursionLimit + 1)
  <2>1. ASSUME p \in Collection!Paths
        PROVE  p \in Seq(Entities) /\ Len(p) \in 1..(RecursionLimit + 1)
    <3>1. PICK n \in 1..(RecursionLimit + 1) : p \in [1..n -> Entities]
      BY <2>1 DEF Collection!Paths
    <3>2. n \in Nat
      BY <1>1
    <3>. QED
      BY <3>1, <3>2
  <2>2. ASSUME p \in Seq(Entities), Len(p) \in 1..(RecursionLimit + 1)
        PROVE  p \in Collection!Paths
    <3>1. p \in [1..Len(p) -> Entities]
      BY <2>2
    <3>. QED
      BY <2>2, <3>1 DEF Collection!Paths
  <2>. QED
    BY <2>1, <2>2
<1>. QED
  BY <1>2, <1>3 DEF Promised

\* What a chain is, without the definitions of the abstract specification.
LEMMA PromisedIs ==
  ASSUME NEW p, NEW e, NEW s, Promised(p, e, s)
  PROVE  /\ p \in Seq(Entities) /\ Len(p) \in Nat \ {0} /\ p[1] = e
         /\ \A i \in 1..(Len(p) - 1) :
              p[i] # s /\ p[i + 1] \in Hints[p[i]] /\ Collection!Answers(p[i + 1], p[i])
         /\ \/ Len(p) > 1 /\ (p[Len(p)] = s \/ Hints[p[Len(p)]] = {})
            \/ p[Len(p)] # s /\ \E a \in Hints[p[Len(p)]] : ~Collection!Answers(a, p[Len(p)])
<1>1. Len(p) \in Nat \ {0}
  BY ConstantsAssumption DEF Promised
<1>. QED
  BY <1>1 DEF Promised, Collection!IsChain

LEMMA SeqIs ==
  ASSUME NEW p \in Seq(Entities), NEW q \in Seq(Entities), Len(p) = Len(q),
         \A i \in 1..Len(q) : p[i] = q[i]
  PROVE  p = q
BY SeqEqual

\* A chain that the frames lead to and that goes no further is the worker's path.
LEMMA PathIsTheChain ==
  ASSUME IInv, NEW w \in Workers, stack[w] # <<>>, NEW p \in Seq(Entities),
         Along(w, Len(stack[w]), p), Len(p) = Len(stack[w])
  PROVE  p = Path(w)
<1>1. PICK q \in Seq(Entities) : q = Path(w) /\ Len(q) = Len(stack[w])
  BY PathIsChain
<1>2. \A i \in 1..Len(q) : p[i] = q[i]
  BY <1>1 DEF Along, Path
<1>3. p = q
  BY <1>1, <1>2, SeqIs
<1>. QED
  BY <1>1, <1>3

\* The path, when the entity at its end has a superior that does not answer.
LEMMA PathIsPromised ==
  ASSUME IInv, NEW w \in Workers, stack[w] # <<>>, FramesAnswer(w),
         NEW a \in Hints[Top(w).entity], ~Collection!Answers(a, Top(w).entity)
  PROVE  Promised(Path(w), subject[w], stop_at[w])
<1>1. /\ Path(w) \in Seq(Entities) /\ Len(Path(w)) = Len(stack[w])
      /\ IsClimb(Path(w), subject[w], stop_at[w])
      /\ Path(w)[Len(Path(w))] = Top(w).entity /\ Top(w).entity # stop_at[w]
  BY PathIsChain
<1>2. PICK q \in Seq(Entities) : q = Path(w)
  BY <1>1
<1>3. ASSUME NEW i \in 1..(Len(q) - 1)
      PROVE  Collection!Answers(q[i + 1], q[i])
  <2>1. i \in 1..Len(stack[w]) /\ i + 1 \in 1..Len(stack[w]) /\ i \in 1..(Len(stack[w]) - 1)
    BY <1>1, <1>2
  <2>2. q[i] = stack[w][i].entity /\ q[i + 1] = stack[w][i + 1].entity
    BY <1>2, <2>1 DEF Path
  <2>. QED
    BY <2>1, <2>2 DEF FramesAnswer
<1>4. PICK e, s : e = subject[w] /\ s = stop_at[w]
  OBVIOUS
<1>5. IsClimb(q, e, s) /\ q[Len(q)] # s
  BY <1>1, <1>2, <1>4
<1>6. \E b \in Hints[q[Len(q)]] : ~Collection!Answers(b, q[Len(q)])
  BY <1>1, <1>2
<1>7. Promised(q, e, s)
  BY <1>3, <1>5, <1>6 DEF Promised, Collection!IsChain, IsClimb
<1>. QED
  BY <1>2, <1>4, <1>7

\* Inside a branch the authority is a superior of the entity in the top frame that answers,
\* once its statement is at hand.
LEMMA BranchIsClimb ==
  ASSUME IInv, NEW w \in Workers, stack[w] # <<>>, pc[w] \notin {"idle", "loop"}
  PROVE  /\ authority[w] \in Hints[Top(w).entity] /\ authority[w] \in Entities
         /\ Top(w).entity \in Entities /\ Wanted(w) = authority[w]
<1>1. authority[w] \in Hints[Top(w).entity] /\ Top(w).entity \in Entities
  BY PathIsChain DEF IInv, ControlOK, Frames
<1>. QED
  BY <1>1, ConstantsAssumption DEF Wanted

LEMMA LongerPath ==
  ASSUME IInv, NEW w \in Workers, stack[w] # <<>>, pc[w] \notin {"idle", "loop"}
  PROVE  \E p \in Seq(Entities) :
           /\ p = Append(Path(w), Wanted(w)) /\ Len(p) = Len(stack[w]) + 1
           /\ p[Len(stack[w]) + 1] = authority[w]
           /\ \A i \in 1..Len(stack[w]) : p[i] = stack[w][i].entity
<1>1. PICK q \in Seq(Entities) : q = Path(w) /\ Len(q) = Len(stack[w])
  BY PathIsChain
<1>2. \A i \in 1..Len(stack[w]) : q[i] = stack[w][i].entity
  BY <1>1 DEF Path
<1>3. PICK a \in Entities : a = authority[w] /\ a = Wanted(w)
  BY BranchIsClimb
<1>4. /\ Append(q, a) \in Seq(Entities) /\ Len(Append(q, a)) = Len(q) + 1
      /\ Append(q, a)[Len(q) + 1] = a /\ \A i \in 1..Len(q) : Append(q, a)[i] = q[i]
  BY AppendProperties
<1>. QED
  BY <1>1, <1>2, <1>3, <1>4

LEMMA LongerPathIsTheChain ==
  ASSUME IInv, NEW w \in Workers, stack[w] # <<>>, pc[w] \notin {"idle", "loop"}, NEW p \in Seq(Entities),
         Along(w, Len(stack[w]), p), Len(p) = Len(stack[w]) + 1, p[Len(stack[w]) + 1] = authority[w]
  PROVE  p = Append(Path(w), Wanted(w))
<1>1. PICK q \in Seq(Entities) :
        /\ q = Append(Path(w), Wanted(w)) /\ Len(q) = Len(stack[w]) + 1
        /\ q[Len(stack[w]) + 1] = authority[w]
        /\ \A i \in 1..Len(stack[w]) : q[i] = stack[w][i].entity
  BY LongerPath
<1>2. Len(stack[w]) \in Nat
  BY DEF IInv, TypeOK
<1>3. \A i \in 1..Len(q) : p[i] = q[i]
  BY <1>1, <1>2 DEF Along
<1>4. p = q
  BY <1>1, <1>3, SeqIs
<1>. QED
  BY <1>1, <1>4

\* The path with the authority, when the climb ends there.
LEMMA LongerPathIsPromised ==
  ASSUME IInv, NEW w \in Workers, stack[w] # <<>>, pc[w] = "collect_tree",
         FramesAnswer(w), BranchAnswers(w), AtEnd(w, Wanted(w))
  PROVE  Promised(Append(Path(w), Wanted(w)), subject[w], stop_at[w])
<1>. DEFINE n == Len(stack[w])
<1>1. PICK p \in Seq(Entities) :
        /\ p = Append(Path(w), Wanted(w)) /\ Len(p) = n + 1 /\ p[n + 1] = authority[w]
        /\ \A i \in 1..n : p[i] = stack[w][i].entity
  BY LongerPath
<1>2. /\ n \in 1..RecursionLimit /\ Path(w) \in Seq(Entities) /\ Len(Path(w)) = n
      /\ IsClimb(Path(w), subject[w], stop_at[w]) /\ Top(w).entity # stop_at[w]
      /\ \A i \in 1..n : Path(w)[i] = stack[w][i].entity
  BY PathIsChain DEF Path
<1>3. n \in Nat \ {0} /\ RecursionLimit \in Nat
  BY <1>2, ConstantsAssumption
<1>4. /\ authority[w] \in Hints[Top(w).entity] /\ Wanted(w) = authority[w]
      /\ Collection!Answers(authority[w], Top(w).entity)
  BY BranchIsClimb DEF BranchAnswers, HasStatement, Collection!Answers
<1>5. p[1] = subject[w]
  BY <1>1, <1>2, <1>3 DEF IsClimb
<1>6. ASSUME NEW i \in 1..(Len(p) - 1)
      PROVE  p[i] # stop_at[w] /\ p[i + 1] \in Hints[p[i]] /\ Collection!Answers(p[i + 1], p[i])
  <2>1. CASE i = n
    BY <1>1, <1>2, <1>3, <1>4, <2>1 DEF Top
  <2>2. CASE i # n
    <3>1. i \in 1..(n - 1) /\ i \in 1..n /\ i + 1 \in 1..n
      BY <1>1, <1>3, <2>2
    <3>2. p[i] = Path(w)[i] /\ p[i + 1] = Path(w)[i + 1]
      BY <1>1, <1>2, <3>1
    <3>3. Collection!Answers(p[i + 1], p[i])
      BY <1>1, <3>1 DEF FramesAnswer
    <3>. QED
      BY <1>2, <3>1, <3>2, <3>3 DEF IsClimb
  <2>. QED
    BY <2>1, <2>2
<1>7. Len(p) > 1 /\ (p[Len(p)] = stop_at[w] \/ Hints[p[Len(p)]] = {})
  BY <1>1, <1>3, <1>4 DEF AtEnd
<1>8. Len(p) \in 1..(RecursionLimit + 1)
  BY <1>1, <1>2, <1>3
<1>9. PICK e, s : e = subject[w] /\ s = stop_at[w]
  OBVIOUS
<1>10. Promised(p, e, s)
  BY <1>5, <1>6, <1>7, <1>8, <1>9 DEF Promised, Collection!IsChain
<1>. QED
  BY <1>1, <1>9, <1>10

-----------------------------------------------------------------------------
(* One lemma per shape of step again.                                      *)

\* The two halves of completeness after a step, for the arguments of the call.
LEMMA InventedNext ==
  ASSUME NEW w \in Workers, NEW e, NEW s, e = subject'[w], s = stop_at'[w],
         \A p \in chains'[w] : Promised(p, e, s)
  PROVE  NoneInvented(w)'
BY DEF NoneInvented, Promised, Collection!IsChain, Collection!Answers

LEMMA ForgottenNext ==
  ASSUME NEW w \in Workers, NEW e, NEW s, e = subject'[w], s = stop_at'[w],
         \A p \in Seq(Entities) :
           Promised(p, e, s) => p \in chains'[w] \/ (pc'[w] # "idle" /\ ToCome(w, p)')
  PROVE  NoneForgotten(w)'
BY DEF NoneForgotten, Promised, Collection!IsChain, Collection!Answers

\* A step of a call keeps its arguments: what it is to find stays the same.
LEMMA CollectedNext ==
  ASSUME NEW w \in Workers, CollectedOK(w), pc[w] # "idle", UNCHANGED <<subject, stop_at>>,
         BranchAnswers(w)', FramesAnswer(w)',
         pc'[w] # "idle" => result'[w] = "none",
         \A p \in chains'[w] : p \in chains[w] \/ Promised(p, subject[w], stop_at[w]),
         \A p \in Seq(Entities) :
           Promised(p, subject[w], stop_at[w]) /\ (p \in chains[w] \/ ToCome(w, p))
             /\ (pc'[w] # "idle" \/ result'[w] = "tree")
           => p \in chains'[w] \/ (pc'[w] # "idle" /\ ToCome(w, p)')
  PROVE  CollectedOK(w)'
<1>1. PICK e, s : e = subject[w] /\ s = stop_at[w] /\ e = subject'[w] /\ s = stop_at'[w]
  OBVIOUS
<1>2. NoneInvented(w)'
  <2>1. \A p \in chains'[w] : Promised(p, e, s)
    BY <1>1 DEF CollectedOK, NoneInvented
  <2>. QED
    BY <1>1, <2>1, InventedNext
<1>3. pc'[w] # "idle" \/ result'[w] = "tree" => NoneForgotten(w)'
  <2>1. SUFFICES ASSUME pc'[w] # "idle" \/ result'[w] = "tree"
                 PROVE  NoneForgotten(w)'
    OBVIOUS
  <2>2. \A p \in Seq(Entities) : Promised(p, e, s) => p \in chains[w] \/ ToCome(w, p)
    BY <1>1 DEF CollectedOK, NoneForgotten
  <2>3. \A p \in Seq(Entities) :
          Promised(p, e, s) => p \in chains'[w] \/ (pc'[w] # "idle" /\ ToCome(w, p)')
    BY <1>1, <2>1, <2>2
  <2>. QED
    BY <1>1, <2>3, ForgottenNext
<1>. QED
  BY <1>2, <1>3 DEF CollectedOK

\* Nothing that CollectedOK speaks of changes: another worker's step, or the clock's.
LEMMA CollectedStays ==
  ASSUME NEW w \in Workers, CollectedOK(w),
         pc'[w] = pc[w], subject'[w] = subject[w], stop_at'[w] = stop_at[w], stack'[w] = stack[w],
         authority'[w] = authority[w], chains'[w] = chains[w], result'[w] = result[w]
  PROVE  CollectedOK(w)'
<1>1. Top(w)' = Top(w) /\ Wanted(w)' = Wanted(w)
  BY DEF Top, Wanted
<1>2. PICK e, s : e = subject[w] /\ s = stop_at[w] /\ e = subject'[w] /\ s = stop_at'[w]
  OBVIOUS
<1>3. BranchAnswers(w)' /\ FramesAnswer(w)'
  BY <1>1 DEF CollectedOK, BranchAnswers, HasStatement, FramesAnswer, Collection!Answers
<1>4. NoneInvented(w)'
  BY <1>2, InventedNext DEF CollectedOK, NoneInvented
<1>5. ASSUME NoneForgotten(w)
      PROVE  NoneForgotten(w)'
  <2>1. \A p \in Seq(Entities) : ToCome(w, p) => ToCome(w, p)'
    BY <1>1 DEF ToCome, AheadOfBranch, AheadOfFrame, Along, Collection!Answers
  <2>2. \A p \in Seq(Entities) :
          Promised(p, e, s) => p \in chains'[w] \/ (pc'[w] # "idle" /\ ToCome(w, p)')
    BY <1>2, <1>5, <2>1 DEF NoneForgotten
  <2>. QED
    BY <1>2, <2>2, ForgottenNext
<1>. QED
  BY <1>3, <1>4, <1>5 DEF CollectedOK

\* A step inside a branch, or on the way to the subject's configuration.
LEMMA BranchGoesOn ==
  ASSUME NEW w \in Workers, CollectedOK(w), pc[w] \notin {"idle", "loop"}, NEW label, Goto(w, label),
         pc \in [Workers -> Labels], label \notin {"idle", "loop"},
         UNCHANGED <<call, stack, authority, chains, result>>,
         HasStatement(w)' \/ label = "fetch_statement" => authority[w] \in Publishers
  PROVE  CollectedOK(w)'
<1>1. pc'[w] = label /\ Top(w)' = Top(w) /\ Wanted(w)' = Wanted(w) /\ UNCHANGED <<subject, stop_at>>
  BY DEF Goto, Top, Wanted, call
<1>2. BranchAnswers(w)' /\ FramesAnswer(w)'
  BY <1>1 DEF CollectedOK, BranchAnswers, FramesAnswer, Collection!Answers
<1>3. \A p \in Seq(Entities) : ToCome(w, p) => ToCome(w, p)'
  BY <1>1 DEF ToCome, AheadOfBranch, AheadOfFrame, Along, Collection!Answers
<1>4. result'[w] = "none"
  BY DEF CollectedOK
<1>5. \A p \in chains'[w] : p \in chains[w]
  OBVIOUS
<1>6. \A p \in Seq(Entities) : p \in chains[w] \/ ToCome(w, p) => p \in chains'[w] \/ ToCome(w, p)'
  BY <1>3
<1>7. pc[w] # "idle" /\ pc'[w] # "idle"
  BY <1>1
<1>. QED
  BY <1>1, <1>2, <1>4, <1>5, <1>6, <1>7, CollectedNext

\* A call that fails promises nothing.
LEMMA FailureIsCollected ==
  ASSUME IInv, NEW w \in Workers, CollectedOK(w), pc[w] # "idle",
         NEW how \in Results \ {"tree"}, Finish(w, how), UNCHANGED <<call, chains>>
  PROVE  CollectedOK(w)'
<1>1. pc'[w] = "idle" /\ result'[w] = how /\ stack'[w] = <<>> /\ UNCHANGED <<subject, stop_at>>
  BY DEF Finish, Goto, IInv, TypeOK, call
<1>2. BranchAnswers(w)' /\ FramesAnswer(w)'
  BY <1>1 DEF BranchAnswers, FramesAnswer, HasStatement
<1>3. \A p \in chains'[w] : p \in chains[w]
  OBVIOUS
<1>4. ~(pc'[w] # "idle" \/ result'[w] = "tree")
  BY <1>1
<1>. QED
  BY <1>1, <1>2, <1>3, <1>4, CollectedNext

\* _get_entity_statement: the cache only has statements of those that answer.
LEMMA CacheReadIsCollected ==
  ASSUME IInv, PublishersOnly, NEW w \in Workers, CollectedOK(w),
         ReadStatement(w) \/ CheckTime(w) \/ DeleteStatement(w) \/ DeleteTime(w)
  PROVE  CollectedOK(w)'
<1>1. pc \in [Workers -> Labels] /\ statement_cache \in [Pairs -> Nat]
  BY DEF IInv, TypeOK
<1>2. CASE ReadStatement(w)
  <2>1. Key(w) \in Pairs /\ pc[w] = "read_statement" /\ stack[w] # <<>>
    BY <1>2, InBranch DEF ReadStatement, FetchingConfig
  <2>2. statement_cache[Key(w)] # NoEntry => authority[w] \in Publishers
    <3>1. Key(w)[1] = authority[w]
      BY DEF Key
    <3>. QED
      BY <2>1, <3>1 DEF PublishersOnly
  <2>3. PICK label \in {"find_endpoint", "check_time"} :
          Goto(w, label) /\ (label = "check_time" => authority[w] \in Publishers)
    BY <1>2, <2>2 DEF ReadStatement
  <2>4. HasStatement(w)' => label = "check_time"
    BY <1>1, <2>3 DEF HasStatement, Goto
  <2>. QED
    BY <1>1, <1>2, <2>1, <2>3, <2>4, BranchGoesOn DEF ReadStatement
<1>3. CASE CheckTime(w)
  <2>1. pc[w] = "check_time" /\ authority[w] \in Publishers /\ UNCHANGED <<call, authority, chains>>
    BY <1>3 DEF CheckTime, CollectedOK, BranchAnswers, HasStatement
  <2>2. CASE Finish(w, "no_time_key")
    BY <2>1, <2>2, FailureIsCollected DEF Results
  <2>3. CASE \E label \in {"delete_statement", "read_config"} :
               Goto(w, label) /\ UNCHANGED <<stack, result>>
    BY <1>1, <2>1, <2>3, BranchGoesOn
  <2>. QED
    BY <1>3, <2>2, <2>3 DEF CheckTime
<1>4. CASE DeleteStatement(w)
  <2>1. pc[w] = "delete_statement" /\ authority[w] \in Publishers /\ UNCHANGED <<call, authority, chains>>
    BY <1>4 DEF DeleteStatement, CollectedOK, BranchAnswers, HasStatement
  <2>2. CASE Finish(w, "missing_key")
    BY <2>1, <2>2, FailureIsCollected DEF Results
  <2>3. CASE Goto(w, "delete_time") /\ UNCHANGED <<stack, result>>
    BY <1>1, <2>1, <2>3, BranchGoesOn
  <2>. QED
    BY <1>4, <2>2, <2>3 DEF DeleteStatement
<1>5. CASE DeleteTime(w)
  <2>1. pc[w] = "delete_time" /\ UNCHANGED <<call, authority, chains>>
    BY <1>5 DEF DeleteTime
  <2>2. CASE Finish(w, "missing_key")
    BY <2>1, <2>2, FailureIsCollected DEF Results
  <2>3. CASE Goto(w, "find_endpoint") /\ UNCHANGED <<stack, result>>
    <3>1. ~HasStatement(w)'
      BY <1>1, <2>3 DEF Goto, HasStatement
    <3>. QED
      BY <1>1, <2>1, <2>3, <3>1, BranchGoesOn
  <2>. QED
    BY <1>5, <2>2, <2>3 DEF DeleteTime
<1>. QED
  BY <1>2, <1>3, <1>4, <1>5

\* Fetching a statement, from an authority that has an endpoint for it.
LEMMA FetchIsCollected ==
  ASSUME IInv, NEW w \in Workers, CollectedOK(w),
         FindEndpoint(w) \/ FetchStatement(w) \/ StoreTime(w) \/ ReadConfig(w) \/ Evict(w) \/ TryTenant(w)
           \/ EmptyLeafPage(w) \/ FetchFails(w)
  PROVE  CollectedOK(w)'
<1>1. pc \in [Workers -> Labels]
  BY DEF IInv, TypeOK
<1>2. CASE FindEndpoint(w)
  <2>1. pc[w] = "find_endpoint" /\ UNCHANGED <<call, authority, chains>>
    BY <1>2 DEF FindEndpoint
  <2>2. CASE Finish(w, "bad_metadata")
    BY <2>1, <2>2, FailureIsCollected DEF Results
  <2>3. CASE \E label \in {"fetch_statement", "evict_then_fetch", "fetch_config"} :
               /\ Goto(w, label) /\ UNCHANGED <<stack, result>>
               /\ label = "fetch_statement" => authority[w] \in Publishers
    <3>1. PICK label \in {"fetch_statement", "evict_then_fetch", "fetch_config"} :
               /\ Goto(w, label) /\ UNCHANGED <<stack, result>>
               /\ label = "fetch_statement" => authority[w] \in Publishers
      BY <2>3
    <3>2. ~HasStatement(w)'
      BY <1>1, <3>1 DEF Goto, HasStatement
    <3>. QED
      BY <1>1, <2>1, <3>1, <3>2, BranchGoesOn
  <2>. QED
    BY <1>2, <2>2, <2>3 DEF FindEndpoint
<1>3. CASE FetchStatement(w) \/ StoreTime(w)
  <2>1. /\ pc[w] \in {"fetch_statement", "store_time"} /\ authority[w] \in Publishers
        /\ UNCHANGED <<call, authority, chains>>
    BY <1>3 DEF FetchStatement, StoreTime, CollectedOK, BranchAnswers, HasStatement
  <2>2. CASE \E label \in {"store_time", "read_config"} :
               Goto(w, label) /\ UNCHANGED <<stack, result>>
    BY <1>1, <2>1, <2>2, BranchGoesOn
  <2>3. CASE Finish(w, "missing_key")
    BY <2>1, <2>3, FailureIsCollected DEF Results
  <2>. QED
    BY <1>3, <2>2, <2>3 DEF FetchStatement, StoreTime
<1>4. CASE ReadConfig(w)
  <2>1. pc[w] = "read_config" /\ authority[w] \in Publishers /\ UNCHANGED <<call, authority, chains>>
    BY <1>4 DEF ReadConfig, CollectedOK, BranchAnswers, HasStatement
  <2>2. CASE Finish(w, "no_configuration")
    BY <2>1, <2>2, FailureIsCollected DEF Results
  <2>3. CASE \E label \in {"collect_tree", "evict_then_tree"} :
               Goto(w, label) /\ UNCHANGED <<stack, result>>
    BY <1>1, <2>1, <2>3, BranchGoesOn
  <2>. QED
    BY <1>4, <2>2, <2>3 DEF ReadConfig
<1>5. CASE Evict(w)
  <2>1. pc[w] \in {"evict_then_fetch", "evict_then_tree"} /\ UNCHANGED <<call, authority, chains>>
    BY <1>5 DEF Evict
  <2>2. CASE \E how \in {"missing_key", "no_configuration"} : Finish(w, how)
    BY <2>1, <2>2, FailureIsCollected DEF Results
  <2>3. CASE Goto(w, "fetch_config") /\ UNCHANGED <<stack, result>>
    <3>1. ~HasStatement(w)'
      BY <1>1, <2>3 DEF Goto, HasStatement
    <3>. QED
      BY <1>1, <2>1, <2>3, <3>1, BranchGoesOn
  <2>. QED
    BY <1>5, <2>2, <2>3 DEF Evict
<1>6. CASE TryTenant(w)
  <2>1. pc[w] = "fetch_config" /\ UNCHANGED <<call, stack, authority, chains, result>>
    BY <1>6 DEF TryTenant
  <2>2. Goto(w, "fetch_config_tenant") /\ ~HasStatement(w)'
    BY <1>1, <1>6 DEF TryTenant, Goto, HasStatement
  <2>. QED
    BY <1>1, <2>1, <2>2, BranchGoesOn
<1>7. CASE EmptyLeafPage(w) \/ FetchFails(w)
  <2>1. pc[w] # "idle" /\ UNCHANGED <<call, chains>>
    BY <1>7 DEF EmptyLeafPage, FetchFails, FetchingConfig
  <2>2. \E how \in {"no_leaf_configuration", "failed_retrieval"} : Finish(w, how)
    BY <1>7 DEF EmptyLeafPage, FetchFails
  <2>. QED
    BY <2>1, <2>2, FailureIsCollected DEF Results
<1>. QED
  BY <1>2, <1>3, <1>4, <1>5, <1>6, <1>7

\* A chain that goes on above the frames goes through a superior that answers.
LEMMA ChainGoesOn ==
  ASSUME IInv, NEW w \in Workers, stack[w] # <<>>, NEW p \in Seq(Entities),
         Promised(p, subject[w], stop_at[w]), Along(w, Len(stack[w]), p), Len(p) > Len(stack[w])
  PROVE  /\ p[Len(stack[w]) + 1] \in Hints[Top(w).entity]
         /\ Collection!Answers(p[Len(stack[w]) + 1], Top(w).entity)
<1>1. Len(stack[w]) \in Nat \ {0} /\ Len(p) \in Nat
  BY PathIsChain, ConstantsAssumption
<1>2. Len(stack[w]) \in 1..(Len(p) - 1) /\ p[Len(stack[w])] = Top(w).entity
  BY <1>1 DEF Along, Top
<1>3. PICK e, s : e = subject[w] /\ s = stop_at[w]
  OBVIOUS
<1>. QED
  BY <1>2, <1>3, PromisedIs

\* The one chain that ends where a superior of the top frame's entity does not answer.
LEMMA SilenceEndsThePath ==
  ASSUME IInv, NEW w \in Workers, stack[w] # <<>>, NEW p \in Seq(Entities), NEW a,
         Promised(p, subject[w], stop_at[w]), ~Collection!Answers(a, Top(w).entity),
         Along(w, Len(stack[w]), p),
         Len(p) = Len(stack[w]) \/ (Len(p) > Len(stack[w]) /\ p[Len(stack[w]) + 1] = a)
  PROVE  p = Path(w)
BY ChainGoesOn, PathIsTheChain

LEMMA FetchConfigIsCollected ==
  ASSUME IInv, NEW w \in Workers, CollectedOK(w), FetchConfig(w)
  PROVE  CollectedOK(w)'
<1>1. /\ pc \in [Workers -> Labels] /\ pc[w] \in FetchingConfig /\ pc[w] \notin {"idle", "loop"}
      /\ UNCHANGED <<call, stack, authority, result>>
  BY DEF IInv, TypeOK, FetchConfig, FetchingConfig
<1>2. CASE stack[w] = <<>> /\ Goto(w, "collect_tree") /\ UNCHANGED chains
  <2>1. ~HasStatement(w)'
    BY <1>1, <1>2 DEF Goto, HasStatement
  <2>. QED
    BY <1>1, <1>2, <2>1, BranchGoesOn
<1>3. CASE stack[w] # <<>> /\ Wanted(w) \in Publishers /\ Goto(w, "fetch_statement") /\ UNCHANGED chains
  <2>1. authority[w] \in Publishers
    BY <1>3 DEF Wanted
  <2>. QED
    BY <1>1, <1>3, <2>1, BranchGoesOn
<1>4. CASE stack[w] # <<>> /\ Wanted(w) \notin Publishers /\ NoBranch(w)
  <2>1. /\ Wanted(w) = authority[w] /\ authority[w] \in Hints[Top(w).entity]
        /\ ~Collection!Answers(authority[w], Top(w).entity)
    BY <1>1, <1>4, BranchIsClimb DEF Collection!Answers
  <2>2. FramesAnswer(w) /\ result[w] = "none"
    BY <1>1 DEF CollectedOK
  <2>3. Promised(Path(w), subject[w], stop_at[w])
    BY <1>4, <2>1, <2>2, PathIsPromised
  <2>4. pc'[w] = "loop" /\ chains'[w] = chains[w] \cup {Path(w)} /\ UNCHANGED <<subject, stop_at>>
    BY <1>1, <1>4 DEF NoBranch, Goto, IInv, TypeOK, call
  <2>5. BranchAnswers(w)' /\ FramesAnswer(w)'
    BY <1>1, <2>2, <2>4 DEF BranchAnswers, HasStatement, FramesAnswer, Collection!Answers
  <2>6. \A p \in chains'[w] : p \in chains[w] \/ Promised(p, subject[w], stop_at[w])
    BY <2>3, <2>4
  <2>7. ASSUME NEW p \in Seq(Entities), Promised(p, subject[w], stop_at[w]), ToCome(w, p)
        PROVE  p \in chains'[w] \/ ToCome(w, p)'
    <3>1. CASE AheadOfBranch(w, p)
      <4>1. p = Path(w)
        BY <1>4, <2>1, <2>7, <3>1, SilenceEndsThePath DEF AheadOfBranch
      <4>. QED
        BY <2>4, <4>1
    <3>2. CASE \E i \in 1..Len(stack[w]) : AheadOfFrame(w, i, p)
      BY <1>1, <3>2 DEF ToCome, AheadOfFrame, Along, Collection!Answers
    <3>. QED
      BY <2>7, <3>1, <3>2 DEF ToCome
  <2>8. \A p \in Seq(Entities) :
          Promised(p, subject[w], stop_at[w]) /\ (p \in chains[w] \/ ToCome(w, p))
            /\ (pc'[w] # "idle" \/ result'[w] = "tree")
          => p \in chains'[w] \/ (pc'[w] # "idle" /\ ToCome(w, p)')
    BY <2>4, <2>7
  <2>9. result'[w] = "none" /\ pc[w] # "idle"
    BY <1>1, <2>2
  <2>. QED
    BY <2>4, <2>5, <2>6, <2>8, <2>9, CollectedNext
<1>. QED
  BY <1>1, <1>2, <1>3, <1>4 DEF FetchConfig

\* What the loop does to the frames: one hint of the top frame less to visit.
LEMMA NextAuthorityIs ==
  ASSUME IInv, NEW w \in Workers, NEW a \in Entities, NextAuthority(w, a)
  PROVE  /\ stack[w] # <<>> /\ stack'[w] # <<>> /\ pc[w] = "loop" /\ a \in Hints[Top(w).entity]
         /\ Len(stack[w]) \in Nat \ {0} /\ Len(stack'[w]) = Len(stack[w])
         /\ \A i \in 1..Len(stack[w]) :
              /\ stack'[w][i].entity = stack[w][i].entity
              /\ stack'[w][i].todo = IF i = Len(stack[w]) THEN stack[w][i].todo \ {a} ELSE stack[w][i].todo
<1>. DEFINE n == Len(stack[w])
            frame == [stack[w][n] EXCEPT !.todo = NotVisited(w, a)]
<1>1. /\ stack[w] # <<>> /\ stack[w] \in Seq(Frames) /\ n \in 1..RecursionLimit /\ pc[w] = "loop"
      /\ Top(w) \in Frames /\ Top(w) = stack[w][n] /\ a \in Top(w).todo
  BY PathIsChain DEF NextAuthority, IInv, ControlOK, TypeOK, FetchingConfig, Top
<1>2. a \in Hints[Top(w).entity]
  BY <1>1 DEF IInv, ClimbOK
<1>3. /\ frame \in Frames /\ frame.entity = stack[w][n].entity
      /\ frame.todo = stack[w][n].todo \ {a}
  BY <1>1, ConstantsAssumption DEF Frames, NotVisited
<1>4. stack'[w] = [stack[w] EXCEPT ![n] = frame]
  BY DEF NextAuthority, IInv, TypeOK
<1>5. /\ stack'[w] \in Seq(Frames) /\ Len(stack'[w]) = n
      /\ \A i \in 1..n : stack'[w][i] = IF i = n THEN frame ELSE stack[w][i]
  BY <1>1, <1>3, <1>4, ExceptSeq
<1>6. n \in Nat \ {0} /\ stack'[w] # <<>>
  BY <1>1, <1>5, ConstantsAssumption
<1>. HIDE DEF frame
<1>. QED
  BY <1>1, <1>2, <1>3, <1>5, <1>6

\* What was ahead of the frames still is, or it is below the hint that was taken.
LEMMA TakenFromFrames ==
  ASSUME IInv, NEW w \in Workers, NEW a \in Entities, NextAuthority(w, a),
         NEW p \in Seq(Entities), ToCome(w, p)
  PROVE  \/ \E i \in 1..Len(stack'[w]) : AheadOfFrame(w, i, p)'
         \/ /\ Along(w, Len(stack[w]), p) /\ Along(w, Len(stack[w]), p)'
            /\ \/ Len(p) = Len(stack[w]) /\ ~Collection!Answers(a, Top(w).entity)
               \/ Len(p) > Len(stack[w]) /\ p[Len(stack[w]) + 1] = a
<1>. DEFINE n == Len(stack[w])
<1>1. /\ pc[w] = "loop" /\ n \in Nat \ {0} /\ Len(stack'[w]) = n
      /\ \A i \in 1..n :
           /\ stack'[w][i].entity = stack[w][i].entity
           /\ stack'[w][i].todo = IF i = n THEN stack[w][i].todo \ {a} ELSE stack[w][i].todo
  BY NextAuthorityIs
<1>2. PICK i \in 1..n : AheadOfFrame(w, i, p)
  BY <1>1 DEF ToCome, AheadOfBranch
<1>3. Along(w, i, p) /\ Along(w, i, p)'
  <2>1. \A j \in 1..i : j \in 1..n
    BY <1>1
  <2>. QED
    BY <1>1, <1>2, <2>1 DEF AheadOfFrame, Along
<1>4. CASE i # n
  <2>1. AheadOfFrame(w, i, p)'
    BY <1>1, <1>2, <1>3, <1>4 DEF AheadOfFrame, Collection!Answers
  <2>. QED
    BY <1>1, <2>1
<1>5. CASE i = n
  <2>1. CASE /\ \/ Len(p) = n /\ ~Collection!Answers(a, Top(w).entity)
                \/ Len(p) > n /\ p[n + 1] = a
    BY <1>1, <1>3, <1>5, <2>1 DEF Along
  <2>2. CASE /\ ~(Len(p) = n /\ ~Collection!Answers(a, Top(w).entity))
             /\ ~(Len(p) > n /\ p[n + 1] = a)
    <3>1. AheadOfFrame(w, n, p)'
      BY <1>1, <1>2, <1>3, <1>5, <2>2 DEF AheadOfFrame, Top, Collection!Answers
    <3>. QED
      BY <1>1, <3>1
  <2>. QED
    BY <2>1, <2>2
<1>. QED
  BY <1>4, <1>5

LEMMA NextAuthorityIsCollected ==
  ASSUME IInv, NEW w \in Workers, CollectedOK(w), NEW a \in Entities, NextAuthority(w, a)
  PROVE  CollectedOK(w)'
<1>. DEFINE n == Len(stack[w])
<1>1. /\ stack[w] # <<>> /\ stack'[w] # <<>> /\ pc[w] = "loop" /\ a \in Hints[Top(w).entity]
      /\ n \in Nat \ {0} /\ Len(stack'[w]) = n
      /\ \A i \in 1..n : stack'[w][i].entity = stack[w][i].entity
  BY NextAuthorityIs
<1>2. /\ FramesAnswer(w) /\ result[w] = "none" /\ result'[w] = "none"
      /\ UNCHANGED <<subject, stop_at>>
  BY <1>1 DEF CollectedOK, NextAuthority, call
<1>3. Top(w)'.entity = Top(w).entity
  BY <1>1 DEF Top
<1>4. FramesAnswer(w)'
  <2>1. ASSUME NEW i \in 1..(n - 1)
        PROVE  Collection!Answers(stack'[w][i + 1].entity, stack'[w][i].entity)
    <3>1. i \in 1..n /\ i + 1 \in 1..n
      BY <1>1
    <3>. QED
      BY <1>1, <1>2, <3>1 DEF FramesAnswer
  <2>. QED
    BY <1>1, <2>1 DEF FramesAnswer, Collection!Answers
<1>5. CASE a = Top(w).entity /\ a \in TrustAnchors
  <2>1. ~Collection!Answers(a, Top(w).entity)
    BY <1>5 DEF Collection!Answers
  <2>2. Promised(Path(w), subject[w], stop_at[w])
    BY <1>1, <1>2, <2>1, PathIsPromised
  <2>3. pc'[w] = "loop" /\ chains'[w] = chains[w] \cup {Path(w)}
    BY <1>5 DEF NextAuthority, NoBranch, Goto, IInv, TypeOK
  <2>4. BranchAnswers(w)'
    BY <2>3 DEF BranchAnswers, HasStatement
  <2>5. ASSUME NEW p \in Seq(Entities), Promised(p, subject[w], stop_at[w]), ToCome(w, p)
        PROVE  p \in chains'[w] \/ ToCome(w, p)'
    <3>1. CASE \E i \in 1..Len(stack'[w]) : AheadOfFrame(w, i, p)'
      BY <3>1 DEF ToCome
    <3>2. CASE /\ Along(w, n, p)
               /\ \/ Len(p) = n
                  \/ Len(p) > n /\ p[n + 1] = a
      <4>1. p = Path(w)
        BY <1>1, <2>1, <2>5, <3>2, SilenceEndsThePath
      <4>. QED
        BY <2>3, <4>1
    <3>. QED
      BY <2>5, <3>1, <3>2, TakenFromFrames
  <2>6. \A p \in Seq(Entities) :
          Promised(p, subject[w], stop_at[w]) /\ (p \in chains[w] \/ ToCome(w, p))
            /\ (pc'[w] # "idle" \/ result'[w] = "tree")
          => p \in chains'[w] \/ (pc'[w] # "idle" /\ ToCome(w, p)')
    BY <2>3, <2>5
  <2>7. \A p \in chains'[w] : p \in chains[w] \/ Promised(p, subject[w], stop_at[w])
    BY <2>2, <2>3
  <2>8. pc[w] # "idle"
    BY <1>1
  <2>. QED
    BY <1>2, <1>4, <2>4, <2>6, <2>7, <2>8, CollectedNext
<1>6. CASE ~(a = Top(w).entity /\ a \in TrustAnchors)
  <2>1. pc'[w] = "read_statement" /\ chains'[w] = chains[w] /\ authority'[w] = a
    BY <1>6 DEF NextAuthority, Goto, IInv, TypeOK
  <2>2. Wanted(w)' = a
    BY <1>1, <2>1 DEF Wanted
  <2>3. BranchAnswers(w)'
    BY <1>3, <1>6, <2>1 DEF BranchAnswers, HasStatement
  <2>4. ASSUME NEW p \in Seq(Entities), ToCome(w, p)
        PROVE  ToCome(w, p)'
    <3>1. CASE \E i \in 1..Len(stack'[w]) : AheadOfFrame(w, i, p)'
      BY <3>1 DEF ToCome
    <3>2. CASE /\ Along(w, n, p)'
               /\ \/ Len(p) = n /\ ~Collection!Answers(a, Top(w).entity)
                  \/ Len(p) > n /\ p[n + 1] = a
      <4>1. AheadOfBranch(w, p)'
        BY <1>1, <1>3, <2>1, <2>2, <3>2 DEF AheadOfBranch, Collection!Answers
      <4>. QED
        BY <4>1 DEF ToCome
    <3>. QED
      BY <2>4, <3>1, <3>2, TakenFromFrames
  <2>5. \A p \in Seq(Entities) :
          Promised(p, subject[w], stop_at[w]) /\ (p \in chains[w] \/ ToCome(w, p))
            /\ (pc'[w] # "idle" \/ result'[w] = "tree")
          => p \in chains'[w] \/ (pc'[w] # "idle" /\ ToCome(w, p)')
    BY <2>1, <2>4
  <2>6. pc[w] # "idle" /\ \A p \in chains'[w] : p \in chains[w]
    BY <1>1, <2>1
  <2>. QED
    BY <1>2, <1>4, <2>3, <2>5, <2>6, CollectedNext
<1>. QED
  BY <1>5, <1>6

\* When the loop of a frame is over, nothing is ahead of it any more.
LEMMA ReturnTreeIsCollected ==
  ASSUME IInv, NEW w \in Workers, CollectedOK(w), ReturnTree(w)
  PROVE  CollectedOK(w)'
<1>. DEFINE n == Len(stack[w])
<1>1. /\ stack[w] # <<>> /\ pc[w] = "loop" /\ stack[w] \in Seq(Frames) /\ n \in Nat \ {0}
      /\ stack[w][n].todo = {} /\ pc[w] # "idle"
  <2>1. stack[w] # <<>> /\ pc[w] = "loop" /\ stack[w] \in Seq(Frames)
    BY DEF ReturnTree, IInv, ControlOK, TypeOK, FetchingConfig
  <2>. QED
    BY <2>1, PathIsChain, ConstantsAssumption DEF ReturnTree, Top
<1>2. /\ FramesAnswer(w) /\ result[w] = "none" /\ chains'[w] = chains[w]
      /\ UNCHANGED <<subject, stop_at>>
  BY <1>1 DEF CollectedOK, ReturnTree, call
<1>3. \A p \in chains'[w] : p \in chains[w]
  BY <1>2
<1>4. ASSUME NEW p \in Seq(Entities), ToCome(w, p)
      PROVE  \E i \in 1..(n - 1) : AheadOfFrame(w, i, p)
  <2>1. PICK i \in 1..n : AheadOfFrame(w, i, p)
    BY <1>1, <1>4 DEF ToCome, AheadOfBranch
  <2>2. i # n
    BY <1>1, <2>1 DEF AheadOfFrame
  <2>. QED
    BY <1>1, <2>1, <2>2
<1>5. CASE n = 1
  <2>1. pc'[w] = "idle" /\ stack'[w] = <<>> /\ result'[w] = "tree"
    BY <1>5 DEF ReturnTree, Finish, Goto, IInv, TypeOK
  <2>2. BranchAnswers(w)' /\ FramesAnswer(w)'
    BY <2>1 DEF BranchAnswers, FramesAnswer, HasStatement
  <2>3. \A p \in Seq(Entities) : ~ToCome(w, p)
    BY <1>4, <1>5
  <2>4. \A p \in Seq(Entities) :
          Promised(p, subject[w], stop_at[w]) /\ (p \in chains[w] \/ ToCome(w, p))
            /\ (pc'[w] # "idle" \/ result'[w] = "tree")
          => p \in chains'[w] \/ (pc'[w] # "idle" /\ ToCome(w, p)')
    BY <1>2, <2>3
  <2>. QED
    BY <1>1, <1>2, <1>3, <2>1, <2>2, <2>4, CollectedNext
<1>6. CASE n # 1
  <2>1. stack'[w] = SubSeq(stack[w], 1, n - 1) /\ pc'[w] = "loop" /\ result'[w] = "none"
    BY <1>1, <1>2, <1>6 DEF ReturnTree, IInv, TypeOK
  <2>2. n - 1 \in Nat /\ \A i \in 1..(n - 1) : stack[w][i] \in Frames
    BY <1>1, <1>6
  <2>3. Len(stack'[w]) = n - 1 /\ \A i \in 1..(n - 1) : stack'[w][i] = stack[w][i]
    BY <1>1, <2>1, <2>2
  <2>4. BranchAnswers(w)'
    BY <2>1 DEF BranchAnswers, HasStatement
  <2>5. FramesAnswer(w)'
    <3>1. ASSUME NEW i \in 1..((n - 1) - 1)
          PROVE  Collection!Answers(stack'[w][i + 1].entity, stack'[w][i].entity)
      <4>1. i \in 1..(n - 1) /\ i + 1 \in 1..(n - 1)
        BY <2>2
      <4>. QED
        BY <1>2, <2>3, <4>1 DEF FramesAnswer
    <3>. QED
      BY <2>3, <3>1 DEF FramesAnswer, Collection!Answers
  <2>6. ASSUME NEW p \in Seq(Entities), ToCome(w, p)
        PROVE  ToCome(w, p)'
    <3>1. PICK i \in 1..(n - 1) : AheadOfFrame(w, i, p)
      BY <1>4, <2>6
    <3>2. \A j \in 1..i : j \in 1..(n - 1)
      BY <2>2
    <3>3. AheadOfFrame(w, i, p)'
      BY <2>3, <3>1, <3>2 DEF AheadOfFrame, Along, Collection!Answers
    <3>. QED
      BY <2>3, <3>3 DEF ToCome
  <2>7. \A p \in Seq(Entities) :
          Promised(p, subject[w], stop_at[w]) /\ (p \in chains[w] \/ ToCome(w, p))
            /\ (pc'[w] # "idle" \/ result'[w] = "tree")
          => p \in chains'[w] \/ (pc'[w] # "idle" /\ ToCome(w, p)')
    BY <1>2, <2>1, <2>6
  <2>. QED
    BY <1>1, <1>2, <1>3, <2>1, <2>4, <2>5, <2>7, CollectedNext
<1>. QED
  BY <1>5, <1>6

\* At collect_tree the chains ahead of the branch go through its entity.
LEMMA BranchIsOnTheChain ==
  ASSUME IInv, NEW w \in Workers, CollectedOK(w), pc[w] = "collect_tree", NEW p \in Seq(Entities),
         Promised(p, subject[w], stop_at[w]), AheadOfBranch(w, p)
  PROVE  /\ Along(w, Len(stack[w]), p) /\ Len(p) > Len(stack[w]) /\ p[Len(stack[w]) + 1] = Wanted(w)
         /\ Len(stack[w]) \in Nat /\ Len(p) \in Nat
<1>1. Len(stack[w]) \in Nat /\ Len(p) \in Nat \ {0}
  <2>1. PICK e, s : e = subject[w] /\ s = stop_at[w]
    OBVIOUS
  <2>. QED
    BY <2>1, PromisedIs DEF IInv, TypeOK
<1>2. CASE stack[w] = <<>>
  BY <1>1, <1>2 DEF AheadOfBranch
<1>3. CASE stack[w] # <<>>
  <2>1. Collection!Answers(authority[w], Top(w).entity)
    BY <1>3 DEF CollectedOK, BranchAnswers, HasStatement, Collection!Answers
  <2>. QED
    BY <1>1, <2>1 DEF AheadOfBranch
<1>. QED
  BY <1>2, <1>3

\* Where the climb is at its end, a chain through the branch goes no further.
LEMMA ChainEndsHere ==
  ASSUME NEW p, NEW e, NEW s, NEW n \in Nat, Promised(p, e, s), n < Len(p),
         Hints[p[n + 1]] = {} \/ p[n + 1] = s
  PROVE  Len(p) = n + 1 /\ n # 0
<1>1. /\ Len(p) \in Nat \ {0}
      /\ \A i \in 1..(Len(p) - 1) : p[i] # s /\ p[i + 1] \in Hints[p[i]]
      /\ \/ Len(p) > 1 /\ (p[Len(p)] = s \/ Hints[p[Len(p)]] = {})
         \/ p[Len(p)] # s /\ \E a \in Hints[p[Len(p)]] : ~Collection!Answers(a, p[Len(p)])
  BY PromisedIs
<1>2. Len(p) = n + 1
  <2>1. SUFFICES ASSUME n + 1 < Len(p)
                 PROVE  FALSE
    BY <1>1
  <2>2. n + 1 \in 1..(Len(p) - 1)
    BY <1>1, <2>1
  <2>. QED
    BY <1>1, <2>2
<1>. QED
  BY <1>1, <1>2

\* A new frame: what was ahead of the branch is ahead of the frame.
LEMMA PushIsCollected ==
  ASSUME IInv, NEW w \in Workers, CollectedOK(w), pc[w] = "collect_tree", ~AtEnd(w, Wanted(w)),
         stack' = [stack EXCEPT ![w] = Append(@, [entity |-> Wanted(w), todo |-> Hints[Wanted(w)]])],
         Goto(w, "loop"), UNCHANGED <<call, chains, result>>
  PROVE  CollectedOK(w)'
<1>. DEFINE n == Len(stack[w])
            e == Wanted(w)
            frame == [entity |-> e, todo |-> Hints[e]]
<1>1. pc'[w] = "loop" /\ stack'[w] = Append(stack[w], frame) /\ stack[w] \in Seq(Frames) /\ n \in Nat
  BY DEF Goto, IInv, TypeOK
<1>2. Len(stack'[w]) = n + 1 /\ stack'[w][n + 1] = frame /\ \A i \in 1..n : stack'[w][i] = stack[w][i]
  BY <1>1
<1>3. /\ FramesAnswer(w) /\ result'[w] = "none" /\ chains'[w] = chains[w] /\ pc[w] # "idle"
      /\ UNCHANGED <<subject, stop_at>>
  BY DEF CollectedOK, call
<1>4. frame.entity = e /\ frame.todo = Hints[e]
  OBVIOUS
<1>. HIDE DEF frame, e
<1>5. FramesAnswer(w)'
  <2>1. ASSUME NEW i \in 1..n
        PROVE  Collection!Answers(stack'[w][i + 1].entity, stack'[w][i].entity)
    <3>1. CASE i = n
      <4>1. n # 0 /\ stack[w] # <<>>
        BY <1>1, <2>1, <3>1
      <4>2. Collection!Answers(authority[w], Top(w).entity)
        BY <4>1 DEF CollectedOK, BranchAnswers, HasStatement, Collection!Answers
      <4>3. stack'[w][i].entity = Top(w).entity /\ stack'[w][i + 1].entity = authority[w]
        BY <1>1, <1>2, <1>4, <3>1, <4>1 DEF Top, e, Wanted
      <4>. QED
        BY <4>2, <4>3
    <3>2. CASE i # n
      <4>1. i \in 1..(n - 1) /\ i + 1 \in 1..n
        BY <1>1, <3>2
      <4>. QED
        BY <1>2, <1>3, <4>1 DEF FramesAnswer
    <3>. QED
      BY <3>1, <3>2
  <2>2. \A i \in 1..(Len(stack'[w]) - 1) : i \in 1..n
    BY <1>1, <1>2
  <2>. QED
    BY <2>1, <2>2 DEF FramesAnswer, Collection!Answers
<1>6. BranchAnswers(w)'
  BY <1>1 DEF BranchAnswers, HasStatement
<1>7. ASSUME NEW p \in Seq(Entities), Promised(p, subject[w], stop_at[w]), ToCome(w, p)
      PROVE  ToCome(w, p)'
  <2>1. CASE AheadOfBranch(w, p)
    <3>0. PICK m \in 1..(n + 1) : m = n + 1
      BY <1>1
    <3>1. Along(w, n, p) /\ Len(p) > n /\ p[n + 1] = e /\ Len(p) \in Nat
      BY <1>7, <2>1, BranchIsOnTheChain DEF e
    <3>2. Len(p) >= n + 1 /\ \A j \in 1..(n + 1) : p[j] = stack'[w][j].entity
      BY <1>1, <1>2, <1>4, <3>1 DEF Along
    <3>3. PICK f, s : f = subject[w] /\ s = stop_at[w]
      OBVIOUS
    <3>4. e # s /\ Hints[e] # {}
      BY <3>3 DEF AtEnd, e
    <3>5. CASE Len(p) = n + 1
      <4>1. \E a \in Hints[e] : ~Collection!Answers(a, e)
        <5>1. p[Len(p)] = e
          BY <3>1, <3>5
        <5>. QED
          BY <1>7, <3>3, <3>4, <5>1, PromisedIs
      <4>2. AheadOfFrame(w, m, p)'
        BY <1>1, <1>2, <1>4, <3>0, <3>2, <3>5, <4>1 DEF AheadOfFrame, Along, Collection!Answers
      <4>. QED
        BY <1>2, <3>0, <4>2 DEF ToCome
    <3>6. CASE Len(p) > n + 1
      <4>1. p[(n + 1) + 1] \in Hints[e]
        <5>1. n + 1 \in 1..(Len(p) - 1)
          BY <1>1, <3>1, <3>6
        <5>. QED
          BY <1>7, <3>1, <3>3, <5>1, PromisedIs
      <4>2. AheadOfFrame(w, m, p)'
        BY <1>1, <1>2, <1>4, <3>0, <3>2, <3>6, <4>1 DEF AheadOfFrame, Along
      <4>. QED
        BY <1>2, <3>0, <4>2 DEF ToCome
    <3>. QED
      BY <1>1, <3>1, <3>5, <3>6
  <2>2. ASSUME NEW i \in 1..n, AheadOfFrame(w, i, p)
        PROVE  ToCome(w, p)'
    <3>1. i \in 1..(n + 1) /\ \A j \in 1..i : j \in 1..n
      BY <1>1
    <3>2. AheadOfFrame(w, i, p)'
      BY <1>2, <2>2, <3>1 DEF AheadOfFrame, Along, Collection!Answers
    <3>. QED
      BY <1>2, <3>1, <3>2 DEF ToCome
  <2>. QED
    BY <1>7, <2>1, <2>2 DEF ToCome
<1>8. \A p \in Seq(Entities) :
        Promised(p, subject[w], stop_at[w]) /\ (p \in chains[w] \/ ToCome(w, p))
          /\ (pc'[w] # "idle" \/ result'[w] = "tree")
        => p \in chains'[w] \/ (pc'[w] # "idle" /\ ToCome(w, p)')
  BY <1>1, <1>3, <1>7
<1>9. \A p \in chains'[w] : p \in chains[w]
  BY <1>3
<1>. QED
  BY <1>3, <1>5, <1>6, <1>8, <1>9, CollectedNext

LEMMA EnterTreeIsCollected ==
  ASSUME IInv, NEW w \in Workers, CollectedOK(w), EnterTree(w)
  PROVE  CollectedOK(w)'
<1>. DEFINE n == Len(stack[w])
<1>1. /\ pc[w] = "collect_tree" /\ pc[w] # "idle" /\ UNCHANGED <<call, subject, stop_at, authority>>
      /\ FramesAnswer(w) /\ BranchAnswers(w) /\ result[w] = "none"
  BY DEF EnterTree, call, CollectedOK
<1>2. CASE Finish(w, "recursion") /\ UNCHANGED chains
  BY <1>1, <1>2, FailureIsCollected DEF Results
<1>3. CASE /\ ~AtEnd(w, Wanted(w))
           /\ stack' = [stack EXCEPT ![w] = Append(@, [entity |-> Wanted(w), todo |-> Hints[Wanted(w)]])]
           /\ Goto(w, "loop") /\ UNCHANGED <<chains, result>>
  BY <1>1, <1>3, PushIsCollected
<1>4. CASE /\ AtEnd(w, Wanted(w)) /\ stack[w] # <<>>
           /\ chains' = [chains EXCEPT ![w] = @ \cup {Append(Path(w), Wanted(w))}]
           /\ Goto(w, "loop") /\ UNCHANGED <<stack, result>>
  <2>1. /\ pc'[w] = "loop" /\ chains'[w] = chains[w] \cup {Append(Path(w), Wanted(w))}
        /\ result'[w] = "none"
    BY <1>1, <1>4 DEF Goto, IInv, TypeOK
  <2>2. BranchAnswers(w)' /\ FramesAnswer(w)'
    BY <1>1, <1>4, <2>1 DEF BranchAnswers, HasStatement, FramesAnswer, Collection!Answers
  <2>3. Promised(Append(Path(w), Wanted(w)), subject[w], stop_at[w])
    BY <1>1, <1>4, LongerPathIsPromised
  <2>4. \A p \in chains'[w] : p \in chains[w] \/ Promised(p, subject[w], stop_at[w])
    BY <2>1, <2>3
  <2>5. ASSUME NEW p \in Seq(Entities), Promised(p, subject[w], stop_at[w]), ToCome(w, p)
        PROVE  p \in chains'[w] \/ ToCome(w, p)'
    <3>1. CASE AheadOfBranch(w, p)
      <4>1. Along(w, n, p) /\ n < Len(p) /\ p[n + 1] = Wanted(w) /\ n \in Nat
        BY <1>1, <2>5, <3>1, BranchIsOnTheChain
      <4>2. PICK e, s : e = subject[w] /\ s = stop_at[w]
        OBVIOUS
      <4>3. Hints[p[n + 1]] = {} \/ p[n + 1] = s
        BY <1>4, <4>1, <4>2 DEF AtEnd
      <4>4. Len(p) = n + 1
        BY <2>5, <4>1, <4>2, <4>3, ChainEndsHere
      <4>5. Wanted(w) = authority[w] /\ pc[w] \notin {"idle", "loop"}
        BY <1>1, <1>4 DEF Wanted
      <4>6. p = Append(Path(w), Wanted(w))
        BY <1>4, <4>1, <4>4, <4>5, LongerPathIsTheChain
      <4>. QED
        BY <2>1, <4>6
    <3>2. CASE \E i \in 1..Len(stack[w]) : AheadOfFrame(w, i, p)
      BY <1>4, <3>2 DEF ToCome, AheadOfFrame, Along, Collection!Answers
    <3>. QED
      BY <2>5, <3>1, <3>2 DEF ToCome
  <2>6. \A p \in Seq(Entities) :
          Promised(p, subject[w], stop_at[w]) /\ (p \in chains[w] \/ ToCome(w, p))
            /\ (pc'[w] # "idle" \/ result'[w] = "tree")
          => p \in chains'[w] \/ (pc'[w] # "idle" /\ ToCome(w, p)')
    BY <2>1, <2>5
  <2>. QED
    BY <1>1, <2>1, <2>2, <2>4, <2>6, CollectedNext
<1>5. CASE AtEnd(w, Wanted(w)) /\ stack[w] = <<>> /\ Finish(w, "tree") /\ UNCHANGED chains
  <2>1. pc'[w] = "idle" /\ stack'[w] = <<>> /\ result'[w] = "tree" /\ chains'[w] = chains[w]
    BY <1>5 DEF Finish, Goto, IInv, TypeOK
  <2>2. BranchAnswers(w)' /\ FramesAnswer(w)'
    BY <2>1 DEF BranchAnswers, FramesAnswer, HasStatement
  <2>3. ASSUME NEW p \in Seq(Entities), Promised(p, subject[w], stop_at[w])
        PROVE  ~ToCome(w, p)
    <3>1. n = 0
      BY <1>5
    <3>2. SUFFICES ASSUME AheadOfBranch(w, p)
                   PROVE  FALSE
      BY <3>1 DEF ToCome
    <3>3. n < Len(p) /\ p[n + 1] = Wanted(w) /\ n \in Nat
      BY <1>1, <2>3, <3>2, BranchIsOnTheChain
    <3>4. PICK e, s : e = subject[w] /\ s = stop_at[w]
      OBVIOUS
    <3>5. Hints[p[n + 1]] = {} \/ p[n + 1] = s
      BY <1>5, <3>3, <3>4 DEF AtEnd
    <3>. QED
      BY <2>3, <3>1, <3>3, <3>4, <3>5, ChainEndsHere
  <2>4. \A p \in Seq(Entities) :
          Promised(p, subject[w], stop_at[w]) /\ (p \in chains[w] \/ ToCome(w, p))
            /\ (pc'[w] # "idle" \/ result'[w] = "tree")
          => p \in chains'[w] \/ (pc'[w] # "idle" /\ ToCome(w, p)')
    BY <2>1, <2>3
  <2>5. \A p \in chains'[w] : p \in chains[w]
    BY <2>1
  <2>. QED
    BY <1>1, <2>1, <2>2, <2>4, <2>5, CollectedNext
<1>. QED
  BY <1>1, <1>2, <1>3, <1>4, <1>5 DEF EnterTree

\* A call begins with all its chains ahead of it.
LEMMA CallIsCollected ==
  ASSUME IInv, NEW w \in Workers, NEW f \in Subjects, NEW t \in StopAts,
         Call(w, f, t) \/ CallWithConfiguration(w, f, t)
  PROVE  CollectedOK(w)'
<1>1. /\ pc[w] = "idle" /\ Begin(w, f, t) /\ UNCHANGED <<stack, authority>>
      /\ \E label \in {"collect_tree", "fetch_config"} : Goto(w, label)
  BY DEF Call, CallWithConfiguration
<1>2. stack[w] = <<>> /\ stack'[w] = <<>> /\ Len(stack'[w]) = 0
  BY <1>1 DEF IInv, ControlOK
<1>3. /\ pc'[w] \in {"collect_tree", "fetch_config"} /\ subject'[w] = f /\ stop_at'[w] = t
      /\ chains'[w] = {} /\ result'[w] = "none"
  BY <1>1 DEF Begin, Goto, IInv, TypeOK
<1>4. BranchAnswers(w)' /\ FramesAnswer(w)'
  BY <1>2, <1>3 DEF BranchAnswers, FramesAnswer, HasStatement
<1>5. NoneInvented(w)'
  BY <1>3, InventedNext
<1>6. ASSUME NEW p \in Seq(Entities), Promised(p, f, t)
      PROVE  ToCome(w, p)'
  <2>1. Len(p) \in Nat \ {0} /\ p[1] = f
    BY <1>6, PromisedIs
  <2>2. Wanted(w)' = f
    BY <1>2, <1>3 DEF Wanted
  <2>3. AheadOfBranch(w, p)'
    BY <1>2, <1>3, <2>1, <2>2 DEF AheadOfBranch, Along
  <2>. QED
    BY <2>3 DEF ToCome
<1>7. NoneForgotten(w)'
  BY <1>3, <1>6, ForgottenNext
<1>. QED
  BY <1>3, <1>4, <1>5, <1>7 DEF CollectedOK

-----------------------------------------------------------------------------
(* Every step keeps the invariant, and is a step of ChainCollection or     *)
(* none.                                                                   *)

OthersRest(w) ==
  \A v \in Workers \ {w} :
    /\ pc'[v] = pc[v] /\ stack'[v] = stack[v] /\ authority'[v] = authority[v]
    /\ chains'[v] = chains[v] /\ result'[v] = result[v]

LEMMA StepRestsOthers ==
  ASSUME IInv, NEW w \in Workers, Step(w)
  PROVE  OthersRest(w) /\ UNCHANGED call
<1>1. /\ pc \in [Workers -> Labels] /\ stack \in [Workers -> Seq(Frames)]
      /\ authority \in [Workers -> Entities \cup {NoEntity}]
      /\ chains \in [Workers -> SUBSET Seq(Entities)] /\ result \in [Workers -> Results]
  BY DEF IInv, TypeOK
<1>2. CASE FetchConfig(w) \/ TryTenant(w) \/ EmptyLeafPage(w) \/ FetchFails(w)
  BY <1>1, <1>2 DEF OthersRest, FetchConfig, TryTenant, EmptyLeafPage, FetchFails, Goto, Finish, NoBranch
<1>3. CASE EnterTree(w) \/ ReturnTree(w)
  BY <1>1, <1>3 DEF OthersRest, EnterTree, ReturnTree, Goto, Finish
<1>4. ASSUME NEW a \in Entities, NextAuthority(w, a)
      PROVE  OthersRest(w) /\ UNCHANGED call
  BY <1>1, <1>4 DEF OthersRest, NextAuthority, Goto, NoBranch
<1>5. CASE ReadStatement(w) \/ CheckTime(w) \/ DeleteStatement(w) \/ DeleteTime(w)
  BY <1>1, <1>5 DEF OthersRest, ReadStatement, CheckTime, DeleteStatement, DeleteTime, Goto, Finish
<1>6. CASE FindEndpoint(w) \/ FetchStatement(w) \/ StoreTime(w) \/ ReadConfig(w) \/ Evict(w)
  BY <1>1, <1>6 DEF OthersRest, FindEndpoint, FetchStatement, StoreTime, ReadConfig, Evict, Goto, Finish
<1>. QED
  BY <1>2, <1>3, <1>4, <1>5, <1>6 DEF Step

LEMMA StepAsksPublishers ==
  ASSUME IInv, PublishersOnly, NEW w \in Workers, CollectedOK(w), Step(w)
  PROVE  PublishersOnly'
<1>1. CASE UNCHANGED statement_cache
  BY <1>1 DEF PublishersOnly
<1>2. CASE DeleteStatement(w)
  BY <1>2 DEF DeleteStatement, PublishersOnly, NoEntry, IInv, TypeOK
<1>3. CASE FetchStatement(w)
  <2>1. authority[w] \in Publishers
    BY <1>3 DEF FetchStatement, CollectedOK, BranchAnswers
  <2>2. \E exp : statement_cache' = [statement_cache EXCEPT ![Key(w)] = exp]
    BY <1>3 DEF FetchStatement
  <2>3. Key(w)[1] = authority[w]
    BY DEF Key
  <2>. QED
    BY <2>1, <2>2, <2>3 DEF PublishersOnly, IInv, TypeOK
<1>4. DeleteStatement(w) \/ FetchStatement(w) \/ UNCHANGED statement_cache
  BY DEF Step, FetchConfig, TryTenant, EmptyLeafPage, FetchFails, EnterTree, ReturnTree,
    NextAuthority, ReadStatement, CheckTime, DeleteTime, FindEndpoint, StoreTime, ReadConfig,
    Evict, caches
<1>. QED
  BY <1>1, <1>2, <1>3, <1>4

LEMMA StepIsCollected ==
  ASSUME CollectorInv, NEW w \in Workers, Step(w)
  PROVE  CollectorInv'
<1>1. /\ IInv /\ PublishersOnly /\ CollectedOK(w) /\ IInv' /\ PublishersOnly'
      /\ OthersRest(w) /\ UNCHANGED <<subject, stop_at>>
  <2>1. IInv /\ PublishersOnly /\ CollectedOK(w)
    BY DEF CollectorInv
  <2>2. Next
    BY DEF Next
  <2>. QED
    BY <2>1, <2>2, NextIInv, StepAsksPublishers, StepRestsOthers DEF call
<1>2. CollectedOK(w)'
  BY <1>1, FetchConfigIsCollected, FetchIsCollected, CacheReadIsCollected, EnterTreeIsCollected,
     ReturnTreeIsCollected, NextAuthorityIsCollected DEF Step
<1>3. ASSUME NEW v \in Workers, v # w
      PROVE  CollectedOK(v)'
  <2>1. CollectedOK(v)
    BY DEF CollectorInv
  <2>. QED
    BY <1>1, <1>3, <2>1, CollectedStays DEF OthersRest
<1>. QED
  BY <1>1, <1>2, <1>3 DEF CollectorInv

LEMMA CallIsCollectedForAll ==
  ASSUME CollectorInv, NEW w \in Workers, NEW e \in Subjects, NEW s \in StopAts,
         Call(w, e, s) \/ CallWithConfiguration(w, e, s)
  PROVE  CollectorInv'
<1>1. IInv /\ IInv' /\ PublishersOnly'
  <2>1. Next /\ UNCHANGED statement_cache
    BY DEF Next, Call, CallWithConfiguration, caches
  <2>. QED
    BY <2>1, NextIInv DEF CollectorInv, PublishersOnly
<1>2. ASSUME NEW v \in Workers, v # w
      PROVE  CollectedOK(v)'
  <2>1. CollectedOK(v)
    BY DEF CollectorInv
  <2>2. /\ pc'[v] = pc[v] /\ stack'[v] = stack[v] /\ authority'[v] = authority[v]
        /\ chains'[v] = chains[v] /\ result'[v] = result[v]
        /\ subject'[v] = subject[v] /\ stop_at'[v] = stop_at[v]
    BY <1>1, <1>2 DEF Call, CallWithConfiguration, Begin, Goto, IInv, TypeOK
  <2>. QED
    BY <2>1, <2>2, CollectedStays
<1>3. CollectedOK(w)'
  BY <1>1, CallIsCollected
<1>. QED
  BY <1>1, <1>2, <1>3 DEF CollectorInv

\* Nothing but the clock, or a configuration, changes.
LEMMA RestIsCollected ==
  ASSUME CollectorInv, IInv',
         UNCHANGED <<pc, subject, stop_at, stack, authority, chains, result, statement_cache>>
  PROVE  CollectorInv'
<1>1. ASSUME NEW v \in Workers
      PROVE  CollectedOK(v)'
  BY CollectedStays DEF CollectorInv
<1>. QED
  BY <1>1 DEF CollectorInv, PublishersOnly

LEMMA InitIsCollected == Init => CollectorInv /\ Collection!Init
<1>. SUFFICES ASSUME Init PROVE CollectorInv /\ Collection!Init
  OBVIOUS
<1>1. \A w \in Workers : CollectedOK(w)
  BY DEF Init, CollectedOK, BranchAnswers, FramesAnswer, HasStatement, NoneInvented
<1>2. PublishersOnly
  BY DEF Init, PublishersOnly
<1>3. Collection!Init
  BY DEF Init, Collection!Init
<1>. QED
  BY <1>1, <1>2, <1>3, InitIInv DEF CollectorInv

Simulates == [Collection!Next]_(Collection!vars)

LEMMA RestIsAStutter ==
  ASSUME UNCHANGED <<pc, subject, stop_at, chains, result>>
  PROVE  Simulates
BY DEF Simulates, Collection!vars

LEMMA CallAsks ==
  ASSUME CollectorInv, NEW w \in Workers, NEW e \in Subjects, NEW s \in StopAts,
         Call(w, e, s) \/ CallWithConfiguration(w, e, s)
  PROVE  Simulates
<1>1. /\ pc[w] = "idle" /\ e \in Entities /\ s \in Entities \cup {NoEntity}
      /\ subject' = [subject EXCEPT ![w] = e] /\ stop_at' = [stop_at EXCEPT ![w] = s]
      /\ pc'[w] # "idle" /\ result'[w] = "none"
      /\ \A v \in Workers \ {w} : pc'[v] = pc[v] /\ chains'[v] = chains[v] /\ result'[v] = result[v]
  BY ConstantsAssumption DEF Call, CallWithConfiguration, Begin, Goto, CollectorInv, IInv, TypeOK
<1>2. {v \in Workers : pc'[v] # "idle"} = {v \in Workers : pc[v] # "idle"} \cup {w}
  BY <1>1
<1>3. [v \in Workers |-> IF result'[v] = "tree" THEN chains'[v] ELSE {}]
        = [[v \in Workers |-> IF result[v] = "tree" THEN chains[v] ELSE {}] EXCEPT ![w] = {}]
  BY <1>1
<1>4. Collection!Ask(w, e, s)
  BY <1>1, <1>2, <1>3 DEF Collection!Ask
<1>. QED
  BY <1>1, <1>4 DEF Simulates, Collection!Next

LEMMA StepSimulates ==
  ASSUME CollectorInv, CollectorInv', NEW w \in Workers, Step(w)
  PROVE  Simulates
<1>1. /\ pc[w] # "idle" /\ result[w] = "none" /\ UNCHANGED <<subject, stop_at>>
      /\ \A v \in Workers \ {w} : pc'[v] = pc[v] /\ chains'[v] = chains[v] /\ result'[v] = result[v]
      /\ IInv /\ CollectedOK(w)'
      /\ subject[w] \in Entities /\ stop_at[w] \in Entities \cup {NoEntity}
  <2>1. IInv /\ CollectedOK(w) /\ CollectedOK(w)'
    BY DEF CollectorInv
  <2>2. pc[w] # "idle" /\ OthersRest(w) /\ UNCHANGED call
    BY <2>1, StepIsInACall, StepRestsOthers
  <2>. QED
    BY <2>1, <2>2 DEF CollectedOK, OthersRest, call, IInv, ControlOK, TypeOK
<1>2. CASE pc'[w] # "idle"
  <2>1. result'[w] = "none"
    BY <1>1, <1>2 DEF CollectedOK
  <2>2. {v \in Workers : pc'[v] # "idle"} = {v \in Workers : pc[v] # "idle"}
    BY <1>1, <1>2
  <2>3. [v \in Workers |-> IF result'[v] = "tree" THEN chains'[v] ELSE {}]
          = [v \in Workers |-> IF result[v] = "tree" THEN chains[v] ELSE {}]
    BY <1>1, <2>1
  <2>. QED
    BY <1>1, <2>2, <2>3 DEF Simulates, Collection!vars
<1>3. CASE pc'[w] = "idle"
  <2>1. {v \in Workers : pc'[v] # "idle"} = {v \in Workers : pc[v] # "idle"} \ {w}
    BY <1>1, <1>3
  <2>2. CASE result'[w] # "tree"
    <3>1. [v \in Workers |-> IF result'[v] = "tree" THEN chains'[v] ELSE {}]
            = [v \in Workers |-> IF result[v] = "tree" THEN chains[v] ELSE {}]
      BY <1>1, <2>2
    <3>2. Collection!Fail(w)
      BY <1>1, <2>1, <3>1 DEF Collection!Fail
    <3>. QED
      BY <3>2 DEF Simulates, Collection!Next
  <2>3. CASE result'[w] = "tree"
    <3>1. PICK e \in Entities, s \in Entities \cup {NoEntity} :
            e = subject[w] /\ s = stop_at[w] /\ e = subject'[w] /\ s = stop_at'[w]
      BY <1>1
    <3>2. NoneInvented(w)' /\ NoneForgotten(w)'
      BY <1>1, <2>3 DEF CollectedOK
    <3>3. \A p \in chains'[w] : Promised(p, e, s)
      BY <3>1, <3>2 DEF NoneInvented, Promised, Collection!IsChain, Collection!Answers
    <3>4. \A p \in Seq(Entities) : Promised(p, e, s) => p \in chains'[w]
      BY <1>3, <3>1, <3>2 DEF NoneForgotten, Promised, Collection!IsChain, Collection!Answers
    <3>5. \A p : p \in chains'[w] <=> p \in Collection!ChainsOf[e][s]
      <4>1. \A p : Promised(p, e, s) => p \in Seq(Entities)
        BY DEF Promised
      <4>. QED
        BY <3>3, <3>4, <4>1, ChainsArePromised
    <3>6. chains'[w] = Collection!ChainsOf[subject[w]][stop_at[w]]
      BY <3>1, <3>5
    <3>7. [v \in Workers |-> IF result'[v] = "tree" THEN chains'[v] ELSE {}]
            = [[v \in Workers |-> IF result[v] = "tree" THEN chains[v] ELSE {}]
                 EXCEPT ![w] = Collection!ChainsOf[subject[w]][stop_at[w]]]
      BY <1>1, <2>3, <3>6
    <3>8. Collection!Answer(w)
      BY <1>1, <2>1, <3>7 DEF Collection!Answer
    <3>. QED
      BY <3>8 DEF Simulates, Collection!Next
  <2>. QED
    BY <2>2, <2>3
<1>. QED
  BY <1>2, <1>3

LEMMA CollectorNext ==
  ASSUME CollectorInv, [Next]_vars
  PROVE  CollectorInv' /\ Simulates
<1>1. CASE Tick \/ UNCHANGED vars
  <2>1. UNCHANGED <<pc, subject, stop_at, stack, authority, chains, result, statement_cache>>
    BY <1>1 DEF Tick, vars, caches, call
  <2>2. IInv'
    BY NextIInv DEF CollectorInv
  <2>. QED
    BY <2>1, <2>2, RestIsCollected, RestIsAStutter
<1>2. ASSUME NEW w \in Workers, NEW e \in Subjects, NEW s \in StopAts,
             Call(w, e, s) \/ CallWithConfiguration(w, e, s)
      PROVE  CollectorInv' /\ Simulates
  BY <1>2, CallIsCollectedForAll, CallAsks
<1>3. ASSUME NEW w \in Workers, Step(w)
      PROVE  CollectorInv' /\ Simulates
  BY <1>3, StepIsCollected, StepSimulates
<1>. QED
  BY <1>1, <1>2, <1>3 DEF Next

\* In every federation, for any number of threads and whatever is evicted under their hands, a
\* call of the collector that returns a tree returns exactly the chains of its own subject up
\* to its own stop_at, and one that does not fails: TrustChainCollector implements
\* ChainCollection.
THEOREM CollectorImplementsCollection == Spec => ImplementsChainCollection
<1>1. CollectorInv /\ [Next]_vars => CollectorInv' /\ [Collection!Next]_(Collection!vars)
  BY CollectorNext DEF Simulates
<1>. QED
  BY <1>1, InitIsCollected, PTL DEF Spec, ImplementsChainCollection, Collection!Spec

\* So it does when the resolver calls it: between calls the resolver only takes a
\* configuration from the cache that is too old.
LEMMA ResolverNextIsCollected ==
  ASSUME CollectorInv, [ResolverNext]_resolver_vars
  PROVE  CollectorInv' /\ Simulates
<1>1. CASE [Next]_vars
  BY <1>1, CollectorNext
<1>2. ASSUME NEW w \in Workers, EvictConfiguration(w)
      PROVE  CollectorInv' /\ Simulates
  <2>1. IInv' /\ UNCHANGED <<pc, subject, stop_at, stack, chains, authority, result, statement_cache>>
    BY <1>2, EvictionIsSafe DEF CollectorInv
  <2>. QED
    BY <2>1, RestIsCollected, RestIsAStutter
<1>3. [Next]_vars \/ \E w \in Workers : EvictConfiguration(w)
  BY DEF ResolverNext, ResolverStep, Resolve, Pick, Refuse, LookUpConfiguration, LookUpStatement,
    Answer, resolver_vars, Next
<1>. QED
  BY <1>1, <1>2, <1>3

\* The collector keeps what ChainCollection promises under the resolve endpoint, whose requests
\* mix with those of the other handlers.
THEOREM ResolverImplementsCollection == ResolverSpec => ImplementsChainCollection
<1>1. CollectorInv /\ [ResolverNext]_resolver_vars
        => CollectorInv' /\ [Collection!Next]_(Collection!vars)
  BY ResolverNextIsCollected DEF Simulates
<1>2. ResolverInit => CollectorInv /\ Collection!Init
  BY InitIsCollected DEF ResolverInit
<1>. QED
  BY <1>1, <1>2, PTL DEF ResolverSpec, ImplementsChainCollection, Collection!Spec
=============================================================================
