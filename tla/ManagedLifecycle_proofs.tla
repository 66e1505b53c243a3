------------------------ MODULE ManagedLifecycle_proofs ------------------------
(* Proofs about ManagedLifecycle.  First the types, and who waits for whom.    *)
(* Then the records: who may write them, in what order, and what they name.     *)
(* Last the artifacts: what each of them holds at each stage of a build and of  *)
(* a removal, and that nothing else makes a build fail.                         *)
EXTENDS ManagedLifecycle, FiniteSetTheorems, TLAPS

\* Inv but for the bound on faults, which is a matter of Next's disjuncts.
Good ==
  /\ RecordsOK /\ ArtifactsOK /\ LocksOK /\ ServerOK /\ LocalsOK
  /\ \A p \in Procs : ControlOK(p)
  /\ ServerExcluded

\* The states that follow a stage: another stage, or READY.
LEMMA FollowingType ==
  ASSUME NEW s \in Stages
  PROVE  Following(s) \in Stages \cup {"READY"}
<1>1. \E i \in 1..6 : Lifecycle[i] = s
  BY DEF Stages, CtxStates, Lifecycle
<1>2. PICK i \in 1..6 : i = (CHOOSE j \in 1..6 : Lifecycle[j] = s)
  BY <1>1
<1>3. Lifecycle[i + 1] \in Stages \cup {"READY"}
  BY DEF Stages, CtxStates, Lifecycle
<1>4. QED
  BY <1>2, <1>3 DEF Following

\* The states by name.
LEMMA StateNames ==
  /\ CtxStates = {"CREATING", "RESOLVING", "PREPARING_SOURCE", "INDEXING_SEARCH",
                  "INDEXING_GRAPH", "VERIFYING", "READY", "FAILED", "REMOVING"}
  /\ Stages = {"CREATING", "RESOLVING", "PREPARING_SOURCE", "INDEXING_SEARCH",
               "INDEXING_GRAPH", "VERIFYING"}
<1>1. {Lifecycle[i] : i \in 1..7} =
        {"CREATING", "RESOLVING", "PREPARING_SOURCE", "INDEXING_SEARCH",
         "INDEXING_GRAPH", "VERIFYING", "READY"}
  BY DEF Lifecycle
<1>2. QED
  BY <1>1 DEF CtxStates, Stages

\* A cell of a table, and a row of it, replaced by one of the same type.
LEMMA CellType ==
  ASSUME NEW T, NEW f \in [Repos -> [Ctxs -> T]], NEW r \in Repos, NEW c, NEW v \in T
  PROVE  [f EXCEPT ![r][c] = v] \in [Repos -> [Ctxs -> T]]
OBVIOUS

LEMMA RowType ==
  ASSUME NEW T, NEW f \in [Repos -> [Ctxs -> T]], NEW r \in Repos, NEW v \in [Ctxs -> T]
  PROVE  [f EXCEPT ![r] = v] \in [Repos -> [Ctxs -> T]]
OBVIOUS

\* A record written with a state and members of their types.
LEMMA PutContextType ==
  ASSUME RecordsOK, NEW c \in Ctxs, NEW m \in MemberSets,
         NEW s \in CtxStates \cup {"ABSENT"}, PutContext(c, m, s)
  PROVE  RecordsOK'
BY DEF RecordsOK, PutContext

LEMMA PutRepositoryType ==
  ASSUME RecordsOK, NEW r \in Repos, NEW s \in RepoStates, PutRepository(r, s)
  PROVE  RecordsOK'
BY DEF RecordsOK, PutRepository

\* What a process that is building or removing has in hand.
LEMMA InHand ==
  ASSUME Good, NEW p \in Procs
  PROVE  /\ mine[p] \in MemberSets
         /\ \A r \in Repos : mine[p][r] \in Revs \cup {None}
         /\ repositoriesOf(mine[p]) \subseteq Repos
         /\ st[p] \in CtxStates \cup {"ABSENT"}
         /\ tgt[p] \subseteq Repos
         /\ seen[p] \in [Ctxs -> Revs \cup {None}]
         /\ ControlOK(p)
         /\ op[p] \in {"create", "retry", "remove"} => id[p] \in Ctxs
<1>1. LocalsOK /\ ControlOK(p)
  BY DEF Good
<1>2. mine[p] \in MemberSets
  BY <1>1 DEF LocalsOK
<1>3. /\ \A r \in Repos : mine[p][r] \in Revs \cup {None}
      /\ repositoriesOf(mine[p]) \subseteq Repos
  BY <1>2 DEF MemberSets, repositoriesOf
<1>4. /\ st[p] \in CtxStates \cup {"ABSENT"} /\ tgt[p] \subseteq Repos
      /\ seen[p] \in [Ctxs -> Revs \cup {None}]
  BY <1>1 DEF LocalsOK
<1>5. op[p] \in {"create", "retry", "remove"} => id[p] \in Ctxs
  BY <1>1 DEF ControlOK
<1>6. QED
  BY <1>1, <1>2, <1>3, <1>4, <1>5

\* A step of p that leaves the others where they are is a matter of p alone.
LEMMA OthersControl ==
  ASSUME NEW p \in Procs, \A q \in Procs : ControlOK(q), ControlOK(p)',
         \A q \in Procs \ {p} :
           pc'[q] = pc[q] /\ op'[q] = op[q] /\ id'[q] = id[q] /\ st'[q] = st[q]
  PROVE  \A q \in Procs : ControlOK(q)'
<1>1. ASSUME NEW q \in Procs \ {p} PROVE ControlOK(q)'
  <2>1. ControlOK(q) /\ pc'[q] = pc[q] /\ op'[q] = op[q] /\ id'[q] = id[q] /\ st'[q] = st[q]
    OBVIOUS
  <2>2. QED
    BY <2>1 DEF ControlOK
<1>2. QED
  BY <1>1

LEMMA FinishGood ==
  ASSUME NEW p \in Procs, Good, Finish(p), UNCHANGED server
  PROVE  LocksOK' /\ LocalsOK' /\ (\A q \in Procs : ControlOK(q)') /\ ServerExcluded'
<1> USE DEF Good, Finish
<1>1. LocksOK'
  BY DEF LocksOK
<1>2. LocalsOK'
  BY DEF LocalsOK, NoMembers, NoCtxs, MemberSets, Labels, Ops, CtxStates
<1>3. \A q \in Procs : ControlOK(q)'
  BY DEF LocalsOK, ControlOK
<1>4. ServerExcluded'
  BY DEF ServerExcluded, LocalsOK
<1>5. QED
  BY <1>1, <1>2, <1>3, <1>4

LEMMA CreateCheckGood ==
  ASSUME NEW p \in Procs, Good, CreateCheck(p) PROVE Good'
<1>1. RecordsOK' /\ ArtifactsOK' /\ ServerOK'
  BY DEF CreateCheck, Good, RecordsOK, ArtifactsOK, ServerOK, records, artifacts,
    serverVars, MemberSets, Arts
<1>2. CASE Finish(p)
  BY <1>1, <1>2, FinishGood DEF CreateCheck, serverVars, Good
<1>3. CASE ~ Finish(p)
  <2>1. /\ UNCHANGED <<lock, mgmt, op, id, tgt, st, todo, listed, seen, server>>
        /\ Goto(p, "put")
        /\ op[p] = "create"
    BY <1>3 DEF CreateCheck, locks, serverVars
  <2>2. mine' \in [Procs -> MemberSets]
    <3>1. PICK rev \in [tgt[p] -> Revs] :
            mine' = [mine EXCEPT ![p] = [r \in Repos |-> IF r \in tgt[p] THEN rev[r] ELSE None]]
      BY <1>3 DEF CreateCheck
    <3>2. [r \in Repos |-> IF r \in tgt[p] THEN rev[r] ELSE None] \in MemberSets
      BY DEF MemberSets
    <3>3. QED BY <3>1, <3>2 DEF Good, LocalsOK
  <2>3. LocksOK' /\ LocalsOK'
    BY <2>1, <2>2 DEF Good, LocksOK, LocalsOK, Goto, Labels, MemberSets, CtxStates
  <2>4. \A q \in Procs : ControlOK(q)'
    BY <2>1 DEF Good, LocalsOK, Goto, ControlOK
  <2>5. ServerExcluded'
    BY <2>1 DEF Good, ServerExcluded
  <2>6. QED BY <1>1, <2>3, <2>4, <2>5 DEF Good
<1>4. QED
  BY <1>2, <1>3

LEMMA CreatePutGood ==
  ASSUME NEW p \in Procs, Good, CreatePut(p)
  PROVE  Good'
<1>1. RecordsOK'
  BY InHand, StateNames, PutContextType DEF CreatePut, Good, RecordsOK, ControlOK
<1>2. ArtifactsOK'
  BY DEF CreatePut, Good, ArtifactsOK, artifacts
<1>3. ServerOK'
  BY DEF CreatePut, Good, ServerOK, serverVars
<1>4. LocksOK'
  BY DEF CreatePut, Good, LocksOK, LocalsOK, locks, Goto
<1>5. LocalsOK'
  BY StateNames DEF CreatePut, Good, LocalsOK, locks, Goto, Labels
<1>6. \A q \in Procs : ControlOK(q)'
  BY StateNames DEF CreatePut, Good, LocalsOK, locks, Goto, ControlOK
<1>7. ServerExcluded'
  BY DEF CreatePut, Good, LocalsOK, locks, serverVars, ServerExcluded
<1>8. QED
  BY <1>1, <1>2, <1>3, <1>4, <1>5, <1>6, <1>7 DEF Good

LEMMA AdvanceGood ==
  ASSUME NEW p \in Procs, Good, Advance(p)
  PROVE  Good'
<1>1. RecordsOK'
  BY InHand, StateNames, FollowingType, PutContextType DEF Advance, Good, RecordsOK,
    ControlOK
<1>2. ArtifactsOK'
  BY DEF Advance, Good, ArtifactsOK, artifacts
<1>3. ServerOK'
  BY DEF Advance, Good, ServerOK, serverVars
<1>4. CASE Finish(p)
  BY <1>1, <1>2, <1>3, <1>4, FinishGood DEF Advance, Good, serverVars
<1>5. CASE ~Finish(p)
  <2>1. LocksOK'
    BY <1>5 DEF Advance, Good, LocksOK, LocalsOK, locks, Goto
  <2>2. LocalsOK'
    <3>1. pc' \in [Procs -> Labels]
      BY <1>5 DEF Advance, Good, LocalsOK, Goto, Labels
    <3>2. st' \in [Procs -> CtxStates \cup {"ABSENT"}]
      <4>1. st[p] \in Stages
        BY InHand DEF Advance, ControlOK
      <4>2. Following(st[p]) \in CtxStates
        BY <4>1, FollowingType, StateNames
      <4>3. st' = [st EXCEPT ![p] = Following(st[p])]
        BY <1>5 DEF Advance
      <4>4. QED
        BY <4>2, <4>3 DEF Good, LocalsOK
    <3>3. todo' \in [Procs -> SUBSET Repos]
      BY <1>5, InHand DEF Advance, Good, LocalsOK
    <3>4. QED
      BY <1>5, <3>1, <3>2, <3>3 DEF Advance, Good, LocalsOK
  <2>3. \A q \in Procs : ControlOK(q)'
    <3>1. \A q \in Procs \ {p} :
           pc'[q] = pc[q] /\ op'[q] = op[q] /\ id'[q] = id[q] /\ st'[q] = st[q]
      BY <1>5 DEF Advance, Good, LocalsOK, locks, Goto
    <3>2. ControlOK(p)'
      <4>1. /\ pc[p] = "advance" /\ pc'[p] \in {"advance", "stage"}
            /\ op'[p] = op[p] /\ id'[p] = id[p]
            /\ st'[p] = Following(st[p]) /\ Following(st[p]) # "READY"
        BY <1>5 DEF Advance, Good, LocalsOK, Goto
      <4>2. ControlOK(p)
        BY InHand
      <4>3. QED
        BY <4>1, <4>2, FollowingType DEF ControlOK
    <3>3. QED
      BY <3>1, <3>2, OthersControl DEF Good
  <2>4. ServerExcluded'
    BY <1>5 DEF Advance, Good, LocalsOK, locks, serverVars, ServerExcluded
  <2>5. QED
    BY <1>1, <1>2, <1>3, <2>1, <2>2, <2>3, <2>4 DEF Good
<1>6. QED
  BY <1>4, <1>5

LEMMA prepareSourceGood ==
  ASSUME NEW p \in Procs, NEW r \in Repos, Good, prepareSource(p,r)
  PROVE  Good'
<1>1. RecordsOK'
  BY DEF prepareSource, AtStage, Good, RecordsOK, records
<1>2. ArtifactsOK'
  <2>1. [wt EXCEPT ![r][id[p]] = mine[p][r]] \in [Repos -> [Ctxs -> Arts \cup {"stale"}]]
    <3>1. mine[p][r] \in Arts \cup {"stale"} /\ wt \in [Repos -> [Ctxs -> Arts \cup {"stale"}]]
      BY InHand DEF Good, ArtifactsOK, Arts
    <3>2. QED
      BY <3>1
  <2>2. QED
    BY <2>1 DEF prepareSource, Good, ArtifactsOK
<1>3. ServerOK'
  BY DEF prepareSource, AtStage, Good, ServerOK, serverVars
<1>4. LocksOK'
  BY DEF prepareSource, AtStage, Good, LocksOK, LocalsOK, locks, Goto
<1>5. LocalsOK'
  <2>1. pc' \in [Procs -> Labels]
    BY DEF prepareSource, Done, Good, LocalsOK, Goto, Labels
  <2>2. todo' \in [Procs -> SUBSET Repos]
    <3>1. todo' = todo \/ todo' = [todo EXCEPT ![p] = @ \ {r}]
      BY DEF prepareSource, Done
    <3>2. QED
      BY <3>1 DEF Good, LocalsOK
  <2>3. QED
    BY <2>1, <2>2 DEF prepareSource, Done, Good, LocalsOK
<1>6. \A q \in Procs : ControlOK(q)'
  <2>1. \A q \in Procs \ {p} :
         pc'[q] = pc[q] /\ op'[q] = op[q] /\ id'[q] = id[q] /\ st'[q] = st[q]
    BY DEF prepareSource, AtStage, Good, LocalsOK, locks, Goto, Done
  <2>2. ControlOK(p)'
    BY InHand, StateNames DEF prepareSource, AtStage, Good, LocalsOK, locks, Goto,
      ControlOK, Done
  <2>3. QED
    BY <2>1, <2>2, OthersControl DEF Good
<1>7. ServerExcluded'
  BY DEF prepareSource, AtStage, Good, LocalsOK, locks, serverVars, ServerExcluded
<1>8. QED
  BY <1>1, <1>2, <1>3, <1>4, <1>5, <1>6, <1>7 DEF Good

LEMMA prepareSourceFailsGood ==
  ASSUME NEW p \in Procs, NEW r \in Repos, Good, prepareSourceFails(p,r)
  PROVE  Good'
<1>1. RecordsOK'
  BY DEF prepareSourceFails, AtStage, Good, RecordsOK, records
<1>2. ArtifactsOK'
  <2>1. [wt EXCEPT ![r][id[p]] = "partial"] \in [Repos -> [Ctxs -> Arts \cup {"stale"}]]
    BY CellType DEF Good, ArtifactsOK, Arts
  <2>2. QED
    BY <2>1 DEF prepareSourceFails, Good, ArtifactsOK
<1>3. ServerOK'
  BY DEF prepareSourceFails, AtStage, Good, ServerOK, serverVars
<1>4. LocksOK'
  BY DEF prepareSourceFails, AtStage, Good, LocksOK, LocalsOK, locks, locals, Goto
<1>5. LocalsOK'
  BY DEF prepareSourceFails, AtStage, Good, LocalsOK, locks, locals, Goto, Labels
<1>6. \A q \in Procs : ControlOK(q)'
  BY DEF prepareSourceFails, AtStage, Good, LocalsOK, locks, locals, Goto, ControlOK
<1>7. ServerExcluded'
  BY DEF prepareSourceFails, AtStage, Good, LocalsOK, locks, locals, serverVars,
    ServerExcluded
<1>8. QED
  BY <1>1, <1>2, <1>3, <1>4, <1>5, <1>6, <1>7 DEF Good

LEMMA indexGraphGood ==
  ASSUME NEW p \in Procs, NEW r \in Repos, Good, indexGraph(p,r)
  PROVE  Good'
<1>1. RecordsOK'
  BY DEF indexGraph, AtStage, Good, RecordsOK, records
<1>2. ArtifactsOK'
  <2>1. CASE wt[r][id[p]] \in Revs
    <3>1. [graph EXCEPT ![r][id[p]] = wt[r][id[p]]] \in [Repos -> [Ctxs -> Arts]]
      BY <2>1, CellType DEF Good, ArtifactsOK, Arts
    <3>2. QED
      BY <2>1, <3>1 DEF indexGraph, Good, ArtifactsOK
  <2>2. CASE wt[r][id[p]] \notin Revs
    BY <2>2 DEF indexGraph, Good, ArtifactsOK
  <2>3. QED
    BY <2>1, <2>2
<1>3. ServerOK'
  BY DEF indexGraph, AtStage, Good, ServerOK, serverVars
<1>4. LocksOK'
  BY DEF indexGraph, AtStage, Good, LocksOK, LocalsOK, locks, Goto
<1>5. LocalsOK'
  BY DEF indexGraph, AtStage, Good, LocalsOK, locks, Goto, Labels, Done
<1>6. \A q \in Procs : ControlOK(q)'
  <2>1. /\ \A q \in Procs \ {p} :
            pc'[q] = pc[q] /\ op'[q] = op[q] /\ id'[q] = id[q] /\ st'[q] = st[q]
       /\ pc[p] = "stage" /\ pc'[p] \in {"stage", "advance", "fail"}
       /\ op'[p] = op[p] /\ id'[p] = id[p]
       /\ st'[p] = st[p]
    BY DEF indexGraph, AtStage, Done, Good, LocalsOK, Goto
  <2>2. ControlOK(p)'
    BY <2>1, InHand DEF ControlOK
  <2>3. QED
    BY <2>1, <2>2, OthersControl DEF Good
<1>7. ServerExcluded'
  BY DEF indexGraph, AtStage, Good, LocalsOK, locks, serverVars, ServerExcluded
<1>8. QED
  BY <1>1, <1>2, <1>3, <1>4, <1>5, <1>6, <1>7 DEF Good

LEMMA indexGraphFailsGood ==
  ASSUME NEW p \in Procs, NEW r \in Repos, Good, indexGraphFails(p,r)
  PROVE  Good'
<1>1. RecordsOK'
  BY DEF indexGraphFails, AtStage, Good, RecordsOK, records
<1>2. ArtifactsOK'
  <2>1. [graph EXCEPT ![r][id[p]] = "partial"] \in [Repos -> [Ctxs -> Arts]]
    BY CellType DEF Good, ArtifactsOK, Arts
  <2>2. QED
    BY <2>1 DEF indexGraphFails, Good, ArtifactsOK
<1>3. ServerOK'
  BY DEF indexGraphFails, AtStage, Good, ServerOK, serverVars
<1>4. LocksOK'
  BY DEF indexGraphFails, AtStage, Good, LocksOK, LocalsOK, locks, locals, Goto
<1>5. LocalsOK'
  BY DEF indexGraphFails, AtStage, Good, LocalsOK, locks, locals, Goto, Labels
<1>6. \A q \in Procs : ControlOK(q)'
  BY DEF indexGraphFails, AtStage, Good, LocalsOK, locks, locals, Goto, ControlOK
<1>7. ServerExcluded'
  BY DEF indexGraphFails, AtStage, Good, LocalsOK, locks, locals, serverVars, ServerExcluded
<1>8. QED
  BY <1>1, <1>2, <1>3, <1>4, <1>5, <1>6, <1>7 DEF Good

LEMMA verifyContextGood ==
  ASSUME NEW p \in Procs, Good, verifyContext(p)
  PROVE  Good'
<1>1. RecordsOK'
  BY DEF verifyContext, AtStage, Good, RecordsOK, records
<1>2. ArtifactsOK'
  BY DEF verifyContext, AtStage, Good, ArtifactsOK, artifacts
<1>3. ServerOK'
  BY DEF verifyContext, AtStage, Good, ServerOK, serverVars
<1>4. LocksOK'
  BY DEF verifyContext, AtStage, Good, LocksOK, LocalsOK, locks, locals, Goto
<1>5. LocalsOK'
  BY DEF verifyContext, AtStage, Good, LocalsOK, locks, locals, Goto, Labels
<1>6. \A q \in Procs : ControlOK(q)'
  BY DEF verifyContext, AtStage, Good, LocalsOK, locks, locals, Goto, ControlOK
<1>7. ServerExcluded'
  BY DEF verifyContext, AtStage, Good, LocalsOK, locks, locals, serverVars, ServerExcluded
<1>8. QED
  BY <1>1, <1>2, <1>3, <1>4, <1>5, <1>6, <1>7 DEF Good

LEMMA verifyContextFailsGood ==
  ASSUME NEW p \in Procs, Good, verifyContextFails(p)
  PROVE  Good'
<1>1. RecordsOK'
  BY DEF verifyContextFails, AtStage, Good, RecordsOK, records
<1>2. ArtifactsOK'
  BY DEF verifyContextFails, AtStage, Good, ArtifactsOK, artifacts
<1>3. ServerOK'
  BY DEF verifyContextFails, AtStage, Good, ServerOK, serverVars
<1>4. LocksOK'
  BY DEF verifyContextFails, AtStage, Good, LocksOK, LocalsOK, locks, locals, Goto
<1>5. LocalsOK'
  BY DEF verifyContextFails, AtStage, Good, LocalsOK, locks, locals, Goto, Labels
<1>6. \A q \in Procs : ControlOK(q)'
  BY DEF verifyContextFails, AtStage, Good, LocalsOK, locks, locals, Goto, ControlOK
<1>7. ServerExcluded'
  BY DEF verifyContextFails, AtStage, Good, LocalsOK, locks, locals, serverVars,
    ServerExcluded
<1>8. QED
  BY <1>1, <1>2, <1>3, <1>4, <1>5, <1>6, <1>7 DEF Good

LEMMA failGood ==
  ASSUME NEW p \in Procs, Good, fail(p)
  PROVE  Good'
<1>1. RecordsOK'
  BY InHand, StateNames, PutContextType DEF fail, Good, RecordsOK, ControlOK
<1>2. ArtifactsOK'
  BY DEF fail, Good, ArtifactsOK, artifacts
<1>3. ServerOK'
  BY DEF fail, Good, ServerOK, serverVars
<1>4. CASE Finish(p)
  BY <1>1, <1>2, <1>3, <1>4, FinishGood DEF fail, Good, serverVars
<1>5. CASE ~Finish(p)
  <2>1. LocksOK'
    BY <1>5 DEF fail, Good, LocksOK, LocalsOK
  <2>2. LocalsOK'
    BY <1>5 DEF fail, Good, LocalsOK, Labels
  <2>3. \A q \in Procs : ControlOK(q)'
    BY <1>5 DEF fail, Good, LocalsOK, ControlOK
  <2>4. ServerExcluded'
    BY <1>5 DEF fail, Good, LocalsOK, serverVars, ServerExcluded
  <2>5. QED
    BY <1>1, <1>2, <1>3, <2>1, <2>2, <2>3, <2>4 DEF Good
<1>6. QED
  BY <1>4, <1>5

LEMMA IndexListGood ==
  ASSUME NEW p \in Procs, NEW r \in Repos, Good, IndexList(p,r)
  PROVE  Good'
<1>1. RecordsOK'
  BY DEF IndexList, Indexing, AtStage, Good, RecordsOK, records
<1>2. ArtifactsOK'
  BY DEF IndexList, Indexing, AtStage, Good, ArtifactsOK, artifacts
<1>3. ServerOK'
  BY DEF IndexList, Indexing, AtStage, Good, ServerOK, serverVars
<1>4. LocksOK'
  BY DEF IndexList, Indexing, AtStage, Good, LocksOK, LocalsOK, locks, Goto
<1>5. LocalsOK'
  BY DEF IndexList, Indexing, AtStage, Good, LocalsOK, locks, Goto, Labels
<1>6. \A q \in Procs : ControlOK(q)'
  BY DEF IndexList, Indexing, AtStage, Good, LocalsOK, locks, Goto, ControlOK
<1>7. ServerExcluded'
  BY DEF IndexList, Indexing, AtStage, Good, LocalsOK, locks, serverVars, ServerExcluded
<1>8. QED
  BY <1>1, <1>2, <1>3, <1>4, <1>5, <1>6, <1>7 DEF Good

LEMMA IndexReadGood ==
  ASSUME NEW p \in Procs, NEW r \in Repos, Good, IndexRead(p,r)
  PROVE  Good'
<1>1. RecordsOK'
  BY DEF IndexRead, IndexError, Good, RecordsOK, records
<1>2. ArtifactsOK'
  BY DEF IndexRead, IndexError, Good, ArtifactsOK, artifacts
<1>3. ServerOK'
  BY DEF IndexRead, IndexError, Good, ServerOK, serverVars
<1>4. CASE Finish(p)
  BY <1>1, <1>2, <1>3, <1>4, FinishGood DEF IndexRead, Good, serverVars
<1>5. CASE ~Finish(p)
  <2>1. LocksOK'
    BY <1>5 DEF IndexRead, IndexError, Good, LocksOK, LocalsOK, locks, locals, Goto
  <2>2. LocalsOK'
    <3>1. pc' \in [Procs -> Labels]
      BY <1>5 DEF IndexRead, IndexError, Good, LocalsOK, Goto, Labels
    <3>2. listed' \in [Procs -> SUBSET Ctxs]
      <4>1. listed' = listed \/ listed' = [listed EXCEPT ![p] = {}]
        BY <1>5 DEF IndexRead, IndexError, locals
      <4>2. QED
        BY <4>1 DEF Good, LocalsOK
    <3>3. seen' \in [Procs -> [Ctxs -> Revs \cup {None}]]
      <4>1. SearchRefs(r) \in [Ctxs -> Revs \cup {None}]
        BY DEF SearchRefs, Good, RecordsOK, MemberSets
      <4>2. [c \in Ctxs |-> IF c \in listed[p] THEN SearchRefs(r)[c] ELSE None]
              \in [Ctxs -> Revs \cup {None}]
        BY <4>1
      <4>3. \/ seen' = seen
            \/ seen' = [seen EXCEPT ![p] =
                         [c \in Ctxs |-> IF c \in listed[p] THEN SearchRefs(r)[c] ELSE None]]
        BY <1>5 DEF IndexRead, IndexError, locals
      <4>4. QED
        BY <4>2, <4>3 DEF Good, LocalsOK
    <3>4. QED
      BY <1>5, <3>1, <3>2, <3>3 DEF IndexRead, IndexError, Good, LocalsOK, locals
  <2>3. \A q \in Procs : ControlOK(q)'
    <3>1. \A q \in Procs \ {p} :
           pc'[q] = pc[q] /\ op'[q] = op[q] /\ id'[q] = id[q] /\ st'[q] = st[q]
      BY <1>5 DEF IndexRead, IndexError, Good, LocalsOK, locks, locals, Goto
    <3>2. ControlOK(p)'
      <4>1. /\ pc[p] = "listed"
            /\ pc'[p] \in {"indexing", "fail"} /\ (pc'[p] = "fail" => op[p] # "remove")
            /\ op'[p] = op[p] /\ id'[p] = id[p]
            /\ st'[p] = st[p]
        BY <1>5 DEF IndexRead, IndexError, Good, LocalsOK, Goto, locals
      <4>2. ControlOK(p)
        BY InHand
      <4>3. QED
        BY <4>1, <4>2 DEF ControlOK
    <3>3. QED
      BY <3>1, <3>2, OthersControl DEF Good
  <2>4. ServerExcluded'
    BY <1>5 DEF IndexRead, IndexError, Good, LocalsOK, locks, locals, serverVars,
      ServerExcluded
  <2>5. QED
    BY <1>1, <1>2, <1>3, <2>1, <2>2, <2>3, <2>4 DEF Good
<1>6. QED
  BY <1>4, <1>5

LEMMA IndexWriteGood ==
  ASSUME NEW p \in Procs, NEW r \in Repos, Good, IndexWrite(p,r)
  PROVE  Good'
<1>1. RecordsOK'
  BY DEF IndexWrite, Good, RecordsOK, records
<1>2. ArtifactsOK'
  <2>1. ref' \in [Repos -> [Ctxs -> Revs \cup {None}]]
    <3>1. [c \in Ctxs |-> IF seen[p][c] # None THEN seen[p][c] ELSE ref[r][c]]
            \in [Ctxs -> Revs \cup {None}]
      BY InHand DEF Good, ArtifactsOK
    <3>2. \/ ref' = ref
          \/ ref' = [ref EXCEPT ![r] =
                        [c \in Ctxs |-> IF seen[p][c] # None THEN seen[p][c] ELSE @[c]]]
      BY DEF IndexWrite
    <3>3. QED
      BY <3>1, <3>2 DEF Good, ArtifactsOK
  <2>2. shard' \in [Repos -> [Ctxs -> Revs \cup {None}]]
    <3>1. seen[p] \in [Ctxs -> Revs \cup {None}] /\ NoCtxs \in [Ctxs -> Revs \cup {None}]
      BY InHand DEF NoCtxs
    <3>2. shard' = [shard EXCEPT ![r] = seen[p]] \/ shard' = [shard EXCEPT ![r] = NoCtxs]
      BY DEF IndexWrite
    <3>3. QED
      BY <3>1, <3>2 DEF Good, ArtifactsOK
  <2>3. QED
    BY <2>1, <2>2 DEF IndexWrite, Good, ArtifactsOK
<1>3. ServerOK'
  BY DEF IndexWrite, Good, ServerOK, serverVars
<1>4. LocksOK'
  BY DEF IndexWrite, Good, LocksOK, LocalsOK, locks
<1>5. LocalsOK'
  <2>1. pc' \in [Procs -> Labels]
    BY DEF IndexWrite, Done, Good, LocalsOK, Goto, Labels
  <2>2. todo' \in [Procs -> SUBSET Repos]
    BY DEF IndexWrite, Done, Good, LocalsOK
  <2>3. seen' \in [Procs -> [Ctxs -> Revs \cup {None}]]
    BY DEF IndexWrite, Done, Good, LocalsOK, NoCtxs
  <2>4. QED
    BY <2>1, <2>2, <2>3 DEF IndexWrite, Done, Good, LocalsOK
<1>6. \A q \in Procs : ControlOK(q)'
  <2>1. \A q \in Procs \ {p} :
         pc'[q] = pc[q] /\ op'[q] = op[q] /\ id'[q] = id[q] /\ st'[q] = st[q]
    BY DEF IndexWrite, Good, LocalsOK, locks, Goto, Done
  <2>2. ControlOK(p)'
    <3>1. /\ pc[p] = "indexing"
          /\ op[p] = "remove" => pc'[p] \in {"index", "delete"}
          /\ op[p] # "remove" => pc'[p] \in {"stage", "advance"}
          /\ op'[p] = op[p] /\ id'[p] = id[p]
          /\ st'[p] = st[p]
      BY DEF IndexWrite, Done, Good, LocalsOK, Goto
    <3>2. ControlOK(p)
      BY InHand
    <3>3. CASE op[p] = "remove"
      BY <3>1, <3>2, <3>3 DEF ControlOK
    <3>4. CASE op[p] # "remove"
      BY <3>1, <3>2, <3>4 DEF ControlOK
    <3>5. QED
      BY <3>3, <3>4
  <2>3. QED
    BY <2>1, <2>2, OthersControl DEF Good
<1>7. ServerExcluded'
  BY DEF IndexWrite, Good, LocalsOK, locks, serverVars, ServerExcluded
<1>8. QED
  BY <1>1, <1>2, <1>3, <1>4, <1>5, <1>6, <1>7 DEF Good

LEMMA IndexFailsGood ==
  ASSUME NEW p \in Procs, NEW r \in Repos, Good, IndexFails(p,r)
  PROVE  Good'
<1>1. RecordsOK'
  BY DEF IndexFails, IndexError, Good, RecordsOK, records
<1>2. ArtifactsOK'
  BY InHand, RowType DEF IndexFails, IndexError, Good, ArtifactsOK
<1>3. ServerOK'
  BY DEF IndexFails, IndexError, Good, ServerOK, serverVars
<1>4. CASE Finish(p)
  BY <1>1, <1>2, <1>3, <1>4, FinishGood DEF IndexFails, Good, serverVars
<1>5. CASE ~Finish(p)
  <2>1. LocksOK'
    BY <1>5 DEF IndexFails, IndexError, Good, LocksOK, LocalsOK, locks, locals, Goto
  <2>2. LocalsOK'
    BY <1>5 DEF IndexFails, IndexError, Good, LocalsOK, locks, locals, Goto, Labels
  <2>3. \A q \in Procs : ControlOK(q)'
    <3>1. /\ \A q \in Procs \ {p} :
              pc'[q] = pc[q] /\ op'[q] = op[q] /\ id'[q] = id[q] /\ st'[q] = st[q]
         /\ pc[p] = "indexing" /\ op[p] # "remove" /\ pc'[p] = "fail"
         /\ op'[p] = op[p] /\ id'[p] = id[p]
         /\ st'[p] = st[p]
      BY <1>5 DEF IndexFails, IndexError, Good, LocalsOK, Goto, locals
    <3>2. ControlOK(p)'
      BY <3>1, InHand DEF ControlOK
    <3>3. QED
      BY <3>1, <3>2, OthersControl DEF Good
  <2>4. ServerExcluded'
    BY <1>5 DEF IndexFails, IndexError, Good, LocalsOK, locks, locals, serverVars,
      ServerExcluded
  <2>5. QED
    BY <1>1, <1>2, <1>3, <2>1, <2>2, <2>3, <2>4 DEF Good
<1>6. QED
  BY <1>4, <1>5

LEMMA ReadKnownGood ==
  ASSUME NEW p \in Procs, Good, ReadKnown(p)
  PROVE  Good'
<1>1. RecordsOK'
  BY DEF ReadKnown, Good, RecordsOK, records
<1>2. ArtifactsOK'
  BY DEF ReadKnown, Good, ArtifactsOK, artifacts
<1>3. ServerOK'
  BY DEF ReadKnown, Good, ServerOK, serverVars
<1>4. CASE Finish(p)
  BY <1>1, <1>2, <1>3, <1>4, FinishGood DEF ReadKnown, Good, serverVars
<1>5. CASE ~Finish(p)
  <2>1. LocksOK'
    BY <1>5 DEF ReadKnown, Good, LocksOK, LocalsOK, locks, Goto
  <2>2. LocalsOK'
    <3>1. pc' \in [Procs -> Labels]
      BY <1>5 DEF ReadKnown, Good, LocalsOK, Goto, Labels
    <3>2. tgt' \in [Procs -> SUBSET Repos]
      BY <1>5 DEF ReadKnown, Good, LocalsOK, repositoriesOf
    <3>3. QED
      BY <1>5, <3>1, <3>2 DEF ReadKnown, Good, LocalsOK
  <2>3. \A q \in Procs : ControlOK(q)'
    <3>1. \A q \in Procs \ {p} :
           pc'[q] = pc[q] /\ op'[q] = op[q] /\ id'[q] = id[q] /\ st'[q] = st[q]
      BY <1>5 DEF ReadKnown, Good, LocalsOK, locks, Goto
    <3>2. ControlOK(p)'
      BY <1>5, InHand, StateNames DEF ReadKnown, Good, LocalsOK, locks, Goto, ControlOK
    <3>3. QED
      BY <3>1, <3>2, OthersControl DEF Good
  <2>4. ServerExcluded'
    BY <1>5 DEF ReadKnown, Good, LocalsOK, locks, serverVars, ServerExcluded
  <2>5. QED
    BY <1>1, <1>2, <1>3, <2>1, <2>2, <2>3, <2>4 DEF Good
<1>6. QED
  BY <1>4, <1>5

LEMMA RetryCheckGood ==
  ASSUME NEW p \in Procs, Good, RetryCheck(p)
  PROVE  Good'
<1>1. RecordsOK'
  BY DEF RetryCheck, Reread, Unretryable, Good, RecordsOK, records
<1>2. ArtifactsOK'
  BY DEF RetryCheck, Reread, Unretryable, Good, ArtifactsOK, artifacts
<1>3. ServerOK'
  BY DEF RetryCheck, Reread, Unretryable, Good, ServerOK, serverVars
<1>4. CASE Finish(p)
  BY <1>1, <1>2, <1>3, <1>4, FinishGood DEF RetryCheck, Good, serverVars
<1>5. CASE ~Finish(p)
  <2>1. LocksOK'
    BY <1>5 DEF RetryCheck, Reread, Unretryable, Good, LocksOK, LocalsOK, locks, Goto
  <2>2. LocalsOK'
    <3>1. pc' \in [Procs -> Labels]
      <4>1. pc' = [pc EXCEPT ![p] = "discard"] /\ pc \in [Procs -> Labels]
        BY <1>5 DEF RetryCheck, Reread, Good, LocalsOK, Goto
      <4>2. QED
        BY <4>1 DEF Labels
    <3>2. mine' \in [Procs -> MemberSets]
      <4>1. mine' = [mine EXCEPT ![p] = members[id[p]]]
        BY <1>5 DEF RetryCheck, Reread
      <4>2. members[id[p]] \in MemberSets
        BY InHand DEF RetryCheck, Good, RecordsOK
      <4>3. QED
        BY <4>1, <4>2 DEF Good, LocalsOK
    <3>3. st' \in [Procs -> CtxStates \cup {"ABSENT"}]
      BY <1>5, InHand DEF RetryCheck, Reread, Unretryable, Good, LocalsOK, RecordsOK,
        ControlOK
    <3>4. todo' \in [Procs -> SUBSET Repos]
      <4>1. todo' = [todo EXCEPT ![p] = repositoriesOf(members[id[p]])]
        BY <1>5 DEF RetryCheck, Reread
      <4>2. repositoriesOf(members[id[p]]) \in SUBSET Repos
        BY DEF repositoriesOf
      <4>3. QED
        BY <4>1, <4>2 DEF Good, LocalsOK
    <3>5. QED
      BY <1>5, <3>1, <3>2, <3>3, <3>4 DEF RetryCheck, Reread, Unretryable, Good, LocalsOK
  <2>3. \A q \in Procs : ControlOK(q)'
    <3>1. \A q \in Procs \ {p} :
           pc'[q] = pc[q] /\ op'[q] = op[q] /\ id'[q] = id[q] /\ st'[q] = st[q]
      BY <1>5 DEF RetryCheck, Reread, Unretryable, Good, LocalsOK, locks, Goto, RecordsOK
    <3>2. ControlOK(p)'
      BY <1>5, InHand, StateNames DEF RetryCheck, Reread, Unretryable, Good, LocalsOK,
        locks, Goto, ControlOK, RecordsOK
    <3>3. QED
      BY <3>1, <3>2, OthersControl DEF Good
  <2>4. ServerExcluded'
    BY <1>5 DEF RetryCheck, Reread, Unretryable, Good, LocalsOK, locks, serverVars,
      ServerExcluded
  <2>5. QED
    BY <1>1, <1>2, <1>3, <2>1, <2>2, <2>3, <2>4 DEF Good
<1>6. QED
  BY <1>4, <1>5

LEMMA RemoveCheckGood ==
  ASSUME NEW p \in Procs, Good, RemoveCheck(p)
  PROVE  Good'
<1>1. RecordsOK'
  BY DEF RemoveCheck, Reread, Good, RecordsOK, records
<1>2. ArtifactsOK'
  BY DEF RemoveCheck, Reread, Good, ArtifactsOK, artifacts
<1>3. ServerOK'
  BY DEF RemoveCheck, Reread, Good, ServerOK, serverVars
<1>4. CASE Finish(p)
  BY <1>1, <1>2, <1>3, <1>4, FinishGood DEF RemoveCheck, Good, serverVars
<1>5. CASE ~Finish(p)
  <2>1. LocksOK'
    BY <1>5 DEF RemoveCheck, Reread, Good, LocksOK, LocalsOK, locks, Goto
  <2>2. LocalsOK'
    <3>1. pc' \in [Procs -> Labels]
      <4>1. pc \in [Procs -> Labels]
        BY DEF Good, LocalsOK
      <4>2. \E label \in {"put", "discard"} : pc' = [pc EXCEPT ![p] = label]
        BY <1>5 DEF RemoveCheck, Reread, Goto
      <4>3. QED
        BY <4>1, <4>2 DEF Labels
    <3>2. mine' \in [Procs -> MemberSets]
      <4>1. mine' = [mine EXCEPT ![p] = members[id[p]]]
        BY <1>5 DEF RemoveCheck, Reread
      <4>2. members[id[p]] \in MemberSets
        BY InHand DEF RemoveCheck, Good, RecordsOK
      <4>3. QED
        BY <4>1, <4>2 DEF Good, LocalsOK
    <3>3. st' \in [Procs -> CtxStates \cup {"ABSENT"}]
      BY <1>5, InHand DEF RemoveCheck, Reread, Good, LocalsOK, RecordsOK, ControlOK
    <3>4. todo' \in [Procs -> SUBSET Repos]
      <4>1. todo' = [todo EXCEPT ![p] = repositoriesOf(members[id[p]])]
        BY <1>5 DEF RemoveCheck, Reread
      <4>2. repositoriesOf(members[id[p]]) \in SUBSET Repos
        BY DEF repositoriesOf
      <4>3. QED
        BY <4>1, <4>2 DEF Good, LocalsOK
    <3>5. QED
      BY <1>5, <3>1, <3>2, <3>3, <3>4 DEF RemoveCheck, Reread, Good, LocalsOK
  <2>3. \A q \in Procs : ControlOK(q)'
    <3>1. \A q \in Procs \ {p} :
           pc'[q] = pc[q] /\ op'[q] = op[q] /\ id'[q] = id[q] /\ st'[q] = st[q]
      BY <1>5 DEF RemoveCheck, Reread, Good, LocalsOK, locks, Goto, RecordsOK
    <3>2. ControlOK(p)'
      BY <1>5, InHand, StateNames DEF RemoveCheck, Reread, Good, LocalsOK, locks, Goto,
        ControlOK, RecordsOK
    <3>3. QED
      BY <3>1, <3>2, OthersControl DEF Good
  <2>4. ServerExcluded'
    BY <1>5 DEF RemoveCheck, Reread, Good, LocalsOK, locks, serverVars, ServerExcluded
  <2>5. QED
    BY <1>1, <1>2, <1>3, <2>1, <2>2, <2>3, <2>4 DEF Good
<1>6. QED
  BY <1>4, <1>5

LEMMA RemovePutGood ==
  ASSUME NEW p \in Procs, Good, RemovePut(p)
  PROVE  Good'
<1>1. RecordsOK'
  BY InHand, StateNames, PutContextType DEF RemovePut, Good, RecordsOK
<1>2. ArtifactsOK'
  BY DEF RemovePut, Good, ArtifactsOK, artifacts
<1>3. ServerOK'
  BY DEF RemovePut, Good, ServerOK, serverVars
<1>4. LocksOK'
  BY DEF RemovePut, Good, LocksOK, LocalsOK, locks, Goto
<1>5. LocalsOK'
  BY StateNames DEF RemovePut, Good, LocalsOK, locks, Goto, Labels
<1>6. \A q \in Procs : ControlOK(q)'
  BY StateNames DEF RemovePut, Good, LocalsOK, locks, Goto, ControlOK
<1>7. ServerExcluded'
  BY DEF RemovePut, Good, LocalsOK, locks, serverVars, ServerExcluded
<1>8. QED
  BY <1>1, <1>2, <1>3, <1>4, <1>5, <1>6, <1>7 DEF Good

LEMMA DiscardGood ==
  ASSUME NEW p \in Procs, NEW r \in Repos, Good, Discard(p,r)
  PROVE  Good'
<1>1. RecordsOK'
  BY DEF Discard, deleteGraph, prune, RemoveAll, dropSearchRef, Good, RecordsOK, records
<1>2. ArtifactsOK'
  <2>1. wt' \in [Repos -> [Ctxs -> Arts \cup {"stale"}]]
    <3>1. wt[r] \in [Ctxs -> Arts \cup {"stale"}]
      BY DEF Good, ArtifactsOK
    <3>2. \A c \in Ctxs : prune(IF c = id[p] THEN RemoveAll(wt[r][c]) ELSE wt[r][c])
                           \in Arts \cup {"stale"}
      BY <3>1 DEF prune, RemoveAll, Arts
    <3>3. \/ wt' = wt
          \/ wt' = [wt EXCEPT ![r] = [c \in Ctxs |->
                     prune(IF c = id[p] THEN RemoveAll(wt[r][c]) ELSE wt[r][c])]]
      BY DEF Discard, deleteGraph
    <3>4. [c \in Ctxs |-> prune(IF c = id[p] THEN RemoveAll(wt[r][c]) ELSE wt[r][c])]
            \in [Ctxs -> Arts \cup {"stale"}]
      BY <3>2
    <3>5. QED
      BY <3>3, <3>4, RowType DEF Good, ArtifactsOK
  <2>2. graph' \in [Repos -> [Ctxs -> Arts]]
    <3>1. [graph EXCEPT ![r][id[p]] = None] \in [Repos -> [Ctxs -> Arts]]
      BY CellType DEF Good, ArtifactsOK, Arts
    <3>2. graph' = graph \/ graph' = [graph EXCEPT ![r][id[p]] = None]
      BY DEF Discard, deleteGraph
    <3>3. QED
      BY <3>1, <3>2 DEF Good, ArtifactsOK
  <2>3. ref' \in [Repos -> [Ctxs -> Revs \cup {None}]]
    <3>1. [ref EXCEPT ![r][id[p]] = None] \in [Repos -> [Ctxs -> Revs \cup {None}]]
      BY CellType DEF Good, ArtifactsOK
    <3>2. ref' = ref \/ ref' = [ref EXCEPT ![r][id[p]] = None]
      BY DEF Discard, deleteGraph, dropSearchRef
    <3>3. QED
      BY <3>1, <3>2 DEF Good, ArtifactsOK
  <2>4. QED
    BY <2>1, <2>2, <2>3 DEF Discard, deleteGraph, Good, ArtifactsOK
<1>3. ServerOK'
  BY DEF Discard, deleteGraph, prune, RemoveAll, dropSearchRef, Good, ServerOK, serverVars
<1>4. CASE Finish(p)
  BY <1>1, <1>2, <1>3, <1>4, FinishGood DEF Discard, deleteGraph, Good, serverVars
<1>5. CASE ~Finish(p)
  <2>1. LocksOK'
    BY <1>5 DEF Discard, deleteGraph, prune, RemoveAll, dropSearchRef, Good, LocksOK, LocalsOK,
      locks
  <2>2. LocalsOK'
    <3>1. pc' \in [Procs -> Labels]
      BY <1>5 DEF Discard, deleteGraph, Done, Good, LocalsOK, Goto, Labels
    <3>2. todo' \in [Procs -> SUBSET Repos]
      <4>1. \E rs \in SUBSET Repos : todo' = [todo EXCEPT ![p] = rs]
        <5>1. repositoriesOf(mine[p]) \in SUBSET Repos /\ todo[p] \in SUBSET Repos
          BY InHand DEF Good, LocalsOK
        <5>2. \/ todo' = [todo EXCEPT ![p] = repositoriesOf(mine[p])]
              \/ todo' = [todo EXCEPT ![p] = @ \ {r}]
          BY <1>5 DEF Discard, deleteGraph, Done
        <5>3. QED
          BY <5>1, <5>2
      <4>2. QED
        BY <4>1 DEF Good, LocalsOK
    <3>3. QED
      BY <1>5, <3>1, <3>2 DEF Discard, deleteGraph, Done, Good, LocalsOK
  <2>3. \A q \in Procs : ControlOK(q)'
    <3>1. \A q \in Procs \ {p} :
           pc'[q] = pc[q] /\ op'[q] = op[q] /\ id'[q] = id[q] /\ st'[q] = st[q]
      BY <1>5 DEF Discard, deleteGraph, Good, LocalsOK, locks, Goto, Done
    <3>2. ControlOK(p)'
      <4>1. /\ pc[p] = "discard"
            /\ op[p] = "remove" => pc'[p] \in {"index", "discard"}
            /\ op[p] # "remove" => pc'[p] \in {"reenter", "discard"}
            /\ op'[p] = op[p] /\ id'[p] = id[p]
            /\ st'[p] = st[p]
        BY <1>5 DEF Discard, deleteGraph, Done, Good, LocalsOK, Goto
      <4>2. ControlOK(p)
        BY InHand
      <4>3. CASE op[p] = "remove"
        BY <4>1, <4>2, <4>3 DEF ControlOK
      <4>4. CASE op[p] # "remove"
        BY <4>1, <4>2, <4>4 DEF ControlOK
      <4>5. QED
        BY <4>3, <4>4
    <3>3. QED
      BY <3>1, <3>2, OthersControl DEF Good
  <2>4. ServerExcluded'
    BY <1>5 DEF Discard, deleteGraph, prune, RemoveAll, dropSearchRef, Good, LocalsOK, locks,
      serverVars,
      ServerExcluded
  <2>5. QED
    BY <1>1, <1>2, <1>3, <2>1, <2>2, <2>3, <2>4 DEF Good
<1>6. QED
  BY <1>4, <1>5

LEMMA DiscardFailsGood ==
  ASSUME NEW p \in Procs, NEW r \in Repos, Good, DiscardFails(p,r)
  PROVE  Good'
<1>1. RecordsOK'
  BY DEF DiscardFails, deleteGraph, Good, RecordsOK, records
<1>2. ArtifactsOK'
  <2>1. wt' \in [Repos -> [Ctxs -> Arts \cup {"stale"}]]
    <3>1. wt \in [Repos -> [Ctxs -> Arts \cup {"stale"}]]
      BY DEF Good, ArtifactsOK
    <3>2. ASSUME NEW w \in {None, "partial", "stale"}
          PROVE  [wt EXCEPT ![r][id[p]] = w] \in [Repos -> [Ctxs -> Arts \cup {"stale"}]]
      BY <3>1 DEF Arts
    <3>3. wt' = wt \/ \E w \in {None, "partial", "stale"} : wt' = [wt EXCEPT ![r][id[p]] = w]
      BY DEF DiscardFails, deleteGraph
    <3>4. QED
      BY <3>1, <3>2, <3>3
  <2>2. graph' \in [Repos -> [Ctxs -> Arts]]
    <3>1. [graph EXCEPT ![r][id[p]] = None] \in [Repos -> [Ctxs -> Arts]]
      BY CellType DEF Good, ArtifactsOK, Arts
    <3>2. graph' = graph \/ graph' = [graph EXCEPT ![r][id[p]] = None]
      BY DEF DiscardFails, deleteGraph
    <3>3. QED
      BY <3>1, <3>2 DEF Good, ArtifactsOK
  <2>3. QED
    BY <2>1, <2>2 DEF DiscardFails, deleteGraph, Good, ArtifactsOK
<1>3. ServerOK'
  BY DEF DiscardFails, deleteGraph, Good, ServerOK, serverVars
<1>4. CASE Finish(p)
  BY <1>1, <1>2, <1>3, <1>4, FinishGood DEF DiscardFails, deleteGraph, Good, serverVars
<1>5. CASE ~Finish(p)
  <2>1. LocksOK'
    BY <1>5 DEF DiscardFails, deleteGraph, Good, LocksOK, LocalsOK
  <2>2. LocalsOK'
    BY <1>5 DEF DiscardFails, deleteGraph, Good, LocalsOK, Labels
  <2>3. \A q \in Procs : ControlOK(q)'
    BY <1>5 DEF DiscardFails, deleteGraph, Good, LocalsOK, ControlOK
  <2>4. ServerExcluded'
    BY <1>5 DEF DiscardFails, deleteGraph, Good, LocalsOK, serverVars, ServerExcluded
  <2>5. QED
    BY <1>1, <1>2, <1>3, <2>1, <2>2, <2>3, <2>4 DEF Good
<1>6. QED
  BY <1>4, <1>5

LEMMA ReenterGood ==
  ASSUME NEW p \in Procs, Good, Reenter(p)
  PROVE  Good'
<1>1. RecordsOK'
  BY InHand, StateNames, PutContextType DEF Reenter, Good, RecordsOK, ControlOK
<1>2. ArtifactsOK'
  BY DEF Reenter, Good, ArtifactsOK, artifacts
<1>3. ServerOK'
  BY DEF Reenter, Good, ServerOK, serverVars
<1>4. LocksOK'
  BY DEF Reenter, Good, LocksOK, LocalsOK, locks, Goto
<1>5. LocalsOK'
  BY StateNames DEF Reenter, Good, LocalsOK, locks, Goto, Labels
<1>6. \A q \in Procs : ControlOK(q)'
  BY StateNames DEF Reenter, Good, LocalsOK, locks, Goto, ControlOK
<1>7. ServerExcluded'
  BY DEF Reenter, Good, LocalsOK, locks, serverVars, ServerExcluded
<1>8. QED
  BY <1>1, <1>2, <1>3, <1>4, <1>5, <1>6, <1>7 DEF Good

LEMMA RemoveDeleteGood ==
  ASSUME NEW p \in Procs, Good, RemoveDelete(p)
  PROVE  Good'
<1>1. RecordsOK'
  BY InHand, StateNames, PutContextType DEF RemoveDelete, DeleteContext, Good, RecordsOK,
    NoMembers, MemberSets
<1>2. ArtifactsOK'
  BY DEF RemoveDelete, DeleteContext, Good, ArtifactsOK, artifacts
<1>3. ServerOK'
  BY DEF RemoveDelete, DeleteContext, Good, ServerOK, serverVars
<1>4. CASE Finish(p)
  BY <1>1, <1>2, <1>3, <1>4, FinishGood DEF RemoveDelete, Good, serverVars
<1>5. CASE ~Finish(p)
  <2>1. LocksOK'
    BY <1>5 DEF RemoveDelete, DeleteContext, Good, LocksOK, LocalsOK
  <2>2. LocalsOK'
    BY <1>5 DEF RemoveDelete, DeleteContext, Good, LocalsOK, Labels
  <2>3. \A q \in Procs : ControlOK(q)'
    BY <1>5 DEF RemoveDelete, DeleteContext, Good, LocalsOK, ControlOK
  <2>4. ServerExcluded'
    BY <1>5 DEF RemoveDelete, DeleteContext, Good, LocalsOK, serverVars, ServerExcluded
  <2>5. QED
    BY <1>1, <1>2, <1>3, <2>1, <2>2, <2>3, <2>4 DEF Good
<1>6. QED
  BY <1>4, <1>5

LEMMA AddCloneGood ==
  ASSUME NEW p \in Procs, Good, AddClone(p)
  PROVE  Good'
<1>1. RecordsOK'
  BY DEF AddClone, Good, RecordsOK, records
<1>2. ArtifactsOK'
  BY DEF AddClone, Good, ArtifactsOK
<1>3. ServerOK'
  BY DEF AddClone, Good, ServerOK, serverVars
<1>4. CASE Finish(p)
  BY <1>1, <1>2, <1>3, <1>4, FinishGood DEF AddClone, Good, serverVars
<1>5. CASE ~Finish(p)
  <2>1. LocksOK'
    BY <1>5 DEF AddClone, Good, LocksOK, LocalsOK, locks, Goto
  <2>2. LocalsOK'
    BY <1>5, StateNames DEF AddClone, Good, LocalsOK, locks, Goto, Labels
  <2>3. \A q \in Procs : ControlOK(q)'
    <3>1. \A q \in Procs \ {p} :
           pc'[q] = pc[q] /\ op'[q] = op[q] /\ id'[q] = id[q] /\ st'[q] = st[q]
      BY <1>5 DEF AddClone, Good, LocalsOK, locks, Goto
    <3>2. ControlOK(p)'
      <4>1. /\ pc'[p] = "put" /\ op[p] = "add"
            /\ st'[p] \in {"READY", "FAILED"}
            /\ op'[p] = op[p] /\ id'[p] = id[p]
        BY <1>5 DEF AddClone, Good, LocalsOK, Goto
      <4>2. ControlOK(p)
        BY InHand
      <4>3. QED
        BY <4>1, <4>2 DEF ControlOK
    <3>3. QED
      BY <3>1, <3>2, OthersControl DEF Good
  <2>4. ServerExcluded'
    BY <1>5 DEF AddClone, Good, LocalsOK, locks, serverVars, ServerExcluded
  <2>5. QED
    BY <1>1, <1>2, <1>3, <2>1, <2>2, <2>3, <2>4 DEF Good
<1>6. QED
  BY <1>4, <1>5

LEMMA AddCloneFailsGood ==
  ASSUME NEW p \in Procs, Good, AddCloneFails(p)
  PROVE  Good'
<1>1. RecordsOK'
  BY DEF AddCloneFails, Good, RecordsOK, records
<1>2. ArtifactsOK'
  BY DEF AddCloneFails, Good, ArtifactsOK
<1>3. ServerOK'
  BY DEF AddCloneFails, Good, ServerOK, serverVars
<1>4. LocksOK'
  BY DEF AddCloneFails, Good, LocksOK, LocalsOK, locks, Goto
<1>5. LocalsOK'
  BY StateNames DEF AddCloneFails, Good, LocalsOK, locks, Goto, Labels
<1>6. \A q \in Procs : ControlOK(q)'
  <2>1. \A q \in Procs \ {p} :
         pc'[q] = pc[q] /\ op'[q] = op[q] /\ id'[q] = id[q] /\ st'[q] = st[q]
    BY DEF AddCloneFails, Good, LocalsOK, locks, Goto
  <2>2. ControlOK(p)'
    BY InHand, StateNames DEF AddCloneFails, Good, LocalsOK, locks, Goto, ControlOK
  <2>3. QED
    BY <2>1, <2>2, OthersControl DEF Good
<1>7. ServerExcluded'
  BY DEF AddCloneFails, Good, LocalsOK, locks, serverVars, ServerExcluded
<1>8. QED
  BY <1>1, <1>2, <1>3, <1>4, <1>5, <1>6, <1>7 DEF Good

LEMMA AddPutGood ==
  ASSUME NEW p \in Procs, Good, AddPut(p)
  PROVE  Good'
<1>1. RecordsOK'
  <2>1. RecordsOK /\ tgt[p] \subseteq Repos
    BY InHand DEF Good
  <2>2. st[p] \in RepoStates
    BY InHand DEF AddPut, ControlOK, RepoStates
  <2>3. QED
    BY <2>1, <2>2, PutRepositoryType DEF AddPut
<1>2. ArtifactsOK'
  BY DEF AddPut, Good, ArtifactsOK, artifacts
<1>3. ServerOK'
  BY DEF AddPut, Good, ServerOK, serverVars
<1>4. CASE Finish(p)
  BY <1>1, <1>2, <1>3, <1>4, FinishGood DEF AddPut, Good, serverVars
<1>5. CASE ~Finish(p)
  <2>1. LocksOK'
    BY <1>5 DEF AddPut, Good, LocksOK, LocalsOK
  <2>2. LocalsOK'
    BY <1>5 DEF AddPut, Good, LocalsOK, Labels
  <2>3. \A q \in Procs : ControlOK(q)'
    BY <1>5 DEF AddPut, Good, LocalsOK, ControlOK
  <2>4. ServerExcluded'
    BY <1>5 DEF AddPut, Good, LocalsOK, serverVars, ServerExcluded
  <2>5. QED
    BY <1>1, <1>2, <1>3, <2>1, <2>2, <2>3, <2>4 DEF Good
<1>6. QED
  BY <1>4, <1>5

LEMMA SyncNextGood ==
  ASSUME NEW p \in Procs, Good, SyncNext(p)
  PROVE  Good'
<1>1. RecordsOK'
  BY DEF SyncNext, Good, RecordsOK, records
<1>2. ArtifactsOK'
  BY DEF SyncNext, Good, ArtifactsOK, artifacts
<1>3. ServerOK'
  BY DEF SyncNext, Good, ServerOK, serverVars
<1>4. LocksOK'
  BY DEF SyncNext, Good, LocksOK, LocalsOK, locks, Goto
<1>5. LocalsOK'
  BY DEF SyncNext, Good, LocalsOK, locks, Goto, Labels
<1>6. \A q \in Procs : ControlOK(q)'
  BY DEF SyncNext, Good, LocalsOK, locks, Goto, ControlOK
<1>7. ServerExcluded'
  BY DEF SyncNext, Good, LocalsOK, locks, serverVars, ServerExcluded
<1>8. QED
  BY <1>1, <1>2, <1>3, <1>4, <1>5, <1>6, <1>7 DEF Good

LEMMA SyncFetchGood ==
  ASSUME NEW p \in Procs, Good, SyncFetch(p)
  PROVE  Good'
<1>1. RecordsOK'
  BY DEF SyncFetch, Good, RecordsOK, records
<1>2. ArtifactsOK'
  BY DEF SyncFetch, Good, ArtifactsOK, artifacts
<1>3. ServerOK'
  BY DEF SyncFetch, Good, ServerOK, serverVars
<1>4. LocksOK'
  BY DEF SyncFetch, Good, LocksOK, LocalsOK, locks, Goto
<1>5. LocalsOK'
  BY StateNames DEF SyncFetch, Good, LocalsOK, locks, Goto, Labels
<1>6. \A q \in Procs : ControlOK(q)'
  <2>1. \A q \in Procs \ {p} :
         pc'[q] = pc[q] /\ op'[q] = op[q] /\ id'[q] = id[q] /\ st'[q] = st[q]
    BY DEF SyncFetch, Good, LocalsOK, locks, Goto
  <2>2. ControlOK(p)'
    BY InHand, StateNames DEF SyncFetch, Good, LocalsOK, locks, Goto, ControlOK
  <2>3. QED
    BY <2>1, <2>2, OthersControl DEF Good
<1>7. ServerExcluded'
  BY DEF SyncFetch, Good, LocalsOK, locks, serverVars, ServerExcluded
<1>8. QED
  BY <1>1, <1>2, <1>3, <1>4, <1>5, <1>6, <1>7 DEF Good

LEMMA SyncFetchFailsGood ==
  ASSUME NEW p \in Procs, Good, SyncFetchFails(p)
  PROVE  Good'
<1>1. RecordsOK'
  BY DEF SyncFetchFails, Good, RecordsOK, records
<1>2. ArtifactsOK'
  BY DEF SyncFetchFails, Good, ArtifactsOK, artifacts
<1>3. ServerOK'
  BY DEF SyncFetchFails, Good, ServerOK, serverVars
<1>4. CASE Finish(p)
  BY <1>1, <1>2, <1>3, <1>4, FinishGood DEF SyncFetchFails, Good, serverVars
<1>5. CASE ~Finish(p)
  <2>1. LocksOK'
    BY <1>5 DEF SyncFetchFails, Good, LocksOK, LocalsOK, locks, Goto
  <2>2. LocalsOK'
    BY <1>5, StateNames DEF SyncFetchFails, Good, LocalsOK, locks, Goto, Labels
  <2>3. \A q \in Procs : ControlOK(q)'
    <3>1. /\ \A q \in Procs \ {p} :
              pc'[q] = pc[q] /\ op'[q] = op[q] /\ id'[q] = id[q] /\ st'[q] = st[q]
         /\ pc'[p] = "put"
         /\ op'[p] = op[p] /\ id'[p] = id[p]
         /\ op[p] = "sync" /\ st'[p] = "FAILED"
      BY <1>5 DEF SyncFetchFails, Good, LocalsOK, Goto
    <3>2. ControlOK(p)'
      BY <3>1, InHand DEF ControlOK
    <3>3. QED
      BY <3>1, <3>2, OthersControl DEF Good
  <2>4. ServerExcluded'
    BY <1>5 DEF SyncFetchFails, Good, LocalsOK, locks, serverVars, ServerExcluded
  <2>5. QED
    BY <1>1, <1>2, <1>3, <2>1, <2>2, <2>3, <2>4 DEF Good
<1>6. QED
  BY <1>4, <1>5

LEMMA SyncPutGood ==
  ASSUME NEW p \in Procs, Good, SyncPut(p)
  PROVE  Good'
<1>1. RecordsOK'
  <2>1. PICK r \in tgt[p] : PutRepository(r, st[p])
    BY DEF SyncPut
  <2>2. r \in Repos /\ st[p] \in RepoStates
    BY InHand DEF SyncPut, ControlOK, RepoStates
  <2>3. QED
    BY <2>1, <2>2, PutRepositoryType DEF Good
<1>2. ArtifactsOK'
  BY DEF SyncPut, Good, ArtifactsOK, artifacts
<1>3. ServerOK'
  BY DEF SyncPut, Good, ServerOK, serverVars
<1>4. CASE Finish(p)
  BY <1>1, <1>2, <1>3, <1>4, FinishGood DEF SyncPut, Good, serverVars
<1>5. CASE ~Finish(p)
  <2>1. LocksOK'
    BY <1>5 DEF SyncPut, Good, LocksOK, LocalsOK, Goto
  <2>2. LocalsOK'
    BY <1>5 DEF SyncPut, Good, LocalsOK, Goto, Labels
  <2>3. \A q \in Procs : ControlOK(q)'
    <3>1. /\ \A q \in Procs \ {p} :
              pc'[q] = pc[q] /\ op'[q] = op[q] /\ id'[q] = id[q] /\ st'[q] = st[q]
         /\ pc'[p] = "next"
         /\ op'[p] = op[p] /\ id'[p] = id[p]
         /\ op[p] = "sync"
      BY <1>5 DEF SyncPut, Good, LocalsOK, Goto
    <3>2. ControlOK(p)'
      BY <3>1, InHand DEF ControlOK
    <3>3. QED
      BY <3>1, <3>2, OthersControl DEF Good
  <2>4. ServerExcluded'
    BY <1>5 DEF SyncPut, Good, LocalsOK, serverVars, ServerExcluded
  <2>5. QED
    BY <1>1, <1>2, <1>3, <2>1, <2>2, <2>3, <2>4 DEF Good
<1>6. QED
  BY <1>4, <1>5

LEMMA RepoRemoveCheckGood ==
  ASSUME NEW p \in Procs, Good, RepoRemoveCheck(p)
  PROVE  Good'
<1>1. RecordsOK'
  BY DEF RepoRemoveCheck, Good, RecordsOK, records
<1>2. ArtifactsOK'
  BY DEF RepoRemoveCheck, Good, ArtifactsOK, artifacts
<1>3. ServerOK'
  BY DEF RepoRemoveCheck, Good, ServerOK, serverVars
<1>4. CASE Finish(p)
  BY <1>1, <1>2, <1>3, <1>4, FinishGood DEF RepoRemoveCheck, Good, serverVars
<1>5. CASE ~Finish(p)
  <2>1. LocksOK'
    BY <1>5 DEF RepoRemoveCheck, Good, LocksOK, LocalsOK, locks, locals, Goto
  <2>2. LocalsOK'
    BY <1>5 DEF RepoRemoveCheck, Good, LocalsOK, locks, locals, Goto, Labels
  <2>3. \A q \in Procs : ControlOK(q)'
    <3>1. /\ \A q \in Procs \ {p} :
              pc'[q] = pc[q] /\ op'[q] = op[q] /\ id'[q] = id[q] /\ st'[q] = st[q]
         /\ pc'[p] = "clone"
         /\ op'[p] = op[p] /\ id'[p] = id[p]
         /\ op[p] = "repo remove"
      BY <1>5 DEF RepoRemoveCheck, Good, LocalsOK, Goto, locals
    <3>2. ControlOK(p)'
      BY <3>1, InHand DEF ControlOK
    <3>3. QED
      BY <3>1, <3>2, OthersControl DEF Good
  <2>4. ServerExcluded'
    BY <1>5 DEF RepoRemoveCheck, Good, LocalsOK, locks, locals, serverVars, ServerExcluded
  <2>5. QED
    BY <1>1, <1>2, <1>3, <2>1, <2>2, <2>3, <2>4 DEF Good
<1>6. QED
  BY <1>4, <1>5

LEMMA RepoRemoveCloneGood ==
  ASSUME NEW p \in Procs, Good, RepoRemoveClone(p)
  PROVE  Good'
<1>1. RecordsOK'
  BY DEF RepoRemoveClone, Good, RecordsOK, records
<1>2. ArtifactsOK'
  <2>1. PICK r \in tgt[p] :
          /\ clone' = [clone EXCEPT ![r] = "none"]
          /\ ref'   = [ref EXCEPT ![r] = NoCtxs]
          /\ wt'    = [wt EXCEPT ![r] =
                         [c \in Ctxs |-> IF @[c] = "stale" THEN None ELSE @[c]]]
    BY DEF RepoRemoveClone
  <2>2. clone' \in [Repos -> {"none", "partial", "whole"}]
    BY <2>1 DEF Good, ArtifactsOK
  <2>3. ref' \in [Repos -> [Ctxs -> Revs \cup {None}]]
    BY <2>1 DEF Good, ArtifactsOK, NoCtxs
  <2>4. wt' \in [Repos -> [Ctxs -> Arts \cup {"stale"}]]
    BY <2>1 DEF Good, ArtifactsOK, Arts
  <2>5. QED
    BY <2>2, <2>3, <2>4 DEF RepoRemoveClone, Good, ArtifactsOK
<1>3. ServerOK'
  BY DEF RepoRemoveClone, Good, ServerOK, serverVars
<1>4. LocksOK'
  BY DEF RepoRemoveClone, Good, LocksOK, LocalsOK, locks, locals, Goto
<1>5. LocalsOK'
  BY DEF RepoRemoveClone, Good, LocalsOK, locks, locals, Goto, Labels
<1>6. \A q \in Procs : ControlOK(q)'
  BY DEF RepoRemoveClone, Good, LocalsOK, locks, locals, Goto, ControlOK
<1>7. ServerExcluded'
  BY DEF RepoRemoveClone, Good, LocalsOK, locks, locals, serverVars, ServerExcluded
<1>8. QED
  BY <1>1, <1>2, <1>3, <1>4, <1>5, <1>6, <1>7 DEF Good

LEMMA RepoRemoveDeleteGood ==
  ASSUME NEW p \in Procs, Good, RepoRemoveDelete(p)
  PROVE  Good'
<1>1. RecordsOK'
  BY InHand, PutRepositoryType DEF RepoRemoveDelete, Good, RecordsOK, RepoStates
<1>2. ArtifactsOK'
  BY DEF RepoRemoveDelete, Good, ArtifactsOK, artifacts
<1>3. ServerOK'
  BY DEF RepoRemoveDelete, Good, ServerOK, serverVars
<1>4. CASE Finish(p)
  BY <1>1, <1>2, <1>3, <1>4, FinishGood DEF RepoRemoveDelete, Good, serverVars
<1>5. CASE ~Finish(p)
  <2>1. LocksOK'
    BY <1>5 DEF RepoRemoveDelete, Good, LocksOK, LocalsOK
  <2>2. LocalsOK'
    BY <1>5 DEF RepoRemoveDelete, Good, LocalsOK, Labels
  <2>3. \A q \in Procs : ControlOK(q)'
    BY <1>5 DEF RepoRemoveDelete, Good, LocalsOK, ControlOK
  <2>4. ServerExcluded'
    BY <1>5 DEF RepoRemoveDelete, Good, LocalsOK, serverVars, ServerExcluded
  <2>5. QED
    BY <1>1, <1>2, <1>3, <2>1, <2>2, <2>3, <2>4 DEF Good
<1>6. QED
  BY <1>4, <1>5

LEMMA RepoRemoveCloneFailsGood ==
  ASSUME NEW p \in Procs, Good, RepoRemoveCloneFails(p)
  PROVE  Good'
<1>1. RecordsOK'
  BY DEF RepoRemoveCloneFails, Good, RecordsOK, records
<1>2. ArtifactsOK'
  BY DEF RepoRemoveCloneFails, Good, ArtifactsOK
<1>3. ServerOK'
  BY DEF RepoRemoveCloneFails, Good, ServerOK, serverVars
<1>4. CASE Finish(p)
  BY <1>1, <1>2, <1>3, <1>4, FinishGood DEF RepoRemoveCloneFails, Good, serverVars
<1>5. CASE ~Finish(p)
  <2>1. LocksOK'
    BY <1>5 DEF RepoRemoveCloneFails, Good, LocksOK, LocalsOK
  <2>2. LocalsOK'
    BY <1>5 DEF RepoRemoveCloneFails, Good, LocalsOK, Labels
  <2>3. \A q \in Procs : ControlOK(q)'
    BY <1>5 DEF RepoRemoveCloneFails, Good, LocalsOK, ControlOK
  <2>4. ServerExcluded'
    BY <1>5 DEF RepoRemoveCloneFails, Good, LocalsOK, serverVars, ServerExcluded
  <2>5. QED
    BY <1>1, <1>2, <1>3, <2>1, <2>2, <2>3, <2>4 DEF Good
<1>6. QED
  BY <1>4, <1>5

LEMMA BeginCreateGood ==
  ASSUME NEW p \in Procs, NEW c \in Ctxs, Good, BeginCreate(p,c)
  PROVE  Good'
<1>1. RecordsOK'
  BY DEF BeginCreate, Start, holdManagementLock, Good, RecordsOK, records
<1>2. ArtifactsOK'
  BY DEF BeginCreate, Start, holdManagementLock, Good, ArtifactsOK, artifacts
<1>3. ServerOK'
  BY DEF BeginCreate, Start, holdManagementLock, Good, ServerOK, serverVars
<1>4. LocksOK'
  BY DEF BeginCreate, Start, holdManagementLock, Good, LocksOK, LocalsOK, Goto
<1>5. LocalsOK'
  <2>1. pc' \in [Procs -> Labels]
    BY DEF BeginCreate, Start, Good, LocalsOK, Goto, Labels
  <2>2. op' \in [Procs -> Ops]
    BY DEF BeginCreate, Start, Good, LocalsOK, Ops
  <2>3. id' \in [Procs -> Ctxs \cup {None}]
    BY DEF BeginCreate, Start, Good, LocalsOK
  <2>4. tgt' \in [Procs -> SUBSET Repos]
    BY ConstantsAssumption DEF BeginCreate, Start, Good, LocalsOK
  <2>5. QED
    BY <2>1, <2>2, <2>3, <2>4 DEF BeginCreate, Start, Good, LocalsOK
<1>6. \A q \in Procs : ControlOK(q)'
  <2>1. \A q \in Procs \ {p} :
         pc'[q] = pc[q] /\ op'[q] = op[q] /\ id'[q] = id[q] /\ st'[q] = st[q]
    BY DEF BeginCreate, Start, holdManagementLock, Good, LocalsOK, Goto
  <2>2. ControlOK(p)'
    <3>1. pc'[p] = "lock" /\ op'[p] = "create" /\ id'[p] \in Ctxs /\ st'[p] = st[p]
      BY DEF BeginCreate, Start, Good, LocalsOK, Goto
    <3>2. ControlOK(p)
      BY DEF Good
    <3>3. QED
      BY <3>1, <3>2, StateNames DEF ControlOK
  <2>3. QED
    BY <2>1, <2>2, OthersControl DEF Good
<1>7. ServerExcluded'
  BY DEF BeginCreate, Start, holdManagementLock, Good, LocalsOK, serverVars, ServerExcluded
<1>8. QED
  BY <1>1, <1>2, <1>3, <1>4, <1>5, <1>6, <1>7 DEF Good

LEMMA BeginRetryGood ==
  ASSUME NEW p \in Procs, NEW c \in Ctxs, Good, BeginRetry(p,c)
  PROVE  Good'
<1>1. RecordsOK'
  BY DEF BeginRetry, Start, holdManagementLock, Good, RecordsOK, records
<1>2. ArtifactsOK'
  BY DEF BeginRetry, Start, holdManagementLock, Good, ArtifactsOK, artifacts
<1>3. ServerOK'
  BY DEF BeginRetry, Start, holdManagementLock, Good, ServerOK, serverVars
<1>4. LocksOK'
  BY DEF BeginRetry, Start, holdManagementLock, Good, LocksOK, LocalsOK, Goto
<1>5. LocalsOK'
  BY DEF BeginRetry, Start, holdManagementLock, Good, LocalsOK, Goto, Labels, Ops
<1>6. \A q \in Procs : ControlOK(q)'
  BY DEF BeginRetry, Start, holdManagementLock, Good, LocalsOK, Goto, ControlOK
<1>7. ServerExcluded'
  BY DEF BeginRetry, Start, holdManagementLock, Good, LocalsOK, serverVars, ServerExcluded
<1>8. QED
  BY <1>1, <1>2, <1>3, <1>4, <1>5, <1>6, <1>7 DEF Good

LEMMA BeginRemoveGood ==
  ASSUME NEW p \in Procs, NEW c \in Ctxs, Good, BeginRemove(p,c)
  PROVE  Good'
<1>1. RecordsOK'
  BY DEF BeginRemove, Start, holdManagementLock, Good, RecordsOK, records
<1>2. ArtifactsOK'
  BY DEF BeginRemove, Start, holdManagementLock, Good, ArtifactsOK, artifacts
<1>3. ServerOK'
  BY DEF BeginRemove, Start, holdManagementLock, Good, ServerOK, serverVars
<1>4. LocksOK'
  BY DEF BeginRemove, Start, holdManagementLock, Good, LocksOK, LocalsOK, Goto
<1>5. LocalsOK'
  BY DEF BeginRemove, Start, holdManagementLock, Good, LocalsOK, Goto, Labels, Ops
<1>6. \A q \in Procs : ControlOK(q)'
  BY DEF BeginRemove, Start, holdManagementLock, Good, LocalsOK, Goto, ControlOK
<1>7. ServerExcluded'
  BY DEF BeginRemove, Start, holdManagementLock, Good, LocalsOK, serverVars, ServerExcluded
<1>8. QED
  BY <1>1, <1>2, <1>3, <1>4, <1>5, <1>6, <1>7 DEF Good

LEMMA BeginAddGood ==
  ASSUME NEW p \in Procs, NEW r \in Repos, Good, BeginAdd(p,r)
  PROVE  Good'
<1>1. RecordsOK'
  BY DEF BeginAdd, Start, Good, RecordsOK, records
<1>2. ArtifactsOK'
  BY DEF BeginAdd, Start, Good, ArtifactsOK, artifacts
<1>3. ServerOK'
  BY DEF BeginAdd, Start, Good, ServerOK, serverVars
<1>4. LocksOK'
  BY DEF BeginAdd, Start, Good, LocksOK, LocalsOK, locks, Goto
<1>5. LocalsOK'
  BY DEF BeginAdd, Start, Good, LocalsOK, locks, Goto, Labels, Ops
<1>6. \A q \in Procs : ControlOK(q)'
  BY DEF BeginAdd, Start, Good, LocalsOK, locks, Goto, ControlOK
<1>7. ServerExcluded'
  BY DEF BeginAdd, Start, Good, LocalsOK, locks, serverVars, ServerExcluded
<1>8. QED
  BY <1>1, <1>2, <1>3, <1>4, <1>5, <1>6, <1>7 DEF Good

LEMMA BeginSyncGood ==
  ASSUME NEW p \in Procs, Good, BeginSync(p)
  PROVE  Good'
<1>1. RecordsOK'
  BY DEF BeginSync, Start, Good, RecordsOK, records
<1>2. ArtifactsOK'
  BY DEF BeginSync, Start, Good, ArtifactsOK, artifacts
<1>3. ServerOK'
  BY DEF BeginSync, Start, Good, ServerOK, serverVars
<1>4. LocksOK'
  BY DEF BeginSync, Start, Good, LocksOK, LocalsOK, locks, Goto
<1>5. LocalsOK'
  <2>1. todo' \in [Procs -> SUBSET Repos]
    BY DEF BeginSync, Good, LocalsOK
  <2>2. /\ pc' \in [Procs -> Labels] /\ op' \in [Procs -> Ops]
        /\ id' \in [Procs -> Ctxs \cup {None}] /\ tgt' \in [Procs -> SUBSET Repos]
    BY DEF BeginSync, Start, Goto, Labels, Ops, Good, LocalsOK
  <2>3. QED
    BY <2>1, <2>2 DEF BeginSync, Good, LocalsOK
<1>6. \A q \in Procs : ControlOK(q)'
  BY DEF BeginSync, Start, Good, LocalsOK, locks, Goto, ControlOK
<1>7. ServerExcluded'
  BY DEF BeginSync, Start, Good, LocalsOK, locks, serverVars, ServerExcluded
<1>8. QED
  BY <1>1, <1>2, <1>3, <1>4, <1>5, <1>6, <1>7 DEF Good

LEMMA BeginRepoRemoveGood ==
  ASSUME NEW p \in Procs, NEW r \in Repos, Good, BeginRepoRemove(p,r)
  PROVE  Good'
<1>1. RecordsOK'
  BY DEF BeginRepoRemove, Start, holdManagementLock, Good, RecordsOK, records
<1>2. ArtifactsOK'
  BY DEF BeginRepoRemove, Start, holdManagementLock, Good, ArtifactsOK, artifacts
<1>3. ServerOK'
  BY DEF BeginRepoRemove, Start, holdManagementLock, Good, ServerOK, serverVars
<1>4. LocksOK'
  BY DEF BeginRepoRemove, Start, holdManagementLock, Good, LocksOK, LocalsOK, Goto
<1>5. LocalsOK'
  BY DEF BeginRepoRemove, Start, holdManagementLock, Good, LocalsOK, Goto, Labels, Ops
<1>6. \A q \in Procs : ControlOK(q)'
  BY DEF BeginRepoRemove, Start, holdManagementLock, Good, LocalsOK, Goto, ControlOK
<1>7. ServerExcluded'
  BY DEF BeginRepoRemove, Start, holdManagementLock, Good, LocalsOK, serverVars,
    ServerExcluded
<1>8. QED
  BY <1>1, <1>2, <1>3, <1>4, <1>5, <1>6, <1>7 DEF Good

LEMMA withRepositoryLocksGood ==
  ASSUME NEW p \in Procs, Good, withRepositoryLocks(p)
  PROVE  Good'
<1>1. RecordsOK'
  BY DEF withRepositoryLocks, Good, RecordsOK, records
<1>2. ArtifactsOK'
  BY DEF withRepositoryLocks, Good, ArtifactsOK, artifacts
<1>3. ServerOK'
  BY DEF withRepositoryLocks, Good, ServerOK, serverVars
<1>4. LocksOK'
  BY DEF withRepositoryLocks, Good, LocksOK, LocalsOK, locals, Goto
<1>5. LocalsOK'
  BY DEF withRepositoryLocks, Good, LocalsOK, locals, Goto, Labels
<1>6. \A q \in Procs : ControlOK(q)'
  <2>1. /\ \A q \in Procs \ {p} :
            pc'[q] = pc[q] /\ op'[q] = op[q] /\ id'[q] = id[q] /\ st'[q] = st[q]
       /\ pc'[p] \in {"lock", "locked"}
       /\ op'[p] = op[p] /\ id'[p] = id[p]
       /\ st'[p] = st[p]
    BY DEF withRepositoryLocks, Good, LocalsOK, Goto, locals
  <2>2. ControlOK(p)'
    BY <2>1, InHand DEF ControlOK
  <2>3. QED
    BY <2>1, <2>2, OthersControl DEF Good
<1>7. ServerExcluded'
  BY DEF withRepositoryLocks, Good, LocalsOK, locals, serverVars, ServerExcluded
<1>8. QED
  BY <1>1, <1>2, <1>3, <1>4, <1>5, <1>6, <1>7 DEF Good

LEMMA CrashGood ==
  ASSUME NEW p \in Procs, Good, Crash(p)
  PROVE  Good'
<1>1. RecordsOK'
  BY DEF Crash, Good, RecordsOK, records
<1>2. ArtifactsOK'
  BY DEF Crash, Good, ArtifactsOK, artifacts
<1>3. ServerOK'
  BY DEF Crash, Good, ServerOK, serverVars
<1>4. CASE Finish(p)
  BY <1>1, <1>2, <1>3, <1>4, FinishGood DEF Crash, Good, serverVars
<1>5. CASE ~Finish(p)
  <2>1. LocksOK'
    BY <1>5 DEF Crash, Good, LocksOK, LocalsOK
  <2>2. LocalsOK'
    BY <1>5 DEF Crash, Good, LocalsOK, Labels
  <2>3. \A q \in Procs : ControlOK(q)'
    BY <1>5 DEF Crash, Good, LocalsOK, ControlOK
  <2>4. ServerExcluded'
    BY <1>5 DEF Crash, Good, LocalsOK, serverVars, ServerExcluded
  <2>5. QED
    BY <1>1, <1>2, <1>3, <2>1, <2>2, <2>3, <2>4 DEF Good
<1>6. QED
  BY <1>4, <1>5

LEMMA holdServerLockGood ==
  ASSUME Good, holdServerLock
  PROVE  Good'
<1>1. RecordsOK'
  BY DEF holdServerLock, Good, RecordsOK, records
<1>2. ArtifactsOK'
  BY DEF holdServerLock, Good, ArtifactsOK, artifacts
<1>3. ServerOK'
  BY DEF holdServerLock, Good, ServerOK
<1>4. LocksOK'
  BY DEF holdServerLock, Good, LocksOK, LocalsOK, locks, locals
<1>5. LocalsOK'
  BY DEF holdServerLock, Good, LocalsOK, locks, locals, Labels
<1>6. \A q \in Procs : ControlOK(q)'
  BY DEF holdServerLock, Good, LocalsOK, locks, locals, ControlOK
<1>7. ServerExcluded'
  BY DEF holdServerLock, Good, LocalsOK, locks, locals, ServerExcluded
<1>8. QED
  BY <1>1, <1>2, <1>3, <1>4, <1>5, <1>6, <1>7 DEF Good

LEMMA managedConfigGood ==
  ASSUME Good, managedConfig
  PROVE  Good'
<1>1. RecordsOK'
  BY DEF managedConfig, Good, RecordsOK, records
<1>2. ArtifactsOK'
  BY DEF managedConfig, Good, ArtifactsOK, artifacts
<1>3. ServerOK'
  BY DEF managedConfig, Good, ServerOK, MemberSets, NoMembers, RecordsOK
<1>4. LocksOK'
  BY DEF managedConfig, Good, LocksOK, LocalsOK, locks, locals
<1>5. LocalsOK'
  BY DEF managedConfig, Good, LocalsOK, locks, locals, Labels
<1>6. \A q \in Procs : ControlOK(q)'
  BY DEF managedConfig, Good, LocalsOK, locks, locals, ControlOK
<1>7. ServerExcluded'
  BY DEF managedConfig, Good, LocalsOK, locks, locals, ServerExcluded
<1>8. QED
  BY <1>1, <1>2, <1>3, <1>4, <1>5, <1>6, <1>7 DEF Good

LEMMA ServerStopGood ==
  ASSUME Good, ServerStop
  PROVE  Good'
<1>1. RecordsOK'
  BY DEF ServerStop, Good, RecordsOK, records
<1>2. ArtifactsOK'
  BY DEF ServerStop, Good, ArtifactsOK, artifacts
<1>3. ServerOK'
  BY DEF ServerStop, Good, ServerOK, MemberSets, NoMembers, RecordsOK
<1>4. LocksOK'
  BY DEF ServerStop, Good, LocksOK, LocalsOK, locks, locals
<1>5. LocalsOK'
  BY DEF ServerStop, Good, LocalsOK, locks, locals, Labels
<1>6. \A q \in Procs : ControlOK(q)'
  BY DEF ServerStop, Good, LocalsOK, locks, locals, ControlOK
<1>7. ServerExcluded'
  BY DEF ServerStop, Good, LocalsOK, locks, locals, ServerExcluded
<1>8. QED
  BY <1>1, <1>2, <1>3, <1>4, <1>5, <1>6, <1>7 DEF Good

-----------------------------------------------------------------------------
LEMMA InitInv == Init => Inv
<1> SUFFICES ASSUME Init PROVE Inv
  OBVIOUS
<1> USE DEF Init
<1>1. RecordsOK /\ ServerOK
  BY DEF RecordsOK, ServerOK, RepoStates, MemberSets, NoMembers
<1>2. ArtifactsOK
  BY DEF ArtifactsOK, NoCtxs, Arts
<1>3. LocksOK /\ LocalsOK
  BY DEF LocksOK, LocalsOK, Labels, Ops, MemberSets, NoMembers, NoCtxs
<1>4. (\A p \in Procs : ControlOK(p)) /\ ServerExcluded
  BY DEF ControlOK, ServerExcluded
<1>5. faults \in 0..MaxFaults
  BY ConstantsAssumption
<1>6. QED
  BY <1>1, <1>2, <1>3, <1>4, <1>5 DEF Inv, TypeOK

\* Whatever step is taken, of whichever process.
LEMMA NextGood == Good /\ Next => Good'
<1> SUFFICES ASSUME Good, Next PROVE Good'
  OBVIOUS
<1>1. ASSUME NEW p \in Procs, Begin(p) PROVE Good'
  BY <1>1, BeginCreateGood, BeginRetryGood, BeginRemoveGood, BeginAddGood,
    BeginRepoRemoveGood, BeginSyncGood DEF Begin
<1>2. ASSUME NEW p \in Procs, Lock(p) PROVE Good'
  BY <1>2, withRepositoryLocksGood DEF Lock
<1>3. ASSUME NEW p \in Procs, Step(p) PROVE Good'
  <2>1. CASE \/ ReadKnown(p) \/ CreateCheck(p) \/ CreatePut(p) \/ Advance(p)
             \/ verifyContext(p) \/ fail(p)
    BY <2>1, ReadKnownGood, CreateCheckGood, CreatePutGood, AdvanceGood, verifyContextGood,
      failGood
  <2>2. CASE RetryCheck(p) \/ RemoveCheck(p) \/ RemovePut(p) \/ Reenter(p) \/ RemoveDelete(p)
    BY <2>2, RetryCheckGood, RemoveCheckGood, RemovePutGood, ReenterGood, RemoveDeleteGood
  <2>3. CASE AddClone(p) \/ AddPut(p) \/ SyncNext(p) \/ SyncFetch(p) \/ SyncPut(p)
    BY <2>3, AddCloneGood, AddPutGood, SyncNextGood, SyncFetchGood, SyncPutGood
  <2>4. CASE RepoRemoveCheck(p) \/ RepoRemoveClone(p) \/ RepoRemoveDelete(p)
    BY <2>4, RepoRemoveCheckGood, RepoRemoveCloneGood, RepoRemoveDeleteGood
  <2>5. ASSUME NEW r \in Repos,
               \/ prepareSource(p, r) \/ indexGraph(p, r) \/ Discard(p, r)
               \/ IndexList(p, r) \/ IndexRead(p, r)
               \/ IndexWrite(p, r) \/ IndexRefused(p, r)
        PROVE  Good'
    BY <2>5, prepareSourceGood, indexGraphGood, DiscardGood, IndexListGood, IndexReadGood,
      IndexWriteGood, IndexFailsGood DEF IndexRefused
  <2>6. QED
    BY <1>3, <2>1, <2>2, <2>3, <2>4, <2>5 DEF Step
<1>4. ASSUME NEW p \in Procs, Fault(p) PROVE Good'
  <2>1. CASE \/ Crash(p) \/ verifyContextFails(p) \/ AddCloneFails(p)
             \/ SyncFetchFails(p) \/ RepoRemoveCloneFails(p)
    BY <2>1, CrashGood, verifyContextFailsGood, AddCloneFailsGood, SyncFetchFailsGood,
      RepoRemoveCloneFailsGood
  <2>2. ASSUME NEW r \in Repos,
               \/ prepareSourceFails(p, r) \/ indexGraphFails(p, r)
               \/ IndexFails(p, r) \/ DiscardFails(p, r)
        PROVE  Good'
    BY <2>2, prepareSourceFailsGood, indexGraphFailsGood, IndexFailsGood, DiscardFailsGood
  <2>3. QED
    BY <1>4, <2>1, <2>2 DEF Fault
<1>5. CASE Server
  BY <1>5, holdServerLockGood, managedConfigGood, ServerStopGood DEF Server
<1>6. QED
  BY <1>1, <1>2, <1>3, <1>4, <1>5 DEF Next

LEMMA FaultsBounded ==
  ASSUME faults \in 0..MaxFaults, [Next]_vars PROVE faults' \in 0..MaxFaults
<1>1. CASE UNCHANGED vars
  BY <1>1 DEF vars
<1>2. CASE \E p \in Procs : Fault(p)
  BY <1>2, ConstantsAssumption DEF Fault
<1>3. CASE (\E p \in Procs : Begin(p) \/ Lock(p) \/ Step(p)) \/ Server
  BY <1>3 DEF Begin, Lock, Step, Server
<1>4. QED
  BY <1>1, <1>2, <1>3 DEF Next

LEMMA StepInv == Inv /\ [Next]_vars => Inv'
<1> SUFFICES ASSUME Inv, [Next]_vars PROVE Inv'
  OBVIOUS
<1>1. Good
  BY DEF Inv, TypeOK, Good
<1>2. Good'
  <2>1. CASE Next
    BY <1>1, <2>1, NextGood
  <2>2. CASE UNCHANGED vars
    BY <1>1, <2>2 DEF vars, records, artifacts, locks, serverVars, locals, Good, RecordsOK,
      ArtifactsOK, LocksOK, ServerOK, LocalsOK, ControlOK, ServerExcluded
  <2>3. QED
    BY <2>1, <2>2
<1>3. faults' \in 0..MaxFaults
  BY FaultsBounded DEF Inv, TypeOK
<1>4. QED
  BY <1>2, <1>3 DEF Inv, TypeOK, Good

LEMMA Invariance == Spec => []Inv
<1>1. QED
  BY InitInv, StepInv, PTL DEF Spec

\* Every record, artifact, lock and local variable keeps its type, for any
\* numbers of processes, repositories, contexts and commits.
THEOREM TypeCorrect == Spec => []TypeOK
<1>1. Inv => TypeOK
  BY DEF Inv
<1>2. QED
  BY <1>1, Invariance, PTL
-----------------------------------------------------------------------------
\* What a server's snapshot depends on.
Servable == <<cstate, members, wt, ref, shard, graph>>

\* Only a command that shares the server lock touches what a server serves.
LEMMA TouchedByManaged ==
  ASSUME Inv, NEW p \in Procs, Begin(p) \/ Lock(p) \/ Step(p) \/ Fault(p), p \notin mgmt
  PROVE  UNCHANGED Servable
<1> USE DEF Servable, records, artifacts, PutRepository
<1>1. ControlOK(p) /\ op[p] \notin {"create", "retry", "remove", "repo remove"}
  BY DEF Inv, ServerExcluded
<1>2. CASE Begin(p) \/ Lock(p)
  BY <1>2 DEF Begin, Lock, BeginCreate, BeginRetry, BeginRemove, BeginAdd, BeginRepoRemove,
    BeginSync, withRepositoryLocks
<1>3. CASE \/ ReadKnown(p) \/ CreateCheck(p) \/ CreatePut(p) \/ Advance(p)
           \/ verifyContext(p) \/ fail(p)
  BY <1>1, <1>3 DEF ReadKnown, CreateCheck, CreatePut, Advance, verifyContext, fail,
    ControlOK
<1>4. CASE RetryCheck(p) \/ RemoveCheck(p) \/ RemovePut(p) \/ Reenter(p) \/ RemoveDelete(p)
  BY <1>1, <1>4 DEF RetryCheck, RemoveCheck, RemovePut, Reenter, RemoveDelete, ControlOK
<1>5. CASE AddClone(p) \/ AddPut(p) \/ SyncNext(p) \/ SyncFetch(p) \/ SyncPut(p)
  BY <1>5 DEF AddClone, AddPut, SyncNext, SyncFetch, SyncPut
<1>6. CASE RepoRemoveCheck(p) \/ RepoRemoveClone(p) \/ RepoRemoveDelete(p)
  BY <1>1, <1>6 DEF RepoRemoveCheck, RepoRemoveClone, RepoRemoveDelete, ControlOK
<1>7. ASSUME NEW r \in Repos,
             \/ prepareSource(p, r) \/ indexGraph(p, r) \/ Discard(p, r)
             \/ prepareSourceFails(p, r) \/ indexGraphFails(p, r) \/ DiscardFails(p, r)
      PROVE  UNCHANGED Servable
  BY <1>1, <1>7 DEF prepareSource, indexGraph, Discard, prepareSourceFails, indexGraphFails,
    DiscardFails, AtStage, ControlOK
<1>8. ASSUME NEW r \in Repos,
             IndexList(p, r) \/ IndexRead(p, r) \/ IndexWrite(p, r) \/ IndexFails(p, r)
      PROVE  UNCHANGED Servable
  BY <1>1, <1>8 DEF IndexList, IndexRead, IndexWrite, IndexFails, Indexing, AtStage,
    ControlOK
<1>9. CASE \/ Crash(p) \/ verifyContextFails(p) \/ AddCloneFails(p)
           \/ SyncFetchFails(p) \/ RepoRemoveCloneFails(p)
  BY <1>9 DEF Crash, verifyContextFails, AddCloneFails, SyncFetchFails, RepoRemoveCloneFails
<1>10. QED
  BY <1>2, <1>3, <1>4, <1>5, <1>6, <1>7, <1>8, <1>9 DEF Step, Fault, IndexRefused

LEMMA ServedStep ==
  ASSUME Inv, [Next]_vars, server # "down" PROVE UNCHANGED Servable
<1>1. \A p \in Procs : p \notin mgmt
  BY DEF Inv, ServerExcluded
<1>2. CASE UNCHANGED vars
  BY <1>2 DEF vars, records, artifacts, Servable
<1>3. CASE Server
  BY <1>3 DEF Server, holdServerLock, managedConfig, ServerStop, records, artifacts,
    Servable
<1>4. CASE \E p \in Procs : Begin(p) \/ Lock(p) \/ Step(p) \/ Fault(p)
  BY <1>1, <1>4, TouchedByManaged
<1>5. QED
  BY <1>2, <1>3, <1>4 DEF Next

\* Nothing of any context is touched while a server holds its lock, for any
\* numbers of processes, repositories, contexts and commits.
THEOREM ServerExclusion == Spec => ServedUntouched
<1>1. Inv /\ [Next]_vars =>
        (server # "down" => UNCHANGED <<cstate, members, wt, ref, shard, graph>>)
  BY ServedStep DEF Servable
<1>2. QED
  BY <1>1, Invariance, PTL DEF Spec, ServedUntouched
-----------------------------------------------------------------------------
\* The order in which a process comes by its locks: none before it knows which
\* it needs, and while it waits, every one it holds before every one it lacks.
OrderOK(p) ==
  /\ pc[p] \in {"idle", "known", "next"} => \A r \in Repos : lock[r] # p
  /\ pc[p] = "lock" =>
       \A a, b \in Repos : lock[a] = p /\ b \in tgt[p] /\ lock[b] # p => a < b

\* A step that takes no lock and waits for none.
LEMMA OrderKept ==
  ASSUME NEW p \in Procs, LocalsOK, LocalsOK', \A q \in Procs : OrderOK(q), UNCHANGED lock,
         \A q \in Procs \ {p} : pc'[q] = pc[q] /\ tgt'[q] = tgt[q],
         pc'[p] \in {"known", "lock", "next"} => \A r \in Repos : lock[r] # p,
         pc'[p] # "idle"
  PROVE  \A q \in Procs : OrderOK(q)'
BY DEF OrderOK

LEMMA OrderFinish ==
  ASSUME NEW p \in Procs, LocalsOK, \A q \in Procs : OrderOK(q), Finish(p)
  PROVE  \A q \in Procs : OrderOK(q)'
BY ConstantsAssumption DEF OrderOK, Finish, LocalsOK

LEMMA OrderBegin ==
  ASSUME NEW p \in Procs, Good, \A q \in Procs : OrderOK(q), Begin(p)
  PROVE  \A q \in Procs : OrderOK(q)'
<1>1. /\ pc[p] = "idle" /\ UNCHANGED lock
      /\ \E label \in {"known", "lock", "next"} : pc' = [pc EXCEPT ![p] = label]
      /\ \E rs : tgt' = [tgt EXCEPT ![p] = rs]
  BY DEF Begin, BeginCreate, BeginRetry, BeginRemove, BeginAdd, BeginRepoRemove, BeginSync,
    Start, Goto, locks
<1>2. QED
  BY <1>1 DEF OrderOK, Good, LocalsOK

LEMMA OrderLock ==
  ASSUME NEW p \in Procs, Good, \A q \in Procs : OrderOK(q), Lock(p)
  PROVE  \A q \in Procs : OrderOK(q)'
<1>1. PICK r \in Repos :
        /\ NextLock(p, r) /\ lockExclusive(r)
        /\ lock' = [lock EXCEPT ![r] = p]
        /\ \E label \in {"lock", "locked"} : pc' = [pc EXCEPT ![p] = label]
  BY DEF Lock, withRepositoryLocks, Goto
<1>2. UNCHANGED tgt /\ pc[p] = "lock"
  BY DEF Lock, withRepositoryLocks, locals
<1>3. OrderOK(p)'
  <2>1. ASSUME NEW a \in Repos, NEW b \in Repos, lock'[a] = p, b \in tgt[p], lock'[b] # p
        PROVE  a < b
    <3>1. b \in tgt[p] \ held(p) /\ b # r
      BY <1>1, <2>1 DEF held, Good, LocksOK
    <3>2. CASE a = r
      BY <1>1, <3>1, <3>2, ConstantsAssumption DEF NextLock
    <3>3. CASE a # r
      BY <1>1, <1>2, <2>1, <3>1, <3>3 DEF OrderOK, Good, LocksOK, held
    <3>4. QED
      BY <3>2, <3>3
  <2>2. QED
    BY <1>1, <1>2, <2>1 DEF OrderOK, Good, LocalsOK
<1>4. ASSUME NEW q \in Procs \ {p} PROVE OrderOK(q)'
  <2>1. \A a \in Repos : lock'[a] = q <=> lock[a] = q
    BY <1>1, ConstantsAssumption DEF lockExclusive, Good, LocksOK
  <2>2. pc'[q] = pc[q] /\ tgt'[q] = tgt[q]
    BY <1>1, <1>2 DEF Good, LocalsOK
  <2>3. QED
    BY <2>1, <2>2 DEF OrderOK
<1>5. QED
  BY <1>3, <1>4

\* What OrderKept asks of a step of p.
Kept(p) ==
  /\ UNCHANGED lock
  /\ \A q \in Procs \ {p} : pc'[q] = pc[q] /\ tgt'[q] = tgt[q]
  /\ pc'[p] \in {"known", "lock", "next"} => \A r \in Repos : lock[r] # p
  /\ pc'[p] # "idle"

LEMMA StepKept ==
  ASSUME NEW p \in Procs, Good, OrderOK(p), Step(p) \/ Fault(p)
  PROVE  Finish(p) \/ Kept(p) \/ SyncPut(p)
<1> SUFFICES ASSUME ~Finish(p), ~SyncPut(p) PROVE Kept(p)
  OBVIOUS
<1> USE DEF Kept, Goto, locks, locals, Good, LocalsOK
<1>1. CASE CreateCheck(p) \/ CreatePut(p) \/ verifyContext(p) \/ verifyContextFails(p)
  BY <1>1 DEF CreateCheck, CreatePut, verifyContext, verifyContextFails
<1>2. CASE Advance(p)
  BY <1>2 DEF Advance
<1>3. CASE ReadKnown(p) \/ SyncNext(p)
  BY <1>3 DEF ReadKnown, SyncNext, OrderOK
<1>4. CASE RetryCheck(p) \/ RemoveCheck(p) \/ RemovePut(p) \/ Reenter(p)
  BY <1>4 DEF RetryCheck, RemoveCheck, RemovePut, Reenter, Reread
<1>5. CASE AddClone(p) \/ AddCloneFails(p) \/ SyncFetch(p) \/ SyncFetchFails(p)
  BY <1>5 DEF AddClone, AddCloneFails, SyncFetch, SyncFetchFails
<1>6. CASE RepoRemoveCheck(p) \/ RepoRemoveClone(p)
  BY <1>6 DEF RepoRemoveCheck, RepoRemoveClone
<1>7. CASE \/ fail(p) \/ RemoveDelete(p) \/ AddPut(p) \/ RepoRemoveDelete(p)
           \/ Crash(p) \/ RepoRemoveCloneFails(p)
  BY <1>7 DEF fail, RemoveDelete, AddPut, RepoRemoveDelete, Crash, RepoRemoveCloneFails
<1>8. ASSUME NEW r \in Repos,
             \/ prepareSource(p, r) \/ prepareSourceFails(p, r)
             \/ indexGraph(p, r) \/ indexGraphFails(p, r)
      PROVE  Kept(p)
  BY <1>8 DEF prepareSource, prepareSourceFails, indexGraph, indexGraphFails, Done
<1>9. ASSUME NEW r \in Repos, Discard(p, r) \/ DiscardFails(p, r)
      PROVE  Kept(p)
  BY <1>9 DEF Discard, DiscardFails, Done
<1>10. ASSUME NEW r \in Repos, IndexList(p, r) \/ IndexWrite(p, r)
       PROVE  Kept(p)
  BY <1>10 DEF IndexList, IndexWrite, Done
<1>11. ASSUME NEW r \in Repos, IndexRead(p, r) \/ IndexFails(p, r)
       PROVE  Kept(p)
  BY <1>11 DEF IndexRead, IndexFails, IndexError
<1>12. QED
  BY <1>1, <1>2, <1>3, <1>4, <1>5, <1>6, <1>7, <1>8, <1>9, <1>10, <1>11 DEF Step, Fault,
    IndexRefused

LEMMA OrderStep ==
  ASSUME NEW p \in Procs, Good, Good', \A q \in Procs : OrderOK(q), Step(p) \/ Fault(p)
  PROVE  \A q \in Procs : OrderOK(q)'
<1>1. CASE Finish(p)
  BY <1>1, OrderFinish DEF Good
<1>2. CASE Kept(p)
  BY <1>2, OrderKept DEF Kept, Good
<1>3. CASE SyncPut(p) /\ ~Finish(p)
  <2>1. /\ lock' = [r \in Repos |-> IF lock[r] = p THEN None ELSE lock[r]]
        /\ tgt' = [tgt EXCEPT ![p] = {}]
        /\ pc' = [pc EXCEPT ![p] = "next"]
    BY <1>3 DEF SyncPut, Goto
  <2>2. QED
    BY <2>1, ConstantsAssumption DEF OrderOK, Good, LocalsOK
<1>4. QED
  BY <1>1, <1>2, <1>3, StepKept

LEMMA OrderInv == Inv /\ (\A p \in Procs : OrderOK(p)) /\ [Next]_vars => (\A p \in Procs : OrderOK(p))'
<1> SUFFICES ASSUME Inv, \A p \in Procs : OrderOK(p), [Next]_vars
             PROVE  \A p \in Procs : OrderOK(p)'
  OBVIOUS
<1>1. Good /\ Good'
  BY StepInv DEF Inv, TypeOK, Good
<1>2. CASE UNCHANGED vars \/ Server
  BY <1>2 DEF OrderOK, vars, locks, locals, Server, holdServerLock, managedConfig,
    ServerStop
<1>3. ASSUME NEW p \in Procs, Begin(p) \/ Lock(p) \/ Step(p) \/ Fault(p)
      PROVE  \A q \in Procs : OrderOK(q)'
  BY <1>1, <1>3, OrderBegin, OrderLock, OrderStep
<1>4. QED
  BY <1>2, <1>3 DEF Next

\* A set of processes none of which can go on: its greatest lock that one of
\* them waits for is held by another, which waits for a greater one.
LEMMA OrderNoDeadlock ==
  ASSUME Inv, \A p \in Procs : OrderOK(p), IsFiniteSet(Repos)
  PROVE  NoDeadlock
<1> SUFFICES ASSUME NEW S \in (SUBSET Procs) \ {{}}, \A p \in S : \E q \in S : WaitsFor(p, q)
             PROVE  FALSE
  BY DEF NoDeadlock
<1> DEFINE above(r) == {b \in Repos : r < b}
           wanted   == {r \in Repos : \E p, q \in S : pc[p] = "lock" /\ NextLock(p, r) /\ lock[r] = q}
           T        == {above(r) : r \in wanted}
<1>1. wanted # {} /\ T # {}
  <2>1. PICK p \in S, q \in S : WaitsFor(p, q)
    OBVIOUS
  <2>2. PICK r \in Repos : pc[p] = "lock" /\ NextLock(p, r) /\ lock[r] = q
    BY <2>1 DEF WaitsFor
  <2>3. r \in wanted
    BY <2>2
  <2>4. above(r) \in T
    BY <2>3
  <2>5. QED
    BY <2>3, <2>4
<1>2. T \subseteq FiniteSubsetsOf(Repos)
  BY FS_FiniteSubsetsOfFinite
<1>3. PICK x \in T : \A y \in T : ~(<<y, x>> \in StrictSubsetOrdering(Repos))
  BY <1>1, <1>2, FS_StrictSubsetOrderingWellFounded, WFMin
<1>4. PICK r \in wanted : x = above(r)
  OBVIOUS
<1>5. PICK q \in S : lock[r] = q
  BY <1>4
<1>6. PICK b \in wanted : pc[q] = "lock" /\ NextLock(q, b) /\ lock[b] # q
  <2>1. PICK e \in S : WaitsFor(q, e)
    OBVIOUS
  <2>2. PICK b \in Repos : pc[q] = "lock" /\ NextLock(q, b) /\ lock[b] = e
    BY <2>1 DEF WaitsFor
  <2>3. b \in wanted /\ lock[b] # q
    BY <2>2 DEF NextLock, held
  <2>4. QED
    BY <2>2, <2>3
<1>7. r < b
  BY <1>5, <1>6 DEF OrderOK, NextLock, held
<1>8. above(b) \subseteq above(r) /\ above(b) # above(r)
  <2>1. r \in Nat /\ b \in Nat /\ Repos \subseteq Nat
    BY ConstantsAssumption
  <2>2. b \in above(r) /\ b \notin above(b)
    BY <1>7, <2>1
  <2>3. \A a \in Repos : b < a => r < a
    BY <1>7, <2>1
  <2>4. QED
    BY <2>2, <2>3
<1>9. <<above(b), above(r)>> \in StrictSubsetOrdering(Repos)
  BY <1>8 DEF StrictSubsetOrdering
<1>10. QED
  BY <1>3, <1>4, <1>6, <1>9

\* However many commands wait for each other's repositories, some command can
\* go on: the locks are taken in one order.
THEOREM DeadlockFree == ASSUME IsFiniteSet(Repos) PROVE Spec => []NoDeadlock
<1>1. Init => \A p \in Procs : OrderOK(p)
  <2>1. ASSUME Init, NEW p \in Procs PROVE OrderOK(p)
    <3>1. pc[p] = "idle" /\ \A r \in Repos : lock[r] = None
      BY <2>1 DEF Init
    <3>2. QED
      BY <3>1, ConstantsAssumption DEF OrderOK
  <2>2. QED
    BY <2>1
<1>2. Inv /\ (\A p \in Procs : OrderOK(p)) => NoDeadlock
  BY OrderNoDeadlock
<1>3. QED
  BY <1>1, <1>2, OrderInv, Invariance, PTL DEF Spec

--------------------------------------------------------------------------------
(* Records and artifacts                                                       *)

\* Every user who creates c pins it to the same repositories.  Without it two
\* creates of c hold different locks, and the second replaces the first's record
\* (finding_create_twice).
OnePinSet == \A c \in Ctxs : \A P, Q \in PinSets[c] : P = Q

OnContext(p)    == op[p] \in {"create", "retry", "remove"}
OnRepository(p) == op[p] \in {"add", "sync", "repo remove"}

\* p has the locks it asked for, and past its check, a record in hand.
Locked(p)  == op[p] # "none" /\ pc[p] \notin {"known", "lock", "next"}
Working(p) == OnContext(p) /\ pc[p] \notin {"known", "lock", "next", "locked"}

\* Create has not written its record yet.
Creating(p) == op[p] = "create" /\ pc[p] = "put"

IdleOK(p) ==
  /\ pc[p] = "idle" <=> op[p] = "none"
  /\ pc[p] = "next" => op[p] = "sync"
  /\ op[p] = "none" \/ (OnContext(p) /\ ~Working(p)) =>
       mine[p] = NoMembers /\ st[p] = "ABSENT" /\ todo[p] = {}

\* The locks p has are those of the repositories its context is pinned to.
TargetOK(p) ==
  /\ OnContext(p) /\ pc[p] # "known" => tgt[p] \in PinSets[id[p]]
  /\ OnRepository(p) /\ pc[p] # "next" => \E r \in Repos : tgt[p] = {r}
  /\ Locked(p) => tgt[p] \subseteq held(p)
  /\ Working(p) => repositoriesOf(mine[p]) = tgt[p] /\ todo[p] \subseteq tgt[p]

\* What p has in hand is the record as it is.
RecordOK(p) ==
  /\ Working(p) => cstate[id[p]] = st[p]
  /\ Working(p) /\ ~Creating(p) => st[p] # "ABSENT" /\ members[id[p]] = mine[p]
  /\ Creating(p) =>
       st[p] = "ABSENT" /\ \A r \in tgt[p] : repo[r] # "ABSENT" /\ clone[r] # "none"
  /\ op[p] = "remove" /\ Working(p) /\ pc[p] # "put" => st[p] = "REMOVING"
  /\ op[p] = "retry" /\ pc[p] \in {"discard", "reenter"} => st[p] \notin Unretryable
  /\ op[p] # "remove" /\ pc[p] \in {"listed", "indexing"} => st[p] = "INDEXING_SEARCH"
  /\ op[p] = "repo remove" /\ pc[p] \in {"clone", "delete"} => \A r \in tgt[p] : contextsOf(r) = {}

PinnedOK(c) ==
  /\ cstate[c] = "ABSENT" => members[c] = NoMembers
  /\ cstate[c] # "ABSENT" => repositoriesOf(members[c]) \in PinSets[c]

Own(p) == IdleOK(p) /\ TargetOK(p) /\ RecordOK(p)

RecordsInv ==
  /\ \A p \in Procs : Own(p)
  /\ \A c \in Ctxs : PinnedOK(c)
  /\ NoDanglingMember
-----------------------------------------------------------------------------
(* What a step of p leaves alone                                           *)

SameLocals(q) ==
  /\ pc'[q] = pc[q] /\ op'[q] = op[q] /\ id'[q] = id[q] /\ tgt'[q] = tgt[q]
  /\ mine'[q] = mine[q] /\ st'[q] = st[q]
  /\ todo'[q] = todo[q] /\ listed'[q] = listed[q] /\ seen'[q] = seen[q]

\* Another process has what it had, its locks included.
OthersSame(p) ==
  \A q \in Procs \ {p} : SameLocals(q) /\ \A r \in Repos : lock'[r] = q <=> lock[r] = q

LEMMA FinishSame ==
  ASSUME NEW p \in Procs, Good, Finish(p) PROVE OthersSame(p)
BY ConstantsAssumption DEF Finish, OthersSame, SameLocals, Good, LocalsOK

LEMMA BeginSame ==
  ASSUME NEW p \in Procs, Good, Begin(p) \/ Lock(p) PROVE OthersSame(p)
<1> USE DEF OthersSame, SameLocals, Good, LocalsOK, Start, Goto
<1>1. CASE Begin(p)
  <2>1. CASE \E c \in Ctxs : BeginCreate(p, c) \/ BeginRetry(p, c) \/ BeginRemove(p, c)
    BY <2>1 DEF BeginCreate, BeginRetry, BeginRemove
  <2>2. CASE \E r \in Repos : BeginAdd(p, r) \/ BeginRepoRemove(p, r)
    <3>1. ASSUME NEW r \in Repos, BeginAdd(p, r) PROVE OthersSame(p)
      BY <3>1 DEF BeginAdd, locks
    <3>2. ASSUME NEW r \in Repos, BeginRepoRemove(p, r) PROVE OthersSame(p)
      BY <3>2 DEF BeginRepoRemove
    <3>3. QED
      BY <2>2, <3>1, <3>2
  <2>3. CASE BeginSync(p)
    BY <2>3 DEF BeginSync, locks
  <2>4. QED
    BY <1>1, <2>1, <2>2, <2>3 DEF Begin
<1>2. CASE Lock(p)
  BY <1>2, ConstantsAssumption DEF Lock, withRepositoryLocks, lockExclusive, locals, LocksOK
<1>3. QED
  BY <1>1, <1>2

LEMMA StepSame ==
  ASSUME NEW p \in Procs, Good, Step(p) \/ Fault(p) PROVE OthersSame(p)
<1> SUFFICES ASSUME ~Finish(p) PROVE OthersSame(p)
  BY FinishSame
<1> USE DEF OthersSame, SameLocals, Goto, locks, locals, Good, LocalsOK
<1>1. CASE CreateCheck(p) \/ CreatePut(p) \/ verifyContext(p) \/ verifyContextFails(p)
  BY <1>1 DEF CreateCheck, CreatePut, verifyContext, verifyContextFails
<1>2. CASE Advance(p)
  BY <1>2 DEF Advance
<1>3. CASE ReadKnown(p) \/ SyncNext(p)
  BY <1>3 DEF ReadKnown, SyncNext
<1>4. CASE RetryCheck(p) \/ RemoveCheck(p) \/ RemovePut(p) \/ Reenter(p)
  BY <1>4 DEF RetryCheck, RemoveCheck, RemovePut, Reenter, Reread
<1>5. CASE AddClone(p) \/ AddCloneFails(p) \/ SyncFetch(p) \/ SyncFetchFails(p)
  BY <1>5 DEF AddClone, AddCloneFails, SyncFetch, SyncFetchFails
<1>6. CASE RepoRemoveCheck(p) \/ RepoRemoveClone(p)
  BY <1>6 DEF RepoRemoveCheck, RepoRemoveClone
<1>7. CASE SyncPut(p)
  BY <1>7, ConstantsAssumption DEF SyncPut
<1>8. CASE \/ fail(p) \/ RemoveDelete(p) \/ AddPut(p) \/ RepoRemoveDelete(p)
           \/ Crash(p) \/ RepoRemoveCloneFails(p)
  BY <1>8 DEF fail, RemoveDelete, AddPut, RepoRemoveDelete, Crash, RepoRemoveCloneFails
<1>9. ASSUME NEW r \in Repos,
             \/ prepareSource(p, r) \/ prepareSourceFails(p, r)
             \/ indexGraph(p, r) \/ indexGraphFails(p, r)
      PROVE  OthersSame(p)
  BY <1>9 DEF prepareSource, prepareSourceFails, indexGraph, indexGraphFails, Done
<1>10. ASSUME NEW r \in Repos, Discard(p, r) \/ DiscardFails(p, r)
       PROVE  OthersSame(p)
  BY <1>10 DEF Discard, DiscardFails, Done
<1>11. ASSUME NEW r \in Repos, IndexList(p, r) \/ IndexWrite(p, r)
       PROVE  OthersSame(p)
  BY <1>11 DEF IndexList, IndexWrite, Done
<1>12. ASSUME NEW r \in Repos, IndexRead(p, r) \/ IndexFails(p, r)
       PROVE  OthersSame(p)
  BY <1>12 DEF IndexRead, IndexFails, IndexError
<1>13. QED
  BY <1>1, <1>2, <1>3, <1>4, <1>5, <1>6, <1>7, <1>8, <1>9, <1>10, <1>11, <1>12 DEF Step,
    Fault, IndexRefused
-----------------------------------------------------------------------------
(* What a step of p writes                                                 *)

\* p writes the record of its context, with the members it has in hand.
ContextWrite(p) ==
  /\ Working(p)
  /\ \E s \in CtxStates \cup {"ABSENT"} :
       /\ PutContext(id[p], IF s = "ABSENT" THEN NoMembers ELSE mine[p], s)
       /\ LifecycleStep(st[p], s)
       /\ s = "ABSENT" => op[p] = "remove" /\ pc[p] = "delete"
       /\ s = "READY" => st[p] = "VERIFYING" /\ pc[p] = "advance"
  /\ UNCHANGED clone

\* p writes the record or the clone of the repository it has the lock of, in a
\* way the contexts of that repository can live with.
RepositoryWrite(p) ==
  /\ OnRepository(p) /\ Locked(p)
  /\ UNCHANGED <<cstate, members>>
  /\ \E r \in tgt[p] :
       /\ \A x \in Repos \ {r} : repo'[x] = repo[x] /\ clone'[x] = clone[x]
       /\ contextsOf(r) = {} \/ (repo'[r] # "ABSENT" /\ clone'[r] = clone[r])

NothingWritten == UNCHANGED <<repo, cstate, members, clone>>

\* Each stage by the name of the one it follows.
LEMMA FollowingNames ==
  /\ Following("CREATING") = "RESOLVING"
  /\ Following("RESOLVING") = "PREPARING_SOURCE"
  /\ Following("PREPARING_SOURCE") = "INDEXING_SEARCH"
  /\ Following("INDEXING_SEARCH") = "INDEXING_GRAPH"
  /\ Following("INDEXING_GRAPH") = "VERIFYING"
  /\ Following("VERIFYING") = "READY"
<1>1. \A i, j \in 1..6 : Lifecycle[i] = Lifecycle[j] => i = j
  BY DEF Lifecycle
<1>2. \A i \in 1..6 : Following(Lifecycle[i]) = Lifecycle[i + 1]
  BY <1>1 DEF Following
<1>3. QED
  BY <1>2 DEF Lifecycle

LEMMA WritesOfContexts ==
  ASSUME NEW p \in Procs, Good, Own(p),
         \/ CreatePut(p) \/ Advance(p) \/ fail(p) \/ RemovePut(p) \/ Reenter(p)
         \/ RemoveDelete(p)
  PROVE  ContextWrite(p)
<1>1. ControlOK(p) /\ RecordOK(p)
  BY InHand DEF Own
<1> USE <1>1 DEF ControlOK, RecordOK, Working, OnContext, Creating, ContextWrite, LifecycleStep,
         artifacts, DeleteContext, advances, Settled, Unretryable
<1>2. CASE CreatePut(p)
  BY <1>2, StateNames DEF CreatePut
<1>3. CASE Advance(p)
  <2>1. /\ st[p] \in Stages /\ Following(st[p]) \in CtxStates /\ Following(st[p]) # "ABSENT"
        /\ Following(st[p]) = "READY" => st[p] = "VERIFYING"
    BY <1>3, StateNames, FollowingNames DEF Advance
  <2>2. QED
    BY <1>3, <2>1, StateNames DEF Advance
<1>4. CASE fail(p)
  BY <1>4, StateNames DEF fail
<1>5. CASE RemovePut(p)
  BY <1>5, StateNames DEF RemovePut
<1>6. CASE Reenter(p)
  BY <1>6, StateNames DEF Reenter
<1>7. CASE RemoveDelete(p)
  BY <1>7, StateNames DEF RemoveDelete
<1>8. QED
  BY <1>2, <1>3, <1>4, <1>5, <1>6, <1>7

LEMMA WritesOfRepositories ==
  ASSUME NEW p \in Procs, Good, Own(p), NoDanglingMember,
         \/ AddClone(p) \/ AddCloneFails(p) \/ AddPut(p) \/ SyncPut(p)
         \/ RepoRemoveClone(p) \/ RepoRemoveDelete(p) \/ RepoRemoveCloneFails(p)
  PROVE  RepositoryWrite(p)
<1>1. ControlOK(p) /\ RecordOK(p) /\ tgt[p] \subseteq Repos
  BY InHand DEF Own
<1>2. \A r \in Repos : repo[r] = "ABSENT" => contextsOf(r) = {}
  BY DEF NoDanglingMember, contextsOf, repositoriesOf
<1>3. repo \in [Repos -> RepoStates] /\ clone \in [Repos -> {"none", "partial", "whole"}]
  BY DEF Good, RecordsOK, ArtifactsOK
<1> USE DEF OnRepository, Locked, RepositoryWrite, artifacts, records, PutRepository
<1>4. CASE AddClone(p)
  BY <1>1, <1>2, <1>3, <1>4 DEF AddClone
<1>5. CASE AddCloneFails(p)
  BY <1>1, <1>2, <1>3, <1>5 DEF AddCloneFails
<1>6. CASE AddPut(p)
  BY <1>1, <1>3, <1>6 DEF AddPut, ControlOK
<1>7. CASE SyncPut(p)
  BY <1>1, <1>3, <1>7 DEF SyncPut, ControlOK
<1>8. CASE RepoRemoveClone(p)
  BY <1>1, <1>3, <1>8 DEF RepoRemoveClone, ControlOK, RecordOK
<1>9. CASE RepoRemoveDelete(p)
  BY <1>1, <1>3, <1>9 DEF RepoRemoveDelete, RecordOK
<1>10. CASE RepoRemoveCloneFails(p)
  BY <1>1, <1>3, <1>10 DEF RepoRemoveCloneFails, ControlOK, RecordOK
<1>11. QED
  BY <1>4, <1>5, <1>6, <1>7, <1>8, <1>9, <1>10

LEMMA StepWrites ==
  ASSUME NEW p \in Procs, Good, Own(p), NoDanglingMember,
         Begin(p) \/ Lock(p) \/ Step(p) \/ Fault(p)
  PROVE  ContextWrite(p) \/ RepositoryWrite(p) \/ NothingWritten
<1> USE DEF NothingWritten, records, artifacts
<1>1. CASE Begin(p) \/ Lock(p)
  BY <1>1 DEF Begin, BeginCreate, BeginRetry, BeginRemove, BeginAdd, BeginRepoRemove,
    BeginSync, Lock, withRepositoryLocks
<1>2. CASE \/ CreatePut(p) \/ Advance(p) \/ fail(p) \/ RemovePut(p) \/ Reenter(p)
           \/ RemoveDelete(p)
  BY <1>2, WritesOfContexts
<1>3. CASE \/ AddClone(p) \/ AddCloneFails(p) \/ AddPut(p) \/ SyncPut(p)
           \/ RepoRemoveClone(p) \/ RepoRemoveDelete(p) \/ RepoRemoveCloneFails(p)
  BY <1>3, WritesOfRepositories
<1>4. CASE \/ ReadKnown(p) \/ CreateCheck(p) \/ RetryCheck(p) \/ RemoveCheck(p)
           \/ SyncNext(p) \/ SyncFetch(p) \/ SyncFetchFails(p) \/ RepoRemoveCheck(p)
           \/ verifyContext(p) \/ verifyContextFails(p) \/ Crash(p)
  BY <1>4 DEF ReadKnown, CreateCheck, RetryCheck, RemoveCheck, SyncNext, SyncFetch,
    SyncFetchFails, RepoRemoveCheck, verifyContext, verifyContextFails, Crash
<1>5. ASSUME NEW r \in Repos,
             \/ prepareSource(p, r) \/ prepareSourceFails(p, r)
             \/ indexGraph(p, r) \/ indexGraphFails(p, r)
             \/ Discard(p, r) \/ DiscardFails(p, r)
             \/ IndexList(p, r) \/ IndexRead(p, r) \/ IndexWrite(p, r) \/ IndexFails(p, r)
      PROVE  NothingWritten
  BY <1>5 DEF prepareSource, prepareSourceFails, indexGraph, indexGraphFails, Discard,
    DiscardFails, IndexList, IndexRead, IndexWrite, IndexFails
<1>6. QED
  BY <1>1, <1>2, <1>3, <1>4, <1>5 DEF Step, Fault, IndexRefused
-----------------------------------------------------------------------------
(* The other processes                                                     *)

\* Two processes that both work on one context are one: each has every lock of
\* its repositories, and it has some.
LEMMA OneWorker ==
  ASSUME OnePinSet, Good, NEW p \in Procs, NEW q \in Procs, TargetOK(p), TargetOK(q),
         Working(p), Working(q), id[p] = id[q]
  PROVE  p = q
<1>1. id[p] \in Ctxs /\ id[q] \in Ctxs
  BY InHand DEF Working, OnContext
<1>2. tgt[p] \in PinSets[id[p]] /\ tgt[q] \in PinSets[id[p]]
  BY DEF TargetOK, Working
<1>3. tgt[p] = tgt[q] /\ tgt[p] # {}
  <2>1. \A P, Q \in PinSets[id[p]] : P = Q
    BY <1>1 DEF OnePinSet
  <2>2. {} \notin PinSets[id[p]]
    BY <1>1, ConstantsAssumption
  <2>3. QED
    BY <1>2, <2>1, <2>2
<1>4. tgt[p] \subseteq held(p) /\ tgt[q] \subseteq held(q)
  BY <1>1 DEF TargetOK, Working, Locked, OnContext
<1>5. QED
  BY <1>3, <1>4 DEF held

\* What a record says of the repositories p does not have the lock of is not
\* changed by a step of p.
LEMMA MembersElsewhere ==
  ASSUME Good, NEW p \in Procs, Own(p), ContextWrite(p), NEW r \in Repos, lock[r] # p,
         \A c \in Ctxs : PinnedOK(c), NEW c \in Ctxs
  PROVE  members'[c][r] = members[c][r] /\ (members[c][r] # None => cstate'[c] = cstate[c])
<1>1. PICK s \in CtxStates \cup {"ABSENT"} :
        PutContext(id[p], IF s = "ABSENT" THEN NoMembers ELSE mine[p], s)
  BY DEF ContextWrite
<1>2. CASE c # id[p]
  BY <1>1, <1>2 DEF PutContext, Good, RecordsOK
<1>3. CASE c = id[p]
  <2>1. mine[p][r] = None
    BY DEF Own, TargetOK, ContextWrite, Working, Locked, OnContext, held, repositoriesOf
  <2>2. members[c][r] = None
    BY <1>3, <2>1, StateNames DEF Own, RecordOK, ContextWrite, PinnedOK, NoMembers, Creating
  <2>3. members'[c][r] = None
    BY <1>1, <1>3, <2>1 DEF PutContext, NoMembers, Good, RecordsOK
  <2>4. QED
    BY <2>2, <2>3
<1>4. QED
  BY <1>2, <1>3

LEMMA ContextsElsewhere ==
  ASSUME Good, NEW p \in Procs, Own(p), ContextWrite(p), NEW r \in Repos, lock[r] # p,
         \A c \in Ctxs : PinnedOK(c)
  PROVE  contextsOf(r)' = contextsOf(r)
<1>1. ASSUME NEW c \in Ctxs
      PROVE  cstate'[c] # "ABSENT" /\ members'[c][r] # None
               <=> cstate[c] # "ABSENT" /\ members[c][r] # None
  BY MembersElsewhere
<1>2. QED
  BY <1>1 DEF contextsOf

\* A step of p is nothing to the others: what they have in hand is still so.
LEMMA OthersOwn ==
  ASSUME OnePinSet, Good, NEW p \in Procs, NEW q \in Procs \ {p}, Own(p), Own(q),
         \A c \in Ctxs : PinnedOK(c), OthersSame(p),
         ContextWrite(p) \/ RepositoryWrite(p) \/ NothingWritten
  PROVE  Own(q)'
<1>1. SameLocals(q) /\ held(q)' = held(q)
  BY DEF OthersSame, held
<1> USE <1>1 DEF SameLocals, OnContext, OnRepository, Locked, Working, Creating
<1>2. IdleOK(q)'
  BY DEF Own, IdleOK
<1>3. TargetOK(q)'
  BY DEF Own, TargetOK
<1>4. RecordOK(q)'
  <2>1. CASE NothingWritten
    <3>1. UNCHANGED <<repo, clone, cstate, members>> /\ RecordOK(q)
      BY <2>1 DEF Own, NothingWritten
    <3>2. \A r : contextsOf(r)' = contextsOf(r)
      BY <3>1 DEF contextsOf
    <3>3. QED
      BY <3>1, <3>2 DEF RecordOK
  <2>2. CASE RepositoryWrite(p)
    <3>1. ASSUME NEW r \in tgt[q], Locked(q) PROVE repo'[r] = repo[r] /\ clone'[r] = clone[r]
      <4>1. r \in held(q) /\ tgt[p] \subseteq held(p)
        BY <3>1, <2>2 DEF Own, TargetOK, RepositoryWrite
      <4>2. QED
        BY <2>2, <4>1 DEF RepositoryWrite, held
    <3>2. UNCHANGED <<cstate, members>>
      BY <2>2 DEF RepositoryWrite
    <3>3. (\A r : contextsOf(r)' = contextsOf(r)) /\ RecordOK(q)
      BY <3>2 DEF Own, contextsOf
    <3>4. QED
      BY <3>1, <3>2, <3>3 DEF RecordOK
  <2>3. CASE ContextWrite(p)
    <3>1. Working(q) => cstate'[id[q]] = cstate[id[q]] /\ members'[id[q]] = members[id[q]]
      <4>1. Working(q) => id[p] # id[q]
        BY <2>3, OneWorker DEF ContextWrite, Own
      <4>2. Working(q) => id[q] \in Ctxs
        BY InHand
      <4>3. QED
        BY <2>3, <4>1, <4>2 DEF ContextWrite, PutContext, Good, RecordsOK
    <3>2. UNCHANGED <<repo, clone>>
      BY <2>3 DEF ContextWrite, PutContext
    <3>3. ASSUME NEW r \in tgt[q], op[q] = "repo remove" /\ pc[q] \in {"clone", "delete"}
          PROVE  contextsOf(r)' = contextsOf(r)
      <4>1. r \in Repos /\ lock[r] # p
        BY <3>3 DEF Own, TargetOK, held
      <4>2. QED
        BY <2>3, <4>1, ContextsElsewhere
    <3>4. RecordOK(q)
      BY DEF Own
    <3>5. QED
      BY <3>1, <3>2, <3>3, <3>4 DEF RecordOK
  <2>4. QED
    BY <2>1, <2>2, <2>3
<1>5. QED
  BY <1>2, <1>3, <1>4 DEF Own

LEMMA PinnedKept ==
  ASSUME Good, NEW p \in Procs, Own(p), \A c \in Ctxs : PinnedOK(c),
         ContextWrite(p) \/ RepositoryWrite(p) \/ NothingWritten
  PROVE  \A c \in Ctxs : PinnedOK(c)'
<1>1. CASE RepositoryWrite(p) \/ NothingWritten
  BY <1>1 DEF PinnedOK, RepositoryWrite, NothingWritten
<1>2. CASE ContextWrite(p)
  <2>1. repositoriesOf(mine[p]) \in PinSets[id[p]]
    BY <1>2 DEF Own, TargetOK, ContextWrite, Working
  <2>2. QED
    BY <1>2, <2>1 DEF PinnedOK, ContextWrite, PutContext, Good, RecordsOK
<1>3. QED
  BY <1>1, <1>2

LEMMA DanglingKept ==
  ASSUME Good, NEW p \in Procs, Own(p), NoDanglingMember,
         ContextWrite(p) \/ RepositoryWrite(p) \/ NothingWritten
  PROVE  NoDanglingMember'
<1>1. CASE NothingWritten
  BY <1>1 DEF NoDanglingMember, NothingWritten
<1>2. CASE RepositoryWrite(p)
  BY <1>2 DEF NoDanglingMember, RepositoryWrite, contextsOf, repositoriesOf
<1>3. CASE ContextWrite(p)
  <2>1. ASSUME NEW r \in repositoriesOf(mine[p]) PROVE repo[r] # "ABSENT" /\ clone[r] # "none"
    <3>1. CASE Creating(p)
      BY <1>3, <3>1 DEF Own, RecordOK, TargetOK, ContextWrite
    <3>2. CASE ~Creating(p)
      <4>1. id[p] \in Ctxs /\ cstate[id[p]] # "ABSENT" /\ members[id[p]] = mine[p]
        BY <1>3, <3>2, InHand DEF Own, RecordOK, ContextWrite, Working, OnContext
      <4>2. QED
        BY <4>1 DEF NoDanglingMember
    <3>3. QED
      BY <3>1, <3>2
  <2>2. UNCHANGED <<repo, clone>>
    BY <1>3 DEF ContextWrite, PutContext
  <2>3. QED
    BY <1>3, <2>1, <2>2 DEF NoDanglingMember, ContextWrite, PutContext, Good, RecordsOK
<1>4. QED
  BY <1>1, <1>2, <1>3
-----------------------------------------------------------------------------
(* The process itself                                                      *)

\* The labels of a command that is at work on its context.
Running == {"advance", "stage", "index", "listed", "indexing", "discard", "reenter",
            "fail", "delete"}

LEMMA FinishOwn ==
  ASSUME NEW p \in Procs, Good, Finish(p) PROVE Own(p)'
BY DEF Finish, Own, IdleOK, TargetOK, RecordOK, OnContext, OnRepository, Locked, Working,
  Creating, Good, LocalsOK

\* A step that only moves p on in its command.
LEMMA MoveOwn ==
  ASSUME NEW p \in Procs, Good, Own(p), OnContext(p),
         UNCHANGED <<cstate, members, lock, op, id, tgt, mine, st>>,
         pc[p] \in Running, pc'[p] \in Running, todo'[p] \subseteq tgt[p],
         op[p] = "retry" /\ pc'[p] \in {"discard", "reenter"} => pc[p] = "discard",
         op[p] # "remove" /\ pc'[p] \in {"listed", "indexing"} => st[p] = "INDEXING_SEARCH"
  PROVE  Own(p)'
<1> USE DEF Own, OnContext, OnRepository, Locked, Working, Creating, Running
<1>1. IdleOK(p)'
  BY DEF IdleOK
<1>2. TargetOK(p)'
  BY DEF TargetOK, held, repositoriesOf
<1>3. RecordOK(p)'
  BY DEF RecordOK
<1>4. QED
  BY <1>1, <1>2, <1>3

LEMMA BuildingOwn ==
  ASSUME NEW p \in Procs, Good, Own(p), NEW r \in Repos,
         \/ prepareSource(p, r) \/ prepareSourceFails(p, r)
         \/ indexGraph(p, r) \/ indexGraphFails(p, r)
         \/ verifyContext(p) \/ verifyContextFails(p)
  PROVE  Own(p)'
<1>1. /\ pc[p] = "stage" /\ pc'[p] \in {"stage", "advance", "fail"}
      /\ todo'[p] \subseteq todo[p]
      /\ UNCHANGED <<cstate, members, lock, op, id, tgt, mine, st>>
  BY DEF prepareSource, prepareSourceFails, indexGraph, indexGraphFails, verifyContext,
    verifyContextFails, AtStage, Done, Goto, records, locks, locals, Good, LocalsOK
<1>2. OnContext(p)
  BY <1>1, InHand DEF ControlOK, OnContext
<1>3. todo[p] \subseteq tgt[p]
  BY <1>1, <1>2 DEF Own, TargetOK, Working
<1>4. QED
  BY <1>1, <1>2, <1>3, MoveOwn DEF Running

LEMMA DiscardOwn ==
  ASSUME NEW p \in Procs, Good, Own(p), NEW r \in Repos, Discard(p, r) \/ DiscardFails(p, r)
  PROVE  Own(p)'
<1>1. CASE Finish(p)
  BY <1>1, FinishOwn
<1>2. CASE ~Finish(p)
  <2>1. OnContext(p) /\ pc[p] = "discard"
    BY InHand DEF Discard, DiscardFails, ControlOK, OnContext
  <2>2. todo[p] \subseteq tgt[p] /\ repositoriesOf(mine[p]) = tgt[p]
    BY <2>1 DEF Own, TargetOK, Working
  <2>3. /\ pc'[p] \in {"discard", "index", "reenter"}
        /\ todo'[p] \subseteq todo[p] \cup repositoriesOf(mine[p])
        /\ UNCHANGED <<cstate, members, lock, op, id, tgt, mine, st>>
    BY <1>2 DEF Discard, DiscardFails, Done, Goto, records, locks, Good, LocalsOK
  <2>4. QED
    BY <2>1, <2>2, <2>3, MoveOwn DEF Running
<1>3. QED
  BY <1>1, <1>2

LEMMA IndexOwn ==
  ASSUME NEW p \in Procs, Good, Own(p), NEW r \in Repos,
         IndexList(p, r) \/ IndexRead(p, r) \/ IndexWrite(p, r) \/ IndexFails(p, r)
  PROVE  Own(p)'
<1>1. CASE Finish(p)
  BY <1>1, FinishOwn
<1>2. CASE ~Finish(p)
  <2>1. /\ pc[p] \in {"index", "listed", "indexing", "stage"}
        /\ pc[p] = "stage" => st[p] = "INDEXING_SEARCH"
    BY DEF IndexList, IndexRead, IndexWrite, IndexFails, Indexing, AtStage
  <2>2. OnContext(p) /\ (op[p] # "remove" => st[p] = "INDEXING_SEARCH")
    BY <2>1, InHand DEF ControlOK, OnContext, Own, RecordOK
  <2>3. todo[p] \subseteq tgt[p]
    BY <2>1, <2>2 DEF Own, TargetOK, Working
  <2>4. /\ pc'[p] \in {"listed", "indexing", "stage", "advance", "index", "delete", "fail"}
        /\ todo'[p] \subseteq todo[p]
        /\ UNCHANGED <<cstate, members, lock, op, id, tgt, mine, st>>
    BY <1>2 DEF IndexList, IndexRead, IndexWrite, IndexFails, IndexError, Done, Goto,
      records, locks, locals, Good, LocalsOK
  <2>5. QED
    BY <2>1, <2>2, <2>3, <2>4, MoveOwn DEF Running
<1>3. QED
  BY <1>1, <1>2

\* The writes of a context's record that the command goes on after.
LEMMA PutOwn ==
  ASSUME NEW p \in Procs, Good, Own(p), CreatePut(p) \/ Advance(p) \/ RemovePut(p) \/ Reenter(p)
  PROVE  Own(p)'
<1>1. CASE Finish(p)
  BY <1>1, FinishOwn
<1>2. CASE ~Finish(p)
  <2>1. /\ OnContext(p) /\ Working(p) /\ id[p] \in Ctxs
        /\ RecordOK(p) /\ TargetOK(p)
    BY InHand DEF CreatePut, Advance, RemovePut, Reenter, ControlOK, OnContext, Working, Own
  <2>2. /\ cstate'[id[p]] = st'[p] /\ st'[p] # "ABSENT" /\ members'[id[p]] = mine[p]
        /\ UNCHANGED <<lock, op, id, tgt, mine>>
        /\ pc'[p] \in {"advance", "stage", "discard"}
        /\ todo'[p] \subseteq todo[p] \cup repositoriesOf(mine[p])
    <3>1. CASE Advance(p)
      <4>1. Following(st[p]) # "ABSENT"
        BY <3>1, InHand, FollowingType, StateNames DEF Advance, ControlOK
      <4>2. QED
        BY <1>2, <2>1, <3>1, <4>1 DEF Advance, PutContext, Goto, locks, Good, RecordsOK, LocalsOK
    <3>2. CASE CreatePut(p) \/ RemovePut(p) \/ Reenter(p)
      BY <2>1, <3>2 DEF CreatePut, RemovePut, Reenter, PutContext, Goto, locks, Good,
        RecordsOK, LocalsOK
    <3>3. QED
      BY <3>1, <3>2
  <2>3. /\ pc'[p] = "discard" => op[p] = "remove" /\ st'[p] = "REMOVING"
        /\ op[p] = "remove" => pc'[p] = "discard"
    BY <1>2, InHand DEF CreatePut, Advance, RemovePut, Reenter, Goto, ControlOK, Good,
      LocalsOK
  <2>4. IdleOK(p)'
    BY <2>1, <2>2 DEF IdleOK, OnContext, Working
  <2>5. TargetOK(p)'
    BY <2>1, <2>2 DEF TargetOK, OnContext, OnRepository, Working, Locked, held,
      repositoriesOf
  <2>6. RecordOK(p)'
    BY <2>1, <2>2, <2>3 DEF RecordOK, Working, OnContext, Creating
  <2>7. QED
    BY <2>4, <2>5, <2>6 DEF Own
<1>3. QED
  BY <1>1, <1>2

LEMMA BeginOwn ==
  ASSUME NEW p \in Procs, Good, Own(p), Begin(p)
  PROVE  Own(p)'
<1>1. /\ pc[p] = "idle" /\ op[p] = "none"
      /\ UNCHANGED <<mine, st>> /\ mine[p] = NoMembers /\ st[p] = "ABSENT"
      /\ todo[p] = {} /\ (op'[p] = "sync" \/ UNCHANGED todo)
  BY DEF Begin, BeginCreate, BeginRetry, BeginRemove, BeginAdd, BeginRepoRemove, BeginSync,
    Start, Own, IdleOK, Good, LocalsOK
<1>2. \/ op'[p] = "create" /\ pc'[p] = "lock" /\ tgt'[p] \in PinSets[id'[p]]
      \/ op'[p] \in {"retry", "remove"} /\ pc'[p] = "known"
      \/ op'[p] \in {"add", "repo remove"} /\ pc'[p] = "lock" /\ \E r \in Repos : tgt'[p] = {r}
      \/ op'[p] = "sync" /\ pc'[p] = "next"
  BY DEF Begin, BeginCreate, BeginRetry, BeginRemove, BeginAdd, BeginRepoRemove, BeginSync,
    Start, Goto, Good, LocalsOK
<1>3. IdleOK(p)'
  BY <1>1, <1>2 DEF IdleOK, OnContext, Working
<1>4. TargetOK(p)'
  BY <1>2 DEF TargetOK, OnContext, OnRepository, Locked, Working
<1>5. RecordOK(p)'
  BY <1>2 DEF RecordOK, OnContext, Creating, Working
<1>6. QED
  BY <1>3, <1>4, <1>5 DEF Own

LEMMA LockOwn ==
  ASSUME NEW p \in Procs, Good, Own(p), Lock(p)
  PROVE  Own(p)'
<1>1. PICK r \in Repos :
        /\ lock' = [lock EXCEPT ![r] = p]
        /\ pc' = [pc EXCEPT ![p] = IF tgt[p] \subseteq held(p) \cup {r} THEN "locked" ELSE "lock"]
  BY DEF Lock, withRepositoryLocks, Goto
<1>2. pc[p] = "lock" /\ UNCHANGED <<op, id, tgt, mine, st, todo>>
  BY DEF Lock, withRepositoryLocks, locals
<1>3. \/ pc'[p] = "lock"
      \/ pc'[p] = "locked" /\ tgt[p] \subseteq held(p)'
  BY <1>1 DEF Good, LocksOK, LocalsOK, held
<1>4. IdleOK(p)'
  BY <1>2, <1>3 DEF Own, IdleOK, OnContext, Working
<1>5. TargetOK(p)'
  BY <1>2, <1>3 DEF Own, TargetOK, OnContext, OnRepository, Locked, Working, held
<1>6. RecordOK(p)'
  BY <1>2, <1>3 DEF Own, RecordOK, OnContext, Creating, Working
<1>7. QED
  BY <1>4, <1>5, <1>6 DEF Own

LEMMA ReadKnownOwn ==
  ASSUME NEW p \in Procs, Good, Own(p), \A c \in Ctxs : PinnedOK(c), ReadKnown(p)
  PROVE  Own(p)'
<1>1. CASE Finish(p)
  BY <1>1, FinishOwn
<1>2. CASE ~Finish(p)
  <2>1. /\ pc[p] = "known" /\ op[p] \in {"retry", "remove"} /\ id[p] \in Ctxs
    BY InHand DEF ReadKnown, ControlOK
  <2>2. /\ UNCHANGED <<op, id, mine, st, todo>>
        /\ pc'[p] = "lock" /\ tgt'[p] = repositoriesOf(members[id[p]])
        /\ cstate[id[p]] # "ABSENT"
    BY <1>2 DEF ReadKnown, Goto, Good, LocalsOK
  <2>3. repositoriesOf(members[id[p]]) \in PinSets[id[p]]
    BY <2>1, <2>2 DEF PinnedOK
  <2>4. IdleOK(p)'
    BY <2>1, <2>2 DEF Own, IdleOK, OnContext, Working
  <2>5. TargetOK(p)'
    BY <2>1, <2>2, <2>3 DEF TargetOK, OnContext, OnRepository, Locked, Working
  <2>6. RecordOK(p)'
    BY <2>1, <2>2 DEF RecordOK, OnContext, Creating, Working
  <2>7. QED
    BY <2>4, <2>5, <2>6 DEF Own
<1>3. QED
  BY <1>1, <1>2

LEMMA CreateCheckOwn ==
  ASSUME NEW p \in Procs, Good, Own(p), CreateCheck(p)
  PROVE  Own(p)'
<1>1. CASE Finish(p)
  BY <1>1, FinishOwn
<1>2. CASE ~Finish(p)
  <2>1. /\ pc[p] = "locked" /\ op[p] = "create" /\ cstate[id[p]] = "ABSENT"
        /\ \A r \in tgt[p] : repo[r] # "ABSENT" /\ clone[r] # "none"
        /\ UNCHANGED <<records, artifacts, lock, op, id, tgt, st, todo>>
    BY <1>2 DEF CreateCheck, locks
  <2>2. pc'[p] = "put" /\ repositoriesOf(mine'[p]) = tgt[p]
    <3>1. PICK rev \in [tgt[p] -> Revs] :
            mine' = [mine EXCEPT ![p] = [r \in Repos |-> IF r \in tgt[p] THEN rev[r] ELSE None]]
      BY <1>2 DEF CreateCheck
    <3>2. \A r \in Repos : mine'[p][r] = IF r \in tgt[p] THEN rev[r] ELSE None
      BY <3>1 DEF Good, LocalsOK
    <3>3. \A r \in tgt[p] : rev[r] # None
      BY ConstantsAssumption
    <3>4. repositoriesOf(mine'[p]) = tgt[p]
      BY <3>2, <3>3, InHand DEF repositoriesOf
    <3>5. QED
      BY <1>2, <3>4 DEF CreateCheck, Goto, Good, LocalsOK
  <2>3. st[p] = "ABSENT" /\ todo[p] \subseteq tgt[p]
    BY <2>1 DEF Own, IdleOK, OnContext, Working
  <2>4. IdleOK(p)'
    BY <2>1, <2>2 DEF Own, IdleOK, OnContext, Working
  <2>5. TargetOK(p)'
    BY <2>1, <2>2, <2>3 DEF Own, TargetOK, OnContext, OnRepository, Locked, Working, held,
      repositoriesOf
  <2>6. RecordOK(p)'
    BY <2>1, <2>2, <2>3 DEF RecordOK, OnContext, Creating, Working, records, artifacts
  <2>7. QED
    BY <2>4, <2>5, <2>6 DEF Own
<1>3. QED
  BY <1>1, <1>2

LEMMA RereadOwn ==
  ASSUME NEW p \in Procs, OnePinSet, Good, Own(p), \A c \in Ctxs : PinnedOK(c),
         RetryCheck(p) \/ RemoveCheck(p)
  PROVE  Own(p)'
<1>1. CASE Finish(p)
  BY <1>1, FinishOwn
<1>2. CASE ~Finish(p)
  <2>1. /\ pc[p] = "locked" /\ id[p] \in Ctxs /\ cstate[id[p]] # "ABSENT"
        /\ op[p] = "remove" \/ (op[p] = "retry" /\ cstate[id[p]] \notin Unretryable)
        /\ UNCHANGED <<records, artifacts, lock, op, id, tgt>>
    BY <1>2, InHand DEF RetryCheck, RemoveCheck, Reread, locks, ControlOK, Unretryable
  <2>2. /\ pc'[p] = IF op[p] = "remove" THEN "put" ELSE "discard"
        /\ mine'[p] = members[id[p]] /\ st'[p] = cstate[id[p]]
        /\ todo'[p] = repositoriesOf(members[id[p]])
    BY <1>2 DEF RetryCheck, RemoveCheck, Reread, Goto, Good, LocalsOK
  <2>3. repositoriesOf(members[id[p]]) = tgt[p]
    BY <2>1 DEF PinnedOK, Own, TargetOK, OnContext, OnePinSet
  <2>4. IdleOK(p)'
    BY <2>1, <2>2 DEF IdleOK, OnContext, Working
  <2>5. TargetOK(p)'
    BY <2>1, <2>2, <2>3 DEF Own, TargetOK, OnContext, OnRepository, Locked, Working, held,
      repositoriesOf
  <2>6. RecordOK(p)'
    BY <2>1, <2>2 DEF RecordOK, OnContext, Creating, Working, records
  <2>7. QED
    BY <2>4, <2>5, <2>6 DEF Own
<1>3. QED
  BY <1>1, <1>2

LEMMA RepositoryOwn ==
  ASSUME NEW p \in Procs, Good, Own(p),
         \/ AddClone(p) \/ AddCloneFails(p) \/ AddPut(p)
         \/ SyncNext(p) \/ SyncFetch(p) \/ SyncFetchFails(p) \/ SyncPut(p)
         \/ RepoRemoveCheck(p) \/ RepoRemoveClone(p) \/ RepoRemoveDelete(p)
         \/ RepoRemoveCloneFails(p)
  PROVE  Own(p)'
<1>1. CASE Finish(p)
  BY <1>1, FinishOwn
<1>2. CASE ~Finish(p)
  <2>1. op[p] \in {"add", "sync", "repo remove"} /\ op'[p] = op[p]
    <3>1. pc[p] = "next" => op[p] = "sync"
      BY DEF Own, IdleOK
    <3>2. pc[p] = "clone" => op[p] = "repo remove"
      BY InHand DEF ControlOK
    <3>3. QED
      BY <1>2, <3>1, <3>2 DEF AddClone, AddCloneFails, AddPut, SyncNext, SyncFetch,
        SyncFetchFails, SyncPut, RepoRemoveCheck, RepoRemoveClone, RepoRemoveDelete,
        RepoRemoveCloneFails, locals
  <2>2. \/ pc'[p] = "next" /\ op[p] = "sync"
        \/ pc'[p] = "lock" /\ \E r \in Repos : tgt'[p] = {r}
        \/ /\ pc'[p] \in {"put", "clone", "delete"} /\ pc[p] \in {"locked", "clone"}
           /\ UNCHANGED <<lock, tgt>>
           /\ pc'[p] \in {"clone", "delete"} => UNCHANGED <<cstate, members>>
           /\ pc'[p] = "clone" => \A r \in tgt[p] : contextsOf(r) = {}
           /\ pc'[p] = "delete" => pc[p] = "clone"
    <3>1. CASE AddClone(p) \/ AddCloneFails(p) \/ SyncFetch(p) \/ SyncFetchFails(p)
      BY <1>2, <3>1 DEF AddClone, AddCloneFails, SyncFetch, SyncFetchFails, Goto, locks, Good,
        LocalsOK
    <3>2. CASE AddPut(p) \/ SyncPut(p) \/ RepoRemoveDelete(p) \/ RepoRemoveCloneFails(p)
      BY <1>2, <3>2 DEF AddPut, SyncPut, RepoRemoveDelete, RepoRemoveCloneFails, Goto, Good,
        LocalsOK
    <3>3. CASE SyncNext(p)
      BY <3>3 DEF SyncNext, Goto, Good, LocalsOK
    <3>4. CASE RepoRemoveCheck(p)
      <4>1. \E r \in Repos : tgt[p] = {r}
        BY <2>1, <3>4 DEF RepoRemoveCheck, Own, TargetOK, OnRepository
      <4>2. QED
        BY <1>2, <3>4, <4>1 DEF RepoRemoveCheck, Removable, records, locks, locals, Goto, Good,
          LocalsOK
    <3>5. CASE RepoRemoveClone(p)
      BY <3>5 DEF RepoRemoveClone, records, locks, locals, Goto, Good, LocalsOK
    <3>6. QED
      BY <3>1, <3>2, <3>3, <3>4, <3>5
  <2>3. IdleOK(p)'
    BY <2>1, <2>2 DEF IdleOK, OnContext
  <2>4. TargetOK(p)'
    BY <2>1, <2>2 DEF Own, TargetOK, OnContext, OnRepository, Locked, Working, held
  <2>5. RecordOK(p)'
    <3>1. ~Working(p)' /\ ~Creating(p)' /\ op'[p] \notin {"remove", "retry"}
      BY <2>1 DEF Working, OnContext, Creating
    <3>2. pc'[p] \notin {"listed", "indexing"}
      BY <2>2
    <3>3. ASSUME op[p] = "repo remove", pc'[p] \in {"clone", "delete"}, NEW r \in tgt'[p]
          PROVE  contextsOf(r)' = {}
      <4>1. r \in tgt[p] /\ UNCHANGED <<cstate, members>>
        BY <2>2, <3>3
      <4>2. contextsOf(r) = {}
        BY <2>2, <3>3, <4>1 DEF Own, RecordOK
      <4>3. QED
        BY <4>1, <4>2 DEF contextsOf
    <3>4. QED
      BY <2>1, <3>1, <3>2, <3>3 DEF RecordOK
  <2>6. QED
    BY <2>3, <2>4, <2>5 DEF Own
<1>3. QED
  BY <1>1, <1>2

LEMMA StepOwn ==
  ASSUME NEW p \in Procs, OnePinSet, Good, Own(p), \A c \in Ctxs : PinnedOK(c),
         Begin(p) \/ Lock(p) \/ Step(p) \/ Fault(p)
  PROVE  Own(p)'
<1>1. CASE Begin(p) \/ Lock(p)
  BY <1>1, BeginOwn, LockOwn
<1>2. CASE \/ ReadKnown(p) \/ CreateCheck(p) \/ CreatePut(p) \/ Advance(p)
           \/ RetryCheck(p) \/ RemoveCheck(p) \/ RemovePut(p) \/ Reenter(p)
  BY <1>2, ReadKnownOwn, CreateCheckOwn, RereadOwn, PutOwn
<1>3. CASE fail(p) \/ RemoveDelete(p) \/ Crash(p)
  BY <1>3, FinishOwn DEF fail, RemoveDelete, Crash
<1>4. CASE verifyContext(p) \/ verifyContextFails(p)
  <2>1. \E r \in Repos : TRUE
    <3>1. OnContext(p) /\ pc[p] = "stage" /\ id[p] \in Ctxs
      BY <1>4, InHand DEF verifyContext, verifyContextFails, AtStage, ControlOK, OnContext
    <3>2. tgt[p] \in PinSets[id[p]] /\ tgt[p] \subseteq Repos
      BY <3>1, InHand DEF Own, TargetOK
    <3>3. {} \notin PinSets[id[p]]
      BY <3>1, ConstantsAssumption
    <3>4. QED
      BY <3>2, <3>3
  <2>2. QED
    BY <1>4, <2>1, BuildingOwn
<1>5. CASE \/ AddClone(p) \/ AddCloneFails(p) \/ AddPut(p)
           \/ SyncNext(p) \/ SyncFetch(p) \/ SyncFetchFails(p) \/ SyncPut(p)
           \/ RepoRemoveCheck(p) \/ RepoRemoveClone(p) \/ RepoRemoveDelete(p)
           \/ RepoRemoveCloneFails(p)
  BY <1>5, RepositoryOwn
<1>6. ASSUME NEW r \in Repos,
             \/ prepareSource(p, r) \/ prepareSourceFails(p, r)
             \/ indexGraph(p, r) \/ indexGraphFails(p, r)
             \/ Discard(p, r) \/ DiscardFails(p, r)
             \/ IndexList(p, r) \/ IndexRead(p, r) \/ IndexWrite(p, r) \/ IndexFails(p, r)
      PROVE  Own(p)'
  BY <1>6, BuildingOwn, DiscardOwn, IndexOwn
<1>7. QED
  BY <1>1, <1>2, <1>3, <1>4, <1>5, <1>6 DEF Step, Fault, IndexRefused
-----------------------------------------------------------------------------
(* The invariant                                                           *)

LEMMA RecordsInit ==
  ASSUME Init PROVE RecordsInv
<1>1. ASSUME NEW p \in Procs PROVE Own(p)
  BY DEF Init, Own, IdleOK, TargetOK, RecordOK, OnContext, OnRepository, Locked, Working,
    Creating
<1>2. \A c \in Ctxs : PinnedOK(c)
  BY DEF Init, PinnedOK
<1>3. NoDanglingMember
  BY DEF Init, NoDanglingMember
<1>4. QED
  BY <1>1, <1>2, <1>3 DEF RecordsInv

LEMMA RecordsStep ==
  ASSUME OnePinSet, Good, RecordsInv, NEW p \in Procs,
         Begin(p) \/ Lock(p) \/ Step(p) \/ Fault(p)
  PROVE  RecordsInv'
<1>1. OthersSame(p)
  BY BeginSame, StepSame
<1>2. ContextWrite(p) \/ RepositoryWrite(p) \/ NothingWritten
  BY StepWrites DEF RecordsInv
<1>3. Own(p)'
  BY StepOwn DEF RecordsInv
<1>4. \A q \in Procs \ {p} : Own(q)'
  BY <1>1, <1>2, OthersOwn DEF RecordsInv
<1>5. \A c \in Ctxs : PinnedOK(c)'
  BY <1>2, PinnedKept DEF RecordsInv
<1>6. NoDanglingMember'
  BY <1>2, DanglingKept DEF RecordsInv
<1>7. QED
  BY <1>3, <1>4, <1>5, <1>6 DEF RecordsInv

LEMMA RecordsStutter ==
  ASSUME RecordsInv, Server \/ UNCHANGED vars PROVE RecordsInv'
<1>1. UNCHANGED <<records, artifacts, locks, pc, locals>>
  BY DEF Server, holdServerLock, managedConfig, ServerStop, vars
<1> USE <1>1 DEF records, artifacts, locks, locals
<1>2. ASSUME NEW p \in Procs PROVE Own(p)'
  <2>1. Own(p)
    BY DEF RecordsInv
  <2>2. IdleOK(p)'
    BY <2>1 DEF Own, IdleOK, OnContext, Working
  <2>3. TargetOK(p)'
    BY <2>1 DEF Own, TargetOK, OnContext, OnRepository, Locked, Working, held
  <2>4. RecordOK(p)'
    BY <2>1 DEF Own, RecordOK, OnContext, Working, Creating, contextsOf
  <2>5. QED
    BY <2>2, <2>3, <2>4 DEF Own
<1>3. (\A c \in Ctxs : PinnedOK(c)')
  BY DEF RecordsInv, PinnedOK
<1>4. NoDanglingMember'
  BY DEF RecordsInv, NoDanglingMember
<1>5. QED
  BY <1>2, <1>3, <1>4 DEF RecordsInv

LEMMA RecordsInductive ==
  ASSUME OnePinSet PROVE Inv /\ RecordsInv /\ [Next]_vars => RecordsInv'
<1> SUFFICES ASSUME Inv, RecordsInv, [Next]_vars PROVE RecordsInv'
  OBVIOUS
<1>1. Good
  BY DEF Inv, TypeOK, Good
<1>2. QED
  BY <1>1, RecordsStep, RecordsStutter DEF Next

LEMMA RecordsInvariance == ASSUME OnePinSet PROVE Spec => [](Inv /\ RecordsInv)
<1>1. QED
  BY RecordsInit, RecordsInductive, InitInv, StepInv, PTL DEF Spec
-----------------------------------------------------------------------------
\* A context's repositories are managed and cloned in every state of its record,
\* for any numbers of commands, repositories, contexts and commits.
THEOREM MembersManaged == ASSUME OnePinSet PROVE Spec => []NoDanglingMember
<1>1. RecordsInv => NoDanglingMember
  BY DEF RecordsInv
<1>2. QED
  BY <1>1, RecordsInvariance, PTL

\* A command past its locks has those of every member of the record it works on.
THEOREM LocksHeld == ASSUME OnePinSet PROVE Spec => []LocksCoverMembers
<1>1. ASSUME Inv, RecordsInv PROVE LocksCoverMembers
  <2>1. ASSUME NEW p \in Procs, OnContext(p), pc[p] \notin {"known", "lock"}
        PROVE  repositoriesOf(mine[p]) \subseteq held(p)
    <3>1. Own(p)
      BY <1>1 DEF RecordsInv
    <3>2. pc[p] # "next"
      BY <2>1, <3>1 DEF Own, IdleOK, OnContext
    <3>3. CASE Working(p)
      BY <2>1, <3>1, <3>3 DEF Own, TargetOK, Locked, OnContext, Working
    <3>4. CASE ~Working(p)
      BY <2>1, <3>1, <3>4 DEF Own, IdleOK, NoMembers, repositoriesOf
    <3>5. QED
      BY <3>3, <3>4
  <2>2. QED
    BY <2>1 DEF LocksCoverMembers, OnContext
<1>2. QED
  BY <1>1, RecordsInvariance, PTL

LEMMA RecordOrder ==
  ASSUME Inv, RecordsInv, [Next]_vars, NEW c \in Ctxs
  PROVE  /\ LifecycleStep(cstate[c], cstate'[c])
         /\ cstate[c] # "ABSENT" /\ cstate'[c] # "ABSENT" => members'[c] = members[c]
<1>1. Good
  BY DEF Inv, TypeOK, Good
<1>2. CASE UNCHANGED <<cstate, members>>
  BY <1>2 DEF LifecycleStep
<1>3. ASSUME NEW p \in Procs, ContextWrite(p)
      PROVE  /\ LifecycleStep(cstate[c], cstate'[c])
             /\ cstate[c] # "ABSENT" /\ cstate'[c] # "ABSENT" => members'[c] = members[c]
  <2>1. PICK s \in CtxStates \cup {"ABSENT"} :
          /\ PutContext(id[p], IF s = "ABSENT" THEN NoMembers ELSE mine[p], s)
          /\ LifecycleStep(st[p], s)
    BY <1>3 DEF ContextWrite
  <2>2. CASE c # id[p]
    BY <1>1, <2>1, <2>2 DEF PutContext, LifecycleStep, Good, RecordsOK
  <2>3. CASE c = id[p]
    <3>1. /\ cstate[c] = st[p] /\ cstate'[c] = s
          /\ s # "ABSENT" => members'[c] = mine[p]
      BY <1>1, <1>3, <2>1, <2>3 DEF ContextWrite, RecordsInv, Own, RecordOK, PutContext, Good,
        RecordsOK
    <3>2. cstate[c] # "ABSENT" => members[c] = mine[p]
      BY <1>3, <2>3, <3>1 DEF ContextWrite, RecordsInv, Own, RecordOK
    <3>3. QED
      BY <2>1, <3>1, <3>2
  <2>4. QED
    BY <2>2, <2>3
<1>4. CASE UNCHANGED vars \/ Server
  BY <1>2, <1>4 DEF vars, records, Server, holdServerLock, managedConfig, ServerStop
<1>5. ASSUME NEW p \in Procs, Begin(p) \/ Lock(p) \/ Step(p) \/ Fault(p)
      PROVE  /\ LifecycleStep(cstate[c], cstate'[c])
             /\ cstate[c] # "ABSENT" /\ cstate'[c] # "ABSENT" => members'[c] = members[c]
  BY <1>1, <1>2, <1>3, <1>5, StepWrites DEF RecordsInv, RepositoryWrite, NothingWritten
<1>6. QED
  BY <1>4, <1>5 DEF Next

\* No command, however it interleaves with others and wherever it is killed,
\* moves a record against the lifecycle.
THEOREM RecordsInOrder == ASSUME OnePinSet PROVE Spec => LifecycleOrder
<1>1. Inv /\ RecordsInv /\ [Next]_vars => \A c \in Ctxs : LifecycleStep(cstate[c], cstate'[c])
  BY RecordOrder
<1>2. QED
  BY <1>1, RecordsInvariance, PTL DEF Spec, LifecycleOrder

\* No step of any command changes what an existing record pins.
THEOREM PinsKept == ASSUME OnePinSet PROVE Spec => PinsImmutable
<1>1. Inv /\ RecordsInv /\ [Next]_vars =>
        \A c \in Ctxs : cstate[c] # "ABSENT" /\ cstate'[c] # "ABSENT"
                          => members'[c] = members[c]
  BY RecordOrder
<1>2. QED
  BY <1>1, RecordsInvariance, PTL DEF Spec, PinsImmutable
--------------------------------------------------------------------------------
(* Artifacts                                                                   *)

\* What p read of the records, while it has the lock of the repository it read
\* them for, is still so.
ListingOK(p) ==
  /\ pc[p] = "listed" => \A r \in tgt[p] : contextsOf(r) \subseteq listed[p]
  /\ pc[p] = "indexing" =>
       \A r \in todo[p] : (\A q \in todo[p] : r <= q) => seen[p] = SearchRefs(r)

Building(p) == op[p] \in {"create", "retry"} /\ pc[p] \in {"advance", "stage", "listed", "indexing"}

\* A build: the members that are done with this stage, and all that went before.
BuildOK(p) == Building(p) =>
  /\ st[p] = "PREPARING_SOURCE" => \A r \in tgt[p] \ todo[p] : wt[r][id[p]] = mine[p][r]
  /\ st[p] \in {"INDEXING_SEARCH", "INDEXING_GRAPH", "VERIFYING"} =>
       \A r \in tgt[p] : wt[r][id[p]] = mine[p][r]
  /\ st[p] = "INDEXING_SEARCH" =>
       \A r \in tgt[p] \ todo[p] : ref[r][id[p]] = mine[p][r] /\ shard[r][id[p]] = mine[p][r]
  /\ st[p] \in {"INDEXING_GRAPH", "VERIFYING"} =>
       \A r \in tgt[p] : ref[r][id[p]] = mine[p][r] /\ shard[r][id[p]] = mine[p][r]
  /\ st[p] = "INDEXING_GRAPH" => \A r \in tgt[p] \ todo[p] : graph[r][id[p]] = mine[p][r]
  /\ st[p] = "VERIFYING" => \A r \in tgt[p] : graph[r][id[p]] = mine[p][r]
  /\ pc[p] = "advance" /\ st[p] = "VERIFYING" => \A r \in tgt[p] : clone[r] = "whole"
  /\ pc[p] = "advance" /\ st[p] \in {"PREPARING_SOURCE", "INDEXING_SEARCH", "INDEXING_GRAPH"} =>
       todo[p] = {}
  /\ pc[p] = "stage" => st[p] \notin {"CREATING", "RESOLVING"}

Cleared(r, c) == wt[r][c] = None /\ ref[r][c] = None /\ graph[r][c] = None

\* A removal: first the checkouts, refs and graphs, then the index.
RemoveOK(p) == op[p] = "remove" =>
  /\ pc[p] = "put" => todo[p] = tgt[p]
  /\ pc[p] = "discard" => \A r \in tgt[p] \ todo[p] : Cleared(r, id[p])
  /\ pc[p] \in {"index", "listed", "indexing", "delete"} => \A r \in tgt[p] : Cleared(r, id[p])
  /\ pc[p] \in {"index", "listed", "indexing"} => \A r \in tgt[p] \ todo[p] : shard[r][id[p]] = None
  /\ pc[p] = "delete" => \A r \in tgt[p] : shard[r][id[p]] = None

SnapshotOK ==
  server = "serving" => \A c \in Ctxs : snap[c] # NoMembers => cstate[c] = "READY" /\ members[c] = snap[c]

ArtifactsInv ==
  /\ \A p \in Procs : ListingOK(p) /\ BuildOK(p) /\ RemoveOK(p)
  /\ NoOrphanArtifacts /\ ReadyIsWhole /\ SnapshotOK
-----------------------------------------------------------------------------
(* Which artifacts a step of p writes                                      *)

\* p writes no row but those of the repositories it has locked for its command.
RowsSame(p) == \A r \in Repos : r \notin tgt[p] \/ lock[r] # p =>
  wt'[r] = wt[r] /\ ref'[r] = ref[r] /\ shard'[r] = shard[r] /\ graph'[r] = graph[r]

\* What a step may do to the artifacts of a context that is not its own: forget
\* a checkout that is gone, and write into the index what the records say.
ForeignCell(r, c) ==
  /\ wt'[r][c] = wt[r][c] \/ (wt[r][c] = "stale" /\ wt'[r][c] = None)
  /\ graph'[r][c] = graph[r][c]
  /\ ref'[r][c] \in {ref[r][c], SearchRefs(r)[c]}
  /\ shard'[r][c] \in {shard[r][c], SearchRefs(r)[c]}

Foreign(p) ==
  \A r \in Repos, c \in Ctxs : c # id[p] \/ ~Working(p) => ForeignCell(r, c)

NothingBuilt == UNCHANGED <<wt, ref, shard, graph>>

\* What p has in hand when it is at work on its member r.
LEMMA AtWork ==
  ASSUME NEW p \in Procs, Good, Own(p), NEW r \in todo[p], pc[p] \in Running \ {"delete"}
  PROVE  /\ OnContext(p) /\ Working(p) /\ id[p] \in Ctxs
         /\ r \in tgt[p] /\ r \in Repos /\ lock[r] = p
         /\ tgt[p] = repositoriesOf(mine[p]) /\ todo[p] \subseteq tgt[p]
         /\ mine[p][r] \in Revs /\ members[id[p]] = mine[p]
         /\ cstate[id[p]] = st[p] /\ st[p] # "ABSENT"
<1>1. OnContext(p) /\ Working(p) /\ ~Creating(p) /\ Locked(p) /\ id[p] \in Ctxs
  BY InHand DEF ControlOK, Running, OnContext, Working, Creating, Locked
<1>2. r \in tgt[p] /\ tgt[p] = repositoriesOf(mine[p]) /\ todo[p] \subseteq tgt[p]
  BY <1>1 DEF Own, TargetOK
<1>3. r \in Repos /\ lock[r] = p
  BY <1>1, <1>2 DEF Own, TargetOK, held
<1>4. mine[p][r] \in Revs
  BY <1>2, InHand DEF repositoriesOf
<1>5. QED
  BY <1>1, <1>2, <1>3, <1>4 DEF Own, RecordOK

\* A member of a record that exists has a clone.
LEMMA CloneThere ==
  ASSUME NEW p \in Procs, Good, Own(p), NoDanglingMember, NEW r \in todo[p],
         pc[p] \in Running \ {"delete"}
  PROVE  repo[r] # "ABSENT" /\ clone[r] # "none"
BY AtWork DEF NoDanglingMember

\* A step that writes one row of each table, and what it may write there.
LEMMA RowForeign ==
  ASSUME NEW p \in Procs, NEW r \in Repos, Good, Working(p), r \in tgt[p], lock[r] = p,
         \A x \in Repos \ {r} :
           wt'[x] = wt[x] /\ ref'[x] = ref[x] /\ shard'[x] = shard[x] /\ graph'[x] = graph[x],
         \A c \in Ctxs \ {id[p]} : ForeignCell(r, c)
  PROVE  RowsSame(p) /\ Foreign(p)
BY DEF RowsSame, Foreign, ForeignCell

LEMMA BuildForeign ==
  ASSUME NEW p \in Procs, Good, Own(p), NEW r \in Repos,
         \/ prepareSource(p, r) \/ prepareSourceFails(p, r)
         \/ indexGraph(p, r) \/ indexGraphFails(p, r)
  PROVE  RowsSame(p) /\ Foreign(p)
<1>1. r \in todo[p] /\ pc[p] \in Running \ {"delete"}
  BY DEF prepareSource, prepareSourceFails, indexGraph, indexGraphFails, AtStage, Running
<1>2. Working(p) /\ r \in tgt[p] /\ lock[r] = p
  BY <1>1, AtWork
<1>3. /\ wt' = wt \/ \E v : wt' = [wt EXCEPT ![r][id[p]] = v]
      /\ graph' = graph \/ \E v : graph' = [graph EXCEPT ![r][id[p]] = v]
      /\ UNCHANGED <<ref, shard>>
  BY DEF prepareSource, prepareSourceFails, indexGraph, indexGraphFails
<1>4. \A x \in Repos \ {r} :
        wt'[x] = wt[x] /\ ref'[x] = ref[x] /\ shard'[x] = shard[x] /\ graph'[x] = graph[x]
  BY <1>3 DEF Good, ArtifactsOK
<1>5. \A c \in Ctxs \ {id[p]} : ForeignCell(r, c)
  BY <1>3 DEF ForeignCell, Good, ArtifactsOK
<1>6. QED
  BY <1>2, <1>4, <1>5, RowForeign

LEMMA DiscardForeign ==
  ASSUME NEW p \in Procs, Good, Own(p), NEW r \in Repos, Discard(p, r) \/ DiscardFails(p, r)
  PROVE  RowsSame(p) /\ Foreign(p)
<1>1. r \in todo[p] /\ pc[p] \in Running \ {"delete"}
  BY DEF Discard, DiscardFails, Running
<1>2. Working(p) /\ r \in tgt[p] /\ lock[r] = p
  BY <1>1, AtWork
<1>3. /\ \/ wt' = wt
         \/ wt' = [wt EXCEPT ![r] = [c \in Ctxs |-> prune(IF c = id[p] THEN RemoveAll(@[c]) ELSE @[c])]]
         \/ \E v : wt' = [wt EXCEPT ![r][id[p]] = v]
      /\ graph' = graph \/ \E v : graph' = [graph EXCEPT ![r][id[p]] = v]
      /\ ref' = ref \/ \E v : ref' = [ref EXCEPT ![r][id[p]] = v]
      /\ UNCHANGED shard
  BY DEF Discard, DiscardFails, deleteGraph, dropSearchRef
<1>4. \A x \in Repos \ {r} :
        wt'[x] = wt[x] /\ ref'[x] = ref[x] /\ shard'[x] = shard[x] /\ graph'[x] = graph[x]
  BY <1>3 DEF Good, ArtifactsOK
<1>5. \A c \in Ctxs \ {id[p]} : ForeignCell(r, c)
  BY <1>3 DEF ForeignCell, prune, Good, ArtifactsOK
<1>6. QED
  BY <1>2, <1>4, <1>5, RowForeign

LEMMA IndexForeign ==
  ASSUME NEW p \in Procs, Good, Own(p), NoDanglingMember, ListingOK(p), NEW r \in Repos,
         IndexWrite(p, r) \/ IndexFails(p, r)
  PROVE  RowsSame(p) /\ Foreign(p)
<1>1. r \in todo[p] /\ pc[p] = "indexing" /\ \A q \in todo[p] : r <= q
  BY DEF IndexWrite, IndexFails
<1>2. Working(p) /\ r \in tgt[p] /\ lock[r] = p /\ clone[r] # "none"
  BY <1>1, AtWork, CloneThere DEF Running
<1>3. seen[p] = SearchRefs(r)
  BY <1>1 DEF ListingOK
<1>4. /\ \/ ref' = [ref EXCEPT ![r] = [c \in Ctxs |-> IF seen[p][c] # None THEN seen[p][c] ELSE @[c]]]
         \/ \E some : ref' = [ref EXCEPT ![r] = [c \in Ctxs |-> IF c \in some THEN seen[p][c] ELSE @[c]]]
      /\ shard' = shard \/ shard' = [shard EXCEPT ![r] = seen[p]]
      /\ UNCHANGED <<wt, graph>>
  BY <1>2 DEF IndexWrite, IndexFails
<1>5. \A x \in Repos \ {r} :
        wt'[x] = wt[x] /\ ref'[x] = ref[x] /\ shard'[x] = shard[x] /\ graph'[x] = graph[x]
  BY <1>4 DEF Good, ArtifactsOK
<1>6. \A c \in Ctxs \ {id[p]} : ForeignCell(r, c)
  BY <1>3, <1>4 DEF ForeignCell, Good, ArtifactsOK
<1>7. QED
  BY <1>2, <1>5, <1>6, RowForeign

\* A repository no context is a member of has nothing the records speak of.
LEMMA CloneForeign ==
  ASSUME NEW p \in Procs, Good, Own(p), RepoRemoveClone(p)
  PROVE  RowsSame(p) /\ Foreign(p)
<1>1. op[p] = "repo remove" /\ pc[p] = "clone"
  BY InHand DEF RepoRemoveClone, ControlOK
<1>2. PICK r \in tgt[p] :
        /\ ref' = [ref EXCEPT ![r] = NoCtxs]
        /\ wt' = [wt EXCEPT ![r] = [c \in Ctxs |-> IF @[c] = "stale" THEN None ELSE @[c]]]
        /\ UNCHANGED <<shard, graph>>
  BY DEF RepoRemoveClone
<1>3. r \in Repos /\ lock[r] = p /\ contextsOf(r) = {}
  BY <1>1 DEF Own, TargetOK, RecordOK, Locked, held
<1>4. SearchRefs(r) = NoCtxs
  BY <1>3 DEF contextsOf, SearchRefs, NoCtxs
<1>5. QED
  BY <1>2, <1>3, <1>4 DEF RowsSame, Foreign, ForeignCell, NoCtxs, Good, ArtifactsOK

LEMMA StepBuilds ==
  ASSUME NEW p \in Procs, Good,
         Begin(p) \/ Lock(p) \/ Step(p) \/ Fault(p)
  PROVE  \/ NothingBuilt
         \/ \E r \in Repos : \/ prepareSource(p, r) \/ prepareSourceFails(p, r)
                             \/ indexGraph(p, r) \/ indexGraphFails(p, r)
                             \/ Discard(p, r) \/ DiscardFails(p, r)
                             \/ IndexWrite(p, r) \/ IndexFails(p, r)
         \/ RepoRemoveClone(p)
<1> USE DEF NothingBuilt, artifacts
<1>1. CASE Begin(p) \/ Lock(p)
  BY <1>1 DEF Begin, BeginCreate, BeginRetry, BeginRemove, BeginAdd, BeginRepoRemove,
    BeginSync, Lock, withRepositoryLocks
<1>2. CASE \/ CreatePut(p) \/ Advance(p) \/ fail(p) \/ RemovePut(p) \/ Reenter(p)
           \/ RemoveDelete(p) \/ AddClone(p) \/ AddCloneFails(p) \/ AddPut(p) \/ SyncPut(p)
           \/ RepoRemoveDelete(p) \/ RepoRemoveCloneFails(p)
  BY <1>2 DEF CreatePut, Advance, fail, RemovePut, Reenter, RemoveDelete, AddClone,
    AddCloneFails, AddPut, SyncPut, RepoRemoveDelete, RepoRemoveCloneFails
<1>3. CASE \/ ReadKnown(p) \/ CreateCheck(p) \/ RetryCheck(p) \/ RemoveCheck(p)
           \/ SyncNext(p) \/ SyncFetch(p) \/ SyncFetchFails(p) \/ RepoRemoveCheck(p)
           \/ verifyContext(p) \/ verifyContextFails(p) \/ Crash(p)
  BY <1>3 DEF ReadKnown, CreateCheck, RetryCheck, RemoveCheck, SyncNext, SyncFetch,
    SyncFetchFails, RepoRemoveCheck, verifyContext, verifyContextFails, Crash
<1>4. ASSUME NEW r \in Repos, IndexList(p, r) \/ IndexRead(p, r) PROVE NothingBuilt
  BY <1>4 DEF IndexList, IndexRead
<1>5. QED
  BY <1>1, <1>2, <1>3, <1>4 DEF Step, Fault, IndexRefused

LEMMA StepForeign ==
  ASSUME NEW p \in Procs, Good, Own(p), NoDanglingMember, ListingOK(p),
         Begin(p) \/ Lock(p) \/ Step(p) \/ Fault(p)
  PROVE  RowsSame(p) /\ Foreign(p)
<1>1. CASE NothingBuilt
  BY <1>1 DEF NothingBuilt, RowsSame, Foreign, ForeignCell
<1>2. QED
  BY <1>1, StepBuilds, BuildForeign, DiscardForeign, IndexForeign, CloneForeign
-----------------------------------------------------------------------------
(* The other processes                                                     *)

\* While another process has the lock of r, p does not change what the records
\* say of r.
LEMMA RefsElsewhere ==
  ASSUME Good, NEW p \in Procs, Own(p), NEW r \in Repos, lock[r] # p,
         \A c \in Ctxs : PinnedOK(c),
         ContextWrite(p) \/ RepositoryWrite(p) \/ NothingWritten
  PROVE  contextsOf(r)' = contextsOf(r) /\ SearchRefs(r)' = SearchRefs(r)
<1>1. CASE ContextWrite(p)
  <2>1. ASSUME NEW c \in Ctxs
        PROVE  members'[c][r] = members[c][r] /\ (members[c][r] # None => cstate'[c] = cstate[c])
    BY <1>1, MembersElsewhere
  <2>2. SearchRefs(r)' = SearchRefs(r)
    BY <2>1 DEF SearchRefs
  <2>3. QED
    BY <1>1, <2>2, ContextsElsewhere
<1>2. CASE RepositoryWrite(p) \/ NothingWritten
  BY <1>2 DEF RepositoryWrite, NothingWritten, contextsOf, SearchRefs
<1>3. QED
  BY <1>1, <1>2

\* A step of p is nothing to what the others are building or removing.
LEMMA OthersBuild ==
  ASSUME Good, NEW p \in Procs, NEW q \in Procs \ {p}, Own(p), Own(q),
         \A c \in Ctxs : PinnedOK(c), OthersSame(p), RowsSame(p),
         ContextWrite(p) \/ RepositoryWrite(p) \/ NothingWritten,
         ListingOK(q), BuildOK(q), RemoveOK(q)
  PROVE  ListingOK(q)' /\ BuildOK(q)' /\ RemoveOK(q)'
<1>1. SameLocals(q)
  BY DEF OthersSame
<1>2. ASSUME Working(q), NEW r \in tgt[q]
      PROVE  /\ wt'[r] = wt[r] /\ ref'[r] = ref[r] /\ shard'[r] = shard[r] /\ graph'[r] = graph[r]
             /\ contextsOf(r)' = contextsOf(r) /\ SearchRefs(r)' = SearchRefs(r)
             /\ clone'[r] = clone[r]
  <2>1. r \in Repos /\ lock[r] = q
    BY <1>2 DEF Own, TargetOK, Working, Locked, OnContext, held
  <2>2. clone'[r] = clone[r]
    <3>1. ASSUME RepositoryWrite(p), NEW x \in tgt[p] PROVE x # r
      BY <2>1, <3>1 DEF RepositoryWrite, Own, TargetOK, held
    <3>2. QED
      BY <2>1, <3>1 DEF ContextWrite, RepositoryWrite, NothingWritten
  <2>3. QED
    BY <2>1, <2>2, RefsElsewhere DEF RowsSame
<1>3. pc[q] \in {"listed", "indexing"} => Working(q)
  BY InHand DEF ControlOK, Working, OnContext
<1>4. Working(q) => todo[q] \subseteq tgt[q]
  BY DEF Own, TargetOK
<1> USE <1>1 DEF SameLocals
<1>5. ListingOK(q)'
  BY <1>2, <1>3, <1>4 DEF ListingOK
<1>6. BuildOK(q)'
  <2>1. Building(q) => Working(q)
    BY DEF Building, Working, OnContext
  <2>2. QED
    BY <1>2, <2>1 DEF BuildOK, Building
<1>7. RemoveOK(q)'
  <2>1. op[q] = "remove" /\ pc[q] \in {"discard", "index", "listed", "indexing", "delete"} => Working(q)
    BY DEF Working, OnContext
  <2>2. QED
    BY <1>2, <2>1 DEF RemoveOK, Cleared
<1>8. QED
  BY <1>5, <1>6, <1>7
-----------------------------------------------------------------------------
(* The process itself                                                      *)

\* A process that is not at any of the labels the invariant speaks of.
LEMMA Elsewhere ==
  ASSUME NEW p \in Procs,
         pc'[p] \notin {"advance", "stage", "listed", "indexing", "put", "discard", "index",
                        "delete"}
  PROVE  ListingOK(p)' /\ BuildOK(p)' /\ RemoveOK(p)'
BY DEF ListingOK, BuildOK, Building, RemoveOK

LEMMA NotOnContext ==
  ASSUME NEW p \in Procs, Good', op'[p] \in {"add", "sync", "repo remove"}
  PROVE  ListingOK(p)' /\ BuildOK(p)' /\ RemoveOK(p)'
<1>1. ControlOK(p)'
  BY DEF Good
<1>2. QED
  BY <1>1 DEF ListingOK, BuildOK, Building, RemoveOK, ControlOK

\* The records a command writes of its context, and the first of a removal.
LEMMA PutBuild ==
  ASSUME NEW p \in Procs, Good, Own(p), BuildOK(p), RemoveOK(p),
         CreatePut(p) \/ Advance(p) \/ RemovePut(p) \/ Reenter(p)
  PROVE  ListingOK(p)' /\ BuildOK(p)' /\ RemoveOK(p)'
<1>1. CASE Finish(p)
  BY <1>1, Elsewhere DEF Finish, Good, LocalsOK
<1>2. CASE CreatePut(p) \/ Reenter(p)
  <2>1. pc'[p] = "advance" /\ st'[p] \in {"CREATING", "RESOLVING"} /\ op'[p] # "remove"
    BY <1>2, InHand DEF CreatePut, Reenter, Goto, ControlOK, Good, LocalsOK
  <2>2. QED
    BY <2>1 DEF ListingOK, BuildOK, RemoveOK
<1>3. CASE RemovePut(p)
  <2>1. /\ pc'[p] = "discard" /\ op'[p] = "remove" /\ todo'[p] = tgt'[p]
    BY <1>3 DEF RemovePut, Goto, RemoveOK, Good, LocalsOK
  <2>2. QED
    BY <2>1 DEF ListingOK, BuildOK, Building, RemoveOK
<1>4. CASE Advance(p) /\ ~Finish(p)
  <2>1. /\ pc[p] = "advance" /\ op[p] \in {"create", "retry"} /\ st[p] \in Stages
        /\ Following(st[p]) # "READY"
    BY <1>4, InHand DEF Advance, ControlOK
  <2>2. /\ UNCHANGED <<wt, ref, shard, graph, op, id, tgt, mine>>
        /\ st'[p] = Following(st[p]) /\ todo'[p] = repositoriesOf(mine[p])
        /\ pc'[p] = IF Following(st[p]) = "RESOLVING" THEN "advance" ELSE "stage"
    BY <1>4 DEF Advance, artifacts, Goto, Good, LocalsOK
  <2>3. todo'[p] = tgt[p]
    BY <2>1, <2>2 DEF Own, TargetOK, Working, OnContext
  <2>4. BuildOK(p)'
    <3>1. CASE st[p] \in {"CREATING", "RESOLVING"}
      BY <2>1, <2>2, <2>3, <3>1, FollowingNames DEF BuildOK, Building
    <3>2. CASE st[p] = "PREPARING_SOURCE"
      BY <2>1, <2>2, <2>3, <3>2, FollowingNames DEF BuildOK, Building
    <3>3. CASE st[p] = "INDEXING_SEARCH"
      BY <2>1, <2>2, <2>3, <3>3, FollowingNames DEF BuildOK, Building
    <3>4. CASE st[p] = "INDEXING_GRAPH"
      BY <2>1, <2>2, <2>3, <3>4, FollowingNames DEF BuildOK, Building
    <3>5. CASE st[p] = "VERIFYING"
      BY <2>1, <3>5, FollowingNames
    <3>6. QED
      BY <2>1, <3>1, <3>2, <3>3, <3>4, <3>5, StateNames
  <2>5. QED
    BY <2>1, <2>2, <2>4 DEF ListingOK, RemoveOK
<1>5. QED
  BY <1>1, <1>2, <1>3, <1>4

LEMMA StageBuild ==
  ASSUME NEW p \in Procs, Good, Own(p), BuildOK(p), NEW r \in Repos,
         prepareSource(p, r) \/ indexGraph(p, r)
  PROVE  ListingOK(p)' /\ BuildOK(p)' /\ RemoveOK(p)'
<1>1. CASE pc'[p] = "fail"
  BY <1>1, Elsewhere
<1>2. CASE pc'[p] # "fail"
  <2>1. /\ r \in todo[p] /\ pc[p] = "stage" /\ op[p] \in {"create", "retry"}
        /\ r \in tgt[p] /\ mine[p][r] \in Revs /\ todo[p] \subseteq tgt[p]
        /\ id[p] \in Ctxs
    BY AtWork, InHand DEF prepareSource, indexGraph, AtStage, ControlOK, Running
  <2>2. /\ todo'[p] = todo[p] \ {r}
        /\ pc'[p] = IF todo[p] = {r} THEN "advance" ELSE "stage"
        /\ UNCHANGED <<op, id, tgt, mine, st, ref, shard>>
    BY <1>2 DEF prepareSource, indexGraph, Done, Goto, Good, LocalsOK
  <2>3. /\ \A x \in Repos \ {r} : wt'[x] = wt[x] /\ graph'[x] = graph[x]
        /\ \/ st[p] = "PREPARING_SOURCE" /\ wt'[r][id[p]] = mine[p][r]
           \/ st[p] = "INDEXING_GRAPH" /\ wt' = wt /\ graph'[r][id[p]] = wt[r][id[p]]
    BY <1>2, <2>1 DEF prepareSource, indexGraph, AtStage, Goto, Good, LocalsOK, ArtifactsOK
  <2>4. tgt[p] \subseteq Repos
    BY InHand
  <2>5. BuildOK(p)'
    BY <2>1, <2>2, <2>3, <2>4 DEF BuildOK, Building
  <2>6. QED
    BY <2>1, <2>2, <2>5 DEF ListingOK, RemoveOK
<1>3. QED
  BY <1>1, <1>2

LEMMA VerifyBuild ==
  ASSUME NEW p \in Procs, Good, Own(p), BuildOK(p), verifyContext(p)
  PROVE  ListingOK(p)' /\ BuildOK(p)' /\ RemoveOK(p)'
<1>1. /\ pc[p] = "stage" /\ st[p] = "VERIFYING" /\ op[p] \in {"create", "retry"}
      /\ pc'[p] \in {"advance", "fail"} /\ UNCHANGED <<wt, ref, shard, graph, op, id, tgt, mine, st, todo>>
      /\ UNCHANGED clone
  BY InHand DEF verifyContext, AtStage, Goto, locals, artifacts, ControlOK, Good, LocalsOK
<1>2. repositoriesOf(mine[p]) = tgt[p]
  BY <1>1 DEF Own, TargetOK, Working, OnContext
<1>3. pc'[p] = "advance" => \A r \in tgt[p] : clone[r] = "whole"
  BY <1>1, <1>2 DEF verifyContext, Goto, Verified, Good, LocalsOK
<1>4. QED
  BY <1>1, <1>3 DEF ListingOK, BuildOK, Building, RemoveOK

LEMMA DiscardBuild ==
  ASSUME NEW p \in Procs, Good, Own(p), RemoveOK(p), NEW r \in Repos, Discard(p, r)
  PROVE  ListingOK(p)' /\ BuildOK(p)' /\ RemoveOK(p)'
<1>1. CASE Finish(p)
  BY <1>1, Elsewhere DEF Finish, Good, LocalsOK
<1>2. CASE ~Finish(p) /\ op[p] = "retry"
  <2>1. pc'[p] \in {"discard", "reenter"} /\ op'[p] = "retry"
    BY <1>2 DEF Discard, Done, Goto, Good, LocalsOK
  <2>2. QED
    BY <2>1 DEF ListingOK, BuildOK, Building, RemoveOK
<1>3. CASE ~Finish(p) /\ op[p] = "remove"
  <2>1. /\ r \in todo[p] /\ pc[p] = "discard" /\ r \in tgt[p] /\ todo[p] \subseteq tgt[p]
        /\ tgt[p] = repositoriesOf(mine[p]) /\ id[p] \in Ctxs /\ tgt[p] \subseteq Repos
    BY AtWork, InHand DEF Discard, Running
  <2>2. /\ \/ pc'[p] = "index" /\ todo[p] = {r} /\ todo'[p] = tgt[p]
           \/ pc'[p] = "discard" /\ todo'[p] = todo[p] \ {r}
        /\ UNCHANGED <<op, id, tgt, mine, st, shard>>
    BY <1>3, <2>1 DEF Discard, Good, LocalsOK
  <2>3. /\ wt' = [wt EXCEPT ![r] = [c \in Ctxs |-> prune(IF c = id[p] THEN RemoveAll(@[c]) ELSE @[c])]]
        /\ graph' = [graph EXCEPT ![r][id[p]] = None]
        /\ ref' = [ref EXCEPT ![r][id[p]] = None]
    BY <1>3 DEF Discard, deleteGraph, dropSearchRef
  <2>4. Cleared(r, id[p])'
    BY <2>1, <2>2, <2>3 DEF Cleared, prune, RemoveAll, Good, ArtifactsOK, LocalsOK
  <2>5. \A x \in Repos \ {r} : Cleared(x, id[p]) => Cleared(x, id[p])'
    BY <2>2, <2>3 DEF Cleared, Good, ArtifactsOK, LocalsOK
  <2>6. RemoveOK(p)'
    BY <1>3, <2>1, <2>2, <2>4, <2>5 DEF RemoveOK
  <2>7. QED
    BY <1>3, <2>2, <2>6 DEF ListingOK, BuildOK, Building
<1>4. QED
  BY <1>1, <1>2, <1>3, InHand DEF Discard, ControlOK

\* The names that were listed and what was read of the records.
LEMMA ReadBuild ==
  ASSUME NEW p \in Procs, Good, Own(p), ListingOK(p), BuildOK(p), RemoveOK(p), NEW r \in Repos,
         IndexList(p, r) \/ IndexRead(p, r)
  PROVE  ListingOK(p)' /\ BuildOK(p)' /\ RemoveOK(p)'
<1>1. CASE Finish(p) \/ pc'[p] = "fail"
  BY <1>1, Elsewhere DEF Finish, Good, LocalsOK
<1>2. CASE ~Finish(p) /\ pc'[p] # "fail"
  <2>1. /\ r \in todo[p] /\ r \in tgt[p] /\ r \in Repos /\ todo[p] \subseteq tgt[p]
        /\ \A q \in todo[p] : r <= q
        /\ todo[p] \subseteq Repos
    BY AtWork, InHand DEF IndexList, IndexRead, Indexing, AtStage, Running
  <2>2. UNCHANGED <<records, artifacts, op, id, tgt, mine, st, todo>>
    BY <1>2 DEF IndexList, IndexRead, IndexError, Goto, Good, LocalsOK
  <2>3. \/ /\ pc'[p] = "listed" /\ listed'[p] = {c \in Ctxs : cstate[c] # "ABSENT"}
           /\ pc[p] = "index" \/ (pc[p] = "stage" /\ st[p] = "INDEXING_SEARCH")
        \/ /\ pc'[p] = "indexing" /\ pc[p] = "listed"
           /\ seen'[p] = [c \in Ctxs |-> IF c \in listed[p] THEN SearchRefs(r)[c] ELSE None]
    BY <1>2 DEF IndexList, IndexRead, IndexError, Indexing, AtStage, Goto, Good, LocalsOK
  <2>4. ListingOK(p)'
    <3>1. CASE pc'[p] = "listed"
      BY <2>2, <2>3, <3>1 DEF ListingOK, contextsOf, records
    <3>2. CASE pc'[p] = "indexing"
      <4>1. contextsOf(r) \subseteq listed[p]
        BY <2>1, <2>3, <3>2 DEF ListingOK
      <4>2. \A c \in Ctxs : c \notin contextsOf(r) => SearchRefs(r)[c] = None
        BY DEF SearchRefs, contextsOf
      <4>3. seen'[p] = SearchRefs(r)
        BY <2>3, <3>2, <4>1, <4>2 DEF SearchRefs
      <4>4. \A q \in todo[p] : (\A x \in todo[p] : q <= x) => q = r
        <5>1. \A q \in todo[p] : q \in Nat /\ r \in Nat /\ r <= q
          BY <2>1, ConstantsAssumption
        <5>2. QED
          BY <2>1, <5>1
      <4>5. SearchRefs(r)' = SearchRefs(r)
        BY <2>2 DEF SearchRefs, records
      <4>6. QED
        BY <2>2, <3>2, <4>3, <4>4, <4>5 DEF ListingOK
    <3>3. QED
      BY <2>3, <3>1, <3>2
  <2>5. BuildOK(p)'
    BY <2>2, <2>3, InHand DEF BuildOK, Building, artifacts, ControlOK
  <2>6. RemoveOK(p)'
    BY <2>2, <2>3, InHand DEF RemoveOK, Cleared, artifacts, ControlOK
  <2>7. QED
    BY <2>4, <2>5, <2>6
<1>3. QED
  BY <1>1, <1>2

\* The index of r is written as the records say: p's own context is in it, or,
\* when it is being removed, is not.
LEMMA WriteBuild ==
  ASSUME NEW p \in Procs, Good, Own(p), NoDanglingMember, ListingOK(p), BuildOK(p), RemoveOK(p),
         NEW r \in Repos, IndexWrite(p, r)
  PROVE  ListingOK(p)' /\ BuildOK(p)' /\ RemoveOK(p)'
<1>1. /\ r \in todo[p] /\ r \in tgt[p] /\ todo[p] \subseteq tgt[p] /\ pc[p] = "indexing"
      /\ tgt[p] \subseteq Repos /\ id[p] \in Ctxs /\ mine[p][r] \in Revs
      /\ members[id[p]] = mine[p] /\ cstate[id[p]] = st[p] /\ st[p] # "ABSENT"
      /\ clone[r] # "none" /\ \A q \in todo[p] : r <= q
  BY AtWork, CloneThere, InHand DEF IndexWrite, Running
<1>2. seen[p] = SearchRefs(r)
  BY <1>1 DEF ListingOK
<1>3. /\ ref' = [ref EXCEPT ![r] = [c \in Ctxs |-> IF seen[p][c] # None THEN seen[p][c] ELSE @[c]]]
      /\ shard' = [shard EXCEPT ![r] = seen[p]]
      /\ UNCHANGED <<wt, graph, op, id, tgt, mine, st>>
  BY <1>1 DEF IndexWrite
<1>4. \A x \in Repos \ {r} : ref'[x] = ref[x] /\ shard'[x] = shard[x]
  BY <1>3 DEF Good, ArtifactsOK
<1>5. todo'[p] = todo[p] \ {r}
  BY DEF IndexWrite, Done, Good, LocalsOK
<1>6. CASE op[p] = "remove"
  <2>1. pc'[p] = IF todo[p] = {r} THEN "delete" ELSE "index"
    BY <1>6 DEF IndexWrite, Done, Goto, Good, LocalsOK
  <2>2. st[p] = "REMOVING"
    BY <1>1, <1>6 DEF Own, RecordOK, Working, OnContext
  <2>3. seen[p][id[p]] = None
    BY <1>1, <1>2, <2>2 DEF SearchRefs
  <2>4. shard'[r][id[p]] = None /\ ref'[r][id[p]] = ref[r][id[p]]
    BY <1>1, <1>3, <2>3 DEF Good, ArtifactsOK
  <2>5. RemoveOK(p)'
    BY <1>1, <1>3, <1>4, <1>5, <1>6, <2>1, <2>4 DEF RemoveOK, Cleared
  <2>6. QED
    BY <1>3, <1>6, <2>1, <2>5 DEF ListingOK, BuildOK, Building
<1>7. CASE op[p] # "remove"
  <2>1. pc'[p] = IF todo[p] = {r} THEN "advance" ELSE "stage"
    BY <1>7 DEF IndexWrite, Done, Goto, Good, LocalsOK
  <2>2. op[p] \in {"create", "retry"} /\ st[p] = "INDEXING_SEARCH"
    BY <1>1, <1>7, InHand DEF ControlOK, Own, RecordOK
  <2>3. seen[p][id[p]] = mine[p][r]
    BY <1>1, <1>2, <2>2 DEF SearchRefs
  <2>4. shard'[r][id[p]] = mine[p][r] /\ ref'[r][id[p]] = mine[p][r]
    BY <1>1, <1>3, <2>3, ConstantsAssumption DEF Good, ArtifactsOK
  <2>5. BuildOK(p)'
    BY <1>1, <1>3, <1>4, <1>5, <2>1, <2>2, <2>4 DEF BuildOK, Building
  <2>6. QED
    BY <1>3, <1>7, <2>1, <2>5 DEF ListingOK, RemoveOK
<1>8. QED
  BY <1>6, <1>7

\* The steps before a command is at work, and those that end or fail it.
LEMMA OtherBuild ==
  ASSUME NEW p \in Procs, Good, Good', Own(p)',
         \/ Begin(p) \/ Lock(p) \/ ReadKnown(p) \/ CreateCheck(p)
         \/ RetryCheck(p) \/ RemoveCheck(p) \/ fail(p) \/ RemoveDelete(p) \/ Crash(p)
         \/ verifyContextFails(p)
  PROVE  ListingOK(p)' /\ BuildOK(p)' /\ RemoveOK(p)'
<1> USE DEF Good, LocalsOK, Goto, locks, locals
<1>1. CASE Finish(p)
  BY <1>1, Elsewhere DEF Finish
<1>2. CASE Begin(p) \/ Lock(p)
  <2>1. pc'[p] \in {"known", "lock", "locked", "next"}
    BY <1>2 DEF Begin, BeginCreate, BeginRetry, BeginRemove, BeginAdd, BeginRepoRemove,
      BeginSync, Start, Lock, withRepositoryLocks
  <2>2. QED
    BY <2>1, Elsewhere
<1>3. CASE ~Finish(p) /\ (ReadKnown(p) \/ verifyContextFails(p))
  <2>1. pc'[p] \in {"lock", "fail"}
    BY <1>3 DEF ReadKnown, verifyContextFails
  <2>2. QED
    BY <2>1, Elsewhere
<1>4. CASE ~Finish(p) /\ CreateCheck(p)
  <2>1. pc'[p] = "put" /\ op'[p] = "create"
    BY <1>4 DEF CreateCheck
  <2>2. QED
    BY <2>1 DEF ListingOK, BuildOK, Building, RemoveOK
<1>5. CASE ~Finish(p) /\ RetryCheck(p)
  <2>1. pc'[p] = "discard" /\ op'[p] = "retry"
    BY <1>5 DEF RetryCheck, Reread
  <2>2. QED
    BY <2>1 DEF ListingOK, BuildOK, Building, RemoveOK
<1>6. CASE ~Finish(p) /\ RemoveCheck(p)
  <2>1. pc'[p] = "put" /\ op'[p] = "remove" /\ todo'[p] = repositoriesOf(mine'[p])
    BY <1>6 DEF RemoveCheck, Reread
  <2>2. todo'[p] = tgt'[p]
    BY <2>1 DEF Own, TargetOK, Working, OnContext
  <2>3. QED
    BY <2>1, <2>2 DEF ListingOK, BuildOK, Building, RemoveOK
<1>7. QED
  BY <1>1, <1>2, <1>3, <1>4, <1>5, <1>6 DEF fail, RemoveDelete, Crash

LEMMA StageFails ==
  ASSUME NEW p \in Procs, Good, NEW r \in Repos,
         prepareSourceFails(p, r) \/ indexGraphFails(p, r) \/ DiscardFails(p, r) \/ IndexFails(p, r)
  PROVE  ListingOK(p)' /\ BuildOK(p)' /\ RemoveOK(p)'
<1>1. pc'[p] \in {"fail", "idle"}
  BY DEF prepareSourceFails, indexGraphFails, DiscardFails, IndexFails, IndexError, Finish,
    Goto, Good, LocalsOK
<1>2. QED
  BY <1>1, Elsewhere

LEMMA RepositoryBuild ==
  ASSUME NEW p \in Procs, Good, Good', Own(p),
         \/ AddClone(p) \/ AddCloneFails(p) \/ AddPut(p)
         \/ SyncNext(p) \/ SyncFetch(p) \/ SyncFetchFails(p) \/ SyncPut(p)
         \/ RepoRemoveCheck(p) \/ RepoRemoveClone(p) \/ RepoRemoveDelete(p)
         \/ RepoRemoveCloneFails(p)
  PROVE  ListingOK(p)' /\ BuildOK(p)' /\ RemoveOK(p)'
<1>1. CASE Finish(p)
  BY <1>1, Elsewhere DEF Finish, Good, LocalsOK
<1>2. CASE ~Finish(p)
  <2>1. op'[p] \in {"add", "sync", "repo remove"}
    <3>1. pc[p] = "next" => op[p] = "sync"
      BY DEF Own, IdleOK
    <3>2. pc[p] = "clone" => op[p] = "repo remove"
      BY InHand DEF ControlOK
    <3>3. QED
      BY <1>2, <3>1, <3>2 DEF AddClone, AddCloneFails, AddPut, SyncNext, SyncFetch,
        SyncFetchFails, SyncPut, RepoRemoveCheck, RepoRemoveClone, RepoRemoveDelete,
        RepoRemoveCloneFails, locals
  <2>2. QED
    BY <2>1, NotOnContext
<1>3. QED
  BY <1>1, <1>2

LEMMA StepBuild ==
  ASSUME NEW p \in Procs, Good, Good', Own(p), Own(p)', NoDanglingMember,
         ListingOK(p), BuildOK(p), RemoveOK(p),
         Begin(p) \/ Lock(p) \/ Step(p) \/ Fault(p)
  PROVE  ListingOK(p)' /\ BuildOK(p)' /\ RemoveOK(p)'
<1>1. CASE \/ Begin(p) \/ Lock(p) \/ ReadKnown(p) \/ CreateCheck(p)
           \/ RetryCheck(p) \/ RemoveCheck(p) \/ fail(p) \/ RemoveDelete(p) \/ Crash(p)
           \/ verifyContextFails(p)
  BY <1>1, OtherBuild
<1>2. CASE CreatePut(p) \/ Advance(p) \/ RemovePut(p) \/ Reenter(p) \/ verifyContext(p)
  BY <1>2, PutBuild, VerifyBuild
<1>3. CASE \/ AddClone(p) \/ AddCloneFails(p) \/ AddPut(p)
           \/ SyncNext(p) \/ SyncFetch(p) \/ SyncFetchFails(p) \/ SyncPut(p)
           \/ RepoRemoveCheck(p) \/ RepoRemoveClone(p) \/ RepoRemoveDelete(p)
           \/ RepoRemoveCloneFails(p)
  BY <1>3, RepositoryBuild
<1>4. ASSUME NEW r \in Repos,
             \/ prepareSource(p, r) \/ prepareSourceFails(p, r)
             \/ indexGraph(p, r) \/ indexGraphFails(p, r)
             \/ Discard(p, r) \/ DiscardFails(p, r)
             \/ IndexList(p, r) \/ IndexRead(p, r) \/ IndexWrite(p, r) \/ IndexFails(p, r)
      PROVE  ListingOK(p)' /\ BuildOK(p)' /\ RemoveOK(p)'
  BY <1>4, StageBuild, StageFails, DiscardBuild, ReadBuild, WriteBuild
<1>5. QED
  BY <1>1, <1>2, <1>3, <1>4 DEF Step, Fault, IndexRefused
-----------------------------------------------------------------------------
(* What every record and its artifacts are to each other                   *)

\* What is written of a context is written by the process at work on it.
LEMMA ForeignRecord ==
  ASSUME Good, NEW p \in Procs, ContextWrite(p) \/ RepositoryWrite(p) \/ NothingWritten,
         NEW c \in Ctxs, c # id[p] \/ ~Working(p)
  PROVE  cstate'[c] = cstate[c] /\ members'[c] = members[c]
BY DEF ContextWrite, RepositoryWrite, NothingWritten, PutContext, Good, RecordsOK

\* Nothing is built at these labels.
LEMMA QuietLabels ==
  ASSUME NEW p \in Procs, Good, Begin(p) \/ Lock(p) \/ Step(p) \/ Fault(p),
         pc[p] \in {"put", "advance", "delete"}
  PROVE  NothingBuilt
<1>1. CASE RepoRemoveClone(p)
  BY <1>1 DEF RepoRemoveClone
<1>2. ASSUME NEW r \in Repos,
             \/ prepareSource(p, r) \/ prepareSourceFails(p, r)
             \/ indexGraph(p, r) \/ indexGraphFails(p, r)
             \/ Discard(p, r) \/ DiscardFails(p, r)
             \/ IndexWrite(p, r) \/ IndexFails(p, r)
      PROVE  FALSE
  BY <1>2 DEF prepareSource, prepareSourceFails, indexGraph, indexGraphFails, Discard,
    DiscardFails, IndexWrite, IndexFails, AtStage
<1>3. QED
  BY <1>1, <1>2, StepBuilds

LEMMA OrphansKept ==
  ASSUME Good, NEW p \in Procs, Own(p), RemoveOK(p), RowsSame(p), Foreign(p),
         ContextWrite(p) \/ RepositoryWrite(p) \/ NothingWritten,
         Begin(p) \/ Lock(p) \/ Step(p) \/ Fault(p), NoOrphanArtifacts
  PROVE  NoOrphanArtifacts'
<1> SUFFICES ASSUME NEW r \in Repos, NEW c \in Ctxs,
                    wt'[r][c] # None \/ ref'[r][c] # None \/ shard'[r][c] # None \/ graph'[r][c] # None
             PROVE  cstate'[c] # "ABSENT" /\ members'[c][r] # None
  BY DEF NoOrphanArtifacts
<1>1. CASE c # id[p] \/ ~Working(p)
  <2>1. cstate'[c] = cstate[c] /\ members'[c] = members[c] /\ ForeignCell(r, c)
    BY <1>1, ForeignRecord DEF Foreign
  <2>2. SearchRefs(r)[c] # None => cstate[c] # "ABSENT" /\ members[c][r] # None
    BY DEF SearchRefs
  <2>3. QED
    BY <2>1, <2>2 DEF ForeignCell, NoOrphanArtifacts
<1>2. CASE c = id[p] /\ Working(p) /\ Creating(p)
  <2>1. NothingBuilt
    BY <1>2, QuietLabels DEF Creating
  <2>2. cstate[c] = "ABSENT"
    BY <1>2 DEF Own, RecordOK
  <2>3. QED
    BY <2>1, <2>2 DEF NothingBuilt, NoOrphanArtifacts
<1>3. CASE c = id[p] /\ Working(p) /\ ~Creating(p)
  <2>1. cstate[c] # "ABSENT" /\ members[c] = mine[p] /\ repositoriesOf(mine[p]) = tgt[p]
    BY <1>3 DEF Own, RecordOK, TargetOK
  <2>2. r \notin tgt[p] => wt'[r] = wt[r] /\ ref'[r] = ref[r] /\ shard'[r] = shard[r] /\ graph'[r] = graph[r]
    BY DEF RowsSame
  <2>3. r \in tgt[p]
    BY <2>1, <2>2 DEF NoOrphanArtifacts, repositoriesOf
  <2>4. CASE cstate'[c] = "ABSENT"
    <3>1. op[p] = "remove" /\ pc[p] = "delete"
      BY <1>3, <2>1, <2>4 DEF ContextWrite, RepositoryWrite, NothingWritten, PutContext, Good,
        RecordsOK
    <3>2. NothingBuilt /\ Cleared(r, c) /\ shard[r][c] = None
      BY <1>3, <2>3, <3>1, QuietLabels DEF RemoveOK
    <3>3. QED
      BY <3>2 DEF NothingBuilt, Cleared
  <2>5. CASE cstate'[c] # "ABSENT"
    <3>1. members'[c] = mine[p]
      BY <1>3, <2>1, <2>5 DEF ContextWrite, RepositoryWrite, NothingWritten, PutContext, Good,
        RecordsOK
    <3>2. QED
      BY <2>1, <2>3, <2>5, <3>1 DEF repositoriesOf
  <2>6. QED
    BY <2>4, <2>5
<1>4. QED
  BY <1>1, <1>2, <1>3

LEMMA ReadyKept ==
  ASSUME Good, NEW p \in Procs, Own(p), BuildOK(p), RowsSame(p), Foreign(p),
         ContextWrite(p) \/ RepositoryWrite(p) \/ NothingWritten,
         Begin(p) \/ Lock(p) \/ Step(p) \/ Fault(p), ReadyIsWhole
  PROVE  ReadyIsWhole'
<1> SUFFICES ASSUME NEW c \in Ctxs, cstate'[c] = "READY",
                    NEW r \in repositoriesOf(members'[c])
             PROVE  /\ clone'[r] = "whole"
                    /\ wt'[r][c] = members'[c][r] /\ ref'[r][c] = members'[c][r]
                    /\ shard'[r][c] = members'[c][r] /\ graph'[r][c] = members'[c][r]
  BY DEF ReadyIsWhole, Whole
<1>1. r \in Repos
  BY DEF repositoriesOf
<1>2. CASE c # id[p] \/ ~Working(p)
  <2>1. cstate'[c] = cstate[c] /\ members'[c] = members[c] /\ ForeignCell(r, c)
    BY <1>1, <1>2, ForeignRecord DEF Foreign
  <2>2. members[c][r] \in Revs
    BY <1>1, <2>1 DEF repositoriesOf, Good, RecordsOK, MemberSets
  <2>3. /\ wt[r][c] = members[c][r] /\ ref[r][c] = members[c][r]
        /\ shard[r][c] = members[c][r] /\ graph[r][c] = members[c][r]
        /\ clone[r] = "whole"
    BY <2>1 DEF ReadyIsWhole, Whole
  <2>4. SearchRefs(r)[c] = members[c][r]
    BY <2>1 DEF SearchRefs
  <2>5. wt[r][c] # "stale"
    BY <2>2, <2>3, ConstantsAssumption
  <2>6. clone'[r] = clone[r]
    <3>1. c \in contextsOf(r)
      BY <2>1 DEF contextsOf, repositoriesOf
    <3>2. QED
      BY <1>1, <3>1 DEF ContextWrite, RepositoryWrite, NothingWritten
  <2>7. QED
    BY <2>1, <2>3, <2>4, <2>5, <2>6 DEF ForeignCell
<1>3. CASE c = id[p] /\ Working(p) /\ NothingWritten
  <2>1. cstate[c] = "READY" /\ members'[c] = members[c]
    BY <1>3 DEF NothingWritten
  <2>2. st[p] = "READY" /\ ~Creating(p)
    BY <1>3, <2>1 DEF Own, RecordOK
  <2>3. NothingBuilt
    <3>1. pc[p] \notin {"stage", "discard", "indexing", "clone"}
      BY <1>3, <2>2, InHand, StateNames DEF Own, RecordOK, ControlOK, Unretryable, Working,
        OnContext
    <3>2. QED
      BY <3>1, StepBuilds DEF prepareSource, prepareSourceFails, indexGraph, indexGraphFails,
        Discard, DiscardFails, IndexWrite, IndexFails, AtStage, RepoRemoveClone
  <2>4. QED
    BY <1>3, <2>1, <2>3 DEF NothingBuilt, NothingWritten, ReadyIsWhole, Whole
<1>4. CASE c = id[p] /\ ContextWrite(p)
  <2>1. /\ st[p] = "VERIFYING" /\ pc[p] = "advance"
        /\ members'[c] = mine[p]
    BY <1>4 DEF ContextWrite, PutContext, Good, RecordsOK
  <2>2. Building(p) /\ tgt[p] = repositoriesOf(mine[p])
    BY <1>4, <2>1, InHand DEF Building, ControlOK, ContextWrite, Own, TargetOK
  <2>3. NothingBuilt
    BY <2>1, QuietLabels
  <2>4. QED
    BY <1>4, <2>1, <2>2, <2>3 DEF BuildOK, NothingBuilt, ContextWrite
<1>5. QED
  BY <1>2, <1>3, <1>4 DEF RepositoryWrite, Working, OnContext, OnRepository
-----------------------------------------------------------------------------
(* The invariant                                                           *)

LEMMA ArtifactsInit ==
  ASSUME Init PROVE ArtifactsInv
<1>1. ASSUME NEW p \in Procs PROVE ListingOK(p) /\ BuildOK(p) /\ RemoveOK(p)
  BY DEF Init, ListingOK, BuildOK, Building, RemoveOK
<1>2. NoOrphanArtifacts /\ ReadyIsWhole /\ SnapshotOK
  BY DEF Init, NoOrphanArtifacts, ReadyIsWhole, SnapshotOK, NoCtxs
<1>3. QED
  BY <1>1, <1>2 DEF ArtifactsInv

LEMMA ArtifactsStep ==
  ASSUME OnePinSet, Good, Good', RecordsInv, RecordsInv', ArtifactsInv, NEW p \in Procs,
         Begin(p) \/ Lock(p) \/ Step(p) \/ Fault(p)
  PROVE  /\ \A q \in Procs : ListingOK(q)' /\ BuildOK(q)' /\ RemoveOK(q)'
         /\ NoOrphanArtifacts' /\ ReadyIsWhole'
<1>1. /\ Own(p) /\ Own(p)' /\ ListingOK(p) /\ BuildOK(p) /\ RemoveOK(p)
      /\ \A c \in Ctxs : PinnedOK(c)
      /\ NoDanglingMember /\ NoDanglingMember' /\ NoOrphanArtifacts /\ ReadyIsWhole
  BY DEF RecordsInv, ArtifactsInv
<1>2. OthersSame(p)
  BY BeginSame, StepSame
<1>3. ContextWrite(p) \/ RepositoryWrite(p) \/ NothingWritten
  BY <1>1, StepWrites
<1>4. RowsSame(p) /\ Foreign(p)
  BY <1>1, StepForeign
<1>5. ListingOK(p)' /\ BuildOK(p)' /\ RemoveOK(p)'
  BY <1>1, StepBuild
<1>6. ASSUME NEW q \in Procs \ {p} PROVE ListingOK(q)' /\ BuildOK(q)' /\ RemoveOK(q)'
  BY <1>1, <1>2, <1>3, <1>4, OthersBuild DEF RecordsInv, ArtifactsInv
<1>7. NoOrphanArtifacts'
  BY <1>1, <1>3, <1>4, OrphansKept
<1>8. ReadyIsWhole'
  BY <1>1, <1>3, <1>4, ReadyKept
<1>9. QED
  BY <1>5, <1>6, <1>7, <1>8

LEMMA ArtifactsStutter ==
  ASSUME ArtifactsInv, Server \/ UNCHANGED vars
  PROVE  /\ \A q \in Procs : ListingOK(q)' /\ BuildOK(q)' /\ RemoveOK(q)'
         /\ NoOrphanArtifacts' /\ ReadyIsWhole'
<1>1. UNCHANGED <<records, artifacts, pc, locals>>
  BY DEF Server, holdServerLock, managedConfig, ServerStop, vars
<1> USE <1>1 DEF ArtifactsInv, records, artifacts, locals
<1>2. ASSUME NEW q \in Procs PROVE ListingOK(q)' /\ BuildOK(q)' /\ RemoveOK(q)'
  <2>1. ListingOK(q)'
    BY DEF ListingOK, contextsOf, SearchRefs
  <2>2. BuildOK(q)'
    BY DEF BuildOK, Building
  <2>3. RemoveOK(q)'
    BY DEF RemoveOK, Cleared
  <2>4. QED
    BY <2>1, <2>2, <2>3
<1>3. NoOrphanArtifacts'
  BY DEF NoOrphanArtifacts
<1>4. ReadyIsWhole'
  BY DEF ReadyIsWhole, Whole
<1>5. QED
  BY <1>2, <1>3, <1>4

LEMMA ServerKept ==
  ASSUME NEW p \in Procs, Begin(p) \/ Lock(p) \/ Step(p) \/ Fault(p)
  PROVE  UNCHANGED serverVars
<1>1. CASE Begin(p) \/ Lock(p)
  BY <1>1 DEF Begin, BeginCreate, BeginRetry, BeginRemove, BeginAdd, BeginRepoRemove,
    BeginSync, Lock, withRepositoryLocks
<1>2. CASE \/ CreatePut(p) \/ Advance(p) \/ fail(p) \/ RemovePut(p) \/ Reenter(p)
           \/ RemoveDelete(p) \/ AddClone(p) \/ AddCloneFails(p) \/ AddPut(p) \/ SyncPut(p)
           \/ RepoRemoveClone(p) \/ RepoRemoveDelete(p) \/ RepoRemoveCloneFails(p)
  BY <1>2 DEF CreatePut, Advance, fail, RemovePut, Reenter, RemoveDelete, AddClone,
    AddCloneFails, AddPut, SyncPut, RepoRemoveClone, RepoRemoveDelete, RepoRemoveCloneFails
<1>3. CASE \/ ReadKnown(p) \/ CreateCheck(p) \/ RetryCheck(p) \/ RemoveCheck(p)
           \/ SyncNext(p) \/ SyncFetch(p) \/ SyncFetchFails(p) \/ RepoRemoveCheck(p)
           \/ verifyContext(p) \/ verifyContextFails(p) \/ Crash(p)
  BY <1>3 DEF ReadKnown, CreateCheck, RetryCheck, RemoveCheck, SyncNext, SyncFetch,
    SyncFetchFails, RepoRemoveCheck, verifyContext, verifyContextFails, Crash
<1>4. ASSUME NEW r \in Repos,
             \/ prepareSource(p, r) \/ prepareSourceFails(p, r)
             \/ indexGraph(p, r) \/ indexGraphFails(p, r)
             \/ Discard(p, r) \/ DiscardFails(p, r)
             \/ IndexList(p, r) \/ IndexRead(p, r) \/ IndexWrite(p, r) \/ IndexFails(p, r)
      PROVE  UNCHANGED serverVars
  BY <1>4 DEF prepareSource, prepareSourceFails, indexGraph, indexGraphFails, Discard,
    DiscardFails, IndexList, IndexRead, IndexWrite, IndexFails
<1>5. QED
  BY <1>1, <1>2, <1>3, <1>4 DEF Step, Fault, IndexRefused

\* The snapshot is of the records as they are for as long as it is served.
LEMMA SnapshotKept ==
  ASSUME Inv, SnapshotOK, [Next]_vars PROVE SnapshotOK'
<1>1. CASE managedConfig
  BY <1>1 DEF managedConfig, records, SnapshotOK, Inv, TypeOK, ServerOK
<1>2. CASE server = "serving" /\ UNCHANGED serverVars
  BY <1>2, ServedStep DEF SnapshotOK, serverVars, Servable
<1>3. CASE server' # "serving"
  BY <1>3 DEF SnapshotOK
<1>4. UNCHANGED serverVars \/ managedConfig \/ server' # "serving"
  <2>1. CASE Server
    BY <2>1 DEF Server, holdServerLock, ServerStop
  <2>2. CASE UNCHANGED vars
    BY <2>2 DEF vars
  <2>3. ASSUME NEW p \in Procs, Begin(p) \/ Lock(p) \/ Step(p) \/ Fault(p)
        PROVE  UNCHANGED serverVars
    BY <2>3, ServerKept
  <2>4. QED
    BY <2>1, <2>2, <2>3 DEF Next
<1>5. QED
  BY <1>1, <1>2, <1>3, <1>4 DEF serverVars

LEMMA ArtifactsInductive ==
  ASSUME OnePinSet PROVE Inv /\ RecordsInv /\ ArtifactsInv /\ [Next]_vars => ArtifactsInv'
<1> SUFFICES ASSUME Inv, RecordsInv, ArtifactsInv, [Next]_vars PROVE ArtifactsInv'
  OBVIOUS
<1>1. Good /\ Good' /\ RecordsInv'
  BY StepInv, RecordsInductive DEF Inv, TypeOK, Good
<1>2. SnapshotOK'
  BY SnapshotKept DEF ArtifactsInv
<1>3. /\ \A q \in Procs : ListingOK(q)' /\ BuildOK(q)' /\ RemoveOK(q)'
      /\ NoOrphanArtifacts' /\ ReadyIsWhole'
  BY <1>1, ArtifactsStep, ArtifactsStutter DEF Next
<1>4. QED
  BY <1>2, <1>3 DEF ArtifactsInv

LEMMA ArtifactsInvariance == ASSUME OnePinSet PROVE Spec => []ArtifactsInv
<1>1. QED
  BY ArtifactsInit, ArtifactsInductive, RecordsInvariance, PTL DEF Spec
-----------------------------------------------------------------------------
\* Nothing that was built for a context outlives the record that names it, at
\* whichever step the commands on it are killed.
THEOREM NothingOrphaned == ASSUME OnePinSet PROVE Spec => []NoOrphanArtifacts
<1>1. ArtifactsInv => NoOrphanArtifacts
  BY DEF ArtifactsInv
<1>2. QED
  BY <1>1, ArtifactsInvariance, PTL

\* A record that says READY has every artifact, at the commit it pins, whatever
\* the commands on other contexts of its repositories do.
THEOREM ReadyWhole == ASSUME OnePinSet PROVE Spec => []ReadyIsWhole
<1>1. ArtifactsInv => ReadyIsWhole
  BY DEF ArtifactsInv
<1>2. QED
  BY <1>1, ArtifactsInvariance, PTL

\* What a server read of the records at its start is so until it stops, and all
\* that it serves from is there.
THEOREM SnapshotHolds == ASSUME OnePinSet PROVE Spec => []SnapshotStable
<1>1. ArtifactsInv => SnapshotStable
  BY DEF ArtifactsInv, SnapshotOK, ReadyIsWhole, SnapshotStable
<1>2. QED
  BY <1>1, ArtifactsInvariance, PTL
-----------------------------------------------------------------------------
(* While nothing fails: what alone makes a command give up.                    *)

\* A build, the first one or another.
Builds(p) == op[p] \in {"create", "retry"}

\* What p does not meet while no program fails: a checkout where its own will
\* be, or the name of a record that went away, but for one removed in other
\* repositories.
QuietOK(p) ==
  /\ Builds(p) /\ pc[p] = "advance" /\ st[p] \in {"CREATING", "RESOLVING"} =>
       \A r \in tgt[p] : wt[r][id[p]] = None
  /\ Builds(p) /\ pc[p] = "stage" /\ st[p] = "PREPARING_SOURCE" =>
       \A r \in todo[p] : wt[r][id[p]] = None
  /\ op[p] = "retry" /\ pc[p] = "discard" => \A r \in tgt[p] \ todo[p] : wt[r][id[p]] = None
  /\ pc[p] = "reenter" => \A r \in tgt[p] : wt[r][id[p]] = None
  /\ pc[p] = "listed" => \A c \in listed[p] : cstate[c] # "ABSENT" \/ Disjoint(c, tgt[p])

\* No clone is half there.
ClonesWhole == \A r \in Repos : clone[r] # "partial"

Quiet == (\A p \in Procs : QuietOK(p)) /\ ClonesWhole

QuietInv == faults = 0 => Quiet

\* What a step of p may make it give up for.
Excused(p) ==
  GivesUp(p) => pc[p] = "listed" /\ \E c \in listed[p] : cstate[c] = "ABSENT" /\ Disjoint(c, tgt[p])
-----------------------------------------------------------------------------
(* The other processes                                                     *)

\* A record is deleted under the locks of every set its context is pinned to,
\* and none of them is another's.
LEMMA DeletedElsewhere ==
  ASSUME OnePinSet, Good, NEW p \in Procs, NEW q \in Procs \ {p}, Own(p), Own(q),
         OnContext(q), Locked(q), NEW c \in Ctxs, cstate[c] # "ABSENT", cstate'[c] = "ABSENT",
         ContextWrite(p) \/ RepositoryWrite(p) \/ NothingWritten
  PROVE  Disjoint(c, tgt[q])
<1>1. Working(p) /\ c = id[p]
  BY ForeignRecord
<1>2. tgt[p] \in PinSets[c] /\ tgt[p] \subseteq held(p) /\ tgt[q] \subseteq held(q)
  BY <1>1 DEF Own, TargetOK, Working, OnContext, Locked
<1>3. tgt[p] \cap tgt[q] = {}
  BY <1>2 DEF held
<1>4. \A pins \in PinSets[c] : pins = tgt[p]
  BY <1>2 DEF OnePinSet
<1>5. QED
  BY <1>3, <1>4 DEF Disjoint

\* A step of p is nothing to what another builds or reads.
LEMMA OthersQuiet ==
  ASSUME OnePinSet, Good, NEW p \in Procs, NEW q \in Procs \ {p}, Own(p), Own(q), QuietOK(q),
         OthersSame(p), RowsSame(p), ContextWrite(p) \/ RepositoryWrite(p) \/ NothingWritten
  PROVE  QuietOK(q)'
<1>1. SameLocals(q)
  BY DEF OthersSame
<1>2. ASSUME Working(q), NEW r \in tgt[q]
      PROVE  wt'[r] = wt[r]
  <2>1. r \in Repos /\ lock[r] = q
    BY <1>2 DEF Own, TargetOK, Locked, Working, OnContext, held
  <2>2. QED
    BY <2>1 DEF RowsSame
<1>3. Working(q) => todo[q] \subseteq tgt[q]
  BY DEF Own, TargetOK
<1>4. /\ Builds(q) /\ pc[q] \in {"advance", "stage"} => Working(q)
      /\ op[q] = "retry" /\ pc[q] = "discard" => Working(q)
      /\ pc[q] = "reenter" => Working(q)
  BY InHand DEF Builds, Working, OnContext, ControlOK
<1>5. ASSUME pc[q] = "listed", NEW c \in listed[q]
      PROVE  cstate'[c] # "ABSENT" \/ Disjoint(c, tgt[q])
  <2>1. OnContext(q) /\ Locked(q) /\ c \in Ctxs
    BY <1>5, InHand DEF OnContext, Locked, ControlOK, Good, LocalsOK
  <2>2. QED
    BY <1>5, <2>1, DeletedElsewhere DEF QuietOK
<1>6. QED
  <2>1. /\ Builds(q)' /\ pc'[q] = "advance" /\ st'[q] \in {"CREATING", "RESOLVING"} =>
             \A r \in tgt'[q] : wt'[r][id'[q]] = None
        /\ Builds(q)' /\ pc'[q] = "stage" /\ st'[q] = "PREPARING_SOURCE" =>
             \A r \in todo'[q] : wt'[r][id'[q]] = None
    BY <1>1, <1>2, <1>3, <1>4 DEF QuietOK, SameLocals, Builds
  <2>2. /\ op'[q] = "retry" /\ pc'[q] = "discard" =>
             \A r \in tgt'[q] \ todo'[q] : wt'[r][id'[q]] = None
        /\ pc'[q] = "reenter" => \A r \in tgt'[q] : wt'[r][id'[q]] = None
    BY <1>1, <1>2, <1>4 DEF QuietOK, SameLocals
  <2>3. pc'[q] = "listed" => \A c \in listed'[q] : cstate'[c] # "ABSENT" \/ Disjoint(c, tgt'[q])
    BY <1>1, <1>5 DEF SameLocals
  <2>4. QED
    BY <2>1, <2>2, <2>3 DEF QuietOK
-----------------------------------------------------------------------------
(* The process itself                                                      *)

\* A process that is not at any of the labels the invariant speaks of.
LEMMA QuietElsewhere ==
  ASSUME NEW p \in Procs, pc'[p] \notin {"advance", "stage", "discard", "reenter", "listed"}
  PROVE  QuietOK(p)'
BY DEF QuietOK

LEMMA QuietBefore ==
  ASSUME Good, NEW p \in Procs, Own(p)',
         \/ Begin(p) \/ Lock(p) \/ ReadKnown(p) \/ CreateCheck(p)
         \/ RetryCheck(p) \/ RemoveCheck(p)
  PROVE  QuietOK(p)' /\ Excused(p)
<1> USE DEF Good, LocalsOK, Goto, locks, locals
<1>1. pc[p] \in {"idle", "lock", "known", "locked"}
  BY DEF Begin, BeginCreate, BeginRetry, BeginRemove, BeginAdd, BeginRepoRemove,
    BeginSync, Start, Lock, withRepositoryLocks, ReadKnown, CreateCheck, RetryCheck, RemoveCheck
<1>2. CASE Finish(p)
  <2>1. pc'[p] = "idle"
    BY <1>2 DEF Finish
  <2>2. QED
    BY <1>1, <2>1, QuietElsewhere DEF Excused, GivesUp
<1>3. CASE ~Finish(p) /\ RetryCheck(p)
  <2>1. pc'[p] = "discard" /\ op'[p] = "retry" /\ todo'[p] = repositoriesOf(mine'[p])
    BY <1>3 DEF RetryCheck, Reread
  <2>2. repositoriesOf(mine'[p]) = tgt'[p]
    BY <2>1 DEF Own, TargetOK, Working, OnContext
  <2>3. QED
    BY <1>1, <2>1, <2>2 DEF QuietOK, Excused, GivesUp
<1>4. CASE ~Finish(p) /\ ~RetryCheck(p)
  <2>1. pc'[p] \in {"known", "lock", "locked", "next", "put"}
    <3>1. CASE Begin(p) \/ Lock(p)
      BY <3>1 DEF Begin, BeginCreate, BeginRetry, BeginRemove, BeginAdd, BeginRepoRemove,
        BeginSync, Start, Lock, withRepositoryLocks
    <3>2. CASE ReadKnown(p) \/ CreateCheck(p) \/ RemoveCheck(p)
      BY <1>4, <3>2 DEF ReadKnown, CreateCheck, RemoveCheck, Reread
    <3>3. QED
      BY <1>4, <3>1, <3>2
  <2>2. QED
    BY <1>1, <2>1, QuietElsewhere DEF Excused, GivesUp
<1>5. QED
  BY <1>2, <1>3, <1>4

\* The steps that write a record.
LEMMA QuietPut ==
  ASSUME Good, NEW p \in Procs, Own(p), QuietOK(p), NoOrphanArtifacts,
         \/ CreatePut(p) \/ Advance(p) \/ fail(p) \/ RemovePut(p) \/ Reenter(p)
         \/ RemoveDelete(p)
  PROVE  QuietOK(p)' /\ Excused(p)
<1> USE DEF Good, LocalsOK, Goto
<1>1. CASE CreatePut(p)
  <2>1. /\ pc[p] = "put" /\ pc'[p] = "advance" /\ op[p] = "create" /\ UNCHANGED <<id, tgt, wt>>
        /\ id[p] \in Ctxs
    BY <1>1, InHand DEF CreatePut, locks, artifacts, ControlOK
  <2>2. cstate[id[p]] = "ABSENT"
    BY <1>1 DEF CreatePut, Own, RecordOK, Creating, Working, OnContext
  <2>3. \A r \in tgt[p] : wt[r][id[p]] = None
    BY <2>1, <2>2, InHand DEF NoOrphanArtifacts
  <2>4. QED
    BY <2>1, <2>3 DEF QuietOK, Excused, GivesUp
<1>2. CASE Reenter(p)
  <2>1. /\ pc[p] = "reenter" /\ pc'[p] = "advance" /\ UNCHANGED <<op, id, tgt, wt>>
    BY <1>2 DEF Reenter, locks, artifacts
  <2>2. \A r \in tgt[p] : wt[r][id[p]] = None
    BY <2>1 DEF QuietOK
  <2>3. QED
    BY <2>1, <2>2 DEF QuietOK, Excused, GivesUp
<1>3. CASE Advance(p) /\ ~Finish(p)
  <2>1. /\ pc[p] = "advance" /\ Builds(p) /\ st[p] \in Stages
    BY <1>3, InHand DEF Advance, ControlOK, Builds
  <2>2. /\ UNCHANGED <<op, id, tgt, wt>>
        /\ st'[p] = Following(st[p]) /\ todo'[p] = repositoriesOf(mine[p])
        /\ pc'[p] = IF Following(st[p]) = "RESOLVING" THEN "advance" ELSE "stage"
    BY <1>3 DEF Advance, artifacts
  <2>3. repositoriesOf(mine[p]) = tgt[p]
    BY <2>1 DEF Own, TargetOK, Working, OnContext, Builds
  <2>4. Following(st[p]) \in {"CREATING", "RESOLVING", "PREPARING_SOURCE"} => st[p] \in {"CREATING", "RESOLVING"}
    BY <2>1, StateNames, FollowingNames
  <2>5. QuietOK(p)'
    BY <2>1, <2>2, <2>3, <2>4 DEF QuietOK, Builds
  <2>6. QED
    BY <2>1, <2>2, <2>5 DEF Excused, GivesUp
<1>4. CASE RemovePut(p)
  <2>1. pc'[p] = "discard" /\ op'[p] = "remove"
    BY <1>4 DEF RemovePut
  <2>2. QED
    BY <2>1 DEF QuietOK, Excused, GivesUp, Builds
<1>5. CASE Finish(p) /\ pc[p] \in {"advance", "fail", "delete"}
  <2>1. pc'[p] = "idle"
    BY <1>5 DEF Finish
  <2>2. QED
    BY <1>5, <2>1, QuietElsewhere DEF Excused, GivesUp
<1>6. QED
  BY <1>1, <1>2, <1>3, <1>4, <1>5 DEF Advance, fail, RemoveDelete

\* A build that goes on as a build.
LEMMA QuietBuilding ==
  ASSUME NEW p \in Procs, UNCHANGED id, pc[p] # "listed",
         pc'[p] \in {"advance", "stage", "indexing"},
         pc'[p] = "advance" => st'[p] \notin {"CREATING", "RESOLVING"},
         pc'[p] = "stage" /\ st'[p] = "PREPARING_SOURCE" => \A r \in todo'[p] : wt'[r][id[p]] = None
  PROVE  QuietOK(p)' /\ Excused(p)
BY DEF QuietOK, Excused, GivesUp

\* The checkout is not there yet, and the graph is built of a whole one.
LEMMA QuietStage ==
  ASSUME Good, NEW p \in Procs, Own(p), QuietOK(p), ClonesWhole, BuildOK(p), NoDanglingMember,
         NEW r \in Repos, prepareSource(p, r) \/ indexGraph(p, r)
  PROVE  QuietOK(p)' /\ Excused(p)
<1>1. /\ r \in todo[p] /\ pc[p] = "stage" /\ Builds(p) /\ clone[r] = "whole"
      /\ r \in tgt[p] /\ mine[p][r] \in Revs /\ tgt[p] \subseteq Repos /\ todo[p] \subseteq tgt[p]
  <2>1. r \in todo[p] /\ pc[p] = "stage"
    BY DEF prepareSource, indexGraph, AtStage
  <2>2. Builds(p) /\ tgt[p] \subseteq Repos
    BY <2>1, InHand DEF ControlOK, Builds
  <2>3. clone[r] = "whole"
    BY <2>1, CloneThere DEF Running, ClonesWhole, Good, ArtifactsOK
  <2>4. QED
    BY <2>1, <2>2, <2>3, AtWork DEF Running
<1>2. /\ st[p] \in {"PREPARING_SOURCE", "INDEXING_GRAPH"}
      /\ st[p] = "PREPARING_SOURCE" => prepareSource(p, r) /\ wt[r][id[p]] = None
      /\ st[p] = "INDEXING_GRAPH" => indexGraph(p, r) /\ wt[r][id[p]] \in Revs
  BY <1>1 DEF prepareSource, indexGraph, AtStage, QuietOK, BuildOK, Building, Builds
<1>3. /\ todo'[p] = todo[p] \ {r}
      /\ pc'[p] \in {"advance", "stage"}
      /\ UNCHANGED <<id, tgt, st>>
      /\ \A x \in Repos \ {r} : wt'[x] = wt[x]
  BY <1>1, <1>2 DEF prepareSource, indexGraph, Done, Goto, Good, LocalsOK, ArtifactsOK
<1>4. st[p] = "PREPARING_SOURCE" => \A x \in todo'[p] : wt'[x][id[p]] = None
  BY <1>1, <1>3 DEF QuietOK
<1>5. QED
  BY <1>1, <1>2, <1>3, <1>4, QuietBuilding

\* What verifyContext asks for is less than what a build has made.
LEMMA QuietVerify ==
  ASSUME Good, NEW p \in Procs, Own(p), ClonesWhole, BuildOK(p), NoDanglingMember,
         verifyContext(p)
  PROVE  QuietOK(p)' /\ Excused(p)
<1>1. /\ pc[p] = "stage" /\ st[p] = "VERIFYING" /\ Builds(p) /\ id[p] \in Ctxs
      /\ UNCHANGED <<id, st>>
  BY InHand DEF verifyContext, AtStage, ControlOK, locals, Builds
<1>2. /\ repositoriesOf(mine[p]) = tgt[p] /\ members[id[p]] = mine[p] /\ cstate[id[p]] # "ABSENT"
  BY <1>1 DEF Own, TargetOK, RecordOK, Working, OnContext, Creating, Builds
<1>3. ASSUME NEW r \in repositoriesOf(mine[p])
      PROVE  /\ clone[r] = "whole"
             /\ verifySource(r, id[p], mine[p]) /\ verifySearchRef(r, id[p], mine[p])
             /\ verifyGraph(r, id[p])
  <2>1. mine[p][r] # None /\ r \in Repos
    BY DEF repositoriesOf
  <2>2. /\ wt[r][id[p]] = mine[p][r] /\ ref[r][id[p]] = mine[p][r]
        /\ shard[r][id[p]] = mine[p][r] /\ graph[r][id[p]] = mine[p][r]
    BY <1>1, <1>2 DEF BuildOK, Building, Builds
  <2>3. shard[r] # NoCtxs
    BY <1>1, <2>1, <2>2 DEF NoCtxs
  <2>4. clone[r] = "whole"
    BY <1>1, <1>2, <2>1 DEF NoDanglingMember, ClonesWhole, Good, ArtifactsOK
  <2>5. QED
    BY <2>1, <2>2, <2>3, <2>4 DEF verifySource, verifySearchRef, verifyGraph
<1>4. pc'[p] = "advance"
  BY <1>3 DEF verifyContext, Verified, Goto, Good, LocalsOK
<1>5. QED
  BY <1>1, <1>4, QuietBuilding

\* The repositories of a record that exists are managed: a retry takes every
\* checkout apart, and where one was there is none.
LEMMA QuietDiscard ==
  ASSUME Good, NEW p \in Procs, Own(p), QuietOK(p), NoDanglingMember, NEW r \in Repos,
         Discard(p, r)
  PROVE  QuietOK(p)' /\ Excused(p)
<1>1. /\ pc[p] = "discard" /\ op[p] \in {"retry", "remove"} /\ r \in todo[p] /\ repo[r] # "ABSENT"
      /\ r \in tgt[p] /\ id[p] \in Ctxs /\ todo[p] \subseteq tgt[p] /\ tgt[p] \subseteq Repos
  BY AtWork, CloneThere, InHand DEF Discard, ControlOK, Running
<1>2. CASE op[p] = "remove"
  <2>1. pc'[p] \in {"index", "discard"} /\ op'[p] = "remove"
    BY <1>1, <1>2 DEF Discard, Good, LocalsOK
  <2>2. QED
    BY <1>1, <2>1 DEF QuietOK, Excused, GivesUp, Builds
<1>3. CASE op[p] = "retry"
  <2>1. /\ pc'[p] = IF todo[p] = {r} THEN "reenter" ELSE "discard"
        /\ todo'[p] = todo[p] \ {r} /\ UNCHANGED <<op, id, tgt>>
        /\ wt' = [wt EXCEPT ![r] = [c \in Ctxs |-> prune(IF c = id[p] THEN RemoveAll(@[c]) ELSE @[c])]]
    BY <1>1, <1>3 DEF Discard, Done, Goto, Good, LocalsOK
  <2>2. wt'[r][id[p]] = None
    BY <1>1, <2>1 DEF prune, RemoveAll, Good, ArtifactsOK
  <2>3. \A x \in Repos \ {r} : wt'[x] = wt[x]
    BY <2>1 DEF Good, ArtifactsOK
  <2>4. \A x \in tgt[p] \ todo'[p] : wt'[x][id[p]] = None
    BY <1>1, <1>3, <2>1, <2>2, <2>3 DEF QuietOK
  <2>5. QuietOK(p)'
    BY <1>3, <2>1, <2>4 DEF QuietOK
  <2>6. QED
    BY <1>1, <2>1, <2>5 DEF Excused, GivesUp
<1>4. QED
  BY <1>1, <1>2, <1>3

\* The listing, and what is done with it.
LEMMA QuietIndex ==
  ASSUME Good, NEW p \in Procs, Own(p), QuietOK(p), ClonesWhole, NEW r \in Repos,
         IndexList(p, r) \/ IndexRead(p, r) \/ IndexWrite(p, r) \/ IndexRefused(p, r)
  PROVE  QuietOK(p)' /\ Excused(p)
<1>1. /\ op[p] = "remove" \/ (Builds(p) /\ st[p] = "INDEXING_SEARCH")
      /\ pc[p] \in {"index", "listed", "indexing", "stage"}
  BY InHand DEF IndexList, IndexRead, IndexWrite, IndexRefused, IndexFails, Indexing, AtStage,
    ControlOK, Own, RecordOK, Builds
<1>2. UNCHANGED <<id, tgt, cstate>>  \/ pc'[p] = "idle"
  BY DEF IndexList, IndexRead, IndexWrite, IndexRefused, IndexFails, IndexError, records,
    Finish, locals, Good, LocalsOK
<1>3. CASE IndexList(p, r)
  <2>1. pc'[p] = "listed" /\ listed'[p] = {c \in Ctxs : cstate[c] # "ABSENT"} /\ UNCHANGED cstate
    BY <1>3 DEF IndexList, Goto, records, Good, LocalsOK
  <2>2. QED
    BY <2>1 DEF QuietOK, Excused, GivesUp
<1>4. CASE IndexRead(p, r)
  <2>1. pc[p] = "listed" /\ pc'[p] \in {"idle", "fail", "indexing"}
    BY <1>4 DEF IndexRead, IndexError, Finish, Goto, Good, LocalsOK
  <2>2. pc'[p] # "indexing" => \E c \in listed[p] : cstate[c] = "ABSENT"
    BY <1>4, <2>1 DEF IndexRead, Goto, Good, LocalsOK
  <2>3. Excused(p)
    BY <2>1, <2>2 DEF Excused, GivesUp, QuietOK
  <2>4. QED
    BY <2>1, <2>3, QuietElsewhere
<1>5. CASE IndexWrite(p, r)
  <2>1. /\ pc[p] = "indexing" /\ UNCHANGED <<op, st, id>>
        /\ op[p] = "remove" => pc'[p] \in {"index", "delete"}
        /\ op[p] # "remove" => pc'[p] \in {"stage", "advance"}
    BY <1>5 DEF IndexWrite, Done, Goto, Good, LocalsOK
  <2>2. CASE op[p] = "remove"
    BY <2>1, <2>2, QuietElsewhere DEF Excused, GivesUp
  <2>3. CASE op[p] # "remove"
    BY <1>1, <2>1, <2>3, QuietBuilding
  <2>4. QED
    BY <2>2, <2>3
<1>6. QED
  BY <1>3, <1>4, <1>5 DEF IndexRefused, ClonesWhole

LEMMA QuietRepository ==
  ASSUME Good, NEW p \in Procs, Own(p),
         \/ AddClone(p) \/ AddPut(p) \/ SyncNext(p) \/ SyncFetch(p) \/ SyncPut(p)
         \/ RepoRemoveCheck(p) \/ RepoRemoveClone(p) \/ RepoRemoveDelete(p)
  PROVE  QuietOK(p)' /\ Excused(p)
<1>1. /\ op[p] \in {"add", "sync", "repo remove"}
      /\ pc'[p] \in {"put", "lock", "next", "idle", "clone", "delete"}
  <2>1. pc[p] = "next" => op[p] = "sync"
    BY DEF Own, IdleOK
  <2>2. pc[p] = "clone" => op[p] = "repo remove"
    BY InHand DEF ControlOK
  <2>3. QED
    BY <2>1, <2>2 DEF AddClone, AddPut, SyncNext, SyncFetch, SyncPut, RepoRemoveCheck,
      RepoRemoveClone, RepoRemoveDelete, Finish, Goto, Good, LocalsOK
<1>2. QED
  BY <1>1, QuietElsewhere DEF Excused, GivesUp

LEMMA StepQuiet ==
  ASSUME Good, NEW p \in Procs, RecordsInv, Own(p)', ArtifactsInv, Quiet,
         Begin(p) \/ Lock(p) \/ Step(p)
  PROVE  QuietOK(p)' /\ Excused(p)
<1>1. /\ Own(p) /\ QuietOK(p) /\ BuildOK(p) /\ NoDanglingMember /\ NoOrphanArtifacts /\ ClonesWhole
  BY DEF RecordsInv, ArtifactsInv, Quiet
<1>2. CASE \/ Begin(p) \/ Lock(p) \/ ReadKnown(p) \/ CreateCheck(p)
           \/ RetryCheck(p) \/ RemoveCheck(p)
  BY <1>2, QuietBefore
<1>3. CASE \/ CreatePut(p) \/ Advance(p) \/ fail(p) \/ RemovePut(p) \/ Reenter(p)
           \/ RemoveDelete(p)
  BY <1>1, <1>3, QuietPut
<1>4. CASE verifyContext(p)
  BY <1>1, <1>4, QuietVerify
<1>5. CASE \/ AddClone(p) \/ AddPut(p) \/ SyncNext(p) \/ SyncFetch(p) \/ SyncPut(p)
           \/ RepoRemoveCheck(p) \/ RepoRemoveClone(p) \/ RepoRemoveDelete(p)
  BY <1>1, <1>5, QuietRepository
<1>6. ASSUME NEW r \in Repos,
             \/ prepareSource(p, r) \/ indexGraph(p, r) \/ Discard(p, r)
             \/ IndexList(p, r) \/ IndexRead(p, r) \/ IndexWrite(p, r) \/ IndexRefused(p, r)
      PROVE  QuietOK(p)' /\ Excused(p)
  BY <1>1, <1>6, QuietStage, QuietDiscard, QuietIndex
<1>7. QED
  BY <1>2, <1>3, <1>4, <1>5, <1>6 DEF Step

\* A clone is half there only where git was killed.
LEMMA StepClones ==
  ASSUME Good, NEW p \in Procs, ClonesWhole, Begin(p) \/ Lock(p) \/ Step(p)
  PROVE  ClonesWhole'
<1>1. CASE Begin(p) \/ Lock(p)
  BY <1>1 DEF Begin, BeginCreate, BeginRetry, BeginRemove, BeginAdd, BeginRepoRemove,
    BeginSync, Lock, withRepositoryLocks, artifacts, ClonesWhole
<1>2. CASE \/ CreatePut(p) \/ Advance(p) \/ fail(p) \/ RemovePut(p) \/ Reenter(p)
           \/ RemoveDelete(p) \/ AddPut(p) \/ SyncPut(p) \/ RepoRemoveDelete(p)
  BY <1>2 DEF CreatePut, Advance, fail, RemovePut, Reenter, RemoveDelete, AddPut, SyncPut,
    RepoRemoveDelete, artifacts, ClonesWhole
<1>3. CASE \/ ReadKnown(p) \/ CreateCheck(p) \/ RetryCheck(p) \/ RemoveCheck(p)
           \/ SyncNext(p) \/ SyncFetch(p) \/ RepoRemoveCheck(p) \/ verifyContext(p)
  BY <1>3 DEF ReadKnown, CreateCheck, RetryCheck, RemoveCheck, SyncNext, SyncFetch,
    RepoRemoveCheck, verifyContext, artifacts, ClonesWhole
<1>4. CASE AddClone(p) \/ RepoRemoveClone(p)
  BY <1>4 DEF AddClone, RepoRemoveClone, ClonesWhole, Good, ArtifactsOK
<1>5. ASSUME NEW r \in Repos,
             \/ prepareSource(p, r) \/ indexGraph(p, r) \/ Discard(p, r)
             \/ IndexList(p, r) \/ IndexRead(p, r) \/ IndexWrite(p, r) \/ IndexRefused(p, r)
      PROVE  ClonesWhole'
  BY <1>5 DEF prepareSource, indexGraph, Discard, IndexList, IndexRead, IndexWrite,
    IndexRefused, IndexFails, artifacts, ClonesWhole
<1>6. QED
  BY <1>1, <1>2, <1>3, <1>4, <1>5 DEF Step
-----------------------------------------------------------------------------
\* While no fault is counted a step keeps all this, and makes a command give up
\* only for a record that was removed in other repositories.
LEMMA QuietInductive ==
  ASSUME OnePinSet, Inv, RecordsInv, RecordsInv', ArtifactsInv, QuietInv, [Next]_vars, faults' = 0
  PROVE  Quiet' /\ \A p \in Procs : Excused(p)
<1>1. Good
  BY DEF Inv, TypeOK, Good
<1>2. CASE Server \/ UNCHANGED vars
  <2>1. UNCHANGED <<records, artifacts, pc, locals, faults>>
    BY <1>2 DEF Server, holdServerLock, managedConfig, ServerStop, vars
  <2>2. Quiet
    BY <2>1 DEF QuietInv
  <2>3. Quiet'
    BY <2>1, <2>2 DEF Quiet, QuietOK, ClonesWhole, Builds, records, artifacts, locals
  <2>4. \A p \in Procs : Excused(p)
    BY <2>1 DEF Excused, GivesUp
  <2>5. QED
    BY <2>3, <2>4
<1>3. ASSUME NEW p \in Procs, Begin(p) \/ Lock(p) \/ Step(p)
      PROVE  Quiet' /\ \A q \in Procs : Excused(q)
  <2>1. Quiet
    BY <1>3 DEF QuietInv, Begin, Lock, Step
  <2>2. QuietOK(p)' /\ Excused(p)
    BY <1>1, <1>3, <2>1, StepQuiet DEF RecordsInv
  <2>3. OthersSame(p)
    BY <1>1, <1>3, BeginSame, StepSame
  <2>4. /\ ContextWrite(p) \/ RepositoryWrite(p) \/ NothingWritten
        /\ RowsSame(p)
    BY <1>1, <1>3, StepWrites, StepForeign DEF RecordsInv, ArtifactsInv
  <2>5. ASSUME NEW q \in Procs \ {p} PROVE QuietOK(q)' /\ Excused(q)
    <3>1. QuietOK(q)'
      BY <1>1, <2>1, <2>3, <2>4, OthersQuiet DEF RecordsInv, Quiet
    <3>2. pc'[q] = pc[q]
      BY <2>3 DEF OthersSame, SameLocals
    <3>3. QED
      BY <3>1, <3>2 DEF Excused, GivesUp
  <2>6. ClonesWhole'
    BY <1>1, <1>3, <2>1, StepClones DEF Quiet
  <2>7. QED
    BY <2>2, <2>5, <2>6 DEF Quiet
<1>4. ASSUME NEW p \in Procs, Fault(p) PROVE FALSE
  BY <1>4 DEF Fault, Inv, TypeOK
<1>5. QED
  BY <1>2, <1>3, <1>4 DEF Next

\* While no program fails and nothing is killed, a command gives up for one thing
\* alone, for any number of commands on any repositories: it listed a context that
\* a removal, in repositories it has none of, deleted before it was read.
THEOREM NothingFails == ASSUME OnePinSet PROVE Spec => NoSpuriousFailure
<1>1. Init => QuietInv
  BY DEF Init, QuietInv, Quiet, QuietOK, ClonesWhole
<1>2. Inv /\ RecordsInv /\ RecordsInv' /\ ArtifactsInv /\ QuietInv /\ [Next]_vars => QuietInv'
  BY QuietInductive DEF QuietInv
<1>3. Inv /\ RecordsInv /\ RecordsInv' /\ ArtifactsInv /\ QuietInv /\ [Next]_vars =>
        [\A p \in Procs : faults' = 0 /\ GivesUp(p) =>
           /\ pc[p] = "listed"
           /\ \E c \in listed[p] : cstate[c] = "ABSENT" /\ Disjoint(c, tgt[p])]_vars
  BY QuietInductive DEF Excused
<1>4. QED
  BY <1>1, <1>2, <1>3, ArtifactsInvariance, RecordsInvariance, PTL DEF Spec, NoSpuriousFailure
================================================================================
