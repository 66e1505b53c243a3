--------------------------- MODULE ManagedLifecycle ---------------------------
(***************************************************************************)
(* The management plane: the commands of `vacmcp context` and `vacmcp      *)
(* repo`, each one an operating system process, working on one data        *)
(* directory beside a `vacmcp serve --managed`.                            *)
(*                                                                         *)
(* A command is a sequence of atomic steps: taking a lock, writing a       *)
(* record, running one external program to its end.  Between any two of    *)
(* them other processes run, and at any of them the process may be killed: *)
(* the kernel drops its locks and everything it wrote stays.               *)
(***************************************************************************)
EXTENDS Naturals

CONSTANTS
  Procs,    \* the processes that run management commands
  Repos,    \* repository names, numbered in the order slices.Sorted gives them
  Ctxs,     \* context ids
  Revs,     \* commits
  PinSets,  \* PinSets[c]: the sets of repositories a user may pin c to
  None,     \* no process, no commit, no context
  MaxFaults \* bound: how many kills and failures of a program a run sees

ASSUME ConstantsAssumption ==
  /\ Repos \subseteq Nat
  /\ PinSets \in [Ctxs -> SUBSET SUBSET Repos]
  /\ \A c \in Ctxs : {} \notin PinSets[c]
  /\ MaxFaults \in Nat
  /\ None \notin Procs \cup Revs \cup Ctxs
  /\ {"partial", "stale"} \cap (Revs \cup {None}) = {}

VARIABLES
  \* The records, files of the store.
  repo,     \* repository record: its state, or ABSENT
  cstate,   \* context record: its state, or ABSENT
  members,  \* context record: the commit each member repository is pinned at
  \* The artifacts, of which all but the clone belong to one context.
  clone,    \* "none", "partial" (too little of it for a checkout) or "whole"
  wt,       \* wt[r][c]: the checkout; "stale" is administered but deleted
  ref,      \* ref[r][c]: the search ref in the clone
  shard,    \* shard[r][c]: the branch as it is in the search index
  graph,    \* graph[r][c]: the call graph in codebase-memory-mcp's store
  \* The locks.
  lock,     \* lock[r]: the process that holds the repository's lock
  mgmt,     \* the processes that hold the server lock shared
  \* The managed server.
  server,   \* "down", "locked" (holds the server lock) or "serving"
  snap,     \* snap[c]: the members it read at startup
  \* The processes.
  pc, op, id,
  tgt,      \* the repositories this command locks
  mine,     \* c.Members, this process's copy
  st,       \* c.State (or the repository record's), this process's copy
  todo,     \* the repositories the current loop has still to do
  listed,   \* the record files os.ReadDir named
  seen,     \* what indexRepository read of the records
  faults    \* the kills and failures so far

records   == <<repo, cstate, members>>
artifacts == <<clone, wt, ref, shard, graph>>
locks     == <<lock, mgmt>>
serverVars == <<server, snap>>
locals    == <<op, id, tgt, mine, st, todo, listed, seen>>
vars      == <<records, artifacts, locks, serverVars, pc, locals, faults>>

-----------------------------------------------------------------------------
(* Records and states                                                      *)

RepoStates == {"ABSENT", "READY", "FAILED"}

Lifecycle == <<"CREATING", "RESOLVING", "PREPARING_SOURCE", "INDEXING_SEARCH",
               "INDEXING_GRAPH", "VERIFYING", "READY">>

CtxStates == {Lifecycle[i] : i \in 1..7} \cup {"FAILED", "REMOVING"}

\* The states a record moves through in which advance is not at its end.
Stages == CtxStates \ {"READY", "FAILED", "REMOVING"}

\* The state that follows a stage, contextLifecycle[at+1].
Following(s) == Lifecycle[(CHOOSE i \in 1..6 : Lifecycle[i] = s) + 1]

advances(from, to) ==
  \/ to = "REMOVING"
  \/ from \in Stages /\ (to = "FAILED" \/ to = Following(from))

NoMembers == [r \in Repos |-> None]
NoCtxs    == [c \in Ctxs |-> None]

repositoriesOf(m) == {r \in Repos : m[r] # None}

\* Mutant: only the contexts that are served count as dependents.
contextsOf_ready(r) == {c \in Ctxs : cstate[c] = "READY" /\ members[c][r] # None}

\* The contexts that repository r is a member of, whatever their state.
contextsOf(r) == {c \in Ctxs : cstate[c] # "ABSENT" /\ members[c][r] # None}

PutContext(c, m, s) ==
  /\ cstate' = [cstate EXCEPT ![c] = s]
  /\ members' = [members EXCEPT ![c] = m]
  /\ UNCHANGED repo

\* Mutant: the record is marked instead of deleted.
DeleteContext_marks(c) == PutContext(c, NoMembers, "REMOVED")

DeleteContext(c) == PutContext(c, NoMembers, "ABSENT")

PutRepository(r, s) ==
  /\ repo' = [repo EXCEPT ![r] = s]
  /\ UNCHANGED <<cstate, members>>

-----------------------------------------------------------------------------
(* Locks and the life of a process                                         *)

held(p) == {r \in Repos : lock[r] = p}

\* The process ends, however it ends: every descriptor it has open is closed,
\* which releases the repository locks and the server lock it holds.
Finish(p) ==
  /\ pc'   = [pc EXCEPT ![p] = "idle"]
  /\ op'   = [op EXCEPT ![p] = "none"]
  /\ id'   = [id EXCEPT ![p] = None]
  /\ tgt'  = [tgt EXCEPT ![p] = {}]
  /\ mine' = [mine EXCEPT ![p] = NoMembers]
  /\ st'   = [st EXCEPT ![p] = "ABSENT"]
  /\ todo' = [todo EXCEPT ![p] = {}]
  /\ listed' = [listed EXCEPT ![p] = {}]
  /\ seen' = [seen EXCEPT ![p] = NoCtxs]
  /\ lock' = [r \in Repos |-> IF lock[r] = p THEN None ELSE lock[r]]
  /\ mgmt' = mgmt \ {p}

Goto(p, label) == pc' = [pc EXCEPT ![p] = label]

\* What a fresh process knows before its first step.
Start(p, o, c, rs, label) ==
  /\ pc[p] = "idle"
  /\ op'  = [op EXCEPT ![p] = o]
  /\ id'  = [id EXCEPT ![p] = c]
  /\ tgt' = [tgt EXCEPT ![p] = rs]
  /\ Goto(p, label)

\* Mutant: the server lock is asked about and let go of again.
holdManagementLock_peek(p) ==
  /\ server = "down"
  /\ UNCHANGED mgmt

\* The try for the shared server lock: a command that fails it has done nothing.
holdManagementLock(p) ==
  /\ server = "down"
  /\ mgmt' = mgmt \cup {p}

\* Mutant: the locks are taken in the order the repositories were given in.
NextLock_unsorted(p, r) == r \in tgt[p] \ held(p)

\* The lock withRepositoryLocks takes next: the names are taken in order.
NextLock(p, r) ==
  /\ r \in tgt[p] \ held(p)
  /\ \A q \in tgt[p] \ held(p) : r <= q

\* Mutant: the file lock is a no-op.
lockExclusive_noop(r) == TRUE

\* The file lock is exclusive: it blocks while any other process has it.
lockExclusive(r) == lock[r] = None

withRepositoryLocks(p) ==
  /\ pc[p] = "lock"
  /\ \E r \in Repos :
       /\ NextLock(p, r)
       /\ lockExclusive(r)
       /\ lock' = [lock EXCEPT ![r] = p]
       /\ Goto(p, IF tgt[p] \subseteq held(p) \cup {r} THEN "locked" ELSE "lock")
  /\ UNCHANGED <<records, artifacts, mgmt, serverVars, locals>>

-----------------------------------------------------------------------------
(* context create                                                          *)

BeginCreate(p, c) ==
  /\ \E pins \in PinSets[c] : Start(p, "create", c, pins, "lock")
  /\ holdManagementLock(p)
  /\ UNCHANGED <<records, artifacts, lock, serverVars, mine, st, todo, listed, seen>>

\* The check that the id is free and the resolution of every pin, all of it
\* reading only.  A ref that does not resolve ends the command; one that does
\* may have been found in a clone that a killed git left half there.
CreateCheck(p) ==
  /\ pc[p] = "locked" /\ op[p] = "create"
  /\ \/ Finish(p)
     \/ /\ cstate[id[p]] = "ABSENT"
        /\ \A r \in tgt[p] : repo[r] # "ABSENT" /\ clone[r] # "none"
        /\ \E rev \in [tgt[p] -> Revs] :
             mine' = [mine EXCEPT ![p] =
                        [r \in Repos |-> IF r \in tgt[p] THEN rev[r] ELSE None]]
        /\ Goto(p, "put")
        /\ UNCHANGED <<locks, op, id, tgt, st, todo, listed, seen>>
  /\ UNCHANGED <<records, artifacts, serverVars>>

\* The record first, the artifacts after.
CreatePut(p) ==
  /\ pc[p] = "put" /\ op[p] = "create"
  /\ PutContext(id[p], mine[p], "CREATING")
  /\ st' = [st EXCEPT ![p] = "CREATING"]
  /\ Goto(p, "advance")
  /\ UNCHANGED <<artifacts, locks, serverVars, op, id, tgt, mine, todo, listed, seen>>

-----------------------------------------------------------------------------
(* buildContext                                                            *)

\* One advance: the next state is written down before its stage runs.  READY
\* is the last one, and the command ends with it.
Advance(p) ==
  /\ pc[p] = "advance"
  /\ LET next == Following(st[p]) IN
       /\ PutContext(id[p], mine[p], next)
       /\ \/ /\ next = "READY"
             /\ Finish(p)
          \/ /\ next # "READY"
             /\ st'   = [st EXCEPT ![p] = next]
             /\ todo' = [todo EXCEPT ![p] = repositoriesOf(mine[p])]
             /\ Goto(p, IF next = "RESOLVING" THEN "advance" ELSE "stage")
             /\ UNCHANGED <<locks, op, id, tgt, mine, listed, seen>>
  /\ UNCHANGED <<artifacts, serverVars>>

\* Member r is done; the last one ends the loop and control goes to label.
Done(p, r, again, label) ==
  /\ todo' = [todo EXCEPT ![p] = @ \ {r}]
  /\ Goto(p, IF todo[p] = {r} THEN label ELSE again)

AtStage(p, s) == pc[p] = "stage" /\ st[p] = s

\* git worktree add refuses a path that exists or is still administered.
prepareSource(p, r) ==
  /\ AtStage(p, "PREPARING_SOURCE") /\ r \in todo[p]
  /\ \/ /\ clone[r] = "whole" /\ wt[r][id[p]] = None
        /\ wt' = [wt EXCEPT ![r][id[p]] = mine[p][r]]
        /\ Done(p, r, "stage", "advance")
     \/ /\ clone[r] # "whole" \/ wt[r][id[p]] # None
        /\ Goto(p, "fail")
        /\ UNCHANGED <<wt, todo>>
  /\ UNCHANGED <<records, clone, ref, shard, graph, locks, serverVars,
                 op, id, tgt, mine, st, listed, seen>>

prepareSourceFails(p, r) ==
  /\ AtStage(p, "PREPARING_SOURCE") /\ r \in todo[p]
  /\ \/ UNCHANGED wt
     \/ wt[r][id[p]] = None /\ wt' = [wt EXCEPT ![r][id[p]] = "partial"]
  /\ Goto(p, "fail")
  /\ UNCHANGED <<records, clone, ref, shard, graph, locks, serverVars, locals>>

\* indexGraph builds the graph out of whatever the checkout holds.
indexGraph(p, r) ==
  /\ AtStage(p, "INDEXING_GRAPH") /\ r \in todo[p]
  /\ \/ /\ wt[r][id[p]] \in Revs
        /\ graph' = [graph EXCEPT ![r][id[p]] = wt[r][id[p]]]
        /\ Done(p, r, "stage", "advance")
     \/ /\ wt[r][id[p]] \notin Revs
        /\ Goto(p, "fail")
        /\ UNCHANGED <<graph, todo>>
  /\ UNCHANGED <<records, clone, wt, ref, shard, locks, serverVars,
                 op, id, tgt, mine, st, listed, seen>>

indexGraphFails(p, r) ==
  /\ AtStage(p, "INDEXING_GRAPH") /\ r \in todo[p]
  /\ \/ UNCHANGED graph
     \/ graph' = [graph EXCEPT ![r][id[p]] = "partial"]
  /\ Goto(p, "fail")
  /\ UNCHANGED <<records, clone, wt, ref, shard, locks, serverVars, locals>>

verifySource(r, c, m) == wt[r][c] = m[r]

\* The shard is asked for by the repository's name only.
verifySearchRef(r, c, m) == ref[r][c] = m[r] /\ shard[r] # NoCtxs

\* CBM lists a graph of the context's name, whatever it was built from.
verifyGraph(r, c) == graph[r][c] # None

Verified(c, m) ==
  \A r \in repositoriesOf(m) :
    /\ clone[r] = "whole"
    /\ verifySource(r, c, m) /\ verifySearchRef(r, c, m) /\ verifyGraph(r, c)

verifyContext(p) ==
  /\ AtStage(p, "VERIFYING")
  /\ Goto(p, IF Verified(id[p], mine[p]) THEN "advance" ELSE "fail")
  /\ UNCHANGED <<records, artifacts, locks, serverVars, locals>>

verifyContextFails(p) ==
  /\ AtStage(p, "VERIFYING")
  /\ Goto(p, "fail")
  /\ UNCHANGED <<records, artifacts, locks, serverVars, locals>>

\* A stage that returned an error: the record says FAILED and the command ends.
fail(p) ==
  /\ pc[p] = "fail"
  /\ advances(st[p], "FAILED")
  /\ PutContext(id[p], mine[p], "FAILED")
  /\ Finish(p)
  /\ UNCHANGED <<artifacts, serverVars>>

-----------------------------------------------------------------------------
(* indexRepository, which both a build and a removal run                   *)

Indexing(p) == pc[p] = "index" \/ AtStage(p, "INDEXING_SEARCH")

\* Mutant: a record that is being removed is indexed like any other.
SearchRefs_all(r) == [c \in Ctxs |-> members[c][r]]

\* The records say which contexts of r have a search ref; a record that is
\* being removed has none.
SearchRefs(r) ==
  [c \in Ctxs |-> IF cstate[c] \in {"ABSENT", "REMOVING"} THEN None
                                                          ELSE members[c][r]]

\* listRecords, first half: the names of the record files there are.
IndexList(p, r) ==
  /\ Indexing(p)
  /\ r \in todo[p] /\ \A q \in todo[p] : r <= q
  /\ listed' = [listed EXCEPT ![p] = {c \in Ctxs : cstate[c] # "ABSENT"}]
  /\ Goto(p, "listed")
  /\ UNCHANGED <<records, artifacts, locks, serverVars, op, id, tgt, mine, st, todo, seen>>

\* An indexRepository that returns an error: a build records it, a removal
\* stays REMOVING.
IndexError(p) ==
  IF op[p] = "remove"
  THEN Finish(p)
  ELSE Goto(p, "fail") /\ UNCHANGED <<locks, locals>>

\* Second half: each file that was named is opened and read.  One that another
\* command has deleted by now is an error of the whole listing.
IndexRead(p, r) ==
  /\ pc[p] = "listed"
  /\ r \in todo[p] /\ \A q \in todo[p] : r <= q
  /\ \/ (\E c \in listed[p] : cstate[c] = "ABSENT") /\ IndexError(p)
     \/ /\ \A c \in listed[p] : cstate[c] # "ABSENT"
        /\ seen' = [seen EXCEPT ![p] =
                      [c \in Ctxs |-> IF c \in listed[p] THEN SearchRefs(r)[c] ELSE None]]
        /\ listed' = [listed EXCEPT ![p] = {}]
        /\ Goto(p, "indexing")
        /\ UNCHANGED <<locks, op, id, tgt, mine, st, todo>>
  /\ UNCHANGED <<records, artifacts, serverVars>>

\* The refs are asserted and the repository's shard is replaced by one that
\* holds exactly them; no refs, or no clone, and there is no shard.
IndexWrite(p, r) ==
  /\ pc[p] = "indexing"
  /\ r \in todo[p] /\ \A q \in todo[p] : r <= q
  /\ \/ /\ clone[r] = "whole" \/ (clone[r] = "partial" /\ seen[p] = NoCtxs)
        /\ ref'   = [ref EXCEPT ![r] =
                       [c \in Ctxs |-> IF seen[p][c] # None THEN seen[p][c] ELSE @[c]]]
        /\ shard' = [shard EXCEPT ![r] = seen[p]]
     \/ /\ clone[r] = "none"
        /\ shard' = [shard EXCEPT ![r] = NoCtxs]
        /\ UNCHANGED ref
  /\ seen' = [seen EXCEPT ![p] = NoCtxs]
  /\ IF op[p] = "remove" THEN Done(p, r, "index", "delete")
                         ELSE Done(p, r, "stage", "advance")
  /\ UNCHANGED <<records, clone, wt, graph, locks, serverVars, op, id, tgt, mine, st, listed>>

\* An indexing that fails has asserted some of the refs and left the shard as
\* it was.
IndexFails(p, r) ==
  /\ pc[p] = "indexing"
  /\ r \in todo[p] /\ \A q \in todo[p] : r <= q
  /\ \E some \in SUBSET {c \in Ctxs : seen[p][c] # None} :
       ref' = [ref EXCEPT ![r] =
                 [c \in Ctxs |-> IF c \in some THEN seen[p][c] ELSE @[c]]]
  /\ IndexError(p)
  /\ UNCHANGED <<records, clone, wt, shard, graph, serverVars>>

\* A clone that is half there is not indexed: git update-ref or the indexer
\* fails in it every time.
IndexRefused(p, r) == clone[r] = "partial" /\ seen[p] # NoCtxs /\ IndexFails(p, r)

-----------------------------------------------------------------------------
(* context retry and context remove                                        *)

BeginRetry(p, c) ==
  /\ Start(p, "retry", c, {}, "known")
  /\ holdManagementLock(p)
  /\ UNCHANGED <<records, artifacts, lock, serverVars, mine, st, todo, listed, seen>>

BeginRemove(p, c) ==
  /\ Start(p, "remove", c, {}, "known")
  /\ holdManagementLock(p)
  /\ UNCHANGED <<records, artifacts, lock, serverVars, mine, st, todo, listed, seen>>

\* Mutant: one of the record's repositories is locked, not all.
ReadKnown_one(p) ==
  /\ pc[p] = "known"
  /\ \/ cstate[id[p]] = "ABSENT" /\ Finish(p)
     \/ /\ cstate[id[p]] # "ABSENT"
        /\ \E r \in repositoriesOf(members[id[p]]) : tgt' = [tgt EXCEPT ![p] = {r}]
        /\ Goto(p, "lock")
        /\ UNCHANGED <<locks, op, id, mine, st, todo, listed, seen>>
  /\ UNCHANGED <<records, artifacts, serverVars>>

\* The read outside the repository locks that says which ones to take.
ReadKnown(p) ==
  /\ pc[p] = "known"
  /\ \/ cstate[id[p]] = "ABSENT" /\ Finish(p)
     \/ /\ cstate[id[p]] # "ABSENT"
        /\ tgt' = [tgt EXCEPT ![p] = repositoriesOf(members[id[p]])]
        /\ Goto(p, "lock")
        /\ UNCHANGED <<locks, op, id, mine, st, todo, listed, seen>>
  /\ UNCHANGED <<records, artifacts, serverVars>>

\* The record as it is under the locks becomes this process's copy.
Reread(p, label) ==
  /\ mine' = [mine EXCEPT ![p] = members[id[p]]]
  /\ st'   = [st EXCEPT ![p] = cstate[id[p]]]
  /\ todo' = [todo EXCEPT ![p] = repositoriesOf(members[id[p]])]
  /\ Goto(p, label)
  /\ UNCHANGED <<locks, op, id, tgt, listed, seen>>

\* Mutant: a context that is READY is rebuilt on request.
Unretryable_ready == {"ABSENT", "REMOVING"}

\* The states a retry refuses.
Unretryable == {"ABSENT", "READY", "REMOVING"}

RetryCheck(p) ==
  /\ pc[p] = "locked" /\ op[p] = "retry"
  /\ \/ cstate[id[p]] \in Unretryable /\ Finish(p)
     \/ cstate[id[p]] \notin Unretryable /\ Reread(p, "discard")
  /\ UNCHANGED <<records, artifacts, serverVars>>

\* Mutant: a context that is being removed is left to whoever began it.
RemoveCheck_once(p) ==
  /\ pc[p] = "locked" /\ op[p] = "remove"
  /\ \/ cstate[id[p]] \in {"ABSENT", "REMOVING"} /\ Finish(p)
     \/ cstate[id[p]] \notin {"ABSENT", "REMOVING"} /\ Reread(p, "put")
  /\ UNCHANGED <<records, artifacts, serverVars>>

RemoveCheck(p) ==
  /\ pc[p] = "locked" /\ op[p] = "remove"
  /\ \/ cstate[id[p]] = "ABSENT" /\ Finish(p)
     \/ cstate[id[p]] # "ABSENT" /\ Reread(p, "put")
  /\ UNCHANGED <<records, artifacts, serverVars>>

RemovePut(p) ==
  /\ pc[p] = "put" /\ op[p] = "remove"
  /\ advances(st[p], "REMOVING")
  /\ PutContext(id[p], mine[p], "REMOVING")
  /\ st' = [st EXCEPT ![p] = "REMOVING"]
  /\ Goto(p, "discard")
  /\ UNCHANGED <<artifacts, locks, serverVars, op, id, tgt, mine, todo, listed, seen>>

\* What is left of a checkout after os.RemoveAll: the clone still administers
\* it, until git worktree prune, which forgets every checkout that is gone.
RemoveAll(w) == IF w = None THEN None ELSE "stale"

\* Mutant: the clone is not pruned.
prune_not(w) == w
prune(w) == IF w = "stale" THEN None ELSE w

\* A graph CBM does not have is gone.
deleteGraph(c, r) == graph' = [graph EXCEPT ![r][c] = None]

dropSearchRef(c, r) == ref' = [ref EXCEPT ![r][c] = None]

\* discardSource for one member and, in a removal, dropSearchRef after it.
Discard(p, r) ==
  /\ pc[p] = "discard" /\ r \in todo[p]
  /\ \/ /\ op[p] = "retry" /\ repo[r] = "ABSENT"
        /\ Finish(p)
        /\ UNCHANGED <<wt, ref, graph>>
     \/ /\ op[p] = "remove" \/ repo[r] # "ABSENT"
        /\ deleteGraph(id[p], r)
        /\ wt'    = [wt EXCEPT ![r] =
                       [c \in Ctxs |-> prune(IF c = id[p] THEN RemoveAll(@[c]) ELSE @[c])]]
        /\ IF op[p] = "remove"
           THEN /\ dropSearchRef(id[p], r)
                /\ pc' = [pc EXCEPT ![p] = IF todo[p] = {r} THEN "index" ELSE "discard"]
                /\ todo' = [todo EXCEPT ![p] =
                              IF @ = {r} THEN repositoriesOf(mine[p]) ELSE @ \ {r}]
           ELSE /\ Done(p, r, "discard", "reenter")
                /\ UNCHANGED ref
        /\ UNCHANGED <<locks, op, id, tgt, mine, st, listed, seen>>
  /\ UNCHANGED <<records, clone, shard, serverVars>>

\* A step of discardSource fails and the command ends where it is: nothing
\* gone, the graph gone, the directory gone too, or the clone not pruned.
DiscardFails(p, r) ==
  /\ pc[p] = "discard" /\ r \in todo[p]
  /\ op[p] = "remove" \/ repo[r] # "ABSENT"
  /\ \/ UNCHANGED <<wt, graph>>
     \/ /\ deleteGraph(id[p], r)
        /\ \/ UNCHANGED wt
           \/ /\ wt[r][id[p]] # None
              /\ \E left \in {"partial", "stale"} : wt' = [wt EXCEPT ![r][id[p]] = left]
           \/ op[p] = "remove" /\ wt' = [wt EXCEPT ![r][id[p]] = None]
  /\ Finish(p)
  /\ UNCHANGED <<records, clone, ref, shard, serverVars>>

\* Mutant: a retry resolves the refs again.
Reenter_resolves(p) ==
  /\ pc[p] = "reenter"
  /\ \E m \in [Repos -> Revs \cup {None}] :
       /\ repositoriesOf(m) = repositoriesOf(mine[p])
       /\ PutContext(id[p], m, "RESOLVING")
       /\ mine' = [mine EXCEPT ![p] = m]
  /\ st' = [st EXCEPT ![p] = "RESOLVING"]
  /\ Goto(p, "advance")
  /\ UNCHANGED <<artifacts, locks, serverVars, op, id, tgt, todo, listed, seen>>

\* The one place the machine is re-entered, from the record's own revisions.
Reenter(p) ==
  /\ pc[p] = "reenter"
  /\ PutContext(id[p], mine[p], "RESOLVING")
  /\ st' = [st EXCEPT ![p] = "RESOLVING"]
  /\ Goto(p, "advance")
  /\ UNCHANGED <<artifacts, locks, serverVars, op, id, tgt, mine, todo, listed, seen>>

\* The record last of all.
RemoveDelete(p) ==
  /\ pc[p] = "delete" /\ op[p] = "remove"
  /\ DeleteContext(id[p])
  /\ Finish(p)
  /\ UNCHANGED <<artifacts, serverVars>>

-----------------------------------------------------------------------------
(* repo add, repo sync, repo remove                                        *)

BeginAdd(p, r) ==
  /\ Start(p, "add", None, {r}, "lock")
  /\ UNCHANGED <<records, artifacts, locks, serverVars, mine, st, todo, listed, seen>>

\* git clone refuses a directory that already holds something, and removes
\* what it wrote when it fails; a git that was killed does not.
AddClone(p) ==
  /\ pc[p] = "locked" /\ op[p] = "add"
  /\ \E r \in tgt[p] :
       \/ repo[r] # "ABSENT" /\ Finish(p) /\ UNCHANGED clone
       \/ /\ repo[r] = "ABSENT"
          /\ clone' = [clone EXCEPT ![r] = IF @ = "none" THEN "whole" ELSE @]
          /\ st' = [st EXCEPT ![p] = IF clone[r] = "none" THEN "READY" ELSE "FAILED"]
          /\ Goto(p, "put")
          /\ UNCHANGED <<locks, op, id, tgt, mine, todo, listed, seen>>
  /\ UNCHANGED <<records, wt, ref, shard, graph, serverVars>>

AddCloneFails(p) ==
  /\ pc[p] = "locked" /\ op[p] = "add"
  /\ \E r \in tgt[p] :
       /\ repo[r] = "ABSENT"
       /\ \/ UNCHANGED clone
          \/ /\ clone[r] = "none"
             /\ \E left \in {"partial", "whole"} : clone' = [clone EXCEPT ![r] = left]
  /\ st' = [st EXCEPT ![p] = "FAILED"]
  /\ Goto(p, "put")
  /\ UNCHANGED <<records, wt, ref, shard, graph, locks, serverVars,
                 op, id, tgt, mine, todo, listed, seen>>

AddPut(p) ==
  /\ pc[p] = "put" /\ op[p] = "add"
  /\ \E r \in tgt[p] : PutRepository(r, st[p])
  /\ Finish(p)
  /\ UNCHANGED <<artifacts, serverVars>>

\* The records are read before any lock is taken, and are what is written back.
BeginSync(p) ==
  /\ Start(p, "sync", None, {}, "next")
  /\ \E rs \in SUBSET {r \in Repos : repo[r] # "ABSENT"} :
       rs # {} /\ todo' = [todo EXCEPT ![p] = rs]
  /\ UNCHANGED <<records, artifacts, locks, serverVars, mine, st, listed, seen>>

\* Mutant: a repository that was synced stays to be synced.
SyncNext_again(p) ==
  /\ pc[p] = "next"
  /\ \E r \in todo[p] : tgt'  = [tgt EXCEPT ![p] = {r}]
  /\ Goto(p, "lock")
  /\ UNCHANGED <<records, artifacts, locks, serverVars, op, id, mine, st, todo, listed, seen>>

SyncNext(p) ==
  /\ pc[p] = "next"
  /\ \E r \in todo[p] :
       /\ tgt'  = [tgt EXCEPT ![p] = {r}]
       /\ todo' = [todo EXCEPT ![p] = @ \ {r}]
  /\ Goto(p, "lock")
  /\ UNCHANGED <<records, artifacts, locks, serverVars, op, id, mine, st, listed, seen>>

\* git fetch: what it brings into the clone no pinned commit depends on.
SyncFetch(p) ==
  /\ pc[p] = "locked" /\ op[p] = "sync"
  /\ \E r \in tgt[p] :
       st' = [st EXCEPT ![p] = IF clone[r] = "whole" THEN "READY" ELSE "FAILED"]
  /\ Goto(p, "put")
  /\ UNCHANGED <<records, artifacts, locks, serverVars, op, id, tgt, mine, todo, listed, seen>>

\* A fetch that failed is recorded; one that was cancelled ends the whole sync
\* with the record as it was.
SyncFetchFails(p) ==
  /\ pc[p] = "locked" /\ op[p] = "sync"
  /\ \/ Finish(p)
     \/ /\ st' = [st EXCEPT ![p] = "FAILED"]
        /\ Goto(p, "put")
        /\ UNCHANGED <<locks, op, id, tgt, mine, todo, listed, seen>>
  /\ UNCHANGED <<records, artifacts, serverVars>>

SyncPut(p) ==
  /\ pc[p] = "put" /\ op[p] = "sync"
  /\ \E r \in tgt[p] : PutRepository(r, st[p])
  /\ \/ todo[p] = {} /\ Finish(p)
     \/ /\ todo[p] # {}
        /\ lock' = [r \in Repos |-> IF lock[r] = p THEN None ELSE lock[r]]
        /\ tgt'  = [tgt EXCEPT ![p] = {}]
        /\ st'   = [st EXCEPT ![p] = "ABSENT"]
        /\ Goto(p, "next")
        /\ UNCHANGED <<mgmt, op, id, mine, todo, listed, seen>>
  /\ UNCHANGED <<artifacts, serverVars>>

BeginRepoRemove(p, r) ==
  /\ Start(p, "repo remove", None, {r}, "lock")
  /\ holdManagementLock(p)
  /\ UNCHANGED <<records, artifacts, lock, serverVars, mine, st, todo, listed, seen>>

\* Whether repo remove may go ahead.
Removable(r) == repo[r] # "ABSENT" /\ contextsOf(r) = {}

RepoRemoveCheck(p) ==
  /\ pc[p] = "locked" /\ op[p] = "repo remove"
  /\ \E r \in tgt[p] :
       \/ ~Removable(r) /\ Finish(p)
       \/ /\ Removable(r)
          /\ Goto(p, "clone")
          /\ UNCHANGED <<locks, locals>>
  /\ UNCHANGED <<records, artifacts, serverVars>>

\* The clone takes its refs with it, and its list of worktrees.
RepoRemoveClone(p) ==
  /\ pc[p] = "clone"
  /\ \E r \in tgt[p] :
       /\ clone' = [clone EXCEPT ![r] = "none"]
       /\ ref'   = [ref EXCEPT ![r] = NoCtxs]
       /\ wt'    = [wt EXCEPT ![r] =
                      [c \in Ctxs |-> IF @[c] = "stale" THEN None ELSE @[c]]]
  /\ Goto(p, "delete")
  /\ UNCHANGED <<records, shard, graph, locks, serverVars, locals>>

RepoRemoveDelete(p) ==
  /\ pc[p] = "delete" /\ op[p] = "repo remove"
  /\ \E r \in tgt[p] : PutRepository(r, "ABSENT")
  /\ Finish(p)
  /\ UNCHANGED <<artifacts, serverVars>>

RepoRemoveCloneFails(p) ==
  /\ pc[p] = "clone"
  /\ \E r \in tgt[p] :
       clone' = [clone EXCEPT ![r] = IF @ = "none" THEN @ ELSE "partial"]
  /\ Finish(p)
  /\ UNCHANGED <<records, wt, ref, shard, graph, serverVars>>

-----------------------------------------------------------------------------
(* The managed server, and the process dying                               *)

\* Mutant: the server does not wait for the commands that are running.
holdServerLock_nowait ==
  /\ server = "down"
  /\ server' = "locked"
  /\ UNCHANGED <<records, artifacts, locks, snap, pc, locals>>

\* The wait for the exclusive server lock ends when no command shares it.
holdServerLock ==
  /\ server = "down" /\ mgmt = {}
  /\ server' = "locked"
  /\ UNCHANGED <<records, artifacts, locks, snap, pc, locals>>

\* The snapshot of the READY contexts, read once and served until the end.
managedConfig ==
  /\ server = "locked"
  /\ server' = "serving"
  /\ snap' = [c \in Ctxs |-> IF cstate[c] = "READY" THEN members[c] ELSE NoMembers]
  /\ UNCHANGED <<records, artifacts, locks, pc, locals>>

ServerStop ==
  /\ server # "down"
  /\ server' = "down"
  /\ snap' = [c \in Ctxs |-> NoMembers]
  /\ UNCHANGED <<records, artifacts, locks, pc, locals>>

\* Killed, or a record that cannot be written: the process is gone, and what
\* it did stays.
Crash(p) ==
  /\ pc[p] # "idle"
  /\ Finish(p)
  /\ UNCHANGED <<records, artifacts, serverVars>>

-----------------------------------------------------------------------------
Init ==
  /\ repo    = [r \in Repos |-> "ABSENT"]
  /\ cstate  = [c \in Ctxs |-> "ABSENT"]
  /\ members = [c \in Ctxs |-> NoMembers]
  /\ clone   = [r \in Repos |-> "none"]
  /\ wt      = [r \in Repos |-> NoCtxs]
  /\ ref     = [r \in Repos |-> NoCtxs]
  /\ shard   = [r \in Repos |-> NoCtxs]
  /\ graph   = [r \in Repos |-> NoCtxs]
  /\ lock    = [r \in Repos |-> None]
  /\ mgmt    = {}
  /\ server  = "down"
  /\ snap    = [c \in Ctxs |-> NoMembers]
  /\ pc      = [p \in Procs |-> "idle"]
  /\ op      = [p \in Procs |-> "none"]
  /\ id      = [p \in Procs |-> None]
  /\ tgt     = [p \in Procs |-> {}]
  /\ mine    = [p \in Procs |-> NoMembers]
  /\ st      = [p \in Procs |-> "ABSENT"]
  /\ todo    = [p \in Procs |-> {}]
  /\ listed  = [p \in Procs |-> {}]
  /\ seen    = [p \in Procs |-> NoCtxs]
  /\ faults  = 0

\* A user starting a command.
Begin(p) ==
  /\ \/ \E c \in Ctxs : BeginCreate(p, c) \/ BeginRetry(p, c) \/ BeginRemove(p, c)
     \/ \E r \in Repos : BeginAdd(p, r) \/ BeginRepoRemove(p, r)
     \/ BeginSync(p)
  /\ UNCHANGED faults

Lock(p) == withRepositoryLocks(p) /\ UNCHANGED faults

\* A command doing its next step.
Step(p) ==
  /\ \/ ReadKnown(p) \/ CreateCheck(p) \/ CreatePut(p) \/ Advance(p)
     \/ verifyContext(p) \/ fail(p)
     \/ RetryCheck(p) \/ RemoveCheck(p) \/ RemovePut(p) \/ Reenter(p) \/ RemoveDelete(p)
     \/ AddClone(p) \/ AddPut(p)
     \/ SyncNext(p) \/ SyncFetch(p) \/ SyncPut(p)
     \/ RepoRemoveCheck(p) \/ RepoRemoveClone(p) \/ RepoRemoveDelete(p)
     \/ \E r \in Repos : \/ prepareSource(p, r) \/ indexGraph(p, r) \/ Discard(p, r)
                         \/ IndexList(p, r) \/ IndexRead(p, r)
                         \/ IndexWrite(p, r) \/ IndexRefused(p, r)
  /\ UNCHANGED faults

\* A command, or a program it runs, failing.
Fault(p) ==
  /\ \/ Crash(p)
     \/ verifyContextFails(p) \/ AddCloneFails(p) \/ SyncFetchFails(p)
     \/ RepoRemoveCloneFails(p)
     \/ \E r \in Repos : \/ prepareSourceFails(p, r) \/ indexGraphFails(p, r)
                         \/ IndexFails(p, r) \/ DiscardFails(p, r)
  /\ faults < MaxFaults
  /\ faults' = faults + 1

Server == (holdServerLock \/ managedConfig \/ ServerStop) /\ UNCHANGED faults

Next ==
  \/ \E p \in Procs : Begin(p) \/ Lock(p) \/ Step(p) \/ Fault(p)
  \/ Server

Spec == Init /\ [][Next]_vars
-----------------------------------------------------------------------------
(* Properties                                                              *)

Arts == Revs \cup {None, "partial"}
MemberSets == [Repos -> Revs \cup {None}]
Labels == {"idle", "known", "lock", "locked", "put", "advance", "stage", "index",
           "listed", "indexing", "fail", "discard", "reenter", "delete", "clone", "next"}
Ops == {"none", "create", "retry", "remove", "add", "sync", "repo remove"}

RecordsOK ==
  /\ repo \in [Repos -> RepoStates]
  /\ cstate \in [Ctxs -> CtxStates \cup {"ABSENT"}]
  /\ members \in [Ctxs -> MemberSets]

ArtifactsOK ==
  /\ clone \in [Repos -> {"none", "partial", "whole"}]
  /\ wt \in [Repos -> [Ctxs -> Arts \cup {"stale"}]]
  /\ ref \in [Repos -> [Ctxs -> Revs \cup {None}]]
  /\ shard \in [Repos -> [Ctxs -> Revs \cup {None}]]
  /\ graph \in [Repos -> [Ctxs -> Arts]]

LocksOK ==
  /\ lock \in [Repos -> Procs \cup {None}]
  /\ mgmt \subseteq Procs

ServerOK ==
  /\ server \in {"down", "locked", "serving"}
  /\ snap \in [Ctxs -> MemberSets]

LocalsOK ==
  /\ pc \in [Procs -> Labels]
  /\ op \in [Procs -> Ops]
  /\ id \in [Procs -> Ctxs \cup {None}]
  /\ tgt \in [Procs -> SUBSET Repos]
  /\ mine \in [Procs -> MemberSets]
  /\ st \in [Procs -> CtxStates \cup {"ABSENT"}]
  /\ todo \in [Procs -> SUBSET Repos]
  /\ listed \in [Procs -> SUBSET Ctxs]
  /\ seen \in [Procs -> [Ctxs -> Revs \cup {None}]]

\* Every record, artifact, lock and local variable is of its type.
TypeOK == RecordsOK /\ ArtifactsOK /\ LocksOK /\ ServerOK /\ LocalsOK /\ faults \in 0..MaxFaults

\* Where a process can be in a command, and what it then has in hand.
ControlOK(p) ==
  /\ op[p] \in {"create", "retry", "remove"} => id[p] \in Ctxs
  /\ pc[p] = "known" => op[p] \in {"retry", "remove"}
  /\ pc[p] \in {"advance", "stage", "fail"} => op[p] \in {"create", "retry"} /\ st[p] \in Stages
  /\ pc[p] = "discard" => op[p] \in {"retry", "remove"}
  /\ pc[p] = "reenter" => op[p] = "retry"
  /\ pc[p] = "index" => op[p] = "remove"
  /\ pc[p] \in {"listed", "indexing"} =>
       \/ op[p] = "remove"
       \/ op[p] \in {"create", "retry"} /\ st[p] \in Stages
  /\ pc[p] = "put" /\ op[p] \in {"add", "sync"} => st[p] \in {"READY", "FAILED"}
  /\ pc[p] = "clone" => op[p] = "repo remove"

\* A command on contexts, or one that removes a repository, shares the server
\* lock from its first step to its last, and no server runs beside it.
ServerExcluded ==
  /\ \A p \in Procs : op[p] \in {"create", "retry", "remove", "repo remove"} => p \in mgmt
  /\ server # "down" => mgmt = {}

\* The inductive invariant of the proofs.
Inv == TypeOK /\ (\A p \in Procs : ControlOK(p)) /\ ServerExcluded

\* Everything the query plane reads of context c with members m is there and
\* is the pinned commit's.
Whole(c, m) ==
  \A r \in repositoriesOf(m) :
    /\ clone[r] = "whole"
    /\ wt[r][c] = m[r]
    /\ ref[r][c] = m[r]
    /\ shard[r][c] = m[r]
    /\ graph[r][c] = m[r]

\* A READY record's checkout, search ref, index branch and graph are whole and
\* are of the commit it pins (context.go, buildContext and verifyContext), in
\* spite of other contexts of the same repository being built, removed, killed
\* half way or re-indexed at any moment.  verifyContext itself asks for less.
ReadyIsWhole == \A c \in Ctxs : cstate[c] = "READY" => Whole(c, members[c])

\* What a managed server read at startup stays true and servable for as long
\* as it serves (lock.go, holdServerLock and holdManagementLock).
SnapshotStable ==
  server = "serving" =>
    \A c \in Ctxs : snap[c] # NoMembers =>
      cstate[c] = "READY" /\ members[c] = snap[c] /\ Whole(c, snap[c])

\* While a server holds its lock no step of any command touches a context
\* record or anything built for one, whatever the commands do and whichever
\* were already running when it started (lock.go, holdManagementLock: "held
\* for the command rather than merely asked about before it").
ServedUntouched ==
  [][server # "down" => UNCHANGED <<cstate, members, wt, ref, shard, graph>>]_vars

\* No checkout, ref, index branch or graph outlives the record that names it
\* (context.go, Create: the record first; Remove: the record last).
NoOrphanArtifacts ==
  \A r \in Repos, c \in Ctxs :
    (wt[r][c] # None \/ ref[r][c] # None \/ shard[r][c] # None \/ graph[r][c] # None)
      => cstate[c] # "ABSENT" /\ members[c][r] # None

\* A context's repositories are managed and have a clone whatever state it is
\* in (repository.go, Remove: the check and the deletion are one operation).
NoDanglingMember ==
  \A c \in Ctxs : cstate[c] # "ABSENT" =>
    \A r \in repositoriesOf(members[c]) : repo[r] # "ABSENT" /\ clone[r] # "none"

\* A command that writes artifacts or records of a context holds the lock of
\* every repository the context names (context.go, buildContext: "The caller
\* holds every member repository's lock").
LocksCoverMembers ==
  \A p \in Procs :
    op[p] \in {"create", "retry", "remove"} /\ pc[p] \notin {"known", "lock"}
      => repositoriesOf(mine[p]) \subseteq held(p)

\* A command on a context that has passed its checks gives up: a build becomes
\* a failure, a retry ends before it built anything, a removal ends with its
\* record still there.
GivesUp(p) ==
  \/ pc[p] # "fail" /\ pc'[p] = "fail"
  \/ pc[p] \in {"put", "discard", "reenter", "index", "listed", "indexing"}
     /\ op[p] \in {"retry", "remove"} /\ pc'[p] = "idle"

\* Every set of repositories a user may pin c to has none of rs in it.
Disjoint(c, rs) == \A pins \in PinSets[c] : pins \cap rs = {}

\* While no program fails and nothing is killed, one thing alone makes a build
\* or a removal give up: the listing of the records (store.go, listRecords)
\* named a context that a removal has deleted by the time its file is read, and
\* that removal ran beside this command because the two have no repository in
\* common.  Commands on the same repository never make each other fail.  lock.go
\* says of the lock per repository: "Two repositories share no clone, no shard
\* and no worktree directory, so serialising them would only be slower"; the
\* directory of the records they do share.
NoSpuriousFailure ==
  [][\A p \in Procs : faults' = 0 /\ GivesUp(p) =>
       /\ pc[p] = "listed"
       /\ \E c \in listed[p] : cstate[c] = "ABSENT" /\ Disjoint(c, tgt[p])]_vars

WaitsFor(p, q) ==
  pc[p] = "lock" /\ \E r \in Repos : NextLock(p, r) /\ lock[r] = q

\* No set of commands waits on itself: some command of any set has its next
\* lock free or held outside the set (lock.go, withRepositoryLocks).
NoDeadlock ==
  \A S \in (SUBSET Procs) \ {{}} : \E p \in S : \A q \in S : ~WaitsFor(p, q)

\* A context in another state was interrupted or has failed, or is being built.
Settled == {"ABSENT", "READY", "REMOVING"}

\* A context record moves only along the lifecycle, whoever writes it and
\* whatever was interrupted: out of READY only to REMOVING, out of REMOVING
\* only to its deletion, and only a retry enters RESOLVING again.
LifecycleStep(from, to) ==
  \/ from = to
  \/ from = "ABSENT" /\ to = "CREATING"
  \/ from # "ABSENT" /\ advances(from, to)
  \/ from \notin Settled /\ to = "RESOLVING"
  \/ from = "REMOVING" /\ to = "ABSENT"
LifecycleOrder == [][\A c \in Ctxs : LifecycleStep(cstate[c], cstate'[c])]_vars

\* No step writes another revision, or another set of repositories, into a
\* record that exists (context.go, Create: "no path in this file writes a
\* revision into a record that already has one").
PinsImmutable ==
  [][\A c \in Ctxs : cstate[c] # "ABSENT" /\ cstate'[c] # "ABSENT"
                        => members'[c] = members[c]]_vars

-----------------------------------------------------------------------------
(* Liveness.  A process that is not killed runs on; a lock that is released *)
(* again and again is given to each that waits for it; an operator who      *)
(* wants a context runs retry, and one who removes it runs remove, again    *)
(* until it is done.  The refusal says what both need: no running server.   *)

Fairness ==
  \A p \in Procs : WF_vars(Step(p)) /\ SF_vars(Lock(p))

OperatorFairness ==
  \A c \in Ctxs : /\ SF_vars(\E p \in Procs : cstate[c] \notin Settled /\ BeginRetry(p, c) /\ UNCHANGED faults)
                  /\ SF_vars(\E p \in Procs : cstate[c] = "REMOVING" /\ BeginRemove(p, c) /\ UNCHANGED faults)

LiveSpec == Spec /\ Fairness /\ OperatorFairness

\* Every command ends, whatever it waits for.
CommandsEnd == \A p \in Procs : pc[p] # "idle" ~> pc[p] = "idle"

ServerKeptDown == <>[](server = "down")

\* A context that was interrupted or failed in any stage, any number of times,
\* is READY in the end (or being removed), by retry alone (context.go, Retry),
\* unless a clone it is a member of is only half there: no retry mends that.
RetryRecovers == ServerKeptDown =>
  \A c \in Ctxs :
    cstate[c] \notin Settled /\ (\A r \in repositoriesOf(members[c]) : clone[r] = "whole")
      ~> cstate[c] \in Settled

\* A removal that was interrupted at any step is finished by running it again
\* (context.go, Remove).
RemoveFinishes == ServerKeptDown =>
  \A c \in Ctxs : cstate[c] = "REMOVING" ~> cstate[c] = "ABSENT"
=============================================================================
