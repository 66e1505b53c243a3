# A verification project for vacmcp

vacmcp (`github.com/tc3oliver/version-aware-code-mcp`) answers questions about
source code at a fixed commit. Its *query plane* is an MCP server over three
programs: git, Zoekt and codebase-memory-mcp (CBM). Its *management plane* is a
set of commands that clone repositories and build *contexts*: a context is one or
more repositories, each pinned to a commit, with a worktree, a search branch and
a graph project for each. Both work on one data directory. This directory holds
TLA+ models of the parts where steps of several actors, crashes and deadlines
meet, and of what commands and queries make of names, records, configurations and
answers; the TLC configurations that check them; and TLAPS proofs.

    tlc -config lifecycle.cfg MCManagedLifecycle.tla
    tlapm ManagedLifecycle_proofs.tla

## 1. Inventory

| Component | State | Operations | Hard because |
|---|---|---|---|
| management plane (`managed/`) | clones, worktrees, refs, search shards, graphs, the member list and state of every context | context create, retry, remove, verify; repo add, sync, remove | several processes run at once and any of them may be killed between any two steps |
| locks (`managed/lock*.go`) | one lock file per repository, one for the data directory | blocking exclusive; shared or refused for a server | order of several locks, upgrade, death of a holder |
| record store (`store/`) | one JSON file per repository and per context | put, read, list, delete | killed writers, power loss, readers without a lock |
| CBM session (`adapters/cbm/backend.go`) | the session, the start in flight, "cli only", "closed" | call, begin, settle, retire, Close | a start outlives the caller that triggered it; calls fail on a session somebody replaced; Close meets a start |
| CBM call graph (`adapters/cbm/cbm.go`) | none | resolve a symbol, walk callers or callees | cycles, truncation, ambiguity |
| zoekt adapter | none | search, list branches | telling a failure of Zoekt from a deadline, and whose; a branch filter that matches parts of names, and a cap before it |
| git adapter | none | read, history, diff | the same, with a second command that explains the failure of the first; parsers |
| operation budgets (`internal/deadline`) | the cause of a cancelled context | With, Ended, Override | three clocks race |
| query engine, resolver, evidence | the contexts of the configuration | search, get, trace, history, two comparisons | orders, budgets, fallbacks, both sides of a comparison |
| server and `vacmcp serve` | listener, requests in flight, the server lock | serve, drain, second signal | order of the deferred calls at shutdown |
| names, record and configuration files (`managed/context.go`, `store/`, `config/`) | none of their own | generate, encode, parse, validate | names glued from names; two spellings of a record and of a context; files of an older version or edited by hand |
| `vacmcp doctor` | what it read first | probe, diagnose | reads the records twice, without a lock |
| MCP tools | none | seven requests and their answers | citations with several repositories |
| types, demo, packaging | none that changes | - | - |

How they interact: a command takes the shared management lock (unless it only
reads or adds), the locks of its repositories, and then changes records and
artifacts. A managed server takes the server lock exclusively, which excludes the
commands that take contexts apart, generates a configuration from the READY
records, and from then on relies on it. Every query is bounded by a budget and
goes to one provider; traces share one CBM session.

What makes each component correct is stated in the modules as properties, listed
below by run. `PROJECT.json` lists the hazards with their lines.

## 2. Modules

### ManagedLifecycle

The management plane as processes (`Procs`) that each run one command at a time
on the data directory. State: `repo`, `cstate` and `members` are the records,
`clone`, `wt`, `ref`, `shard` and `graph` the artifacts, each with what it holds
(nothing, an unfinished part, or a commit); `lock` and `mgmt` are the locks,
`server` and `snap` the managed server and what it read. `pc`, `op`, `id`, `tgt`,
`mine`, `st`, `todo`, `listed` and `seen` are where each process is and its local
variables. One action is one external program, one write of a record, one
removal or one acquisition of a lock: what another process or a kill can see in
between. Failures of programs and kills share the bound `MaxFaults`.

| Code | Actions |
|---|---|
| `Create`, `buildContext` | BeginCreate, CreateCheck, CreatePut, Advance, prepareSource, indexGraph, IndexList, IndexRead, IndexWrite, verifyContext |
| `Retry` | BeginRetry, RetryCheck, Discard, Reenter, then as Create |
| `Remove` (context) | BeginRemove, RemoveCheck, RemovePut, Discard, IndexList .. IndexWrite, RemoveDelete |
| `Add`, `Sync`, `Remove` (repository) | BeginAdd, AddClone, AddPut; BeginSync, SyncNext, SyncFetch, SyncPut; BeginRepoRemove, RepoRemoveCheck, RepoRemoveClone, RepoRemoveDelete |
| `lock.go` | holdManagementLock, Lock (with NextLock), holdServerLock, ServerStop |
| failing programs, `fail`, kills | the actions ending in `Fails`, Crash |

External behaviour modelled from how the code uses it: git refuses to add a
worktree that is still registered; an indexer writes all the branches it is
given or none; a killed program may leave a partial artifact. A create checks the id
and asks git for its revisions in whatever is there: a clone that a killed `repo add`
left half done may have them, and the build fails at the first program that needs more. A fetch is
taken not to mend such a clone.

`PinSets[c]` is what a user may ask for under the id `c`. The passing runs give
each id one set of repositories, because the first finding below breaks
almost every property otherwise: two creates, or a retry and a create, of one id
over different repositories do not share a lock.

### ContextNames, RecordCodec, Configuration, Doctor and ManagedConfig

The data of the management plane, from the ref a user names to the configuration
a server runs on. A command is one step here, with a program of it failing or the
command killed at it; interleavings belong to ManagedLifecycle. A name is the
sequence of its parts between dashes, so that gluing names is `\o` and two glued
names can meet as their strings do.

The data directory is `records`, each as it is written, and `disk`: `clones` with
their heads, the remote's branches (`origin`) and commits, `worktrees`, `shards` and
`graphs`. `remote` is what the remotes hold, `states` the repository records,
`serving` the configuration a server runs on, `doctor` what a doctor has read so
far, `answer` what the last command said. `pinned`, `synced`, `edited`, `mixed` and
`lost` are history: what each context was created with, and what somebody else
changed since.

| Code | Definitions |
|---|---|
| `searchRef`, `graphRef`, `verifyIdentity`, `validateName` | ContextNames |
| `MarshalJSON`, `UnmarshalJSON` of a context; how v0.4.0 reads it | RecordCodec |
| `Load`, `workspace`, `validate`, `Marshal` of `config.go` | Configuration |
| `doctor.go`: the rows, `release`, `atLeast`, the exit | Doctor |
| `Create`, `resolveRevision`, `Retry`, `Remove`, `Verify` | CreateContext, resolveRevision, RetryContext, RemoveContext, VerifyContext |
| `buildContext` and its stages, `discardSource`, `indexRepository`, `putSearchRef`, `verifyContext` | Building, Removing, Run, Build and the operators Perform names |
| `repo sync` | Sync |
| `managedConfig`, `readyContexts`, `serve --managed`, `validate` | managedConfig, readyContexts, Serve, Stop, Validate |
| `doctor`, with and without `--managed` | DoctorFile; DoctorReads, DoctorReports |
| pushes, edited records, lost artifacts | Push, EditRecord, Lose |

An edit (`EditRecord`) changes a field of the first member, puts every member at another
revision, changes the state, turns the members round or leaves one out, writes the same
record in its other spelling, or leaves something that does not read.

### CbmSession

The Provider of `adapters/cbm/backend.go`. `mu`, `session`, `starting`, `cliOnly`
and `closed` are its fields; attempts are numbered, `attempt[i]` is where the
goroutine of `begin` is and `proc[i]` the process it started; `cpc`, `held` and
`left` are the callers, `dpc` and `target` the callers of Close. A critical
section is one action, except that `retire` and `settle` close a session with the
mutex held, which takes two actions and keeps `mu` between them. What is asked
and answered is left out; `ContextEnds` is any end of a caller's context.

### RecordStore and AtomicWrite

`RecordStore` is what the store promises: each record has a history, a write adds
to it in one step, a power loss goes back to some entry not older than `safe`, and
a write is reported as successful only when `safe` has reached it. `AtomicWrite`
is how `store.go` does it: a temporary file, write, sync, rename and a flush of the
directory, with any call failing, writers killed and power lost between any two
of them, on a file system that promises no more than POSIX: what was not flushed
may be lost, also partly. `Atomic` states that the second implements the first.

### QueryCall

One query, from the tool to the programs and back: engine, resolver, the
adapters of git, Zoekt and CBM, and `internal/deadline`. Outside the query, `world` is
what is there, missing or broken (clones, symbols, Zoekt, CBM, the providers that were built), `tip[m]` the
commit the revision of member `m` names now, `tips[m]` the commits it has named since the
query began, and `moves` how often one was moved. The clocks are `parent`, how the caller's
context ended (not yet, cancelled, or at its deadline), and `order`, the causes that ended
the context of the operation, the first one first. Of the query itself, `req` is what was asked, `pc` the program
it waits for or the step it is at, `out` the answer of that program, `side` the context of
a comparison that is being resolved, `scope` the members it is answered in, `k` the one being asked about,
`rev` the commits pinned for it, `resp` what `client.Do` returned before the body is read,
`got` the answers so far and `result` what is sent.

| Code | Definitions |
|---|---|
| `deadline.With`, `Ended`, `Override` | With, Budgeted, Cause, Ended, Override |
| `Resolve`, `VerifyWorktree`, `revParse`, `gitDir` | Resolve, ResolveMember, ResolveFailure; VerifyDeclared, VerifyFailure, VerifyWorktree |
| engine queries and comparisons | Begin, selectMembers, Needs, Unavailable, Dispatch, Select, traceSide; Call, Got, Return |
| git adapter | Pin, resolve, resolveFails, resolveVerdict, Read, lsTreeVerdict, Ask, SearchHistory, Diff |
| zoekt adapter | post (until `client.Do` returns), Responded (the body), Matches, Search |
| CBM adapter | resolveSymbol, locate, trace |
| `gitOutput` and its like | Answers (the program ends by itself), Killed (its context ended first) |

A program answers with what the world holds at that moment or is killed because
the context it was given has ended; a program that hangs can only be killed. Both
may be possible at once, and a program may also answer after a clock went off and
before the kill. A range of lines the file does not have is refused after `git show`
returned it (`Short`). The other refusals of arguments come before any program is asked and
are left out, and so are SOURCE_HISTORY_UNAVAILABLE and SOURCE_DIFF_UNAVAILABLE, for
providers without those operations: the git adapter has both.

### ServeManaged

`vacmcp serve --managed`, run after run, in its order: the lock, the records, the
generated file, the file loaded back, the signal handler, the transport, and the
deferred calls that close the engine, release the signals and release the lock.
`pc[s]` is where `serve` is, `watcher[s]` the goroutine of `ServeHTTPContext` that
drains, `listener[s]` the HTTP listener, `caught[s]` and `asked[s]` the signal
handler and the context it cancels, `err[s]` what the transport returned and
`exit[s]` what `stopped` made of it. `file` is the set of configurations whose
bytes are in `generated-config.yaml`: none after truncation, more than one after
two writers. `at[q]` is the server that runs the request of client `q`, `session[s]`
whether its CBM session is up. Commands that take contexts apart hold the lock
shared; a context is otherwise only READY or not. The two transports are external:
`Shutdown` closes the listener and waits for running requests, STDIO returns when
the client leaves or the context ends.

| Code | Actions |
|---|---|
| `serve` (start) | Start, HoldServerLock, readyContexts, Truncate, WriteFile, LoadConfig, ConfigFails, commandContext |
| `ServeHTTPContext`, `ServeStdio` | ListenAndServe, ListenerFails, ErrServerClosed, WatcherWakes, Drained, DrainExpires, DrainReturns, StdioReturns |
| signals | Signal, FirstSignalSeen |
| deferred calls, `stopped`, `main` | CloseEngine, StopSignals, ReleaseServerLock, Exit |
| `doctor --managed` | Diagnose, then as a server up to the file, DoctorEnds |

### Lists, CallGraph, GitQueries, CodeSearch and Answers

What the tools answer when every program answers. `Lists` is the few operators on lists
they share, among them `Keep`, the elements of a list that pass a test. `CallGraph` is the walk of
`adapters/cbm/cbm.go`: `TraceCalls` is the set of what it may return, because CBM
chooses which rows a full answer leaves out. CBM matches names without their case
(`Fold`), and may find a name ambiguous in a trace although the search for it found one
function (`unclear`). The edges are a set: their order, and that one may be listed twice,
is left out. `GitQueries` reads the output of
`git diff` and `git log`, which its external part prints from trees and commits;
a line of output is a record with its first column. `CodeSearch` is the Zoekt adapter: a shard keeps one
document for a file that is the same on several branches, and Zoekt chooses which
documents a full answer leaves out. `Answers` is the engine over both: `world` is what the
members of the contexts pin, `ask` the request, `answer` what is sent. The
properties compare an answer with the graphs and trees themselves.

| Code | Definitions |
|---|---|
| `resolve`, `trace`, `locate`, `edges`, `TraceCalls` of CBM | candidates, trace, locate, edges, TraceCalls |
| `Diff`, `emptyDiff`, `parseDiff` and its parts | Diff, emptyDiff, parseDiff, ReadLine, parseHunkHeader, parseHunkRange, parseDiffLine |
| `SearchHistory`, `historyLimit`, `parseHistory` | SearchHistory, historyLimit, parseHistory |
| `balanced`, `scopedQuery`, `Search`, `IndexedBranches` of Zoekt | the same names in CodeSearch, inVersion |
| engine: `TraceCalls`, `SearchCode`, `GetCode`, `CompareCalls`, `CompareCode`, `SearchHistory` | TraceCallsIn, SearchCode, GetCode, CompareCalls (relation, group, compared), CompareCode, SearchHistoryIn |
| `evidence.wire`; `tools` | wire; list_contexts, search_code, trace_calls, compare_calls, get_code, compare_code, search_history |

## 3. Runs

| Run | Instance | Shows |
|---|---|---|
| lifecycle | 2 processes, 2 repositories, a context over both and one in each, two of the three at a time, 2 commits, 1 fault | ReadyIsWhole, NoOrphanArtifacts, NoDanglingMember, SnapshotStable, NoSpuriousFailure, LocksCoverMembers, NoDeadlock, LifecycleOrder, PinsImmutable, ServedUntouched |
| lifecycle_live | 2 processes, 1 context, 2 faults, fairness | CommandsEnd, RetryRecovers, RemoveFinishes |
| cbm_session | 2 callers, 1 Close at a time, 2 events, fairness | NoLeakedProcess, OneAttempt, CloseIsShutdown, SharedSessionKept, CallsEnd |
| store_write | 2 writers, 1 reader, 2 records, 3 files, 1 deletion | ReadsWhole, NoLitter, Atomic |
| answers | 4 functions, up to 3 calls and a graph of 4 with one that leads back, a change of one with 2; pairs of trees; histories of 3 or 4 commits; pairs of shards | SearchTrue, WalkTrue, ComparisonTrue, DiffTrue, HistoryTrue |
| query_call | every tool, two contexts and three members, one move of a ref, three clocks, fairness | HonestVerdict, AnswerTrue, NothingLeftOut, CallReturns |
| serve_managed | 1 server started again and again, 1 doctor, 1 command, 1 context, 2 requests, fairness | ServesReady, HonestExit, SessionCovered, ShutdownEnds |
| managed_config | 4 repositories, 5 creations under 3 ids, 2 contexts at once, 1 push, 1 fault, edit or loss, 17 files, 18 machines | ArtifactsKept, VerifyTrue, ServedAsPinned, LoadTrue, DoctorTrue |
| finding_* | the smallest instance each needs | see Findings |

**Bounds.** Two processes are enough for the races over a record or a shard: the
locks are the only thing that makes a third one wait, and NoDeadlock is proved
for any number. Two contexts of one repository share a shard and a clone, and a
context over two takes several locks; the third context (`c3`) shares nothing with the second
and is there for what commands on it do to a build over another repository, so it is used only
while no program has failed, no server runs and the second context is created but not retried or
removed, and a build that gave up so is not followed further (`TwoAtATime`). Two
commits are enough for a pin to change. One fault leaves every partial state a later
command may meet; the two of lifecycle_live allow a failure and a failure of its
recovery, which is what liveness depends on. With its one repository CommandsEnd says nothing of waiting
for several locks, which NoDeadlock does; RetryRecovers leaves out a clone that is half there,
which no retry mends. For CBM, two callers are one that fails on an old session and one
that has retired it and started its replacement; an event is a failed start, a session that breaks or a
call of Close, so two events are every pair of them. For the store, three files
are a record, its replacement and a concurrent write of another record. For a query, two contexts are what a comparison takes; its three members are one
repository in both and a second branch of it, whose name extends the first's, so
that a search can match the wrong one. One move of a ref is enough to change what
a name means between any two commands. A query ends, so these runs do not
check for deadlock. For the server, two requests are one that ends during the
drain and one that does not; a server is started any number of times and finds the
file its predecessor or a doctor left, whole or not. ServesReady leaves out
a server whose file a doctor rewrote before it was loaded: doctor takes no lock, so
that server may run on what doctor found. For answers, four functions are the
symbol, two at one distance and one beyond, which is what a shortcut, a cycle and
a call within a level need; the cap of three rows is reached by the symbol and
three more. A file has up to two lines, because a hunk range is written in
different ways for none, one and more. A history has a commit before and after
the one that is asked about, and a merge. Two files and a cap of two documents reach the cap when both versions differ. `Requests` lists what is asked; the
versions are fixed before the first request, as pinned commits are.

The names of some differ in case only and some are ambiguous; of four calls from the
symbol and back (root to a and c, a to y, y to c) the last is reported the other way round.

For managed_config, the repositories are `app`, `app-web`, `lib` and `o..d`, the ids `v1`,
`web-v1` and `app-v1`: the pairs whose generated graphs and refs meet, the name no
ref may have, and a context of three members, of which one can be left out. One creation names
a repository twice and is refused. Two contexts at once are one and the one it might meet; one push tells
a branch from what it was; a fault is a program that fails, a kill, a record edited
by hand or an artifact that is gone. The files are each way a configuration can be
wrong, and the right one in both spellings; the machines are one that has
everything, each way to miss one thing, a git that hangs on the first repository or on a
later one, and versions of CBM around the oldest that will do. A doctor starts after the last push, and no
`context verify` runs beside one: neither changes what the other reads. Files of
somebody's own are read beside a registry that is new, since nothing connects them. A
user may go on after any step, so nothing blocks, and no liveness is stated there.

**Fairness.** Processes that are not killed take their next step; a lock that is
free again and again is given to each that waits for it (flock queues its
waiters). RetryRecovers and RemoveFinishes assume an operator who runs the command
again (`OperatorFairness`) and a server that is not started for ever. In
CbmSession goroutines run, `session.Close` ends (the transport kills a process
that does not exit) and contexts end; nothing says that CBM starts or answers. In
QueryCall the code runs, a budget's timer fires and a program whose context has ended is gone after a while
(`exec.CommandContext` kills it, an HTTP request is abandoned); nothing says that a
program answers or that a caller gives up. In ServeManaged the server's goroutines
run and the drain's timer fires; no request is ever answered, no client leaves and
no signal is sent unless it happens.

**Symmetry** is used only in runs without liveness properties; processes, callers
and commits are interchangeable there.

## 4. Findings

Four have a run that TLC ends with a counterexample.

1. `finding_create_twice`: two creates of one id over disjoint repositories hold
   different locks, both find the id free, and the second replaces the record of
   the first. Retry and remove have a hazard of the same kind: their locks come
   from a record read before they hold them.
2. `finding_sync_stale`: `context create --ref main` after `repo sync` pins the
   commit `main` had when the repository was added. `resolveRevision` tries the
   ref as it was given first, which finds the clone's own branch, and `git fetch`
   moves `origin/main` only; a branch the clone did not make is resolved at the
   remote's tip.
3. `finding_names`: context `v1` over `app-web` and context `web-v1` over `app`, at one
   commit (a mirror, a fork), generate one graph name. The loader refuses a
   configuration with both, so `serve --managed` refuses its own file.
4. `finding_history_quoted`: git prints the name of a file that is not ASCII quoted,
   the filter compares that with the name as it was asked for, and the history of
   the file is empty.

The others are places where the code does not do what a comment or a document says, and
a property that holds states exactly what it does do: the property names the case in
its comment, allows that case and no other, and its run reaches it.

5. NoSpuriousFailure (`store/store.go:536`): `lock.go:23` says that two repositories share
   nothing, so that commands on them need not exclude each other. They share the directory of the
   records, which every build lists: a context removed in one repository between the
   listing and the reading of its file makes a build in another fail. No command fails
   in any other way while no program does.
6. HonestVerdict (`adapters/zoekt/zoekt.go:342`): a budget that expires while the body of Zoekt's
   answer arrives is reported as Zoekt being unavailable, although `zoekt.go:314-316` and
   `CHANGELOG.md:175` say it is a timeout. `post` asks whose clock it was only when
   `client.Do` itself fails; then the verdict is right.
7. WalkTrue (`adapters/cbm/cbm.go:408`): `cbm.go:390` says that a connection which crosses one
   level is a call in the direction of the walk. Of root to a, root to c, a to y and y to c
   the walk from root reports c to y, which nobody calls. The walk is exactly the pairs that are
   connected in either direction between levels that differ by one.
8. ComparisonTrue (`engine/compare_calls.go:317`): `compare_calls.go:117` says that what is reported
   as removed only the from version has, and `src/README.md:518` speaks of the relations between
   the versions. They are those of the two walks: a call both versions make is called removed when
   its functions have come to be at one distance from the symbol, or out of the depth.
9. DoctorTrue (`cmd/vacmcp/doctor.go:429`): `doctor.go:427-428` says that one unreadable repository does not
   stop the others from being checked. One timeout is over all of them: behind one that hangs the
   others, in the order of their names, are reported as failures.
10. DoctorTrue (`cmd/vacmcp/doctor.go:486`): `doctor.go:479-481` says that 0.11 is below 0.11.0 when what is wanted
    carries the third part. A missing part counts as zero, so it is not.
11. ArtifactsKept (`managed/context.go:762`): `context.go:747-748` says that two contexts of one repository are
    never one ref. `app` in the workspace `v1`, and `app-v1` over `app`, are one, and removing either
    takes it from the other until its next index; the property leaves out what two contexts name.

What the models allow besides, where a reader might expect otherwise:

- `repo sync` of every repository writes back a record it read before the lock,
  also after the repository was removed.
- `doctor --managed` may rewrite the generated configuration between a starting
  server's writing and loading it.
- `context verify` passes a record whose members were turned round, or one of three or
  more of which one was left out; it cannot tell whose graph it is that two contexts name; and it
  passes a context that is not READY although a later index left its branch out of the shard.
- Create over a record that does not read overwrites it, and what the old context
  had built belongs to nobody.
- A single-member record with `repository: null` reads as a repository without a
  name; its context cannot be locked or removed, and a server refuses to start.
- Zoekt's cap applies before the branch filter, so branches whose names extend the
  one asked for can crowd out its matches.

## 5. Proofs

Eight modules of proofs stand beside the modules they are about. Each proves its
results for every value of the constants that satisfies the module's ASSUMEs, so for
any number of processes, contexts, repositories, commits, callers, files, requests
and faults. Seven of them are about a component; `Lists_proofs` holds the lemmas about lists that
two of the others need. The shape is the same everywhere: an inductive invariant stated as named
parts, one lemma per action (`<Action>Good`, `<Action>Keeps`) with a step per part,
and a temporal step at the end. Every invariant below was checked by TLC, part by
part, on the instance of the module's run before it was proved.

| Module | Theorem | States | Hypotheses |
|---|---|---|---|
| ManagedLifecycle_proofs | TypeCorrect, ServerExclusion, DeadlockFree | TypeOK, ServedUntouched, NoDeadlock | Repos is finite (DeadlockFree) |
| ManagedLifecycle_proofs | LocksHeld, MembersManaged, RecordsInOrder, PinsKept | LocksCoverMembers, NoDanglingMember, LifecycleOrder, PinsImmutable | OnePinSet |
| ManagedLifecycle_proofs | ReadyWhole, NothingOrphaned, SnapshotHolds | ReadyIsWhole, NoOrphanArtifacts, SnapshotStable | OnePinSet |
| ManagedLifecycle_proofs | NothingFails | NoSpuriousFailure | OnePinSet |
| CbmSession_proofs | NoProcessLeaks, StartsOne, SessionShared, CloseReaches, CloseShutsDown | NoLeakedProcess, OneAttempt, SharedSessionKept, ReturnedOK, CloseIsShutdown | one closer (CloseShutsDown only) |
| AtomicWrite_proofs | WholeReads, LitterFree, ImplementsRecordStore | ReadsWhole, NoLitter, Atomic | none |
| QueryCall_proofs | Honest, Truthful, Complete | HonestVerdict, AnswerTrue, NothingLeftOut | none |
| ServeManaged_proofs | ServedReady, ExitsHonestly, LockCoversSession | ServesReady, HonestExit, SessionCovered | none |
| ManagedConfig_proofs | ServesPins | ServedAsPinned | none |
| ManagedConfig_proofs | LoadsTrue | LoadTrue | none |
| ManagedConfig_proofs | DoctorsTrue | DoctorTrue | none |
| ManagedConfig_proofs | WrittenIsRead | what is written of a context reads as that context | it has members |
| Answers_proofs | WalksTrue, ComparisonsTrue, HistoriesTrue, SearchesTrue | WalkTrue, ComparisonTrue, HistoryTrue, SearchTrue | none |

**ManagedLifecycle_proofs: control.** `Inv == TypeOK /\ (\A p : ControlOK(p)) /\
ServerExcluded`. `ControlOK` is needed because the types of a process's local
variables depend on where it is: an action that writes `members[id[p]]` preserves
`TypeOK` only if `id[p]` is a context there. `ServerExclusion`: only an action that
runs under the management lock touches what a server serves (`TouchedByManaged`),
and a server that runs excludes every holder of it. `DeadlockFree`: a process holds
no repository above the next one it asks for (`OrderOK`); in a set of processes that
all wait within the set, the one that waits for the greatest repository contradicts
it, by well-foundedness of strict inclusion.

**ManagedLifecycle_proofs: records.** What a process has in hand is the record as it is
(`RecordOK`), its locks are those of the repositories the context is pinned to
(`TargetOK`), and a record names what its users agreed on (`PinnedOK`). With it two
processes at work on records have different ones (`OneWorker`), which is why a step
of one is nothing to another (`OthersOwn`). `OnePinSet` says that every user who
creates a context names the same repositories for it; without it the properties are
false, which `finding_create_twice` shows. `repo sync` is covered although it writes
records it read before its lock: what it writes back breaks none of these
properties.

**ManagedLifecycle_proofs: artifacts.** `BuildOK` and `RemoveOK` say what each artifact of each
member holds at each stage of a build and of a removal, `ListingOK` that a listing
made under a repository's lock still contains every context of the repository, and
`SnapshotOK` what a server relies on. The argument is about the contexts of others:
a step writes rows of repositories it has locked only (`RowsSame`), and in such a
row leaves the cells of other contexts as they are or as their records say
(`ForeignCell`). While no program has failed (`faults = 0`) no build finds anything that
makes it fail but a listing with a context in it that is gone. `NothingFails` says when that
happens: the context was removed by a command that held none of this one's locks, so
that no set it may be pinned to has a repository in common with the command's own. Contexts
may be pinned to any sets of repositories, disjoint ones included.

**CbmSession_proofs.** `AttemptOK`, `ProcOK` and `CallerOK` tie the fields of the
Provider to the attempts and their processes, `MutexOK` says that one goroutine at a
time closes a session with the mutex held, and `CloserOK` where each process is that
a Close has to see closed before it returns. For several goroutines that call Close
the theorem is `CloseReaches`: what ran at the call is closed or in the hands of
another Close that is at `session.Close`, which may still be going on when the first
returns; for one goroutine that is `CloseIsShutdown`.

**AtomicWrite_proofs.** A name never points at a file that was not on disk by then
(`RecordOK`), and `WriterOK` says how far each file has come. The refinement maps
initial states to initial states and each step to a step or a stutter: `rename` is
the write, the flush of the directory is where `safe` moves, and a power loss goes
back to one of the versions the store allows.

**QueryCall_proofs.** `PhaseOK` is what is known when a program runs, from the
answers of those before it (a second command runs because the first found nothing or
a clock went off); `OutOK` is what the answer of the running program may be while
revisions move and clocks end; `GotOK` is that each answer kept is true of its
member. `EndedIs` is the point of `internal/deadline`: the cause that is reported is
the one that came first, however many came after. For a search it is kept apart whether
`client.Do` returned (`Responded`, `resp`): a clock that ended before is reported as itself, and only one that
ended while the body was read can make Zoekt seem unavailable, which `ReasonTrue` says and no
more. `NothingSaid` assumes that no
answer and an error are none of the answers, and `CasesAssumption` what a request
and a world consist of.

**ServeManaged_proofs.** `LockOK` says from where to where a server has its lock,
`ConfigOK` that what it reads, writes and loads back is its own configuration of
READY contexts, `TransportOK` and `DrainOK` how the listener, the watcher and the
error of the transport belong together. A server whose file another process wrote is
`disturbed`, and excluded by ServesReady itself.

**ManagedConfig_proofs.** `RecordOK` says of each record that it is of its own id;
that what was not given other members reads as it was created or not at all; and
that what was not edited is exactly what vacmcp writes. The
second part is not inductive without the third: an edit of the spelling is harmless
only to a record that vacmcp had written, and a command that writes an edited record
back mends it. `PinsOK` is that no context is created without members or with one
that has no name, which the generated file could not say. A server's configuration stays what the records say because the
commands that write records are kept out while it runs. That a name is a sequence of
strings and `Unreadable` no context are the assumptions (`WritingAssumption`,
`CodecAssumption`).

LoadsTrue needs no history: what the loader makes of a file is compared with what
the file says. `workspace` takes the entries of the contexts in the order of their
ids and compares each with the last one that names the same repository, so that
any two entries of a repository agree if no neighbours differ (`AllAgree`). `Sound`,
which says what a file that loads is, splits into what one context has to be
(`SoundAlone`) and what two have to be together (`SoundTogether`); the loader
accepts exactly that, and a file it accepts is again the same file when it is
written and read back.

DoctorsTrue follows what the rows are made of. A report has three sections, and the
code fails it if a row of any is not OK (`ReportIs`); a lemma says of each section what
all its rows being OK means (`ChecksAre`, `RepositoriesAre`, `ContextsAre`,
`ManagedContextsAre`), and `FileTold` and `DirectoryTold` put them together. Two versions
are compared at the first part that differs, one that is missing being zero
(`AtLeastIs`); `NotBefore` says it by the three numbers. The row of git is followed through the
repositories in the order of their names (`SortedRises`): those that cannot be read and, from
the first that hangs on, all of them, which is what `GivenUp` says without the loop. What the rows need of a
configuration is `Loaded`: its names can be sorted, and a member names a repository that
is declared. Of a file the loader checks it; of the generated one it is `KnownOK`, that no
record names a repository that was never added, also an edited one, which may at most name none.
Between the two readings of `doctor --managed` the records change: `ReadingOK` is about
what was read first, `ListingIs` about what is read for the rows, and a context made
again in between is judged by the first. The instance is assumed to give the numbers of
a version (`EnvironmentsAssumption`) and to list in `Alphabet`, whose order is the one
names are sorted by, every id and repository (`ManagedAssumption`, `FileAssumption`).

**Answers_proofs.** Every answer is a function of the world and of the request, so
the invariant is that the world stays `WorldOK`; the work is to show what the
functions compute. Where the code walks or scans, the recursive function is tied to
its definition by induction written as a set of naturals with a least element
outside it (`Least`, `Inductive` in Lists_proofs), because the library's induction
theorems cannot be instantiated.

- WalksTrue: `reached` is what k calls lead to (`ReachedIs`), a symbol's distance is
  the least such k, and a walk that is cut by the cap has lost rows but no row of it
  is wrong: each names a call there is, or, beyond the first step from the symbol, one that
there is the other way round. A walk that is not cut, over functions whose names are unique, is
exactly the connections between functions whose distances differ by one.
- ComparisonsTrue: two such walks are lists of edges without repetition, and what is
  reported is each edge of one side exactly once (`EntriesAre`, `OnceTold`). What is called
  unchanged is what both walks have, and what is called removed or added what only the one or only the
  other has (`KeysTold`). A call between two functions at one distance is in no walk,
  which is why this is about the walks and not the graphs (see Findings).
- HistoriesTrue: the log is the concatenation of the entries of each commit that is
  reached, newest first, cut at the limit (`AllEntries`, `CutIs`); `parseHistory` gives
  them back unless git quoted the name, and the path is compared as it was printed.
- SearchesTrue: the documents of a branch are as many as its paths (`Documents*`), a list
  of one set lists each element once (`OnceEach`, `FlatOnce`), and the part of the
  answer that cites one member is the list of that member's matches (`OneList`). The scan
  for parentheses keeps a depth that is what was opened less what was closed (`DepthNext`),
  and rejects early exactly when some prefix closed more than it had opened (`ScanIs`), so
  that what passes `balanced` cannot leave the group the branch filter is put in front of.

`WorldOK` is part of `Init`. It says what a loaded configuration and a completed
build give: a request names contexts that exist, no context has a repository twice
(`src/config/config.go:250-282`), a commit comes after its parents, and an indexed repository
has the version of each member under the member's branch (`src/managed/context.go:159`). It
filters nothing in the instance of the run, whose worlds all satisfy it. The
constants are assumed to be what git and Zoekt make of names: quoting is injective and
changes a name into one that no file has (`GitQueriesAssumption`), a branch filter selects
at least the branch it names, and paths have an order (`CodeSearchAssumption`).

Only model-checked, and why:

- All liveness (CommandsEnd, RetryRecovers, RemoveFinishes, CallsEnd, CallReturns,
  ShutdownEnds): fairness and ENABLED are out of the prover's reach.
- DiffTrue: `parseDiff` folds the lines of a diff into a record of six fields, and what
  it computes needs an invariant of every line of every hunk of every file.
- ArtifactsKept and VerifyTrue: a command is the fold of its steps over two
  records and four kinds of artifact, and any step may be the one that fails. The same
  properties are proved of ManagedLifecycle, where each step is an action (ReadyWhole,
  NothingOrphaned), for contexts whose generated names do not meet.

## 6. Not modelled, and the plan

Not modelled because they have no behaviour that several steps can break:
value types and error codes (`vacctx`, `vacerr`, `provider`), the JSON of MCP and of
evidence, flags and printed tables, the demo repository, examples, packaging.
Of the git adapter, the allowlist for paths is left out: it refuses before anything
is asked. Of `validateName`, the greatest length is left out. Of repository records, a URL with a password in it is refused the same way. Windows
builds, where the lock does nothing, appear as the mutant of `lockExclusive`. Disks that
fail in the middle of a management command are seen by AtomicWrite only. A power loss
that undoes a deletion is allowed by `Atomic`, and no property says what the
management plane makes of a record that came back; nor does one say anything of
the repository record that `repo sync` revives.

Order of the plan (done: 1-9):

1. `ManagedLifecycle`, its runs, `ManagedLifecycle_proofs`.
2. `CbmSession`: who may take the shared session away.
3. `RecordStore`, `AtomicWrite`: what the records survive.
4. `QueryCall`: whose clock ended a call, the diagnostics that run after a failure,
   and what a query returns when one of several answers is missing.
5. `ServeManaged`: start and shutdown of `vacmcp serve --managed`, requests in
   flight, the second signal, and the configuration `doctor` may rewrite meanwhile.
6. `CallGraph`, `GitQueries`, `Answers`: the edges of a trace, the parsers of git's
   output and what the engine makes of both.
7. `ContextNames`, `RecordCodec`, `Configuration`, `Doctor`, `ManagedConfig`: names,
   the two spellings of a record, the configuration made of them, and its diagnosis.
8. `CodeSearch`, and the two remaining tools in `Answers`.
9. Proofs of what the runs of 1-5 check, of what a server makes of the records, a
   loader of a file and a doctor of both (7), and of traces, comparisons, histories and searches (6, 8):
   the table in section 5.
10. Next: `parseDiff`, and the build of a context in `ManagedConfig` as a proved
   refinement of the one in `ManagedLifecycle`.
