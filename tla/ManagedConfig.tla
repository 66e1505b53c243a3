--------------------------- MODULE ManagedConfig -----------------------------
(***************************************************************************)
(* From the ref a user names to the configuration a server runs on: what   *)
(* the commands of `vacmcp context`, `vacmcp repo sync`, `vacmcp serve     *)
(* --managed` and `vacmcp doctor` make of records, refs and graphs whose   *)
(* names are generated from each other.                                    *)
(*                                                                         *)
(* A command is one step here, from its first check to its last write; how *)
(* commands interleave and die between their steps is ManagedLifecycle's.  *)
(* Of a command that is refused nothing changes, and it is left out.       *)
(***************************************************************************)
EXTENDS Doctor, FiniteSets, Functions

CONSTANTS
  Repos,     \* the repositories that have been added
  Branches,  \* their branches
  Default,   \* the branch the HEAD of a remote names
  First,     \* the commit every branch is at when the repositories are added
  Pinnings,  \* the ids and pins that users create contexts with
  Files,     \* the configuration files that somebody writes by hand
  Environments, Usual, \* what a doctor may find, and what one does later on
  Pushed,    \* the repositories somebody works on
  MaxContexts, \* bound: the contexts there are at once
  MaxPushes, \* bound: how often they do
  MaxFaults  \* bound: failures, kills, edits and losses

ASSUME ManagedAssumption ==
  /\ Repos \subseteq ToSet(Alphabet)
  /\ Default \in Branches
  /\ First \in Revisions
  /\ Usual \subseteq Environments
  /\ Pushed \subseteq Repos
  /\ \A p \in Pinnings : p.id \in ToSet(Alphabet)
  /\ MaxContexts \in Nat /\ MaxPushes \in Nat /\ MaxFaults \in Nat

\* A file is read into the fields of its declarations; a members list that is not
\* given has nothing in it.
ASSUME FileAssumption ==
  \A f \in Files :
    /\ f.strict \in BOOLEAN
    /\ DOMAIN f.contexts \cup DOMAIN f.repositories \subseteq ToSet(Alphabet)
    /\ \A id \in DOMAIN f.contexts :
         /\ f.contexts[id] \in [inline : MemberRecords, given : BOOLEAN, members : Seq(MemberRecords)]
         /\ f.contexts[id].given \/ f.contexts[id].members = <<>>

\* A version is read as its numbers.
ASSUME EnvironmentsAssumption == \A e \in Environments : e.version \in Seq(Nat \cup {NaN})

PinRecords == [repository : Names, ref : Names]

\* Users and programs write names, and so are the words that vacmcp puts into one.
ASSUME WritingAssumption ==
  /\ Branches \cup Revisions \subseteq Names
  /\ {"vacmcp", "vacmcp/"} \cup {Short[r] : r \in Revisions} \subseteq STRING
  /\ \A p \in Pinnings : p.id \in Names /\ p.pins \in Seq(PinRecords)

VARIABLES
  records,  \* records[id]: the record of context id, as it is written
  disk,     \* [clones, worktrees, shards, graphs], below
  remote,   \* remote[r][b]: the commit of a branch
  states,   \* states[r]: the state in the record of repository r
  serving,  \* Off, or the configuration a managed server runs on
  doctor,   \* Off, or what a doctor has read so far
  answer,   \* what the last command said
  pinned,   \* history: the members each context was created with
  synced,   \* history: the repositories fetched since their remote last moved
  edited,   \* history: the records edited by hand, and those with other content
  mixed,    \* history: the artifacts that two contexts named, at once or one after
            \* the other's record was overwritten
  lost,     \* history: the artifacts somebody else took or moved
  pushes, faults

vars == <<records, disk, remote, states, serving, doctor, answer, pinned, synced, edited, mixed,
          lost, pushes, faults>>

(***************************************************************************)
(* disk.clones[r]             [heads, origin, commits] of the clone of r   *)
(* disk.worktrees[<<r, id>>]  the commit it is at                          *)
(* disk.shards[r][branch]     the commit that was indexed                  *)
(* disk.graphs[name]          [repository, revision] it was built from     *)
(***************************************************************************)

Off     == [running |-> FALSE]
Quiet   == [command |-> "none"]

Without(f, x) == RestrictDomain(f, LAMBDA y : y # x)
With(f, x, v) == [y \in DOMAIN f \cup {x} |-> IF y = x THEN v ELSE f[y]]

-----------------------------------------------------------------------------
(* The registry                                                            *)

Read(rs, id) == UnmarshalJSON(rs[id])

\* What the records read as, Unreadable among it if one does not read.
listRecords(rs) == {Read(rs, id) : id \in DOMAIN rs}

readable(rs) == listRecords(rs) \ {Unreadable}

\* Store.Contexts: one record that does not read fails the listing.
Contexts(rs) ==
  LET ids == Sorted(DOMAIN rs)
  IN  IF Unreadable \in listRecords(rs) THEN Unreadable
      ELSE [i \in DOMAIN ids |-> Read(rs, ids[i])]

PutContext(rs, c) == With(rs, c.id, MarshalJSON(c))

InState(c, s) == [c EXCEPT !.state = s]

repositoriesOf(c) == {c.members[i].repository : i \in DOMAIN c.members}

\* withRepositoryLocks, RepositoryDir: every name is a path element.
lockable(c) == \A r \in repositoriesOf(c) : validateName(r)

-----------------------------------------------------------------------------
(* What a command does to the disk: [ok, disk]                             *)

Good(d) == [ok |-> TRUE, disk |-> d]
Bad(d)  == [ok |-> FALSE, disk |-> d]

\* git worktree add refuses a directory that is there.
prepareSource(d, c, m) ==
  IF /\ m.repository \in DOMAIN d.clones
     /\ m.revision \in d.clones[m.repository].commits
     /\ <<m.repository, c.id>> \notin DOMAIN d.worktrees
  THEN Good([d EXCEPT !.worktrees = With(@, <<m.repository, c.id>>, m.revision)])
  ELSE Bad(d)

\* The members in r of all contexts but those that are being removed.
refsOf(contexts, r) ==
  SelectSeq(FlattenSeq([i \in DOMAIN contexts |->
      IF contexts[i].state = "REMOVING" THEN <<>> ELSE contexts[i].members]),
    LAMBDA m : m.repository = r /\ m.branch # blank)

\* git update-ref, of a legal name and a commit the clone has
acceptable(d, m) == ~dotted(m.branch) /\ m.revision \in d.clones[m.repository].commits

putSearchRef(d, m) == [d EXCEPT !.clones[m.repository].heads = With(@, m.branch, m.revision)]

dropShards(d, r) == [d EXCEPT !.shards = Without(@, r)]

\* The refs are put one by one; the first that git refuses ends it.  One shard
\* replaces the other, with all the branches.  indexed: whether zoekt-git-index
\* does its work.
indexRepository(rs, d, r, indexed) ==
  LET contexts == Contexts(rs)
      ms == refsOf(contexts, r)
      wrong == {i \in DOMAIN ms : ~acceptable(d, ms[i])}
      upto == IF wrong = {} THEN ms ELSE SubSeq(ms, 1, SelectInSeq(ms, LAMBDA m : ~acceptable(d, m)) - 1)
      put == FoldLeft(putSearchRef, d, upto)
      branches == {ms[i].branch : i \in DOMAIN ms}
  IN  CASE contexts = Unreadable -> Bad(d)
        [] r \notin DOMAIN d.clones -> Good(dropShards(d, r))
        [] wrong # {} -> Bad(put)
        [] ms = <<>> -> Good(dropShards(d, r))
        [] ~indexed -> Bad(put)
        [] OTHER -> Good([put EXCEPT !.shards =
                            With(@, r, Restrict(put.clones[r].heads, branches))])

\* CBM keeps one graph of a name, the last one built.
indexGraph(d, c, m) ==
  IF <<m.repository, c.id>> \in DOMAIN d.worktrees
  THEN Good([d EXCEPT !.graphs = With(@, m.graphRef,
               [repository |-> m.repository, revision |-> d.worktrees[<<m.repository, c.id>>]])])
  ELSE Bad(d)

\* Mutant: it is enough that the ref is in the clone.
verifySearchRef_any(d, m) ==
  /\ m.branch \in DOMAIN d.clones[m.repository].heads
  /\ m.repository \in DOMAIN d.shards

\* The ref is at the commit, and the repository has a shard.
verifySearchRef(d, m) ==
  /\ m.branch \in DOMAIN d.clones[m.repository].heads
  /\ d.clones[m.repository].heads[m.branch] = m.revision
  /\ m.repository \in DOMAIN d.shards

\* The six checks of decision-4, of every member.
verifyContext(d, c) ==
  /\ \A i \in DOMAIN c.members :
       LET m == c.members[i]
       IN  /\ validateName(m.repository)
           /\ m.repository \in DOMAIN d.clones
           /\ m.revision \in d.clones[m.repository].commits
           /\ <<m.repository, c.id>> \in DOMAIN d.worktrees
           /\ d.worktrees[<<m.repository, c.id>>] = m.revision
           /\ verifySearchRef(d, m)
           /\ m.graphRef \in DOMAIN d.graphs
  /\ verifyIdentity(c)

\* discardSource: the graph of that name, whoever built it, and the checkout
discardSource(d, c, m) ==
  Good([d EXCEPT !.graphs = Without(@, m.graphRef),
                 !.worktrees = Without(@, <<m.repository, c.id>>)])

dropSearchRef(d, m) ==
  IF m.branch = blank \/ m.repository \notin DOMAIN d.clones THEN Good(d)
  ELSE Good([d EXCEPT !.clones[m.repository].heads = Without(@, m.branch)])

\* The steps of a command in which an external program runs.
Step(do, m)   == [do |-> do, member |-> m]
Each(do, c)   == [i \in DOMAIN c.members |-> Step(do, c.members[i])]
Indexes(c)    == LET rs == Sorted(repositoriesOf(c))
                 IN  [i \in DOMAIN rs |-> Step("index", Member(rs[i], blank, blank, blank))]

Perform(s, c, rs, d) ==
  CASE s.do = "checkout" -> prepareSource(d, c, s.member)
    [] s.do = "index"    -> indexRepository(rs, d, s.member.repository, TRUE)
    [] s.do = "graph"    -> indexGraph(d, c, s.member)
    [] s.do = "verify"   -> [ok |-> verifyContext(d, c), disk |-> d]
    [] s.do = "discard"  -> discardSource(d, c, s.member)
    [] s.do = "drop"     -> dropSearchRef(d, s.member)

\* The steps in their order up to the first that fails; the program that step k
\* runs fails, or is killed with the command.  No step writes a record.
Run(steps, c, rs, d, k) ==
  FoldLeftDomain(LAMBDA done, i :
      CASE ~done.ok -> done
        [] i # k -> Perform(steps[i], c, rs, done.disk)
        [] steps[i].do = "index" -> indexRepository(rs, done.disk, steps[i].member.repository, FALSE)
        [] OTHER -> Bad(done.disk),
    Good(d), steps)

\* Every stage is over all members before the next begins.
Building(c) ==
  Each("checkout", c) \o Indexes(c) \o Each("graph", c) \o <<Step("verify", Nothing)>>

\* The artifacts of each member and its ref, then the shards.
Removing(c) ==
  FlattenSeq([i \in DOMAIN c.members |->
    <<Step("discard", c.members[i]), Step("drop", c.members[i])>>]) \o Indexes(c)

-----------------------------------------------------------------------------
(* The commands                                                            *)

Artifact(kind, repository, name) == [kind |-> kind, repository |-> repository, name |-> name]

artifactsOf(c) ==
  UNION {{Artifact("ref", m.repository, m.branch), Artifact("graph", blank, m.graphRef)} :
           m \in ToSet(c.members)}

\* Two parts that a dash joins may be cut at another dash: the graph of app-web
\* in context v1 is that of app in context web-v1, and the search ref of app in
\* the workspace v1 is that of the context app-v1 over app alone.
sameGraph(c, m, o, n) == m.revision = n.revision /\ m.repository \o c.id = n.repository \o o.id

sameRef(c, m, o, n) ==
  /\ m.repository = n.repository /\ m.revision = n.revision
  /\ Len(c.members) > 1 /\ Len(o.members) = 1
  /\ m.repository \o c.id = o.id

\* The artifacts that two records name.
ambiguous(rs) ==
  UNION {{Artifact("graph", blank, m.graphRef) :
            m \in {m \in ToSet(x[1].members) : \E n \in ToSet(x[2].members) : sameGraph(x[1], m, x[2], n)}}
         \cup {Artifact("ref", m.repository, m.branch) :
            m \in {m \in ToSet(x[1].members) : \E n \in ToSet(x[2].members) : sameRef(x[1], m, x[2], n)}}
         : x \in {x \in readable(rs) \X readable(rs) : x[1].id # x[2].id}}

\* Records and disk as a command leaves them, which may be without a record of
\* strays.
Leaves(rs, d, strays) ==
  /\ records' = rs /\ disk' = d
  /\ mixed' = {a \in mixed \cup ambiguous(rs) \cup strays :
                 a.name \in DOMAIN d.graphs \/ \E c \in readable(rs) : a \in artifactsOf(c)}
  /\ UNCHANGED lost

Forgotten(id) == [spelling |-> edited.spelling \ {id}, content |-> edited.content \ {id}]

\* Nobody, or the program that step k runs: what the command then leaves of the
\* record, which a kill leaves in the state of a stage.
Faults(steps) == {0} \cup (IF faults < MaxFaults THEN DOMAIN steps ELSE {})

Costs(k) == faults' = faults + (IF k = 0 THEN 0 ELSE 1)

\* A ref as it was given, or else a branch of the remote; blank if neither.
resolveRevision(d, r, ref) ==
  LET clone == d.clones[r]
  IN  CASE r \notin DOMAIN d.clones -> blank
        [] ref \in clone.commits -> ref
        [] ref \in DOMAIN clone.heads -> clone.heads[ref]
        [] ref \in DOMAIN clone.origin -> clone.origin[ref]
        [] OTHER -> blank

\* buildContext, after which c is READY, FAILED or left in a stage.
Build(c, d, k, end, strays) ==
  LET begun == PutContext(records, InState(c, "BUILDING"))
      done  == Run(Building(c), c, begun, d, k)
      state == IF done.ok THEN "READY" ELSE end
  IN  /\ k = 0 => end = "FAILED"
      /\ k # 0 => Run(SubSeq(Building(c), 1, k - 1), c, begun, d, 0).ok
      /\ Leaves(PutContext(records, InState(c, state)), done.disk, strays)
      /\ Costs(k)

\* Any error of store.Context leaves the id free, a record that does not read too.
free(id) == id \in DOMAIN records => Read(records, id) = Unreadable

\* What Create checks before anything else.
acceptedPins(id, pins) ==
  /\ pins # <<>>
  /\ validateName(id) /\ ~dotted(id)
  /\ \A i \in DOMAIN pins : validateName(pins[i].repository)
  /\ \A i, j \in DOMAIN pins : pins[i].repository = pins[j].repository => i = j

CreateContext(id, pins, end) ==
  LET resolved1(i) == resolveRevision(disk, pins[i].repository, pins[i].ref)
      bare == [id |-> id, state |-> "CREATING", members |->
                 [i \in DOMAIN pins |->
                    Member(pins[i].repository, blank, resolved1(i), blank)]]
      c == [bare EXCEPT !.members = [i \in DOMAIN pins |->
              [bare.members[i] EXCEPT !.branch = searchRef(bare, bare.members[i]),
                                      !.graphRef = graphRef(bare, bare.members[i])]]]
      overwritten == IF id \in DOMAIN pinned THEN artifactsOf([c EXCEPT !.members = pinned[id]]) ELSE {}
  IN  /\ answer = Quiet
      /\ acceptedPins(id, pins)
      /\ serving = Off
      /\ free(id)
      /\ Cardinality(DOMAIN records \cup {id}) <= MaxContexts
      /\ \A i \in DOMAIN pins : pins[i].repository \in DOMAIN states /\ resolved1(i) \in Revisions
      /\ \E k \in Faults(Building(c)) : Build(c, disk, k, end, overwritten)
      /\ answer' = [command |-> "create", pins |-> pins, members |-> c.members]
      /\ pinned' = With(pinned, id, c.members)
      /\ edited' = Forgotten(id)
      /\ UNCHANGED <<remote, states, serving, doctor, synced, pushes>>

\* Mutant: a READY context may be built again.
retryable_ready(c) == c.state # "REMOVING"

retryable(c) == c.state \notin {"READY", "REMOVING"}

\* A discard that fails leaves the record as it is; after it the context is built
\* from the revisions in the record.
RetryContext(id, end) ==
  /\ answer = Quiet
  /\ serving = Off
  /\ id \in DOMAIN records
  /\ LET c == Read(records, id)
     IN  /\ c # Unreadable /\ lockable(c) /\ retryable(c)
         /\ repositoriesOf(c) \subseteq DOMAIN states
         /\ LET gone == Run(Each("discard", c), c, records, disk, 0)
            IN  \/ \E k \in Faults(Building(c)) : Build(c, gone.disk, k, end, {})
               \/ /\ end = "FAILED"
                  /\ \E k \in Faults(Each("discard", c)) \ {0} :
                       /\ Leaves(records, Run(Each("discard", c), c, records, disk, k).disk, {})
                       /\ Costs(k)
  /\ answer' = Quiet
  /\ UNCHANGED <<remote, states, serving, doctor, pinned, synced, edited, pushes>>

RemoveContext(id) ==
  /\ answer = Quiet
  /\ serving = Off
  /\ id \in DOMAIN records
  /\ LET c == Read(records, id)
     IN  /\ c # Unreadable /\ lockable(c)
         /\ \E k \in Faults(Removing(c)) :
              LET begun == PutContext(records, InState(c, "REMOVING"))
                  done  == Run(Removing(c), c, begun, disk, k)
              IN  /\ Costs(k)
                  /\ IF done.ok
                     THEN /\ Leaves(Without(begun, id), done.disk, {})
                          /\ pinned' = Without(pinned, id)
                          /\ edited' = Forgotten(id)
                     ELSE Leaves(begun, done.disk, {}) /\ UNCHANGED <<pinned, edited>>
  /\ answer' = Quiet
  /\ UNCHANGED <<remote, states, serving, doctor, synced, pushes>>

\* Asks and writes nothing; bound: no doctor runs meanwhile, which does not either.
VerifyContext(id) ==
  /\ answer = Quiet /\ doctor = Off
  /\ id \in DOMAIN records
  /\ LET c == Read(records, id)
     IN  /\ c # Unreadable
         /\ answer' = [command |-> "verify", id |-> id, ok |-> verifyContext(disk, c)]
  /\ UNCHANGED <<records, disk, remote, states, serving, doctor, pinned, synced, edited, mixed, lost, pushes, faults>>

\* git fetch moves the branches under origin/, and no other ref.
Sync(r) ==
  /\ answer = Quiet
  /\ r \in DOMAIN states
  /\ \/ /\ r \in DOMAIN disk.clones
        /\ disk' = [disk EXCEPT !.clones[r].origin = remote[r],
                                !.clones[r].commits = @ \cup Range(remote[r])]
        /\ states' = [states EXCEPT ![r] = "READY"]
        /\ synced' = synced \cup {r}
        /\ UNCHANGED faults
     \/ /\ r \in DOMAIN disk.clones => faults < MaxFaults
        /\ states' = [states EXCEPT ![r] = "FAILED"]
        /\ Costs(IF r \in DOMAIN disk.clones THEN 1 ELSE 0)
        /\ UNCHANGED <<disk, synced>>
  /\ answer' = Quiet
  /\ UNCHANGED <<records, remote, serving, doctor, pinned, edited, mixed, lost, pushes>>

-----------------------------------------------------------------------------
(* The configurations                                                      *)

NoConfig == [repositories |-> <<>>, contexts |-> <<>>]

\* Mutant: what is not served yet is served as well.
readyContexts_all(cs) == {c \in cs : c.state # "FAILED"}

readyContexts(cs) == {c \in cs : c.state = "READY"}

generated(cs) ==
  [repositories |-> [r \in UNION {repositoriesOf(c) : c \in cs} |-> r],
   contexts |-> [id \in {c.id : c \in cs} |-> (CHOOSE c \in cs : c.id = id).members]]

\* What the READY records make of themselves, through the file.
managedConfig(rs) ==
  LET ready == readyContexts(readable(rs))
  IN  IF Unreadable \in listRecords(rs) THEN Refused("unreadable record")
      ELSE IF \E c \in ready : ~lockable(c) THEN Refused("INVALID_ARGUMENT")
      ELSE IF ready = {} THEN Accepted(NoConfig)
      ELSE Load(Marshal(generated(ready)))

Serve ==
  /\ answer = Quiet
  /\ serving = Off /\ doctor = Off
  /\ LET loaded == managedConfig(records)
     IN  /\ answer' = [command |-> "serve", loaded |-> loaded]
         /\ serving' = IF loaded.ok THEN [running |-> TRUE, config |-> loaded.config] ELSE Off
  /\ UNCHANGED <<records, disk, remote, states, doctor, pinned, synced, edited, mixed, lost, pushes, faults>>

Stop ==
  /\ answer = Quiet
  /\ serving # Off
  /\ serving' = Off
  /\ answer' = Quiet
  /\ UNCHANGED <<records, disk, remote, states, doctor, pinned, synced, edited, mixed, lost, pushes, faults>>

\* vacmcp validate, of a file somebody wrote
Validate(file) ==
  /\ answer' = [command |-> "validate", file |-> file, loaded |-> Load(file)]
  /\ UNCHANGED <<records, disk, remote, states, serving, doctor, pinned, synced, edited, mixed, lost, pushes, faults>>

\* What the doctor finds: the environment, and the clones at their paths.
Found(e, d) ==
  [mcp |-> e.mcp, zoektURL |-> e.zoektURL, zoekt |-> e.zoekt, command |-> e.command,
   version |-> e.version, hang |-> e.hang,
   commits |-> [r \in DOMAIN d.clones |-> d.clones[r].commits]]

\* Without a configuration one row stands for each section.
Diagnosis(managed, loaded, e, rs, repositories, contexts) ==
  answer' = [command |-> "doctor", managed |-> managed, loaded |-> loaded, found |-> e, records |-> rs,
             report |-> IF loaded.ok THEN report(checks(loaded, e), repositories, contexts)
                        ELSE report(checks(loaded, e), IF managed THEN <<notChecked(unnamed)>> ELSE <<>>,
                                    <<notChecked(unnamed)>>)]

\* doctor --config
DoctorFile(file, e) ==
  /\ LET loaded == Load(file)
         found  == Found(e, disk)
     IN  Diagnosis(FALSE, loaded, found, <<>>, <<>>, checkContexts(loaded.config, found))
  /\ UNCHANGED <<records, disk, remote, states, serving, doctor, pinned, synced, edited, mixed, lost, pushes, faults>>

\* doctor --managed takes no lock.  It reads the records for the configuration,
\* bound: there is no server meanwhile, which it has nothing to do with, and the
\* last push was before, which nobody notices until he syncs.
DoctorReads ==
  /\ answer = Quiet
  /\ doctor = Off /\ serving = Off /\ pushes = MaxPushes
  /\ doctor' = [running |-> TRUE, loaded |-> managedConfig(records)]
  /\ answer' = Quiet
  /\ UNCHANGED <<records, disk, remote, states, serving, pinned, synced, edited, mixed, lost, pushes, faults>>

\* and again for the rows, after the probes.
DoctorReports(e) ==
  /\ answer = Quiet
  /\ doctor # Off
  /\ LET found == Found(e, disk)
         rs == Contexts(records)
     IN  Diagnosis(TRUE, doctor.loaded, found, rs, checkRepositories(states),
                   checkManagedContexts(rs, doctor.loaded.config, found))
  /\ doctor' = Off
  /\ UNCHANGED <<records, disk, remote, states, serving, pinned, synced, edited, mixed, lost, pushes, faults>>

-----------------------------------------------------------------------------
(* What else happens                                                       *)

\* Somebody writes to a remote.
Push(r, v) ==
  /\ answer = Quiet
  /\ pushes < MaxPushes
  /\ v \notin Range(remote[r])
  /\ remote' = [remote EXCEPT ![r] = [b \in Branches |-> v]]
  /\ synced' = synced \ {r}
  /\ pushes' = pushes + 1
  /\ answer' = Quiet
  /\ UNCHANGED <<records, disk, states, serving, doctor, pinned, edited, mixed, lost, faults>>

Elsewhere(c, v) == [c EXCEPT !.members[1].revision = v]

\* At v throughout, by the names that v generates.
Moved(c, v) ==
  LET m == [c.members[1] EXCEPT !.revision = v]
  IN  [c EXCEPT !.members[1] = [m EXCEPT !.branch = searchRef(c, m), !.graphRef = graphRef(c, m)]]

\* The same members in a spelling no program writes, and two spellings that
\* differ.
respelled(w, c) ==
  {[w EXCEPT !.repository = Absent]}
  \cup (IF Len(c.members) = 1 THEN {} ELSE {[w EXCEPT !.repository = JSONNull]})
  \cup {[w EXCEPT !.repository = JSONString(c.members[1].repository),
                  !.members = Elsewhere(c, v).members] : v \in Revisions \ {c.members[1].revision}}

\* What somebody makes of c who edits one field of its first member or all of
\* them, its state, the order of its members, or leaves the first one out.
altered(c) ==
  LET others == Revisions \ {c.members[1].revision}
  IN  {Elsewhere(c, v) : v \in others} \cup {Moved(c, v) : v \in others}
      \cup {[c EXCEPT !.members[1].branch = Default]}
      \cup {[c EXCEPT !.members[1].graphRef = Moved(c, v).members[1].graphRef] : v \in Revisions}
      \cup {InState(c, s) : s \in {"READY", "FAILED"} \ {c.state}}
      \cup {[c EXCEPT !.members = ms] : ms \in {Reverse(c.members), Tail(c.members)} \ {c.members, <<>>}}

\* The record of another context.
rewritten(w, c) ==
  (IF Len(c.members) > 1 THEN {} ELSE {[w EXCEPT !.repository = JSONNull]})
  \cup {MarshalJSON(a) : a \in altered(c)}

\* Somebody edits a record by hand.
EditRecord(id) ==
  /\ answer = Quiet
  /\ faults < MaxFaults /\ faults' = faults + 1
  /\ id \in DOMAIN records \ edited.spelling
  /\ LET w == records[id]
         c == Read(records, id)
     IN  \E e \in respelled(w, c) \cup rewritten(w, c) :
           /\ records' = [records EXCEPT ![id] = e]
           /\ IF e \in rewritten(w, c)
              THEN /\ edited' = [edited EXCEPT !.spelling = @ \cup {id}, !.content = @ \cup {id}]
                   \* it may name what is another's
                   /\ lost' = lost \cup artifactsOf(c) \cup artifactsOf(UnmarshalJSON(e))
              ELSE edited' = [edited EXCEPT !.spelling = @ \cup {id}] /\ UNCHANGED lost
  /\ answer' = Quiet
  /\ UNCHANGED <<disk, remote, states, serving, doctor, pinned, synced, mixed, pushes>>

\* Somebody deletes or moves an artifact of a context.
Lose(id) ==
  /\ answer = Quiet
  /\ faults < MaxFaults /\ faults' = faults + 1
  /\ id \in DOMAIN records /\ Read(records, id) # Unreadable
  /\ LET c == Read(records, id) IN
     \E m \in ToSet(c.members), v \in Revisions :
       LET r == m.repository
           at == <<r, id>>
       IN  /\ v # m.revision
           /\ \/ /\ m.graphRef \in DOMAIN disk.graphs
                 /\ disk' = [disk EXCEPT !.graphs = Without(@, m.graphRef)]
                 /\ lost' = lost \cup {Artifact("graph", blank, m.graphRef)}
              \/ /\ r \in DOMAIN disk.clones /\ v \in disk.clones[r].commits
                 /\ disk' = [disk EXCEPT !.clones[r].heads = With(@, m.branch, v)]
                 /\ lost' = lost \cup {Artifact("ref", r, m.branch)}
              \/ /\ at \in DOMAIN disk.worktrees
                 /\ disk' = [disk EXCEPT !.worktrees[at] = v]
                 /\ lost' = lost \cup {Artifact("worktree", r, id)}
              \/ /\ r \in DOMAIN disk.shards
                 /\ disk' = dropShards(disk, r)
                 /\ lost' = lost \cup {Artifact("shard", r, blank)}
              \/ /\ r \in DOMAIN disk.clones
                 /\ disk' = [disk EXCEPT !.clones = Without(@, r)]
                 /\ lost' = lost \cup {Artifact("clone", r, blank)}
  /\ answer' = Quiet
  /\ UNCHANGED <<records, remote, states, serving, doctor, pinned, synced, edited, mixed, pushes>>

-----------------------------------------------------------------------------
(* The whole                                                               *)

Fresh == [worktrees |-> <<>>, shards |-> <<>>, graphs |-> <<>>,
          clones |-> [r \in Repos |-> [heads |-> Default :> First,
                                       origin |-> [b \in Branches |-> First],
                                       commits |-> {First}]]]

\* git clone makes one branch, the one the remote's HEAD names.
Init ==
  /\ records = <<>> /\ disk = Fresh
  /\ remote = [r \in Repos |-> [b \in Branches |-> First]]
  /\ states = [r \in Repos |-> "READY"]
  /\ serving = Off /\ doctor = Off /\ answer = Quiet
  /\ pinned = <<>> /\ synced = Repos
  /\ edited = [spelling |-> {}, content |-> {}]
  /\ mixed = {} /\ lost = {}
  /\ pushes = 0 /\ faults = 0

Ids == {p.id : p \in Pinnings}

\* The user reads what the last command said.
Heard ==
  /\ answer # Quiet /\ answer' = Quiet
  /\ UNCHANGED <<records, disk, remote, states, serving, doctor, pinned, synced, edited, mixed, lost, pushes, faults>>

\* bound: the files are not the registry's, and are read beside one that is new.
HandWritten(file) ==
  /\ answer = Quiet /\ pinned = <<>> /\ pushes = 0 /\ faults = 0 /\ serving = Off /\ doctor = Off
  /\ Validate(file) \/ \E e \in Environments : DoctorFile(file, e)

Next ==
  \/ \E p \in Pinnings, end \in {"FAILED", "BUILDING"} : CreateContext(p.id, p.pins, end)
  \/ \E id \in Ids, end \in {"FAILED", "BUILDING"} : RetryContext(id, end)
  \/ \E id \in Ids : RemoveContext(id)
  \/ \E id \in Ids : VerifyContext(id)
  \/ \E r \in Repos : Sync(r)
  \/ Serve \/ Stop
  \/ DoctorReads \/ \E e \in Usual : DoctorReports(e)
  \/ \E file \in Files : HandWritten(file)
  \/ \E r \in Pushed, v \in Revisions : Push(r, v)
  \/ \E id \in Ids : EditRecord(id)
  \/ \E id \in Ids : Lose(id)
  \/ Heard

Spec == Init /\ [][Next]_vars

-----------------------------------------------------------------------------
(* Properties                                                              *)

\* Whether the member m of context c has an artifact that is what it should be.
Has(c, m, kind) ==
  LET d == disk
      r == m.repository
  IN  /\ r \in DOMAIN d.clones
      /\ CASE kind = "ref"      -> m.branch \in DOMAIN d.clones[r].heads
                                  /\ d.clones[r].heads[m.branch] = m.revision
           [] kind = "worktree" -> <<r, c.id>> \in DOMAIN d.worktrees
                                  /\ d.worktrees[<<r, c.id>>] = m.revision
           [] kind = "shard"    -> r \in DOMAIN d.shards /\ m.branch \in DOMAIN d.shards[r]
                                  /\ d.shards[r][m.branch] = m.revision
           [] kind = "graph"    -> m.graphRef \in DOMAIN d.graphs
                                  /\ d.graphs[m.graphRef] = [repository |-> r, revision |-> m.revision]

Named(c, m, kind) ==
  Artifact(kind, IF kind = "graph" THEN blank ELSE m.repository,
           CASE kind = "ref" -> m.branch [] kind = "worktree" -> c.id
             [] kind = "shard" -> blank [] kind = "graph" -> m.graphRef)

\* Whatever is created, built again, removed, failed or killed beside it, a READY
\* context keeps what it is searched, traced and read from, at the revision it
\* pins and in the repository it names, where nobody else took that away and no
\* second context generated the same name (managed/search.go indexRepository,
\* managed/context.go searchRef and graphRef).
ArtifactsKept ==
  \A c \in readable(records) :
    c.state = "READY" /\ c.id \notin edited.content =>
      \A m \in ToSet(c.members), kind \in {"ref", "worktree", "shard", "graph"} :
        \/ Has(c, m, kind)
        \/ Named(c, m, kind) \in mixed \cup lost
        \/ Artifact("clone", m.repository, blank) \in lost
        \/ kind = "shard" /\ Named(c, m, "ref") \in lost

\* `context verify` passes a context only if "every artifact this record names"
\* is "really there and really this revision" (managed/context.go verifyContext),
\* and only if every member in the record is one the context was created with,
\* after edits of its fields, its state, the order of its members or their number
\* (EditRecord) and losses of artifacts (Lose).  What it cannot tell is that
\* members were reordered or that one of three or more was left out, whose graph it
\* is that two contexts give one name, and whether a shard has the branch of a
\* context that is not READY, or is READY because somebody wrote so.
VerifyTrue ==
  answer.command = "verify" /\ answer.ok =>
    LET c == Read(records, answer.id)
    IN  /\ ToSet(c.members) \subseteq ToSet(pinned[c.id])
        /\ Len(c.members) = 1 => c.members = pinned[c.id]
        /\ \A m \in ToSet(c.members), kind \in {"ref", "worktree", "shard", "graph"} :
             \/ Has(c, m, kind)
             \/ kind = "graph" /\ Named(c, m, kind) \in mixed
             \/ kind = "shard" /\ (c.state # "READY" \/ c.id \in edited.content)

\* A record reads back as it was created, or not at all; a program of the version
\* before refuses it or reads it likewise; and a server runs on the READY
\* contexts with the pins of their creation, through the record's two spellings
\* and the generated file's (store/store.go MarshalJSON and UnmarshalJSON,
\* config/config.go Marshal and Load, cmd/vacmcp/managed.go managedConfig).
ServedAsPinned ==
  /\ \A id \in DOMAIN records \ edited.content :
       /\ Read(records, id) # Unreadable => Read(records, id).members = pinned[id]
       /\ id \notin edited.spelling =>
            /\ Read(records, id) # Unreadable
            /\ OlderReads(records[id]) \in {Unreadable, Read(records, id)}
  /\ serving # Off =>
       \A id \in Ids \ edited.spelling :
         /\ id \in DOMAIN serving.config.contexts <=>
              id \in DOMAIN records /\ Read(records, id).state = "READY"
         /\ id \in DOMAIN serving.config.contexts => serving.config.contexts[id] = pinned[id]

\* What a file has to be like, context by context and pair by pair.
Sound(file) ==
  LET ds == file.contexts
      members(id) == IF ds[id].inline # Nothing THEN {ds[id].inline} ELSE ToSet(ds[id].members)
  IN  /\ file.strict
      /\ DOMAIN ds # {} /\ blank \notin DOMAIN ds
      /\ blank \notin DOMAIN file.repositories \cup Range(file.repositories)
      /\ \A id \in DOMAIN ds :
           /\ ds[id].given <=> ds[id].inline = Nothing
           /\ members(id) # {}
           /\ ds[id].given => Cardinality({m.repository : m \in members(id)}) = Len(ds[id].members)
           /\ \A m \in members(id) : m.repository \in DOMAIN file.repositories
                                     /\ blank \notin {m.branch, m.revision, m.graphRef}
           /\ \A jd \in DOMAIN ds : \A m \in members(id), n \in members(jd) :
                m.graphRef = n.graphRef => m.repository = n.repository /\ m.revision = n.revision

\* A configuration file is accepted exactly if it is sound, whatever order its
\* contexts are gone through in, and written down again it loads as the same
\* configuration (config/config.go Load, validate, Marshal).
LoadTrue ==
  answer.command = "validate" =>
    /\ answer.loaded.ok <=> Sound(answer.file)
    /\ answer.loaded.ok => Load(Marshal(answer.loaded.config)) = answer.loaded

\* The version v is not before w, by three numbers; one that is missing is zero.
NotBefore(v, w) ==
  LET n(x, i) == IF i \in DOMAIN x THEN x[i] ELSE 0
  IN  \/ n(v, 1) > n(w, 1)
      \/ n(v, 1) = n(w, 1) /\ n(v, 2) > n(w, 2)
      \/ n(v, 1) = n(w, 1) /\ n(v, 2) = n(w, 2) /\ n(v, 3) >= n(w, 3)

\* What doctor says of the machine: the engines and the configured clones.
EnginesUsable(loaded, e) ==
  /\ loaded.ok
  /\ e.mcp /\ e.zoektURL /\ e.zoekt = "answers" /\ e.command = "runs"
  /\ e.version # <<>> /\ e.version[1] # NaN
  /\ NotBefore(release(e.version), minCBM)
  /\ \A r \in DOMAIN loaded.config.repositories :
       loaded.config.repositories[r] \in DOMAIN e.commits \ e.hang

\* What it says of a context: that everything it names can be read.
ContextUsable(cfg, e, ms) ==
  \A m \in ToSet(ms) : m.revision \in e.commits[cfg.repositories[m.repository]]

\* The repositories the check of git gives up on: those git cannot read, and from
\* one that hangs on, in the order they sort in, all of them.
GivenUp(cfg, e) ==
  LET behind(r) == \E i, j \in DOMAIN Alphabet :
                     /\ i <= j /\ Alphabet[j] = r
                     /\ Alphabet[i] \in DOMAIN cfg.repositories
                     /\ cfg.repositories[Alphabet[i]] \in e.hang
  IN  {r \in DOMAIN cfg.repositories : cfg.repositories[r] \notin DOMAIN e.commits \/ behind(r)}

\* doctor exits without an error exactly if the engines are usable, and in a data
\* directory every repository and every context is READY, with its version there
\* in the configuration that was read first.  A row that says OK of a context
\* names the pins its record has, unless the context was removed and made again
\* between the two readings.  The row of git names exactly the repositories that
\* cannot be read and, of those that can, exactly the ones behind one that hangs,
\* although "one unreadable repository does not stop the others from being
\* checked"; and CBM is new enough exactly if its version is not before 0.11.0
\* with zero for a number that is missing, which 0.11 is not, although "0.11 is
\* below 0.11.0 only when want carries the third part" (cmd/vacmcp/doctor.go
\* doctor, checkGit, atLeast).
DoctorTrue ==
  answer.command = "doctor" =>
    LET e == answer.found
        cfg == answer.loaded.config
        of(c) == {x \in ToSet(answer.report.contexts) : x.name = c.id}
    IN  /\ answer.report.ok <=>
             /\ EnginesUsable(answer.loaded, e)
             /\ IF answer.managed
                THEN /\ \A r \in Repos : states[r] = "READY"
                     /\ answer.records # Unreadable
                     /\ \A c \in ToSet(answer.records) :
                          /\ c.state = "READY" /\ c.id \in DOMAIN cfg.contexts
                          /\ ContextUsable(cfg, e, cfg.contexts[c.id])
                ELSE \A id \in DOMAIN cfg.contexts : ContextUsable(cfg, e, cfg.contexts[id])
        /\ answer.loaded.ok =>
             \A x \in ToSet(answer.report.checks) :
               x.name = gitCheck => IF GivenUp(cfg, e) = {} THEN x.status = "OK"
                                    ELSE x.status = "FAIL" /\ ToSet(x.detail) = GivenUp(cfg, e)
        /\ answer.managed /\ answer.loaded.ok /\ answer.records # Unreadable =>
             \A c \in ToSet(answer.records) :
               /\ of(c) # {}
               /\ c.state = "READY" /\ c.id \in DOMAIN cfg.contexts /\ cfg.contexts[c.id] = c.members =>
                    \A x \in of(c) : x.status = "OK" => x.detail = scopes(c.members)

\* A context that is created from a branch after its repository was synced pins
\* the commit that the branch is at (README, "vacmcp repo sync fetches new
\* commits"; managed/repository.go Sync).
CreatePinsTip ==
  answer.command = "create" =>
    \A i \in DOMAIN answer.pins :
      LET p == answer.pins[i]
      IN  p.repository \in synced /\ p.ref \in Branches =>
            answer.members[i].revision = remote[p.repository][p.ref]

\* A server starts on the records that the commands wrote (config/config.go
\* Marshal: "a file Load parses back into the same configuration").
GeneratedLoads ==
  answer.command = "serve" /\ edited.spelling = {} => answer.loaded.ok
=============================================================================
