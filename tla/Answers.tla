------------------------------ MODULE Answers --------------------------------
(***************************************************************************)
(* What the tools answer: for every version of every repository that a     *)
(* context names, its call graph, its files and what was indexed of them,  *)
(* and for every request the answer the engine puts together from what the *)
(* adapters read.  Programs  *)
(* that fail and clocks that run out are QueryCall; here every program     *)
(* answers.  The versions do not change while they are asked about: a      *)
(* revision is a commit and a graph is one commit's.                       *)
(***************************************************************************)
EXTENDS CallGraph, GitQueries, CodeSearch

CONSTANTS
  Possible(_), \* Possible(w): w is a world the tools may be asked in
  Requests,    \* Requests[k]: what is asked in a world of kind k
  MaxDepth,    \* maxDepth of a walk
  IdOrder,     \* the ids of contexts, in the order they sort in
  None

ASSUME AnswersAssumption == MaxDepth \in Nat \ {0}

VARIABLES
  world,  \* its kind; scope[id], the members of a context, each a repository, a
          \* branch and a revision; log[r], graph[r][revision] and shard[r][branch]
  ask,    \* the request that is being answered
  answer

vars == <<world, ask, answer>>

\* A request has a tool, a context or two, a repository or None, and arguments.
Tools == {"list_contexts", "search_code", "trace_calls", "compare_calls", "get_code",
          "compare_code", "search_history"}
Verdicts == {"ok", "INVALID_ARGUMENT", "SYMBOL_NOT_FOUND", "SYMBOL_AMBIGUOUS"}

Graph(m) == world.graph[m.repository][m.revision]
Log(m)   == world.log[m.repository]
Tree(m)  == Log(m)[m.revision].tree

\* What Zoekt indexed of a repository; it may not have it.
Shard(m) == IF m.repository \in DOMAIN world.shard THEN world.shard[m.repository] ELSE <<>>

Refuse(verdict) == answer' = [verdict |-> verdict]
-----------------------------------------------------------------------------
(* engine/engine.go, engine/comparison.go                                  *)

\* The members of a context, none if one of them does not say what it is.
resolve(id) ==
  LET incomplete(m) == None \in {m.repository, m.branch, m.revision}
  IN  IF \E i \in DOMAIN world.scope[id] : incomplete(world.scope[id][i]) THEN <<>>
      ELSE world.scope[id]

\* Those that a request asks in, of several of one repository the first: none is
\* an invalid argument.
selectMembers(id, repository) ==
  LET members == resolve(id)
      named   == {i \in DOMAIN members : members[i].repository = repository}
  IN  IF repository = None THEN members
      ELSE IF named = {} THEN <<>> ELSE <<members[Min(named)]>>

\* The one member a request is answered in; None if it does not name one, where
\* repositoryRequired asks for a name.
member(r, side) ==
  LET members == selectMembers(r.ids[side], r.repository)
  IN  IF Len(members) = 1 THEN members[1] ELSE None

\* Mutant: a walk of no levels is let through
DepthInRange_none(r) == r.depth \in 0 .. MaxDepth

DepthInRange(r) == r.depth \in 1 .. MaxDepth

sites(E) == {e.site : e \in E}

TraceCallsIn(r) ==
  LET m == member(r, 1)
  IN  IF ~DepthInRange(r) \/ m = None THEN Refuse("INVALID_ARGUMENT")
      ELSE \E walk \in TraceCalls(Graph(m), r.symbol, r.direction, r.depth) :
             IF walk.verdict = "ok"
             THEN answer' = [verdict |-> "ok", edges |-> walk.edges, cited |-> sites(walk.edges)]
             ELSE Refuse(walk.verdict)

GetCode(r) ==
  LET m == member(r, 1)
  IN  IF m = None THEN Refuse("INVALID_ARGUMENT")
      ELSE answer' = Read(Tree(m), r.path, r.first, r.last)
-----------------------------------------------------------------------------
(* engine/compare_calls.go                                                 *)

\* Mutant: a call that moved is another call
relation_sited(e) ==
  [caller |-> e.caller, callee |-> e.callee, path |-> e.site.path, line |-> e.site.line]

\* A call is who calls whom, in which file; its line is not part of it.
relation(e) == [caller |-> e.caller, callee |-> e.callee, path |-> e.site.path]

group(E) == {relation(e) : e \in E}
evidenceOf(E, x) == {e.site : e \in {f \in E : relation(f) = x}}

\* The two walks against each other; a side without the symbol has no calls.
compared(from, to) ==
  LET report(X) == {[call |-> x, from |-> evidenceOf(from.edges, x),
                     to |-> evidenceOf(to.edges, x)] : x \in X}
      F == group(from.edges)
      T == group(to.edges)
  IN  [verdict |-> "ok",
       present |-> <<from.verdict = "ok", to.verdict = "ok">>,
       cited |-> <<sites(from.edges), sites(to.edges)>>,
       unchanged |-> report(F \cap T), removed |-> report(F \ T), added |-> report(T \ F)]

CompareCalls(r) ==
  LET f == member(r, 1)
      t == member(r, 2)
      walk(m) == TraceCalls(Graph(m), r.symbol, r.direction, r.depth)
  IN  IF ~DepthInRange(r) \/ None \in {f, t} THEN Refuse("INVALID_ARGUMENT")
      ELSE IF f.repository # t.repository THEN Refuse("INVALID_ARGUMENT")
      ELSE \E from \in walk(f), to \in walk(t) :
             CASE "SYMBOL_AMBIGUOUS" \in {from.verdict, to.verdict} -> Refuse("SYMBOL_AMBIGUOUS")
               [] {from.verdict, to.verdict} = {"SYMBOL_NOT_FOUND"} -> Refuse("SYMBOL_NOT_FOUND")
               [] OTHER -> answer' = compared(from, to)
-----------------------------------------------------------------------------
(* engine/engine.go, engine/compare_code.go, engine/search_history.go,     *)
(* evidence/evidence.go                                                    *)

\* Contexts in the order of their ids, each as its members; the members of a
\* context that has one are not a list of their own.
ListContexts ==
  LET listed == SelectSeq(IdOrder, LAMBDA id : id \in DOMAIN world.scope)
  IN  answer' = [verdict |-> "ok",
                 contexts |-> [i \in DOMAIN listed |->
                   [id |-> listed[i], flat |-> Len(world.scope[listed[i]]) = 1,
                    members |-> world.scope[listed[i]]]]]

CompareCode(r) ==
  LET f == member(r, 1)
      t == member(r, 2)
      diff == Diff(Tree(f), Tree(t), r.path)
  IN  IF None \in {f, t} THEN Refuse("INVALID_ARGUMENT")
      ELSE IF f.repository # t.repository THEN Refuse("INVALID_ARGUMENT")
      ELSE IF diff.verdict # "ok" THEN Refuse(diff.verdict)
      ELSE answer' = [verdict |-> "ok", change |-> diff.change, hunks |-> diff.hunks,
                      binary |-> diff.binary,
                      present |-> <<diff.change # "ADDED", diff.change # "REMOVED">>]

\* The citations of each member, under its repository if there are several.
wire(members, cited) ==
  FlattenSeq([i \in DOMAIN members |->
    [j \in DOMAIN cited[i] |->
      [x \in DOMAIN cited[i][j] \cup {"repository"} |->
        IF x # "repository" THEN cited[i][j][x]
        ELSE IF Len(members) = 1 THEN None ELSE members[i].repository]]])

\* Every member in turn.  The tool attributes a match as wire does a citation.
SearchCode(r) ==
  LET members == selectMembers(r.ids[1], r.repository)
      one(m)  == Search(Shard(m), m.branch, r.query)
  IN  IF members = <<>> \/ ~scopedQuery(r.query) THEN Refuse("INVALID_ARGUMENT")
      ELSE \E found \in [DOMAIN members -> UNION {one(m) : m \in ToSet(members)}] :
             /\ \A i \in DOMAIN members : found[i] \in one(members[i])
             /\ answer' = [verdict |-> "ok", evidence |-> wire(members, found)]

SearchHistoryIn(r) ==
  LET members == selectMembers(r.ids[1], r.repository)
      found == [i \in DOMAIN members |->
                  SearchHistory(Log(members[i]), members[i].revision, r)]
      commits(i) == [j \in DOMAIN found[i].entries |->
                       [repository |-> members[i].repository,
                        commit |-> found[i].entries[j].commit,
                        path |-> found[i].entries[j].path]]
      paths(i) == [j \in DOMAIN found[i].entries |-> [path |-> found[i].entries[j].path]]
  IN  IF members = <<>> \/ r.limit < 0 THEN Refuse("INVALID_ARGUMENT")
      ELSE answer' = [verdict |-> "ok",
                      commits |-> FlattenSeq([i \in DOMAIN members |-> commits(i)]),
                      evidence |-> wire(members, [i \in DOMAIN members |-> paths(i)])]
-----------------------------------------------------------------------------
\* How many contexts a tool is asked in.
Sides(tool) ==
  CASE tool = "list_contexts" -> 0
    [] tool \in {"compare_calls", "compare_code"} -> 2
    [] OTHER -> 1

\* What was indexed of a branch is the version that tree is.
IsIndexed(shard, branch, tree) ==
  /\ IsFiniteSet(DOMAIN shard)
  /\ branch \in DOMAIN shard \cap DOMAIN Selects
  /\ DOMAIN shard[branch] = DOMAIN tree /\ DOMAIN tree \subseteq ToSet(PathOrder)
  /\ \A p \in DOMAIN tree :
       /\ tree[p].lines \in Seq(ToSet(tree[p].lines))
       /\ shard[branch][p] = [n \in DOMAIN tree[p].lines |-> tree[p].lines[n].text]

\* A request names contexts there are, and paths; a context does not name a
\* repository twice, and a member that says what it is has a graph, a log in
\* which each commit is after its parents, and, if its repository was indexed at
\* all, its version in the shard.
WorldOK ==
  /\ \A r \in Requests[world.kind] :
       /\ \A side \in 1 .. Sides(r.tool) : r.ids[side] \in DOMAIN world.scope
       /\ r.tool = "search_history" => r.limit \in Int /\ IsPath(r.path)
       /\ r.tool = "search_code" => r.query \in Seq(ToSet(r.query))
  /\ \A id \in DOMAIN world.scope :
       /\ world.scope[id] \in Seq(ToSet(world.scope[id]))
       /\ \A i, j \in DOMAIN resolve(id) :
            resolve(id)[i].repository = resolve(id)[j].repository => i = j
       /\ \A i \in DOMAIN resolve(id) :
            LET m == resolve(id)[i]
            IN  /\ IsGraph(Graph(m))
                /\ m.revision \in Nat \ {0}
                /\ \A c \in 1 .. m.revision : Log(m)[c].parents \subseteq 1 .. c - 1
                /\ m.repository \in DOMAIN world.shard => IsIndexed(Shard(m), m.branch, Tree(m))

Init ==
  /\ Possible(world)
  /\ WorldOK
  /\ ask = None
  /\ answer = None

Asked(tool) == {r \in Requests[world.kind] : r.tool = tool}

Ask(r) ==
  /\ ask = None
  /\ ask' = r
  /\ UNCHANGED world

\* The answer is sent, and another request may come.
Sent ==
  /\ ask # None
  /\ ask' = None
  /\ answer' = None
  /\ UNCHANGED world

(* tools: each decodes a request, asks the engine and sends what it        *)
(* answers with the citations it is based on.                              *)
list_contexts  == \E r \in Asked("list_contexts") : Ask(r) /\ ListContexts
search_code    == \E r \in Asked("search_code") : Ask(r) /\ SearchCode(r)
trace_calls    == \E r \in Asked("trace_calls") : Ask(r) /\ TraceCallsIn(r)
compare_calls  == \E r \in Asked("compare_calls") : Ask(r) /\ CompareCalls(r)
get_code       == \E r \in Asked("get_code") : Ask(r) /\ GetCode(r)
compare_code   == \E r \in Asked("compare_code") : Ask(r) /\ CompareCode(r)
search_history == \E r \in Asked("search_history") : Ask(r) /\ SearchHistoryIn(r)

Next ==
  \/ list_contexts \/ search_code \/ get_code \/ search_history
  \/ trace_calls \/ compare_calls \/ compare_code
  \/ Sent

Spec == Init /\ [][Next]_vars
-----------------------------------------------------------------------------
(* Properties                                                              *)

Answered(tool) == ask # None /\ ask.tool = tool /\ answer.verdict = "ok"

\* CBM tells any two functions of g apart by name, and no list of them was cut
\* off within depth of n.
Plain(g, n, direction, depth) ==
  /\ \A x, y \in g.has : Fold(g.name[x]) = Fold(g.name[y]) => x = y
  /\ Cardinality(Reached(g, n, direction, depth)[depth]) <= MaxNodes

\* Those of calls that lead from a function to one that is a step farther from
\* root, as a walk would report them.
Outward(g, root, direction, depth, calls) ==
  LET within == Reached(g, root, direction, depth)
      near(p) == IF direction = "callees" THEN p[1] ELSE p[2]
      far(p)  == IF direction = "callees" THEN p[2] ELSE p[1]
      step(p) == /\ {near(p), far(p)} \subseteq within[depth]
                 /\ Distance(within, far(p)) = Distance(within, near(p)) + 1
  IN  {[caller |-> g.name[p[1]], callee |-> g.name[p[2]], site |-> g.at[p[1]]] :
         p \in {c \in calls : step(c)}}

\* A walk has the calls that lead a step farther out and, taken for calls the
\* other way round, those that lead a step back.
Walk(g, root, direction, depth) ==
  Outward(g, root, direction, depth, g.calls \cup {<<p[2], p[1]>> : p \in g.calls})

Makes(g, x, y) == \E p \in g.calls : g.name[p[1]] = x /\ g.name[p[2]] = y

\* What an edge x may claim: a call there is or, beyond the first step, one
\* there is the other way round.
Claims(g, x, depth) ==
  Makes(g, x.caller, x.callee) \/ (depth > 1 /\ Makes(g, x.callee, x.caller))

\* The places a function of that name is declared at.
DeclaredAt(g, x) == {g.at[n] : n \in {m \in g.has : g.name[m] = x}}

\* A walk goes no deeper than a walk may and cites the declaration of each
\* caller it names, which does call the callee - or, more than one step from the
\* symbol, is called by it: "a connection that crosses one hop level is a call in
\* the direction of the walk [...] so nothing is emitted that CBM did not assert"
\* (cbm.go:390) is not so of a call back to a function that is reached by another
\* way.  Unless names are alike or a list was cut off the walk is exactly the
\* calls between functions whose distances differ by one, each as one that leads
\* out: a call between two at one distance is not in it
\* (adapters/cbm/cbm.go, locate and edges).
WalkTrue ==
  Answered("trace_calls") =>
    LET g    == Graph(member(ask, 1))
        root == CHOOSE n \in candidates(g, ask.symbol) : TRUE
    IN  /\ ask.depth \in 1 .. MaxDepth
        /\ answer.cited = {e.site : e \in answer.edges}
        /\ \A e \in answer.edges : Claims(g, e, ask.depth) /\ e.site \in DeclaredAt(g, e.caller)
        /\ Plain(g, root, ask.direction, ask.depth) =>
             answer.edges = Walk(g, root, ask.direction, ask.depth)

\* A comparison reports as unchanged the calls that the walks of both versions
\* have, as removed and added those that one of them has - which "Removed reports
\* the relations only the from version has" (compare_calls.go:117) is not: the
\* other version may make the same call between functions that have come to be
\* at one distance, or too far out, and a call that is reported may be one the
\* other way round.  However long the lists and whatever the names, a call is
\* reported once, under the versions whose walk has it and where that version
\* declares the caller (engine/compare_calls.go, CompareCalls and group).
ComparisonTrue ==
  Answered("compare_calls") =>
    LET g(side) == Graph(member(ask, side))
        found(side) == candidates(g(side), ask.symbol)
        walk(side) ==
          {<<e.caller, e.callee, e.site.path>> :
             e \in UNION {Walk(g(side), n, ask.direction, ask.depth) : n \in found(side)}}
        key(x)  == <<x.caller, x.callee, x.path>>
        told(X) == {key(c.call) : c \in X}
        sited(side, x, cites) ==
          /\ cites # {} => Claims(g(side), x, ask.depth)
          /\ \A at \in cites : at.path = x.path /\ at \in DeclaredAt(g(side), x.caller)
        all == answer.unchanged \cup answer.removed \cup answer.added
    IN  /\ \A side \in 1 .. 2 : answer.present[side] = (found(side) # {})
        /\ (\A side \in 1 .. 2 : \A n \in found(side) : Plain(g(side), n, ask.direction, ask.depth))
             => /\ told(answer.unchanged) = walk(1) \cap walk(2)
                /\ told(answer.removed) = walk(1) \ walk(2)
                /\ told(answer.added) = walk(2) \ walk(1)
        /\ \A c, d \in all : key(c.call) = key(d.call) => c = d
        /\ \A c \in all : sited(1, c.call, c.from) /\ sited(2, c.call, c.to)
        /\ \A c \in answer.unchanged : c.from # {} /\ c.to # {}
        /\ \A c \in answer.removed : c.from # {} /\ c.to = {}
        /\ \A c \in answer.added : c.from = {} /\ c.to # {}

\* What is said to have happened to a file is what happened to it
\* (adapters/git/diff.go, Diff, emptyDiff and parseDiff).
ChangeTrue ==
  (Answered("compare_code") /\ ask.path \in ToSet(FileOrder)) =>
    LET had(side) == ask.path \in DOMAIN Tree(member(ask, side))
        same == Tree(member(ask, 1))[ask.path] = Tree(member(ask, 2))[ask.path]
    IN  /\ answer.present = <<had(1), had(2)>>
        /\ answer.change = CASE ~had(1) -> "ADDED"
                              [] ~had(2) -> "REMOVED"
                              [] OTHER -> IF same THEN "UNCHANGED" ELSE "MODIFIED"

\* The lines of a hunk that belong to a side are the lines get_code reads there
\* at the range the hunk gives for it; a side that has none has no lines; and a
\* text that was modified has a hunk (adapters/git/diff.go, parseHunkRange).
HunksCite ==
  (Answered("compare_code") /\ ask.path \in ToSet(FileOrder)) =>
    LET of(h, kind) == SelectSeq(h.lines, LAMBDA l : l.kind \in {"CONTEXT", kind})
        reads(side, range, lines) ==
          IF range[2] = 0 THEN lines = <<>>
          ELSE LET code == Read(Tree(member(ask, side)), ask.path,
                                range[1], range[1] + range[2] - 1)
               IN  /\ code.verdict = "ok"
                   /\ [i \in DOMAIN lines |-> lines[i].content]
                        = [i \in DOMAIN code.content |-> code.content[i].text]
    IN  /\ \A i \in DOMAIN answer.hunks :
             LET h == answer.hunks[i]
             IN  reads(1, h.old, of(h, "REMOVED")) /\ reads(2, h.new, of(h, "ADDED"))
        /\ answer.change = "MODIFIED" => answer.binary \/ answer.hunks # <<>>

\* A comparison of a file is true of both versions, and so is what it cites
\* (adapters/git/diff.go).
DiffTrue == ChangeTrue /\ HunksCite

\* The occurrences a history is about: commits of the version that was asked
\* in, never a later one, with the paths they changed.
Occurs(log, revision, r) ==
  {o \in Reachable(log, revision) \X ToSet(FileOrder) :
     /\ Cardinality(log[o[1]].parents) <= 1
     /\ Touches(log, o[1], o[2])
     /\ r.query # "" => log[o[1]].message = r.query
     /\ r.path # "" => o[2] = r.path
     /\ r.symbol # "" => Pickaxe(log, o[1], o[2], r.symbol)}

\* The part of an answer that is about member m.
PartOf(commits, m) ==
  Keep(commits, {i \in DOMAIN commits : commits[i].repository = m.repository})

\* A history has nothing that is not in it, nothing twice and, newest first,
\* nothing left out that is newer than what was kept, and nothing at all unless
\* the limit was reached.
PartTrue(part, log, revision, r) ==
  LET listed  == {<<part[k].commit, part[k].path>> : k \in DOMAIN part}
      printed == {<<o[1], Printed[o[2]]>> : o \in Occurs(log, revision, r)}
      limit   == IF r.limit = 0 THEN DefaultLimit ELSE r.limit
  IN  /\ listed \subseteq printed
      /\ \A i, j \in DOMAIN part : i < j =>
           part[i] # part[j] /\ part[i].commit >= part[j].commit
      /\ Len(part) <= limit
      /\ (r.path \in DOMAIN Printed => Printed[r.path] = r.path) =>
           \A o \in printed \ listed : Len(part) = limit /\ \A l \in listed : l[1] >= o[1]

\* Each entry is cited where it is from, and the members come in their order.
CitesTrue(members, commits, evidence) ==
  /\ Len(evidence) = Len(commits)
  /\ \A i \in DOMAIN commits :
       /\ evidence[i].path = commits[i].path
       /\ Len(members) > 1 => evidence[i].repository = commits[i].repository
       /\ i > 1 => \A a, b \in DOMAIN members :
            (members[a].repository = commits[i - 1].repository
               /\ members[b].repository = commits[i].repository) => a <= b

\* The answer about a history is that of each member in turn, and its citations
\* say where each occurrence is from (adapters/git/history.go, SearchHistory and
\* parseHistory; engine/search_history.go).
HistoryTrue ==
  Answered("search_history") =>
    LET members == selectMembers(ask.ids[1], ask.repository)
    IN  /\ \A k \in DOMAIN members : LET m == members[k] IN
             PartTrue(PartOf(answer.commits, m), Log(m), m.revision, ask)
        /\ CitesTrue(members, answer.commits, answer.evidence)

\* How many parentheses are open after the first n characters of q.
Depth(q, n) == Cardinality({i \in 1 .. n : q[i] = "("}) - Cardinality({i \in 1 .. n : q[i] = ")"})

\* A query that no backslash makes something else of is closed in itself.
Plainly(q) == "\\" \notin ToSet(q)
Closed(q)  == Depth(q, Len(q)) = 0 /\ \A n \in DOMAIN q : Depth(q, n) >= 0

\* What is reported of a version are lines of it that the query finds, as they
\* are in it, each of them once, and if all fit every line that it finds.
MatchesTrue(part, tree, q, all) ==
  /\ \A i \in DOMAIN part :
       /\ part[i].path \in DOMAIN tree /\ part[i].line \in DOMAIN tree[part[i].path].lines
       /\ part[i].snippet = tree[part[i].path].lines[part[i].line].text
       /\ Finds(q, part[i].snippet)
  /\ \A i, j \in DOMAIN part :
       (part[i].path = part[j].path /\ part[i].line = part[j].line) => i = j
  /\ all => \A p \in DOMAIN tree : \A n \in DOMAIN tree[p].lines :
       Finds(q, tree[p].lines[n].text) =>
         \E i \in DOMAIN part : part[i].path = p /\ part[i].line = n

\* The citations that are about m: those under its repository, and all if it is
\* the only one.
About(evidence, members, m) ==
  {i \in DOMAIN evidence : evidence[i].repository = m.repository \/ members = {m}}

\* A search is answered in the members that list_contexts lists for the context,
\* or in the one of them it names.  What it reports are lines of the version
\* that is pinned, each of them once, and every line of it that the query finds
\* - unless Zoekt had more documents to report than it may, which branches of a
\* longer name count towards; a citation says where it is from if there is a
\* choice.  A query that is not closed in itself is refused
\* (adapters/zoekt/zoekt.go, Search and balanced; engine/engine.go, SearchCode).
SearchTrue ==
  (ask # None /\ ask.tool = "search_code") =>
    LET listed  == resolve(ask.ids[1])
        members == IF ask.repository = None THEN ToSet(listed)
                   ELSE {m \in ToSet(listed) : m.repository = ask.repository}
        whole(m) == m.repository \in DOMAIN world.shard
                    /\ Cardinality(Found(Shard(m), m.branch, ask.query)) <= MaxFiles
    IN  /\ answer.verdict = "ok" =>
             /\ members # {}
             /\ Plainly(ask.query) => Closed(ask.query)
             /\ \A i \in DOMAIN answer.evidence : \E m \in members :
                  {n \in members : i \in About(answer.evidence, members, n)} = {m}
             /\ \A m \in members :
                  MatchesTrue(Keep(answer.evidence, About(answer.evidence, members, m)),
                              Tree(m), ask.query, whole(m))
        /\ answer.verdict # "ok" =>
             \/ members = {} \/ ask.query = <<>>
             \/ ~(Plainly(ask.query) /\ Closed(ask.query))

\* A history that is asked for a file, with room for all of it, has the commits
\* that changed the file: the path "restricts both the walk and the reported
\* entries to that path" (README, adapters/git/history.go).
PathHistory ==
  (Answered("search_history") /\ ask.path \in ToSet(FileOrder) /\ ask.limit = 0) =>
    LET members == selectMembers(ask.ids[1], ask.repository)
    IN  \A k \in DOMAIN members :
          {o[1] : o \in Occurs(Log(members[k]), members[k].revision, ask)} \subseteq
            {answer.commits[i].commit :
               i \in {j \in DOMAIN answer.commits :
                        answer.commits[j].repository = members[k].repository}}
=============================================================================
