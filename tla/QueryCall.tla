------------------------------ MODULE QueryCall ------------------------------
(***************************************************************************)
(* One query through the engine, the resolver and the adapters: the        *)
(* programs it runs one after another, what it concludes from the ones     *)
(* that fail, and the three clocks that may end it meanwhile.              *)
(*                                                                         *)
(* A program answers, or is killed because the context it was given has    *)
(* ended, or never comes back.  The code sees of the last two only that    *)
(* there is no answer.  Requests are those that validation passes: what it *)
(* refuses is refused before any program runs.  Whether the lines that are *)
(* asked for are in the file is known only when the file has been read.    *)
(***************************************************************************)
EXTENDS Naturals, Sequences, SequencesExt

CONSTANTS
  Contexts, \* the configured context ids
  Members,  \* repositories pinned to a revision, on a branch
  Scope,    \* Scope[id]: the members of a context, in order
  Repos,
  RepoOf,   \* RepoOf[m]: its repository
  Graphed,  \* the members with a graph_ref
  Loose,    \* Loose[m]: what a branch filter for m lets through, as substrings
  Commits,
  Text,     \* Text[c]: the file that is asked about, at c
  NoFile,   \* it does not exist there
  Lost,     \* contents the object database does not have
  Short,    \* contents that end before the lines that are asked for
  Nothing,  \* a revision that names no commit
  Cases,    \* <<w, q>>: what git, zoekt and CBM are like, and what is asked
  None,
  Failed,   \* no answer, or an answer that is an error
  MaxMoves  \* bound: revisions that come to name another commit

ASSUME ConstantsAssumption ==
  /\ Scope \in [Contexts -> Seq(Members)]
  /\ \A id \in Contexts : Scope[id] # <<>>
  /\ RepoOf \in [Members -> Repos]
  /\ Graphed \subseteq Members
  /\ Loose \in [Members -> SUBSET Members]
  /\ \A m \in Members : m \in Loose[m]
  \* config.go, workspace: a context names a repository once.
  /\ \A id \in Contexts : \A i, j \in DOMAIN Scope[id] :
       RepoOf[Scope[id][i]] = RepoOf[Scope[id][j]] => i = j
  /\ Nothing \notin Commits
  /\ MaxMoves \in Nat

SingleTools == {"get_code", "trace_calls"}
PluralTools == {"search_code", "search_history"}
PairTools   == {"compare_code", "compare_calls"}

\* What is found where a symbol, and a search, is asked for.
Symbols  == {"absent", "ambiguous", "overloaded", "variable", "leaf", "function"}
Searches == {"answers", "unreachable", "rejects", "broken", "garbled"}

ASSUME CasesAssumption == \A case \in Cases :
  /\ case[1] \in [readable : SUBSET Repos, head : [Repos -> Commits],
                  symbol : [Members -> Symbols], zoekt : Searches, cbm : BOOLEAN,
                  built : SUBSET {"search", "source", "graph"},
                  tip : [Members -> Commits \cup {Nothing}]]
  /\ case[2] \in [tool : SingleTools \cup PluralTools \cup PairTools,
                  ids : Seq(Contexts \cup {None}), repo : Repos \cup {None}]
  /\ Len(case[2].ids) = IF case[2].tool \in PairTools THEN 2 ELSE 1

VARIABLES
  \* Outside
  world,  \* readable, head, symbol, zoekt, cbm, built
  tip,    \* tip[m]: the commit the revision of m names now
  tips,   \* tips[m]: the commits it has named since the query began
  moves,  \* of MaxMoves
  \* The clocks
  parent, \* how the caller's context ended
  order,  \* how the context of the current operation ended, first cause first
  \* The query
  req, pc, out, \* what is asked, the program that runs, its answer
  side,   \* which of the contexts of a request is being resolved
  scope,  \* the members the query is answered in
  k,      \* the member being asked about
  rev,    \* the commits pinned for it
  resp,   \* what client.Do returned for it, before the body is read
  got,    \* the answers so far
  result

outside == <<world, tip, tips, moves>>
query   == <<req, side, scope, k, rev, resp, got, result>>
vars    == <<outside, parent, order, query, pc, out>>

ResolveCommands == {"Resolve:rev-parse", "Resolve:git-dir"}
GitCommands == {"rev-parse", "git-dir", "show", "ls-tree", "diff", "log",
                "Verify:rev-parse", "Verify:git-dir", "Verify:HEAD"}
Commands == ResolveCommands \cup GitCommands
              \cup {"Do", "Decode", "search_graph", "trace_path", "locate"}

InFlight == pc \notin {"idle", "done"}

Clocks == {"cancel", "deadline", "budget"}
Codes  == {"answer", "CONTEXT_NOT_FOUND", "REPOSITORY_NOT_FOUND", "REVISION_NOT_FOUND",
           "INVALID_ARGUMENT", "SOURCE_MISMATCH", "SEARCH_PROVIDER_UNAVAILABLE",
           "GRAPH_PROVIDER_UNAVAILABLE", "SYMBOL_NOT_FOUND", "SYMBOL_AMBIGUOUS",
           "OPERATION_TIMEOUT", "Canceled", "DeadlineExceeded"}

\* No answer is none of the answers.
ASSUME NothingSaid ==
  /\ None # Failed
  /\ \A no \in {None, Failed} :
       /\ no \notin Commits
       /\ \A c \in Commits : no # Text[c]
       /\ \A m \in Members : no # Loose[m]
       /\ no \notin Short \cup Clocks \cup Codes \cup Symbols \cup Searches
       /\ no \notin {"yes", "entry", "none", "nodes", "empty", "ADDED", "REMOVED", "MODIFIED"}
-----------------------------------------------------------------------------
(* internal/deadline                                                       *)

\* The budget of an operation on top of the caller's context.
With == order' = IF parent = None THEN <<>> ELSE <<parent>>

\* context.Cause: the first reason counts.
Cause == Head(order)

\* Mutant: the caller's context is asked instead of the cause.
Ended_parent ==
  IF order = <<>> THEN None
  ELSE CASE parent = "cancel"   -> "Canceled"
         [] parent = "deadline" -> "DeadlineExceeded"
         [] OTHER               -> "OPERATION_TIMEOUT"

Ended ==
  IF order = <<>> THEN None
  ELSE CASE Cause = "budget"   -> "OPERATION_TIMEOUT"
         [] Cause = "cancel"   -> "Canceled"
         [] Cause = "deadline" -> "DeadlineExceeded"

Override(verdict) == IF Ended = None THEN verdict ELSE Ended

\* The caller cancels or its deadline passes.
CallerEnds(cause) ==
  /\ InFlight /\ parent = None
  /\ parent' = cause
  /\ order'  = Append(order, cause)
  /\ UNCHANGED <<outside, query, pc, out>>

\* Mutant: resolving a context is not bounded.
Budgeted_notResolve == Commands \ ResolveCommands

Budgeted == Commands

\* The timer of the operation; it is stopped once the context has ended.
BudgetExpires ==
  /\ pc \in Budgeted /\ order = <<>>
  /\ order' = <<"budget">>
  /\ UNCHANGED <<outside, parent, query, pc, out>>
-----------------------------------------------------------------------------
(* The programs                                                            *)

Readable(m) == RepoOf[m] \in world.readable

\* The member the running program is asked about.
Asked == IF pc \in ResolveCommands THEN Scope[req.ids[side]][k] ELSE scope[k]

revParse(m) == IF Readable(m) /\ tip[m] # Nothing THEN tip[m] ELSE Failed
gitDir(m)   == IF Readable(m) THEN "yes" ELSE Failed
show(c)     == IF Text[c] \in Lost \cup {NoFile} THEN Failed ELSE Text[c]
lsTree(c)   == IF Text[c] = NoFile THEN "none" ELSE "entry"

\* Equal blobs are not read, different ones are.
gitDiff(c, d) ==
  IF Text[c] = Text[d] THEN "empty"
  ELSE IF {Text[c], Text[d]} \cap Lost # {} THEN Failed
  ELSE CASE Text[c] = NoFile -> "ADDED"
         [] Text[d] = NoFile -> "REMOVED"
         [] OTHER            -> "MODIFIED"

Answer(program, m) ==
  CASE program \in {"Resolve:rev-parse", "rev-parse", "Verify:rev-parse"} -> revParse(m)
    [] program \in {"Resolve:git-dir", "git-dir", "Verify:git-dir"} -> gitDir(m)
    [] program = "Verify:HEAD"  -> IF Readable(m) THEN world.head[RepoOf[m]] ELSE Failed
    [] program = "show"         -> IF Readable(m) THEN show(rev[1]) ELSE Failed
    [] program = "ls-tree"      -> IF Readable(m) THEN lsTree(rev[1]) ELSE Failed
    [] program = "diff"         -> IF Readable(m) THEN gitDiff(rev[1], rev[2]) ELSE Failed
    [] program = "log"          -> IF Readable(m) THEN rev[1] ELSE Failed
    [] program = "Do"           -> IF world.zoekt = "unreachable" THEN Failed ELSE world.zoekt
    [] program = "Decode"       -> IF world.zoekt = "garbled" THEN Failed ELSE Loose[m]
    [] program = "search_graph" -> IF world.cbm THEN world.symbol[m] ELSE Failed
    [] program = "trace_path"   -> IF world.cbm THEN world.symbol[m] ELSE Failed
    [] program = "locate"       -> IF world.cbm THEN "nodes" ELSE Failed

Running == pc \in Commands /\ out = None

Answers ==
  /\ Running
  /\ out' = Answer(pc, Asked)
  /\ UNCHANGED <<outside, parent, order, query, pc>>

\* exec.CommandContext kills it, the HTTP request is abandoned, the wait ends.
Killed ==
  /\ Running /\ order # <<>>
  /\ out' = Failed
  /\ UNCHANGED <<outside, parent, order, query, pc>>

\* Somebody pushes to or fetches into a repository a static configuration names.
Moves(m, c) ==
  /\ InFlight /\ moves < MaxMoves /\ tip[m] \notin {Nothing, c}
  /\ moves' = moves + 1
  /\ tip'   = [tip EXCEPT ![m] = c]
  /\ tips'  = [tips EXCEPT ![m] = @ \cup {c}]
  /\ UNCHANGED <<world, parent, order, query, pc, out>>
-----------------------------------------------------------------------------
(* How a step goes on                                                      *)

Run(program) == pc' = program /\ out' = None

\* The same operation runs another program.
Then(program) ==
  /\ Run(program)
  /\ UNCHANGED <<outside, parent, order, query>>

Return(code) ==
  /\ result' = code /\ pc' = "done" /\ out' = None
  /\ UNCHANGED <<outside, parent, order, req, side, scope, k, rev, resp, got>>

\* The provider method the engine calls for a member, or for a pair of them.
First == [search_code |-> "Do", search_history |-> "rev-parse", get_code |-> "rev-parse",
          compare_code |-> "rev-parse", trace_calls |-> "search_graph",
          compare_calls |-> "search_graph"]

Call(i) ==
  /\ With
  /\ k' = i
  /\ resp' = None
  /\ Run(First[req.tool])

\* What the provider said of scope[k] is kept, and the next member is asked.
Got(answer) ==
  /\ got' = Append(got, answer)
  /\ UNCHANGED <<outside, parent, req, side, scope, rev>>
  /\ IF k < Len(scope)
     THEN Call(k + 1) /\ UNCHANGED result
     ELSE /\ result' = IF req.tool = "compare_calls" /\ Range(got') = {"absent"}
                       THEN "SYMBOL_NOT_FOUND" ELSE "answer"
          /\ pc' = "done" /\ out' = None
          /\ UNCHANGED <<order, k, resp>>

Is(program) == pc = program /\ out # None
-----------------------------------------------------------------------------
(* The engine: resolve, select, call                                       *)

Begin ==
  /\ pc = "idle"
  /\ pc' = "Resolve"
  /\ UNCHANGED <<outside, parent, order, query, out>>

\* Resolver.Resolve looks the id up.
Resolve ==
  /\ pc = "Resolve"
  /\ \/ /\ req.ids[side] \notin Contexts
        /\ Return("CONTEXT_NOT_FOUND")
     \/ /\ req.ids[side] \in Contexts
        /\ With
        /\ k' = 1
        /\ Run("Resolve:rev-parse")
        /\ UNCHANGED <<outside, parent, req, side, scope, rev, resp, got, result>>

\* selectMembers: every member, or the one the request names.
selectMembers(id) ==
  LET named == {m \in Range(Scope[id]) : RepoOf[m] = req.repo}
  IN IF req.repo = None THEN Scope[id]
     ELSE IF named = {} THEN <<>> ELSE <<CHOOSE m \in named : TRUE>>

\* The provider a tool needs, and what is said if the server has none.
Needs == [search_code |-> "search", search_history |-> "source", get_code |-> "source",
          compare_code |-> "source", trace_calls |-> "graph", compare_calls |-> "graph"]
Unavailable == [search |-> "SEARCH_PROVIDER_UNAVAILABLE", source |-> "REPOSITORY_NOT_FOUND",
                graph |-> "GRAPH_PROVIDER_UNAVAILABLE"]

\* The members are chosen; the first provider call.  A source provider that has
\* no history, or cannot compare, is refused here too; the git adapter has both.
Dispatch(members) ==
  IF req.tool \in PairTools /\ RepoOf[members[1]] # RepoOf[Last(members)]
  THEN Return("INVALID_ARGUMENT")
  ELSE IF Needs[req.tool] \notin world.built
  THEN Return(Unavailable[Needs[req.tool]])
  ELSE IF Needs[req.tool] = "graph" /\ ~(Range(members) \subseteq Graphed)
  THEN Return("INVALID_ARGUMENT")
  ELSE /\ scope' = members
       /\ Call(1)
       /\ UNCHANGED <<outside, parent, req, side, rev, got, result>>

Select ==
  LET chosen == selectMembers(req.ids[side])
  IN IF chosen = <<>> \/ (req.tool \notin PluralTools /\ Len(chosen) # 1)
     THEN Return("INVALID_ARGUMENT")
     ELSE IF side < Len(req.ids)
     THEN /\ side'  = side + 1
          /\ scope' = chosen
          /\ pc' = "Resolve" /\ out' = None
          /\ UNCHANGED <<outside, parent, order, req, k, rev, resp, got, result>>
     ELSE Dispatch(scope \o chosen)

\* Resolver.Resolve: every member has a readable repository and a revision.
ResolveMember ==
  /\ Is("Resolve:rev-parse")
  /\ \/ /\ out # Failed
        /\ IF k < Len(Scope[req.ids[side]])
           THEN /\ k' = k + 1
                /\ Run(pc)
                /\ UNCHANGED <<outside, parent, order, req, side, scope, rev, resp, got, result>>
           ELSE Select
     \/ /\ out = Failed
        /\ IF Ended # None THEN Return(Ended) ELSE Then("Resolve:git-dir")

ResolveFailure ==
  /\ Is("Resolve:git-dir")
  /\ Return(Override(IF out = Failed THEN "REPOSITORY_NOT_FOUND" ELSE "REVISION_NOT_FOUND"))
-----------------------------------------------------------------------------
(* adapters/git                                                            *)

\* What the pinned commits are asked for.
Ask == [get_code |-> "show", search_history |-> "log", compare_code |-> "diff"]

\* A diff pins both sides, the others the member they ask about.
Pin(commit) == rev' = [rev EXCEPT ![IF req.tool = "compare_code" THEN k ELSE 1] = commit]

\* Provider.resolve, once per side for a diff.
resolve ==
  /\ Is("rev-parse") /\ out # Failed
  /\ Pin(out)
  /\ IF req.tool = "compare_code" /\ k = 1
     THEN k' = 2 /\ Run("rev-parse")
     ELSE Run(Ask[req.tool]) /\ UNCHANGED k
  /\ UNCHANGED <<outside, parent, order, req, side, scope, resp, got, result>>

resolveFails ==
  /\ Is("rev-parse") /\ out = Failed
  /\ Then("git-dir")

\* Mutant: the diagnostic is believed although it was killed.
resolveVerdict_believed ==
  /\ Is("git-dir")
  /\ Return(IF out = Failed THEN "REPOSITORY_NOT_FOUND" ELSE "REVISION_NOT_FOUND")

\* The second program has the last word, if it had one.
resolveVerdict ==
  /\ Is("git-dir")
  /\ Return(Override(IF out = Failed THEN "REPOSITORY_NOT_FOUND" ELSE "REVISION_NOT_FOUND"))

\* Mutant: what is left of a file that ends too early is what was read.
Read_clamps ==
  /\ Is("show")
  /\ \/ out # Failed /\ Got(out)
     \/ out = Failed /\ IF Ended # None THEN Return(Ended) ELSE Then("ls-tree")

\* A range that reaches beyond the last line of what was read is refused.
Read ==
  /\ Is("show")
  /\ \/ out \notin Short \cup {Failed} /\ Got(out)
     \/ out \in Short /\ Return("INVALID_ARGUMENT")
     \/ out = Failed /\ IF Ended # None THEN Return(Ended) ELSE Then("ls-tree")

\* readFailure and emptyDiff: does the tree have the file?
lsTreeVerdict ==
  /\ Is("ls-tree")
  /\ IF out \in {Failed, "none"} THEN Return(Override("INVALID_ARGUMENT"))
     ELSE IF req.tool = "compare_code" THEN Got("UNCHANGED")
     ELSE Then("Verify:rev-parse")

\* resolver.VerifyWorktree: what the revision names now ...
VerifyDeclared ==
  /\ Is("Verify:rev-parse")
  /\ \/ /\ out = Failed
        /\ Then("Verify:git-dir")
     \/ /\ out # Failed
        /\ rev' = [rev EXCEPT ![2] = out]
        /\ Run("Verify:HEAD")
        /\ UNCHANGED <<outside, parent, order, req, side, scope, k, resp, got, result>>

VerifyFailure ==
  /\ Is("Verify:git-dir")
  /\ Return(Override(IF out = Failed THEN "REPOSITORY_NOT_FOUND" ELSE "REVISION_NOT_FOUND"))

\* ... against what is checked out.
VerifyWorktree ==
  /\ Is("Verify:HEAD")
  /\ Return(Override(IF out \in {Failed, rev[2]} THEN "REPOSITORY_NOT_FOUND"
                                                 ELSE "SOURCE_MISMATCH"))

\* Mutant: a member whose history cannot be read is passed over.
SearchHistory_skips ==
  /\ Is("log")
  /\ CASE out # Failed     -> Got(out)
       [] k < Len(scope)   -> /\ Call(k + 1)
                              /\ UNCHANGED <<outside, parent, req, side, scope, rev, got, result>>
       [] OTHER            -> Return("answer")

SearchHistory ==
  /\ Is("log")
  /\ IF out = Failed THEN Return(Override("REPOSITORY_NOT_FOUND")) ELSE Got(out)

Diff ==
  /\ Is("diff")
  /\ CASE out = Failed  -> Return(Override("REPOSITORY_NOT_FOUND"))
       [] out = "empty" -> Then("ls-tree")
       [] OTHER         -> Got(out)
-----------------------------------------------------------------------------
(* adapters/zoekt                                                          *)

\* A 200, whose body is still to come.
Responded ==
  /\ resp' = out
  /\ Run("Decode")
  /\ UNCHANGED <<outside, parent, order, req, side, scope, k, rev, got, result>>

\* Mutant: a request that ran out of time is a zoekt that cannot be reached.
post_unasked ==
  /\ Is("Do")
  /\ CASE out = Failed    -> Return("SEARCH_PROVIDER_UNAVAILABLE")
       [] out = "rejects" -> Return("INVALID_ARGUMENT")
       [] out = "broken"  -> Return("SEARCH_PROVIDER_UNAVAILABLE")
       [] OTHER           -> Responded

\* client.Do returns with the status line.
post ==
  /\ Is("Do")
  /\ CASE out = Failed    -> Return(Override("SEARCH_PROVIDER_UNAVAILABLE"))
       [] out = "rejects" -> Return("INVALID_ARGUMENT")
       [] out = "broken"  -> Return("SEARCH_PROVIDER_UNAVAILABLE")
       [] OTHER           -> Responded

\* A match counts only if it says it is in this repository and on this branch.
Matches(m, files) == files \cap {m}

\* The body ends, or does not: here nobody asks whose clock it was.
Search ==
  /\ Is("Decode")
  /\ IF out = Failed THEN Return("SEARCH_PROVIDER_UNAVAILABLE")
                     ELSE Got(Matches(Asked, out))
-----------------------------------------------------------------------------
(* adapters/cbm                                                            *)

\* Mutant: a side that could not be asked has not got the symbol.
traceSide_any(verdict) ==
  IF req.tool = "compare_calls" THEN Got("absent") ELSE Return(verdict)

\* CompareCalls takes a missing symbol for an answer, and nothing else.
traceSide(verdict) ==
  IF req.tool = "compare_calls" /\ verdict = "SYMBOL_NOT_FOUND"
  THEN Got("absent") ELSE Return(verdict)

resolveSymbol ==
  /\ Is("search_graph")
  /\ CASE out = Failed      -> traceSide(Override("GRAPH_PROVIDER_UNAVAILABLE"))
       [] out = "absent"    -> traceSide(Override("SYMBOL_NOT_FOUND"))
       [] out = "ambiguous" -> traceSide(Override("SYMBOL_AMBIGUOUS"))
       [] OTHER             -> Then("trace_path")

\* A variable has a node but is not a function; CBM may take the qualified name
\* of the one node for several functions; a leaf reaches nothing.
trace ==
  /\ Is("trace_path")
  /\ CASE out = Failed       -> traceSide(Override("GRAPH_PROVIDER_UNAVAILABLE"))
       [] out = "variable"   -> traceSide(Override("SYMBOL_NOT_FOUND"))
       [] out = "overloaded" -> traceSide(Override("SYMBOL_AMBIGUOUS"))
       [] out = "leaf"       -> Got("graph")
       [] OTHER              -> Then("locate")

locate ==
  /\ Is("locate")
  /\ IF out = Failed THEN traceSide(Override("GRAPH_PROVIDER_UNAVAILABLE"))
                     ELSE Got("graph")
-----------------------------------------------------------------------------
Init ==
  /\ \E case \in Cases : world = case[1] /\ req = case[2]
  /\ tip = world.tip
  /\ tips = [m \in Members |-> {tip[m]}]
  /\ moves = 0
  /\ parent = None /\ order = <<>>
  /\ pc = "idle" /\ out = None
  /\ side = 1 /\ scope = <<>> /\ k = 1
  /\ rev = [i \in 1..2 |-> None] /\ resp = None
  /\ got = <<>> /\ result = None

Code ==
  \/ Resolve \/ ResolveMember \/ ResolveFailure
  \/ resolve \/ resolveFails \/ resolveVerdict
  \/ Read \/ lsTreeVerdict
  \/ VerifyDeclared \/ VerifyFailure \/ VerifyWorktree
  \/ SearchHistory \/ Diff
  \/ post \/ Search
  \/ resolveSymbol \/ trace \/ locate

Next ==
  \/ Begin
  \/ Code
  \/ Answers \/ Killed \/ BudgetExpires
  \/ \E cause \in {"cancel", "deadline"} : CallerEnds(cause)
  \/ \E m \in Members, c \in Commits : Moves(m, c)

Spec == Init /\ [][Next]_vars

\* Goroutines run, timers fire and a killed program is gone.  Nothing says that
\* git, zoekt or CBM ever answers.
Fairness == WF_vars(Code) /\ WF_vars(Killed) /\ WF_vars(BudgetExpires)
LiveSpec == Spec /\ Fairness
-----------------------------------------------------------------------------
(* Properties                                                              *)

\* The members of the contexts that are asked about, and of the query itself.
Named   == UNION {Range(Scope[req.ids[i]]) :
                    i \in {j \in DOMAIN req.ids : req.ids[j] \in Contexts}}
Queried == Range(scope)

\* The member's file, at a commit its revision named during the query, is in S.
Had(m, S) == \E c \in tips[m] \ {Nothing} : Text[c] \in S

\* Of three clocks that race, the one that is reported went off first: a budget
\* that ended an operation is never laid at the caller's door, and the caller's
\* own clock never at the server's (internal/deadline/deadline.go, Ended).
WhoseClock ==
  /\ result = "OPERATION_TIMEOUT" => Head(order) = "budget"
  /\ result = "Canceled" => Head(order) = "cancel"
  /\ result = "DeadlineExceeded" => Head(order) = "deadline"

\* A verdict is about the world, whatever was killed on the way to it: nothing is
\* reported as missing because the question about it was never returned.  One
\* verdict is not: a search is reported as zoekt being unavailable when zoekt
\* answered and a clock ended the request before its body was read.  zoekt.go says
\* "only a Zoekt that could not be reached or would not answer is still
\* unavailable", and CHANGELOG.md that a request budget that expired is a timeout;
\* post asks the clocks when client.Do fails, and not when decoding does.
ReasonTrue ==
  /\ result = "CONTEXT_NOT_FOUND" => ~(Range(req.ids) \subseteq Contexts)
  /\ result = "REPOSITORY_NOT_FOUND" =>
       \/ "source" \notin world.built
       \/ \E m \in Named : ~Readable(m)
       \/ \E m \in Queried : Had(m, Lost)
  /\ result = "REVISION_NOT_FOUND" => \E m \in Named : Readable(m) /\ tip[m] = Nothing
  /\ result = "INVALID_ARGUMENT" =>
       \/ Len(scope) < Len(req.ids)  \* refused before any provider was called
       \/ req.tool = "search_code" /\ world.zoekt = "rejects"
       \/ req.tool \in {"get_code", "compare_code"} /\ \A m \in Queried : Had(m, {NoFile})
       \/ req.tool = "get_code" /\ \E m \in Queried : Had(m, Short)
  /\ result = "SOURCE_MISMATCH" =>
       \E m \in Queried : Had(m, Lost) /\ tips[m] # {world.head[RepoOf[m]]}
  /\ result = "SEARCH_PROVIDER_UNAVAILABLE" =>
       \/ "search" \notin world.built
       \/ world.zoekt \in {"unreachable", "broken", "garbled"}
       \/ order # <<>> /\ resp = "answers"
  /\ result = "GRAPH_PROVIDER_UNAVAILABLE" => "graph" \notin world.built \/ ~world.cbm
  /\ result = "SYMBOL_NOT_FOUND" =>
       LET without == {m \in Queried : world.symbol[m] \in {"absent", "variable"}}
       IN without # {} /\ (req.tool = "compare_calls" => without = Queried)
  /\ result = "SYMBOL_AMBIGUOUS" =>
       \E m \in Queried : world.symbol[m] \in {"ambiguous", "overloaded"}

\* What a query is told when it has no answer is true of what it asked and of the
\* clocks (adapters/git/git.go, resolve and readFailure; resolver/resolver.go).
HonestVerdict == ReasonTrue /\ WhoseClock

\* An answer is the truth about commits that the revisions of the members named
\* while the query ran, whoever moved them meanwhile, and about nothing outside
\* the members it is answered in.
AnswerTrue ==
  result = "answer" =>
    CASE req.tool = "get_code" ->
           /\ rev[1] \in tips[scope[1]] /\ got = <<Text[rev[1]]>>
           /\ Text[rev[1]] \notin Short
      [] req.tool = "search_history" ->
           \A i \in DOMAIN scope : got[i] \in tips[scope[i]]
      [] req.tool = "search_code" ->
           \A i \in DOMAIN scope : got[i] \subseteq {scope[i]}
      [] req.tool = "compare_code" ->
           LET from == Text[rev[1]]
               to   == Text[rev[2]]
           IN /\ \A i \in 1..2 : rev[i] \in tips[scope[i]]
              /\ got = <<IF from = to THEN "UNCHANGED"
                         ELSE CASE from = NoFile -> "ADDED"
                                [] to = NoFile   -> "REMOVED"
                                [] OTHER         -> "MODIFIED">>
              /\ {from, to} # {NoFile}
      [] req.tool = "trace_calls" -> world.symbol[scope[1]] \in {"leaf", "function"}
      [] req.tool = "compare_calls" ->
           \A i \in 1..2 :
             (got[i] = "absent") = (world.symbol[scope[i]] \in {"absent", "variable"})

\* An answer covers every member that was selected, in the order of the context:
\* one member that fails is never a gap in somebody else's answer.
NothingLeftOut ==
  result = "answer" =>
    CASE req.tool \in PluralTools -> /\ scope = selectMembers(req.ids[1])
                                     /\ Len(got) = Len(scope)
      [] req.tool = "compare_calls" -> Len(got) = 2
      [] OTHER                      -> Len(got) = 1

\* Every query returns although no program ever answers, because each of them
\* runs under a budget and dies with it.
CallReturns == InFlight ~> (pc = "done")
=============================================================================
