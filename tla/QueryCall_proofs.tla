--------------------------- MODULE QueryCall_proofs ---------------------------
(* Proofs about QueryCall: for any contexts, members, revisions, contents and *)
(* any state of git, zoekt and CBM.                                           *)
EXTENDS QueryCall, TLAPS

Worlds ==
  [readable : SUBSET Repos, head : [Repos -> Commits], symbol : [Members -> Symbols],
   zoekt : Searches, cbm : BOOLEAN, built : SUBSET {"search", "source", "graph"},
   tip : [Members -> Commits \cup {Nothing}]]

Requests ==
  [tool : SingleTools \cup PluralTools \cup PairTools,
   ids : Seq(Contexts \cup {None}), repo : Repos \cup {None}]

\* What a member can have answered.
Given ==
  CASE req.tool = "get_code"       -> {Text[c] : c \in Commits}
    [] req.tool = "search_history" -> Commits
    [] req.tool = "search_code"    -> SUBSET Members
    [] req.tool = "compare_code"   -> {"ADDED", "REMOVED", "MODIFIED", "UNCHANGED"}
    [] OTHER                       -> {"absent", "graph"}

RevParses == {"Resolve:rev-parse", "rev-parse", "Verify:rev-parse"}
GitDirs   == {"Resolve:git-dir", "git-dir", "Verify:git-dir"}
Verifies  == {"Verify:rev-parse", "Verify:git-dir", "Verify:HEAD"}
Asking    == Commands \ ResolveCommands

TypeOK ==
  /\ world \in Worlds
  /\ req \in Requests /\ Len(req.ids) = IF req.tool \in PairTools THEN 2 ELSE 1
  /\ tip \in [Members -> Commits \cup {Nothing}]
  /\ tips \in [Members -> SUBSET (Commits \cup {Nothing})]
  /\ moves \in 0..MaxMoves
  /\ parent \in {None, "cancel", "deadline"} /\ order \in Seq(Clocks)
  /\ pc \in {"idle", "Resolve", "done"} \cup Commands
  /\ pc \notin Commands => out = None
  /\ side \in 1..Len(req.ids) /\ scope \in Seq(Members) /\ k \in Nat \ {0}
  /\ rev \in [1..2 -> Commits \cup {None}] /\ got \in Seq(Given)
  /\ resp \in Searches \cup {None}
  /\ result \in Codes \cup {None} /\ (pc # "done" => result = None)

TipsOK == \A m \in Members : tip[m] \in tips[m]

\* The members of the contexts that are resolved so far.
ScopeOK ==
  /\ \A i \in DOMAIN scope : scope[i] \in Named
  /\ pc \in {"idle", "Resolve"} \cup ResolveCommands => Len(scope) = side - 1 /\ got = <<>>
  /\ pc \in ResolveCommands =>
       req.ids[side] \in Contexts /\ k \in 1..Len(Scope[req.ids[side]])
  /\ pc \in Asking =>
       /\ k \in 1..Len(scope)
       /\ CASE req.tool \in PluralTools -> scope = selectMembers(req.ids[1])
            [] req.tool \in SingleTools -> Len(scope) = 1
            [] OTHER                    -> Len(scope) = 2 /\ RepoOf[scope[1]] = RepoOf[scope[2]]
       /\ IF req.tool = "compare_code" THEN got = <<>> ELSE Len(got) = k - 1

\* rev[i] was read off the revision of m during the query.
Pinned(i, m) == rev[i] \in tips[m] \cap Commits

\* What is known once the programs before the one that runs have answered.
PhaseOK ==
  /\ pc \in GitDirs => order # <<>> \/ ~Readable(Asked) \/ tip[Asked] = Nothing
  /\ pc \in {"rev-parse", "git-dir"} =>
       /\ req.tool \in {"get_code", "search_history", "compare_code"}
       /\ req.tool = "compare_code" /\ k = 2 => Pinned(1, scope[1])
  /\ pc \in {"show"} \cup Verifies => req.tool = "get_code"
  /\ pc = "log" => req.tool = "search_history"
  /\ pc = "diff" => req.tool = "compare_code"
  /\ pc = "ls-tree" => req.tool \in {"get_code", "compare_code"}
  /\ pc \in {"show", "ls-tree", "log", "diff"} \cup Verifies =>
       /\ Readable(scope[k])
       /\ IF req.tool = "compare_code"
          THEN k = 2 /\ Pinned(1, scope[1]) /\ Pinned(2, scope[2])
          ELSE Pinned(1, scope[k])
  /\ pc = "ls-tree" => IF req.tool = "get_code" THEN Text[rev[1]] \in Lost \cup {NoFile}
                                                ELSE Text[rev[1]] = Text[rev[2]]
  /\ pc \in Verifies => Text[rev[1]] \in Lost
  /\ pc = "Verify:HEAD" => Pinned(2, scope[1])
  /\ pc \in {"Do", "Decode"} => req.tool = "search_code"
  /\ pc = "Decode" => resp = world.zoekt /\ resp \in {"answers", "garbled"}
  /\ pc \in {"search_graph", "trace_path", "locate"} => req.tool \in {"trace_calls", "compare_calls"}
  /\ pc = "trace_path" => world.symbol[scope[k]] \in Symbols \ {"absent", "ambiguous"}
  /\ pc = "locate" => world.symbol[scope[k]] = "function"

\* A program has told the truth or was killed.  A revision named what git says it
\* named, but may name another commit by now.
OutOK ==
  pc \in Commands /\ out # None =>
    IF pc \in RevParses
    THEN \/ out \in tips[Asked] \cap Commits /\ Readable(Asked)
         \/ out = Failed /\ (order # <<>> \/ ~Readable(Asked) \/ tip[Asked] = Nothing)
    ELSE out = Answer(pc, Asked) \/ (out = Failed /\ order # <<>>)

\* What the i-th member answers is true of it.
TrueOf(i, answer) ==
  /\ req.tool = "get_code" => Pinned(1, scope[1]) /\ answer = Text[rev[1]] /\ answer \notin Short
  /\ req.tool = "search_history" => answer \in tips[scope[i]]
  /\ req.tool = "search_code" => answer \subseteq {scope[i]}
  /\ req.tool = "compare_code" =>
       /\ Pinned(1, scope[1]) /\ Pinned(2, scope[2])
       /\ {Text[rev[1]], Text[rev[2]]} # {NoFile}
       /\ answer = IF Text[rev[1]] = Text[rev[2]] THEN "UNCHANGED"
                   ELSE CASE Text[rev[1]] = NoFile -> "ADDED"
                          [] Text[rev[2]] = NoFile -> "REMOVED"
                          [] OTHER                 -> "MODIFIED"
  /\ req.tool = "trace_calls" => world.symbol[scope[i]] \in {"leaf", "function"}
  /\ req.tool = "compare_calls" =>
       /\ answer \in {"absent", "graph"}
       /\ answer = "absent" <=> world.symbol[scope[i]] \in {"absent", "variable"}

GotOK == \A i \in DOMAIN got : TrueOf(i, got[i])

IInv ==
  /\ TypeOK /\ TipsOK /\ ScopeOK /\ PhaseOK /\ OutOK /\ GotOK
  /\ HonestVerdict /\ NothingLeftOut
-----------------------------------------------------------------------------
(* The clocks                                                              *)

\* A context that has ended gives the reason of the clock that went off first.
LEMMA EndedIs ==
  ASSUME order \in Seq(Clocks)
  PROVE  /\ order = <<>> => Ended = None
         /\ order # <<>> =>
              /\ Head(order) = "budget" => Ended = "OPERATION_TIMEOUT"
              /\ Head(order) = "cancel" => Ended = "Canceled"
              /\ Head(order) = "deadline" => Ended = "DeadlineExceeded"
              /\ Ended \in {"OPERATION_TIMEOUT", "Canceled", "DeadlineExceeded"}
<1>1. order # <<>> => Head(order) \in Clocks
  OBVIOUS
<1>2. CASE order = <<>>
  BY <1>2 DEF Ended
<1>3. ASSUME order # <<>>, NEW clock \in Clocks, Head(order) = clock
      PROVE  Ended = CASE clock = "budget"   -> "OPERATION_TIMEOUT"
                       [] clock = "cancel"   -> "Canceled"
                       [] clock = "deadline" -> "DeadlineExceeded"
  <2> DEFINE first == Head(order)
  <2> HIDE DEF first
  <2>1. Ended = CASE first = "budget"   -> "OPERATION_TIMEOUT"
                  [] first = "cancel"   -> "Canceled"
                  [] first = "deadline" -> "DeadlineExceeded"
    BY <1>3 DEF Ended, Cause, first, Clocks
  <2>2. QED
    BY <1>3, <2>1 DEF first
<1>4. QED
  BY <1>1, <1>2, <1>3 DEF Clocks

LEMMA OverrideIs ==
  ASSUME order \in Seq(Clocks), NEW verdict
  PROVE  Override(verdict) = IF order = <<>> THEN verdict ELSE Ended
BY EndedIs, NothingSaid DEF Override, Codes

\* selectMembers takes members of the context.
LEMMA SelectedAre ==
  ASSUME NEW id \in Contexts
  PROVE  /\ selectMembers(id) \in Seq(Members)
         /\ \A i \in DOMAIN selectMembers(id) : selectMembers(id)[i] \in Range(Scope[id])
<1> DEFINE named == {m \in Range(Scope[id]) : RepoOf[m] = req.repo}
<1>1. Scope[id] \in Seq(Members)
  BY ConstantsAssumption
<1>2. Range(Scope[id]) \subseteq Members
  BY <1>1 DEF Range
<1>3. CASE req.repo = None
  BY <1>1, <1>3 DEF selectMembers, Range
<1>4. CASE req.repo # None /\ named = {}
  BY <1>4 DEF selectMembers
<1>5. CASE req.repo # None /\ named # {}
  <2>1. (CHOOSE m \in named : TRUE) \in named
    BY <1>5
  <2>2. selectMembers(id) = <<CHOOSE m \in named : TRUE>>
    BY <1>5 DEF selectMembers
  <2> HIDE DEF named
  <2>3. named \subseteq Range(Scope[id])
    BY DEF named
  <2>4. QED
    BY <1>2, <2>1, <2>2, <2>3
<1>6. QED
  BY <1>3, <1>4, <1>5
-----------------------------------------------------------------------------
(* What a step leaves as it is                                             *)

LEMMA CommandsAre == \A program \in Commands : program \notin {"idle", "Resolve", "done"}
BY DEF Commands, ResolveCommands, GitCommands

\* A query keeps its types while only its control, its clocks and its member move.
LEMMA TypeSame ==
  ASSUME TypeOK, UNCHANGED <<outside, req, side, scope, rev, got>>,
         parent' \in {None, "cancel", "deadline"}, order' \in Seq(Clocks),
         pc' \in {"idle", "Resolve", "done"} \cup Commands, pc' \notin Commands => out' = None,
         k' \in Nat \ {0}, resp' \in Searches \cup {None}, result' \in Codes \cup {None}, pc' # "done" => result' = None
  PROVE  TypeOK'
<1>1. Given' = Given
  BY DEF Given
<1>2. QED
  BY <1>1 DEF TypeOK, outside, Worlds, Requests

\* What was found out stays found out.
LEMMA GotSame ==
  ASSUME TipsOK, GotOK, UNCHANGED <<outside, req, scope, rev, got>>
  PROVE  TipsOK' /\ GotOK'
<1> USE DEF outside
<1>1. ASSUME NEW i, NEW answer PROVE TrueOf(i, answer)' <=> TrueOf(i, answer)
  BY DEF TrueOf, Pinned
<1>2. QED
  BY <1>1 DEF TipsOK, GotOK

\* Nothing is claimed before there is a result.
LEMMA NoVerdict == ASSUME result' \in {None, "answer"} PROVE HonestVerdict'
BY NothingSaid DEF HonestVerdict, ReasonTrue, WhoseClock, Codes

LEMMA NoResult == ASSUME result' = None PROVE HonestVerdict' /\ NothingLeftOut'
BY NoVerdict, NothingSaid DEF NothingLeftOut, Codes
-----------------------------------------------------------------------------
(* How a step goes on                                                      *)

\* A verdict that is true of the world and of the clocks ends the query.
LEMMA ReturnKeeps ==
  ASSUME IInv, NEW code \in Codes \ {"answer"}, Return(code), HonestVerdict'
  PROVE  IInv'
<1> USE DEF IInv, Return, outside
<1>1. TypeOK'
  BY TypeSame, CommandsAre DEF TypeOK
<1>2. TipsOK' /\ GotOK'
  BY GotSame
<1>3. ScopeOK'
  BY DEF ScopeOK, Named, Asking, Commands, ResolveCommands, GitCommands
<1>4. PhaseOK' /\ OutOK'
  BY DEF PhaseOK, OutOK, GitDirs, Verifies, Commands, ResolveCommands, GitCommands
<1>5. NothingLeftOut'
  BY DEF NothingLeftOut
<1>6. QED
  BY <1>1, <1>2, <1>3, <1>4, <1>5

\* The reason of the clock that went off first is one.
LEMMA ClockReturn ==
  ASSUME IInv, order # <<>>, Return(Ended) PROVE IInv'
<1>1. order \in Seq(Clocks)
  BY DEF IInv, TypeOK
<1>2. Head(order) \in Clocks
  BY <1>1
<1>3. result' = Ended /\ order' = order
  BY DEF Return
<1>4. WhoseClock'
  BY <1>1, <1>2, <1>3, EndedIs DEF WhoseClock, Clocks
<1>5. ReasonTrue'
  BY <1>1, <1>3, EndedIs DEF ReasonTrue
<1>6. QED
  BY <1>1, <1>4, <1>5, EndedIs, ReturnKeeps DEF HonestVerdict, Codes

\* A verdict that a clock overrides need only be true while none has gone off.
LEMMA VerdictReturn ==
  ASSUME IInv, NEW code \in Codes \ {"answer"}, Return(Override(code)),
         order = <<>> /\ Return(code) => HonestVerdict'
  PROVE  IInv'
<1>1. order \in Seq(Clocks)
  BY DEF IInv, TypeOK
<1>2. Override(code) = IF order = <<>> THEN code ELSE Ended
  BY <1>1, OverrideIs
<1>3. QED
  BY <1>2, ClockReturn, ReturnKeeps

\* Another program of the same operation runs.
LEMMA ThenKeeps ==
  ASSUME IInv, NEW program \in Commands, Then(program), pc \in Commands,
         pc \in ResolveCommands <=> program \in ResolveCommands, PhaseOK'
  PROVE  IInv'
<1> USE DEF IInv, Then, Run, outside, query
<1>1. TypeOK'
  BY TypeSame, CommandsAre DEF TypeOK
<1>2. TipsOK' /\ GotOK'
  BY GotSame
<1>3. ScopeOK'
  BY DEF ScopeOK, Named, Asking, selectMembers, Commands, ResolveCommands, GitCommands
<1>4. OutOK'
  BY DEF OutOK
<1>5. result' = None /\ HonestVerdict' /\ NothingLeftOut'
  BY NothingSaid DEF TypeOK, HonestVerdict, ReasonTrue, WhoseClock, NothingLeftOut, Codes,
    Commands,
                     ResolveCommands, GitCommands
<1>6. QED
  BY <1>1, <1>2, <1>3, <1>4, <1>5


\* What an operation of the next member starts from.
LEMMA WithOrder ==
  ASSUME TypeOK, With PROVE order' \in Seq(Clocks)
<1>1. CASE parent = None
  BY <1>1 DEF With
<1>2. CASE parent \in Clocks
  BY <1>2, NothingSaid DEF With
<1>3. QED
  BY <1>1, <1>2 DEF TypeOK, Clocks

\* An answer that is true of its member is kept, and the next member is asked.
LEMMA GotKeeps ==
  ASSUME IInv, pc \in Asking, NEW answer \in Given, Got(answer),
         TrueOf(Len(got) + 1, answer), req.tool = "compare_code" => k = 2
  PROVE  IInv'
<1> USE DEF IInv
<1>1. got \in Seq(Given) /\ got' = Append(got, answer) /\ scope \in Seq(Members)
  BY DEF TypeOK, Got
<1>2. k \in 1..Len(scope) /\ pc \in Commands /\ Len(got) \in Nat
  BY <1>1 DEF ScopeOK, Asking
<1>3. First[req.tool] \in {"Do", "rev-parse", "search_graph"} /\ First[req.tool] \in Commands
  BY DEF TypeOK, Requests, First, SingleTools, PluralTools, PairTools, Commands, GitCommands
<1>4. UNCHANGED <<outside, parent, req, side, scope, rev>>
  BY DEF Got
<1>5. \/ /\ k < Len(scope) /\ With /\ k' = k + 1 /\ resp' = None
         /\ pc' = First[req.tool] /\ out' = None /\ UNCHANGED result
      \/ /\ k = Len(scope) /\ pc' = "done" /\ out' = None /\ UNCHANGED <<order, k, resp>>
         /\ result' = IF req.tool = "compare_calls" /\ Range(got') = {"absent"}
                      THEN "SYMBOL_NOT_FOUND" ELSE "answer"
  BY <1>2 DEF Got, Call, Run, TypeOK
<1> USE <1>4 DEF outside
<1>6. TypeOK'
  <2>1. got' \in Seq(Given')
    BY <1>1 DEF Given
  <2>2. order' \in Seq(Clocks) /\ k' \in Nat \ {0} /\ resp' \in Searches \cup {None}
    BY <1>2, <1>5, WithOrder DEF TypeOK
  <2>3. result' \in Codes \cup {None} /\ (pc' # "done" => result' = None)
    BY <1>2, <1>3, <1>5 DEF TypeOK, Codes, Commands, ResolveCommands, GitCommands
  <2>4. pc' \in {"done"} \cup Commands /\ out' = None
    BY <1>3, <1>5
  <2>5. QED
    BY <2>1, <2>2, <2>3, <2>4 DEF TypeOK, Worlds, Requests
<1>7. TipsOK'
  BY DEF TipsOK
<1>8. ASSUME NEW i, NEW a PROVE TrueOf(i, a)' <=> TrueOf(i, a)
  BY DEF TrueOf, Pinned
<1>9. GotOK'
  <2>1. ASSUME NEW i \in DOMAIN got' PROVE TrueOf(i, got[i])'
    <3>1. CASE i \in DOMAIN got
      <4>1. got'[i] = got[i] /\ TrueOf(i, got[i])
        BY <1>1, <3>1 DEF GotOK
      <4>2. QED
        BY <4>1 DEF TrueOf, Pinned
    <3>2. CASE i = Len(got) + 1
      <4>1. got'[i] = answer
        BY <1>1, <3>2
      <4>2. QED
        BY <4>1, <3>2 DEF TrueOf, Pinned
    <3>3. QED
      BY <1>1, <2>1, <3>1, <3>2
  <2>2. QED
    BY <2>1 DEF GotOK
<1>10. ScopeOK'
  <2>1. \A i \in DOMAIN scope' : scope'[i] \in Named'
    BY DEF ScopeOK, Named
  <2>2. pc' \notin {"idle", "Resolve"} \cup ResolveCommands
    BY <1>3, <1>5 DEF ResolveCommands
  <2>3. req.tool = "compare_code" => k = Len(scope)
    BY DEF ScopeOK, TypeOK, PluralTools, SingleTools
  <2>4. pc' \in Asking => k' \in 1..Len(scope') /\ k' = k + 1 /\ req.tool # "compare_code"
    BY <1>2, <1>5, <2>3 DEF Asking, Commands, GitCommands
  <2>5. QED
    BY <1>1, <1>2, <2>1, <2>2, <2>4 DEF ScopeOK, selectMembers
<1>11. PhaseOK' /\ OutOK'
  BY <1>2, <1>3, <1>5
     DEF PhaseOK, OutOK, First, GitDirs, Verifies, Commands, ResolveCommands, GitCommands,
         TypeOK, Requests, SingleTools, PluralTools, PairTools
<1>12. result' # None => k = Len(scope) /\ Len(got') = Len(got) + 1
  <2>1. result = None
    BY <1>2, CommandsAre DEF TypeOK
  <2>2. QED
    BY <1>1, <1>5, <2>1
<1>13. /\ CASE req.tool \in PluralTools -> scope = selectMembers(req.ids[1])
            [] req.tool \in SingleTools -> Len(scope) = 1
            [] OTHER                    -> Len(scope) = 2
       /\ IF req.tool = "compare_code" THEN got = <<>> ELSE Len(got) = k - 1
  BY DEF ScopeOK
<1>14. NothingLeftOut'
  <2>1. selectMembers(req.ids[1])' = selectMembers(req.ids[1])
    BY DEF selectMembers
  <2>2. CASE result' = "answer"
    <3>1. k = Len(scope) /\ Len(got') = Len(got) + 1
      BY <1>12, <2>2, NothingSaid DEF Codes
    <3>2. req.tool = "compare_code" => Len(got') = 1
      BY <1>13, <3>1
    <3>3. req.tool # "compare_code" => Len(got') = Len(scope)
      BY <1>2, <1>13, <3>1
    <3>4. req.tool \in SingleTools \cup PluralTools \cup PairTools
      BY DEF TypeOK, Requests
    <3>5. QED
      BY <1>13, <2>1, <3>2, <3>3, <3>4 DEF NothingLeftOut, SingleTools, PluralTools, PairTools
  <2>3. QED
    BY <2>2 DEF NothingLeftOut
<1>15. HonestVerdict'
  <2>1. CASE result' \in {None, "answer"}
    BY <2>1, NoVerdict
  <2>2. CASE result' = "SYMBOL_NOT_FOUND" /\ req.tool = "compare_calls" /\ Range(got') = {"absent"}
    <3>1. Len(scope) = 2 /\ Len(got') = 2
      <4>1. k = Len(scope) /\ Len(got') = Len(got) + 1
        BY <1>12, <2>2, NothingSaid DEF Codes
      <4>2. QED
        BY <1>2, <1>13, <2>2, <4>1 DEF PluralTools, SingleTools
    <3>2. \A i \in 1..2 : got'[i] = "absent"
      <4>1. got' \in Seq(Given)
        BY <1>1
      <4>2. DOMAIN got' = 1..2
        BY <3>1, <4>1
      <4>3. \A i \in DOMAIN got' : got'[i] \in Range(got')
        BY DEF Range
      <4>4. QED
        BY <2>2, <4>2, <4>3
    <3>3. \A m \in Range(scope) : world.symbol[m] \in {"absent", "variable"}
      BY <1>1, <1>8, <1>9, <2>2, <3>1, <3>2 DEF GotOK, TrueOf, Range
    <3>4. Range(scope) # {}
      BY <3>1 DEF Range
    <3>5. QED
      BY <2>2, <3>3, <3>4 DEF HonestVerdict, ReasonTrue, WhoseClock, Queried
  <2>3. QED
    BY <1>2, <1>5, <2>1, <2>2 DEF TypeOK, Commands, ResolveCommands, GitCommands
<1>16. QED
  BY <1>6, <1>7, <1>9, <1>10, <1>11, <1>14, <1>15
-----------------------------------------------------------------------------
(* Outside                                                                 *)

LEMMA InitOK == Init => IInv
<1> SUFFICES ASSUME Init PROVE IInv
  OBVIOUS
<1> USE DEF Init
<1>1. /\ world \in Worlds /\ req \in Requests
      /\ Len(req.ids) = IF req.tool \in PairTools THEN 2 ELSE 1
  BY CasesAssumption DEF Worlds, Requests
<1>2. TypeOK
  BY <1>1, ConstantsAssumption DEF TypeOK, Worlds, Commands, ResolveCommands, GitCommands
<1>3. TipsOK /\ GotOK
  BY <1>2 DEF TipsOK, GotOK, TypeOK
<1>4. ScopeOK /\ PhaseOK /\ OutOK
  BY DEF ScopeOK, PhaseOK, OutOK, Asking, GitDirs, Verifies, Commands, ResolveCommands,
    GitCommands
<1>5. HonestVerdict /\ NothingLeftOut
  BY NothingSaid DEF HonestVerdict, ReasonTrue, WhoseClock, NothingLeftOut, Codes
<1>6. QED
  BY <1>2, <1>3, <1>4, <1>5 DEF IInv

LEMMA BeginKeeps == ASSUME IInv, Begin PROVE IInv'
<1> USE DEF IInv, Begin, outside, query
<1>1. TypeOK'
  BY TypeSame, CommandsAre DEF TypeOK
<1>2. TipsOK' /\ GotOK'
  BY GotSame
<1>3. ScopeOK' /\ PhaseOK' /\ OutOK'
  BY DEF ScopeOK, PhaseOK, OutOK, Named, Asking, GitDirs, Verifies, Commands, ResolveCommands,
    GitCommands
<1>4. HonestVerdict' /\ NothingLeftOut'
  BY NoResult, CommandsAre DEF TypeOK
<1>5. QED
  BY <1>1, <1>2, <1>3, <1>4

\* What a program has to say of a query, if it is not what a revision names.
LEMMA AnswerSame ==
  ASSUME UNCHANGED <<world, query, pc>>, pc \in Commands \ RevParses
  PROVE  Answer(pc, Asked)' = Answer(pc, Asked)
<1>1. UNCHANGED <<world, req, side, scope, k, rev>> /\ Asked' = Asked
  BY DEF query, Asked
<1>2. \A m : (Readable(m)' <=> Readable(m)) /\ gitDir(m)' = gitDir(m)
  BY <1>1 DEF Readable, gitDir
<1>3. show(rev[1])' = show(rev[1]) /\ lsTree(rev[1])' = lsTree(rev[1])
        /\ gitDiff(rev[1], rev[2])' = gitDiff(rev[1], rev[2])
  BY <1>1 DEF show, lsTree, gitDiff
<1>4. QED
  BY <1>1, <1>2, <1>3 DEF Answer, RevParses, Commands, ResolveCommands, GitCommands

\* The members a provider is asked about.
LEMMA AskingIs ==
  ASSUME IInv, pc \in Asking
  PROVE  /\ scope \in Seq(Members) /\ k \in 1..Len(scope)
         /\ scope[1] \in Members /\ scope[k] \in Members /\ Asked = scope[k]
         /\ req.tool = "compare_code" => scope[2] \in Members /\ Len(scope) = 2
         /\ DOMAIN got \subseteq DOMAIN scope
<1>1. scope \in Seq(Members) /\ k \in 1..Len(scope) /\ got \in Seq(Given)
  BY DEF IInv, TypeOK, ScopeOK
<1>2. req.tool = "compare_code" => Len(scope) = 2
  BY DEF IInv, ScopeOK, PluralTools, SingleTools
<1>3. Len(got) <= Len(scope)
  BY <1>1 DEF IInv, ScopeOK
<1>4. Asked = scope[k]
  BY DEF Asked, Asking
<1>5. QED
  BY <1>1, <1>2, <1>3, <1>4

LEMMA AskedIs == ASSUME IInv, pc \in Commands PROVE Asked \in Members
BY ConstantsAssumption DEF IInv, Asked, ScopeOK, TypeOK, Asking, Requests

LEMMA AnswersKeeps == ASSUME IInv, Answers \/ Killed PROVE IInv'
<1>1. UNCHANGED <<outside, parent, order, query, pc>> /\ pc \in Commands
  BY DEF Answers, Killed, Running
<1> USE <1>1 DEF IInv, outside, query
<1>2. TypeOK'
  BY TypeSame, CommandsAre DEF TypeOK
<1>3. TipsOK' /\ GotOK'
  BY GotSame
<1>4. ScopeOK' /\ PhaseOK'
  BY DEF ScopeOK, PhaseOK, Pinned, Readable, Asked, Named, selectMembers
<1>5. OutOK'
  <2>1. Asked' = Asked /\ (Readable(Asked)' <=> Readable(Asked))
    BY DEF Asked, Readable
  <2>2. CASE Killed
    BY <2>2 DEF OutOK, TypeOK, Killed
  <2>3. CASE Answers /\ pc \in RevParses
    <3>1. out' = revParse(Asked)
      BY <2>3 DEF Answers, Answer, RevParses
    <3>2. tip[Asked] \in tips[Asked] \cap (Commits \cup {Nothing})
      BY AskedIs DEF TipsOK, TypeOK
    <3>3. \/ out' \in tips[Asked] \cap Commits /\ Readable(Asked)
          \/ out' = Failed /\ (~Readable(Asked) \/ tip[Asked] = Nothing)
      BY <3>1, <3>2 DEF revParse
    <3>4. QED
      BY <2>1, <2>3, <3>3 DEF OutOK
  <2>4. CASE Answers /\ pc \notin RevParses
    BY <2>4, AnswerSame DEF OutOK, Answers
  <2>5. QED
    BY <2>2, <2>3, <2>4
<1>6. HonestVerdict' /\ NothingLeftOut'
  <2>1. pc' # "done" /\ result' = None
    BY DEF TypeOK, Commands, ResolveCommands, GitCommands
  <2>2. QED
    BY <2>1, NothingSaid DEF HonestVerdict, ReasonTrue, WhoseClock, NothingLeftOut, Codes
<1>7. QED
  BY <1>2, <1>3, <1>4, <1>5, <1>6

\* A clock goes off.
LEMMA ClockKeeps ==
  ASSUME IInv, BudgetExpires \/ \E cause \in {"cancel", "deadline"} : CallerEnds(cause)
  PROVE  IInv'
<1>1. /\ UNCHANGED <<outside, query, pc, out>> /\ pc \notin {"idle", "done"}
      /\ order' \in Seq(Clocks) /\ order' # <<>> /\ parent' \in {None, "cancel", "deadline"}
  <2>1. CASE BudgetExpires
    BY <2>1 DEF IInv, TypeOK, BudgetExpires, Budgeted, Clocks, Commands, ResolveCommands,
      GitCommands
  <2>2. ASSUME NEW cause \in {"cancel", "deadline"}, CallerEnds(cause) PROVE <1>1!:
    <3>1. order \in Seq(Clocks) /\ cause \in Clocks /\ order' = Append(order, cause)
      BY <2>2 DEF IInv, TypeOK, CallerEnds, Clocks
    <3>2. QED
      BY <2>2, <3>1 DEF CallerEnds, InFlight
  <2>3. QED
    BY <2>1, <2>2
<1> USE <1>1 DEF IInv, outside, query
<1>2. TypeOK'
  BY DEF TypeOK, Worlds, Requests, Given
<1>3. TipsOK' /\ GotOK'
  BY GotSame
<1>4. ScopeOK' /\ PhaseOK'
  BY DEF ScopeOK, PhaseOK, Pinned, Readable, Asked, Named, selectMembers
<1>5. OutOK'
  <2>1. Asked' = Asked /\ (Readable(Asked)' <=> Readable(Asked))
    BY DEF Asked, Readable
  <2>2. QED
    BY <2>1, AnswerSame DEF OutOK
<1>6. HonestVerdict' /\ NothingLeftOut'
  BY NoResult, CommandsAre DEF TypeOK
<1>7. QED
  BY <1>2, <1>3, <1>4, <1>5, <1>6

\* A revision comes to name another commit.
LEMMA MovesKeeps ==
  ASSUME IInv, NEW m \in Members, NEW c \in Commits, Moves(m, c) PROVE IInv'
<1>1. /\ UNCHANGED <<world, parent, order, query, pc, out>> /\ pc \notin {"idle", "done"}
      /\ tip' \in [Members -> Commits \cup {Nothing}]
      /\ tips' \in [Members -> SUBSET (Commits \cup {Nothing})]
      /\ \A n \in Members : tips[n] \subseteq tips'[n] /\ (tip[n] = Nothing <=> tip'[n] = Nothing)
      /\ TipsOK' /\ moves' \in 0..MaxMoves
  BY ConstantsAssumption DEF IInv, TypeOK, TipsOK, Moves, InFlight
<1> USE <1>1 DEF IInv, query
<1>2. TypeOK'
  BY DEF TypeOK, Worlds, Requests, Given
<1>3. \A n \in Members, i \in 1..2 : Pinned(i, n) => Pinned(i, n)'
  BY DEF Pinned
<1>4. pc \in Asking \/ got = <<>>
  BY DEF ScopeOK, TypeOK, Asking
<1>5. GotOK'
  <2> SUFFICES ASSUME NEW i \in DOMAIN got PROVE TrueOf(i, got[i])'
    BY DEF GotOK
  <2>1. TrueOf(i, got[i]) /\ pc \in Asking /\ scope[i] \in Members
    BY <1>4, AskingIs DEF GotOK
  <2>2. req.tool \in {"get_code", "compare_code"} => Pinned(1, scope[1])'
          /\ (req.tool = "compare_code" => Pinned(2, scope[2])')
    BY <1>3, <2>1, AskingIs DEF TrueOf
  <2>3. tips[scope[i]] \subseteq tips'[scope[i]]
    BY <2>1
  <2>4. QED
    BY <2>1, <2>2, <2>3 DEF TrueOf
<1>6. ScopeOK'
  BY DEF ScopeOK, Named, selectMembers
<1>7. Asked' = Asked /\ (\A n : Readable(n)' <=> Readable(n)) /\ (pc \in Commands => Asked \in Members)
  BY AskedIs DEF Asked, Readable
<1>8. PhaseOK'
  <2>1. pc \in Asking => scope[1] \in Members /\ scope[k] \in Members
                          /\ (req.tool = "compare_code" => scope[2] \in Members)
    BY AskingIs
  <2>2. QED
    BY <1>3, <1>7, <2>1 DEF PhaseOK, Asking, Commands, GitDirs, Verifies, ResolveCommands,
      GitCommands
<1>9. OutOK'
  BY <1>7, AnswerSame DEF OutOK
<1>10. HonestVerdict' /\ NothingLeftOut'
  BY NoResult, CommandsAre DEF TypeOK
<1>11. QED
  BY <1>1, <1>2, <1>5, <1>6, <1>8, <1>9, <1>10

-----------------------------------------------------------------------------
(* Resolving a context                                                     *)

LEMMA AskedNamed == ASSUME IInv, pc \in Commands PROVE Asked \in Named
<1>1. CASE pc \in ResolveCommands
  <2>1. /\ side \in DOMAIN req.ids /\ req.ids[side] \in Contexts
        /\ Scope[req.ids[side]] \in Seq(Members) /\ k \in 1..Len(Scope[req.ids[side]])
    BY <1>1, ConstantsAssumption DEF IInv, TypeOK, ScopeOK, Requests
  <2>2. Asked \in Range(Scope[req.ids[side]])
    BY <1>1, <2>1 DEF Asked, Range
  <2>3. QED
    BY <2>1, <2>2 DEF Named
<1>2. CASE pc \in Asking
  BY <1>2, AskingIs DEF IInv, ScopeOK
<1>3. QED
  BY <1>1, <1>2 DEF Asking

\* The diagnostic after a revision that was not named.
LEMMA GitDirKeeps ==
  ASSUME IInv, pc \in GitDirs, out # None,
         Return(Override(IF out = Failed THEN "REPOSITORY_NOT_FOUND" ELSE "REVISION_NOT_FOUND"))
  PROVE  IInv'
<1>1. pc \in Commands \ RevParses
  BY DEF GitDirs, RevParses, Commands, ResolveCommands, GitCommands
<1>2. Asked \in Named
  BY <1>1, AskedNamed
<1>3. ASSUME order = <<>> PROVE IF out = Failed THEN ~Readable(Asked)
                                ELSE Readable(Asked) /\ tip[Asked] = Nothing
  <2>1. Answer(pc, Asked) = gitDir(Asked)
    BY DEF Answer, GitDirs
  <2>2. out = gitDir(Asked)
    BY <1>1, <1>3, <2>1 DEF IInv, OutOK
  <2>3. QED
    BY <1>3, <2>2, NothingSaid DEF IInv, PhaseOK, gitDir
<1>4. ASSUME order = <<>>, NEW code \in {"REPOSITORY_NOT_FOUND", "REVISION_NOT_FOUND"}, Return(code),
             code = IF out = Failed THEN "REPOSITORY_NOT_FOUND" ELSE "REVISION_NOT_FOUND"
      PROVE  HonestVerdict'
  <2>1. /\ result' = code /\ UNCHANGED <<world, tip, tips, req, scope, order>>
    BY <1>4 DEF Return, outside
  <2>2. Named' = Named /\ \A m : Readable(m)' <=> Readable(m)
    BY <2>1 DEF Named, Readable
  <2>3. ReasonTrue'
    BY <1>2, <1>3, <1>4, <2>1, <2>2 DEF ReasonTrue
  <2>4. WhoseClock'
    BY <1>4, <2>1 DEF WhoseClock
  <2>5. QED
    BY <2>3, <2>4 DEF HonestVerdict
<1>5. QED
  <2>1. CASE out = Failed
    BY <2>1, <1>4, VerdictReturn DEF Codes
  <2>2. CASE out # Failed
    BY <2>2, <1>4, VerdictReturn DEF Codes
  <2>3. QED
    BY <2>1, <2>2

LEMMA ResolveKeeps == ASSUME IInv, Resolve PROVE IInv'
<1> USE DEF IInv
<1>1. pc = "Resolve" /\ side \in DOMAIN req.ids
  BY DEF Resolve, TypeOK, Requests
<1>2. CASE Return("CONTEXT_NOT_FOUND") /\ req.ids[side] \notin Contexts
  <2>1. /\ result' = "CONTEXT_NOT_FOUND" /\ UNCHANGED <<world, tip, tips, req, scope, order>>
    BY <1>2 DEF Return, outside
  <2>2. HonestVerdict'
    BY <1>1, <1>2, <2>1 DEF HonestVerdict, ReasonTrue, WhoseClock, Range
  <2>3. QED
    BY <1>2, <2>2, ReturnKeeps DEF Codes
<1>3. CASE /\ req.ids[side] \in Contexts /\ With /\ k' = 1 /\ Run("Resolve:rev-parse")
           /\ UNCHANGED <<outside, parent, req, side, scope, rev, resp, got, result>>
  <2> USE <1>1, <1>3 DEF Run, outside
  <2>1. TypeOK'
    <3>1. order' \in Seq(Clocks) /\ "Resolve:rev-parse" \in Commands
      BY WithOrder DEF IInv, Commands, ResolveCommands
    <3>2. QED
      BY <3>1, TypeSame, CommandsAre DEF IInv, TypeOK
  <2>2. TipsOK' /\ GotOK'
    BY GotSame
  <2>3. 1 \in 1..Len(Scope[req.ids[side]])
    BY ConstantsAssumption
  <2>4. ScopeOK' /\ PhaseOK' /\ OutOK'
    BY <2>3 DEF ScopeOK, PhaseOK, OutOK, Named, Asking, GitDirs, Verifies,
                Commands, ResolveCommands, GitCommands
  <2>5. HonestVerdict' /\ NothingLeftOut'
    BY NoResult, CommandsAre DEF TypeOK
  <2>6. QED
    BY <2>1, <2>2, <2>4, <2>5
<1>4. QED
  BY <1>2, <1>3 DEF Resolve

LEMMA ResolveFailureKeeps == ASSUME IInv, ResolveFailure PROVE IInv'
BY GitDirKeeps DEF ResolveFailure, Is, GitDirs

\* A request is refused before any provider is called.
LEMMA RefusalKeeps ==
  ASSUME IInv, pc = "Resolve:rev-parse", Return("INVALID_ARGUMENT") PROVE IInv'
<1>1. /\ result' = "INVALID_ARGUMENT" /\ UNCHANGED <<world, tip, tips, req, scope, order>>
  BY DEF Return, outside
<1>2. Len(scope) < Len(req.ids)
  BY DEF IInv, ScopeOK, ResolveCommands, TypeOK, Requests
<1>3. HonestVerdict'
  BY <1>1, <1>2 DEF HonestVerdict, ReasonTrue, WhoseClock
<1>4. QED
  BY <1>3, ReturnKeeps DEF Codes

\* No provider for it: whatever the tool needs, the server was built without it.
LEMMA UnavailableKeeps ==
  ASSUME IInv, pc = "Resolve:rev-parse", Needs[req.tool] \notin world.built,
         Return(Unavailable[Needs[req.tool]])
  PROVE  IInv'
<1>1. Needs[req.tool] \in {"search", "source", "graph"}
  BY DEF IInv, TypeOK, Requests, Needs, SingleTools, PluralTools, PairTools
<1>2. \/ Needs[req.tool] = "search" /\ Unavailable[Needs[req.tool]] = "SEARCH_PROVIDER_UNAVAILABLE"
      \/ Needs[req.tool] = "source" /\ Unavailable[Needs[req.tool]] = "REPOSITORY_NOT_FOUND"
      \/ Needs[req.tool] = "graph" /\ Unavailable[Needs[req.tool]] = "GRAPH_PROVIDER_UNAVAILABLE"
  BY <1>1 DEF Unavailable
<1>3. result' = Unavailable[Needs[req.tool]] /\ UNCHANGED <<world, tip, tips, req, scope, order>>
  BY DEF Return, outside
<1>4. HonestVerdict'
  BY <1>2, <1>3 DEF HonestVerdict, ReasonTrue, WhoseClock
<1>5. QED
  BY <1>2, <1>4, ReturnKeeps DEF Codes

\* The members of the last context, and the first call.
LEMMA DispatchKeeps ==
  ASSUME IInv, pc = "Resolve:rev-parse", side = Len(req.ids),
         NEW chosen \in Seq(Members), chosen = selectMembers(req.ids[side]), chosen # <<>>,
         req.tool \notin PluralTools => Len(chosen) = 1,
         Dispatch(scope \o chosen)
  PROVE  IInv'
<1> DEFINE members == scope \o chosen
<1>1. /\ scope \in Seq(Members) /\ Len(scope) = side - 1 /\ got = <<>>
      /\ req.ids[side] \in Contexts /\ side \in DOMAIN req.ids
      /\ Len(req.ids) = IF req.tool \in PairTools THEN 2 ELSE 1
  BY DEF IInv, TypeOK, ScopeOK, ResolveCommands, Requests
<1>2. /\ members \in Seq(Members) /\ Len(members) = Len(scope) + Len(chosen) /\ Len(chosen) >= 1
      /\ \A i \in DOMAIN members :
           members[i] = IF i <= Len(scope) THEN scope[i] ELSE chosen[i - Len(scope)]
  BY <1>1
<1>3. \A i \in DOMAIN members : members[i] \in Named
  <2>1. \A i \in DOMAIN chosen : chosen[i] \in Named
    BY <1>1, SelectedAre DEF Named
  <2>2. QED
    BY <1>1, <1>2, <2>1 DEF IInv, ScopeOK
<1>4. /\ req.tool \in SingleTools => Len(members) = 1
      /\ req.tool \in PairTools => Len(members) = 2
      /\ 1 \in 1..Len(members)
  <2> HIDE DEF members
  <2>1. Len(chosen) \in Nat /\ Len(members) = Len(scope) + Len(chosen)
    BY <1>2
  <2>2. req.tool \in SingleTools => Len(scope) = 0 /\ Len(chosen) = 1
    BY <1>1 DEF SingleTools, PluralTools, PairTools
  <2>3. req.tool \in PairTools => Len(scope) = 1 /\ Len(chosen) = 1
    BY <1>1 DEF PluralTools, PairTools
  <2>4. QED
    BY <1>2, <2>1, <2>2, <2>3
<1>5. CASE Return("INVALID_ARGUMENT")
  BY <1>5, RefusalKeeps
<1>6. CASE Needs[req.tool] \notin world.built /\ Return(Unavailable[Needs[req.tool]])
  BY <1>6, UnavailableKeeps
<1>7. CASE /\ req.tool \in PairTools => RepoOf[members[1]] = RepoOf[Last(members)]
           /\ scope' = members /\ Call(1)
           /\ UNCHANGED <<outside, parent, req, side, rev, got, result>>
  <2> HIDE DEF members
  <2>1. First[req.tool] \in {"Do", "rev-parse", "search_graph"} /\ First[req.tool] \in Asking
    BY DEF IInv, TypeOK, Requests, First, SingleTools, PluralTools, PairTools, Asking, Commands,
           ResolveCommands, GitCommands
  <2>2. pc' = First[req.tool] /\ out' = None /\ k' = 1 /\ resp' = None /\ With
    BY <1>7 DEF Call, Run
  <2>3. Asking \subseteq Commands
    BY DEF Asking
  <2> USE <1>7, <2>1, <2>2 DEF IInv, outside
  <2>4. TypeOK'
    BY <1>2, <2>3, WithOrder DEF TypeOK, Worlds, Requests, Given, Commands, ResolveCommands,
      GitCommands
  <2>5. TipsOK' /\ GotOK' /\ OutOK'
    BY <1>1 DEF TipsOK, GotOK, OutOK
  <2>6. ScopeOK'
    <3>1. req.tool \in PluralTools => members = selectMembers(req.ids[1])
      <4>1. req.tool \in PluralTools => scope = <<>> /\ side = 1
        BY <1>1 DEF PluralTools, PairTools
      <4>2. QED
        BY <4>1 DEF members
    <3>2. req.tool \in SingleTools => Len(members) = 1
      BY <1>4
    <3>3. req.tool \notin PluralTools \cup SingleTools =>
            Len(members) = 2 /\ RepoOf[members[1]] = RepoOf[members[2]]
      BY <1>4 DEF TypeOK, Requests, Last
    <3>4. pc' \notin {"idle", "Resolve"} \cup ResolveCommands
      BY DEF ResolveCommands
    <3>5. \A i \in DOMAIN scope' : scope'[i] \in Named'
      BY <1>3 DEF Named
    <3>6. selectMembers(req.ids[1])' = selectMembers(req.ids[1])
      BY DEF selectMembers
    <3>7. 1 \in 1..Len(members)
      BY <1>4
    <3>8. QED
      BY <1>1, <3>1, <3>2, <3>3, <3>4, <3>5, <3>6, <3>7 DEF ScopeOK
  <2>7. PhaseOK'
    BY DEF PhaseOK, First, GitDirs, Verifies, TypeOK, Requests, SingleTools, PluralTools,
      PairTools
  <2>8. HonestVerdict' /\ NothingLeftOut'
    BY NoResult, CommandsAre DEF TypeOK
  <2>9. QED
    BY <2>4, <2>5, <2>6, <2>7, <2>8
<1>8. QED
  BY <1>5, <1>6, <1>7 DEF Dispatch

LEMMA SelectKeeps ==
  ASSUME IInv, pc = "Resolve:rev-parse", Select PROVE IInv'
<1> DEFINE chosen == selectMembers(req.ids[side])
<1>1. req.ids[side] \in Contexts /\ side \in 1..Len(req.ids) /\ req.ids \in Seq(Contexts \cup {None})
  BY DEF IInv, TypeOK, ScopeOK, ResolveCommands, Requests
<1>2. chosen \in Seq(Members) /\ \A i \in DOMAIN chosen : chosen[i] \in Range(Scope[req.ids[side]])
  BY <1>1, SelectedAre
<1>3. CASE Return("INVALID_ARGUMENT")
  BY <1>3, RefusalKeeps
<1>4. CASE /\ chosen # <<>> /\ (req.tool \notin PluralTools => Len(chosen) = 1)
           /\ side = Len(req.ids) /\ Dispatch(scope \o chosen)
  BY <1>2, <1>4, DispatchKeeps
<1>5. CASE /\ chosen # <<>> /\ (req.tool \notin PluralTools => Len(chosen) = 1)
           /\ side < Len(req.ids) /\ side' = side + 1 /\ scope' = chosen
           /\ pc' = "Resolve" /\ out' = None
           /\ UNCHANGED <<outside, parent, order, req, k, rev, resp, got, result>>
  <2> HIDE DEF chosen
  <2>1. side = 1 /\ Len(req.ids) = 2 /\ Len(chosen) = 1 /\ got = <<>>
    BY <1>1, <1>5 DEF IInv, TypeOK, ScopeOK, ResolveCommands, PairTools, PluralTools
  <2>2. \A i \in DOMAIN chosen : chosen[i] \in Named
    BY <1>1, <1>2 DEF Named
  <2> USE <1>5 DEF IInv, outside
  <2>3. TypeOK'
    <3>1. side' \in 1..Len(req.ids') /\ scope' \in Seq(Members)
      BY <1>2, <2>1
    <3>2. result' = None /\ pc' \notin Commands
      BY DEF TypeOK, Commands, ResolveCommands, GitCommands
    <3>3. QED
      BY <3>1, <3>2 DEF TypeOK, Worlds, Requests, Given
  <2>4. TipsOK' /\ GotOK'
    BY <2>1 DEF TipsOK, GotOK
  <2>5. ScopeOK' /\ PhaseOK' /\ OutOK'
    BY <2>1, <2>2 DEF ScopeOK, PhaseOK, OutOK, Named, Asking, GitDirs, Verifies,
                      Commands, ResolveCommands, GitCommands
  <2>6. HonestVerdict' /\ NothingLeftOut'
    BY NoResult, CommandsAre DEF TypeOK
  <2>7. QED
    BY <2>3, <2>4, <2>5, <2>6
<1>6. QED
  BY <1>1, <1>2, <1>3, <1>4, <1>5 DEF Select

LEMMA ResolveMemberKeeps == ASSUME IInv, ResolveMember PROVE IInv'
<1>1. pc = "Resolve:rev-parse" /\ out # None
  BY DEF ResolveMember, Is
<1>2. CASE out # Failed /\ k >= Len(Scope[req.ids[side]]) /\ Select
  BY <1>1, <1>2, SelectKeeps
<1>3. CASE /\ out # Failed /\ k < Len(Scope[req.ids[side]]) /\ k' = k + 1 /\ Run(pc)
           /\ UNCHANGED <<outside, parent, order, req, side, scope, rev, resp, got, result>>
  <2> USE <1>1, <1>3 DEF IInv, outside, Run
  <2>1. TypeOK'
    BY TypeSame, CommandsAre DEF TypeOK
  <2>2. TipsOK' /\ GotOK'
    BY GotSame
  <2>3. k' \in 1..Len(Scope[req.ids[side]]) /\ Named' = Named
    BY DEF ScopeOK, TypeOK, Named, ResolveCommands
  <2>4. ScopeOK'
    BY <2>3 DEF ScopeOK, Asking, ResolveCommands
  <2>5. PhaseOK' /\ OutOK'
    BY DEF PhaseOK, OutOK, GitDirs, Verifies
  <2>6. HonestVerdict' /\ NothingLeftOut'
    BY NoResult, CommandsAre DEF TypeOK
  <2>7. QED
    BY <2>1, <2>2, <2>4, <2>5, <2>6
<1>4. CASE out = Failed /\ Ended # None /\ Return(Ended)
  <2>1. order # <<>>
    BY <1>4, EndedIs DEF IInv, TypeOK
  <2>2. QED
    BY <1>4, <2>1, ClockReturn
<1>5. CASE out = Failed /\ Ended = None /\ Then("Resolve:git-dir")
  <2>1. order = <<>> /\ pc \in RevParses /\ pc \in Commands
    BY <1>1, <1>5, EndedIs, NothingSaid DEF IInv, TypeOK, RevParses, Commands, ResolveCommands,
      Codes
  <2>2. ~Readable(Asked) \/ tip[Asked] = Nothing
    BY <1>1, <1>5, <2>1, NothingSaid DEF IInv, OutOK
  <2>3. UNCHANGED <<world, tip, order, req, side, scope, k>> /\ pc' = "Resolve:git-dir"
    BY <1>5 DEF Then, Run, outside, query
  <2>4. Asked' = Asked /\ (Readable(Asked)' <=> Readable(Asked))
    BY <1>1, <2>3 DEF Asked, Readable, ResolveCommands
  <2>5. order' # <<>> \/ ~Readable(Asked)' \/ tip'[Asked'] = Nothing
    BY <2>2, <2>3, <2>4
  <2>6. PhaseOK'
    BY <2>3, <2>5 DEF PhaseOK, Verifies
  <2>7. QED
    BY <1>1, <1>5, <2>1, <2>6, ThenKeeps DEF Commands, ResolveCommands
<1>6. k \in Nat /\ Len(Scope[req.ids[side]]) \in Nat
  BY <1>1 DEF IInv, TypeOK, ScopeOK, ResolveCommands
<1>7. QED
  BY <1>2, <1>3, <1>4, <1>5, <1>6 DEF ResolveMember
-----------------------------------------------------------------------------
(* adapters/git                                                            *)

\* What a program says that is neither killed nor about a revision.
LEMMA OutIs ==
  ASSUME IInv, pc \in Asking \ RevParses, out # None, order = <<>> \/ out # Failed
  PROVE  out = Answer(pc, scope[k])
BY AskingIs DEF IInv, OutOK, Asking

LEMMA resolveKeeps == ASSUME IInv, resolve PROVE IInv'
<1>1. pc = "rev-parse" /\ out # None /\ out # Failed /\ pc \in Asking /\ pc \in RevParses
  BY DEF resolve, Is, Asking, RevParses, Commands, ResolveCommands, GitCommands
<1>2. out \in tips[scope[k]] \cap Commits /\ Readable(scope[k])
  BY <1>1, AskingIs DEF IInv, OutOK, Asking
<1>3. req.tool \in {"get_code", "search_history", "compare_code"}
  BY <1>1 DEF IInv, PhaseOK
<1>4. /\ k \in 1..Len(scope) /\ scope \in Seq(Members)
      /\ req.tool = "compare_code" => k \in 1..2 /\ Len(scope) = 2
                                      /\ RepoOf[scope[1]] = RepoOf[scope[2]]
      /\ req.tool = "get_code" => k = 1
  BY <1>1, AskingIs DEF IInv, ScopeOK, PluralTools, SingleTools
<1>5. PICK i \in 1..2 : (req.tool = "compare_code" => i = k) /\ (req.tool # "compare_code" => i = 1)
                         /\ rev' = [rev EXCEPT ![i] = out]
  <2>1. CASE req.tool = "compare_code"
    BY <1>4, <2>1 DEF resolve, Pin
  <2>2. CASE req.tool # "compare_code"
    BY <2>2 DEF resolve, Pin
  <2>3. QED
    BY <2>1, <2>2
<1>6. rev' \in [1..2 -> Commits \cup {None}] /\ rev'[i] = out
      /\ \A j \in 1..2 : j # i => rev'[j] = rev[j]
  <2>1. rev \in [1..2 -> Commits \cup {None}] /\ out \in Commits
    BY <1>2 DEF IInv, TypeOK
  <2>2. QED
    BY <1>5, <2>1
<1>7. UNCHANGED <<outside, parent, order, req, side, scope, resp, got, result>>
  BY DEF resolve
<1>8. \/ req.tool = "compare_code" /\ k = 1 /\ k' = 2 /\ pc' = "rev-parse" /\ out' = None
      \/ /\ k' = k /\ out' = None
         /\ \/ req.tool = "get_code" /\ pc' = "show"
            \/ req.tool = "search_history" /\ pc' = "log"
            \/ req.tool = "compare_code" /\ k = 2 /\ pc' = "diff"
  BY <1>3, <1>4 DEF resolve, Run, Ask
<1> USE <1>7 DEF IInv, outside
<1>9. TypeOK'
  <2>1. k' \in Nat \ {0} /\ pc' \in Commands /\ out' = None
    BY <1>4, <1>8 DEF Commands, GitCommands
  <2>2. result' = None
    BY <1>1 DEF TypeOK
  <2>3. QED
    BY <1>6, <2>1, <2>2 DEF TypeOK, Worlds, Requests, Given
<1>10. TipsOK' /\ OutOK'
  BY <1>8 DEF TipsOK, OutOK
<1>11. GotOK'
  <2>1. req.tool \in {"get_code", "compare_code"} => got = <<>>
    BY <1>1, <1>4 DEF ScopeOK, TypeOK
  <2>2. QED
    BY <1>3, <2>1 DEF GotOK, TrueOf
<1>12. ScopeOK'
  BY <1>1, <1>4, <1>8 DEF ScopeOK, Named, selectMembers, Asking, Commands, ResolveCommands,
    GitCommands,
     SingleTools, PluralTools
<1>13. /\ rev'[i] \in tips[scope[k]] \cap Commits
       /\ req.tool = "compare_code" /\ k = 2 => rev'[1] \in tips[scope[1]] \cap Commits
  BY <1>1, <1>2, <1>5, <1>6 DEF PhaseOK, Pinned
<1>14. PhaseOK'
  <2>1. \A m : Readable(m)' <=> Readable(m)
    BY DEF Readable
  <2>2. CASE k' = 2 /\ pc' = "rev-parse" /\ req.tool = "compare_code" /\ k = 1
    BY <1>5, <1>13, <2>2 DEF PhaseOK, Pinned, GitDirs, Verifies
  <2>3. CASE k' = k /\ pc' \in {"show", "log", "diff"}
    BY <1>2, <1>3, <1>4, <1>5, <1>8, <1>13, <2>1, <2>3 DEF PhaseOK, Pinned, GitDirs, Verifies
  <2>4. QED
    BY <1>8, <2>2, <2>3
<1>15. HonestVerdict' /\ NothingLeftOut'
  BY <1>1, <1>8, NothingSaid DEF TypeOK, HonestVerdict, ReasonTrue, WhoseClock, NothingLeftOut,
    Codes
<1>16. QED
  BY <1>9, <1>10, <1>11, <1>12, <1>14, <1>15

\* A revision that was not named: its repository is asked for.
LEMMA GitDirNext ==
  ASSUME IInv, NEW program \in {"git-dir", "Verify:git-dir"}, out = Failed, Then(program),
         pc = IF program = "git-dir" THEN "rev-parse" ELSE "Verify:rev-parse"
  PROVE  IInv'
<1>1. pc \in Asking /\ pc \in RevParses /\ program \in Asking
  BY DEF Asking, RevParses, Commands, ResolveCommands, GitCommands
<1>2. order # <<>> \/ ~Readable(scope[k]) \/ tip[scope[k]] = Nothing
  BY <1>1, AskingIs, NothingSaid DEF IInv, OutOK, Asking
<1>3. UNCHANGED <<outside, order, query>> /\ pc' = program
  BY DEF Then, Run
<1>4. Asked' = scope[k]
  BY <1>1, <1>3 DEF Asked, Asking, query
<1>5. PhaseOK'
  BY <1>2, <1>3, <1>4 DEF IInv, PhaseOK, Readable, Pinned, Verifies, outside, query
<1>6. QED
  BY <1>1, <1>5, ThenKeeps DEF Asking

LEMMA resolveFailsKeeps == ASSUME IInv, resolveFails PROVE IInv'
BY GitDirNext DEF resolveFails, Is

LEMMA resolveVerdictKeeps == ASSUME IInv, resolveVerdict PROVE IInv'
BY GitDirKeeps DEF resolveVerdict, Is, GitDirs

LEMMA VerifyFailureKeeps == ASSUME IInv, VerifyFailure PROVE IInv'
BY GitDirKeeps DEF VerifyFailure, Is, GitDirs

\* What git commands on pinned commits are asked about.
LEMMA PinnedIs ==
  ASSUME IInv, pc \in {"show", "ls-tree", "log", "diff"} \cup Verifies
  PROVE  /\ pc \in Asking /\ Readable(scope[k])
         /\ rev[1] \in Commits /\ scope[1] \in Queried /\ scope[1] \in Members
         /\ req.tool = "get_code" =>
              k = 1 /\ got = <<>> /\ Queried = {scope[1]} /\ Pinned(1, scope[1])
         /\ req.tool = "search_history" => Pinned(1, scope[k]) /\ Len(got) + 1 = k
         /\ req.tool = "compare_code" =>
              /\ k = 2 /\ got = <<>> /\ Pinned(1, scope[1]) /\ Pinned(2, scope[2])
              /\ rev[2] \in Commits /\ Queried = {scope[1], scope[2]}
<1>1. pc \in Asking
  BY DEF Verifies, Asking, Commands, ResolveCommands, GitCommands
<1>2. /\ scope \in Seq(Members) /\ k \in 1..Len(scope) /\ scope[1] \in Members
      /\ got \in Seq(Given)
  BY <1>1, AskingIs DEF IInv, TypeOK
<1>3. /\ req.tool = "get_code" => Len(scope) = 1 /\ k = 1 /\ Len(got) = 0
      /\ req.tool = "search_history" => Len(got) + 1 = k
      /\ req.tool = "compare_code" => Len(scope) = 2 /\ got = <<>>
  BY <1>1, <1>2 DEF IInv, ScopeOK, SingleTools, PluralTools
<1>4. /\ Readable(scope[k])
      /\ IF req.tool = "compare_code" THEN k = 2 /\ Pinned(1, scope[1]) /\ Pinned(2, scope[2])
                                      ELSE Pinned(1, scope[k])
  BY DEF IInv, PhaseOK
<1>5. 1 \in DOMAIN scope
  BY <1>2
<1>6. scope[1] \in Queried
  BY <1>5 DEF Queried, Range
<1>7. req.tool = "get_code" => Queried = {scope[1]}
  BY <1>2, <1>3 DEF Queried, Range
<1>8. req.tool = "compare_code" => Queried = {scope[1], scope[2]}
  BY <1>2, <1>3 DEF Queried, Range
<1>9. QED
  BY <1>1, <1>2, <1>3, <1>4, <1>6, <1>7, <1>8 DEF Pinned

\* How a verdict about the world is shown to be true of it.
LEMMA ReturnSame ==
  ASSUME NEW code, Return(code)
  PROVE  /\ result' = code /\ UNCHANGED <<world, tip, tips, req, scope, order, resp>>
         /\ Named' = Named /\ Queried' = Queried
         /\ \A m : Readable(m)' <=> Readable(m)
         /\ \A m, S : Had(m, S)' <=> Had(m, S)
BY DEF Return, outside, Named, Queried, Readable, Had

LEMMA ReadKeeps == ASSUME IInv, Read PROVE IInv'
<1>1. pc = "show" /\ out # None /\ req.tool = "get_code"
  BY DEF Read, Is, IInv, PhaseOK
<1>2. /\ k = 1 /\ got = <<>> /\ Pinned(1, scope[1]) /\ rev[1] \in Commits /\ Readable(scope[k])
      /\ pc \in Asking \ RevParses
  BY <1>1, PinnedIs DEF RevParses
<1>3. order = <<>> \/ out # Failed => out = show(rev[1])
  BY <1>1, <1>2, OutIs DEF Answer
<1>4. CASE out \notin Short \cup {Failed} /\ Got(out)
  <2>1. out = Text[rev[1]]
    BY <1>3, <1>4 DEF show
  <2>2. out \in Given /\ TrueOf(Len(got) + 1, out)
    BY <1>1, <1>2, <1>4, <2>1 DEF Given, TrueOf
  <2>3. QED
    BY <1>1, <1>2, <1>4, <2>2, GotKeeps
<1>5. CASE out = Failed /\ Ended # None /\ Return(Ended)
  <2>1. order # <<>>
    BY <1>5, EndedIs DEF IInv, TypeOK
  <2>2. QED
    BY <1>5, <2>1, ClockReturn
<1>6. CASE out = Failed /\ Ended = None /\ Then("ls-tree")
  <2>1. order = <<>>
    BY <1>6, EndedIs, NothingSaid DEF IInv, TypeOK, Codes
  <2>2. Text[rev[1]] \in Lost \cup {NoFile}
    BY <1>2, <1>3, <1>6, <2>1, NothingSaid DEF show
  <2>3. UNCHANGED <<outside, order, query>> /\ pc' = "ls-tree"
    BY <1>6 DEF Then, Run
  <2>4. PhaseOK'
    BY <1>1, <1>2, <2>2, <2>3 DEF PhaseOK, Readable, Pinned, GitDirs, Verifies, outside, query
  <2>5. QED
    BY <1>1, <1>6, <2>4, ThenKeeps DEF Commands, ResolveCommands, GitCommands
<1>7. CASE out # Failed /\ out \in Short /\ Return("INVALID_ARGUMENT")
  <2>1. Text[rev[1]] \in Short
    BY <1>3, <1>7 DEF show
  <2>2. \E m \in Queried : Had(m, Short)
    BY <1>1, <1>2, <2>1, PinnedIs, ConstantsAssumption DEF Had, Pinned
  <2>3. result' = "INVALID_ARGUMENT" /\ req' = req /\ \E m \in Queried' : Had(m, Short)'
    BY <1>7, <2>2, ReturnSame
  <2>4. HonestVerdict'
    BY <1>1, <2>3 DEF HonestVerdict, ReasonTrue, WhoseClock
  <2>5. QED
    BY <1>7, <2>4, ReturnKeeps DEF Codes
<1>8. QED
  BY <1>4, <1>5, <1>6, <1>7, NothingSaid DEF Read

LEMMA lsTreeVerdictKeeps == ASSUME IInv, lsTreeVerdict PROVE IInv'
<1>1. pc = "ls-tree" /\ out # None /\ req.tool \in {"get_code", "compare_code"}
  BY DEF lsTreeVerdict, Is, IInv, PhaseOK
<1>2. /\ got = <<>> /\ Pinned(1, scope[1]) /\ Readable(scope[k]) /\ rev[1] \in Commits
      /\ pc \in Asking \ RevParses
      /\ req.tool = "compare_code" => k = 2 /\ Pinned(2, scope[2]) /\ Text[rev[1]] = Text[rev[2]]
      /\ req.tool = "get_code" => k = 1 /\ Text[rev[1]] \in Lost \cup {NoFile}
  BY <1>1, PinnedIs DEF RevParses, IInv, PhaseOK
<1>3. order = <<>> \/ out # Failed => out = lsTree(rev[1])
  BY <1>1, <1>2, OutIs DEF Answer
<1>4. CASE out \in {Failed, "none"} /\ Return(Override("INVALID_ARGUMENT"))
  <2>1. ASSUME order = <<>>, Return("INVALID_ARGUMENT") PROVE HonestVerdict'
    <3>1. Text[rev[1]] = NoFile
      BY <1>3, <1>4, <2>1, NothingSaid DEF lsTree
    <3>2. \A m \in Queried : Had(m, {NoFile})
      BY <1>1, <1>2, <3>1, PinnedIs, ConstantsAssumption DEF Had, Pinned
    <3>3. result' = "INVALID_ARGUMENT" /\ req' = req /\ \A m \in Queried' : Had(m, {NoFile})'
      BY <2>1, <3>2, ReturnSame
    <3>4. QED
      BY <1>1, <3>3 DEF HonestVerdict, ReasonTrue, WhoseClock
  <2>2. QED
    BY <1>4, <2>1, VerdictReturn DEF Codes
<1>5. ASSUME out \notin {Failed, "none"} PROVE Text[rev[1]] # NoFile
  BY <1>3, <1>5 DEF lsTree
<1>6. CASE out \notin {Failed, "none"} /\ req.tool = "compare_code" /\ Got("UNCHANGED")
  <2>1. "UNCHANGED" \in Given /\ TrueOf(Len(got) + 1, "UNCHANGED")
    BY <1>2, <1>5, <1>6 DEF Given, TrueOf
  <2>2. QED
    BY <1>2, <1>6, <2>1, GotKeeps
<1>7. CASE out \notin {Failed, "none"} /\ req.tool # "compare_code" /\ Then("Verify:rev-parse")
  <2>1. UNCHANGED <<outside, order, query>> /\ pc' = "Verify:rev-parse"
    BY <1>7 DEF Then, Run
  <2>2. PhaseOK'
    BY <1>1, <1>2, <1>5, <1>7, <2>1 DEF PhaseOK, Readable, Pinned, GitDirs, Verifies, outside,
      query
  <2>3. QED
    BY <1>1, <1>7, <2>2, ThenKeeps DEF Commands, ResolveCommands, GitCommands
<1>8. QED
  BY <1>4, <1>6, <1>7 DEF lsTreeVerdict

LEMMA VerifyDeclaredKeeps == ASSUME IInv, VerifyDeclared PROVE IInv'
<1>1. pc = "Verify:rev-parse" /\ out # None /\ req.tool = "get_code"
  BY DEF VerifyDeclared, Is, IInv, PhaseOK, Verifies
<1>2. CASE out = Failed /\ Then("Verify:git-dir")
  BY <1>1, <1>2, GitDirNext
<1>3. CASE /\ out # Failed /\ rev' = [rev EXCEPT ![2] = out] /\ Run("Verify:HEAD")
           /\ UNCHANGED <<outside, parent, order, req, side, scope, k, resp, got, result>>
  <2>1. /\ k = 1 /\ got = <<>> /\ Pinned(1, scope[1]) /\ Readable(scope[k]) /\ Text[rev[1]] \in Lost
        /\ pc \in Asking
    BY <1>1, PinnedIs DEF Verifies, IInv, PhaseOK
  <2>2. out \in tips[scope[1]] \cap Commits
    BY <1>1, <1>3, <2>1, AskingIs DEF IInv, OutOK, RevParses, Asking
  <2>3. rev' \in [1..2 -> Commits \cup {None}] /\ rev'[1] = rev[1] /\ rev'[2] = out
    <3>1. rev \in [1..2 -> Commits \cup {None}]
      BY DEF IInv, TypeOK
    <3>2. QED
      BY <1>3, <2>2, <3>1
  <2>4. pc' = "Verify:HEAD" /\ out' = None
    BY <1>3 DEF Run
  <2> USE <1>3 DEF IInv, outside
  <2>5. TypeOK'
    BY <1>1, <2>3, <2>4 DEF TypeOK, Worlds, Requests, Given, Commands, ResolveCommands,
      GitCommands
  <2>6. TipsOK' /\ GotOK' /\ OutOK'
    BY <2>1, <2>4 DEF TipsOK, GotOK, OutOK
  <2>7. ScopeOK'
    BY <1>1, <2>1, <2>4
       DEF ScopeOK, Named, selectMembers, Asking, Commands, ResolveCommands, GitCommands
  <2>8. PhaseOK'
    BY <1>1, <2>1, <2>2, <2>3, <2>4 DEF PhaseOK, Readable, Pinned, GitDirs, Verifies
  <2>9. HonestVerdict' /\ NothingLeftOut'
    BY <1>1, <2>4, NothingSaid
       DEF TypeOK, HonestVerdict, ReasonTrue, WhoseClock, NothingLeftOut, Codes
  <2>10. QED
    BY <2>5, <2>6, <2>7, <2>8, <2>9
<1>4. QED
  BY <1>2, <1>3 DEF VerifyDeclared

\* A file that a tree has and git cannot read: lost, or not what is checked out.
LEMMA VerifyWorktreeKeeps == ASSUME IInv, VerifyWorktree PROVE IInv'
<1>1. pc = "Verify:HEAD" /\ out # None /\ req.tool = "get_code"
  BY DEF VerifyWorktree, Is, IInv, PhaseOK, Verifies
<1>2. /\ k = 1 /\ Pinned(1, scope[1]) /\ Pinned(2, scope[1]) /\ Readable(scope[k])
      /\ Text[rev[1]] \in Lost /\ pc \in Asking \ RevParses /\ scope[1] \in Queried
  BY <1>1, PinnedIs DEF Verifies, IInv, PhaseOK, RevParses
<1>3. Had(scope[1], Lost)
  BY <1>2, ConstantsAssumption DEF Had, Pinned
<1>4. order = <<>> \/ out # Failed => out = world.head[RepoOf[scope[1]]]
  BY <1>1, <1>2, OutIs DEF Answer
<1>5. CASE out \in {Failed, rev[2]} /\ Return(Override("REPOSITORY_NOT_FOUND"))
  <2>1. ASSUME order = <<>>, Return("REPOSITORY_NOT_FOUND") PROVE HonestVerdict'
    BY <1>2, <1>3, <2>1, ReturnSame DEF HonestVerdict, ReasonTrue, WhoseClock
  <2>2. QED
    BY <1>5, <2>1, VerdictReturn DEF Codes
<1>6. CASE out \notin {Failed, rev[2]} /\ Return(Override("SOURCE_MISMATCH"))
  <2>1. ASSUME order = <<>>, Return("SOURCE_MISMATCH") PROVE HonestVerdict'
    <3>1. tips[scope[1]] # {world.head[RepoOf[scope[1]]]}
      BY <1>2, <1>4, <1>6 DEF Pinned
    <3>2. QED
      BY <1>2, <1>3, <2>1, <3>1, ReturnSame DEF HonestVerdict, ReasonTrue, WhoseClock
  <2>2. QED
    BY <1>6, <2>1, VerdictReturn DEF Codes
<1>7. QED
  BY <1>5, <1>6 DEF VerifyWorktree

LEMMA SearchHistoryKeeps == ASSUME IInv, SearchHistory PROVE IInv'
<1>1. pc = "log" /\ out # None /\ req.tool = "search_history"
  BY DEF SearchHistory, Is, IInv, PhaseOK
<1>2. /\ Pinned(1, scope[k]) /\ Readable(scope[k]) /\ rev[1] \in Commits /\ Len(got) + 1 = k
      /\ pc \in Asking \ RevParses
  BY <1>1, PinnedIs DEF RevParses
<1>3. order = <<>> \/ out # Failed => out = rev[1]
  BY <1>1, <1>2, OutIs DEF Answer
<1>4. CASE out = Failed /\ Return(Override("REPOSITORY_NOT_FOUND"))
  <2>1. order # <<>>
    BY <1>2, <1>3, <1>4, NothingSaid
  <2>2. QED
    BY <1>4, <2>1, VerdictReturn DEF Codes
<1>5. CASE out # Failed /\ Got(out)
  <2>1. out \in Given /\ TrueOf(Len(got) + 1, out)
    BY <1>1, <1>2, <1>3, <1>5 DEF Given, TrueOf, Pinned
  <2>2. QED
    BY <1>1, <1>2, <1>5, <2>1, GotKeeps
<1>6. QED
  BY <1>4, <1>5 DEF SearchHistory

LEMMA DiffKeeps == ASSUME IInv, Diff PROVE IInv'
<1>1. pc = "diff" /\ out # None /\ req.tool = "compare_code"
  BY DEF Diff, Is, IInv, PhaseOK
<1>2. /\ k = 2 /\ got = <<>> /\ Pinned(1, scope[1]) /\ Pinned(2, scope[2]) /\ Readable(scope[k])
      /\ rev[1] \in Commits /\ rev[2] \in Commits /\ Queried = {scope[1], scope[2]}
      /\ pc \in Asking \ RevParses
  BY <1>1, PinnedIs DEF RevParses
<1>3. order = <<>> \/ out # Failed => out = gitDiff(rev[1], rev[2])
  BY <1>1, <1>2, OutIs DEF Answer
<1>4. CASE out = Failed /\ Return(Override("REPOSITORY_NOT_FOUND"))
  <2>1. ASSUME order = <<>>, Return("REPOSITORY_NOT_FOUND") PROVE HonestVerdict'
    <3>1. {Text[rev[1]], Text[rev[2]]} \cap Lost # {}
      BY <1>3, <1>4, <2>1, NothingSaid DEF gitDiff
    <3>2. \E m \in Queried : Had(m, Lost)
      BY <1>2, <3>1, ConstantsAssumption DEF Had, Pinned
    <3>3. QED
      BY <2>1, <3>2, ReturnSame DEF HonestVerdict, ReasonTrue, WhoseClock
  <2>2. QED
    BY <1>4, <2>1, VerdictReturn DEF Codes
<1>5. CASE out = "empty" /\ Then("ls-tree")
  <2>1. Text[rev[1]] = Text[rev[2]]
    BY <1>3, <1>5, NothingSaid DEF gitDiff
  <2>2. UNCHANGED <<outside, order, query>> /\ pc' = "ls-tree"
    BY <1>5 DEF Then, Run
  <2>3. PhaseOK'
    BY <1>1, <1>2, <2>1, <2>2 DEF PhaseOK, Readable, Pinned, GitDirs, Verifies, outside, query
  <2>4. QED
    BY <1>1, <1>5, <2>3, ThenKeeps DEF Commands, ResolveCommands, GitCommands
<1>6. CASE out \notin {Failed, "empty"} /\ Got(out)
  <2>1. /\ Text[rev[1]] # Text[rev[2]]
        /\ out = CASE Text[rev[1]] = NoFile -> "ADDED"
                   [] Text[rev[2]] = NoFile -> "REMOVED"
                   [] OTHER                 -> "MODIFIED"
    BY <1>3, <1>6 DEF gitDiff
  <2>2. out \in {"ADDED", "REMOVED", "MODIFIED"}
    BY <2>1
  <2>3. out \in Given
    BY <1>1, <2>2 DEF Given
  <2>4. {Text[rev[1]], Text[rev[2]]} # {NoFile}
    BY <2>1
  <2>5. TrueOf(Len(got) + 1, out)
    BY <1>1, <1>2, <2>1, <2>4 DEF TrueOf
  <2>6. QED
    BY <1>2, <1>6, <2>3, <2>5, GotKeeps
<1>7. QED
  BY <1>4, <1>5, <1>6 DEF Diff
-----------------------------------------------------------------------------
(* adapters/zoekt and adapters/cbm                                         *)

LEMMA postKeeps == ASSUME IInv, post PROVE IInv'
<1>1. pc = "Do" /\ out # None /\ req.tool = "search_code" /\ pc \in Asking \ RevParses
  BY DEF post, Is, IInv, PhaseOK, Asking, RevParses, Commands, ResolveCommands, GitCommands
<1>2. order = <<>> \/ out # Failed =>
        out = IF world.zoekt = "unreachable" THEN Failed ELSE world.zoekt
  BY <1>1, OutIs DEF Answer
<1>3. world.zoekt \in Searches /\ Failed \notin Searches
  BY NothingSaid DEF IInv, TypeOK, Worlds
<1>4. CASE out = Failed /\ Return(Override("SEARCH_PROVIDER_UNAVAILABLE"))
  <2>1. ASSUME order = <<>>, Return("SEARCH_PROVIDER_UNAVAILABLE") PROVE HonestVerdict'
    <3>1. world.zoekt = "unreachable"
      BY <1>2, <1>3, <1>4, <2>1
    <3>2. QED
      BY <2>1, <3>1, ReturnSame DEF HonestVerdict, ReasonTrue, WhoseClock
  <2>2. QED
    BY <1>4, <2>1, VerdictReturn DEF Codes
<1>5. CASE out = "rejects" /\ Return("INVALID_ARGUMENT")
  <2>1. world.zoekt = "rejects"
    BY <1>2, <1>3, <1>5 DEF Searches
  <2>2. HonestVerdict'
    BY <1>1, <1>5, <2>1, ReturnSame DEF HonestVerdict, ReasonTrue, WhoseClock
  <2>3. QED
    BY <1>5, <2>2, ReturnKeeps DEF Codes
<1>6. CASE out = "broken" /\ Return("SEARCH_PROVIDER_UNAVAILABLE")
  <2>1. world.zoekt = "broken"
    BY <1>2, <1>3, <1>6 DEF Searches
  <2>2. HonestVerdict'
    BY <1>6, <2>1, ReturnSame DEF HonestVerdict, ReasonTrue, WhoseClock
  <2>3. QED
    BY <1>6, <2>2, ReturnKeeps DEF Codes
<1>7. CASE out \notin {Failed, "rejects", "broken"} /\ Responded
  <2>1. out = world.zoekt /\ out \in {"answers", "garbled"}
    BY <1>2, <1>3, <1>7 DEF Searches
  <2> USE <1>1, <1>7, <2>1 DEF IInv, Responded, Run, outside
  <2>2. TypeOK'
    BY TypeSame, CommandsAre DEF TypeOK, Searches, Commands, GitCommands
  <2>3. TipsOK' /\ GotOK'
    BY GotSame
  <2>4. ScopeOK'
    BY DEF ScopeOK, Named, Asking, selectMembers, Commands, ResolveCommands, GitCommands
  <2>5. PhaseOK' /\ OutOK'
    BY DEF PhaseOK, OutOK, GitDirs, Verifies
  <2>6. HonestVerdict' /\ NothingLeftOut'
    BY NoResult, CommandsAre DEF TypeOK
  <2>7. QED
    BY <2>2, <2>3, <2>4, <2>5, <2>6
<1>8. QED
  BY <1>2, <1>3, <1>4, <1>5, <1>6, <1>7 DEF post, Searches

LEMMA SearchKeeps == ASSUME IInv, Search PROVE IInv'
<1>1. pc = "Decode" /\ out # None /\ req.tool = "search_code" /\ pc \in Asking \ RevParses
  BY DEF Search, Is, IInv, PhaseOK, Asking, RevParses, Commands, ResolveCommands, GitCommands
<1>2. order = <<>> \/ out # Failed =>
        out = IF world.zoekt = "garbled" THEN Failed ELSE Loose[scope[k]]
  BY <1>1, OutIs DEF Answer
<1>3. /\ Asked = scope[k] /\ scope[k] \in Members /\ Len(got) + 1 = k
      /\ Loose[scope[k]] \in SUBSET Members /\ Loose[scope[k]] # Failed
  <2>1. Asked = scope[k] /\ scope[k] \in Members /\ k \in 1..Len(scope) /\ scope \in Seq(Members)
    BY <1>1, AskingIs
  <2>2. Len(got) = k - 1
    BY <1>1 DEF IInv, ScopeOK
  <2>3. QED
    BY <2>1, <2>2, NothingSaid, ConstantsAssumption
<1>4. CASE out = Failed /\ Return("SEARCH_PROVIDER_UNAVAILABLE")
  <2>1. resp = world.zoekt /\ resp \in {"answers", "garbled"}
    BY <1>1 DEF IInv, PhaseOK
  <2>2. world.zoekt = "garbled" \/ (order # <<>> /\ resp = "answers")
    BY <1>2, <1>3, <1>4, <2>1
  <2>3. HonestVerdict'
    BY <1>4, <2>2, ReturnSame DEF HonestVerdict, ReasonTrue, WhoseClock
  <2>4. QED
    BY <1>4, <2>3, ReturnKeeps DEF Codes
<1>5. CASE out # Failed /\ Got(Matches(Asked, out))
  <2>1. Matches(Asked, out) \in Given /\ TrueOf(Len(got) + 1, Matches(Asked, out))
    BY <1>1, <1>2, <1>3, <1>5 DEF Given, TrueOf, Matches
  <2>2. QED
    BY <1>1, <1>5, <2>1, GotKeeps
<1>6. QED
  BY <1>4, <1>5 DEF Search

\* What CBM says of the member it is asked about.
LEMMA CbmIs ==
  ASSUME IInv, pc \in {"search_graph", "trace_path", "locate"}, out # None
  PROVE  /\ pc \in Asking \ RevParses /\ req.tool \in {"trace_calls", "compare_calls"}
         /\ scope[k] \in Queried /\ Len(got) + 1 = k
         /\ req.tool = "trace_calls" => Queried = {scope[k]}
         /\ order = <<>> /\ out = Failed => ~world.cbm
         /\ out # Failed => out = IF pc = "locate" THEN "nodes" ELSE world.symbol[scope[k]]
         /\ out # Failed /\ pc # "locate" => out \in Symbols
<1>1. pc \in Asking \ RevParses /\ req.tool \in {"trace_calls", "compare_calls"}
  BY DEF IInv, PhaseOK, Asking, RevParses, Commands, ResolveCommands, GitCommands
<1>2. scope \in Seq(Members) /\ k \in 1..Len(scope) /\ scope[k] \in Members
  BY <1>1, AskingIs
<1>3. (req.tool = "trace_calls" => Len(scope) = 1) /\ Len(got) = k - 1
  BY <1>1 DEF IInv, ScopeOK, SingleTools, PluralTools
<1>4. scope[k] \in Queried /\ (req.tool = "trace_calls" => Queried = {scope[k]}) /\ Len(got) + 1 = k
  BY <1>2, <1>3 DEF Queried, Range
<1>5. world.symbol[scope[k]] \in Symbols
  BY <1>2 DEF IInv, TypeOK, Worlds
<1>6. Answer(pc, scope[k]) = IF world.cbm THEN IF pc = "locate" THEN "nodes" ELSE world.symbol[scope[k]]
                             ELSE Failed
  BY DEF Answer
<1>7. QED
  BY <1>1, <1>4, <1>5, <1>6, OutIs, NothingSaid

\* A side without an answer fails the query; one without the symbol is an answer.
LEMMA traceSideKeeps ==
  ASSUME IInv, pc \in {"search_graph", "trace_path", "locate"}, out # None,
         NEW code \in {"GRAPH_PROVIDER_UNAVAILABLE", "SYMBOL_NOT_FOUND", "SYMBOL_AMBIGUOUS"},
         traceSide(Override(code)),
         order = <<>> =>
           /\ code = "GRAPH_PROVIDER_UNAVAILABLE" => ~world.cbm
           /\ code = "SYMBOL_NOT_FOUND" => world.symbol[scope[k]] \in {"absent", "variable"}
           /\ code = "SYMBOL_AMBIGUOUS" => world.symbol[scope[k]] \in {"ambiguous", "overloaded"}
  PROVE  IInv'
<1>1. order \in Seq(Clocks)
  BY DEF IInv, TypeOK
<1>2. Override(code) = IF order = <<>> THEN code ELSE Ended
  BY <1>1, OverrideIs
<1>3. CASE order = <<>> /\ req.tool = "compare_calls" /\ code = "SYMBOL_NOT_FOUND"
  <2>1. Got("absent")
    BY <1>2, <1>3 DEF traceSide
  <2>2. "absent" \in Given /\ TrueOf(Len(got) + 1, "absent")
    BY <1>3, CbmIs DEF Given, TrueOf
  <2>3. QED
    BY <1>3, <2>1, <2>2, CbmIs, GotKeeps
<1>4. CASE order # <<>> \/ req.tool # "compare_calls" \/ code # "SYMBOL_NOT_FOUND"
  <2>1. Return(Override(code))
    BY <1>1, <1>2, <1>4, EndedIs DEF traceSide
  <2>2. ASSUME order = <<>>, Return(code) PROVE HonestVerdict'
    <3>1. /\ result' = code /\ world' = world /\ req' = req /\ Queried' = Queried
      BY <2>2, ReturnSame
    <3>2. code = "SYMBOL_NOT_FOUND" => req.tool = "trace_calls"
      BY <1>4, <2>2, CbmIs
    <3>3. QED
      BY <2>2, <3>1, <3>2, CbmIs DEF HonestVerdict, ReasonTrue, WhoseClock
  <2>3. QED
    BY <2>1, <2>2, VerdictReturn DEF Codes
<1>5. QED
  BY <1>3, <1>4

LEMMA resolveSymbolKeeps == ASSUME IInv, resolveSymbol PROVE IInv'
<1>1. pc = "search_graph" /\ out # None
  BY DEF resolveSymbol, Is
<1>2. CASE out = Failed /\ traceSide(Override("GRAPH_PROVIDER_UNAVAILABLE"))
  BY <1>1, <1>2, CbmIs, traceSideKeeps
<1>3. CASE out = "absent" /\ traceSide(Override("SYMBOL_NOT_FOUND"))
  BY <1>1, <1>3, CbmIs, traceSideKeeps, NothingSaid DEF Symbols
<1>4. CASE out = "ambiguous" /\ traceSide(Override("SYMBOL_AMBIGUOUS"))
  BY <1>1, <1>4, CbmIs, traceSideKeeps, NothingSaid DEF Symbols
<1>5. CASE out \notin {Failed, "absent", "ambiguous"} /\ Then("trace_path")
  <2>1. UNCHANGED <<outside, order, query>> /\ pc' = "trace_path"
    BY <1>5 DEF Then, Run
  <2>2. PhaseOK'
    BY <1>1, <1>5, <2>1, CbmIs DEF PhaseOK, Symbols, GitDirs, Verifies, outside, query
  <2>3. QED
    BY <1>1, <1>5, <2>2, ThenKeeps DEF Commands, ResolveCommands, GitCommands
<1>6. QED
  BY <1>2, <1>3, <1>4, <1>5 DEF resolveSymbol

\* A graph is an answer about a symbol that is a function.
LEMMA GraphKeeps ==
  ASSUME IInv, pc \in {"trace_path", "locate"}, out # None, Got("graph"),
         world.symbol[scope[k]] \in {"leaf", "function"}
  PROVE  IInv'
<1>1. "graph" \in Given /\ TrueOf(Len(got) + 1, "graph")
  BY CbmIs DEF Given, TrueOf
<1>2. QED
  BY <1>1, CbmIs, GotKeeps

LEMMA traceKeeps == ASSUME IInv, trace PROVE IInv'
<1>1. pc = "trace_path" /\ out # None /\ world.symbol[scope[k]] \in Symbols \ {"absent", "ambiguous"}
  BY DEF trace, Is, IInv, PhaseOK
<1>2. CASE out = Failed /\ traceSide(Override("GRAPH_PROVIDER_UNAVAILABLE"))
  BY <1>1, <1>2, CbmIs, traceSideKeeps
<1>3. CASE out = "variable" /\ traceSide(Override("SYMBOL_NOT_FOUND"))
  BY <1>1, <1>3, CbmIs, traceSideKeeps, NothingSaid DEF Symbols
<1>4. CASE out = "leaf" /\ Got("graph")
  BY <1>1, <1>4, CbmIs, GraphKeeps, NothingSaid DEF Symbols
<1>5. CASE out = "overloaded" /\ traceSide(Override("SYMBOL_AMBIGUOUS"))
  BY <1>1, <1>5, CbmIs, traceSideKeeps, NothingSaid DEF Symbols
<1>6. CASE out \notin {Failed, "variable", "overloaded", "leaf"} /\ Then("locate")
  <2>1. UNCHANGED <<outside, order, query>> /\ pc' = "locate"
    BY <1>6 DEF Then, Run
  <2>2. PhaseOK'
    BY <1>1, <1>6, <2>1, CbmIs DEF PhaseOK, Symbols, GitDirs, Verifies, outside, query
  <2>3. QED
    BY <1>1, <1>6, <2>2, ThenKeeps DEF Commands, ResolveCommands, GitCommands
<1>7. QED
  BY <1>2, <1>3, <1>4, <1>5, <1>6 DEF trace

LEMMA locateKeeps == ASSUME IInv, locate PROVE IInv'
<1>1. pc = "locate" /\ out # None /\ world.symbol[scope[k]] = "function"
  BY DEF locate, Is, IInv, PhaseOK
<1>2. CASE out = Failed /\ traceSide(Override("GRAPH_PROVIDER_UNAVAILABLE"))
  BY <1>1, <1>2, CbmIs, traceSideKeeps
<1>3. CASE out # Failed /\ Got("graph")
  BY <1>1, <1>3, GraphKeeps
<1>4. QED
  BY <1>2, <1>3 DEF locate
-----------------------------------------------------------------------------
LEMMA StepInv == ASSUME IInv, [Next]_vars PROVE IInv'
<1>1. CASE Code
  BY <1>1, ResolveKeeps, ResolveMemberKeeps, ResolveFailureKeeps, resolveKeeps, resolveFailsKeeps,
     resolveVerdictKeeps, ReadKeeps, lsTreeVerdictKeeps, VerifyDeclaredKeeps, VerifyFailureKeeps,
     VerifyWorktreeKeeps, SearchHistoryKeeps, DiffKeeps, postKeeps, SearchKeeps,
     resolveSymbolKeeps, traceKeeps, locateKeeps DEF Code
<1>2. CASE Begin \/ Answers \/ Killed
  BY <1>2, BeginKeeps, AnswersKeeps
<1>3. CASE BudgetExpires \/ \E cause \in {"cancel", "deadline"} : CallerEnds(cause)
  BY <1>3, ClockKeeps
<1>4. CASE \E m \in Members, c \in Commits : Moves(m, c)
  BY <1>4, MovesKeeps
<1>5. CASE UNCHANGED vars
  <2> USE <1>5 DEF vars, outside, query, IInv
  <2>1. TypeOK'
    BY DEF TypeOK, Worlds, Requests, Given
  <2>2. ScopeOK' /\ TipsOK' /\ GotOK'
    BY GotSame DEF ScopeOK, Named, selectMembers
  <2>3. PhaseOK'
    BY DEF PhaseOK, Pinned, Readable, Asked
  <2>4. OutOK'
    <3>1. Asked' = Asked /\ (Readable(Asked)' <=> Readable(Asked))
      BY DEF Asked, Readable
    <3>2. QED
      BY <3>1, AnswerSame DEF OutOK
  <2>5. ReasonTrue'
    BY DEF HonestVerdict, ReasonTrue, Named, Queried, Readable, Had
  <2>6. WhoseClock' /\ NothingLeftOut'
    BY DEF HonestVerdict, WhoseClock, NothingLeftOut, selectMembers
  <2>7. QED
    BY <2>1, <2>2, <2>3, <2>4, <2>5, <2>6 DEF HonestVerdict
<1>6. QED
  BY <1>1, <1>2, <1>3, <1>4, <1>5 DEF Next

LEMMA Invariance == Spec => []IInv
  BY InitOK, StepInv, PTL DEF Spec

\* The local variables of a query are well typed wherever it is.
THEOREM TypeCorrect == Spec => []TypeOK
<1>1. IInv => TypeOK
  BY DEF IInv
<1>2. QED
  BY <1>1, Invariance, PTL

\* Whatever answers or hangs, and whichever clock goes off when: a verdict is true
\* of the world, and the clock it names went off first (deadline.go, Ended;
\* engine.go; git.go, resolve and readFailure).
THEOREM Honest == Spec => []HonestVerdict
<1>1. IInv => HonestVerdict
  BY DEF IInv
<1>2. QED
  BY <1>1, Invariance, PTL

\* An answer covers every member that was selected (engine.go, SearchCode;
\* search_history.go, SearchHistory).
THEOREM Complete == Spec => []NothingLeftOut
<1>1. IInv => NothingLeftOut
  BY DEF IInv
<1>2. QED
  BY <1>1, Invariance, PTL

\* An answer is about commits that the revisions of its members named while the
\* query ran, and about those members (git.go, resolve; zoekt.go, Search; cbm.go).
THEOREM Truthful == Spec => []AnswerTrue
<1>1. ASSUME IInv, result = "answer" PROVE AnswerTrue
  <2>1. got \in Seq(Given) /\ scope \in Seq(Members) /\ req \in Requests
    BY <1>1 DEF IInv, TypeOK
  <2>2. /\ req.tool \in PluralTools => Len(got) = Len(scope)
        /\ req.tool = "compare_calls" => Len(got) = 2
        /\ req.tool \in {"get_code", "trace_calls", "compare_code"} => Len(got) = 1
    BY <1>1 DEF IInv, NothingLeftOut, PluralTools
  <2>3. \A i \in DOMAIN got : TrueOf(i, got[i])
    BY <1>1 DEF IInv, GotOK
  <2>4. DOMAIN got = 1..Len(got) /\ DOMAIN scope = 1..Len(scope)
    BY <2>1
  <2>5. CASE req.tool \in {"get_code", "trace_calls", "compare_code"}
    <3>1. Len(got) = 1 /\ 1 \in DOMAIN got
      <4>1. Len(got) = 1
        BY <2>2, <2>5
      <4>2. QED
        BY <2>4, <4>1
    <3>2. got = <<got[1]>>
      BY <2>1, <3>1
    <3>3. TrueOf(1, got[1])
      BY <2>3, <3>1
    <3>4. CASE req.tool = "get_code"
      BY <3>2, <3>3, <3>4 DEF AnswerTrue, TrueOf, Pinned
    <3>5. CASE req.tool = "trace_calls"
      BY <3>3, <3>5 DEF AnswerTrue, TrueOf
    <3>6. CASE req.tool = "compare_code"
      BY <3>2, <3>3, <3>6 DEF AnswerTrue, TrueOf, Pinned
    <3>7. QED
      BY <2>5, <3>4, <3>5, <3>6
  <2>6. CASE req.tool \in {"search_code", "search_history"}
    <3>1. \A i \in DOMAIN scope : TrueOf(i, got[i])
      BY <2>2, <2>3, <2>4, <2>6 DEF PluralTools
    <3>2. QED
      BY <2>6, <3>1 DEF AnswerTrue, TrueOf
  <2>7. CASE req.tool = "compare_calls"
    <3>1. TrueOf(1, got[1]) /\ TrueOf(2, got[2])
      BY <2>2, <2>3, <2>4, <2>7
    <3>2. QED
      BY <2>7, <3>1 DEF AnswerTrue, TrueOf
  <2>8. QED
    BY <2>1, <2>5, <2>6, <2>7 DEF Requests, SingleTools, PluralTools, PairTools
<1>2. IInv => AnswerTrue
  BY <1>1 DEF AnswerTrue
<1>3. QED
  BY <1>2, Invariance, PTL
===============================================================================
