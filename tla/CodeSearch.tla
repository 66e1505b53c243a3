----------------------------- MODULE CodeSearch ------------------------------
(***************************************************************************)
(* The search of the Zoekt adapter (adapters/zoekt/zoekt.go).  Zoekt keeps *)
(* the branches of a repository in one shard, where a file that is the     *)
(* same on several branches is one document.  A branch filter selects by a *)
(* part of the name, and no answer has more than MaxFiles documents; which *)
(* ones are left out is Zoekt's choice.  The adapter keeps the documents   *)
(* of the branch it asked for, after that.  Zoekt's own limits on lines in *)
(* a document are far beyond what is asked here.                           *)
(***************************************************************************)
EXTENDS Lists, FiniteSetsExt

CONSTANTS
  PathOrder, \* the files, in the order Zoekt ranks them
  Selects,   \* Selects[b]: the branches whose names b is a part of
  MaxFiles   \* maxFiles: the documents of one answer

ASSUME CodeSearchAssumption ==
  /\ PathOrder \in Seq(ToSet(PathOrder)) /\ IsInjective(PathOrder)
  /\ \A b \in DOMAIN Selects : b \in Selects[b]
  /\ MaxFiles \in Nat \ {0}
-----------------------------------------------------------------------------
(* Zoekt.  shard[b][path] is the lines of a file on branch b.              *)

\* A query is a sequence of words, parentheses and backslashes, and finds the
\* lines and the names that are one of its words.
Finds(q, text) == text \in ToSet(q)

Documents(shard) ==
  LET files == UNION {{[path |-> p, lines |-> shard[b][p]] :
                         p \in ToSet(PathOrder) \cap DOMAIN shard[b]} : b \in DOMAIN shard}
  IN  {[path |-> f.path, lines |-> f.lines,
        branches |-> {b \in DOMAIN shard : f.path \in DOMAIN shard[b]
                                           /\ shard[b][f.path] = f.lines}] : f \in files}

\* The lines a document was found for; a name that was found is line 0.
LineMatches(d, q) ==
  LET lines == Keep([i \in DOMAIN d.lines |-> i], {i \in DOMAIN d.lines : Finds(q, d.lines[i])})
  IN  IF lines = <<>> /\ Finds(q, d.path) THEN <<0>> ELSE lines

Found(shard, branch, q) ==
  {d \in Documents(shard) : d.branches \cap Selects[branch] # {} /\ LineMatches(d, q) # <<>>}

\* The answers to the adapter's request: the documents in their ranked order.
post(shard, branch, q) ==
  LET found == Found(shard, branch, q)
      ranked(D) == FlattenSeq([i \in DOMAIN PathOrder |->
                     SetToSeq({d \in D : d.path = PathOrder[i]})])
  IN  {ranked(D) : D \in IF Cardinality(found) <= MaxFiles THEN {found}
                         ELSE kSubset(MaxFiles, found)}
-----------------------------------------------------------------------------
(* The adapter                                                             *)

\* One character more of a query: a backslash takes the next one with it.
scan(s, x) ==
  IF s.escaped THEN [s EXCEPT !.escaped = FALSE]
  ELSE CASE x = "\\" -> [s EXCEPT !.escaped = TRUE]
         [] x = "("  -> [s EXCEPT !.depth = @ + 1]
         [] x = ")"  -> [s EXCEPT !.depth = @ - 1, !.early = @ \/ s.depth = 0]
         [] OTHER    -> s

balanced(q) ==
  LET after[i \in 0 .. Len(q)] ==
        IF i = 0 THEN [depth |-> 0, escaped |-> FALSE, early |-> FALSE] ELSE scan(after[i - 1], q[i])
      end == after[Len(q)]
  IN  end.depth = 0 /\ ~end.early

\* A query is sent with the repository and the branch, or not at all.
scopedQuery(q) == q # <<>> /\ balanced(q)

\* Mutant: Zoekt's own filter is trusted
inVersion_all(d, branch) == TRUE

inVersion(d, branch) == branch \in d.branches

Search(shard, branch, q) ==
  LET results(files) ==
        FlattenSeq([i \in DOMAIN files |->
          IF ~inVersion(files[i], branch) THEN <<>>
          ELSE LET matches == LineMatches(files[i], q)
                   lines == Keep(matches, {k \in DOMAIN matches : matches[k] # 0})
               IN  [k \in DOMAIN lines |-> [path |-> files[i].path, line |-> lines[k],
                                            snippet |-> files[i].lines[lines[k]]]]])
  IN  {results(files) : files \in post(shard, branch, q)}

\* What Zoekt has of a repository, and nothing of one it does not have.
IndexedBranches(shards, repository) ==
  IF repository \in DOMAIN shards THEN DOMAIN shards[repository] ELSE {}
=============================================================================
