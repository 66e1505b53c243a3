----------------------------- MODULE GitQueries -----------------------------
(***************************************************************************)
(* What the git adapter reads out of `git diff` and `git log`              *)
(* (adapters/git/diff.go, history.go).  A tree maps the files that exist   *)
(* to their contents; a log is a sequence of commits, each after its       *)
(* parents, so that a revision is a position in it.  What git prints is a  *)
(* sequence of lines, and a line is what its first column makes of it.     *)
(***************************************************************************)
EXTENDS FiniteSets, Lists

CONSTANTS
  FileOrder,   \* the files of a repository, in the order git lists them
  Under,       \* Under[p]: the files at or below the path p
  Printed,     \* Printed[f]: f as git prints it, quoted if it is not ASCII
  DefaultLimit \* defaultHistoryLimit

\* No two files are printed alike, and a file that is printed as a path it is
\* below of is that path: quotes make a name longer.
ASSUME GitQueriesAssumption ==
  /\ IsInjective(FileOrder) /\ FileOrder \in Seq(ToSet(FileOrder))
  /\ \A p \in DOMAIN Under : Under[p] \subseteq ToSet(FileOrder)
  /\ \A f \in ToSet(FileOrder) : Under[f] = {f} /\ f \in DOMAIN Printed /\ f \in DOMAIN Under
  /\ \A f, h \in ToSet(FileOrder) : Printed[f] = Printed[h] => f = h
  /\ \A p \in DOMAIN Under : \A f \in Under[p] : Printed[f] = p => f = p
  /\ DefaultLimit \in Nat \ {0}

\* A content has a kind and, if it is text, lines; the last one may lack its
\* terminator.
Text(lines) == [kind |-> "text", lines |-> lines]

Differ(t, u, f) ==
  \/ f \in DOMAIN t /\ f \notin DOMAIN u
  \/ f \in DOMAIN u /\ f \notin DOMAIN t
  \/ f \in DOMAIN t /\ f \in DOMAIN u /\ t[f] # u[f]

Invalid == [verdict |-> "INVALID_ARGUMENT"]
-----------------------------------------------------------------------------
(* git diff                                                                *)

Mark(m, lines) ==
  FlattenSeq([i \in DOMAIN lines |->
    <<[t |-> m, text |-> lines[i].text]>>
      \o (IF lines[i].nl THEN <<>> ELSE <<[t |-> "\\"]>>)])

\* A side of a hunk header: a count of one is not written.
Span(lines) == CASE Len(lines) = 0 -> <<0, 0>> [] Len(lines) = 1 -> <<1>>
                 [] OTHER -> <<1, Len(lines)>>

\* One hunk: the lines both sides begin with, those only one of them has.
Hunk(a, b) ==
  IF a = b THEN <<>> ELSE
  LET same == Len(LongestCommonPrefix({a, b}))
  IN  <<[t |-> "@@", old |-> Span(a), new |-> Span(b)]>>
        \o Mark(" ", SubSeq(a, 1, same))
        \o Mark("-", SubSeq(a, same + 1, Len(a)))
        \o Mark("+", SubSeq(b, same + 1, Len(b)))

Section(header, a, b) ==
  <<[t |-> "diff --git"]>> \o header
    \o IF "binary" \in {a.kind, b.kind} THEN <<[t |-> "Binary files"]>>
       ELSE Hunk(a.lines, b.lines)

Added(b)   == Section(<<[t |-> "new file mode"]>>, Text(<<>>), b)
Removed(a) == Section(<<[t |-> "deleted file mode"]>>, a, Text(<<>>))

\* A file that becomes a link, or a link that becomes a file, is printed twice.
Sections(t, u, f) ==
  CASE ~Differ(t, u, f)    -> <<>>
    [] f \notin DOMAIN t   -> Added(u[f])
    [] f \notin DOMAIN u   -> Removed(t[f])
    [] OTHER -> IF (t[f].kind = "link") # (u[f].kind = "link")
                THEN Removed(t[f]) \o Added(u[f])
                ELSE Section(<<>>, t[f], u[f])

gitDiff(t, u, path) ==
  FlattenSeq([i \in DOMAIN FileOrder |->
    IF FileOrder[i] \in Under[path] THEN Sections(t, u, FileOrder[i]) ELSE <<>>])
-----------------------------------------------------------------------------
(* adapters/git/diff.go                                                    *)

\* Mutant: a count that is not written is none
parseHunkRange_none(side) == <<side[1], IF Len(side) = 1 THEN 0 ELSE side[2]>>

parseHunkRange(side) == <<side[1], IF Len(side) = 1 THEN 1 ELSE side[2]>>

parseHunkHeader(line) ==
  [old |-> parseHunkRange(line.old), new |-> parseHunkRange(line.new), lines |-> <<>>]

parseDiffLine(line) ==
  [kind |-> CASE line.t = "+" -> "ADDED" [] line.t = "-" -> "REMOVED" [] OTHER -> "CONTEXT",
   content |-> line.text]

\* What one line of the output adds to the diff read so far.
ReadLine(d, line) ==
  CASE line.t = "diff --git" -> [d EXCEPT !.files = @ + 1, !.inHunk = FALSE]
    [] line.t = "@@" -> [d EXCEPT !.hunks = Append(@, parseHunkHeader(line)), !.inHunk = TRUE]
    [] d.inHunk -> IF line.t = "\\" THEN d
                   ELSE [d EXCEPT !.hunks[Len(d.hunks)].lines = Append(@, parseDiffLine(line))]
    [] line.t = "new file mode" -> [d EXCEPT !.change = "ADDED"]
    [] line.t = "deleted file mode" -> [d EXCEPT !.change = "REMOVED"]
    [] line.t = "Binary files" -> [d EXCEPT !.binary = TRUE]

parseDiff(out) ==
  LET d == FoldLeft(ReadLine,
             [verdict |-> "ok", change |-> "MODIFIED", files |-> 0, inHunk |-> FALSE,
              binary |-> FALSE, hunks |-> <<>>], out)
  IN  IF d.files = 1 THEN d ELSE Invalid

\* git says nothing of a path that neither tree has, nor of one that is the
\* same in both.
emptyDiff(t, path) ==
  IF Under[path] \cap DOMAIN t = {} THEN Invalid
  ELSE [verdict |-> "ok", change |-> "UNCHANGED", binary |-> FALSE, hunks |-> <<>>]

Diff(t, u, path) ==
  LET out == gitDiff(t, u, path)
  IN  IF out = <<>> THEN emptyDiff(t, path) ELSE parseDiff(out)
-----------------------------------------------------------------------------
(* adapters/git/git.go                                                     *)

\* git show revision:path: the lines of a file, or the listing of a directory.
gitShow(t, path) ==
  IF path \in DOMAIN t THEN t[path].lines
  ELSE [i \in 1 .. 2 |-> [text |-> "tree", nl |-> TRUE]]
         \o LET entries == SelectSeq(FileOrder, LAMBDA f : f \in Under[path] \cap DOMAIN t)
            IN  [i \in DOMAIN entries |-> [text |-> entries[i], nl |-> TRUE]]

Read(t, path, first, last) ==
  IF \/ first < 1 \/ last < first
     \/ Under[path] \cap DOMAIN t = {}
     \/ last > Len(gitShow(t, path))
  THEN Invalid
  ELSE [verdict |-> "ok", content |-> SubSeq(gitShow(t, path), first, last)]
-----------------------------------------------------------------------------
(* git log                                                                 *)

Reachable(log, revision) ==
  LET from[i \in 1 .. revision] == {i} \cup UNION {from[p] : p \in log[i].parents}
  IN  from[revision]

\* The tree a commit is compared with.
Before(log, i) ==
  IF log[i].parents = {} THEN [f \in {} |-> Invalid]
  ELSE log[CHOOSE p \in log[i].parents : TRUE].tree

Touches(log, i, f) == Differ(Before(log, i), log[i].tree, f)

Occurrences(t, f, symbol) ==
  IF f \in DOMAIN t THEN Len(SelectSeq(t[f].lines, LAMBDA l : l.text = symbol)) ELSE 0

Pickaxe(log, i, f, symbol) ==
  Occurrences(Before(log, i), f, symbol) # Occurrences(log[i].tree, f, symbol)

\* git log --name-only --no-merges [-S symbol] revision -- [path], newest first.
gitLog(log, revision, symbol, path) ==
  LET walked == {i \in Reachable(log, revision) : Cardinality(log[i].parents) <= 1}
      latest == [k \in 1 .. revision |-> revision - k + 1]
      commits == Keep(latest, {k \in DOMAIN latest : latest[k] \in walked})
      names(i, f) == /\ Touches(log, i, f)
                     /\ path # "" => f \in Under[path]
                     /\ symbol # "" => Pickaxe(log, i, f, symbol)
      listed(i) == Keep(FileOrder, {j \in DOMAIN FileOrder : names(i, FileOrder[j])})
      record(i, files) == [commit |-> i, message |-> log[i].message,
                           names |-> [j \in DOMAIN files |-> Printed[files[j]]]]
  IN  [k \in DOMAIN commits |-> record(commits[k], listed(commits[k]))]
-----------------------------------------------------------------------------
(* adapters/git/history.go                                                 *)

\* A path that may be asked for, or none.
IsPath(path) == path = "" \/ path \in DOMAIN Under

historyLimit(limit) == IF limit = 0 THEN DefaultLimit ELSE limit

\* Where the path is that was asked for; any will do if none was.
wanted(names, pathFilter) == {j \in DOMAIN names : pathFilter \in {"", names[j]}}

\* The entries of one commit: one for each path that is printed.
entriesOf(r, query, pathFilter) ==
  IF query # "" /\ query # r.message THEN <<>>
  ELSE LET paths == Keep(r.names, wanted(r.names, pathFilter))
       IN  [j \in DOMAIN paths |-> [commit |-> r.commit, path |-> paths[j]]]

\* Mutant: the limit is one of commits, before those that do not match are left out
parseHistory_limited(out, query, pathFilter, limit) ==
  FlattenSeq([k \in 1 .. (IF limit < Len(out) THEN limit ELSE Len(out)) |->
    entriesOf(out[k], query, pathFilter)])

\* Those of each commit, up to the limit.
parseHistory(out, query, pathFilter, limit) ==
  LET all == FlattenSeq([k \in DOMAIN out |-> entriesOf(out[k], query, pathFilter)])
  IN  SubSeq(all, 1, IF limit < Len(all) THEN limit ELSE Len(all))

SearchHistory(log, revision, q) ==
  IF q.limit < 0 THEN Invalid
  ELSE [verdict |-> "ok",
        entries |-> parseHistory(gitLog(log, revision, q.symbol, q.path),
                                 q.query, q.path, historyLimit(q.limit))]
=============================================================================
