------------------------------ MODULE MCAnswers ------------------------------
(* Instances of Answers for TLC: repository r in two versions, "old" and   *)
(* "new", and repository s beside it in the context "both".                *)
EXTENDS Answers, TLC

Functions == 1 .. 4
Files == <<"d/x", "odd", "p">>
Paths == [x \in ToSet(Files) |-> {x}] @@ ("d" :> {"d/x"} @@ "gone" :> {})
Quoting == [x \in ToSet(Files) |-> IF x = "odd" THEN "'odd'" ELSE x]

Folding(x) == IF x = "A" THEN "a" ELSE IF x = "Root" THEN "root" ELSE x

Line(x) == [text |-> x, nl |-> TRUE]
File(x) == Text(<<Line(x)>>)
Commit(parents, tree, message) == [parents |-> parents, tree |-> tree, message |-> message]

\* No calls, and a tree of one file.
NoCalls ==
  [has |-> Functions, calls |-> {}, unclear |-> {},
   name |-> (1 :> "root" @@ 2 :> "a" @@ 3 :> "b" @@ 4 :> "c"),
   at |-> [n \in Functions |-> [path |-> "p", line |-> n]]]
Still == <<Commit({}, "p" :> File("x"), "add")>>

Scopes(old, new) ==
  LET r(b, i) == [repository |-> "r", branch |-> b, revision |-> i]
      s == [repository |-> "s", branch |-> "v1", revision |-> 1]
  IN  "old" :> <<r("v1", old)>> @@ "new" :> <<r("v1-fix", new)>>
        @@ "both" :> <<r("v1", old), s>> @@ "other" :> <<s>>
        @@ "vague" :> <<s, r(None, old)>>

World(kind, scope, log, graphs) ==
  [kind |-> kind, scope |-> scope, log |-> ("r" :> log @@ "s" :> Still),
   graph |-> ("r" :> graphs @@ "s" :> <<NoCalls>>), shard |-> <<>>]

Request(tool, ids, repository) ==
  [tool |-> tool, ids |-> ids, repository |-> repository]
-----------------------------------------------------------------------------
(* Calls                                                                   *)

Pairs == {p \in Functions \X Functions : p[1] # p[2]} \cup {<<1, 1>>}
CallSets(n) == UNION {kSubset(k, Pairs) : k \in 0 .. n}

Walking(ids, symbol, direction, depth) ==
  Request(IF Len(ids) = 1 THEN "trace_calls" ELSE "compare_calls", ids, None)
    @@ [symbol |-> symbol, direction |-> direction, depth |-> depth]

\* The other version: a call more or less, a function gone, everything further
\* down its file, or a function in another file.
Without(g, n) == [g EXCEPT !.has = @ \ {n}, !.calls = {p \in @ : n \notin {p[1], p[2]}}]
Later(g) ==
  {[g EXCEPT !.calls = SymDiff(@, {p})] : p \in Pairs}
    \cup {Without(g, n) : n \in {1, 2}}
    \cup {[g EXCEPT !.at = [n \in Functions |-> [@[n] EXCEPT !.line = @ + 10]]]}
    \cup {[g EXCEPT !.at[n].path = "d/x"] : n \in {1, 2}}

Calling(kind, g, h) == World(kind, Scopes(1, 2), Still \o Still, <<g, h>>)

\* One version, two versions, one in which two functions have one name but for
\* its case, and one that has a function CBM cannot tell from others.  Of the
\* calls back to a function nearer by the fewest are four: around and Later(around).
Around == {<<1, 2>>, <<1, 4>>, <<2, 3>>, <<3, 4>>}

CallWorld(w) ==
  \/ \E C \in CallSets(3) \cup {Around} :
       w = Calling("calls", [NoCalls EXCEPT !.calls = C], NoCalls)
  \/ \E C \in CallSets(2) \cup {Around} :
       LET g == [NoCalls EXCEPT !.calls = C]
       IN  \E h \in Later(g) : w = Calling("changed calls", g, h)
  \/ \E C \in CallSets(2), x \in {"a", "A"} :
       LET twins == [NoCalls EXCEPT !.name[4] = x, !.calls = C]
       IN  w = Calling("twins", twins, Without(twins, 4))
  \/ \E C \in CallSets(1), S \in SUBSET {1, 2} :
       LET g == [NoCalls EXCEPT !.calls = C]
       IN  w = Calling("twins", g, [g EXCEPT !.unclear = S])

CallAsks ==
  "calls" :> {Walking(<<"old">>, "root", d, k) : d \in {"callers", "callees"}, k \in 1 .. 3}
  @@ "changed calls" :>
       {Walking(ids, "root", d, k) : ids \in {<<"old", "new">>, <<"new", "old">>},
          d \in {"callers", "callees"}, k \in 1 .. 2}
  @@ "twins" :>
       {Walking(<<"old">>, x, "callees", k) : x \in {"root", "Root", "a", "gone"}, k \in {0, 2}}
         \cup {Walking(<<"old", id>>, x, "callees", 2) :
                 x \in {"root", "Root", "a", "gone"}, id \in {"new", "other", "both"}}
-----------------------------------------------------------------------------
(* Files                                                                   *)

Contents ==
  {Text(s) : s \in {<<>>, <<Line("x")>>, <<Line("y")>>, <<Line("x"), Line("x")>>,
                    <<Line("x"), Line("y")>>, <<[text |-> "x", nl |-> FALSE]>>,
                    <<Line("y"), [text |-> "x", nl |-> FALSE]>>}}
    \cup {[kind |-> "binary", lines |-> <<Line(b)>>] : b \in {"x", "y"}}
    \cup {[kind |-> "link", lines |-> <<[text |-> "x", nl |-> FALSE]>>]}

Trees == {<<>>} \cup {"p" :> c : c \in Contents}
Folders == {f @@ g : f \in {<<>>, "p" :> File("x")},
                     g \in {<<>>, "d/x" :> File("x"), "d/x" :> File("y")}}

FileWorld(w) ==
  \E T \in {Trees, Folders} : \E t, u \in T :
    w = World("files", Scopes(1, 2), <<Commit({}, t, "add"), Commit({1}, u, "fix")>>,
              <<NoCalls, NoCalls>>)

FileAsks ==
  "files" :>
    ({Request("compare_code", ids, rep) @@ [path |-> p] :
       ids \in {<<"old", "new">>, <<"old", "both">>, <<"old", "other">>},
       rep \in {None, "r"}, p \in {"p", "d", "gone"}}
     \cup {Request("get_code", <<"new">>, None) @@ [path |-> p, first |-> i, last |-> j] :
             p \in {"p", "d", "gone"}, i \in 0 .. 2, j \in 1 .. 3})
-----------------------------------------------------------------------------
(* Histories                                                               *)

Small(p, odd) == (IF p = None THEN <<>> ELSE "p" :> File(p))
                   @@ (IF odd = None THEN <<>> ELSE "odd" :> File(odd))
SmallTrees == {Small(p, odd) : p \in {None, "x", "y"}, odd \in {None, "x"}}

\* Three commits in a row; or two on branches of their own, and their merge.
HistoryWorld(w) ==
  LET logged(log, old, new) ==
        w = World("history", Scopes(old, new), log, [i \in DOMAIN log |-> NoCalls])
  IN  \/ \E t, u, v \in SmallTrees, m \in {"fix", "add"} :
           logged(<<Commit({}, t, "fix"), Commit({1}, u, m), Commit({2}, v, "fix")>>, 2, 3)
      \/ \E p, q \in {None, "x", "y"}, odd, mark \in {None, "x"} :
           logged(<<Commit({}, Small(p, odd), "fix"), Commit({1}, Small(q, odd), "fix"),
                    Commit({1}, Small(p, mark), "fix"),
                    Commit({2, 3}, Small(q, mark), "fix")>>, 3, 4)

HistoryAsks ==
  LET history(q, s, p, k) ==
        {Request("search_history", <<id>>, None)
           @@ [query |-> q, symbol |-> s, path |-> p, limit |-> k] : id \in {"old", "both"}}
  IN  "history" :>
        (history("", "", "", -1)
           \cup UNION {history(q, s, p, k) : q \in {"", "fix"}, s \in {"", "x"},
                         p \in {"", "p", "odd", "d"}, k \in 0 .. 2})
-----------------------------------------------------------------------------
(* Searches                                                                *)

Branches == "v1" :> {"v1", "v1-fix"} @@ "v1-fix" :> {"v1-fix"}
Ids == <<"both", "new", "old", "other", "vague">>

Indexed(tree) == [p \in DOMAIN tree |-> [i \in DOMAIN tree[p].lines |-> tree[p].lines[i].text]]

\* Two files of two versions, with repository s indexed or not.
SearchWorld(w) ==
  LET texts == {Text(s) : s \in {<<Line("x")>>, <<Line("x"), Line("y")>>, <<Line("y")>>}}
      trees == {t @@ u : t \in {<<>>} \cup {"p" :> c : c \in texts},
                         u \in {<<>>} \cup {"d/x" :> c : c \in texts}}
      shard(t, u) == "v1" :> Indexed(t) @@ "v1-fix" :> Indexed(u)
      still == "v1" :> Indexed(Still[1].tree)
  IN  \E t, u \in trees, all \in BOOLEAN :
        w = [World("search", Scopes(1, 2), <<Commit({}, t, "add"), Commit({1}, u, "fix")>>,
                   <<NoCalls, NoCalls>>)
               EXCEPT !.shard = IF all THEN "r" :> shard(t, u) @@ "s" :> still
                                       ELSE "r" :> shard(t, u)]

Queries ==
  {<<>>, <<"x">>, <<"p", "y">>, <<"(", "x", ")">>, <<"(", "x">>, <<"x", ")">>,
   <<")", "x", "(">>, <<"x", "\\", ")">>}

SearchAsks ==
  "search" :>
    ({Request("list_contexts", <<>>, None)}
     \cup {Request("search_code", <<id>>, rep) @@ [query |-> q] :
             id \in ToSet(Ids), rep \in {None, "r"}, q \in Queries})
-----------------------------------------------------------------------------
AllWorlds(w) == CallWorld(w) \/ FileWorld(w) \/ HistoryWorld(w) \/ SearchWorld(w)
AllAsks == CallAsks @@ FileAsks @@ HistoryAsks @@ SearchAsks
=============================================================================
