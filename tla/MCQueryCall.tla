----------------------------- MODULE MCQueryCall -----------------------------
(* Instances of QueryCall for TLC.                                         *)
EXTENDS QueryCall, TLC

CONSTANTS k1, k2, k3, k4, k5, t1, t2, t3, r1, r2, m1, m2, m3, both, one

Contents == (k1 :> t1 @@ k2 :> t1 @@ k3 :> t2 @@ k4 :> NoFile @@ k5 :> t3)

\* "both" is over two repositories; "one" is over the first, on a branch whose
\* name begins like that of the other one.
Scopes == (both :> <<m1, m2>> @@ one :> <<m3>>)
Places == (m1 :> r1 @@ m2 :> r2 @@ m3 :> r1)
Names  == (m1 :> {m1, m3} @@ m2 :> {m2} @@ m3 :> {m3})

Ask1(tools) == [tool : tools, ids : {<<both>>, <<one>>, <<None>>}, repo : {None, r1}]
Ask2(tools) == [tool : tools, ids : {<<both, one>>, <<one, one>>}, repo : {None, r1}]

Fine == [readable |-> {r1, r2}, head |-> (r1 :> k1 @@ r2 :> k1),
         symbol |-> [m \in {m1, m2, m3} |-> "function"],
         zoekt |-> "answers", cbm |-> TRUE, built |-> {"search", "source", "graph"},
         tip |-> [m \in {m1, m2, m3} |-> k1]]

\* Repositories and revisions that are there or not; files that are there, gone
\* or lost, on either side.
GitWorlds ==
  {[Fine EXCEPT !.readable = s] : s \in {{}, {r1}}}
    \cup {[Fine EXCEPT !.tip = (m1 :> a @@ m2 :> k1 @@ m3 :> b)] :
            a \in {k1, k3, k4, Nothing}, b \in {k1, k3, k4}}
    \cup {[Fine EXCEPT !.tip[m3] = k5]}
    \cup {[Fine EXCEPT !.tip[m2] = Nothing], [Fine EXCEPT !.built = {}]}

ZoektWorlds ==
  {[Fine EXCEPT !.zoekt = z] :
     z \in {"answers", "unreachable", "rejects", "broken", "garbled"}}
    \cup {[Fine EXCEPT !.built = {}]}

CbmWorlds ==
  {[Fine EXCEPT !.symbol = (m1 :> a @@ m2 :> "leaf" @@ m3 :> b)] : a, b \in Symbols}
    \cup {[Fine EXCEPT !.cbm = FALSE], [Fine EXCEPT !.built = {}]}

AllCases ==
  GitWorlds \X (Ask1({"get_code", "search_history"}) \cup Ask2({"compare_code"}))
    \cup ZoektWorlds \X Ask1({"search_code"})
    \cup CbmWorlds \X (Ask1({"trace_calls"}) \cup Ask2({"compare_calls"}))

=============================================================================
