----------------------------- MODULE Answers_proofs -----------------------------
(* Proofs about Answers: what a walk of the calls reports, and what is made of  *)
(* two of them.  A walk is computed by recursion over its levels; what it       *)
(* computes is proved by induction, which takes the form of a set of natural    *)
(* numbers that holds zero and every successor.                                 *)
EXTENDS Answers, Lists_proofs

--------------------------------------------------------------------------------
(* Walks                                                                       *)

\* f has the levels of a walk.
IsWalk(f, g, root, direction, depth) ==
  f = [k \in 0 .. depth |->
         IF k = 0 THEN {root} ELSE f[k - 1] \cup Neighbours(g, direction, f[k - 1])]

\* The function that Reached chooses exists for every depth.
LEMMA ReachedExists ==
  ASSUME NEW g, NEW root, NEW direction, NEW depth \in Nat
  PROVE  \E f : IsWalk(f, g, root, direction, depth)
<1> DEFINE Step(X) == X \cup Neighbours(g, direction, X)
           Is(f, d) == f = [k \in 0 .. d |-> IF k = 0 THEN {root} ELSE Step(f[k - 1])]
           S == {d \in Nat : \E f : Is(f, d)}
<1> HIDE DEF Step
<1>1. 0 \in S
  <2>1. Is([k \in 0 .. 0 |-> {root}], 0)
    OBVIOUS
  <2>2. QED
    BY <2>1
<1>2. ASSUME NEW d \in Nat, d \in S
      PROVE  d + 1 \in S
  <2>1. PICK f : Is(f, d)
    BY <1>2
  <2> DEFINE h == [k \in 0 .. d + 1 |-> IF k = d + 1 THEN Step(f[d]) ELSE f[k]]
  <2>2. \A k \in 0 .. d : f[k] = IF k = 0 THEN {root} ELSE Step(f[k - 1])
    BY <2>1
  <2>3. ASSUME NEW k \in 0 .. d + 1
        PROVE  h[k] = IF k = 0 THEN {root} ELSE Step(h[k - 1])
    <3>1. CASE k = d + 1
      BY <3>1
    <3>2. CASE k = 0
      BY <3>2, <2>2
    <3>3. CASE k \in 1 .. d
      <4>1. h[k] = f[k] /\ h[k - 1] = f[k - 1] /\ k # 0
        BY <3>3
      <4>2. f[k] = Step(f[k - 1])
        BY <3>3, <2>2
      <4>3. QED
        BY <4>1, <4>2
    <3>4. QED
      BY <3>1, <3>2, <3>3
  <2>4. h = [k \in 0 .. d + 1 |-> h[k]]
    OBVIOUS
  <2> HIDE DEF h
  <2>5. Is(h, d + 1)
    BY <2>3, <2>4
  <2>6. QED
    BY <2>5
<1> HIDE DEF S
<1>3. Nat \subseteq S
  BY <1>1, <1>2, Inductive
<1>4. QED
  BY <1>3 DEF S, Step, IsWalk

\* The levels of a walk: the root, then what is one step further.
LEMMA ReachedIs ==
  ASSUME NEW g, NEW root, NEW direction, NEW depth \in Nat
  PROVE  LET f == Reached(g, root, direction, depth)
         IN  /\ DOMAIN f = 0 .. depth
             /\ f[0] = {root}
             /\ \A k \in 1 .. depth : f[k] = f[k - 1] \cup Neighbours(g, direction, f[k - 1])
<1> DEFINE f == Reached(g, root, direction, depth)
           E(h, k) == IF k = 0 THEN {root} ELSE h[k - 1] \cup Neighbours(g, direction, h[k - 1])
<1>1. f = [k \in 0 .. depth |->
             IF k = 0 THEN {root} ELSE f[k - 1] \cup Neighbours(g, direction, f[k - 1])]
  <2>1. \E h : IsWalk(h, g, root, direction, depth)
    BY ReachedExists
  <2>2. f = CHOOSE h : IsWalk(h, g, root, direction, depth)
    BY DEF Reached, IsWalk
  <2> HIDE DEF f
  <2>3. IsWalk(f, g, root, direction, depth)
    BY <2>1, <2>2
  <2>4. QED
    BY <2>3 DEF IsWalk
<1> HIDE DEF f
<1>2. DOMAIN f = 0 .. depth /\ \A k \in 0 .. depth : f[k] = E(f, k)
  <2> DEFINE h == [k \in 0 .. depth |-> E(f, k)]
  <2>1. f = h
    BY <1>1
  <2>2. DOMAIN h = 0 .. depth /\ \A k \in 0 .. depth : h[k] = E(f, k)
    <3> HIDE DEF E
    <3>1. QED
      OBVIOUS
  <2> HIDE DEF h, E
  <2>3. QED
    BY <2>1, <2>2
<1>3. f[0] = {root}
  BY <1>2
<1>4. ASSUME NEW k \in 1 .. depth
      PROVE  f[k] = f[k - 1] \cup Neighbours(g, direction, f[k - 1])
  BY <1>2
<1>5. QED
  BY <1>2, <1>3, <1>4 DEF f

\* A walk stays in the graph.
LEMMA ReachedHas ==
  ASSUME NEW g, IsGraph(g), NEW root \in g.has, NEW direction, NEW depth \in Nat
  PROVE  \A k \in 0 .. depth : Reached(g, root, direction, depth)[k] \subseteq g.has
<1> DEFINE f == Reached(g, root, direction, depth)
           S == {k \in Nat : k <= depth => f[k] \subseteq g.has}
<1>1. f[0] = {root}
      /\ \A k \in 1 .. depth : f[k] = f[k - 1] \cup Neighbours(g, direction, f[k - 1])
  BY ReachedIs
<1> HIDE DEF f
<1>2. 0 \in S
  BY <1>1
<1>3. ASSUME NEW k \in Nat, k \in S
      PROVE  k + 1 \in S
  <2>1. CASE k + 1 <= depth
    <3>1. f[k + 1] = f[k] \cup Neighbours(g, direction, f[k])
      <4>1. k + 1 \in 1 .. depth /\ (k + 1) - 1 = k
        BY <2>1
      <4>2. QED
        BY <4>1, <1>1
    <3>2. Neighbours(g, direction, f[k]) \subseteq g.has
      BY DEF Neighbours, IsGraph
    <3>3. f[k] \subseteq g.has
      BY <1>3, <2>1
    <3>4. QED
      BY <3>1, <3>2, <3>3
  <2>2. QED
    BY <2>1
<1> HIDE DEF S
<1>4. Nat \subseteq S
  BY <1>2, <1>3, Inductive
<1>5. QED
  BY <1>4 DEF S, f

\* How far a function is that was reached.
LEMMA DistanceIs ==
  ASSUME NEW g, NEW root, NEW direction, NEW depth \in Nat,
         NEW n \in Reached(g, root, direction, depth)[depth]
  PROVE  LET f == Reached(g, root, direction, depth)
         IN  /\ Distance(f, n) \in 0 .. depth
             /\ n \in f[Distance(f, n)]
             /\ Distance(f, n) = 0 <=> n = root
<1> DEFINE f == Reached(g, root, direction, depth)
           K == {k \in DOMAIN f : n \in f[k]}
<1>1. DOMAIN f = 0 .. depth /\ f[0] = {root}
  BY ReachedIs
<1> HIDE DEF f
<1>2. K \in SUBSET Nat /\ depth \in K
  BY <1>1 DEF f
<1>3. Min(K) \in K /\ \A k \in K : Min(K) <= k
  BY <1>2, MinIs
<1>4. Min(K) = 0 <=> n = root
  BY <1>1, <1>3
<1>5. QED
  BY <1>1, <1>3, <1>4 DEF Distance, f

\* Which rows an answer of CBM may have.
LEMMA RowsAre ==
  ASSUME NEW found \in SUBSET Nodes, NEW rows \in Rows(found)
  PROVE  /\ rows \in SUBSET found
         /\ Cardinality(found) <= MaxNodes => rows = found
BY DEF Rows, kSubset

\* The names of a trace are those of rows, each at the distance of the nearest.
Traced(g, f, hops, rows) ==
  /\ DOMAIN hops = {g.name[n] : n \in rows}
  /\ \A x \in DOMAIN hops :
       hops[x] = Min({Distance(f, n) : n \in {m \in rows : g.name[m] = x}})

\* A trace names functions that were reached, and unless it was cut off, all.
LEMMA TraceIs ==
  ASSUME NEW g, IsGraph(g), NEW root \in g.has, NEW direction, NEW depth \in Nat,
         NEW hops \in trace(g, root, direction, depth),
         NEW f, f = Reached(g, root, direction, depth)
  PROVE  \E rows \in SUBSET (f[depth] \ {root}) :
           /\ Cardinality(f[depth] \ {root}) <= MaxNodes => rows = f[depth] \ {root}
           /\ Traced(g, f, hops, rows)
<1>1. f[depth] \ {root} \in SUBSET Nodes
  BY ReachedHas DEF IsGraph
<1> DEFINE w == Reached(g, root, direction, depth)
<1>2. PICK rows \in Rows(w[depth] \ {root}) :
        hops = [x \in {g.name[n] : n \in rows} |->
                  Min({Distance(w, n) : n \in {m \in rows : g.name[m] = x}})]
  BY DEF trace
<1> HIDE DEF w
<1>3. /\ rows \in SUBSET (f[depth] \ {root})
      /\ Cardinality(f[depth] \ {root}) <= MaxNodes => rows = f[depth] \ {root}
  BY <1>1, <1>2, RowsAre DEF w
<1>4. Traced(g, f, hops, rows)
  BY <1>2 DEF Traced, w
<1>5. QED
  BY <1>3, <1>4

\* The functions a search for the names of a trace finds, and the nodes that are
\* kept of rows.
FoundBy(g, hops) == {n \in g.has : \E x \in DOMAIN hops : Fold(g.name[n]) = Fold(x)}
Wanted(g, hops, rows) == {n \in rows : g.name[n] \in DOMAIN hops}

Located(g, kept, nodes) == nodes = [x \in {g.name[n] : n \in kept} |->
                                    Min({n \in kept : g.name[n] = x})]

LEMMA LocateRows ==
  ASSUME NEW g, NEW hops, NEW nodes \in locate(g, hops)
  PROVE  \E rows \in Rows(FoundBy(g, hops)) : Located(g, Wanted(g, hops, rows), nodes)
<1> DEFINE nodesOf(kept) == [x \in {g.name[n] : n \in kept} |->
                               Min({n \in kept : g.name[n] = x})]
<1>1. locate(g, hops) = {nodesOf(Wanted(g, hops, rows)) : rows \in Rows(FoundBy(g, hops))}
  BY DEF locate, FoundBy, Wanted
<1> HIDE DEF nodesOf
<1>2. PICK rows \in Rows(FoundBy(g, hops)) : nodes = nodesOf(Wanted(g, hops, rows))
  BY <1>1
<1>3. QED
  BY <1>2 DEF nodesOf, Located

\* The nodes that are located for names that were traced.
LEMMA LocateIs ==
  ASSUME NEW g, IsGraph(g), NEW hops, NEW nodes \in locate(g, hops)
  PROVE  /\ DOMAIN nodes \subseteq DOMAIN hops
         /\ \A x \in DOMAIN nodes : nodes[x] \in g.has /\ g.name[nodes[x]] = x
<1>1. FoundBy(g, hops) \in SUBSET Nodes
  BY DEF IsGraph, FoundBy
<1>2. PICK rows \in Rows(FoundBy(g, hops)) : Located(g, Wanted(g, hops, rows), nodes)
  BY LocateRows
<1>3. rows \in SUBSET FoundBy(g, hops)
  BY <1>1, RowsAre
<1>4. PICK kept : /\ kept \subseteq g.has /\ kept \subseteq Nodes
                  /\ \A n \in kept : g.name[n] \in DOMAIN hops
                  /\ nodes = [x \in {g.name[n] : n \in kept} |->
                                Min({n \in kept : g.name[n] = x})]
  <2>1. /\ Wanted(g, hops, rows) \subseteq g.has /\ Wanted(g, hops, rows) \subseteq Nodes
        /\ \A n \in Wanted(g, hops, rows) : g.name[n] \in DOMAIN hops
    BY <1>1, <1>3 DEF FoundBy, Wanted
  <2>2. QED
    BY <2>1, <1>2 DEF Located
<1>5. ASSUME NEW x \in DOMAIN nodes
      PROVE  nodes[x] \in kept /\ g.name[nodes[x]] = x
  <2> DEFINE T == {n \in kept : g.name[n] = x}
  <2>1. T \in SUBSET Nat /\ T # {}
    BY <1>4, CallGraphAssumption
  <2>2. nodes[x] = Min(T)
    BY <1>4
  <2>3. Min(T) \in T
    BY <2>1, MinIs
  <2>4. QED
    BY <2>2, <2>3
<1>6. QED
  BY <1>4, <1>5

\* None is left out where all of them fit in an answer.
LEMMA LocateAll ==
  ASSUME NEW g, IsGraph(g), NEW hops, NEW nodes \in locate(g, hops),
         Cardinality(FoundBy(g, hops)) <= MaxNodes
  PROVE  DOMAIN nodes = {g.name[n] : n \in Wanted(g, hops, FoundBy(g, hops))}
<1>1. FoundBy(g, hops) \in SUBSET Nodes
  BY DEF IsGraph, FoundBy
<1>2. PICK rows \in Rows(FoundBy(g, hops)) : Located(g, Wanted(g, hops, rows), nodes)
  BY LocateRows
<1>3. rows = FoundBy(g, hops)
  BY <1>1, RowsAre
<1>4. Located(g, Wanted(g, hops, FoundBy(g, hops)), nodes)
  BY <1>2, <1>3
<1>5. QED
  BY <1>4 DEF Located

\* No other function has the name of root.
Only(g, root) == \A n \in g.has : g.name[n] = g.name[root] => n = root

\* From the root a first step goes to a neighbour.
StepsOK(g, root, direction, from) ==
  \A x, y \in DOMAIN from : from[y] = from[x] + 1 =>
    x = g.name[root] /\ \E n \in Neighbours(g, direction, {root}) : y = g.name[n]

\* A walk of one step has no others.
LEMMA FirstStep ==
  ASSUME NEW g, IsGraph(g), NEW root \in g.has, NEW direction,
         Only(g, root),
         NEW hops \in trace(g, root, direction, 1)
  PROVE  StepsOK(g, root, direction, From(g.name[root], hops))
<1> DEFINE f == Reached(g, root, direction, 1)
           from == From(g.name[root], hops)
<1> SUFFICES ASSUME NEW x \in DOMAIN from, NEW y \in DOMAIN from, from[y] = from[x] + 1
             PROVE  x = g.name[root] /\ \E n \in Neighbours(g, direction, {root}) : y = g.name[n]
  BY DEF StepsOK
<1>1. f[0] = {root} /\ f[1] = f[0] \cup Neighbours(g, direction, f[0])
  <2>1. f[0] = {root} /\ \A k \in 1 .. 1 : f[k] = f[k - 1] \cup Neighbours(g, direction, f[k - 1])
    BY ReachedIs
  <2> HIDE DEF f
  <2>2. QED
    BY <2>1
<1>2. PICK rows \in SUBSET (f[1] \ {root}) : Traced(g, f, hops, rows)
  BY TraceIs
<1>3. \A n \in f[1] : Distance(f, n) \in 0 .. 1 /\ (Distance(f, n) = 0 <=> n = root)
  BY DistanceIs
<1>4. f[1] \subseteq g.has
  BY ReachedHas
<1> HIDE DEF f
<1>5. \A n \in rows : Distance(f, n) = 1 /\ n \in Neighbours(g, direction, {root})
  BY <1>1, <1>2, <1>3
<1>6. ASSUME NEW z \in DOMAIN hops
      PROVE  hops[z] = 1 /\ \E n \in rows : z = g.name[n]
  <2>1. PICK n \in rows : z = g.name[n]
    BY <1>2 DEF Traced
  <2>2. {Distance(f, m) : m \in {k \in rows : g.name[k] = z}} = {1}
    BY <2>1, <1>5
  <2>3. hops[z] = Min({1})
    BY <2>2, <1>2 DEF Traced
  <2>4. QED
    BY <2>1, <2>3, MinOne
<1>7. DOMAIN from = {g.name[root]} \cup DOMAIN hops
      /\ \A z \in DOMAIN from : from[z] = IF z = g.name[root] THEN 0 ELSE hops[z]
  BY DEF From
<1> HIDE DEF from
<1>8. x = g.name[root] /\ y \in DOMAIN hops
  BY <1>6, <1>7
<1>9. PICK n \in rows : y = g.name[n]
  BY <1>6, <1>8
<1>10. QED
  BY <1>5, <1>8, <1>9

\* An edge claims what it may, and is cited at its caller.
EdgeOK(g, depth, e) == Claims(g, e, depth) /\ e.site \in DeclaredAt(g, e.caller)

LEMMA EdgesSound ==
  ASSUME NEW g, IsGraph(g), NEW root \in g.has, NEW direction, NEW depth \in Nat \ {0},
         Only(g, root),
         NEW hops \in trace(g, root, direction, depth), NEW from, from = From(g.name[root], hops),
         NEW nodes \in locate(g, from), NEW e \in edges(g, from, nodes, direction)
  PROVE  EdgeOK(g, depth, e)
<1> DEFINE edge(caller, callee) ==
             [caller |-> caller, callee |-> callee, site |-> g.at[nodes[caller]]]
<1>1. PICK p \in (DOMAIN nodes) \X (DOMAIN nodes) :
        /\ p[2] \in Connected(g, nodes[p[1]]) /\ from[p[2]] = from[p[1]] + 1
        /\ e = IF direction = "callees" THEN edge(p[1], p[2]) ELSE edge(p[2], p[1])
  BY DEF edges
<1>2. /\ DOMAIN nodes \subseteq DOMAIN from
      /\ \A x \in DOMAIN nodes : nodes[x] \in g.has /\ g.name[nodes[x]] = x
  BY LocateIs
<1>3. PICK m \in g.has : /\ {<<nodes[p[1]], m>>, <<m, nodes[p[1]]>>} \cap g.calls # {}
                         /\ g.name[m] = p[2]
  BY <1>1 DEF Connected
<1>4. Makes(g, p[1], p[2]) \/ Makes(g, p[2], p[1])
  <2>1. g.name[nodes[p[1]]] = p[1]
    BY <1>2
  <2>2. CASE <<nodes[p[1]], m>> \in g.calls
    BY <2>1, <2>2, <1>3 DEF Makes
  <2>3. CASE <<m, nodes[p[1]]>> \in g.calls
    BY <2>1, <2>3, <1>3 DEF Makes
  <2>4. QED
    BY <2>2, <2>3, <1>3
<1>5. /\ direction = "callees" => e.caller = p[1] /\ e.callee = p[2]
      /\ direction # "callees" => e.caller = p[2] /\ e.callee = p[1]
      /\ e.caller \in DOMAIN nodes /\ e.site = g.at[nodes[e.caller]]
  BY <1>1
<1>6. e.site \in DeclaredAt(g, e.caller)
  BY <1>2, <1>5 DEF DeclaredAt
<1>7. CASE depth > 1
  BY <1>4, <1>5, <1>6, <1>7 DEF EdgeOK, Claims
<1>8. CASE depth = 1
  <2>1. PICK x \in DOMAIN from, y \in DOMAIN from :
          x = p[1] /\ y = p[2] /\ from[y] = from[x] + 1
    BY <1>1, <1>2
  <2> HIDE DEF edge
  <2>2. hops \in trace(g, root, direction, 1)
    BY <1>8
  <2>3. x = g.name[root] /\ \E n \in Neighbours(g, direction, {root}) : y = g.name[n]
    <3>1. StepsOK(g, root, direction, from)
      BY <2>2, FirstStep
    <3>2. QED
      BY <3>1, <2>1 DEF StepsOK
  <2>4. PICK n \in Neighbours(g, direction, {root}) : p[2] = g.name[n] /\ p[1] = g.name[root]
    BY <2>1, <2>3
  <2>5. CASE direction = "callees"
    <3>1. <<root, n>> \in g.calls
      BY <2>4, <2>5 DEF Neighbours, IsGraph
    <3>2. QED
      BY <3>1, <2>4, <2>5, <1>5, <1>6 DEF EdgeOK, Claims, Makes
  <2>6. CASE direction # "callees"
    <3>1. <<n, root>> \in g.calls
      BY <2>4, <2>6 DEF Neighbours, IsGraph
    <3>2. QED
      BY <3>1, <2>4, <2>6, <1>5, <1>6 DEF EdgeOK, Claims, Makes
  <2>7. QED
    BY <2>5, <2>6
<1>9. QED
  BY <1>7, <1>8

\* The names of functions.
NamesOf(g, S) == {g.name[n] : n \in S}

\* Where names are unique and nothing was cut off, every function that was
\* reached is named, at its distance.
HopsOK(g, root, f, reached, from) ==
  /\ DOMAIN from = NamesOf(g, reached \cup {root})
  /\ \A n \in reached : from[g.name[n]] = Distance(f, n)

LEMMA PlainIs ==
  ASSUME NEW g, NEW root, NEW direction, NEW depth, Plain(g, root, direction, depth)
  PROVE  /\ Cardinality(Reached(g, root, direction, depth)[depth]) <= MaxNodes
         /\ \A x, y \in g.has : Fold(g.name[x]) = Fold(g.name[y]) => x = y
         /\ \A x, y \in g.has : g.name[x] = g.name[y] => x = y
BY DEF Plain

LEMMA PlainHops ==
  ASSUME NEW g, IsGraph(g), NEW root \in g.has, NEW direction, NEW depth \in Nat,
         Plain(g, root, direction, depth), NEW hops \in trace(g, root, direction, depth)
  PROVE  HopsOK(g, root, Reached(g, root, direction, depth),
                Reached(g, root, direction, depth)[depth], From(g.name[root], hops))
<1> DEFINE f == Reached(g, root, direction, depth)
           F == f[depth]
           from == From(g.name[root], hops)
<1>1. F \subseteq g.has
  BY ReachedHas
<1>2. \A n \in F : Distance(f, n) \in 0 .. depth /\ (Distance(f, n) = 0 <=> n = root)
  BY DistanceIs
<1>3. PICK rows \in SUBSET (F \ {root}) :
        /\ Cardinality(F \ {root}) <= MaxNodes => rows = F \ {root}
        /\ Traced(g, f, hops, rows)
  BY TraceIs
<1>4. Cardinality(F) <= MaxNodes /\ \A x, y \in g.has : g.name[x] = g.name[y] => x = y
  BY PlainIs
<1> HIDE DEF f, F
<1>5. IsFiniteSet(F) /\ F \ {root} \subseteq F
  BY <1>1, FS_Subset, CallGraphAssumption DEF IsGraph
<1>6. Cardinality(F \ {root}) <= MaxNodes
  <2>1. /\ Cardinality(F \ {root}) <= Cardinality(F) /\ Cardinality(F) \in Nat
        /\ Cardinality(F \ {root}) \in Nat
    BY <1>5, FS_Subset, FS_CardinalityType
  <2>2. QED
    BY <2>1, <1>4, CallGraphAssumption
<1>7. rows = F \ {root}
  BY <1>3, <1>6
<1>8. ASSUME NEW n \in F \ {root}
      PROVE  g.name[n] # g.name[root] /\ from[g.name[n]] = Distance(f, n)
  <2>1. {m \in rows : g.name[m] = g.name[n]} = {n}
    BY <1>1, <1>4, <1>7
  <2>2. hops[g.name[n]] = Min({Distance(f, n)})
    <3>1. {Distance(f, m) : m \in {n}} = {Distance(f, n)}
      OBVIOUS
    <3>2. g.name[n] \in DOMAIN hops
      BY <1>3, <1>7 DEF Traced
    <3>3. QED
      BY <1>3, <2>1, <3>1, <3>2 DEF Traced
  <2>3. hops[g.name[n]] = Distance(f, n)
    BY <1>2, <2>2, MinOne
  <2>4. g.name[n] # g.name[root]
    BY <1>1, <1>4
  <2>5. QED
    BY <1>3, <1>7, <2>3, <2>4 DEF From, Traced
<1>9. from[g.name[root]] = 0 /\ DOMAIN from = {g.name[root]} \cup DOMAIN hops
  BY DEF From
<1>10. \A n \in F : from[g.name[n]] = Distance(f, n)
  BY <1>2, <1>8, <1>9
<1>11. DOMAIN from = {g.name[n] : n \in F \cup {root}}
  BY <1>3, <1>7, <1>9 DEF Traced
<1>12. QED
  BY <1>10, <1>11 DEF f, F, NamesOf, HopsOK

\* The root of a walk is reached.
LEMMA RootReached ==
  ASSUME NEW g, NEW root, NEW direction, NEW depth \in Nat
  PROVE  root \in Reached(g, root, direction, depth)[depth]
<1> DEFINE f == Reached(g, root, direction, depth)
           S == {k \in Nat : k <= depth => root \in f[k]}
<1>1. f[0] = {root}
      /\ \A k \in 1 .. depth : f[k] = f[k - 1] \cup Neighbours(g, direction, f[k - 1])
  BY ReachedIs
<1> HIDE DEF f
<1>2. 0 \in S
  BY <1>1
<1>3. ASSUME NEW k \in Nat, k \in S
      PROVE  k + 1 \in S
  <2>1. CASE k + 1 <= depth
    <3>1. k + 1 \in 1 .. depth /\ (k + 1) - 1 = k
      BY <2>1
    <3>2. f[k] \subseteq f[k + 1]
      BY <3>1, <1>1
    <3>3. QED
      BY <3>2, <1>3, <2>1
  <2>2. QED
    BY <2>1
<1> HIDE DEF S
<1>4. Nat \subseteq S
  BY <1>2, <1>3, Inductive
<1>5. QED
  BY <1>4 DEF S, f

\* The nodes are then those that were reached.
LEMMA PlainNodes ==
  ASSUME NEW g, IsGraph(g), NEW root \in g.has, NEW direction, NEW depth \in Nat,
         Plain(g, root, direction, depth), NEW hops \in trace(g, root, direction, depth),
         NEW nodes \in locate(g, From(g.name[root], hops)),
         NEW F, F = Reached(g, root, direction, depth)[depth]
  PROVE  /\ DOMAIN nodes = NamesOf(g, F)
         /\ \A n \in F : nodes[g.name[n]] = n
<1> DEFINE from == From(g.name[root], hops)
<1>1. F \subseteq g.has /\ root \in F
  BY ReachedHas, RootReached
<1>2. /\ Cardinality(F) <= MaxNodes
      /\ \A x, y \in g.has : g.name[x] = g.name[y] => x = y
      /\ \A x, y \in g.has : Fold(g.name[x]) = Fold(g.name[y]) => x = y
  BY PlainIs
<1>3. DOMAIN from = {g.name[n] : n \in F}
  <2>1. DOMAIN from = NamesOf(g, Reached(g, root, direction, depth)[depth] \cup {root})
    BY PlainHops DEF HopsOK
  <2> HIDE DEF from
  <2>2. F \cup {root} = F
    BY <1>1
  <2>3. QED
    BY <2>1, <2>2 DEF NamesOf
<1>4. /\ DOMAIN nodes \subseteq DOMAIN from
      /\ \A x \in DOMAIN nodes : nodes[x] \in g.has /\ g.name[nodes[x]] = x
  BY LocateIs
<1>5. nodes \in locate(g, from)
  OBVIOUS
<1> HIDE DEF from
<1>6. FoundBy(g, from) = F /\ Wanted(g, from, F) = F
  <2>1. ASSUME NEW n \in FoundBy(g, from) PROVE n \in F
    <3>1. PICK m \in F : Fold(g.name[n]) = Fold(g.name[m])
      BY <1>3 DEF FoundBy
    <3>2. n = m
      BY <3>1, <1>1, <1>2 DEF FoundBy
    <3>3. QED
      BY <3>2
  <2>2. ASSUME NEW n \in F PROVE n \in FoundBy(g, from) /\ g.name[n] \in DOMAIN from
    BY <1>1, <1>3 DEF FoundBy
  <2>3. QED
    BY <2>1, <2>2 DEF Wanted
<1>7. DOMAIN nodes = {g.name[n] : n \in F}
  BY <1>2, <1>5, <1>6, LocateAll
<1>8. \A n \in F : nodes[g.name[n]] = n
  BY <1>1, <1>2, <1>4, <1>7
<1>9. QED
  BY <1>7, <1>8 DEF NamesOf

\* Where names are unique and nothing was cut off, a walk reports the calls
\* between functions whose distances differ by one.
EdgesOK(g, root, direction, depth, E) ==
  Plain(g, root, direction, depth) => E = Walk(g, root, direction, depth)

\* The calls of g and their reverses.
Both(g) == g.calls \cup {<<p[2], p[1]>> : p \in g.calls}

LEMMA BothIs ==
  ASSUME NEW g, IsGraph(g)
  PROVE  /\ \A p \in Both(g) : /\ p = <<p[1], p[2]>> /\ p[1] \in g.has /\ p[2] \in g.has
                              /\ (p \in g.calls \/ <<p[2], p[1]>> \in g.calls)
         /\ \A x, y : <<x, y>> \in g.calls => <<x, y>> \in Both(g) /\ <<y, x>> \in Both(g)
<1>1. \A p \in g.calls : p = <<p[1], p[2]>> /\ p[1] \in g.has /\ p[2] \in g.has
  BY DEF IsGraph
<1>2. ASSUME NEW p \in Both(g)
      PROVE  /\ p = <<p[1], p[2]>> /\ p[1] \in g.has /\ p[2] \in g.has
             /\ (p \in g.calls \/ <<p[2], p[1]>> \in g.calls)
  <2>1. CASE p \in g.calls
    BY <2>1, <1>1
  <2>2. CASE p \notin g.calls
    <3>1. PICK q \in g.calls : p = <<q[2], q[1]>>
      BY <2>2 DEF Both
    <3>2. p[1] = q[2] /\ p[2] = q[1] /\ q = <<q[1], q[2]>>
      BY <3>1, <1>1
    <3>3. QED
      BY <3>1, <3>2, <1>1
  <2>3. QED
    BY <2>1, <2>2
<1>3. ASSUME NEW x, NEW y, <<x, y>> \in g.calls
      PROVE  <<x, y>> \in Both(g) /\ <<y, x>> \in Both(g)
  <2>1. <<y, x>> = <<(<<x, y>>)[2], (<<x, y>>)[1]>>
    OBVIOUS
  <2>2. QED
    BY <2>1, <1>3 DEF Both
<1>4. QED
  BY <1>2, <1>3

LEMMA PlainWalk ==
  ASSUME NEW g, IsGraph(g), NEW root \in g.has, NEW direction, NEW depth \in Nat \ {0},
         Plain(g, root, direction, depth), NEW hops \in trace(g, root, direction, depth),
         NEW nodes \in locate(g, From(g.name[root], hops))
  PROVE  EdgesOK(g, root, direction, depth, edges(g, From(g.name[root], hops), nodes, direction))
<1> DEFINE f == Reached(g, root, direction, depth)
           F == f[depth]
           from == From(g.name[root], hops)
           near(p) == IF direction = "callees" THEN p[1] ELSE p[2]
           far(p) == IF direction = "callees" THEN p[2] ELSE p[1]
           call(p) == [caller |-> g.name[p[1]], callee |-> g.name[p[2]], site |-> g.at[p[1]]]
           steps == {p \in Both(g) : /\ {near(p), far(p)} \subseteq F
                                     /\ Distance(f, far(p)) = Distance(f, near(p)) + 1}
<1>1. F \subseteq g.has /\ root \in F
  BY ReachedHas, RootReached
<1>2. /\ DOMAIN from = NamesOf(g, F \cup {root})
      /\ \A n \in F : from[g.name[n]] = Distance(f, n)
  <2>1. HopsOK(g, root, f, F, from)
    BY PlainHops
  <2> HIDE DEF f, F, from
  <2>2. QED
    BY <2>1 DEF HopsOK
<1>3. DOMAIN nodes = NamesOf(g, F) /\ \A n \in F : nodes[g.name[n]] = n
  BY PlainNodes
<1>4. Walk(g, root, direction, depth) = {call(p) : p \in steps}
  BY DEF Walk, Outward, Both
<1>5. \A x, y \in g.has : g.name[x] = g.name[y] => x = y
  BY PlainIs
<1> DEFINE E == edges(g, From(g.name[root], hops), nodes, direction)
           edge(x, y) == [caller |-> x, callee |-> y, site |-> g.at[nodes[x]]]
           crosses(x, y) == y \in Connected(g, nodes[x]) /\ from[y] = from[x] + 1
<1>6. ASSUME NEW x \in DOMAIN nodes, NEW y \in DOMAIN nodes, crosses(x, y)
      PROVE  (IF direction = "callees" THEN edge(x, y) ELSE edge(y, x)) \in E
  <2> DEFINE pairs == {q \in (DOMAIN nodes) \X (DOMAIN nodes) :
                         q[2] \in Connected(g, nodes[q[1]]) /\ from[q[2]] = from[q[1]] + 1}
             told(p) == IF direction = "callees" THEN edge(p[1], p[2]) ELSE edge(p[2], p[1])
  <2>1. <<x, y>> \in pairs
    BY <1>6
  <2>2. E = {told(p) : p \in pairs}
    BY DEF edges
  <2> HIDE DEF pairs, told
  <2>3. told(<<x, y>>) \in E
    BY <2>1, <2>2
  <2>4. QED
    BY <2>3 DEF told
<1>7. ASSUME NEW e \in E
      PROVE  \E x, y \in DOMAIN nodes :
               /\ crosses(x, y)
               /\ e = IF direction = "callees" THEN edge(x, y) ELSE edge(y, x)
  BY DEF edges
<1> HIDE DEF f, F, from, E
<1>8. ASSUME NEW p \in steps
      PROVE  call(p) \in E
  <2>1. /\ p = <<p[1], p[2]>> /\ p[1] \in g.has /\ p[2] \in g.has
        /\ (p \in g.calls \/ <<p[2], p[1]>> \in g.calls)
        /\ near(p) \in F /\ far(p) \in F
        /\ Distance(f, far(p)) = Distance(f, near(p)) + 1
    <3>1. p \in Both(g)
      OBVIOUS
    <3>2. /\ p = <<p[1], p[2]>> /\ p[1] \in g.has /\ p[2] \in g.has
          /\ (p \in g.calls \/ <<p[2], p[1]>> \in g.calls)
      <4> HIDE DEF steps
      <4>1. QED
        BY <3>1, BothIs
    <3>3. QED
      BY <3>2
  <2> DEFINE x == g.name[near(p)]
             y == g.name[far(p)]
  <2>2. x \in DOMAIN nodes /\ y \in DOMAIN nodes /\ nodes[x] = near(p) /\ nodes[y] = far(p)
    BY <2>1, <1>3 DEF NamesOf
  <2>3. from[y] = from[x] + 1
    BY <2>1, <1>2
  <2>4. y \in Connected(g, near(p))
    <3>1. far(p) \in g.has /\ (<<near(p), far(p)>> \in g.calls \/ <<far(p), near(p)>> \in g.calls)
      BY <2>1
    <3>2. QED
      BY <3>1 DEF Connected
  <2>5. call(p) = IF direction = "callees" THEN edge(x, y) ELSE edge(y, x)
    BY <2>2
  <2>6. QED
    BY <2>2, <2>3, <2>4, <2>5, <1>6
<1>9. ASSUME NEW e \in E
      PROVE  e \in {call(p) : p \in steps}
  <2>1. PICK x, y \in DOMAIN nodes :
          /\ crosses(x, y)
          /\ e = IF direction = "callees" THEN edge(x, y) ELSE edge(y, x)
    BY <1>7
  <2>2. PICK a \in F, b \in F : x = g.name[a] /\ y = g.name[b] /\ nodes[x] = a /\ nodes[y] = b
    BY <1>3 DEF NamesOf
  <2>3. Distance(f, b) = Distance(f, a) + 1
    BY <2>1, <2>2, <1>2
  <2>4. PICK m \in g.has : /\ (<<a, m>> \in g.calls \/ <<m, a>> \in g.calls)
                           /\ g.name[m] = y
    BY <2>1, <2>2 DEF Connected
  <2>5. m = b
    BY <2>2, <2>4, <1>1, <1>5
  <2>6. <<a, b>> \in Both(g) /\ <<b, a>> \in Both(g)
    BY <2>4, <2>5, BothIs
  <2>7. CASE direction = "callees"
    <3>1. <<a, b>> \in steps /\ call(<<a, b>>) = edge(x, y)
      BY <2>2, <2>3, <2>6, <2>7
    <3>2. QED
      BY <3>1, <2>1, <2>7
  <2>8. CASE direction # "callees"
    <3>1. <<b, a>> \in steps /\ call(<<b, a>>) = edge(y, x)
      BY <2>2, <2>3, <2>6, <2>8
    <3>2. QED
      BY <3>1, <2>1, <2>8
  <2>9. QED
    BY <2>7, <2>8
<1>10. QED
  BY <1>4, <1>8, <1>9 DEF EdgesOK, E

\* What is known of an answer to a walk.
WalkOK(g, symbol, direction, depth, walk) ==
  /\ walk.verdict \in {"ok", "SYMBOL_NOT_FOUND", "SYMBOL_AMBIGUOUS"}
  /\ walk.verdict = "SYMBOL_NOT_FOUND" <=> candidates(g, symbol) = {}
  /\ walk.verdict # "ok" => walk.edges = {}
  /\ walk.verdict = "ok" => \E root \in g.has : candidates(g, symbol) = {root}
  /\ \A e \in walk.edges : EdgeOK(g, depth, e)
  /\ walk.verdict = "ok" =>
       \A root \in candidates(g, symbol) : EdgesOK(g, root, direction, depth, walk.edges)

\* A walk that has nothing to report has left nothing out.
LEMMA NothingNear ==
  ASSUME NEW g, IsGraph(g), NEW root \in g.has, NEW direction, NEW depth \in Nat,
         Plain(g, root, direction, depth), NEW hops \in trace(g, root, direction, depth),
         DOMAIN hops = {}
  PROVE  Walk(g, root, direction, depth) = {}
<1> DEFINE f == Reached(g, root, direction, depth)
           F == f[depth]
           from == From(g.name[root], hops)
           near(p) == IF direction = "callees" THEN p[1] ELSE p[2]
           far(p) == IF direction = "callees" THEN p[2] ELSE p[1]
           call(p) == [caller |-> g.name[p[1]], callee |-> g.name[p[2]], site |-> g.at[p[1]]]
           steps == {p \in Both(g) : /\ {near(p), far(p)} \subseteq F
                                     /\ Distance(f, far(p)) = Distance(f, near(p)) + 1}
<1>1. F \subseteq g.has /\ root \in F
  BY ReachedHas, RootReached
<1>2. DOMAIN from = NamesOf(g, F \cup {root})
  BY PlainHops DEF HopsOK
<1>3. DOMAIN from = {g.name[root]}
  BY DEF From
<1>4. Distance(f, root) = 0
  BY RootReached, DistanceIs
<1>5. \A x, y \in g.has : g.name[x] = g.name[y] => x = y
  BY PlainIs
<1>6. Walk(g, root, direction, depth) = {call(p) : p \in steps}
  BY DEF Walk, Outward, Both
<1> HIDE DEF f, F, from
<1>7. \A n \in F : n = root
  <2>1. \A n \in F : g.name[n] = g.name[root]
    BY <1>2, <1>3 DEF NamesOf
  <2>2. QED
    BY <2>1, <1>1, <1>5
<1>8. steps = {}
  BY <1>4, <1>7
<1>9. QED
  BY <1>6, <1>8

\* An answer to a walk is that of the one function of that name.
LEMMA WalkIs ==
  ASSUME NEW g, IsGraph(g), NEW symbol, NEW direction, NEW depth \in Nat \ {0},
         NEW walk \in TraceCalls(g, symbol, direction, depth)
  PROVE  WalkOK(g, symbol, direction, depth, walk)
<1> DEFINE found == candidates(g, symbol)
<1>1. IsFiniteSet(found) /\ found \subseteq g.has
  <2>1. found \subseteq Nodes
    BY DEF candidates, IsGraph
  <2>2. QED
    BY <2>1, FS_Subset, CallGraphAssumption DEF candidates
<1>2. CASE found = {}
  <2>1. walk = [verdict |-> "SYMBOL_NOT_FOUND", edges |-> {}]
    BY <1>2 DEF TraceCalls
  <2>2. QED
    BY <2>1, <1>2 DEF WalkOK
<1> DEFINE chosen == CHOOSE n \in found : TRUE
<1>3. CASE found # {} /\ (Cardinality(found) > 1 \/ chosen \in g.unclear)
  <2>1. walk = [verdict |-> "SYMBOL_AMBIGUOUS", edges |-> {}]
    BY <1>3 DEF TraceCalls
  <2>2. QED
    BY <2>1, <1>3 DEF WalkOK
<1>4. CASE found # {} /\ ~(Cardinality(found) > 1 \/ chosen \in g.unclear)
  <2>1. PICK root \in g.has : found = {root}
    <3>1. Cardinality(found) \in Nat /\ Cardinality(found) # 0
      BY <1>1, <1>4, FS_CardinalityType, FS_EmptySet
    <3>2. Cardinality(found) = 1
      BY <3>1, <1>4
    <3>3. QED
      BY <3>2, <1>1, FS_Singleton
  <2>2. Only(g, root)
    <3>1. ASSUME NEW n \in g.has, g.name[n] = g.name[root] PROVE n \in found
      <4>1. root \in found
        BY <2>1
      <4>2. QED
        BY <3>1, <4>1 DEF candidates
    <3>2. QED
      BY <3>1, <2>1 DEF Only
  <2>3. PICK hops \in trace(g, root, direction, depth) :
          \/ DOMAIN hops = {} /\ walk = [verdict |-> "ok", edges |-> {}]
          \/ DOMAIN hops # {} /\ \E nodes \in locate(g, From(g.name[root], hops)) :
               walk = [verdict |-> "ok",
                       edges |-> edges(g, From(g.name[root], hops), nodes, direction)]
    <3> DEFINE graph(E) == [verdict |-> "ok", edges |-> E]
               walked(from) == {graph(edges(g, from, nodes, direction)) : nodes \in locate(g, from)}
               answersOf(n, hops) == IF DOMAIN hops = {} THEN {graph({})}
                                     ELSE walked(From(g.name[n], hops))
               answers(hops) == answersOf(root, hops)
    <3>1. chosen = root
      BY <2>1
    <3>2. TraceCalls(g, symbol, direction, depth)
            = UNION {answers(hops) : hops \in trace(g, root, direction, depth)}
      <4>1. TraceCalls(g, symbol, direction, depth)
              = IF found = {} THEN {[verdict |-> "SYMBOL_NOT_FOUND", edges |-> {}]}
                ELSE IF Cardinality(found) > 1 \/ chosen \in g.unclear
                THEN {[verdict |-> "SYMBOL_AMBIGUOUS", edges |-> {}]}
                ELSE UNION {answersOf(chosen, hops) : hops \in trace(g, chosen, direction, depth)}
        BY DEF TraceCalls
      <4> HIDE DEF answersOf, chosen, found
      <4>2. QED
        BY <4>1, <3>1, <1>4
    <3> HIDE DEF answers
    <3>3. PICK hops \in trace(g, root, direction, depth) : walk \in answers(hops)
      BY <3>2
    <3>4. CASE DOMAIN hops = {}
      BY <3>3, <3>4 DEF answers
    <3>5. CASE DOMAIN hops # {}
      <4>1. walk \in walked(From(g.name[root], hops))
        BY <3>3, <3>5 DEF answers
      <4>2. QED
        BY <4>1, <3>5
    <3>6. QED
      BY <3>4, <3>5
  <2>4. CASE DOMAIN hops = {} /\ walk = [verdict |-> "ok", edges |-> {}]
    <3>1. \A n \in found : EdgesOK(g, n, direction, depth, {})
      BY <2>1, <2>4, NothingNear DEF EdgesOK
    <3>2. QED
      BY <2>1, <2>4, <3>1 DEF WalkOK
  <2>5. ASSUME NEW nodes \in locate(g, From(g.name[root], hops)),
               walk = [verdict |-> "ok",
                       edges |-> edges(g, From(g.name[root], hops), nodes, direction)]
        PROVE  WalkOK(g, symbol, direction, depth, walk)
    <3> DEFINE E == edges(g, From(g.name[root], hops), nodes, direction)
    <3>1. \A e \in E : EdgeOK(g, depth, e)
      BY <2>2, EdgesSound
    <3>2. EdgesOK(g, root, direction, depth, E)
      <4>1. CASE Plain(g, root, direction, depth)
        BY <4>1, PlainWalk
      <4>2. CASE ~Plain(g, root, direction, depth)
        BY <4>2 DEF EdgesOK
      <4>3. QED
        BY <4>1, <4>2
    <3> HIDE DEF E
    <3>3. walk.verdict = "ok" /\ walk.edges = E
      BY <2>5 DEF E
    <3>4. QED
      BY <2>1, <3>1, <3>2, <3>3 DEF WalkOK
  <2>6. QED
    BY <2>3, <2>4, <2>5
<1>5. QED
  BY <1>2, <1>3, <1>4
--------------------------------------------------------------------------------
(* Answers                                                                     *)

\* The member a request is answered in has a graph.
LEMMA MemberGraph ==
  ASSUME WorldOK, NEW r \in Requests[world.kind], NEW side \in 1 .. Sides(r.tool),
         member(r, side) # None
  PROVE  IsGraph(Graph(member(r, side)))
<1> DEFINE id == r.ids[side]
           all == resolve(id)
           named == {i \in DOMAIN all : all[i].repository = r.repository}
           chosen == selectMembers(id, r.repository)
<1>1. id \in DOMAIN world.scope
  BY DEF WorldOK
<1>2. /\ \A i \in DOMAIN all : IsGraph(Graph(all[i]))
      /\ world.scope[id] \in Seq(ToSet(world.scope[id]))
  BY <1>1 DEF WorldOK
<1>3. DOMAIN all = 1 .. Len(all) /\ Len(all) \in Nat
  <2>1. all = <<>> \/ all = world.scope[id]
    BY DEF resolve
  <2> HIDE DEF all
  <2>2. QED
    BY <2>1, <1>2
<1>4. chosen = IF r.repository = None THEN all
               ELSE IF named = {} THEN <<>> ELSE <<all[Min(named)]>>
  BY DEF selectMembers
<1>5. Len(chosen) = 1 /\ member(r, side) = chosen[1]
  BY DEF member
<1> HIDE DEF all, chosen
<1>6. CASE r.repository = None
  <2>1. chosen = all
    BY <1>4, <1>6
  <2>2. 1 \in DOMAIN all
    BY <2>1, <1>3, <1>5
  <2>3. QED
    BY <2>1, <2>2, <1>2, <1>5
<1>7. CASE r.repository # None
  <2>1. named # {}
    BY <1>4, <1>5, <1>7
  <2>2. named \in SUBSET Nat
    BY <1>3
  <2>3. Min(named) \in named
    BY <2>1, <2>2, MinIs
  <2>4. chosen[1] = all[Min(named)]
    BY <2>1, <1>4, <1>7
  <2>5. QED
    BY <2>3, <2>4, <1>2, <1>5
<1>8. QED
  BY <1>6, <1>7

\* The world stays as it is.
LEMMA WorldStays ==
  ASSUME WorldOK, [Next]_vars
  PROVE  WorldOK' /\ world' = world
<1>1. world' = world
  BY DEF Next, list_contexts, search_code, get_code, search_history, trace_calls, compare_calls,
         compare_code, Ask, Sent, vars
<1>2. WorldOK'
  <2>1. \A id : resolve(id)' = resolve(id)
    BY <1>1 DEF resolve
  <2>2. \A m : /\ Graph(m)' = Graph(m) /\ Log(m)' = Log(m)
               /\ Shard(m)' = Shard(m) /\ Tree(m)' = Tree(m)
    BY <1>1 DEF Graph, Log, Shard, Tree
  <2>3. QED
    BY <1>1, <2>1, <2>2, Zenon DEF WorldOK
<1>3. QED
  BY <1>1, <1>2

\* An answer that is there stays, is sent, or is that to a request that came.
LEMMA Replies ==
  ASSUME [Next]_vars
  PROVE  \/ UNCHANGED vars
         \/ ask' = None
         \/ \E r \in Requests[world.kind] :
              /\ ask' = r
              /\ r.tool = "trace_calls" => TraceCallsIn(r)
              /\ r.tool = "compare_calls" => CompareCalls(r)
              /\ r.tool = "search_code" => SearchCode(r)
              /\ r.tool = "compare_code" => CompareCode(r)
              /\ r.tool = "search_history" => SearchHistoryIn(r)
<1>1. CASE UNCHANGED vars
  BY <1>1
<1>2. CASE Sent
  BY <1>2 DEF Sent
<1>3. CASE list_contexts
  BY <1>3 DEF list_contexts, Ask, Asked
<1>4. CASE search_code
  BY <1>4 DEF search_code, Ask, Asked
<1>5. CASE trace_calls
  BY <1>5 DEF trace_calls, Ask, Asked
<1>6. CASE compare_calls
  BY <1>6 DEF compare_calls, Ask, Asked
<1>7. CASE get_code
  BY <1>7 DEF get_code, Ask, Asked
<1>8. CASE compare_code
  BY <1>8 DEF compare_code, Ask, Asked
<1>9. CASE search_history
  BY <1>9 DEF search_history, Ask, Asked
<1>10. QED
  BY <1>1, <1>2, <1>3, <1>4, <1>5, <1>6, <1>7, <1>8, <1>9 DEF Next

\* A request is about the same members after the step that took it.
LEMMA SameMember ==
  ASSUME world' = world, NEW side
  PROVE  \A r : ask' = r => Graph(member(ask, side))' = Graph(member(r, side))
<1> SUFFICES ASSUME NEW r, ask' = r
             PROVE  Graph(member(ask, side))' = Graph(member(r, side))
  OBVIOUS
<1>1. \A id : resolve(id)' = resolve(id)
  BY DEF resolve
<1>2. selectMembers(ask.ids[side], ask.repository)' = selectMembers(r.ids[side], r.repository)
  BY <1>1 DEF selectMembers
<1>3. member(ask, side)' = member(r, side)
  BY <1>2 DEF member
<1>4. QED
  BY <1>3 DEF Graph

\* What WalkTrue says of the edges of an answer.
WalkTold(g, root, direction, depth, E) ==
  /\ \A e \in E : Claims(g, e, depth) /\ e.site \in DeclaredAt(g, e.caller)
  /\ Plain(g, root, direction, depth) => E = Walk(g, root, direction, depth)

\* The answer to a walk is that of the graph of the member it is asked in.
LEMMA WalkStep ==
  ASSUME WorldOK, WalkTrue, [Next]_vars
  PROVE  WalkTrue'
<1>1. CASE UNCHANGED vars
  <2>1. ask' = ask /\ answer' = answer /\ Graph(member(ask, 1))' = Graph(member(ask, 1))
    BY <1>1, SameMember DEF vars
  <2>2. QED
    BY <2>1 DEF WalkTrue, Answered
<1>2. CASE ask' = None
  BY <1>2 DEF WalkTrue, Answered
<1>3. ASSUME NEW r \in Requests[world.kind], ask' = r,
             r.tool = "trace_calls" => TraceCallsIn(r), Answered("trace_calls")'
      PROVE  WalkTrue'
  <2> DEFINE m == member(r, 1)
  <2>0. PICK g : g = Graph(m)
    OBVIOUS
  <2>1. /\ r.tool = "trace_calls" /\ answer'.verdict = "ok" /\ TraceCallsIn(r)
        /\ 1 \in 1 .. Sides(r.tool)
    BY <1>3 DEF Answered, Sides
  <2>2. /\ r.depth \in 1 .. MaxDepth /\ m # None
        /\ \E walk \in TraceCalls(g, r.symbol, r.direction, r.depth) :
             /\ walk.verdict = "ok"
             /\ answer' = [verdict |-> "ok", edges |-> walk.edges, cited |-> sites(walk.edges)]
    <3>1. ~(~DepthInRange(r) \/ m = None)
      BY <2>1 DEF TraceCallsIn, Refuse
    <3>2. QED
      BY <2>0, <2>1, <3>1 DEF TraceCallsIn, Refuse, DepthInRange
  <2>3. PICK walk \in TraceCalls(g, r.symbol, r.direction, r.depth) :
          /\ walk.verdict = "ok"
          /\ answer' = [verdict |-> "ok", edges |-> walk.edges, cited |-> sites(walk.edges)]
    BY <2>0, <2>2
  <2>4. IsGraph(g)
    BY <2>0, <2>1, <2>2, MemberGraph
  <2>5. r.depth \in Nat \ {0}
    BY <2>2, AnswersAssumption
  <2>6. WalkOK(g, r.symbol, r.direction, r.depth, walk)
    BY <2>3, <2>4, <2>5, WalkIs
  <2>7. Graph(member(ask, 1))' = g
    BY <2>0, <1>3, WorldStays, SameMember
  <2> HIDE DEF m
  <2>8. PICK root \in g.has : candidates(g, r.symbol) = {root}
    BY <2>3, <2>6 DEF WalkOK
  <2>9. (CHOOSE n \in candidates(g, r.symbol) : TRUE) = root
    BY <2>8
  <2>10. EdgesOK(g, root, r.direction, r.depth, walk.edges)
       /\ \A e \in walk.edges : EdgeOK(g, r.depth, e)
    BY <2>3, <2>6, <2>8 DEF WalkOK
  <2>11. answer'.edges = walk.edges /\ answer'.cited = {e.site : e \in walk.edges}
    BY <2>3 DEF sites
  <2>12. /\ candidates(g, r.symbol)' = candidates(g, r.symbol)
         /\ ask' = r /\ ask'.symbol = r.symbol /\ ask'.depth = r.depth
         /\ ask'.direction = r.direction
    BY <1>3
  <2>13. WalkTold(g, root, ask.direction, ask.depth, answer.edges)'
    <3>1. WalkTold(g, root, r.direction, r.depth, answer'.edges)
      BY <2>10, <2>11 DEF EdgesOK, EdgeOK, WalkTold
    <3>2. QED
      BY <3>1, <1>3
  <2>14. QED
    BY <2>2, <2>7, <2>9, <2>11, <2>12, <2>13 DEF WalkTrue, WalkTold
<1>4. QED
  BY <1>1, <1>2, <1>3, Replies DEF WalkTrue

\* A walk that is answered cites the declaration of each caller it names, which
\* calls the callee or, beyond the first step, is called by it; and where names
\* are unique and nothing was cut off it is exactly the calls between functions
\* whose distances differ by one (adapters/cbm/cbm.go).
THEOREM WalksTrue == Spec => []WalkTrue
<1>1. Init => WorldOK /\ WalkTrue
  BY DEF Init, WalkTrue, Answered
<1>2. WorldOK /\ WalkTrue /\ [Next]_vars => (WorldOK /\ WalkTrue)'
  BY WorldStays, WalkStep
<1>3. QED
  BY <1>1, <1>2, PTL DEF Spec
--------------------------------------------------------------------------------
(* Comparisons                                                                 *)

\* What one relation is reported as.
Entry(from, to, x) ==
  [call |-> x, from |-> evidenceOf(from.edges, x), to |-> evidenceOf(to.edges, x)]

\* The key of a call, and those of a set of edges.
Key(x)  == <<x.caller, x.callee, x.path>>
Keys(E) == {<<e.caller, e.callee, e.site.path>> : e \in E}

\* The evidence of a relation is that of edges that are that relation.
LEMMA EvidenceIs ==
  ASSUME NEW E, NEW x
  PROVE  /\ \A at \in evidenceOf(E, x) : \E e \in E : at = e.site /\ relation(e) = x
         /\ evidenceOf(E, x) # {} <=> x \in group(E)
BY DEF evidenceOf, group

\* The key of a relation is that of the edge, and tells it from any other.
LEMMA KeyIs ==
  ASSUME NEW e, NEW d
  PROVE  /\ Key(relation(e)) = <<e.caller, e.callee, e.site.path>>
         /\ Key(relation(e)) = Key(relation(d)) => relation(e) = relation(d)
BY DEF Key, relation

\* One of the two versions: the graph of a side and the walk of it.
SideOK(g, symbol, direction, depth, walk) ==
  /\ walk.verdict = "ok" <=> candidates(g, symbol) # {}
  /\ walk.verdict = "ok" => \E root \in g.has : candidates(g, symbol) = {root}
  /\ walk.verdict # "ok" => walk.edges = {}
  /\ \A e \in walk.edges : EdgeOK(g, depth, e)
  /\ \A n \in candidates(g, symbol) : EdgesOK(g, n, direction, depth, walk.edges)

\* What ComparisonTrue says of the parts of an answer.
Calls(g, symbol, direction, depth) ==
  UNION {Walk(g, n, direction, depth) : n \in candidates(g, symbol)}

AllPlain(g, symbol, direction, depth) ==
  \A n \in candidates(g, symbol) : Plain(g, n, direction, depth)

Told(X) == {Key(c.call) : c \in X}

Sited(g, depth, x, cites) ==
  /\ cites # {} => Claims(g, x, depth)
  /\ \A at \in cites : at.path = x.path /\ at \in DeclaredAt(g, x.caller)

\* A walk that nothing was cut off is the one the graph has.
LEMMA CallsWalked ==
  ASSUME NEW g, NEW symbol, NEW direction, NEW depth, NEW walk,
         SideOK(g, symbol, direction, depth, walk), AllPlain(g, symbol, direction, depth)
  PROVE  walk.edges = Calls(g, symbol, direction, depth)
<1>1. CASE candidates(g, symbol) = {}
  BY <1>1 DEF SideOK, Calls
<1>2. CASE candidates(g, symbol) # {}
  <2>1. PICK root : candidates(g, symbol) = {root}
    BY <1>2 DEF SideOK
  <2>2. walk.edges = Walk(g, root, direction, depth)
    BY <2>1 DEF SideOK, AllPlain, EdgesOK
  <2>3. QED
    BY <2>1, <2>2 DEF Calls
<1>3. QED
  BY <1>1, <1>2

\* The keys of the relations of edges are those of the edges, and tell relations
\* apart.
LEMMA KeysOfGroup ==
  ASSUME NEW E, NEW D
  PROVE  /\ Keys(E) = {Key(x) : x \in group(E)}
         /\ \A x \in group(E), y \in group(D) : Key(x) = Key(y) => x = y
<1>1. ASSUME NEW k \in Keys(E) PROVE k \in {Key(x) : x \in group(E)}
  <2>1. PICK e \in E : k = <<e.caller, e.callee, e.site.path>>
    BY DEF Keys
  <2>2. relation(e) \in group(E) /\ Key(relation(e)) = k
    BY <2>1, KeyIs DEF group
  <2>3. QED
    BY <2>2
<1>2. ASSUME NEW x \in group(E) PROVE Key(x) \in Keys(E)
  <2>1. PICK e \in E : x = relation(e)
    BY DEF group
  <2>2. QED
    BY <2>1, KeyIs DEF Keys
<1>3. ASSUME NEW x \in group(E), NEW y \in group(D), Key(x) = Key(y) PROVE x = y
  <2>1. PICK e \in E, d \in D : x = relation(e) /\ y = relation(d)
    BY DEF group
  <2>2. QED
    BY <2>1, <1>3, KeyIs
<1>4. QED
  BY <1>1, <1>2, <1>3

\* Every relation of the two walks is reported once, in the part it belongs to.
LEMMA EntriesAre ==
  ASSUME NEW from, NEW to
  PROVE  LET a == compared(from, to)
             F == group(from.edges)
             T == group(to.edges)
         IN  /\ a.unchanged = {Entry(from, to, x) : x \in F \cap T}
             /\ a.removed = {Entry(from, to, x) : x \in F \ T}
             /\ a.added = {Entry(from, to, x) : x \in T \ F}
BY DEF compared, Entry

\* Each part of the report has the keys that are in it.
LEMMA KeysTold ==
  ASSUME NEW from, NEW to
  PROVE  LET a == compared(from, to)
             F == Keys(from.edges)
             T == Keys(to.edges)
         IN  /\ Told(a.unchanged) = F \cap T
             /\ Told(a.removed) = F \ T
             /\ Told(a.added) = T \ F
<1> DEFINE F == group(from.edges)
           T == group(to.edges)
           K(X) == {Key(x) : x \in X}
<1>1. Keys(from.edges) = K(F) /\ Keys(to.edges) = K(T)
  BY KeysOfGroup
<1>2. \A x \in F, y \in T : Key(x) = Key(y) => x = y
  BY KeysOfGroup
<1>3. ASSUME NEW X PROVE Told({Entry(from, to, x) : x \in X}) = K(X)
  <2>1. \A x : Entry(from, to, x).call = x
    BY DEF Entry
  <2>2. QED
    BY <2>1 DEF Told
<1> HIDE DEF F, T
<1>4. K(F \cap T) = K(F) \cap K(T) /\ K(F \ T) = K(F) \ K(T) /\ K(T \ F) = K(T) \ K(F)
  BY <1>2
<1> HIDE DEF K
<1>5. /\ compared(from, to).unchanged = {Entry(from, to, x) : x \in F \cap T}
      /\ compared(from, to).removed = {Entry(from, to, x) : x \in F \ T}
      /\ compared(from, to).added = {Entry(from, to, x) : x \in T \ F}
  BY EntriesAre DEF F, T
<1>6. QED
  BY <1>1, <1>3, <1>4, <1>5

\* What ComparisonTrue says of one part of the report: which sides have evidence.
Part(X, hasFrom, hasTo) ==
  \A c \in X : (c.from # {} <=> hasFrom) /\ (c.to # {} <=> hasTo)

LEMMA PartsAre ==
  ASSUME NEW from, NEW to
  PROVE  /\ Part(compared(from, to).unchanged, TRUE, TRUE)
         /\ Part(compared(from, to).removed, TRUE, FALSE)
         /\ Part(compared(from, to).added, FALSE, TRUE)
<1>1. \A x : /\ Entry(from, to, x).from # {} <=> x \in group(from.edges)
             /\ Entry(from, to, x).to # {} <=> x \in group(to.edges)
  BY EvidenceIs DEF Entry
<1>2. QED
  BY <1>1, EntriesAre DEF Part

\* A call is reported once, and each side cites its own version.
LEMMA OnceTold ==
  ASSUME NEW from, NEW to, NEW a, a = compared(from, to),
         NEW c \in a.unchanged \cup a.removed \cup a.added,
         NEW d \in a.unchanged \cup a.removed \cup a.added,
         Key(c.call) = Key(d.call)
  PROVE  c = d
<1> DEFINE R == group(from.edges) \cup group(to.edges)
<1>1. PICK x \in R, y \in R : c = Entry(from, to, x) /\ d = Entry(from, to, y)
  BY EntriesAre
<1>2. c.call = x /\ d.call = y
  BY <1>1 DEF Entry
<1>3. PICK e, f : x = relation(e) /\ y = relation(f)
  BY DEF group
<1>4. x = y
  BY <1>2, <1>3, KeyIs
<1>5. QED
  BY <1>1, <1>4

LEMMA SitedWell ==
  ASSUME NEW from, NEW to, NEW a, a = compared(from, to), NEW g, NEW h, NEW depth,
         \A e \in from.edges : EdgeOK(g, depth, e), \A e \in to.edges : EdgeOK(h, depth, e),
         NEW c \in a.unchanged \cup a.removed \cup a.added
  PROVE  Sited(g, depth, c.call, c.from) /\ Sited(h, depth, c.call, c.to)
<1>1. PICK x : c = Entry(from, to, x)
  BY EntriesAre
<1>2. c.call = x /\ c.from = evidenceOf(from.edges, x) /\ c.to = evidenceOf(to.edges, x)
  BY <1>1 DEF Entry
<1>3. ASSUME NEW k, NEW E, \A e \in E : EdgeOK(k, depth, e)
      PROVE  Sited(k, depth, x, evidenceOf(E, x))
  <2>1. ASSUME NEW at \in evidenceOf(E, x)
        PROVE  /\ at.path = x.path /\ at \in DeclaredAt(k, x.caller)
               /\ Claims(k, x, depth)
    <3>1. PICK e \in E : at = e.site /\ relation(e) = x
      BY EvidenceIs
    <3>2. x.path = at.path /\ x.caller = e.caller /\ x.callee = e.callee
      BY <3>1 DEF relation
    <3>3. EdgeOK(k, depth, e)
      BY <1>3
    <3>4. QED
      BY <3>1, <3>2, <3>3 DEF EdgeOK, Claims
  <2>2. QED
    BY <2>1 DEF Sited
<1>4. QED
  BY <1>2, <1>3

\* All that ComparisonTrue says of an answer a about the graphs g[1] and g[2].
ComparedTrue(g, symbol, direction, depth, a) ==
  LET walk(side) == Keys(Calls(g[side], symbol, direction, depth))
      all == a.unchanged \cup a.removed \cup a.added
  IN  /\ \A side \in 1 .. 2 : a.present[side] = (candidates(g[side], symbol) # {})
      /\ (\A side \in 1 .. 2 : AllPlain(g[side], symbol, direction, depth))
           => /\ Told(a.unchanged) = walk(1) \cap walk(2)
              /\ Told(a.removed) = walk(1) \ walk(2)
              /\ Told(a.added) = walk(2) \ walk(1)
      /\ \A c, d \in all : Key(c.call) = Key(d.call) => c = d
      /\ \A c \in all : Sited(g[1], depth, c.call, c.from) /\ Sited(g[2], depth, c.call, c.to)
      /\ Part(a.unchanged, TRUE, TRUE) /\ Part(a.removed, TRUE, FALSE)
      /\ Part(a.added, FALSE, TRUE)

LEMMA ComparedIs ==
  ASSUME NEW g, NEW symbol, NEW direction, NEW depth, NEW from, NEW to,
         SideOK(g[1], symbol, direction, depth, from), SideOK(g[2], symbol, direction, depth, to)
  PROVE  ComparedTrue(g, symbol, direction, depth, compared(from, to))
<1> DEFINE a == compared(from, to)
           all == a.unchanged \cup a.removed \cup a.added
           walk(side) == Keys(Calls(g[side], symbol, direction, depth))
<1>1. \A side \in 1 .. 2 : a.present[side] = (candidates(g[side], symbol) # {})
  <2>1. a.present = <<from.verdict = "ok", to.verdict = "ok">>
    BY DEF compared
  <2> HIDE DEF a
  <2>2. QED
    BY <2>1 DEF SideOK
<1>2. (\A e \in from.edges : EdgeOK(g[1], depth, e)) /\ (\A e \in to.edges : EdgeOK(g[2], depth, e))
  BY DEF SideOK
<1>3. ASSUME \A side \in 1 .. 2 : AllPlain(g[side], symbol, direction, depth)
      PROVE  /\ Told(a.unchanged) = walk(1) \cap walk(2)
             /\ Told(a.removed) = walk(1) \ walk(2)
             /\ Told(a.added) = walk(2) \ walk(1)
  <2>1. Keys(from.edges) = walk(1) /\ Keys(to.edges) = walk(2)
    BY <1>3, CallsWalked
  <2> HIDE DEF walk
  <2>2. QED
    BY <2>1, KeysTold
<1>4. \A c, d \in all : Key(c.call) = Key(d.call) => c = d
  BY OnceTold
<1>5. \A c \in all : Sited(g[1], depth, c.call, c.from) /\ Sited(g[2], depth, c.call, c.to)
  BY <1>2, SitedWell
<1>6. /\ Part(a.unchanged, TRUE, TRUE) /\ Part(a.removed, TRUE, FALSE)
      /\ Part(a.added, FALSE, TRUE)
  BY PartsAre
<1>7. QED
  BY <1>1, <1>3, <1>4, <1>5, <1>6 DEF ComparedTrue

\* An answered comparison is of two walks, of which one may find no symbol.
LEMMA CompareCallsIs ==
  ASSUME WorldOK, NEW r \in Requests[world.kind], r.tool = "compare_calls", CompareCalls(r),
         answer'.verdict = "ok",
         NEW g, g = [side \in 1 .. 2 |-> Graph(member(r, side))]
  PROVE  ComparedTrue(g, r.symbol, r.direction, r.depth, answer')
<1> DEFINE walk(side) == TraceCalls(Graph(member(r, side)), r.symbol, r.direction, r.depth)
<1>1. DepthInRange(r) /\ None \notin {member(r, 1), member(r, 2)}
  BY DEF CompareCalls, Refuse
<1>2. PICK from \in walk(1), to \in walk(2) :
        CASE "SYMBOL_AMBIGUOUS" \in {from.verdict, to.verdict} -> Refuse("SYMBOL_AMBIGUOUS")
          [] {from.verdict, to.verdict} = {"SYMBOL_NOT_FOUND"} -> Refuse("SYMBOL_NOT_FOUND")
          [] OTHER -> answer' = compared(from, to)
  <2>1. member(r, 1).repository = member(r, 2).repository
    BY <1>1 DEF CompareCalls, Refuse
  <2>2. QED
    BY <1>1, <2>1 DEF CompareCalls
<1>3. r.depth \in Nat \ {0} /\ Sides(r.tool) = 2
  BY <1>1, AnswersAssumption DEF DepthInRange, Sides
<1>4. \A side \in 1 .. 2 : g[side] = Graph(member(r, side)) /\ IsGraph(g[side])
  <2>1. \A side \in 1 .. 2 : member(r, side) # None
    BY <1>1
  <2>2. \A side \in 1 .. 2 : IsGraph(Graph(member(r, side)))
    BY <1>3, <2>1, MemberGraph
  <2>3. QED
    BY <2>2
<1>5. from \in TraceCalls(g[1], r.symbol, r.direction, r.depth)
      /\ to \in TraceCalls(g[2], r.symbol, r.direction, r.depth)
  BY <1>4
<1> HIDE DEF walk
<1>6. /\ WalkOK(g[1], r.symbol, r.direction, r.depth, from)
      /\ WalkOK(g[2], r.symbol, r.direction, r.depth, to)
  BY <1>3, <1>4, <1>5, WalkIs
<1>7. /\ from.verdict \in {"ok", "SYMBOL_NOT_FOUND"}
      /\ to.verdict \in {"ok", "SYMBOL_NOT_FOUND"}
      /\ answer' = compared(from, to)
  <2>1. "SYMBOL_AMBIGUOUS" \notin {from.verdict, to.verdict}
    <3> SUFFICES ASSUME "SYMBOL_AMBIGUOUS" \in {from.verdict, to.verdict} PROVE FALSE
      OBVIOUS
    <3>1. {from.verdict, to.verdict} # {"SYMBOL_NOT_FOUND"}
      OBVIOUS
    <3>2. QED
      BY <1>2, <3>1 DEF Refuse
  <2>2. {from.verdict, to.verdict} # {"SYMBOL_NOT_FOUND"}
    BY <1>2, <2>1 DEF Refuse
  <2>3. QED
    BY <1>2, <1>6, <2>1, <2>2 DEF WalkOK
<1>8. \A side \in 1 .. 2 : \A w : 
        (WalkOK(g[side], r.symbol, r.direction, r.depth, w) /\ w.verdict # "SYMBOL_AMBIGUOUS")
          => SideOK(g[side], r.symbol, r.direction, r.depth, w)
  BY DEF WalkOK, SideOK
<1>9. QED
  BY <1>6, <1>7, <1>8, ComparedIs

\* The graphs of the two members.
Graphs == [side \in 1 .. 2 |-> Graph(member(ask, side))]

\* What ComparisonTrue says, in parts.
LEMMA ComparisonIs ==
  ComparisonTrue <=>
    (Answered("compare_calls") =>
       ComparedTrue(Graphs, ask.symbol, ask.direction, ask.depth, answer))
<1> DEFINE g(side) == Graph(member(ask, side))
           found(side) == candidates(g(side), ask.symbol)
           walk(side) ==
             {<<e.caller, e.callee, e.site.path>> :
                e \in UNION {Walk(g(side), n, ask.direction, ask.depth) : n \in found(side)}}
           key(x)  == <<x.caller, x.callee, x.path>>
           told(X) == {key(c.call) : c \in X}
           sited(side, x, cites) ==
             /\ cites # {} => Claims(g(side), x, ask.depth)
             /\ \A at \in cites : at.path = x.path /\ at \in DeclaredAt(g(side), x.caller)
           all == answer.unchanged \cup answer.removed \cup answer.added
           plain(side) == \A n \in found(side) : Plain(g(side), n, ask.direction, ask.depth)
           P1 == \A side \in 1 .. 2 : answer.present[side] = (found(side) # {})
           P2 == (\A side \in 1 .. 2 : plain(side))
                   => /\ told(answer.unchanged) = walk(1) \cap walk(2)
                      /\ told(answer.removed) = walk(1) \ walk(2)
                      /\ told(answer.added) = walk(2) \ walk(1)
           P3 == \A c, d \in all : key(c.call) = key(d.call) => c = d
           P4 == \A c \in all : sited(1, c.call, c.from) /\ sited(2, c.call, c.to)
           P5 == /\ \A c \in answer.unchanged : c.from # {} /\ c.to # {}
                 /\ \A c \in answer.removed : c.from # {} /\ c.to = {}
                 /\ \A c \in answer.added : c.from = {} /\ c.to # {}
           H(side) == Graphs[side]
           W(side) == Keys(Calls(H(side), ask.symbol, ask.direction, ask.depth))
<1>1. ComparisonTrue <=> (Answered("compare_calls") => P1 /\ P2 /\ P3 /\ P4 /\ P5)
  BY DEF ComparisonTrue
<1>2. \A side \in 1 .. 2 : g(side) = H(side)
  BY DEF Graphs
<1>3. P1 <=> \A side \in 1 .. 2 : answer.present[side] = (candidates(H(side), ask.symbol) # {})
  <2> HIDE DEF g, H
  <2>1. QED
    BY <1>2
<1>4. \A side \in 1 .. 2 : /\ walk(side) = W(side)
                           /\ plain(side) <=> AllPlain(H(side), ask.symbol, ask.direction, ask.depth)
  <2> HIDE DEF g, H
  <2>1. QED
    BY <1>2 DEF Calls, AllPlain, Keys
<1>5. (\A X : told(X) = Told(X)) /\ \A x : key(x) = Key(x)
  BY DEF Told, Key
<1>6. \A x, X : (sited(1, x, X) <=> Sited(H(1), ask.depth, x, X))
               /\ (sited(2, x, X) <=> Sited(H(2), ask.depth, x, X))
  <2> HIDE DEF g, H
  <2>1. g(1) = H(1) /\ g(2) = H(2)
    BY <1>2
  <2>2. QED
    BY <2>1 DEF Sited
<1>7. P5 <=> /\ Part(answer.unchanged, TRUE, TRUE) /\ Part(answer.removed, TRUE, FALSE)
             /\ Part(answer.added, FALSE, TRUE)
  BY DEF Part
<1>8. P2 <=> ((\A side \in 1 .. 2 : AllPlain(H(side), ask.symbol, ask.direction, ask.depth))
                => /\ Told(answer.unchanged) = W(1) \cap W(2)
                   /\ Told(answer.removed) = W(1) \ W(2)
                   /\ Told(answer.added) = W(2) \ W(1))
  <2>1. walk(1) = W(1) /\ walk(2) = W(2)
    BY <1>4
  <2> HIDE DEF plain, told, walk, W, H
  <2>2. QED
    BY <1>4, <1>5, <2>1
<1>9. (P3 <=> \A c, d \in all : Key(c.call) = Key(d.call) => c = d)
      /\ (P4 <=> \A c \in all : Sited(H(1), ask.depth, c.call, c.from)
                              /\ Sited(H(2), ask.depth, c.call, c.to))
  <2>1. P3 <=> \A c, d \in all : Key(c.call) = Key(d.call) => c = d
    BY DEF Key
  <2> HIDE DEF sited, H, all
  <2>2. P4 <=> \A c \in all : Sited(H(1), ask.depth, c.call, c.from)
                             /\ Sited(H(2), ask.depth, c.call, c.to)
    BY <1>6
  <2>3. QED
    BY <2>1, <2>2
<1>10. ComparedTrue(Graphs, ask.symbol, ask.direction, ask.depth, answer)
         <=> P1 /\ P2 /\ P3 /\ P4 /\ P5
  <2> HIDE DEF P1, P2, P3, P4, P5
  <2>1. QED
    BY <1>3, <1>7, <1>8, <1>9 DEF ComparedTrue
<1>11. QED
  BY <1>1, <1>10

\* A comparison is that of the graphs of the members it is asked in.
LEMMA ComparisonStep ==
  ASSUME WorldOK, ComparisonTrue, [Next]_vars
  PROVE  ComparisonTrue'
<1>1. (ComparisonTrue <=>
         (Answered("compare_calls") =>
            ComparedTrue(Graphs, ask.symbol, ask.direction, ask.depth, answer)))'
  BY ComparisonIs, PTL
<1>2. \A r : ask' = r => Graphs' = [side \in 1 .. 2 |-> Graph(member(r, side))]
  <2>1. \A side : \A r : ask' = r => Graph(member(ask, side))' = Graph(member(r, side))
    BY WorldStays, SameMember
  <2>2. QED
    BY <2>1 DEF Graphs
<1>3. CASE UNCHANGED vars
  <2>1. ask' = ask /\ answer' = answer
    BY <1>3 DEF vars
  <2>2. Graphs' = Graphs
    BY <1>2, <2>1 DEF Graphs
  <2>3. QED
    BY <1>1, <2>1, <2>2, ComparisonIs DEF Answered
<1>4. CASE ask' = None
  BY <1>4 DEF ComparisonTrue, Answered
<1>5. ASSUME NEW r \in Requests[world.kind], ask' = r,
             r.tool = "compare_calls" => CompareCalls(r), Answered("compare_calls")'
      PROVE  ComparisonTrue'
  <2>1. PICK g : g = [side \in 1 .. 2 |-> Graph(member(r, side))]
    OBVIOUS
  <2>2. r.tool = "compare_calls" /\ answer'.verdict = "ok" /\ CompareCalls(r)
    BY <1>5 DEF Answered
  <2>3. ComparedTrue(g, r.symbol, r.direction, r.depth, answer')
    BY <2>1, <2>2, CompareCallsIs
  <2>4. Graphs' = g
    BY <1>2, <1>5, <2>1
  <2>5. QED
    BY <1>1, <1>5, <2>3, <2>4
<1>6. QED
  BY <1>3, <1>4, <1>5, Replies DEF ComparisonTrue

\* What a comparison calls unchanged, removed and added is what both walks and
\* one of them have where nothing was cut off; always a relation is reported
\* once, under the versions whose walk has it, and is one that version makes or,
\* beyond the first step, one it makes the other way round
\* (engine/compare_calls.go).
THEOREM ComparisonsTrue == Spec => []ComparisonTrue
<1>1. Init => WorldOK /\ ComparisonTrue
  BY DEF Init, ComparisonTrue, Answered
<1>2. WorldOK /\ ComparisonTrue /\ [Next]_vars => (WorldOK /\ ComparisonTrue)'
  BY WorldStays, ComparisonStep
<1>3. QED
  BY <1>1, <1>2, PTL DEF Spec

--------------------------------------------------------------------------------
(* Histories                                                                   *)

\* f has the commits that can be reached from each of the first n.
IsReach(f, log, n) ==
  f = [i \in 1 .. n |-> {i} \cup UNION {f[p] : p \in log[i].parents}]

\* A log in which each of the first n commits is after its parents.
LogOK(log, n) == \A c \in 1 .. n : log[c].parents \subseteq 1 .. c - 1

\* The function that Reachable chooses exists.
LEMMA ReachExists ==
  ASSUME NEW log, NEW revision \in Nat, LogOK(log, revision)
  PROVE  \E f : IsReach(f, log, revision)
<1> DEFINE E(h, i) == {i} \cup UNION {h[p] : p \in log[i].parents}
           Is(h, n) == h = [i \in 1 .. n |-> E(h, i)]
           N == {n \in Nat : n <= revision => \E h : Is(h, n)}
<1>1. 0 \in N
  <2>1. Is([i \in 1 .. 0 |-> i], 0)
    OBVIOUS
  <2>2. QED
    BY <2>1
<1>2. ASSUME NEW n \in Nat, n \in N
      PROVE  n + 1 \in N
  <2> SUFFICES ASSUME n + 1 <= revision PROVE \E h : Is(h, n + 1)
    OBVIOUS
  <2>1. PICK f : Is(f, n)
    BY <1>2
  <2>2. \A i \in 1 .. n : f[i] = E(f, i)
    <3> DEFINE h == [i \in 1 .. n |-> E(f, i)]
    <3>1. f = h
      BY <2>1
    <3>2. \A i \in 1 .. n : h[i] = E(f, i)
      OBVIOUS
    <3> HIDE DEF h
    <3>3. QED
      BY <3>1, <3>2
  <2> DEFINE h == [i \in 1 .. n + 1 |-> IF i = n + 1 THEN E(f, i) ELSE f[i]]
  <2>3. ASSUME NEW i \in 1 .. n + 1
        PROVE  h[i] = E(h, i)
    <3>1. log[i].parents \subseteq 1 .. i - 1
      BY DEF LogOK
    <3>2. \A p \in log[i].parents : h[p] = f[p]
      <4> TAKE p \in log[i].parents
      <4>1. p \in 1 .. n + 1 /\ p # n + 1
        BY <3>1
      <4>2. QED
        BY <4>1
    <3>3. {h[p] : p \in log[i].parents} = {f[p] : p \in log[i].parents}
      <4> HIDE DEF h
      <4>1. QED
        BY <3>2
    <3>4. E(h, i) = E(f, i)
      <4> HIDE DEF h
      <4>1. QED
        BY <3>3
    <3>5. h[i] = E(f, i)
      <4>1. CASE i = n + 1
        <5> HIDE DEF E
        <5>1. QED
          BY <4>1
      <4>2. CASE i \in 1 .. n
        <5>1. h[i] = f[i]
          BY <4>2
        <5>2. QED
          BY <5>1, <4>2, <2>2
      <4>3. QED
        BY <4>1, <4>2
    <3>6. QED
      BY <3>4, <3>5
  <2>4. h = [i \in 1 .. n + 1 |-> h[i]]
    OBVIOUS
  <2> HIDE DEF h
  <2>5. Is(h, n + 1)
    BY <2>3, <2>4
  <2> HIDE DEF Is
  <2>6. QED
    BY <2>5
<1> HIDE DEF N
<1>3. Nat \subseteq N
  BY <1>1, <1>2, Inductive
<1>4. \E f : Is(f, revision)
  <2>1. revision \in N /\ revision <= revision
    BY <1>3
  <2> HIDE DEF Is
  <2>2. QED
    BY <2>1 DEF N
<1>5. QED
  BY <1>4 DEF IsReach

\* A version has no commit after its own.
LEMMA ReachableIn ==
  ASSUME NEW log, NEW revision \in Nat \ {0}, LogOK(log, revision)
  PROVE  Reachable(log, revision) \subseteq 1 .. revision
<1> DEFINE f == CHOOSE h : IsReach(h, log, revision)
<1>1. Reachable(log, revision) = f[revision]
  BY DEF Reachable, IsReach
<1>2. IsReach(f, log, revision)
  BY ReachExists
<1> HIDE DEF f
<1>3. \A i \in 1 .. revision : f[i] = {i} \cup UNION {f[p] : p \in log[i].parents}
  <2> DEFINE h == [i \in 1 .. revision |-> {i} \cup UNION {f[p] : p \in log[i].parents}]
  <2>1. f = h
    BY <1>2 DEF IsReach
  <2>2. \A i \in 1 .. revision : h[i] = {i} \cup UNION {f[p] : p \in log[i].parents}
    OBVIOUS
  <2> HIDE DEF h
  <2>3. QED
    BY <2>1, <2>2
<1> DEFINE N == {n \in Nat : \A i \in 1 .. revision : i <= n => f[i] \subseteq 1 .. i}
<1>4. 0 \in N
  OBVIOUS
<1>5. ASSUME NEW n \in Nat, n \in N PROVE n + 1 \in N
  <2> SUFFICES ASSUME NEW i \in 1 .. revision, i = n + 1, NEW c \in f[i] PROVE c \in 1 .. i
    <3>1. \A i \in 1 .. revision : i <= n + 1 => i <= n \/ i = n + 1
      OBVIOUS
    <3>2. QED
      BY <1>5, <3>1
  <2>1. CASE c = i
    BY <2>1
  <2>2. CASE c # i
    <3>1. PICK p \in log[i].parents : c \in f[p]
      BY <1>3, <2>2
    <3>2. p \in 1 .. i - 1
      BY <3>1 DEF LogOK
    <3>3. p \in 1 .. revision /\ p <= n /\ p <= i
      BY <3>2
    <3>4. f[p] \subseteq 1 .. p
      BY <3>3, <1>5
    <3>5. QED
      BY <3>1, <3>3, <3>4
  <2>3. QED
    BY <2>1, <2>2
<1>6. Nat \subseteq N
  <2> HIDE DEF N
  <2>1. QED
    BY <1>4, <1>5, Inductive
<1>7. f[revision] \subseteq 1 .. revision
  BY <1>6
<1>8. QED
  BY <1>1, <1>7
-------------------------------------------------------------------------------
\* The commits of a set, newest first.
Descending(s, W) ==
  /\ IsList(s)
  /\ \A k \in DOMAIN s : s[k] \in W
  /\ \A k, l \in DOMAIN s : k < l => s[k] > s[l]
  /\ \A w \in W : \E k \in DOMAIN s : s[k] = w

LEMMA Newest ==
  ASSUME NEW n \in Nat, NEW W \in SUBSET (1 .. n), NEW latest,
         latest = [k \in 1 .. n |-> n - k + 1]
  PROVE  Descending(Keep(latest, {k \in DOMAIN latest : latest[k] \in W}), W)
<1> DEFINE I == {k \in DOMAIN latest : latest[k] \in W}
           K == Keep(latest, I)
<1>1. IsList(latest) /\ DOMAIN latest = 1 .. n /\ \A k \in 1 .. n : latest[k] = n - k + 1
  BY ListIs
<1>2. IsList(K) /\ \E pos : KeepOK(latest, I, K, pos)
  BY <1>1, KeepIs
<1>3. DOMAIN K = 1 .. Len(K) /\ Len(K) \in Nat
  BY <1>2, ListHas
<1> HIDE DEF K
<1>4. PICK pos : KeepOK(latest, I, K, pos)
  BY <1>2
<1>5. /\ \A k \in DOMAIN K : pos[k] \in 1 .. n /\ pos[k] \in I /\ K[k] = n - pos[k] + 1
      /\ \A k, l \in DOMAIN K : k < l => pos[k] < pos[l]
      /\ \A i \in I : \E k \in DOMAIN K : pos[k] = i
  BY <1>1, <1>3, <1>4 DEF KeepOK
<1>6. \A k \in DOMAIN K : K[k] \in W
  BY <1>1, <1>5
<1>7. ASSUME NEW k \in DOMAIN K, NEW l \in DOMAIN K, k < l
      PROVE  K[k] > K[l]
  <2>1. pos[k] < pos[l] /\ pos[k] \in 1 .. n /\ pos[l] \in 1 .. n
    BY <1>5, <1>7
  <2>2. K[k] = n - pos[k] + 1 /\ K[l] = n - pos[l] + 1
    BY <1>5
  <2>3. QED
    BY <2>1, <2>2
<1>8. ASSUME NEW w \in W PROVE \E k \in DOMAIN K : K[k] = w
  <2>1. n - w + 1 \in 1 .. n /\ n - (n - w + 1) + 1 = w
    OBVIOUS
  <2>2. n - w + 1 \in I
    BY <1>1, <2>1
  <2>3. PICK k \in DOMAIN K : pos[k] = n - w + 1
    BY <1>5, <2>2
  <2>4. QED
    BY <1>5, <2>1, <2>3
<1>9. QED
  BY <1>2, <1>6, <1>7, <1>8 DEF Descending, K

\* s has the elements of X, each once.
Lists(s, X) ==
  /\ IsList(s)
  /\ \A k \in DOMAIN s : s[k] \in X
  /\ \A k, l \in DOMAIN s : s[k] = s[l] => k = l
  /\ \A x \in X : \E k \in DOMAIN s : s[k] = x

\* What is kept of a list that has nothing twice.
LEMMA KeptOnce ==
  ASSUME NEW s, IsList(s), \A i, j \in DOMAIN s : s[i] = s[j] => i = j, NEW I
  PROVE  Lists(Keep(s, I), {s[i] : i \in I \cap DOMAIN s})
<1> DEFINE K == Keep(s, I)
<1>1. IsList(K) /\ \E pos : KeepOK(s, I, K, pos)
  BY KeepIs
<1>2. DOMAIN K = 1 .. Len(K) /\ Len(K) \in Nat
  BY <1>1, ListHas
<1> HIDE DEF K
<1>3. PICK pos : KeepOK(s, I, K, pos)
  BY <1>1
<1>4. /\ \A k \in DOMAIN K : pos[k] \in I \cap DOMAIN s /\ K[k] = s[pos[k]]
      /\ \A k, l \in DOMAIN K : k < l => pos[k] < pos[l]
      /\ \A i \in I \cap DOMAIN s : \E k \in DOMAIN K : pos[k] = i
  BY <1>2, <1>3 DEF KeepOK
<1>5. DOMAIN s \subseteq Int
  BY ListHas
<1>6. ASSUME NEW k \in DOMAIN K, NEW l \in DOMAIN K, K[k] = K[l] PROVE k = l
  <2>1. pos[k] = pos[l] /\ pos[k] \in Int
    BY <1>4, <1>5, <1>6
  <2>2. ~(k < l) /\ ~(l < k)
    BY <1>4, <2>1
  <2>3. QED
    BY <1>2, <2>2
<1>7. \A x \in {s[i] : i \in I \cap DOMAIN s} : \E k \in DOMAIN K : K[k] = x
  BY <1>4
<1>8. QED
  BY <1>1, <1>4, <1>6, <1>7 DEF Lists, K
-------------------------------------------------------------------------------
\* A file of a commit that a history is about.
Hit(log, i, r, f) ==
  /\ f \in ToSet(FileOrder)
  /\ Touches(log, i, f)
  /\ r.query # "" => log[i].message = r.query
  /\ r.path # "" => f = r.path
  /\ r.symbol # "" => Pickaxe(log, i, f, r.symbol)

\* An entry of a history.
Row(i, path) == [commit |-> i, path |-> path]

LEMMA RowIs ==
  /\ \A i, p : Row(i, p).commit = i /\ Row(i, p).path = p
  /\ \A i, j, p, q : Row(i, p) = Row(j, q) => i = j /\ p = q
<1>1. \A a, b : Row(a, b).commit = a /\ Row(a, b).path = b
  BY DEF Row
<1>2. QED
  BY <1>1

\* The entries of commit i: its hits, each once.
EntriesOK(E, log, i, r) ==
  /\ IsList(E)
  /\ \A j \in DOMAIN E : \E f : Hit(log, i, r, f) /\ E[j] = Row(i, Printed[f])
  /\ \A j, l \in DOMAIN E : E[j] = E[l] => j = l
  /\ (r.path \in DOMAIN Printed => Printed[r.path] = r.path) =>
       \A f : Hit(log, i, r, f) => \E j \in DOMAIN E : E[j] = Row(i, Printed[f])

\* The names that git lists for a commit.
Names(log, i, r, f) ==
  /\ Touches(log, i, f)
  /\ r.path # "" => f \in Under[r.path]
  /\ r.symbol # "" => Pickaxe(log, i, f, r.symbol)

Files(log, i, r) == Keep(FileOrder, {j \in DOMAIN FileOrder : Names(log, i, r, FileOrder[j])})

PrintedNames(log, i, r) ==
  LET files == Files(log, i, r) IN [j \in DOMAIN files |-> Printed[files[j]]]

Record(log, i, r) ==
  [commit |-> i, message |-> log[i].message, names |-> PrintedNames(log, i, r)]

LEMMA FilesAre ==
  ASSUME NEW log, NEW i, NEW r
  PROVE  Lists(Files(log, i, r), {f \in ToSet(FileOrder) : Names(log, i, r, f)})
<1> DEFINE I == {j \in DOMAIN FileOrder : Names(log, i, r, FileOrder[j])}
<1>1. IsList(FileOrder) /\ \A j, l \in DOMAIN FileOrder : FileOrder[j] = FileOrder[l] => j = l
  BY GitQueriesAssumption, SeqIsList DEF IsInjective
<1>2. Lists(Keep(FileOrder, I), {FileOrder[j] : j \in I \cap DOMAIN FileOrder})
  BY <1>1, KeptOnce
<1>3. {FileOrder[j] : j \in I \cap DOMAIN FileOrder} = {f \in ToSet(FileOrder) : Names(log, i, r, f)}
  BY DEF ToSet
<1>4. QED
  BY <1>2, <1>3 DEF Files

LEMMA NamesAre ==
  ASSUME NEW log, NEW i, NEW r
  PROVE  Lists(PrintedNames(log, i, r), {Printed[f] : f \in {h \in ToSet(FileOrder) : Names(log, i, r, h)}})
<1> DEFINE L == Files(log, i, r)
           X == {f \in ToSet(FileOrder) : Names(log, i, r, f)}
           P == [j \in DOMAIN L |-> Printed[L[j]]]
<1>1. Lists(L, X)
  BY FilesAre
<1>2. P = PrintedNames(log, i, r)
  BY DEF PrintedNames
<1>3. /\ IsList(L) /\ \A k \in DOMAIN L : L[k] \in X
      /\ \A k, l \in DOMAIN L : L[k] = L[l] => k = l
      /\ \A x \in X : \E k \in DOMAIN L : L[k] = x
  BY <1>1 DEF Lists
<1>4. X \subseteq ToSet(FileOrder)
  OBVIOUS
<1> HIDE DEF L, X
<1>5. Len(L) \in Nat /\ DOMAIN L = 1 .. Len(L)
  BY <1>3, ListHas
<1>6. DOMAIN P = 1 .. Len(L) /\ \A j \in DOMAIN P : P[j] = Printed[L[j]]
  BY <1>5
<1>7. P = [j \in 1 .. Len(L) |-> P[j]]
  BY <1>5
<1> HIDE DEF P
<1>8. IsList(P)
  BY <1>5, <1>7, ListIs
<1>9. \A k, l \in DOMAIN P : P[k] = P[l] => k = l
  <2> TAKE k, l \in DOMAIN P
  <2>1. L[k] \in ToSet(FileOrder) /\ L[l] \in ToSet(FileOrder)
    BY <1>3, <1>4, <1>5, <1>6
  <2>2. QED
    BY <1>3, <1>5, <1>6, <2>1, GitQueriesAssumption
<1>10. Lists(P, {Printed[f] : f \in X})
  BY <1>3, <1>5, <1>6, <1>8, <1>9 DEF Lists
<1>11. QED
  BY <1>2, <1>10 DEF X

LEMMA EntriesOfCommit ==
  ASSUME NEW log, NEW i, NEW r, IsPath(r.path)
  PROVE  EntriesOK(entriesOf(Record(log, i, r), r.query, r.path), log, i, r)
<1> DEFINE ns == PrintedNames(log, i, r)
           rec == Record(log, i, r)
           E == entriesOf(rec, r.query, r.path)
           X == {h \in ToSet(FileOrder) : Names(log, i, r, h)}
<1>1. Lists(ns, {Printed[f] : f \in X})
  BY NamesAre
<1>a. rec.commit = i /\ rec.message = log[i].message /\ rec.names = ns
  BY DEF Record
<1> HIDE DEF ns, rec
<1>2. /\ IsList(ns)
      /\ \A k \in DOMAIN ns : \E f \in X : ns[k] = Printed[f]
      /\ \A k, l \in DOMAIN ns : ns[k] = ns[l] => k = l
      /\ \A f \in X : \E k \in DOMAIN ns : ns[k] = Printed[f]
  BY <1>1 DEF Lists
<1>3. ASSUME r.query # "" /\ r.query # log[i].message
      PROVE  EntriesOK(E, log, i, r)
  <2>1. E = <<>>
    BY <1>3, <1>a DEF entriesOf
  <2>2. IsList(E) /\ DOMAIN E = {}
    BY <2>1, NoList
  <2>3. \A f : ~Hit(log, i, r, f)
    BY <1>3 DEF Hit
  <2> HIDE DEF E
  <2>4. QED
    BY <2>2, <2>3 DEF EntriesOK
<1>4. ASSUME ~(r.query # "" /\ r.query # log[i].message)
      PROVE  EntriesOK(E, log, i, r)
  <2> DEFINE W == wanted(ns, r.path)
             paths == Keep(ns, W)
  <2>1. Lists(paths, {ns[k] : k \in W \cap DOMAIN ns})
    BY <1>2, KeptOnce
  <2>2. E = [j \in DOMAIN paths |-> Row(i, paths[j])]
    BY <1>4, <1>a DEF entriesOf, Row
  <2>3. W \subseteq DOMAIN ns /\ \A k \in DOMAIN ns : k \in W <=> (r.path = "" \/ r.path = ns[k])
    BY DEF wanted
  <2> HIDE DEF paths, W, E
  <2>4. /\ IsList(paths)
        /\ \A j \in DOMAIN paths : \E k \in W : paths[j] = ns[k]
        /\ \A j, l \in DOMAIN paths : paths[j] = paths[l] => j = l
        /\ \A k \in W : \E j \in DOMAIN paths : paths[j] = ns[k]
    <3>1. W \cap DOMAIN ns = W
      BY <2>3
    <3>2. Lists(paths, {ns[k] : k \in W})
      BY <2>1, <3>1
    <3>3. QED
      BY <3>2 DEF Lists
  <2>5. Len(paths) \in Nat /\ DOMAIN paths = 1 .. Len(paths)
    BY <2>4, ListHas
  <2>6. DOMAIN E = DOMAIN paths /\ \A j \in DOMAIN paths : E[j] = Row(i, paths[j])
    BY <2>2
  <2>7. IsList(E)
    <3>1. E = [j \in 1 .. Len(paths) |-> E[j]]
      BY <2>2, <2>5
    <3>2. QED
      BY <2>5, <3>1, ListIs
  <2>8. \A f \in X : (r.path = "" \/ Printed[f] = r.path) => Hit(log, i, r, f)
    <3> SUFFICES ASSUME NEW f \in X, r.path = "" \/ Printed[f] = r.path
                 PROVE  Hit(log, i, r, f)
      OBVIOUS
    <3>1. r.path # "" => f = r.path
      <4> SUFFICES ASSUME r.path # "" PROVE f = r.path
        OBVIOUS
      <4>1. r.path \in DOMAIN Under /\ f \in Under[r.path] /\ Printed[f] = r.path
        BY DEF Names, IsPath
      <4>2. QED
        BY <4>1, GitQueriesAssumption
    <3>2. QED
      BY <1>4, <3>1 DEF Hit, Names
  <2>9. ASSUME NEW j \in DOMAIN E
        PROVE  \E f : Hit(log, i, r, f) /\ E[j] = Row(i, Printed[f])
    <3>1. PICK k \in W : paths[j] = ns[k]
      BY <2>4, <2>6
    <3>2. PICK f \in X : ns[k] = Printed[f]
      BY <1>2, <2>3
    <3>3. r.path = "" \/ Printed[f] = r.path
      BY <2>3, <3>2
    <3> HIDE DEF X
    <3>4. QED
      BY <2>6, <2>8, <3>1, <3>2, <3>3
  <2>10. \A j, l \in DOMAIN E : E[j] = E[l] => j = l
    <3> TAKE j, l \in DOMAIN E
    <3>1. E[j] = E[l] => paths[j] = paths[l]
      <4>1. j \in DOMAIN paths /\ l \in DOMAIN paths
        BY <2>6
      <4>2. E[j] = Row(i, paths[j])
        BY <2>6, <4>1
      <4>3. E[l] = Row(i, paths[l])
        BY <2>6, <4>1
      <4>4. \A a, b : Row(i, a) = Row(i, b) => a = b
        BY RowIs
      <4>5. E[j] = E[l] => Row(i, paths[j]) = Row(i, paths[l])
        BY <4>2, <4>3
      <4>6. QED
        BY <4>4, <4>5
    <3>2. QED
      BY <2>4, <2>6, <3>1
  <2>11. ASSUME r.path \in DOMAIN Printed => Printed[r.path] = r.path,
                NEW f, Hit(log, i, r, f)
         PROVE  \E j \in DOMAIN E : E[j] = Row(i, Printed[f])
    <3>1. f \in ToSet(FileOrder) /\ Under[f] = {f} /\ f \in DOMAIN Printed
      BY <2>11, GitQueriesAssumption DEF Hit
    <3>2. f \in X /\ (r.path = "" \/ Printed[f] = r.path)
      BY <2>11, <3>1 DEF Hit, Names
    <3>3. PICK k \in DOMAIN ns : ns[k] = Printed[f]
      BY <1>2, <3>2
    <3>4. k \in W
      BY <2>3, <3>2, <3>3
    <3>5. PICK j \in DOMAIN paths : paths[j] = ns[k]
      BY <2>4, <3>4
    <3>6. j \in DOMAIN E /\ E[j] = Row(i, paths[j])
      BY <2>6
    <3>7. paths[j] = Printed[f]
      BY <3>3, <3>5
    <3>8. QED
      BY <3>6, <3>7
  <2>12. QED
    <3> HIDE DEF E
    <3>1. QED
      BY <2>7, <2>9, <2>10, <2>11 DEF EntriesOK
<1>5. EntriesOK(E, log, i, r)
  <2> HIDE DEF E
  <2>1. QED
    BY <1>3, <1>4
<1>6. QED
  BY <1>5 DEF rec

\* The commits that git log walks.
Walked(log, revision) == {i \in Reachable(log, revision) : Cardinality(log[i].parents) <= 1}

\* A has the hits of the commits in W, newest first.
HistoryOf(A, log, W, r) ==
  /\ IsList(A)
  /\ \A p \in DOMAIN A : \E i \in W : \E f : Hit(log, i, r, f) /\ A[p] = Row(i, Printed[f])
  /\ \A p, q \in DOMAIN A : p < q => A[p] # A[q] /\ A[p].commit >= A[q].commit
  /\ (r.path \in DOMAIN Printed => Printed[r.path] = r.path) =>
       \A i \in W : \A f : Hit(log, i, r, f) => \E p \in DOMAIN A : A[p] = Row(i, Printed[f])

\* The entries of all commits, one commit after the other.
LEMMA AllEntries ==
  ASSUME NEW log, NEW r, NEW W \in SUBSET Nat, NEW cs, Descending(cs, W),
         NEW B, IsList(B), DOMAIN B = DOMAIN cs,
         \A k \in DOMAIN cs : EntriesOK(B[k], log, cs[k], r)
  PROVE  HistoryOf(FlattenSeq(B), log, W, r)
<1> DEFINE A == FlattenSeq(B)
           n == Len(B)
<1>1. n \in Nat /\ DOMAIN B = 1 .. n
  BY ListHas
<1>2. \A k \in 1 .. n : IsList(B[k]) /\ DOMAIN B[k] = 1 .. Len(B[k]) /\ Len(B[k]) \in Nat
  BY <1>1, ListHas DEF EntriesOK
<1>3. IsList(A) /\ \E off : FlatAll(B, A, off)
  BY <1>1, <1>2, FlatHas
<1>4. DOMAIN A = 1 .. Len(A) /\ Len(A) \in Nat
  BY <1>3, ListHas
<1>5. PICK off : FlatAll(B, A, off)
  BY <1>3
<1> HIDE DEF A, n
<1>6. /\ \A i, j \in 0 .. n : off[i] \in Nat /\ (i <= j => off[i] <= off[j])
      /\ \A i \in 1 .. n : off[i] = off[i - 1] + Len(B[i])
      /\ \A i \in 1 .. n : \A k \in 1 .. Len(B[i]) :
           off[i - 1] + k \in 1 .. Len(A) /\ A[off[i - 1] + k] = B[i][k]
      /\ \A p \in 1 .. Len(A) : \E i \in 1 .. n : \E k \in 1 .. Len(B[i]) : p = off[i - 1] + k
  BY <1>5 DEF FlatAll, n
<1>7. /\ \A k \in 1 .. n : cs[k] \in W /\ cs[k] \in Nat
      /\ \A k, l \in 1 .. n : k < l => cs[k] > cs[l]
      /\ \A w \in W : \E k \in 1 .. n : cs[k] = w
  BY <1>1 DEF Descending
<1>8. ASSUME NEW k \in 1 .. n, NEW j \in 1 .. Len(B[k])
      PROVE  \E f : Hit(log, cs[k], r, f) /\ B[k][j] = Row(cs[k], Printed[f])
  BY <1>1, <1>2 DEF EntriesOK
<1>9. ASSUME NEW p \in DOMAIN A
      PROVE  \E i \in W : \E f : Hit(log, i, r, f) /\ A[p] = Row(i, Printed[f])
  <2>a. PICK k \in 1 .. n : \E j \in 1 .. Len(B[k]) : p = off[k - 1] + j
    BY <1>4, <1>6
  <2>1. PICK j \in 1 .. Len(B[k]) : p = off[k - 1] + j
    BY <2>a
  <2>2. A[p] = B[k][j]
    BY <2>1, <1>6
  <2>3. PICK f : Hit(log, cs[k], r, f) /\ B[k][j] = Row(cs[k], Printed[f])
    BY <1>8
  <2>4. QED
    BY <2>2, <2>3, <1>7
<1>10. ASSUME NEW p \in DOMAIN A, NEW q \in DOMAIN A, p < q
       PROVE  A[p] # A[q] /\ A[p].commit >= A[q].commit
  <2>a. PICK k \in 1 .. n : \E j \in 1 .. Len(B[k]) : p = off[k - 1] + j
    BY <1>4, <1>6
  <2>1. PICK j \in 1 .. Len(B[k]) : p = off[k - 1] + j
    BY <2>a
  <2>b. PICK l \in 1 .. n : \E h \in 1 .. Len(B[l]) : q = off[l - 1] + h
    BY <1>4, <1>6
  <2>2. PICK h \in 1 .. Len(B[l]) : q = off[l - 1] + h
    BY <2>b
  <2>3. A[p] = B[k][j] /\ A[q] = B[l][h]
    BY <2>1, <2>2, <1>6
  <2>4. PICK f : Hit(log, cs[k], r, f) /\ B[k][j] = Row(cs[k], Printed[f])
    BY <1>8
  <2>5. PICK g : Hit(log, cs[l], r, g) /\ B[l][h] = Row(cs[l], Printed[g])
    BY <1>8
  <2>6. A[p].commit = cs[k] /\ A[q].commit = cs[l] /\ cs[k] \in Nat /\ cs[l] \in Nat
    BY <2>3, <2>4, <2>5, <1>7, RowIs
  <2>7. k <= l
    <3>1. p \in Nat /\ q \in Nat
      BY <1>4
    <3>2. p <= q
      BY <1>10, <3>1
    <3>3. off[k - 1] + j <= off[l - 1] + h
      BY <2>1, <2>2, <3>2, Zenon
    <3>4. QED
      BY <1>1, <1>2, <1>5, <3>3, FlatOrder DEF n
  <2>8. CASE k = l
    <3>1. off[k - 1] \in Nat
      BY <1>6, <1>1
    <3>2. j # h
      BY <2>1, <2>2, <2>8, <3>1, <1>10, <1>2
    <3>a. /\ EntriesOK(B[k], log, cs[k], r)
          /\ j \in DOMAIN B[k] /\ h \in DOMAIN B[k]
      BY <2>8, <1>1, <1>2
    <3>3. B[k][j] # B[k][h]
      BY <3>2, <3>a DEF EntriesOK
    <3>4. QED
      BY <2>3, <2>6, <2>8, <3>3
  <2>9. CASE k < l
    <3>1. cs[k] > cs[l]
      BY <1>7, <2>9
    <3>2. QED
      BY <2>6, <3>1
  <2>10. QED
    BY <2>7, <2>8, <2>9, <1>1
<1>11. ASSUME r.path \in DOMAIN Printed => Printed[r.path] = r.path,
              NEW i \in W, NEW f, Hit(log, i, r, f)
       PROVE  \E p \in DOMAIN A : A[p] = Row(i, Printed[f])
  <2>1. PICK k \in 1 .. n : cs[k] = i
    BY <1>7
  <2>2. EntriesOK(B[k], log, i, r)
    BY <2>1, <1>1
  <2>3. PICK j \in DOMAIN B[k] : B[k][j] = Row(i, Printed[f])
    BY <2>2, <1>11 DEF EntriesOK
  <2>4. off[k - 1] + j \in DOMAIN A /\ A[off[k - 1] + j] = B[k][j]
    BY <1>2, <1>4, <1>6
  <2>5. QED
    BY <2>3, <2>4
<1>12. QED
  BY <1>3, <1>9, <1>10, <1>11 DEF HistoryOf, A

\* What is left of a history after a limit.
CutOK(E, log, W, r, limit) ==
  /\ IsList(E)
  /\ \A p \in DOMAIN E : \E i \in W : \E f : Hit(log, i, r, f) /\ E[p] = Row(i, Printed[f])
  /\ \A p, q \in DOMAIN E : p < q => E[p] # E[q] /\ E[p].commit >= E[q].commit
  /\ Len(E) <= limit
  /\ (r.path \in DOMAIN Printed => Printed[r.path] = r.path) =>
       \A i \in W : \A f : Hit(log, i, r, f) =>
         \/ \E p \in DOMAIN E : E[p] = Row(i, Printed[f])
         \/ Len(E) = limit /\ \A p \in DOMAIN E : E[p].commit >= i

LEMMA CutIs ==
  ASSUME NEW log, NEW r, NEW W, NEW A, HistoryOf(A, log, W, r), NEW limit \in Nat
  PROVE  CutOK(SubSeq(A, 1, IF limit < Len(A) THEN limit ELSE Len(A)), log, W, r, limit)
<1> DEFINE n == IF limit < Len(A) THEN limit ELSE Len(A)
           E == SubSeq(A, 1, n)
<1>1. IsList(A) /\ DOMAIN A = 1 .. Len(A) /\ Len(A) \in Nat
  BY ListHas DEF HistoryOf
<1>2. n \in Nat /\ n <= Len(A) /\ n <= limit /\ (n = limit \/ n = Len(A))
  BY <1>1
<1> HIDE DEF n
<1>3. IsList(E) /\ Len(E) = n /\ \A k \in 1 .. n : E[k] = A[k]
  BY <1>1, <1>2, FirstOf
<1> HIDE DEF E
<1>4. DOMAIN E = 1 .. n
  BY <1>3, ListHas
<1>5. /\ \A p \in DOMAIN A : \E i \in W : \E f : Hit(log, i, r, f) /\ A[p] = Row(i, Printed[f])
      /\ \A p, q \in DOMAIN A : p < q => A[p] # A[q] /\ A[p].commit >= A[q].commit
  BY DEF HistoryOf
<1>a. PICK m \in Nat : m = Len(A)
  BY <1>1
<1>b. DOMAIN A = 1 .. m /\ n <= m /\ (n = limit \/ n = m)
  BY <1>1, <1>2, <1>a
<1>6. \A p \in 1 .. n : p \in DOMAIN A
  BY <1>2, <1>b
<1>7. \A p \in DOMAIN E : \E i \in W : \E f : Hit(log, i, r, f) /\ E[p] = Row(i, Printed[f])
  BY <1>3, <1>4, <1>5, <1>6
<1>8. \A p, q \in DOMAIN E : p < q => E[p] # E[q] /\ E[p].commit >= E[q].commit
  BY <1>3, <1>4, <1>5, <1>6
<1>9. ASSUME r.path \in DOMAIN Printed => Printed[r.path] = r.path,
             NEW i \in W, NEW f, Hit(log, i, r, f),
             \A p \in DOMAIN E : E[p] # Row(i, Printed[f])
      PROVE  n = limit /\ \A p \in DOMAIN E : E[p].commit >= i
  <2>1. PICK q \in DOMAIN A : A[q] = Row(i, Printed[f])
    BY <1>9 DEF HistoryOf
  <2>2. q \notin 1 .. n
    BY <1>3, <1>4, <1>9, <2>1
  <2>3. q > n /\ q <= m /\ q \in Nat
    BY <1>b, <1>2, <2>2
  <2>4. n = limit
    BY <1>b, <1>2, <2>3
  <2>5. A[q].commit = i
    BY <2>1, RowIs
  <2>6. \A p \in DOMAIN E : E[p].commit >= i
    <3> TAKE p \in DOMAIN E
    <3>1. p \in DOMAIN A /\ p < q /\ E[p] = A[p]
      BY <1>2, <1>3, <1>4, <1>6, <2>3
    <3>2. QED
      BY <1>5, <2>5, <3>1
  <2>7. QED
    BY <2>4, <2>6
<1>10. CutOK(E, log, W, r, limit)
  BY <1>2, <1>3, <1>7, <1>8, <1>9 DEF CutOK
<1>11. QED
  BY <1>10 DEF E, n

\* The commits of a walk, newest first.
Latest(revision) == [k \in 1 .. revision |-> revision - k + 1]

CommitsOf(log, revision) ==
  Keep(Latest(revision), {k \in DOMAIN Latest(revision) : Latest(revision)[k] \in Walked(log, revision)})

LEMMA LogIs ==
  ASSUME NEW log, NEW revision, NEW r
  PROVE  gitLog(log, revision, r.symbol, r.path) =
           [k \in DOMAIN CommitsOf(log, revision) |-> Record(log, CommitsOf(log, revision)[k], r)]
BY DEF gitLog, CommitsOf, Latest, Walked, Record, PrintedNames, Files, Names

\* What is read out of each record.
Entries(out, r) ==
  [k \in DOMAIN out |-> entriesOf(out[k], r.query, r.path)]

Cut(s, limit) == SubSeq(s, 1, IF limit < Len(s) THEN limit ELSE Len(s))

LEMMA ParseIs ==
  ASSUME NEW out, NEW r, NEW limit
  PROVE  parseHistory(out, r.query, r.path, limit) = Cut(FlattenSeq(Entries(out, r)), limit)
BY DEF parseHistory, Entries, Cut

LEMMA SearchHistoryIs ==
  ASSUME NEW log, NEW revision \in Nat \ {0}, LogOK(log, revision),
         NEW r, IsPath(r.path), r.limit \in Nat
  PROVE  CutOK(SearchHistory(log, revision, r).entries, log, Walked(log, revision), r,
               historyLimit(r.limit))
<1>0. /\ ~(r.limit < 0)
      /\ Reachable(log, revision) \subseteq 1 .. revision /\ 1 .. revision \subseteq Nat
      /\ gitLog(log, revision, r.symbol, r.path) =
           [k \in DOMAIN CommitsOf(log, revision) |-> Record(log, CommitsOf(log, revision)[k], r)]
  <2>1. ~(r.limit < 0)
    OBVIOUS
  <2>2. Reachable(log, revision) \subseteq 1 .. revision
    BY ReachableIn
  <2>3. 1 .. revision \subseteq Nat
    OBVIOUS
  <2>4. QED
    BY <2>1, <2>2, <2>3, LogIs
<1> DEFINE W == Walked(log, revision)
           cs == CommitsOf(log, revision)
           out == gitLog(log, revision, r.symbol, r.path)
           limit == historyLimit(r.limit)
           B == Entries(out, r)
<1>1. SearchHistory(log, revision, r).entries = parseHistory(out, r.query, r.path, limit)
  BY <1>0 DEF SearchHistory
<1>2. limit \in Nat
  BY GitQueriesAssumption DEF historyLimit
<1>3. W \in SUBSET (1 .. revision) /\ W \in SUBSET Nat
  <2>1. W \subseteq Reachable(log, revision)
    BY DEF Walked
  <2> HIDE DEF W
  <2>3. QED
    BY <1>0, <2>1
<1>4. Descending(cs, W)
  <2>1. Latest(revision) = [k \in 1 .. revision |-> revision - k + 1]
    BY DEF Latest
  <2> HIDE DEF W
  <2>2. Descending(Keep(Latest(revision), {k \in DOMAIN Latest(revision) : Latest(revision)[k] \in W}), W)
    BY <1>3, <2>1, Newest
  <2>3. QED
    BY <2>2 DEF CommitsOf, W
<1>5. IsList(cs) /\ DOMAIN cs = 1 .. Len(cs) /\ Len(cs) \in Nat
  BY <1>4, ListHas DEF Descending
<1>6. out = [k \in DOMAIN cs |-> Record(log, cs[k], r)]
  BY <1>0
<1> HIDE DEF W, limit, out, cs
<1>7. DOMAIN out = DOMAIN cs /\ \A k \in DOMAIN cs : out[k] = Record(log, cs[k], r)
  BY <1>6
<1>9. DOMAIN B = DOMAIN cs /\ \A k \in DOMAIN cs : B[k] = entriesOf(Record(log, cs[k], r), r.query, r.path)
  BY <1>7 DEF Entries
<1>10. B = [k \in 1 .. Len(cs) |-> B[k]]
  BY <1>5, <1>7 DEF Entries
<1>11. parseHistory(out, r.query, r.path, limit) = Cut(FlattenSeq(B), limit)
  BY ParseIs
<1> HIDE DEF B
<1>12. IsList(B)
  BY <1>5, <1>10, ListIs
<1>13. \A k \in DOMAIN cs : EntriesOK(B[k], log, cs[k], r)
  BY <1>9, EntriesOfCommit
<1>14. HistoryOf(FlattenSeq(B), log, W, r)
  BY <1>3, <1>4, <1>9, <1>12, <1>13, AllEntries
<1>15. CutOK(parseHistory(out, r.query, r.path, limit), log, W, r, limit)
  BY <1>2, <1>11, <1>14, CutIs DEF Cut
<1>16. QED
  BY <1>1, <1>15 DEF W, limit
-------------------------------------------------------------------------------
\* part has the rows of E, those of one repository.
SameRows(part, E, repository) ==
  /\ IsList(part) /\ IsList(E) /\ Len(part) = Len(E)
  /\ \A j \in DOMAIN E : /\ part[j].commit = E[j].commit
                         /\ part[j].path = E[j].path
                         /\ part[j].repository = repository

LEMMA OccursIs ==
  ASSUME NEW log, NEW revision, NEW r, NEW i, NEW f
  PROVE  <<i, f>> \in Occurs(log, revision, r) <=>
           i \in Walked(log, revision) /\ Hit(log, i, r, f)
BY DEF Occurs, Walked, Hit

\* The pairs that an answer lists, and those it may list.
Pairs(part) == {<<part[k].commit, part[k].path>> : k \in DOMAIN part}
PrintedOf(log, revision, r) == {<<o[1], Printed[o[2]]>> : o \in Occurs(log, revision, r)}

LEMMA PrintedIs ==
  ASSUME NEW log, NEW revision, NEW r
  PROVE  \A x : x \in PrintedOf(log, revision, r) <=>
           \E i \in Walked(log, revision) : \E f : Hit(log, i, r, f) /\ x = <<i, Printed[f]>>
<1>1. Occurs(log, revision, r) \subseteq Reachable(log, revision) \X ToSet(FileOrder)
  BY DEF Occurs
<1>2. ASSUME NEW o \in Occurs(log, revision, r)
      PROVE  \E i \in Walked(log, revision) : \E f : Hit(log, i, r, f) /\ o = <<i, f>>
  <2>1. o = <<o[1], o[2]>>
    BY <1>1
  <2>2. o[1] \in Walked(log, revision) /\ Hit(log, o[1], r, o[2])
    BY <2>1, OccursIs
  <2>3. QED
    BY <2>1, <2>2
<1> TAKE x
<1>3. ASSUME x \in PrintedOf(log, revision, r)
      PROVE  \E i \in Walked(log, revision) : \E f : Hit(log, i, r, f) /\ x = <<i, Printed[f]>>
  <2>1. PICK o \in Occurs(log, revision, r) : x = <<o[1], Printed[o[2]]>>
    BY <1>3 DEF PrintedOf
  <2>2. PICK i \in Walked(log, revision) : \E f : Hit(log, i, r, f) /\ o = <<i, f>>
    BY <1>2
  <2>3. PICK f : Hit(log, i, r, f) /\ o = <<i, f>>
    BY <2>2
  <2>4. QED
    BY <2>1, <2>3
<1>4. ASSUME NEW i \in Walked(log, revision), NEW f, Hit(log, i, r, f), x = <<i, Printed[f]>>
      PROVE  x \in PrintedOf(log, revision, r)
  <2>1. <<i, f>> \in Occurs(log, revision, r)
    BY <1>4, OccursIs
  <2>2. <<i, f>>[1] = i /\ <<i, f>>[2] = f
    OBVIOUS
  <2>3. QED
    BY <1>4, <2>1, <2>2 DEF PrintedOf
<1>5. QED
  BY <1>3, <1>4

LEMMA PartIs ==
  ASSUME NEW log, NEW revision \in Nat \ {0}, LogOK(log, revision), NEW r,
         NEW limit, limit = IF r.limit = 0 THEN DefaultLimit ELSE r.limit,
         NEW E, CutOK(E, log, Walked(log, revision), r, limit),
         NEW part, NEW repository, SameRows(part, E, repository)
  PROVE  PartTrue(part, log, revision, r)
<1> DEFINE W == Walked(log, revision)
           listed == Pairs(part)
           printed == PrintedOf(log, revision, r)
           plain == r.path \in DOMAIN Printed => Printed[r.path] = r.path
<1>1. /\ DOMAIN part = DOMAIN E /\ Len(part) = Len(E)
      /\ \A j \in DOMAIN E : part[j].commit = E[j].commit /\ part[j].path = E[j].path
  BY ListHas DEF SameRows
<1>2. /\ \A p \in DOMAIN E : \E i \in W : \E f : Hit(log, i, r, f) /\ E[p] = Row(i, Printed[f])
      /\ \A p, q \in DOMAIN E : p < q => E[p] # E[q] /\ E[p].commit >= E[q].commit
      /\ Len(E) <= limit
      /\ plain => \A i \in W : \A f : Hit(log, i, r, f) =>
           \/ \E p \in DOMAIN E : E[p] = Row(i, Printed[f])
           \/ Len(E) = limit /\ \A p \in DOMAIN E : E[p].commit >= i
  BY DEF CutOK
<1>3. \A x : x \in printed <=> \E i \in W : \E f : Hit(log, i, r, f) /\ x = <<i, Printed[f]>>
  BY PrintedIs
<1>4. \A j \in DOMAIN E : E[j] = Row(E[j].commit, E[j].path)
  <2> TAKE j \in DOMAIN E
  <2>1. PICK i \in W : \E f : E[j] = Row(i, Printed[f])
    BY <1>2
  <2>2. PICK f : E[j] = Row(i, Printed[f])
    BY <2>1
  <2>3. E[j].commit = i /\ E[j].path = Printed[f]
    BY <2>2, RowIs
  <2>4. QED
    BY <2>2, <2>3
<1> HIDE DEF W, printed, plain
<1>5. listed \subseteq printed
  <2> SUFFICES ASSUME NEW k \in DOMAIN part PROVE <<part[k].commit, part[k].path>> \in printed
    BY DEF Pairs
  <2>1. PICK i \in W : \E f : Hit(log, i, r, f) /\ E[k] = Row(i, Printed[f])
    BY <1>1, <1>2
  <2>2. PICK f : Hit(log, i, r, f) /\ E[k] = Row(i, Printed[f])
    BY <2>1
  <2>3. part[k].commit = i /\ part[k].path = Printed[f]
    BY <1>1, <2>2, RowIs
  <2>4. QED
    BY <1>3, <2>2, <2>3
<1>6. ASSUME NEW i \in DOMAIN part, NEW j \in DOMAIN part, i < j
      PROVE  part[i] # part[j] /\ part[i].commit >= part[j].commit
  <2>1. E[i] # E[j] /\ E[i].commit >= E[j].commit
    BY <1>1, <1>2, <1>6
  <2>2. part[i] = part[j] => Row(E[i].commit, E[i].path) = Row(E[j].commit, E[j].path)
    BY <1>1
  <2>3. QED
    BY <1>1, <1>4, <2>1, <2>2
<1>7. ASSUME plain, NEW o \in printed \ listed
      PROVE  Len(part) = limit /\ \A l \in listed : l[1] >= o[1]
  <2>1. PICK i \in W : \E f : Hit(log, i, r, f) /\ o = <<i, Printed[f]>>
    BY <1>3
  <2>2. PICK f : Hit(log, i, r, f) /\ o = <<i, Printed[f]>>
    BY <2>1
  <2>3. ASSUME NEW p \in DOMAIN E PROVE E[p] # Row(i, Printed[f])
    <3> SUFFICES ASSUME E[p] = Row(i, Printed[f]) PROVE FALSE
      OBVIOUS
    <3>1. part[p].commit = i /\ part[p].path = Printed[f]
      BY <1>1, RowIs
    <3>2. <<i, Printed[f]>> \in listed
      BY <1>1, <3>1 DEF Pairs
    <3>3. QED
      BY <2>2, <3>2
  <2>4. Len(E) = limit /\ \A p \in DOMAIN E : E[p].commit >= i
    BY <1>2, <1>7, <2>2, <2>3
  <2>5. o[1] = i
    BY <2>2
  <2>6. \A l \in listed : l[1] >= o[1]
    <3> SUFFICES ASSUME NEW k \in DOMAIN part PROVE <<part[k].commit, part[k].path>>[1] >= o[1]
      BY DEF Pairs
    <3>1. part[k].commit >= i
      BY <1>1, <2>4
    <3>2. QED
      BY <2>5, <3>1
  <2>7. QED
    BY <1>1, <2>4, <2>6
<1>8. Len(part) <= limit
  BY <1>1, <1>2
<1>9. PartTrue(part, log, revision, r)
      <=> /\ listed \subseteq printed
          /\ \A i, j \in DOMAIN part : i < j =>
               part[i] # part[j] /\ part[i].commit >= part[j].commit
          /\ Len(part) <= limit
          /\ plain => \A o \in printed \ listed : Len(part) = limit /\ \A l \in listed : l[1] >= o[1]
  BY DEF PartTrue, Pairs, PrintedOf, plain, printed
<1> HIDE DEF listed
<1>10. QED
  BY <1>5, <1>6, <1>7, <1>8, <1>9

\* at[i][k] is the place in F of the k-th element of S[i].
PlacesOK(S, F, at) ==
  /\ \A p \in DOMAIN F : \E i \in DOMAIN S : \E k \in DOMAIN S[i] : p = at[i][k] /\ F[p] = S[i][k]
  /\ \A i \in DOMAIN S : \A k \in DOMAIN S[i] : at[i][k] \in DOMAIN F /\ F[at[i][k]] = S[i][k]

LEMMA Places ==
  ASSUME NEW S, IsList(S), \A i \in DOMAIN S : IsList(S[i])
  PROVE  IsList(FlattenSeq(S)) /\ \E at : PlacesOK(S, FlattenSeq(S), at)
<1> DEFINE F == FlattenSeq(S)
<1>1. IsList(F) /\ \E off : FlatAll(S, F, off)
  BY FlatHas
<1>2. PICK off : FlatAll(S, F, off)
  BY <1>1
<1>3. DOMAIN F = 1 .. Len(F) /\ DOMAIN S = 1 .. Len(S)
  BY <1>1, ListHas
<1>4. \A i \in DOMAIN S : DOMAIN S[i] = 1 .. Len(S[i])
  BY ListHas
<1> DEFINE at == [i \in DOMAIN S |-> [k \in DOMAIN S[i] |-> off[i - 1] + k]]
<1> HIDE DEF F
<1>5. \A i \in DOMAIN S : \A k \in DOMAIN S[i] : at[i][k] = off[i - 1] + k
  OBVIOUS
<1> HIDE DEF at
<1>6. /\ \A i \in DOMAIN S : \A k \in DOMAIN S[i] :
           off[i - 1] + k \in DOMAIN F /\ F[off[i - 1] + k] = S[i][k]
      /\ \A p \in DOMAIN F : \E i \in DOMAIN S : \E k \in DOMAIN S[i] : p = off[i - 1] + k
  <2>1. /\ \A i \in 1 .. Len(S) : \A k \in 1 .. Len(S[i]) :
             off[i - 1] + k \in 1 .. Len(F) /\ F[off[i - 1] + k] = S[i][k]
        /\ \A p \in 1 .. Len(F) : \E i \in 1 .. Len(S) : \E k \in 1 .. Len(S[i]) : p = off[i - 1] + k
    BY <1>2 DEF FlatAll
  <2>2. \A i \in DOMAIN S : \A k \in DOMAIN S[i] :
          off[i - 1] + k \in DOMAIN F /\ F[off[i - 1] + k] = S[i][k]
    BY <2>1, <1>3, <1>4
  <2>3. ASSUME NEW p \in DOMAIN F
        PROVE  \E i \in DOMAIN S : \E k \in DOMAIN S[i] : p = off[i - 1] + k
    <3>1. PICK i \in 1 .. Len(S) : \E k \in 1 .. Len(S[i]) : p = off[i - 1] + k
      BY <2>1, <1>3
    <3>2. i \in DOMAIN S /\ \E k \in DOMAIN S[i] : p = off[i - 1] + k
      BY <3>1, <1>3, <1>4
    <3>3. QED
      BY <3>2
  <2>4. QED
    BY <2>2, <2>3
<1>7. PlacesOK(S, F, at)
  BY <1>5, <1>6 DEF PlacesOK
<1>8. QED
  BY <1>1, <1>7 DEF F

\* What is reported of each member, one member after the other: C[i] is about
\* the i-th.
Reported(ms, C) ==
  /\ IsList(ms) /\ IsList(C) /\ Len(C) = Len(ms)
  /\ \A i \in DOMAIN C : IsList(C[i])
  /\ \A i \in DOMAIN C : \A j \in DOMAIN C[i] : C[i][j].repository = ms[i].repository

Distinct(ms) == \A i, j \in DOMAIN ms : ms[i].repository = ms[j].repository => i = j

\* Where F has what is in G.
PlacesOf(F, G) == {p \in DOMAIN F : F[p] \in G}

\* Of lists one after the other, what is in G is one of the lists.
LEMMA OneList ==
  ASSUME NEW C, IsList(C), \A i \in DOMAIN C : IsList(C[i]), NEW k \in DOMAIN C, NEW G,
         \A i \in DOMAIN C : \A j \in DOMAIN C[i] : C[i][j] \in G <=> i = k,
         NEW F, F = FlattenSeq(C), NEW part, part = Keep(F, PlacesOf(F, G))
  PROVE  IsList(part) /\ Len(part) = Len(C[k]) /\ \A j \in DOMAIN C[k] : part[j] = C[k][j]
<1> DEFINE n == Len(C)
           I == PlacesOf(F, G)
<1>0. I = {p \in DOMAIN F : F[p] \in G}
  BY DEF PlacesOf
<1> HIDE DEF I
<1>1. n \in Nat /\ DOMAIN C = 1 .. n
  BY ListHas
<1>2. \A i \in 1 .. n : IsList(C[i]) /\ DOMAIN C[i] = 1 .. Len(C[i]) /\ Len(C[i]) \in Nat
  BY <1>1, ListHas
<1>3. IsList(F) /\ \E off : FlatAll(C, F, off)
  BY <1>1, <1>2, FlatHas
<1>4. DOMAIN F = 1 .. Len(F) /\ Len(F) \in Nat
  BY <1>3, ListHas
<1>5. PICK off : FlatAll(C, F, off)
  BY <1>3
<1> HIDE DEF n
<1>6. /\ \A i, j \in 0 .. n : off[i] \in Nat /\ (i <= j => off[i] <= off[j])
      /\ \A i \in 1 .. n : off[i] = off[i - 1] + Len(C[i])
      /\ \A i \in 1 .. n : \A j \in 1 .. Len(C[i]) :
           off[i - 1] + j \in 1 .. Len(F) /\ F[off[i - 1] + j] = C[i][j]
      /\ \A p \in 1 .. Len(F) : \E i \in 1 .. n : \E j \in 1 .. Len(C[i]) : p = off[i - 1] + j
  BY <1>5 DEF FlatAll, n
<1>7. \A i \in 1 .. n : \A j \in 1 .. Len(C[i]) : C[i][j] \in G <=> i = k
  BY <1>1, <1>2
<1>8. /\ off[k - 1] \in Nat /\ off[k] \in Nat /\ off[k - 1] <= off[k]
      /\ off[k] = off[k - 1] + Len(C[k]) /\ Len(C[k]) \in Nat
  <2>1. k \in 0 .. n /\ k - 1 \in 0 .. n /\ k - 1 <= k /\ k \in 1 .. n
    BY <1>1
  <2>2. QED
    BY <2>1, <1>2, <1>6
<1>9. ASSUME NEW p \in I PROVE p \in off[k - 1] + 1 .. off[k]
  <2>1. PICK i \in 1 .. n : \E j \in 1 .. Len(C[i]) : p = off[i - 1] + j
    BY <1>0, <1>4, <1>6
  <2>2. PICK j \in 1 .. Len(C[i]) : p = off[i - 1] + j
    BY <2>1
  <2>3. F[p] = C[i][j]
    BY <2>2, <1>6
  <2>4. i = k
    BY <2>3, <1>0, <1>7
  <2>5. QED
    BY <2>2, <2>4, <1>8
<1>10. ASSUME NEW p \in off[k - 1] + 1 .. off[k] PROVE p \in I
  <2>1. \E j \in 1 .. Len(C[k]) : p = off[k - 1] + j
    <3>1. p - off[k - 1] \in 1 .. Len(C[k]) /\ off[k - 1] + (p - off[k - 1]) = p
      BY <1>8
    <3>2. QED
      BY <3>1
  <2>a. PICK j \in 1 .. Len(C[k]) : p = off[k - 1] + j
    BY <2>1
  <2>2. p \in 1 .. Len(F) /\ F[p] = C[k][j] /\ k \in 1 .. n
    BY <1>1, <1>6, <2>a
  <2>3. QED
    BY <1>0, <1>4, <1>7, <2>2
<1>11. I \cap DOMAIN F = off[k - 1] + 1 .. off[k]
  BY <1>0, <1>9, <1>10
<1>12. /\ Len(Keep(F, I)) = off[k] - off[k - 1]
       /\ \A j \in 1 .. off[k] - off[k - 1] : Keep(F, I)[j] = F[off[k - 1] + j]
  <2>1. PICK lo \in Nat : lo = off[k - 1]
    BY <1>8
  <2>2. PICK hi \in Nat : hi = off[k]
    BY <1>8
  <2>3. IsRun(F, I, lo, hi)
    BY <1>8, <1>11, <2>1, <2>2 DEF IsRun
  <2> HIDE DEF I
  <2>0. IsList(F)
    BY <1>3
  <2> DEFINE K == Keep(F, I)
  <2>4. Len(K) = hi - lo /\ \A j \in 1 .. hi - lo : K[j] = F[lo + j]
    BY <2>0, <2>3, KeepRun
  <2>5. QED
    BY <2>1, <2>2, <2>4
<1>13. off[k] - off[k - 1] = Len(C[k])
  BY <1>8
<1>14. \A j \in 1 .. Len(C[k]) : Keep(F, I)[j] = C[k][j]
  BY <1>1, <1>6, <1>12, <1>13
<1>15. IsList(Keep(F, I))
  BY <1>3, KeepIs
<1>17. DOMAIN C[k] = 1 .. Len(C[k])
  BY <1>1, <1>2
<1>18. QED
  BY <1>12, <1>13, <1>14, <1>15, <1>17 DEF I

LEMMA PartOfIs ==
  ASSUME NEW ms, NEW C, Reported(ms, C), Distinct(ms), NEW k \in DOMAIN ms
  PROVE  LET part == PartOf(FlattenSeq(C), ms[k])
         IN  /\ IsList(part) /\ Len(part) = Len(C[k])
             /\ \A j \in DOMAIN C[k] : part[j] = C[k][j]
<1> DEFINE F == FlattenSeq(C)
           G == {x \in {F[p] : p \in DOMAIN F} : x.repository = ms[k].repository}
<1>1. /\ IsList(C) /\ DOMAIN C = DOMAIN ms /\ \A i \in DOMAIN C : IsList(C[i])
      /\ \A i \in DOMAIN C : \A j \in DOMAIN C[i] : C[i][j].repository = ms[i].repository
  BY ListHas DEF Reported
<1>2. \E at : PlacesOK(C, F, at)
  BY <1>1, Places
<1> HIDE DEF F
<1>3. ASSUME NEW i \in DOMAIN C, NEW j \in DOMAIN C[i]
      PROVE  C[i][j] \in G <=> i = k
  <2>1. C[i][j] \in {F[p] : p \in DOMAIN F}
    BY <1>2 DEF PlacesOK
  <2>2. C[i][j] \in G <=> C[i][j].repository = ms[k].repository
    BY <2>1
  <2>3. QED
    BY <1>1, <2>2 DEF Distinct
<1>4. PlacesOf(F, G) = {p \in DOMAIN F : F[p].repository = ms[k].repository}
  BY DEF PlacesOf
<1> HIDE DEF G
<1> DEFINE part == PartOf(F, ms[k])
<1>5. part = Keep(F, PlacesOf(F, G)) /\ F = FlattenSeq(C) /\ k \in DOMAIN C
  BY <1>1, <1>4 DEF PartOf, F
<1> HIDE DEF part
<1>6. IsList(part) /\ Len(part) = Len(C[k]) /\ \A j \in DOMAIN C[k] : part[j] = C[k][j]
  BY <1>1, <1>3, <1>5, OneList
<1>7. QED
  BY <1>6 DEF F, part

\* V[i][j] cites what C[i][j] reports.
Cited(ms, C, V) ==
  /\ IsList(V) /\ Len(V) = Len(C)
  /\ \A i \in DOMAIN C : IsList(V[i]) /\ Len(V[i]) = Len(C[i])
  /\ \A i \in DOMAIN C : \A j \in DOMAIN C[i] :
       /\ V[i][j].path = C[i][j].path
       /\ Len(ms) > 1 => V[i][j].repository = C[i][j].repository

LEMMA CitesAre ==
  ASSUME NEW ms, NEW C, Reported(ms, C), Distinct(ms), NEW V, Cited(ms, C, V)
  PROVE  CitesTrue(ms, FlattenSeq(C), FlattenSeq(V))
<1> DEFINE n == Len(C)
           F == FlattenSeq(C)
           G == FlattenSeq(V)
<1>1. n \in Nat /\ DOMAIN C = 1 .. n /\ DOMAIN ms = 1 .. n /\ DOMAIN V = 1 .. n
  BY ListHas DEF Reported, Cited
<1>2. \A i \in 1 .. n : IsList(C[i]) /\ DOMAIN C[i] = 1 .. Len(C[i]) /\ Len(C[i]) \in Nat
  BY <1>1, ListHas DEF Reported
<1>3. \A i \in 1 .. n : IsList(V[i]) /\ Len(V[i]) = Len(C[i])
  BY <1>1 DEF Cited
<1>4. /\ Len(G) = Len(F)
      /\ \E off : FlatAll(C, F, off) /\ FlatAll(V, G, off)
  <2>1. IsList(C) /\ IsList(V) /\ Len(V) = Len(C)
    BY DEF Reported, Cited
  <2>2. QED
    BY <1>1, <1>2, <1>3, <2>1, FlatSame
<1>5. IsList(F)
  BY <1>1, <1>2, FlatHas DEF Reported
<1>6. DOMAIN F = 1 .. Len(F) /\ Len(F) \in Nat
  BY <1>5, ListHas
<1>7. PICK off : FlatAll(C, F, off) /\ FlatAll(V, G, off)
  BY <1>4
<1> HIDE DEF F, G, n
<1>8. /\ \A i \in 1 .. n : \A j \in 1 .. Len(C[i]) :
           F[off[i - 1] + j] = C[i][j] /\ G[off[i - 1] + j] = V[i][j]
      /\ \A p \in 1 .. Len(F) : \E i \in 1 .. n : \E j \in 1 .. Len(C[i]) : p = off[i - 1] + j
  BY <1>1, <1>3, <1>7 DEF FlatAll, n, Cited
<1>9. ASSUME NEW p \in DOMAIN F
      PROVE  G[p].path = F[p].path /\ (Len(ms) > 1 => G[p].repository = F[p].repository)
  <2>1. PICK i \in 1 .. n : \E j \in 1 .. Len(C[i]) : p = off[i - 1] + j
    BY <1>6, <1>8
  <2>2. PICK j \in 1 .. Len(C[i]) : p = off[i - 1] + j
    BY <2>1
  <2>3. F[p] = C[i][j] /\ G[p] = V[i][j]
    BY <2>2, <1>8
  <2>4. i \in DOMAIN C /\ j \in DOMAIN C[i]
    BY <1>1, <1>2
  <2>5. V[i][j].path = C[i][j].path /\ (Len(ms) > 1 => V[i][j].repository = C[i][j].repository)
    BY <2>4 DEF Cited
  <2>6. QED
    BY <2>3, <2>5
<1>10. ASSUME NEW p \in DOMAIN F, p > 1, NEW a \in DOMAIN ms, NEW b \in DOMAIN ms,
              ms[a].repository = F[p - 1].repository, ms[b].repository = F[p].repository
       PROVE  a <= b
  <2>1. p - 1 \in 1 .. Len(F) /\ p \in 1 .. Len(F)
    BY <1>6, <1>10
  <2>2. PICK i \in 1 .. n : \E j \in 1 .. Len(C[i]) : p - 1 = off[i - 1] + j
    BY <1>8, <2>1
  <2>3. PICK j \in 1 .. Len(C[i]) : p - 1 = off[i - 1] + j
    BY <2>2
  <2>4. PICK l \in 1 .. n : \E h \in 1 .. Len(C[l]) : p = off[l - 1] + h
    BY <1>8, <2>1
  <2>5. PICK h \in 1 .. Len(C[l]) : p = off[l - 1] + h
    BY <2>4
  <2>6. F[p - 1] = C[i][j] /\ F[p] = C[l][h]
    BY <1>8, <2>3, <2>5
  <2>7. C[i][j].repository = ms[i].repository /\ C[l][h].repository = ms[l].repository
    BY <1>1, <1>2 DEF Reported
  <2>8. a = i /\ b = l
    <3>1. \A x, y \in 1 .. n : ms[x].repository = ms[y].repository => x = y
      BY <1>1 DEF Distinct
    <3>2. a \in 1 .. n /\ b \in 1 .. n
      BY <1>1, <1>10
    <3>3. ms[a].repository = ms[i].repository /\ ms[b].repository = ms[l].repository
      BY <1>10, <2>6, <2>7
    <3>4. QED
      BY <3>1, <3>2, <3>3
  <2>9. off[i - 1] + j <= off[l - 1] + h
    BY <2>1, <2>3, <2>5
  <2>10. i <= l
    BY <1>1, <1>2, <1>7, <2>9, FlatOrder DEF n
  <2>11. QED
    BY <2>8, <2>10
<1>11. CitesTrue(ms, F, G)
  BY <1>4, <1>9, <1>10 DEF CitesTrue
<1>12. QED
  BY <1>11 DEF F, G
\* The members that a request is answered in: no repository twice, each with a
\* log.
MembersOK(members) ==
  /\ IsList(members) /\ Distinct(members)
  /\ \A k \in DOMAIN members :
       /\ members[k].revision \in Nat \ {0}
       /\ LogOK(Log(members[k]), members[k].revision)

LEMMA Selected ==
  ASSUME WorldOK, NEW r \in Requests[world.kind], NEW side \in 1 .. Sides(r.tool)
  PROVE  MembersOK(selectMembers(r.ids[side], r.repository))
<1> DEFINE id == r.ids[side]
           all == resolve(id)
           named == {i \in DOMAIN all : all[i].repository = r.repository}
           chosen == selectMembers(id, r.repository)
<1>1. id \in DOMAIN world.scope
  BY DEF WorldOK
<1>2. /\ world.scope[id] \in Seq(ToSet(world.scope[id]))
      /\ Distinct(all)
      /\ \A k \in DOMAIN all : all[k].revision \in Nat \ {0} /\ LogOK(Log(all[k]), all[k].revision)
  BY <1>1 DEF WorldOK, Distinct, LogOK
<1>3. IsList(all)
  <2>1. all = <<>> \/ all = world.scope[id]
    BY DEF resolve
  <2> HIDE DEF all
  <2>2. QED
    BY <2>1, <1>2, SeqIsList, NoList
<1>4. MembersOK(all)
  BY <1>2, <1>3 DEF MembersOK
<1>5. chosen = IF r.repository = None THEN all
               ELSE IF named = {} THEN <<>> ELSE <<all[Min(named)]>>
  BY DEF selectMembers
<1>6. DOMAIN all = 1 .. Len(all) /\ Len(all) \in Nat
  BY <1>3, ListHas
<1>7. MembersOK(<<>>)
  BY NoList DEF MembersOK, Distinct
<1> HIDE DEF all, chosen
<1>8. ASSUME NEW k \in DOMAIN all PROVE MembersOK(<<all[k]>>)
  <2>1. <<all[k]>> \in Seq({all[k]}) /\ DOMAIN <<all[k]>> = 1 .. 1 /\ <<all[k]>>[1] = all[k]
    OBVIOUS
  <2>2. IsList(<<all[k]>>)
    BY <2>1, SeqIsList
  <2>3. Distinct(<<all[k]>>)
    BY <2>1 DEF Distinct
  <2>4. QED
    BY <1>2, <2>1, <2>2, <2>3 DEF MembersOK
<1>9. CASE r.repository # None /\ named # {}
  <2>1. named \in SUBSET Nat
    BY <1>6
  <2>2. Min(named) \in named
    BY <1>9, <2>1, MinIs
  <2>3. chosen = <<all[Min(named)]>> /\ Min(named) \in DOMAIN all
    BY <1>5, <1>9, <2>2
  <2>4. QED
    BY <1>8, <2>3 DEF chosen
<1>10. CASE r.repository = None \/ named = {}
  <2>1. chosen = all \/ chosen = <<>>
    BY <1>5, <1>10
  <2>2. QED
    BY <1>4, <1>7, <2>1 DEF chosen
<1>11. QED
  BY <1>9, <1>10

\* The rows of a member, and what is cited for them.
CommitRows(m, E) ==
  [j \in DOMAIN E |-> [repository |-> m.repository, commit |-> E[j].commit, path |-> E[j].path]]
PathRows(E) == [j \in DOMAIN E |-> [path |-> E[j].path]]

RowsOK(C, P, m, E) ==
  /\ IsList(E) /\ IsList(C) /\ IsList(P) /\ Len(C) = Len(E) /\ Len(P) = Len(E)
  /\ DOMAIN C = DOMAIN E /\ DOMAIN P = DOMAIN E
  /\ \A j \in DOMAIN E :
       /\ C[j].repository = m.repository /\ C[j].commit = E[j].commit /\ C[j].path = E[j].path
       /\ P[j] = [path |-> E[j].path]

LEMMA MemberRows ==
  ASSUME NEW m, NEW E, IsList(E)
  PROVE  RowsOK(CommitRows(m, E), PathRows(E), m, E)
<1> DEFINE C == CommitRows(m, E)
           P == PathRows(E)
<1>1. DOMAIN E = 1 .. Len(E) /\ Len(E) \in Nat
  BY ListHas
<1>2. C = [j \in 1 .. Len(E) |-> C[j]] /\ P = [j \in 1 .. Len(E) |-> P[j]]
  BY <1>1 DEF CommitRows, PathRows
<1>3. IsList(C) /\ Len(C) = Len(E) /\ IsList(P) /\ Len(P) = Len(E)
  <2> HIDE DEF C, P
  <2>1. QED
    BY <1>1, <1>2, ListIs
<1>4. \A j \in DOMAIN E :
              /\ C[j].repository = m.repository
              /\ C[j].commit = E[j].commit
              /\ C[j].path = E[j].path
              /\ P[j] = [path |-> E[j].path]
  BY DEF CommitRows, PathRows
<1> HIDE DEF C, P
<1>5. DOMAIN C = DOMAIN E /\ DOMAIN P = DOMAIN E
  BY <1>1, <1>3, ListHas
<1>6. RowsOK(C, P, m, E)
  BY <1>3, <1>4, <1>5 DEF RowsOK
<1>7. QED
  BY <1>6 DEF C, P

\* A citation, under its repository if there are several.
Cite(members, i, c) ==
  [x \in DOMAIN c \cup {"repository"} |->
    IF x # "repository" THEN c[x]
    ELSE IF Len(members) = 1 THEN None ELSE members[i].repository]

LEMMA WireIs ==
  ASSUME NEW members, NEW cited
  PROVE  wire(members, cited) =
           FlattenSeq([i \in DOMAIN members |->
             [j \in DOMAIN cited[i] |-> Cite(members, i, cited[i][j])]])
BY DEF wire, Cite

LEMMA CitationIs ==
  ASSUME NEW members, NEW i, NEW p, NEW c, c = [path |-> p],
         Len(members) \in Nat
  PROVE  /\ Cite(members, i, c).path = p
         /\ Len(members) > 1 => Cite(members, i, c).repository = members[i].repository
<1>1. DOMAIN c = {"path"} /\ c["path"] = p
  OBVIOUS
<1> DEFINE u == Cite(members, i, c)
<1>2. u["path"] = p
  BY <1>1 DEF Cite
<1>3. Len(members) > 1 => u["repository"] = members[i].repository
  <2>1. PICK n \in Nat : n = Len(members)
    OBVIOUS
  <2>2. u["repository"] = IF n = 1 THEN None ELSE members[i].repository
    BY <1>1, <2>1 DEF Cite
  <2>3. n > 1 => u["repository"] = members[i].repository
    BY <2>2
  <2>4. QED
    BY <2>1, <2>3
<1>4. QED
  BY <1>2, <1>3

\* An answered history is that of every member.
LEMMA SearchHistoryInIs ==
  ASSUME WorldOK, NEW r \in Requests[world.kind], r.tool = "search_history",
         SearchHistoryIn(r), answer'.verdict = "ok",
         NEW members, members = selectMembers(r.ids[1], r.repository)
  PROVE  /\ \A k \in DOMAIN members :
              PartTrue(PartOf(answer'.commits, members[k]), Log(members[k]), members[k].revision, r)
         /\ CitesTrue(members, answer'.commits, answer'.evidence)
<1> DEFINE found == [i \in DOMAIN members |->
                       SearchHistory(Log(members[i]), members[i].revision, r)]
           C == [i \in DOMAIN members |-> CommitRows(members[i], found[i].entries)]
           P == [i \in DOMAIN members |-> PathRows(found[i].entries)]
           limit == IF r.limit = 0 THEN DefaultLimit ELSE r.limit
<1>1. /\ answer'.commits = FlattenSeq(C) /\ answer'.evidence = wire(members, P)
      /\ ~(r.limit < 0)
  <2>1. ~(members = <<>> \/ r.limit < 0)
    <3> SUFFICES ASSUME members = <<>> \/ r.limit < 0 PROVE FALSE
      OBVIOUS
    <3>1. answer' = [verdict |-> "INVALID_ARGUMENT"]
      BY DEF SearchHistoryIn, Refuse
    <3>2. QED
      BY <3>1
  <2>2. answer' = [verdict |-> "ok", commits |-> FlattenSeq(C), evidence |-> wire(members, P)]
    BY <2>1 DEF SearchHistoryIn, CommitRows, PathRows
  <2> HIDE DEF C, P
  <2>3. QED
    BY <2>1, <2>2
<1>2. r.limit \in Nat /\ IsPath(r.path)
  <2>1. r.tool = "search_history" => r.limit \in Int /\ IsPath(r.path)
    BY DEF WorldOK
  <2>2. ~(r.limit < 0)
    BY <1>1
  <2>3. QED
    BY <2>1, <2>2
<1>3. MembersOK(members)
  BY Selected DEF Sides
<1>4. /\ IsList(members) /\ Distinct(members)
      /\ \A k \in DOMAIN members : /\ members[k].revision \in Nat \ {0}
                                   /\ LogOK(Log(members[k]), members[k].revision)
  BY <1>3 DEF MembersOK
<1>5. \A k \in DOMAIN members :
        CutOK(found[k].entries, Log(members[k]), Walked(Log(members[k]), members[k].revision), r, limit)
  BY <1>2, <1>4, SearchHistoryIs DEF historyLimit
<1>6. \A k \in DOMAIN members : IsList(found[k].entries)
  BY <1>5 DEF CutOK
<1>7. DOMAIN members = 1 .. Len(members) /\ Len(members) \in Nat
  BY <1>4, ListHas
<1> HIDE DEF found, limit
<1>8. /\ C = [i \in 1 .. Len(members) |-> C[i]] /\ P = [i \in 1 .. Len(members) |-> P[i]]
      /\ \A i \in DOMAIN members : /\ C[i] = CommitRows(members[i], found[i].entries)
                                   /\ P[i] = PathRows(found[i].entries)
  BY <1>7
<1>9. IsList(C) /\ Len(C) = Len(members) /\ DOMAIN C = DOMAIN members /\ DOMAIN P = DOMAIN members
  <2>1. DOMAIN C = DOMAIN members /\ DOMAIN P = DOMAIN members
    OBVIOUS
  <2> HIDE DEF C, P
  <2>2. QED
    BY <1>7, <1>8, <2>1, ListIs
<1> HIDE DEF C, P
<1>a. \A i \in DOMAIN members : RowsOK(C[i], P[i], members[i], found[i].entries)
  BY <1>6, <1>8, MemberRows
<1>10. Reported(members, C)
  <2>1. \A i \in DOMAIN members : IsList(C[i])
    BY <1>a DEF RowsOK
  <2>2. \A i \in DOMAIN members : \A j \in DOMAIN C[i] : C[i][j].repository = members[i].repository
    BY <1>a DEF RowsOK
  <2>3. QED
    BY <1>4, <1>9, <2>1, <2>2 DEF Reported
<1>11. ASSUME NEW k \in DOMAIN members
       PROVE  PartTrue(PartOf(answer'.commits, members[k]), Log(members[k]), members[k].revision, r)
  <2> DEFINE part == PartOf(FlattenSeq(C), members[k])
             E == found[k].entries
  <2>1. IsList(part) /\ Len(part) = Len(C[k]) /\ \A j \in DOMAIN C[k] : part[j] = C[k][j]
    BY <1>4, <1>10, PartOfIs
  <2> HIDE DEF part, E
  <2>2. RowsOK(C[k], P[k], members[k], E)
    BY <1>a DEF E
  <2>3. SameRows(part, E, members[k].repository)
    BY <2>1, <2>2 DEF SameRows, RowsOK
  <2>4. PartTrue(part, Log(members[k]), members[k].revision, r)
    BY <1>4, <1>5, <2>3, PartIs DEF E, limit
  <2>5. QED
    BY <1>1, <2>4 DEF part
<1>12. CitesTrue(members, answer'.commits, answer'.evidence)
  <2> DEFINE V == [i \in DOMAIN members |-> [j \in DOMAIN P[i] |-> Cite(members, i, P[i][j])]]
  <2>1. answer'.evidence = FlattenSeq(V)
    BY <1>1, WireIs
  <2>2. ASSUME NEW i \in DOMAIN members
        PROVE  /\ IsList(V[i]) /\ Len(V[i]) = Len(C[i])
               /\ \A j \in DOMAIN C[i] : V[i][j] = Cite(members, i, P[i][j])
                                         /\ P[i][j] = [path |-> C[i][j].path]
    <3> DEFINE E == found[i].entries
    <3>1. IsList(E) /\ DOMAIN E = 1 .. Len(E) /\ Len(E) \in Nat
      BY <1>6, ListHas
    <3>2. RowsOK(C[i], P[i], members[i], E)
      BY <1>a
    <3> HIDE DEF E
    <3>3. /\ IsList(C[i]) /\ Len(C[i]) = Len(E)
          /\ DOMAIN P[i] = 1 .. Len(E) /\ DOMAIN C[i] = 1 .. Len(E)
          /\ \A j \in 1 .. Len(E) : P[i][j] = [path |-> C[i][j].path]
      BY <3>1, <3>2 DEF RowsOK
    <3>5. V[i] = [j \in 1 .. Len(E) |-> Cite(members, i, P[i][j])]
      BY <3>3
    <3> HIDE DEF V
    <3>6. V[i] = [j \in 1 .. Len(E) |-> V[i][j]]
      BY <3>5
    <3>7. IsList(V[i]) /\ Len(V[i]) = Len(E)
      BY <3>1, <3>6, ListIs
    <3>8. \A j \in 1 .. Len(E) : V[i][j] = Cite(members, i, P[i][j])
      BY <3>5
    <3>9. QED
      BY <3>1, <3>3, <3>7, <3>8
  <2>3. V = [i \in 1 .. Len(members) |-> V[i]]
    BY <1>7
  <2> HIDE DEF V
  <2>4. IsList(V) /\ Len(V) = Len(C)
    BY <1>7, <1>9, <2>3, ListIs
  <2>5. ASSUME NEW i \in DOMAIN C, NEW j \in DOMAIN C[i]
        PROVE  /\ V[i][j].path = C[i][j].path
               /\ Len(members) > 1 => V[i][j].repository = C[i][j].repository
    <3>1. V[i][j] = Cite(members, i, P[i][j]) /\ P[i][j] = [path |-> C[i][j].path]
      BY <1>9, <2>2
    <3>2. /\ V[i][j].path = C[i][j].path
          /\ Len(members) > 1 => V[i][j].repository = members[i].repository
      BY <1>7, <3>1, CitationIs
    <3>3. C[i][j].repository = members[i].repository
      BY <1>10 DEF Reported
    <3>4. QED
      BY <3>2, <3>3
  <2>6. Cited(members, C, V)
    BY <1>9, <2>2, <2>4, <2>5 DEF Cited
  <2>7. QED
    BY <1>1, <1>4, <1>10, <2>1, <2>6, CitesAre
<1>13. QED
  BY <1>11, <1>12

\* The members of a request, and their logs.
Members(r) == selectMembers(r.ids[1], r.repository)
Logs(r) == [k \in DOMAIN Members(r) |-> Log(Members(r)[k])]

HistoryTold(members, logs, r, a) ==
  /\ \A k \in DOMAIN members :
       PartTrue(PartOf(a.commits, members[k]), logs[k], members[k].revision, r)
  /\ CitesTrue(members, a.commits, a.evidence)

\* What HistoryTrue says, in parts.
LEMMA HistoryIs ==
  HistoryTrue <=>
    (Answered("search_history") => HistoryTold(Members(ask), Logs(ask), ask, answer))
BY DEF HistoryTrue, HistoryTold, Members, Logs

LEMMA SameMembers ==
  ASSUME world' = world
  PROVE  \A r : ask' = r => Members(ask)' = Members(r) /\ Logs(ask)' = Logs(r)
<1> SUFFICES ASSUME NEW r, ask' = r
             PROVE  Members(ask)' = Members(r) /\ Logs(ask)' = Logs(r)
  OBVIOUS
<1>1. \A id : resolve(id)' = resolve(id)
  BY DEF resolve
<1>2. Members(ask)' = Members(r)
  BY <1>1 DEF Members, selectMembers
<1>3. Logs(ask)' = Logs(r)
  BY <1>2 DEF Logs, Log
<1>4. QED
  BY <1>2, <1>3

\* A history is that of the members it is asked in.
LEMMA HistoryStep ==
  ASSUME WorldOK, HistoryTrue, [Next]_vars
  PROVE  HistoryTrue'
<1>1. (HistoryTrue <=>
         (Answered("search_history") => HistoryTold(Members(ask), Logs(ask), ask, answer)))'
  BY HistoryIs, PTL
<1>2. \A r : ask' = r => Members(ask)' = Members(r) /\ Logs(ask)' = Logs(r)
  BY WorldStays, SameMembers
<1>3. CASE UNCHANGED vars
  <2>1. ask' = ask /\ answer' = answer
    BY <1>3 DEF vars
  <2>2. Members(ask)' = Members(ask) /\ Logs(ask)' = Logs(ask)
    BY <1>2, <2>1
  <2>3. QED
    BY <1>1, <2>1, <2>2, HistoryIs DEF Answered
<1>4. CASE ask' = None
  BY <1>4 DEF HistoryTrue, Answered
<1>5. ASSUME NEW r \in Requests[world.kind], ask' = r,
             r.tool = "search_history" => SearchHistoryIn(r), Answered("search_history")'
      PROVE  HistoryTrue'
  <2>1. r.tool = "search_history" /\ answer'.verdict = "ok" /\ SearchHistoryIn(r)
    BY <1>5 DEF Answered
  <2>2. /\ \A k \in DOMAIN Members(r) :
              PartTrue(PartOf(answer'.commits, Members(r)[k]), Log(Members(r)[k]),
                       Members(r)[k].revision, r)
        /\ CitesTrue(Members(r), answer'.commits, answer'.evidence)
    BY <2>1, SearchHistoryInIs DEF Members
  <2>3. HistoryTold(Members(r), Logs(r), r, answer')
    BY <2>2 DEF HistoryTold, Logs
  <2>4. Members(ask)' = Members(r) /\ Logs(ask)' = Logs(r)
    BY <1>2, <1>5
  <2>5. QED
    BY <1>1, <1>5, <2>3, <2>4
<1>6. QED
  BY <1>3, <1>4, <1>5, Replies DEF HistoryTrue

\* A history has what its version's log has: nothing else, nothing twice, newest
\* first, cut off only by the limit, and each entry cited where it is from
\* (adapters/git/history.go, engine/search_history.go).
THEOREM HistoriesTrue == Spec => []HistoryTrue
<1>1. Init => WorldOK /\ HistoryTrue
  BY DEF Init, HistoryTrue, Answered
<1>2. WorldOK /\ HistoryTrue /\ [Next]_vars => (WorldOK /\ HistoryTrue)'
  BY WorldStays, HistoryStep
<1>3. QED
  BY <1>1, <1>2, PTL DEF Spec
-------------------------------------------------------------------------------
(* Lists of lists, without their offsets                                       *)

\* The elements of a finite set, each once.
LEMMA OnceEach ==
  ASSUME NEW S, IsFiniteSet(S)
  PROVE  Lists(SetToSeq(S), S)
<1> DEFINE n == Cardinality(S)
           f == SetToSeq(S)
<1>1. n \in Nat /\ ExistsBijection(1 .. n, S)
  BY FS_CardinalityType
<1>2. PICK g : g \in Bijection(1 .. n, S)
  BY <1>1 DEF ExistsBijection
<1>3. g \in [1 .. n -> S] /\ IsInjective(g)
  BY <1>2 DEF Bijection, Injection
<1>4. f \in [1 .. n -> S] /\ IsInjective(f)
  BY <1>3 DEF SetToSeq
<1> HIDE DEF f
<1>5. f \in Injection(1 .. n, S)
  BY <1>4 DEF Injection
<1>6. IsFiniteSet(1 .. n) /\ Cardinality(1 .. n) = n
  BY <1>1, FS_Interval
<1>7. f \in Surjection(1 .. n, S)
  BY <1>5, <1>6, FS_Injection
<1>8. DOMAIN f = 1 .. n /\ f \in Seq(S)
  BY <1>1, <1>4
<1>9. IsList(f)
  BY <1>8, SeqIsList
<1>10. \A x \in S : \E i \in DOMAIN f : f[i] = x
  BY <1>7, <1>8 DEF Surjection
<1>11. \A i \in DOMAIN f : f[i] \in S
  BY <1>4, <1>8
<1>12. \A i, j \in DOMAIN f : f[i] = f[j] => i = j
  BY <1>4 DEF IsInjective
<1>13. QED
  BY <1>9, <1>10, <1>11, <1>12 DEF f, Lists

\* Lists of different things, one after the other.
LEMMA FlatOnce ==
  ASSUME NEW S, IsList(S), NEW X, \A i \in DOMAIN S : Lists(S[i], X[i]),
         \A i, j \in DOMAIN S : X[i] \cap X[j] # {} => i = j
  PROVE  Lists(FlattenSeq(S), UNION {X[i] : i \in DOMAIN S})
<1> DEFINE F == FlattenSeq(S)
<1>1. \A i \in DOMAIN S :
        /\ IsList(S[i])
        /\ \A k \in DOMAIN S[i] : S[i][k] \in X[i]
        /\ \A k, l \in DOMAIN S[i] : S[i][k] = S[i][l] => k = l
        /\ \A x \in X[i] : \E k \in DOMAIN S[i] : S[i][k] = x
  BY DEF Lists
<1>2. IsList(F) /\ \E at : PlacesOK(S, F, at)
  BY <1>1, Places
<1>3. PICK at : PlacesOK(S, F, at)
  BY <1>2
<1> HIDE DEF F
<1>4. ASSUME NEW p \in DOMAIN F, NEW q \in DOMAIN F, F[p] = F[q] PROVE p = q
  <2>1. PICK i \in DOMAIN S : \E k \in DOMAIN S[i] : p = at[i][k] /\ F[p] = S[i][k]
    BY <1>3 DEF PlacesOK
  <2>2. PICK k \in DOMAIN S[i] : p = at[i][k] /\ F[p] = S[i][k]
    BY <2>1
  <2>3. PICK j \in DOMAIN S : \E l \in DOMAIN S[j] : q = at[j][l] /\ F[q] = S[j][l]
    BY <1>3 DEF PlacesOK
  <2>4. PICK l \in DOMAIN S[j] : q = at[j][l] /\ F[q] = S[j][l]
    BY <2>3
  <2>5. i = j
    BY <1>1, <1>4, <2>2, <2>4
  <2>6. k = l
    BY <1>1, <1>4, <2>2, <2>4, <2>5
  <2>7. QED
    BY <2>2, <2>4, <2>5, <2>6
<1>5. \A p \in DOMAIN F : F[p] \in UNION {X[i] : i \in DOMAIN S}
  BY <1>1, <1>3 DEF PlacesOK
<1>6. \A x \in UNION {X[i] : i \in DOMAIN S} : \E p \in DOMAIN F : F[p] = x
  BY <1>1, <1>3 DEF PlacesOK
<1>7. QED
  BY <1>2, <1>4, <1>5, <1>6 DEF Lists, F

LEMMA ImageFinite ==
  ASSUME NEW f, IsFiniteSet(DOMAIN f)
  PROVE  IsFiniteSet({f[x] : x \in DOMAIN f})
<1> DEFINE T == {f[x] : x \in DOMAIN f}
           g == [x \in DOMAIN f |-> f[x]]
<1>1. g \in Surjection(DOMAIN f, T)
  BY DEF Surjection
<1>2. QED
  BY <1>1, FS_Surjection
-------------------------------------------------------------------------------
(* Documents                                                                   *)

\* The files of a branch, as documents are about them, and the document a file
\* is in.
FilesOf(shard, b) == {[path |-> p, lines |-> shard[b][p]] : p \in ToSet(PathOrder) \cap DOMAIN shard[b]}
DocumentOf(shard, f) ==
  [path |-> f.path, lines |-> f.lines,
   branches |-> {b \in DOMAIN shard : f.path \in DOMAIN shard[b] /\ shard[b][f.path] = f.lines}]

LEMMA DocumentsIn ==
  ASSUME NEW shard
  PROVE  Documents(shard) =
           {DocumentOf(shard, f) : f \in UNION {FilesOf(shard, b) : b \in DOMAIN shard}}
BY DEF Documents, FilesOf, DocumentOf

LEMMA DocumentsFinite ==
  ASSUME NEW shard, IsFiniteSet(DOMAIN shard)
  PROVE  IsFiniteSet(Documents(shard))
<1>1. IsFiniteSet(ToSet(PathOrder))
  <2>1. PathOrder \in Seq(ToSet(PathOrder))
    BY CodeSearchAssumption
  <2>2. DOMAIN PathOrder = 1 .. Len(PathOrder) /\ Len(PathOrder) \in Nat
    BY <2>1
  <2>3. IsFiniteSet(DOMAIN PathOrder)
    BY <2>2, FS_Interval
  <2>4. QED
    BY <2>3, ImageFinite DEF ToSet
<1>2. ASSUME NEW b \in DOMAIN shard PROVE IsFiniteSet(FilesOf(shard, b))
  <2> DEFINE P == ToSet(PathOrder) \cap DOMAIN shard[b]
             f == [p \in P |-> [path |-> p, lines |-> shard[b][p]]]
  <2>1. IsFiniteSet(P)
    BY <1>1, FS_Intersection
  <2>2. DOMAIN f = P /\ FilesOf(shard, b) = {f[x] : x \in DOMAIN f}
    BY DEF FilesOf
  <2>3. IsFiniteSet({f[x] : x \in DOMAIN f})
    <3> HIDE DEF f
    <3>1. QED
      BY <2>1, <2>2, ImageFinite
  <2>4. QED
    BY <2>2, <2>3
<1> DEFINE g == [b \in DOMAIN shard |-> FilesOf(shard, b)]
           F == UNION {g[b] : b \in DOMAIN g}
           h == [f \in F |-> DocumentOf(shard, f)]
<1>3. IsFiniteSet({g[b] : b \in DOMAIN g})
  BY ImageFinite
<1>4. IsFiniteSet(F)
  BY <1>2, <1>3, FS_UNION
<1>5. F = UNION {FilesOf(shard, b) : b \in DOMAIN shard}
  OBVIOUS
<1> HIDE DEF F
<1>6. IsFiniteSet({h[f] : f \in DOMAIN h})
  BY <1>4, ImageFinite
<1>7. {h[f] : f \in DOMAIN h} = Documents(shard)
  BY <1>5, DocumentsIn
<1>8. QED
  BY <1>6, <1>7

\* A document is what a file is on the branches it is on; no two are the same
\* file; and every file has one.
LEMMA DocumentIs ==
  ASSUME NEW shard
  PROVE  /\ \A d \in Documents(shard) :
              /\ d.path \in ToSet(PathOrder)
              /\ \A b \in d.branches : /\ b \in DOMAIN shard /\ d.path \in DOMAIN shard[b]
                                       /\ shard[b][d.path] = d.lines
         /\ \A d, e \in Documents(shard) : (d.path = e.path /\ d.lines = e.lines) => d = e
         /\ \A b \in DOMAIN shard : \A p \in ToSet(PathOrder) \cap DOMAIN shard[b] :
              \E d \in Documents(shard) : d.path = p /\ d.lines = shard[b][p] /\ b \in d.branches
<1> DEFINE F == UNION {FilesOf(shard, b) : b \in DOMAIN shard}
<1>1. Documents(shard) = {DocumentOf(shard, f) : f \in F}
  BY DocumentsIn
<1>2. \A f : /\ DocumentOf(shard, f).path = f.path /\ DocumentOf(shard, f).lines = f.lines
             /\ DocumentOf(shard, f).branches =
                  {b \in DOMAIN shard : f.path \in DOMAIN shard[b] /\ shard[b][f.path] = f.lines}
  BY DEF DocumentOf
<1>3. \A f \in F : f.path \in ToSet(PathOrder)
  BY DEF FilesOf
<1>4. \A f, g : f.path = g.path /\ f.lines = g.lines => DocumentOf(shard, f) = DocumentOf(shard, g)
  BY DEF DocumentOf
<1>5. \A b \in DOMAIN shard : \A p \in ToSet(PathOrder) \cap DOMAIN shard[b] :
        \E f \in F : f.path = p /\ f.lines = shard[b][p]
  <2> SUFFICES ASSUME NEW b \in DOMAIN shard, NEW p \in ToSet(PathOrder) \cap DOMAIN shard[b]
               PROVE  \E f \in F : f.path = p /\ f.lines = shard[b][p]
    OBVIOUS
  <2>1. [path |-> p, lines |-> shard[b][p]] \in F
    BY DEF FilesOf
  <2>2. QED
    BY <2>1
<1> HIDE DEF F
<1>6. \A d \in Documents(shard) :
              /\ d.path \in ToSet(PathOrder)
              /\ \A b \in d.branches : /\ b \in DOMAIN shard /\ d.path \in DOMAIN shard[b]
                                       /\ shard[b][d.path] = d.lines
  BY <1>1, <1>2, <1>3
<1>7. \A d, e \in Documents(shard) : (d.path = e.path /\ d.lines = e.lines) => d = e
  BY <1>1, <1>2, <1>4
<1>8. \A b \in DOMAIN shard : \A p \in ToSet(PathOrder) \cap DOMAIN shard[b] :
              \E d \in Documents(shard) : d.path = p /\ d.lines = shard[b][p] /\ b \in d.branches
  <2> SUFFICES ASSUME NEW b \in DOMAIN shard, NEW p \in ToSet(PathOrder) \cap DOMAIN shard[b]
               PROVE  \E d \in Documents(shard) :
                        d.path = p /\ d.lines = shard[b][p] /\ b \in d.branches
    OBVIOUS
  <2>1. PICK f \in F : f.path = p /\ f.lines = shard[b][p]
    BY <1>5
  <2>2. DocumentOf(shard, f) \in Documents(shard)
    BY <1>1
  <2>3. b \in DocumentOf(shard, f).branches
    BY <1>2, <2>1
  <2>4. QED
    BY <1>2, <2>1, <2>2, <2>3
<1>9. QED
  BY <1>6, <1>7, <1>8
-------------------------------------------------------------------------------
(* What one search answers                                                     *)

Ranked(D) == FlattenSeq([i \in DOMAIN PathOrder |-> SetToSeq({d \in D : d.path = PathOrder[i]})])

LEMMA RankedIs ==
  ASSUME NEW D, IsFiniteSet(D), \A d \in D : d.path \in ToSet(PathOrder)
  PROVE  Lists(Ranked(D), D)
<1> DEFINE X == [i \in DOMAIN PathOrder |-> {d \in D : d.path = PathOrder[i]}]
           S == [i \in DOMAIN PathOrder |-> SetToSeq({d \in D : d.path = PathOrder[i]})]
           n == Len(PathOrder)
<1>1. PathOrder \in Seq(ToSet(PathOrder)) /\ IsInjective(PathOrder)
  BY CodeSearchAssumption
<1>2. DOMAIN PathOrder = 1 .. n /\ n \in Nat
  BY <1>1
<1>3. DOMAIN S = 1 .. n /\ S = [i \in 1 .. n |-> S[i]]
  BY <1>2
<1>4. ASSUME NEW i \in DOMAIN PathOrder PROVE Lists(S[i], X[i])
  <2>1. IsFiniteSet(X[i])
    BY FS_Subset
  <2>2. S[i] = SetToSeq(X[i])
    OBVIOUS
  <2>3. QED
    BY <2>1, <2>2, OnceEach
<1>5. \A i, j \in DOMAIN PathOrder : X[i] \cap X[j] # {} => i = j
  BY <1>1 DEF IsInjective
<1>6. UNION {X[i] : i \in 1 .. n} = D
  BY <1>2 DEF ToSet
<1>7. Ranked(D) = FlattenSeq(S)
  BY DEF Ranked
<1> HIDE DEF S, X, n
<1>8. IsList(S) /\ DOMAIN S = 1 .. n
  BY <1>2, <1>3, ListIs
<1>9. Lists(FlattenSeq(S), UNION {X[i] : i \in DOMAIN S})
  BY <1>2, <1>4, <1>5, <1>8, FlatOnce
<1>10. QED
  BY <1>6, <1>7, <1>8, <1>9

\* An answer has documents that were found, each once, and all if there is room.
LEMMA PostIs ==
  ASSUME NEW shard, IsFiniteSet(DOMAIN shard), NEW branch, NEW q, NEW files \in post(shard, branch, q)
  PROVE  \E D \in SUBSET Found(shard, branch, q) :
           /\ Lists(files, D)
           /\ Cardinality(Found(shard, branch, q)) <= MaxFiles => D = Found(shard, branch, q)
<1> DEFINE all == Found(shard, branch, q)
<1>1. post(shard, branch, q) =
        {Ranked(D) : D \in IF Cardinality(all) <= MaxFiles THEN {all} ELSE kSubset(MaxFiles, all)}
  BY DEF post, Ranked
<1>2. all \subseteq Documents(shard)
  BY DEF Found
<1> HIDE DEF all
<1>3. PICK D \in IF Cardinality(all) <= MaxFiles THEN {all} ELSE kSubset(MaxFiles, all) :
        files = Ranked(D)
  BY <1>1
<1>4. D \in SUBSET all /\ (Cardinality(all) <= MaxFiles => D = all)
  BY <1>3 DEF kSubset
<1>5. IsFiniteSet(D)
  BY <1>2, <1>4, DocumentsFinite, FS_Subset
<1>6. Lists(files, D)
  BY <1>2, <1>3, <1>4, <1>5, RankedIs, DocumentIs
<1>7. QED
  BY <1>4, <1>6 DEF all

\* The lines of a document that are reported.
Hits(d, q) == {i \in DOMAIN d.lines : Finds(q, d.lines[i])}
Matched(d, q) ==
  Keep(LineMatches(d, q), {k \in DOMAIN LineMatches(d, q) : LineMatches(d, q)[k] # 0})

LEMMA MatchedIs ==
  ASSUME NEW d, IsList(d.lines), NEW q
  PROVE  Lists(Matched(d, q), Hits(d, q)) /\ (Hits(d, q) # {} => LineMatches(d, q) # <<>>)
<1> DEFINE s == [i \in DOMAIN d.lines |-> i]
           H == Hits(d, q)
           lines == Keep(s, H)
           M == LineMatches(d, q)
           I == {k \in DOMAIN M : M[k] # 0}
<1>1. PICK n \in Nat : DOMAIN d.lines = 1 .. n
  BY ListHas
<1>2. IsList(s) /\ DOMAIN s = 1 .. n
  <2>1. DOMAIN s = 1 .. n /\ s = [i \in 1 .. n |-> s[i]]
    BY <1>1
  <2> HIDE DEF s
  <2>2. QED
    BY <2>1, ListIs
<1>3. \A i \in DOMAIN s : s[i] = i
  OBVIOUS
<1>4. H \subseteq DOMAIN s
  BY DEF Hits
<1>5. M = IF lines = <<>> /\ Finds(q, d.path) THEN <<0>> ELSE lines
  BY DEF LineMatches, Hits
<1> HIDE DEF s, H
<1>6. Lists(lines, {s[i] : i \in H \cap DOMAIN s})
  BY <1>2, <1>3, KeptOnce
<1>7. {s[i] : i \in H \cap DOMAIN s} = H
  BY <1>3, <1>4
<1> HIDE DEF lines, M
<1>8. CASE lines = <<>> /\ Finds(q, d.path)
  <2>1. H = {}
    BY <1>6, <1>7, <1>8, NoList DEF Lists
  <2>2. M = <<0>>
    BY <1>5, <1>8
  <2>3. DOMAIN M = {1} /\ M[1] = 0 /\ IsList(M)
    <3>1. <<0>> \in Seq({0}) /\ DOMAIN <<0>> = {1} /\ <<0>>[1] = 0
      OBVIOUS
    <3>2. QED
      BY <2>2, <3>1, SeqIsList
  <2>4. I = {} /\ \A i, j \in DOMAIN M : M[i] = M[j] => i = j
    BY <2>3
  <2> HIDE DEF I
  <2>5. Lists(Keep(M, I), {M[i] : i \in I \cap DOMAIN M})
    BY <2>3, <2>4, KeptOnce
  <2>6. {M[i] : i \in I \cap DOMAIN M} = H
    BY <2>1, <2>4
  <2>7. QED
    BY <2>1, <2>5, <2>6 DEF Matched, I, M, H
<1>9. CASE ~(lines = <<>> /\ Finds(q, d.path))
  <2>1. M = lines /\ Lists(M, H)
    BY <1>5, <1>6, <1>7, <1>9
  <2>2. IsList(M) /\ \A i, j \in DOMAIN M : M[i] = M[j] => i = j
    BY <2>1 DEF Lists
  <2>3. \A k \in DOMAIN M : M[k] # 0
    <3>1. 0 \notin H
      BY <1>2, <1>4
    <3>2. QED
      BY <2>1, <3>1 DEF Lists
  <2> HIDE DEF I
  <2>4. Lists(Keep(M, I), {M[i] : i \in I \cap DOMAIN M})
    BY <2>2, KeptOnce
  <2>5. {M[i] : i \in I \cap DOMAIN M} = H
    BY <2>1, <2>3 DEF I, Lists
  <2>6. H # {} => M # <<>>
    BY <2>1, NoList DEF Lists
  <2>7. QED
    BY <2>4, <2>5, <2>6 DEF Matched, I, M, H
<1>10. QED
  BY <1>8, <1>9

MatchRow(d, n) == [path |-> d.path, line |-> n, snippet |-> d.lines[n]]

\* What is reported of one document, as a list and as a set.
RowList(d, branch, q) ==
  IF ~inVersion(d, branch) THEN <<>>
  ELSE [k \in DOMAIN Matched(d, q) |-> MatchRow(d, Matched(d, q)[k])]
RowSet(d, branch, q) ==
  IF branch \in d.branches THEN {MatchRow(d, n) : n \in Hits(d, q)} ELSE {}

LEMMA SearchIs ==
  ASSUME NEW shard, NEW branch, NEW q, NEW w \in Search(shard, branch, q)
  PROVE  \E files \in post(shard, branch, q) :
           w = FlattenSeq([i \in DOMAIN files |-> RowList(files[i], branch, q)])
BY DEF Search, RowList, MatchRow, Matched

LEMMA RowsOfDocument ==
  ASSUME NEW d, NEW branch, NEW q, branch \in d.branches => IsList(d.lines)
  PROVE  Lists(RowList(d, branch, q), RowSet(d, branch, q))
<1>1. CASE branch \notin d.branches
  <2>1. RowList(d, branch, q) = <<>> /\ RowSet(d, branch, q) = {}
    BY <1>1 DEF RowList, RowSet, inVersion
  <2>2. QED
    BY <2>1, NoList DEF Lists
<1>2. CASE branch \in d.branches
  <2> DEFINE M == Matched(d, q)
             R == [k \in DOMAIN M |-> MatchRow(d, M[k])]
  <2>1. Lists(M, Hits(d, q))
    BY <1>2, MatchedIs
  <2>2. RowList(d, branch, q) = R /\ RowSet(d, branch, q) = {MatchRow(d, n) : n \in Hits(d, q)}
    BY <1>2 DEF RowList, RowSet, inVersion
  <2> HIDE DEF M
  <2>3. PICK n \in Nat : DOMAIN M = 1 .. n
    BY <2>1, ListHas DEF Lists
  <2>4. DOMAIN R = DOMAIN M /\ R = [k \in 1 .. n |-> R[k]]
    BY <2>3
  <2>5. \A k \in DOMAIN M : R[k] = MatchRow(d, M[k])
    OBVIOUS
  <2> HIDE DEF R
  <2>6. IsList(R)
    BY <2>4, ListIs
  <2>7. \A i, j : MatchRow(d, i) = MatchRow(d, j) => i = j
    BY DEF MatchRow
  <2> DEFINE H == Hits(d, q)
             X == {MatchRow(d, i) : i \in H}
  <2>a. /\ \A k \in DOMAIN M : M[k] \in H
        /\ \A k, l \in DOMAIN M : M[k] = M[l] => k = l
        /\ \A x \in H : \E k \in DOMAIN M : M[k] = x
    BY <2>1 DEF Lists
  <2> HIDE DEF H
  <2>b. ASSUME NEW k \in DOMAIN R PROVE R[k] \in X
    <3>1. k \in DOMAIN M /\ R[k] = MatchRow(d, M[k]) /\ M[k] \in H
      BY <2>a, <2>4, <2>5
    <3>2. QED
      BY <3>1
  <2>c. ASSUME NEW x \in X PROVE \E k \in DOMAIN R : R[k] = x
    <3>1. PICK i \in H : x = MatchRow(d, i)
      OBVIOUS
    <3>2. PICK k \in DOMAIN M : M[k] = i
      BY <2>a
    <3>3. k \in DOMAIN R /\ R[k] = x
      BY <2>4, <2>5, <3>1, <3>2
    <3>4. QED
      BY <3>3
  <2>e. ASSUME NEW k \in DOMAIN R, NEW l \in DOMAIN R, R[k] = R[l] PROVE k = l
    <3>1. /\ k \in DOMAIN M /\ R[k] = MatchRow(d, M[k])
          /\ l \in DOMAIN M /\ R[l] = MatchRow(d, M[l])
      BY <2>4, <2>5
    <3>2. M[k] = M[l]
      BY <2>7, <2>e, <3>1
    <3>3. QED
      BY <2>a, <3>1, <3>2
  <2> HIDE DEF X
  <2>d. Lists(R, X)
    BY <2>6, <2>b, <2>c, <2>e DEF Lists
  <2>8. Lists(R, {MatchRow(d, i) : i \in Hits(d, q)})
    BY <2>d DEF X, H
  <2>9. QED
    BY <2>2, <2>8
<1>3. QED
  BY <1>1, <1>2

\* The answer to a search has the rows of documents that were found, each once,
\* and those of all if there is room.
LEMMA SearchRows ==
  ASSUME NEW shard, IsFiniteSet(DOMAIN shard), NEW branch, NEW q,
         \A d \in Documents(shard) : branch \in d.branches => IsList(d.lines),
         NEW w \in Search(shard, branch, q)
  PROVE  \E D \in SUBSET Found(shard, branch, q) :
           /\ Lists(w, UNION {RowSet(d, branch, q) : d \in D})
           /\ Cardinality(Found(shard, branch, q)) <= MaxFiles => D = Found(shard, branch, q)
<1>1. PICK files \in post(shard, branch, q) :
        w = FlattenSeq([i \in DOMAIN files |-> RowList(files[i], branch, q)])
  BY SearchIs
<1>2. PICK D \in SUBSET Found(shard, branch, q) :
        /\ Lists(files, D)
        /\ Cardinality(Found(shard, branch, q)) <= MaxFiles => D = Found(shard, branch, q)
  BY PostIs
<1>3. D \subseteq Documents(shard)
  BY DEF Found
<1> DEFINE S == [i \in DOMAIN files |-> RowList(files[i], branch, q)]
           X == [i \in DOMAIN files |-> RowSet(files[i], branch, q)]
<1>4. IsList(files) /\ (\A i \in DOMAIN files : files[i] \in D)
      /\ (\A i, j \in DOMAIN files : files[i] = files[j] => i = j)
      /\ (\A d \in D : \E i \in DOMAIN files : files[i] = d)
  BY <1>2 DEF Lists
<1>5. PICK n \in Nat : DOMAIN files = 1 .. n
  BY <1>4, ListHas
<1>6. DOMAIN S = DOMAIN files /\ S = [i \in 1 .. n |-> S[i]]
  BY <1>5
<1>7. \A i \in DOMAIN files : Lists(S[i], X[i])
  BY <1>3, <1>4, RowsOfDocument
<1>8. ASSUME NEW i \in DOMAIN files, NEW j \in DOMAIN files, X[i] \cap X[j] # {}
      PROVE  i = j
  <2>1. PICK x : x \in RowSet(files[i], branch, q) /\ x \in RowSet(files[j], branch, q)
    BY <1>8
  <2>2. /\ branch \in files[i].branches /\ branch \in files[j].branches
        /\ x.path = files[i].path /\ x.path = files[j].path
    BY <2>1 DEF RowSet, MatchRow
  <2>3. files[i] \in Documents(shard) /\ files[j] \in Documents(shard)
    BY <1>3, <1>4
  <2>4. \A d \in Documents(shard) : branch \in d.branches => shard[branch][d.path] = d.lines
    BY DocumentIs
  <2>a. files[i].lines = files[j].lines
    BY <2>2, <2>3, <2>4
  <2>b. \A d, e \in Documents(shard) : (d.path = e.path /\ d.lines = e.lines) => d = e
    BY DocumentIs
  <2>5. files[i] = files[j]
    BY <2>2, <2>3, <2>a, <2>b
  <2>6. QED
    BY <1>4, <2>5
<1>9. UNION {X[i] : i \in DOMAIN files} = UNION {RowSet(d, branch, q) : d \in D}
  BY <1>4
<1>10. w = FlattenSeq(S)
  BY <1>1
<1> HIDE DEF S, X
<1>11. IsList(S)
  BY <1>5, <1>6, ListIs
<1>a. /\ \A i \in DOMAIN S : Lists(S[i], X[i])
      /\ \A i, j \in DOMAIN S : X[i] \cap X[j] # {} => i = j
  BY <1>6, <1>7, <1>8
<1>12. Lists(FlattenSeq(S), UNION {X[i] : i \in DOMAIN S})
  BY <1>11, <1>a, FlatOnce
<1>13. QED
  BY <1>2, <1>6, <1>9, <1>10, <1>12

\* A search of the version that was indexed is true of it.
LEMMA MatchesAre ==
  ASSUME NEW shard, NEW branch, NEW tree, shard = <<>> \/ IsIndexed(shard, branch, tree),
         NEW q, NEW w \in Search(shard, branch, q)
  PROVE  /\ IsList(w) /\ \A k \in DOMAIN w : DOMAIN w[k] = {"path", "line", "snippet"}
         /\ MatchesTrue(w, tree, q, /\ IsIndexed(shard, branch, tree)
                                    /\ Cardinality(Found(shard, branch, q)) <= MaxFiles)
<1>1. IsFiniteSet(DOMAIN shard)
  BY FS_EmptySet, NoList DEF IsIndexed
<1>2. ASSUME NEW d \in Documents(shard), branch \in d.branches
      PROVE  /\ IsIndexed(shard, branch, tree)
             /\ d.path \in DOMAIN tree /\ IsList(d.lines) /\ DOMAIN d.lines = DOMAIN tree[d.path].lines
             /\ \A n \in DOMAIN d.lines : d.lines[n] = tree[d.path].lines[n].text
  <2>1. branch \in DOMAIN shard /\ d.path \in DOMAIN shard[branch] /\ d.lines = shard[branch][d.path]
    BY <1>2, DocumentIs
  <2>2. IsIndexed(shard, branch, tree)
    BY <2>1, NoList
  <2>3. /\ d.path \in DOMAIN tree /\ tree[d.path].lines \in Seq(ToSet(tree[d.path].lines))
        /\ d.lines = [n \in DOMAIN tree[d.path].lines |-> tree[d.path].lines[n].text]
    BY <2>1, <2>2 DEF IsIndexed
  <2>4. PICK k \in Nat : DOMAIN tree[d.path].lines = 1 .. k
    BY <2>3
  <2>5. /\ DOMAIN d.lines = 1 .. k
        /\ \A n \in DOMAIN d.lines : d.lines[n] = tree[d.path].lines[n].text
    BY <2>3, <2>4
  <2>6. d.lines = [n \in 1 .. k |-> d.lines[n]]
    BY <2>3, <2>4
  <2>7. IsList(d.lines)
    BY <2>6, ListIs
  <2>8. QED
    BY <2>2, <2>3, <2>4, <2>5, <2>7
<1>3. PICK D \in SUBSET Found(shard, branch, q) :
           /\ Lists(w, UNION {RowSet(d, branch, q) : d \in D})
           /\ Cardinality(Found(shard, branch, q)) <= MaxFiles => D = Found(shard, branch, q)
  BY <1>1, <1>2, SearchRows
<1>4. /\ IsList(w)
      /\ \A k \in DOMAIN w : \E d \in D : w[k] \in RowSet(d, branch, q)
      /\ \A k, l \in DOMAIN w : w[k] = w[l] => k = l
      /\ \A d \in D : \A x \in RowSet(d, branch, q) : \E k \in DOMAIN w : w[k] = x
  BY <1>3 DEF Lists
<1>5. ASSUME NEW k \in DOMAIN w
      PROVE  /\ w[k].path \in DOMAIN tree /\ w[k].line \in DOMAIN tree[w[k].path].lines
             /\ w[k].snippet = tree[w[k].path].lines[w[k].line].text
             /\ Finds(q, w[k].snippet)
             /\ w[k] = [path |-> w[k].path, line |-> w[k].line, snippet |-> w[k].snippet]
  <2>1. PICK d \in D : w[k] \in RowSet(d, branch, q)
    BY <1>4
  <2>2. branch \in d.branches /\ \E n \in Hits(d, q) : w[k] = MatchRow(d, n)
    BY <2>1 DEF RowSet
  <2>3. PICK n \in Hits(d, q) : w[k] = MatchRow(d, n)
    BY <2>2
  <2>4. w[k].path = d.path /\ w[k].line = n /\ w[k].snippet = d.lines[n]
    BY <2>3 DEF MatchRow
  <2>5. n \in DOMAIN d.lines /\ Finds(q, d.lines[n])
    BY DEF Hits
  <2>6. d \in Documents(shard)
    BY DEF Found
  <2>7. QED
    BY <1>2, <2>2, <2>3, <2>4, <2>5, <2>6 DEF MatchRow
<1>6. ASSUME NEW i \in DOMAIN w, NEW j \in DOMAIN w, w[i].path = w[j].path, w[i].line = w[j].line
      PROVE  i = j
  <2>1. w[i].snippet = w[j].snippet
    BY <1>5, <1>6
  <2>2. w[i] = w[j]
    BY <1>5, <1>6, <2>1
  <2>3. QED
    BY <1>4, <2>2
<1>7. ASSUME IsIndexed(shard, branch, tree), Cardinality(Found(shard, branch, q)) <= MaxFiles,
             NEW p \in DOMAIN tree, NEW n \in DOMAIN tree[p].lines, Finds(q, tree[p].lines[n].text)
      PROVE  \E k \in DOMAIN w : w[k].path = p /\ w[k].line = n
  <2>1. branch \in DOMAIN shard /\ branch \in DOMAIN Selects /\ p \in ToSet(PathOrder) /\ p \in DOMAIN shard[branch]
    BY <1>7 DEF IsIndexed
  <2>2. PICK d \in Documents(shard) : d.path = p /\ branch \in d.branches
    BY <2>1, DocumentIs
  <2>3. n \in Hits(d, q)
    BY <1>2, <1>7, <2>2 DEF Hits
  <2>4. LineMatches(d, q) # <<>>
    BY <1>2, <2>2, <2>3, MatchedIs
  <2>5. branch \in Selects[branch]
    BY <2>1, CodeSearchAssumption
  <2>6. d \in Found(shard, branch, q)
    BY <2>2, <2>4, <2>5 DEF Found
  <2>7. MatchRow(d, n) \in RowSet(d, branch, q) /\ d \in D
    BY <1>3, <1>7, <2>2, <2>3, <2>6 DEF RowSet
  <2>8. PICK k \in DOMAIN w : w[k] = MatchRow(d, n)
    BY <1>4, <2>7
  <2>9. QED
    BY <2>2, <2>8 DEF MatchRow
<1>8. ASSUME NEW k \in DOMAIN w PROVE DOMAIN w[k] = {"path", "line", "snippet"}
  BY <1>5
<1>9. QED
  BY <1>4, <1>5, <1>6, <1>7, <1>8 DEF MatchesTrue
-------------------------------------------------------------------------------
(* What is made of the answers of the members                                  *)

\* A row that is cited is the row, under its repository if there are several.
LEMMA RowCited ==
  ASSUME NEW members, NEW n \in Nat, n = Len(members), NEW i, NEW c,
         DOMAIN c = {"path", "line", "snippet"}, NEW u, u = Cite(members, i, c)
  PROVE  /\ u.path = c.path /\ u.line = c.line /\ u.snippet = c.snippet
         /\ u.repository = IF n = 1 THEN None ELSE members[i].repository
BY DEF Cite

\* What is said of a version is said of a list with the same lines.
LEMMA SameMatches ==
  ASSUME NEW v, NEW w, DOMAIN v = DOMAIN w,
         \A j \in DOMAIN w : v[j].path = w[j].path /\ v[j].line = w[j].line /\ v[j].snippet = w[j].snippet,
         NEW tree, NEW q, NEW all, MatchesTrue(w, tree, q, all)
  PROVE  MatchesTrue(v, tree, q, all)
BY DEF MatchesTrue

\* Each search of a member: the i-th is found[i].
SearchesOK(ms, found, trees, q, whole) ==
  /\ IsList(ms) /\ DOMAIN found = DOMAIN ms
  /\ \A i \in DOMAIN ms :
       /\ IsList(found[i]) /\ \A j \in DOMAIN found[i] : DOMAIN found[i][j] = {"path", "line", "snippet"}
       /\ MatchesTrue(found[i], trees[ms[i]], q, ms[i] \in whole)

EvidenceTrue(members, trees, q, whole, evidence) ==
  /\ \A i \in DOMAIN evidence : \E m \in members :
       {n \in members : i \in About(evidence, members, n)} = {m}
  /\ \A m \in members :
       MatchesTrue(Keep(evidence, About(evidence, members, m)), trees[m], q, m \in whole)

LEMMA EvidenceOfAll ==
  ASSUME NEW ms, Distinct(ms), NEW found, NEW trees, NEW q, NEW whole,
         SearchesOK(ms, found, trees, q, whole)
  PROVE  EvidenceTrue(ToSet(ms), trees, q, whole, wire(ms, found))
<1> DEFINE members == ToSet(ms)
           V == [i \in DOMAIN ms |-> [j \in DOMAIN found[i] |-> Cite(ms, i, found[i][j])]]
           F == FlattenSeq(V)
           Own(m) == {x \in {F[p] : p \in DOMAIN F} : x.repository = m.repository \/ members = {m}}
<1>1. wire(ms, found) = F
  BY WireIs
<1>2. PICK n \in Nat : n = Len(ms) /\ DOMAIN ms = 1 .. n
  BY ListHas DEF SearchesOK
<1>3. /\ \A i \in DOMAIN ms : /\ IsList(found[i])
                              /\ \A j \in DOMAIN found[i] : DOMAIN found[i][j] = {"path", "line", "snippet"}
                              /\ MatchesTrue(found[i], trees[ms[i]], q, ms[i] \in whole)
  BY DEF SearchesOK
<1>4. DOMAIN V = DOMAIN ms /\ V = [i \in 1 .. n |-> V[i]]
  BY <1>2
<1>5. \A i \in DOMAIN ms : V[i] = [j \in DOMAIN found[i] |-> Cite(ms, i, found[i][j])]
  OBVIOUS
<1> HIDE DEF V
<1>6. IsList(V)
  BY <1>4, ListIs
<1>7. ASSUME NEW i \in DOMAIN ms
      PROVE  /\ IsList(V[i]) /\ DOMAIN V[i] = DOMAIN found[i]
             /\ \A j \in DOMAIN found[i] : V[i][j] = Cite(ms, i, found[i][j])
  <2>1. PICK k \in Nat : DOMAIN found[i] = 1 .. k
    BY <1>3, ListHas
  <2>2. DOMAIN V[i] = 1 .. k /\ V[i] = [j \in 1 .. k |-> V[i][j]]
    BY <1>5, <2>1
  <2>3. IsList(V[i])
    BY <2>2, ListIs
  <2>4. QED
    BY <1>5, <2>1, <2>2, <2>3
<1>8. ASSUME NEW i \in DOMAIN ms, NEW j \in DOMAIN V[i]
      PROVE  /\ V[i][j].path = found[i][j].path /\ V[i][j].line = found[i][j].line
             /\ V[i][j].snippet = found[i][j].snippet
             /\ V[i][j].repository = IF n = 1 THEN None ELSE ms[i].repository
  <2>1. DOMAIN found[i][j] = {"path", "line", "snippet"} /\ V[i][j] = Cite(ms, i, found[i][j])
    BY <1>3, <1>7
  <2>2. PICK c : c = found[i][j]
    OBVIOUS
  <2>3. PICK u : u = V[i][j]
    OBVIOUS
  <2>4. DOMAIN c = {"path", "line", "snippet"} /\ u = Cite(ms, i, c) /\ n = Len(ms)
    BY <1>2, <2>1, <2>2, <2>3
  <2>5. /\ u.path = c.path /\ u.line = c.line /\ u.snippet = c.snippet
        /\ u.repository = IF n = 1 THEN None ELSE ms[i].repository
    BY <2>4, RowCited
  <2>6. QED
    BY <2>2, <2>3, <2>5
<1>9. \E at : PlacesOK(V, F, at)
  BY <1>4, <1>6, <1>7, Places
<1> HIDE DEF F
<1>10. PICK at : PlacesOK(V, F, at)
  BY <1>9 DEF F
<1>a. \A i \in DOMAIN V : \A j \in DOMAIN V[i] : at[i][j] \in DOMAIN F /\ F[at[i][j]] = V[i][j]
  BY <1>10 DEF PlacesOK
<1>11. members = {ms[i] : i \in DOMAIN ms}
  BY DEF ToSet
<1> HIDE DEF members
<1>12. ASSUME NEW i \in DOMAIN ms, NEW j \in DOMAIN V[i], NEW k \in DOMAIN ms
       PROVE  (V[i][j].repository = ms[k].repository \/ members = {ms[k]}) <=> i = k
  <2>1. CASE n = 1
    <3>1. i = 1 /\ k = 1 /\ DOMAIN ms = {1}
      BY <1>2, <2>1
    <3>2. members = {ms[k]}
      BY <1>11, <3>1
    <3>3. QED
      BY <3>1, <3>2
  <2>2. CASE n # 1
    <3>1. V[i][j].repository = ms[i].repository
      BY <1>8, <2>2
    <3>2. 1 \in DOMAIN ms /\ 2 \in DOMAIN ms
      BY <1>2, <2>2
    <3>3. ms[1] # ms[2]
      BY <3>2 DEF Distinct
    <3>4. members # {ms[k]}
      BY <1>11, <3>2, <3>3
    <3>5. QED
      BY <3>1, <3>4 DEF Distinct
  <2>3. QED
    BY <2>1, <2>2
<1>13. ASSUME NEW m PROVE About(F, members, m) = PlacesOf(F, Own(m))
  BY DEF About, PlacesOf
<1>14. ASSUME NEW i \in DOMAIN ms, NEW j \in DOMAIN V[i], NEW k \in DOMAIN ms
       PROVE  V[i][j] \in Own(ms[k]) <=> i = k
  <2>a. PICK x : x = at[i][j]
    OBVIOUS
  <2>b. x \in DOMAIN F /\ F[x] = V[i][j]
    BY <1>4, <1>a, <2>a
  <2>1. V[i][j] \in {F[p] : p \in DOMAIN F}
    BY <2>b
  <2>2. V[i][j] \in Own(ms[k]) <=> (V[i][j].repository = ms[k].repository \/ members = {ms[k]})
    BY <2>1
  <2>3. QED
    BY <1>12, <2>2
<1>15. ASSUME NEW p \in DOMAIN F
       PROVE  \E m \in members : {x \in members : p \in About(F, members, x)} = {m}
  <2>1. PICK i \in DOMAIN ms : \E j \in DOMAIN V[i] : F[p] = V[i][j]
    BY <1>4, <1>10 DEF PlacesOK
  <2>2. PICK j \in DOMAIN V[i] : F[p] = V[i][j]
    BY <2>1
  <2>3. \A k \in DOMAIN ms : p \in About(F, members, ms[k]) <=> i = k
    BY <1>12, <2>2 DEF About
  <2>4. {x \in members : p \in About(F, members, x)} = {ms[i]}
    BY <1>11, <2>3
  <2>5. QED
    BY <1>11, <2>4
<1>16. ASSUME NEW k \in DOMAIN ms
       PROVE  MatchesTrue(Keep(F, About(F, members, ms[k])), trees[ms[k]], q, ms[k] \in whole)
  <2> DEFINE part == Keep(F, About(F, members, ms[k]))
             G == Own(ms[k])
  <2>1. part = Keep(F, PlacesOf(F, G)) /\ F = FlattenSeq(V)
    BY <1>13 DEF F
  <2>2. \A i \in DOMAIN V : \A j \in DOMAIN V[i] : V[i][j] \in G <=> i = k
    BY <1>4, <1>14
  <2>3. k \in DOMAIN V /\ \A i \in DOMAIN V : IsList(V[i])
    BY <1>4, <1>7
  <2> HIDE DEF part, G
  <2>4. IsList(part) /\ Len(part) = Len(V[k]) /\ \A j \in DOMAIN V[k] : part[j] = V[k][j]
    BY <1>6, <2>1, <2>2, <2>3, OneList
  <2>5. DOMAIN part = DOMAIN V[k]
    BY <2>3, <2>4, ListHas
  <2>6. \A j \in DOMAIN found[k] : /\ part[j].path = found[k][j].path
                                   /\ part[j].line = found[k][j].line
                                   /\ part[j].snippet = found[k][j].snippet
    BY <1>7, <1>8, <2>4
  <2>7. MatchesTrue(part, trees[ms[k]], q, ms[k] \in whole)
    BY <1>3, <1>7, <2>5, <2>6, SameMatches
  <2>8. QED
    BY <2>7 DEF part
<1>17. EvidenceTrue(members, trees, q, whole, F)
  BY <1>11, <1>15, <1>16 DEF EvidenceTrue
<1>18. QED
  BY <1>1, <1>17 DEF members
-------------------------------------------------------------------------------
(* Parentheses                                                                 *)

Scanned == [depth |-> 0, escaped |-> FALSE, early |-> FALSE]

\* f[i] is what scan makes of the first i characters of q.
IsScan(f, q, n) == f = [i \in 0 .. n |-> IF i = 0 THEN Scanned ELSE scan(f[i - 1], q[i])]

\* The function that balanced chooses exists.
LEMMA ScanExists ==
  ASSUME NEW q, NEW n \in Nat
  PROVE  \E f : IsScan(f, q, n)
<1> DEFINE N == {k \in Nat : \E f : IsScan(f, q, k)}
<1>1. 0 \in N
  <2>1. IsScan([i \in 0 .. 0 |-> Scanned], q, 0)
    BY DEF IsScan
  <2>2. QED
    BY <2>1
<1>2. ASSUME NEW k \in Nat, k \in N
      PROVE  k + 1 \in N
  <2>1. PICK f : IsScan(f, q, k)
    BY <1>2
  <2>2. \A i \in 0 .. k : f[i] = IF i = 0 THEN Scanned ELSE scan(f[i - 1], q[i])
    <3> DEFINE h == [i \in 0 .. k |-> IF i = 0 THEN Scanned ELSE scan(f[i - 1], q[i])]
    <3>1. f = h
      BY <2>1 DEF IsScan
    <3>2. \A i \in 0 .. k : h[i] = IF i = 0 THEN Scanned ELSE scan(f[i - 1], q[i])
      OBVIOUS
    <3> HIDE DEF h
    <3>3. QED
      BY <3>1, <3>2
  <2> DEFINE h == [i \in 0 .. k + 1 |-> IF i = k + 1 THEN scan(f[k], q[k + 1]) ELSE f[i]]
  <2>3. ASSUME NEW i \in 0 .. k + 1
        PROVE  h[i] = IF i = 0 THEN Scanned ELSE scan(h[i - 1], q[i])
    <3>1. CASE i = k + 1
      <4>1. i # 0 /\ i - 1 = k /\ h[k] = f[k] /\ h[k + 1] = scan(f[k], q[k + 1])
        BY <3>1
      <4>2. QED
        BY <3>1, <4>1
    <3>2. CASE i \in 0 .. k
      <4>1. h[i] = f[i] /\ (i # 0 => h[i - 1] = f[i - 1])
        BY <3>2
      <4>2. QED
        BY <3>2, <4>1, <2>2
    <3>3. QED
      BY <3>1, <3>2
  <2>4. h = [i \in 0 .. k + 1 |-> h[i]]
    OBVIOUS
  <2> HIDE DEF h
  <2>5. h = [i \in 0 .. k + 1 |-> IF i = 0 THEN Scanned ELSE scan(h[i - 1], q[i])]
    BY <2>3, <2>4
  <2>6. IsScan(h, q, k + 1)
    BY <2>5 DEF IsScan
  <2>7. QED
    BY <2>6
<1> HIDE DEF N
<1>3. Nat \subseteq N
  BY <1>1, <1>2, Inductive
<1>4. QED
  BY <1>3 DEF N

\* What scan makes of a query, character by character.
LEMMA BalancedIs ==
  ASSUME NEW q, NEW n \in Nat, n = Len(q)
  PROVE  \E f : /\ f[0] = Scanned /\ \A i \in 1 .. n : f[i] = scan(f[i - 1], q[i])
                /\ balanced(q) <=> (f[n].depth = 0 /\ ~f[n].early)
<1> DEFINE f == CHOOSE g : IsScan(g, q, n)
<1>1. IsScan(f, q, n)
  BY ScanExists
<1>2. balanced(q) <=> (f[n].depth = 0 /\ ~f[n].early)
  BY DEF balanced, IsScan, Scanned
<1> HIDE DEF f
<1> DEFINE h == [i \in 0 .. n |-> IF i = 0 THEN Scanned ELSE scan(f[i - 1], q[i])]
<1>3. f = h
  BY <1>1 DEF IsScan
<1>4. h[0] = Scanned /\ \A i \in 1 .. n : h[i] = scan(f[i - 1], q[i])
  OBVIOUS
<1> HIDE DEF h
<1>5. QED
  BY <1>2, <1>3, <1>4

CountOf(q, n, x) == Cardinality({i \in 1 .. n : q[i] = x})

LEMMA CountNext ==
  ASSUME NEW q, NEW n \in Nat, NEW x
  PROVE  /\ CountOf(q, 0, x) = 0 /\ CountOf(q, n, x) \in Nat
         /\ CountOf(q, n + 1, x) = CountOf(q, n, x) + IF q[n + 1] = x THEN 1 ELSE 0
<1> DEFINE S(k) == {i \in 1 .. k : q[i] = x}
<1>1. S(0) = {}
  OBVIOUS
<1>2. IsFiniteSet(S(n)) /\ Cardinality(S(n)) \in Nat
  <2>1. IsFiniteSet(1 .. n)
    BY FS_Interval
  <2>2. QED
    BY <2>1, FS_Subset, FS_CardinalityType
<1>3. n + 1 \notin S(n)
  OBVIOUS
<1>4. S(n + 1) = IF q[n + 1] = x THEN S(n) \cup {n + 1} ELSE S(n)
  OBVIOUS
<1>5. CountOf(q, 0, x) = 0 /\ CountOf(q, n, x) \in Nat
  BY <1>1, <1>2, FS_EmptySet DEF CountOf
<1> HIDE DEF S
<1>6. Cardinality(S(n) \cup {n + 1}) = Cardinality(S(n)) + 1
  BY <1>2, <1>3, FS_AddElement
<1>7. Cardinality(S(n + 1)) = Cardinality(S(n)) + IF q[n + 1] = x THEN 1 ELSE 0
  BY <1>2, <1>4, <1>6
<1>8. QED
  BY <1>5, <1>7 DEF CountOf, S

LEMMA DepthNext ==
  ASSUME NEW q, NEW n \in Nat
  PROVE  /\ Depth(q, 0) = 0 /\ Depth(q, n) \in Int
         /\ q[n + 1] = "(" => Depth(q, n + 1) = Depth(q, n) + 1
         /\ q[n + 1] = ")" => Depth(q, n + 1) = Depth(q, n) - 1
         /\ q[n + 1] \notin {"(", ")"} => Depth(q, n + 1) = Depth(q, n)
<1>1. \A k \in Nat : Depth(q, k) = CountOf(q, k, "(") - CountOf(q, k, ")")
  BY DEF Depth, CountOf
<1>2. /\ CountOf(q, 0, "(") = 0 /\ CountOf(q, n, "(") \in Nat
      /\ CountOf(q, n + 1, "(") = CountOf(q, n, "(") + IF q[n + 1] = "(" THEN 1 ELSE 0
  BY CountNext
<1>3. /\ CountOf(q, 0, ")") = 0 /\ CountOf(q, n, ")") \in Nat
      /\ CountOf(q, n + 1, ")") = CountOf(q, n, ")") + IF q[n + 1] = ")" THEN 1 ELSE 0
  BY CountNext
<1>4. Depth(q, 0) = 0 /\ Depth(q, n) \in Int
  BY <1>1, <1>2, <1>3
<1>5. Depth(q, n + 1) = CountOf(q, n + 1, "(") - CountOf(q, n + 1, ")")
      /\ Depth(q, n) = CountOf(q, n, "(") - CountOf(q, n, ")")
  BY <1>1
<1>6. QED
  BY <1>2, <1>3, <1>4, <1>5

\* d parentheses are open after no backslash, and one was closed early or not.
OpenAt(d, e) == [depth |-> d, escaped |-> FALSE, early |-> e]

LEMMA ScanIs ==
  ASSUME NEW d \in Int, NEW e \in BOOLEAN
  PROVE  /\ scan(OpenAt(d, e), "(") = OpenAt(d + 1, e)
         /\ scan(OpenAt(d, e), ")") = OpenAt(d - 1, e \/ d = 0)
         /\ \A x : x \notin {"\\", "(", ")"} => scan(OpenAt(d, e), x) = OpenAt(d, e)
<1>1. PICK s : s = OpenAt(d, e)
  OBVIOUS
<1>2. s = [depth |-> d, escaped |-> FALSE, early |-> e]
  BY <1>1 DEF OpenAt
<1>3. s.escaped = FALSE /\ s.depth = d /\ s.early = e
  BY <1>2
<1>4. scan(s, "(") = [s EXCEPT !.depth = @ + 1]
  BY <1>3 DEF scan
<1>5. scan(s, ")") = [s EXCEPT !.depth = @ - 1, !.early = @ \/ s.depth = 0]
  BY <1>3 DEF scan
<1>6. \A x : x \notin {"\\", "(", ")"} => scan(s, x) = s
  BY <1>3 DEF scan
<1>7. scan(s, "(") = [depth |-> d + 1, escaped |-> FALSE, early |-> e]
  BY <1>2, <1>4
<1>8. scan(s, ")") = [depth |-> d - 1, escaped |-> FALSE, early |-> e \/ d = 0]
  BY <1>2, <1>5
<1>9. QED
  BY <1>1, <1>6, <1>7, <1>8 DEF OpenAt

\* A query without a backslash is let through if it is closed in itself.
LEMMA BalancedClosed ==
  ASSUME NEW q, NEW n \in Nat, n = Len(q), DOMAIN q = 1 .. n, Plainly(q)
  PROVE  balanced(q) <=> Closed(q)
<1>1. PICK f : /\ f[0] = Scanned /\ \A i \in 1 .. n : f[i] = scan(f[i - 1], q[i])
               /\ balanced(q) <=> (f[n].depth = 0 /\ ~f[n].early)
  BY BalancedIs
<1> DEFINE Early(k) == \E j \in 1 .. k : Depth(q, j) < 0
           Is(k) == \E e \in BOOLEAN : (e <=> Early(k)) /\ f[k] = OpenAt(Depth(q, k), e)
           N == {k \in Nat : k <= n => Is(k)}
<1>2. 0 \in N
  <2>1. ~Early(0) /\ Depth(q, 0) = 0
    BY DepthNext
  <2>2. OpenAt(Depth(q, 0), FALSE) = Scanned
    BY <2>1 DEF Scanned, OpenAt
  <2>3. f[0] = OpenAt(Depth(q, 0), FALSE) /\ (FALSE <=> Early(0))
    BY <1>1, <2>1, <2>2
  <2>4. Is(0)
    BY <2>3
  <2>5. QED
    BY <2>4
<1>3. ASSUME NEW k \in Nat, k \in N
      PROVE  k + 1 \in N
  <2> SUFFICES ASSUME k + 1 <= n PROVE Is(k + 1)
    OBVIOUS
  <2> DEFINE x == q[k + 1]
  <2>1. Is(k) /\ k + 1 \in 1 .. n /\ (k + 1) - 1 = k
    BY <1>3
  <2>a. PICK e \in BOOLEAN : (e <=> Early(k)) /\ f[k] = OpenAt(Depth(q, k), e)
    BY <2>1
  <2>2. x # "\\"
    BY <2>1 DEF Plainly, ToSet
  <2>3. /\ Depth(q, k) \in Int
        /\ x = "(" => Depth(q, k + 1) = Depth(q, k) + 1
        /\ x = ")" => Depth(q, k + 1) = Depth(q, k) - 1
        /\ x \notin {"(", ")"} => Depth(q, k + 1) = Depth(q, k)
    BY DepthNext
  <2>4. Early(k + 1) <=> Early(k) \/ Depth(q, k + 1) < 0
    OBVIOUS
  <2>5. Depth(q, k) < 0 => Early(k)
    <3>1. Depth(q, 0) = 0
      BY DepthNext
    <3>2. Depth(q, k) < 0 => k \in 1 .. k
      BY <3>1
    <3>3. QED
      BY <3>2
  <2>6. PICK d \in Int : d = Depth(q, k)
    BY <2>3
  <2>7. (Early(k + 1) <=> e \/ Depth(q, k + 1) < 0) /\ (d < 0 => e)
    BY <2>4, <2>5, <2>6, <2>a
  <2> HIDE DEF Early, x
  <2>10. f[k + 1] = scan(OpenAt(d, e), x)
    BY <1>1, <2>1, <2>6, <2>a DEF x
  <2>11. /\ scan(OpenAt(d, e), "(") = OpenAt(d + 1, e)
         /\ scan(OpenAt(d, e), ")") = OpenAt(d - 1, e \/ d = 0)
         /\ \A y : y \notin {"\\", "(", ")"} => scan(OpenAt(d, e), y) = OpenAt(d, e)
    BY ScanIs
  <2>12. CASE x = "("
    <3>1. Depth(q, k + 1) = d + 1 /\ (e <=> Early(k + 1))
      BY <2>3, <2>6, <2>7, <2>12
    <3>2. f[k + 1] = OpenAt(Depth(q, k + 1), e)
      BY <2>10, <2>11, <2>12, <3>1
    <3>3. QED
      BY <3>1, <3>2
  <2>13. CASE x = ")"
    <3>1. PICK l \in BOOLEAN : l = (e \/ d = 0)
      OBVIOUS
    <3>a. Depth(q, k + 1) = d - 1
      BY <2>3, <2>6, <2>13
    <3>b. Early(k + 1) <=> e \/ d = 0
      BY <2>7, <3>a
    <3>c. l <=> e \/ d = 0
      BY <3>1
    <3>2. Depth(q, k + 1) = d - 1 /\ (l <=> Early(k + 1))
      BY <3>a, <3>b, <3>c
    <3>3. f[k + 1] = OpenAt(Depth(q, k + 1), l)
      BY <2>10, <2>11, <2>13, <3>1, <3>2
    <3>4. QED
      BY <3>2, <3>3
  <2>14. CASE x \notin {"(", ")"}
    <3>1. Depth(q, k + 1) = d /\ (e <=> Early(k + 1))
      BY <2>3, <2>6, <2>7, <2>14
    <3>2. f[k + 1] = OpenAt(Depth(q, k + 1), e)
      BY <2>2, <2>10, <2>11, <2>14, <3>1
    <3>3. QED
      BY <3>1, <3>2
  <2>15. QED
    BY <2>12, <2>13, <2>14
<1> HIDE DEF N
<1>4. n \in N
  BY <1>2, <1>3, Inductive
<1>5. PICK e \in BOOLEAN : (e <=> Early(n)) /\ f[n] = OpenAt(Depth(q, n), e)
  BY <1>4 DEF N
<1>6. balanced(q) <=> (Depth(q, n) = 0 /\ ~Early(n))
  BY <1>1, <1>5 DEF OpenAt
<1>7. ~Early(n) <=> \A j \in 1 .. n : Depth(q, j) >= 0
  <2>1. \A j \in 1 .. n : Depth(q, j) \in Int
    BY DepthNext
  <2>2. QED
    BY <2>1
<1> HIDE DEF Early
<1>8. QED
  BY <1>6, <1>7 DEF Closed
-------------------------------------------------------------------------------
(* Searches                                                                    *)

\* The members that list_contexts lists for the request, those it asks in, what
\* their versions are, and those of which nothing may be left out.
Listed(r) == ToSet(resolve(r.ids[1]))
AskedIn(r) == IF r.repository = None THEN Listed(r) ELSE {m \in Listed(r) : m.repository = r.repository}
Trees(r)  == [m \in AskedIn(r) |-> Tree(m)]
Whole(r)  == {m \in AskedIn(r) : m.repository \in DOMAIN world.shard
                                /\ Cardinality(Found(Shard(m), m.branch, r.query)) <= MaxFiles}

LEMMA SelectedAre ==
  ASSUME WorldOK, NEW r \in Requests[world.kind], 1 \in 1 .. Sides(r.tool)
  PROVE  /\ ToSet(Members(r)) = AskedIn(r)
         /\ \A m \in AskedIn(r) : m.repository \in DOMAIN world.shard => IsIndexed(Shard(m), m.branch, Tree(m))
<1> DEFINE id == r.ids[1]
           all == resolve(id)
           named == {i \in DOMAIN all : all[i].repository = r.repository}
<1>1. id \in DOMAIN world.scope
  BY DEF WorldOK
<1>2. /\ world.scope[id] \in Seq(ToSet(world.scope[id]))
      /\ \A i, j \in DOMAIN all : all[i].repository = all[j].repository => i = j
      /\ \A i \in DOMAIN all :
           all[i].repository \in DOMAIN world.shard => IsIndexed(Shard(all[i]), all[i].branch, Tree(all[i]))
  BY <1>1 DEF WorldOK
<1>3. DOMAIN all \subseteq Nat
  <2>1. all = <<>> \/ all = world.scope[id]
    BY DEF resolve
  <2> HIDE DEF all
  <2>2. IsList(all)
    BY <2>1, <1>2, SeqIsList, NoList
  <2>3. QED
    BY <2>2, ListHas
<1>4. Members(r) = IF r.repository = None THEN all
                   ELSE IF named = {} THEN <<>> ELSE <<all[Min(named)]>>
  BY DEF Members, selectMembers
<1>5. Listed(r) = {all[i] : i \in DOMAIN all}
  BY DEF Listed, ToSet
<1> HIDE DEF all
<1>6. AskedIn(r) \subseteq Listed(r)
  BY DEF AskedIn
<1>7. ASSUME r.repository = None PROVE ToSet(Members(r)) = AskedIn(r)
  BY <1>4, <1>7 DEF AskedIn, Listed, all
<1>8. ASSUME r.repository # None, named = {} PROVE ToSet(Members(r)) = AskedIn(r)
  <2>1. Members(r) = <<>> /\ ToSet(<<>>) = {}
    BY <1>4, <1>8, NoList DEF ToSet
  <2>2. AskedIn(r) = {}
    BY <1>5, <1>8 DEF AskedIn
  <2>3. QED
    BY <2>1, <2>2
<1>9. ASSUME r.repository # None, named # {} PROVE ToSet(Members(r)) = AskedIn(r)
  <2>1. Min(named) \in named
    BY <1>3, <1>9, MinIs
  <2>2. PICK i : i = Min(named)
    OBVIOUS
  <2>3. Members(r) = <<all[i]>> /\ i \in DOMAIN all /\ all[i].repository = r.repository
    BY <1>4, <1>9, <2>1, <2>2
  <2>4. \A j \in DOMAIN all : all[j].repository = r.repository => j = i
    BY <1>2, <2>3
  <2>5. AskedIn(r) = {all[i]}
    BY <1>5, <1>9, <2>3, <2>4 DEF AskedIn
  <2>6. \A x : ToSet(<<x>>) = {x}
    <3>1. \A x : DOMAIN <<x>> = {1} /\ <<x>>[1] = x
      OBVIOUS
    <3>2. QED
      BY <3>1 DEF ToSet
  <2>7. QED
    BY <2>3, <2>5, <2>6
<1>10. \A m \in AskedIn(r) :
         m.repository \in DOMAIN world.shard => IsIndexed(Shard(m), m.branch, Tree(m))
  BY <1>2, <1>5, <1>6
<1>11. QED
  BY <1>7, <1>8, <1>9, <1>10

SearchTold(members, trees, whole, q, a) ==
  /\ a.verdict = "ok" =>
       /\ members # {}
       /\ Plainly(q) => Closed(q)
       /\ EvidenceTrue(members, trees, q, whole, a.evidence)
  /\ a.verdict # "ok" => members = {} \/ q = <<>> \/ ~(Plainly(q) /\ Closed(q))

\* What SearchTrue says, in parts.
LEMMA SearchTrueIs ==
  SearchTrue <=> ((ask # None /\ ask.tool = "search_code") =>
                    SearchTold(AskedIn(ask), Trees(ask), Whole(ask), ask.query, answer))
<1>1. \A m \in AskedIn(ask) :
        /\ Trees(ask)[m] = Tree(m)
        /\ m \in Whole(ask) <=> (m.repository \in DOMAIN world.shard
                                   /\ Cardinality(Found(Shard(m), m.branch, ask.query)) <= MaxFiles)
  BY DEF Trees, Whole
<1> DEFINE whole(m) == m.repository \in DOMAIN world.shard
                       /\ Cardinality(Found(Shard(m), m.branch, ask.query)) <= MaxFiles
           part(m) == Keep(answer.evidence, About(answer.evidence, AskedIn(ask), m))
<1>2. \A m \in AskedIn(ask) :
        MatchesTrue(part(m), Tree(m), ask.query, whole(m))
          <=> MatchesTrue(part(m), Trees(ask)[m], ask.query, m \in Whole(ask))
  <2> HIDE DEF part
  <2>1. QED
    BY <1>1 DEF MatchesTrue
<1>3. SearchTrue <=>
        ((ask # None /\ ask.tool = "search_code") =>
           /\ answer.verdict = "ok" =>
                /\ AskedIn(ask) # {}
                /\ Plainly(ask.query) => Closed(ask.query)
                /\ \A i \in DOMAIN answer.evidence : \E m \in AskedIn(ask) :
                     {n \in AskedIn(ask) : i \in About(answer.evidence, AskedIn(ask), n)} = {m}
                /\ \A m \in AskedIn(ask) : MatchesTrue(part(m), Tree(m), ask.query, whole(m))
           /\ answer.verdict # "ok" =>
                \/ AskedIn(ask) = {} \/ ask.query = <<>>
                \/ ~(Plainly(ask.query) /\ Closed(ask.query)))
  BY DEF SearchTrue, AskedIn, Listed
<1> HIDE DEF part, whole
<1>4. EvidenceTrue(AskedIn(ask), Trees(ask), ask.query, Whole(ask), answer.evidence)
        <=> /\ \A i \in DOMAIN answer.evidence : \E m \in AskedIn(ask) :
                 {n \in AskedIn(ask) : i \in About(answer.evidence, AskedIn(ask), n)} = {m}
            /\ \A m \in AskedIn(ask) : MatchesTrue(part(m), Trees(ask)[m], ask.query, m \in Whole(ask))
  BY DEF EvidenceTrue, part
<1>5. QED
  BY <1>2, <1>3, <1>4 DEF SearchTold

LEMMA SearchCodeIs ==
  ASSUME WorldOK, NEW r \in Requests[world.kind], r.tool = "search_code", SearchCode(r)
  PROVE  SearchTold(AskedIn(r), Trees(r), Whole(r), r.query, answer')
<1> DEFINE ms == Members(r)
           q == r.query
<1>1. 1 \in 1 .. Sides(r.tool)
  BY DEF Sides
<1>2. MembersOK(ms)
  BY <1>1, Selected DEF Members
<1>3. /\ ToSet(ms) = AskedIn(r)
      /\ \A m \in AskedIn(r) : m.repository \in DOMAIN world.shard => IsIndexed(Shard(m), m.branch, Tree(m))
  BY <1>1, SelectedAre
<1>4. IsList(ms) /\ Distinct(ms)
  BY <1>2 DEF MembersOK
<1>5. q \in Seq(ToSet(q))
  BY DEF WorldOK
<1>6. Plainly(q) => (balanced(q) <=> Closed(q))
  <2>1. PICK n \in Nat : n = Len(q) /\ DOMAIN q = 1 .. n
    BY <1>5
  <2>2. QED
    BY <2>1, BalancedClosed
<1>7. CASE ms = <<>> \/ ~scopedQuery(q)
  <2>1. answer' = [verdict |-> "INVALID_ARGUMENT"]
    BY <1>7 DEF SearchCode, Refuse, Members
  <2>2. answer'.verdict # "ok"
    BY <2>1
  <2>3. ms = <<>> => AskedIn(r) = {}
    BY <1>3, NoList DEF ToSet
  <2>4. AskedIn(r) = {} \/ q = <<>> \/ ~(Plainly(q) /\ Closed(q))
    BY <1>6, <1>7, <2>3 DEF scopedQuery
  <2>5. QED
    BY <2>2, <2>4 DEF SearchTold
<1>8. CASE ~(ms = <<>> \/ ~scopedQuery(q))
  <2>1. \E found \in [DOMAIN ms -> UNION {Search(Shard(m), m.branch, q) : m \in ToSet(ms)}] :
          /\ \A i \in DOMAIN ms : found[i] \in Search(Shard(ms[i]), ms[i].branch, q)
          /\ answer' = [verdict |-> "ok", evidence |-> wire(ms, found)]
    BY <1>8 DEF SearchCode, Members
  <2>2. PICK found \in [DOMAIN ms -> UNION {Search(Shard(m), m.branch, q) : m \in ToSet(ms)}] :
          /\ \A i \in DOMAIN ms : found[i] \in Search(Shard(ms[i]), ms[i].branch, q)
          /\ answer' = [verdict |-> "ok", evidence |-> wire(ms, found)]
    BY <2>1
  <2>3. DOMAIN found = DOMAIN ms
    OBVIOUS
  <2> HIDE DEF ms
  <2>4. ASSUME NEW i \in DOMAIN ms
        PROVE  /\ IsList(found[i])
               /\ \A j \in DOMAIN found[i] : DOMAIN found[i][j] = {"path", "line", "snippet"}
               /\ MatchesTrue(found[i], Trees(r)[ms[i]], q, ms[i] \in Whole(r))
    <3> DEFINE m == ms[i]
               w == found[i]
    <3>1. m \in AskedIn(r)
      BY <1>3 DEF ToSet
    <3>2. m.repository \in DOMAIN world.shard => IsIndexed(Shard(m), m.branch, Tree(m))
      BY <1>3, <3>1
    <3>3. m.repository \notin DOMAIN world.shard => Shard(m) = <<>>
      BY DEF Shard
    <3>4. Trees(r)[m] = Tree(m)
      BY <3>1 DEF Trees
    <3>5. m \in Whole(r) => /\ IsIndexed(Shard(m), m.branch, Tree(m))
                            /\ Cardinality(Found(Shard(m), m.branch, q)) <= MaxFiles
      BY <3>2 DEF Whole
    <3>6. w \in Search(Shard(m), m.branch, q)
      BY <2>2
    <3> HIDE DEF m, w
    <3>7. /\ IsList(w) /\ \A k \in DOMAIN w : DOMAIN w[k] = {"path", "line", "snippet"}
          /\ MatchesTrue(w, Tree(m), q, /\ IsIndexed(Shard(m), m.branch, Tree(m))
                                        /\ Cardinality(Found(Shard(m), m.branch, q)) <= MaxFiles)
      BY <3>2, <3>3, <3>6, MatchesAre
    <3>8. MatchesTrue(w, Tree(m), q, m \in Whole(r))
      BY <3>5, <3>7 DEF MatchesTrue
    <3>9. QED
      BY <3>4, <3>7, <3>8 DEF m, w
  <2>5. SearchesOK(ms, found, Trees(r), q, Whole(r))
    BY <1>4, <2>3, <2>4 DEF SearchesOK
  <2>6. EvidenceTrue(ToSet(ms), Trees(r), q, Whole(r), wire(ms, found))
    BY <1>4, <2>5, EvidenceOfAll
  <2>7. answer'.verdict = "ok" /\ answer'.evidence = wire(ms, found)
    BY <2>2
  <2>8. AskedIn(r) # {}
    <3>1. PICK n \in Nat : DOMAIN ms = 1 .. n /\ Len(ms) = n
      BY <1>4, ListHas
    <3>2. n # 0
      <4>1. n = 0 => ms = <<>>
        BY <1>4, <3>1 DEF IsList
      <4>2. QED
        BY <1>8, <4>1
    <3>3. ms[1] \in ToSet(ms)
      BY <3>1, <3>2 DEF ToSet
    <3>4. QED
      BY <1>3, <3>3
  <2>9. Plainly(q) => Closed(q)
    BY <1>6, <1>8 DEF scopedQuery
  <2>10. QED
    BY <1>3, <2>6, <2>7, <2>8, <2>9 DEF SearchTold
<1>9. QED
  BY <1>7, <1>8

\* A request is about the same versions after the step that took it.
LEMMA SameVersions ==
  ASSUME world' = world
  PROVE  \A r : ask' = r => /\ AskedIn(ask)' = AskedIn(r) /\ Trees(ask)' = Trees(r)
                            /\ Whole(ask)' = Whole(r) /\ ask'.query = r.query
<1> SUFFICES ASSUME NEW r, ask' = r
             PROVE  /\ AskedIn(ask)' = AskedIn(r) /\ Trees(ask)' = Trees(r)
                    /\ Whole(ask)' = Whole(r) /\ ask'.query = r.query
  OBVIOUS
<1>1. \A id : resolve(id)' = resolve(id)
  BY DEF resolve
<1>2. \A m : Tree(m)' = Tree(m) /\ Shard(m)' = Shard(m)
  BY DEF Tree, Log, Shard
<1>3. AskedIn(ask)' = AskedIn(r)
  BY <1>1 DEF AskedIn, Listed
<1>4. Trees(ask)' = Trees(r)
  BY <1>2, <1>3 DEF Trees
<1>5. Whole(ask)' = Whole(r)
  BY <1>2, <1>3 DEF Whole
<1>6. QED
  BY <1>3, <1>4, <1>5

LEMMA SearchStep ==
  ASSUME WorldOK, SearchTrue, [Next]_vars
  PROVE  SearchTrue'
<1>1. (SearchTrue <=> ((ask # None /\ ask.tool = "search_code") =>
                    SearchTold(AskedIn(ask), Trees(ask), Whole(ask), ask.query, answer)))'
  BY SearchTrueIs, PTL
<1>2. \A r : ask' = r => /\ AskedIn(ask)' = AskedIn(r) /\ Trees(ask)' = Trees(r)
                         /\ Whole(ask)' = Whole(r) /\ ask'.query = r.query
  BY WorldStays, SameVersions
<1>3. CASE UNCHANGED vars
  <2>1. ask' = ask /\ answer' = answer
    BY <1>3 DEF vars
  <2>2. /\ AskedIn(ask)' = AskedIn(ask) /\ Trees(ask)' = Trees(ask)
        /\ Whole(ask)' = Whole(ask) /\ ask'.query = ask.query
    BY <1>2, <2>1
  <2>3. QED
    BY <1>1, <2>1, <2>2, SearchTrueIs
<1>4. CASE ask' = None
  BY <1>1, <1>4
<1>5. ASSUME NEW r \in Requests[world.kind], ask' = r, r.tool = "search_code" => SearchCode(r)
      PROVE  SearchTrue'
  <2>1. CASE r.tool # "search_code"
    BY <1>1, <1>5, <2>1
  <2>2. CASE r.tool = "search_code"
    <3>1. SearchTold(AskedIn(r), Trees(r), Whole(r), r.query, answer')
      BY <1>5, <2>2, SearchCodeIs
    <3>2. QED
      BY <1>1, <1>2, <1>5, <3>1
  <2>3. QED
    BY <2>1, <2>2
<1>6. QED
  BY <1>3, <1>4, <1>5, Replies

\* A search reports lines of the versions that are pinned, each once, cited
\* where they are from, and all of them unless Zoekt had no room; and it is
\* refused only without a member to ask in, or for a query that is empty or not
\* closed in itself (adapters/zoekt/zoekt.go, engine/engine.go).
THEOREM SearchesTrue == Spec => []SearchTrue
<1>1. Init => WorldOK /\ SearchTrue
  BY DEF Init, SearchTrue
<1>2. WorldOK /\ SearchTrue /\ [Next]_vars => (WorldOK /\ SearchTrue)'
  BY WorldStays, SearchStep
<1>3. QED
  BY <1>1, <1>2, PTL DEF Spec
===============================================================================
