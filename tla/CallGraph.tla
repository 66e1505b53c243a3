------------------------------ MODULE CallGraph ------------------------------
(***************************************************************************)
(* The walk of the CBM adapter (adapters/cbm/cbm.go): the symbol is        *)
(* resolved, the nodes around it are traced with their distance, the nodes *)
(* are located with their neighbours, and the calls are rebuilt from       *)
(* distances and neighbours.  CBM answers two queries: which nodes are how *)
(* far in one direction, and which names a node is connected to in either. *)
(* No answer has more than MaxNodes rows; which rows are left out is       *)
(* CBM's choice, so the walk is the set of what it may return.  The edges  *)
(* are a set: in what order they are listed, and that two functions which  *)
(* call each other are listed twice, is left out.                          *)
(***************************************************************************)
EXTENDS Integers, FiniteSetsExt

CONSTANTS
  Nodes,    \* the functions of all versions, numbered as CBM lists them
  MaxNodes, \* maxNodes: the rows of one answer
  Fold(_)   \* a name without the case of its letters, which CBM searches without

ASSUME CallGraphAssumption ==
  /\ Nodes \subseteq Nat
  /\ IsFiniteSet(Nodes)
  /\ MaxNodes \in Nat \ {0}

\* A graph has the functions g.has; p[1] calls p[2] for p in g.calls; g.name[n]
\* is the plain name of n, g.at[n] where n is declared, and g.unclear are those
\* that CBM cannot tell from another even by their qualified names.
IsGraph(g) == g.has \subseteq Nodes /\ g.calls \subseteq g.has \X g.has
-----------------------------------------------------------------------------
(* codebase-memory-mcp                                                     *)

Rows(found) ==
  IF Cardinality(found) <= MaxNodes THEN {found} ELSE kSubset(MaxNodes, found)

\* One step away from S in a direction.
Neighbours(g, direction, S) ==
  IF direction = "callees" THEN {p[2] : p \in {c \in g.calls : c[1] \in S}}
                           ELSE {p[1] : p \in {c \in g.calls : c[2] \in S}}

\* Reached(...)[k]: the nodes that take at most k steps.
Reached(g, root, direction, depth) ==
  LET within[k \in 0 .. depth] ==
        IF k = 0 THEN {root}
        ELSE within[k - 1] \cup Neighbours(g, direction, within[k - 1])
  IN  within

Distance(within, n) == Min({k \in DOMAIN within : n \in within[k]})

Connected(g, n) == {g.name[m] : m \in {x \in g.has : {<<n, x>>, <<x, n>>} \cap g.calls # {}}}
-----------------------------------------------------------------------------
(* adapters/cbm/cbm.go                                                     *)

candidates(g, symbol) == {n \in g.has : Fold(g.name[n]) = Fold(symbol)}

\* The names a trace reports, each at its shortest distance.
trace(g, root, direction, depth) ==
  LET within == Reached(g, root, direction, depth)
      hopsOf(rows) ==
        [x \in {g.name[n] : n \in rows} |->
           Min({Distance(within, n) : n \in {m \in rows : g.name[m] = x}})]
  IN  {hopsOf(rows) : rows \in Rows(within[depth] \ {root})}

\* The node of every name the trace reported; the first one of several.  A name
\* in other letters takes a row and is not kept.
locate(g, hops) ==
  LET wanted(rows)  == {n \in rows : g.name[n] \in DOMAIN hops}
      nodesOf(kept) == [x \in {g.name[n] : n \in kept} |->
                          Min({n \in kept : g.name[n] = x})]
      found == {n \in g.has : \E x \in DOMAIN hops : Fold(g.name[n]) = Fold(x)}
  IN  {nodesOf(wanted(rows)) : rows \in Rows(found)}

\* Mutant: the place the walk came from is cited, in both directions
edges_near(g, hops, nodes, direction) ==
  {LET caller == IF direction = "callees" THEN p[1] ELSE p[2]
       callee == IF direction = "callees" THEN p[2] ELSE p[1]
   IN  [caller |-> caller, callee |-> callee, site |-> g.at[nodes[p[1]]]] :
     p \in {q \in (DOMAIN nodes) \X (DOMAIN nodes) :
              q[2] \in Connected(g, nodes[q[1]]) /\ hops[q[2]] = hops[q[1]] + 1}}

\* A connection that crosses one level is a call in the direction of the walk.
edges(g, hops, nodes, direction) ==
  LET crossing == {p \in (DOMAIN nodes) \X (DOMAIN nodes) :
                     p[2] \in Connected(g, nodes[p[1]]) /\ hops[p[2]] = hops[p[1]] + 1}
      edge(caller, callee) ==
        [caller |-> caller, callee |-> callee, site |-> g.at[nodes[caller]]]
  IN  {IF direction = "callees" THEN edge(p[1], p[2]) ELSE edge(p[2], p[1]) : p \in crossing}

\* The distances of a trace, with the symbol itself at zero.
From(symbol, hops) ==
  [x \in {symbol} \cup DOMAIN hops |-> IF x = symbol THEN 0 ELSE hops[x]]

\* What may be answered, under the name the symbol has in the graph.
TraceCalls(g, symbol, direction, depth) ==
  LET found == candidates(g, symbol)
      root  == CHOOSE n \in found : TRUE
      graph(E) == [verdict |-> "ok", edges |-> E]
      walked(from) == {graph(edges(g, from, nodes, direction)) : nodes \in locate(g, from)}
  IN  IF found = {} THEN {[verdict |-> "SYMBOL_NOT_FOUND", edges |-> {}]}
      ELSE IF Cardinality(found) > 1 \/ root \in g.unclear
      THEN {[verdict |-> "SYMBOL_AMBIGUOUS", edges |-> {}]}
      ELSE UNION {IF DOMAIN hops = {} THEN {graph({})} ELSE walked(From(g.name[root], hops)) :
                    hops \in trace(g, root, direction, depth)}
=============================================================================
