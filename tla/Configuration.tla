---------------------------- MODULE Configuration ----------------------------
(***************************************************************************)
(* A configuration file and what is loaded from it (config/config.go).  A  *)
(* file is the paths of its repositories, a declaration for each of its    *)
(* contexts, and whether the strict parser finds a field it does not know  *)
(* or a key twice.  A configuration has the members of each context.       *)
(***************************************************************************)
EXTENDS RecordCodec

\* The two spellings of a declaration; members: [] is a list, a missing key is
\* none.
Inline(m)     == [inline |-> m, given |-> FALSE, members |-> <<>>]
Listed(ms)    == [inline |-> Nothing, given |-> TRUE, members |-> ms]
Both(m, ms)   == [inline |-> m, given |-> TRUE, members |-> ms]

Refused(code) == [ok |-> FALSE, code |-> code]
Accepted(cfg) == [ok |-> TRUE, config |-> cfg]

\* Mutant: of two spellings the members list counts.
workspace_merged(d) ==
  IF d.inline # Nothing /\ ~d.given THEN <<d.inline>> ELSE d.members

\* The members a declaration means; Unreadable in both spellings.
workspace(d) ==
  CASE d.inline # Nothing /\ d.given -> Unreadable
    [] d.inline # Nothing /\ ~d.given -> <<d.inline>>
    [] OTHER -> d.members

\* Mutant: every context is written as a members list under its empty fields.
Marshal_fields(cfg) ==
  [repositories |-> cfg.repositories, strict |-> TRUE,
   contexts |-> [id \in DOMAIN cfg.contexts |->
                   Both(cfg.contexts[id][1], cfg.contexts[id])]]

Marshal(cfg) ==
  [repositories |-> cfg.repositories, strict |-> TRUE,
   contexts |-> [id \in DOMAIN cfg.contexts |->
                   IF Len(cfg.contexts[id]) = 1 THEN Inline(cfg.contexts[id][1])
                                                ELSE Listed(cfg.contexts[id])]]

\* The members of all contexts, in the order they are checked; a context without
\* any stands there for itself.
Entries(cfg) ==
  LET ids == Sorted(DOMAIN cfg.contexts)
      entry(id, k) == [id |-> id, at |-> k, member |-> cfg.contexts[id][k]]
      of(id) == IF cfg.contexts[id] = <<>> THEN <<[id |-> id, at |-> 0, member |-> Nothing]>>
                ELSE [k \in DOMAIN cfg.contexts[id] |-> entry(id, k)]
  IN  FlattenSeq([i \in DOMAIN ids |-> of(ids[i])])

\* Mutant: a graph that two contexts share is compared by its revision alone.
clashes_revision(m, n) == m.revision # n.revision

\* Two members of one graph are of one repository at one revision.
clashes(m, n) == m.repository # n.repository \/ m.revision # n.revision

\* What is wrong with the entry i of E, if the ones before it are right.
verdict(cfg, E, i) ==
  LET x == E[i]
      m == x.member
      before == {j \in 1 .. i - 1 : E[j].member.graphRef = m.graphRef}
      \* byGraphRef keeps the last member it saw of a graph
      other == E[CHOOSE j \in before : \A k \in before : k <= j].member
  IN  CASE x.id = blank \/ x.at = 0 -> "INVALID_ARGUMENT"
        [] blank \in {m.repository, m.branch, m.revision, m.graphRef} -> "INVALID_ARGUMENT"
        [] m.repository \notin DOMAIN cfg.repositories -> "REPOSITORY_NOT_FOUND"
        [] \E k \in 1 .. x.at - 1 : cfg.contexts[x.id][k].repository = m.repository ->
             "INVALID_ARGUMENT"
        [] before # {} /\ clashes(m, other) -> "INVALID_ARGUMENT"
        [] OTHER -> "ok"

\* The verdict on the first entry that is wrong.
validate(cfg) ==
  LET E   == Entries(cfg)
      bad == {i \in DOMAIN E : verdict(cfg, E, i) # "ok"}
  IN  CASE \E r \in DOMAIN cfg.repositories : blank \in {r, cfg.repositories[r]} ->
             "INVALID_ARGUMENT"
        [] E = <<>> -> "INVALID_ARGUMENT"
        [] bad # {} -> verdict(cfg, E, CHOOSE i \in bad : \A j \in bad : i <= j)
        [] OTHER -> "ok"

Load(file) ==
  LET cfg == [repositories |-> file.repositories,
              contexts |-> [id \in DOMAIN file.contexts |-> workspace(file.contexts[id])]]
  IN  IF ~file.strict \/ \E id \in DOMAIN cfg.contexts : cfg.contexts[id] = Unreadable
      THEN Refused("INVALID_ARGUMENT")
      ELSE IF validate(cfg) = "ok" THEN Accepted(cfg) ELSE Refused(validate(cfg))
=============================================================================
