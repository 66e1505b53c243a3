---------------------------- MODULE ContextNames -----------------------------
(***************************************************************************)
(* The names a person gives and the names made out of them: the search ref *)
(* of a member of a context, and its graph.                                *)
(*                                                                         *)
(* Both are glued together with dashes, and a dash may also be part of     *)
(* what is glued.  A name is therefore the sequence of its parts between   *)
(* the dashes: "app-web" is <<"app", "web">>, and gluing is \o.  Two names *)
(* are the same string exactly if they are the same sequence.              *)
(***************************************************************************)
EXTENDS Lists

CONSTANTS
  Forbidden, \* parts with a character that no name may have
  Dotted,    \* parts with "..", which a name may have and a git ref may not
  Short,     \* Short[r]: the first shortSHA digits of the full SHA r
  Alphabet   \* every name and id in use, in the order their strings sort in

\* Revisions are full SHAs; a name tells them apart by their first digits.
ASSUME NamesAssumption ==
  /\ Alphabet \in Seq(ToSet(Alphabet)) /\ IsInjective(Alphabet)
  /\ Forbidden \cap Dotted = {}
  /\ \A r, s \in DOMAIN Short : Short[r] = Short[s] => r = s

Revisions == DOMAIN Short

\* slices.Sorted, os.ReadDir: the members of S in the order they sort in.
Sorted(S) == Keep(Alphabet, {i \in DOMAIN Alphabet : Alphabet[i] \in S})

blank == <<>>

\* A leading dash is an empty first part.  The longest name there may be
\* (maxNameLength) is not modelled: no name here is near it.
validateName(n) == n # blank /\ Head(n) # "" /\ ToSet(n) \cap Forbidden = {}

dotted(n) == ToSet(n) \cap Dotted # {}

\* The repository is in it only where a context has several.
searchRef(c, m) ==
  <<"vacmcp/">> \o (IF Len(c.members) > 1 THEN m.repository \o c.id ELSE c.id)
                \o <<Short[m.revision]>>

\* Mutant: one graph for all the repositories of a context
graphRef_short(c, m) == <<"vacmcp">> \o c.id \o <<Short[m.revision]>>

graphRef(c, m) == <<"vacmcp">> \o m.repository \o c.id \o <<Short[m.revision]>>

\* Mutant: the generated names are not compared.
verifyIdentity_sha(c) == \A i \in DOMAIN c.members : c.members[i].revision \in Revisions

\* What a record says of its members is what its own name and their revisions
\* generate.
verifyIdentity(c) ==
  \A i \in DOMAIN c.members :
    LET m == c.members[i]
    IN  /\ m.revision \in Revisions
        /\ m.branch = searchRef(c, m)
        /\ m.graphRef = graphRef(c, m)
=============================================================================
