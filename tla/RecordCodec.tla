----------------------------- MODULE RecordCodec -----------------------------
(***************************************************************************)
(* How the record of a context is written down: the fields of its          *)
(* repository directly under it if it has one, a members list if it has    *)
(* several (store/store.go, contextRecord).  A written record keeps the    *)
(* repository field with its JSON type, which is what says the spelling.   *)
(***************************************************************************)
EXTENDS ContextNames

CONSTANT Unreadable \* what reading makes of a record that it refuses

Names == Seq(STRING)

MemberRecords ==
  [repository : Names, branch : Names, revision : Names, graphRef : Names]

\* BUILDING: any of the stages of a build
ContextStates == {"CREATING", "BUILDING", "READY", "FAILED", "REMOVING"}

ContextRecords == [id : Names, state : ContextStates, members : Seq(MemberRecords)]

ASSUME CodecAssumption ==
  Unreadable # blank /\ Unreadable \notin ContextRecords \cup Seq(MemberRecords)

Member(repository, branch, revision, graph) ==
  [repository |-> repository, branch |-> branch, revision |-> revision, graphRef |-> graph]

\* The repository field: a string, [], null, or no such field.
JSONString(n)  == [type |-> "string", name |-> n]
NoRepository   == [type |-> "array", name |-> blank]
JSONNull       == [type |-> "null", name |-> blank]
Absent         == [type |-> "absent", name |-> blank]

Written(c, repository, inline, members) ==
  [id |-> c.id, state |-> c.state, repository |-> repository, branch |-> inline.branch,
   revision |-> inline.revision, graphRef |-> inline.graphRef, members |-> members]

Nothing == Member(blank, blank, blank, blank)

\* Mutant: one spelling for every record; one of v0.4.0 reads no repository.
MarshalJSON_absent(c) ==
  IF Len(c.members) = 1
  THEN Written(c, JSONString(c.members[1].repository), c.members[1], <<>>)
  ELSE Written(c, Absent, Nothing, c.members)

MarshalJSON(c) ==
  IF Len(c.members) = 1
  THEN Written(c, JSONString(c.members[1].repository), c.members[1], <<>>)
  ELSE Written(c, NoRepository, Nothing, c.members)

\* Mutant: a record in both spellings is read as its members list.
UnmarshalJSON_merged(w) ==
  LET context(members) == [id |-> w.id, state |-> w.state, members |-> members]
  IN  CASE w.members # <<>> -> context(w.members)
        [] w.repository.type \in {"string", "null"} ->
             context(<<Member(w.repository.name, w.branch, w.revision, w.graphRef)>>)
        [] OTHER -> Unreadable

\* Refuses a record in both spellings and one in neither; null decodes into a
\* list as no elements and into a string as none.
UnmarshalJSON(w) ==
  LET context(members) == [id |-> w.id, state |-> w.state, members |-> members]
      fields == Member(w.repository.name, w.branch, w.revision, w.graphRef)
  IN  CASE w.members # <<>> /\ w.repository.type # "string" /\ fields = Nothing ->
             context(w.members)
        [] w.members = <<>> /\ w.repository.type \in {"string", "null"} ->
             context(<<fields>>)
        [] OTHER -> Unreadable

\* A v0.4.0 program: the fields of one repository, whatever else is there.
OlderReads(w) ==
  IF w.repository.type = "array" THEN Unreadable
  ELSE [id |-> w.id, state |-> w.state,
        members |-> <<Member(w.repository.name, w.branch, w.revision, w.graphRef)>>]
=============================================================================
