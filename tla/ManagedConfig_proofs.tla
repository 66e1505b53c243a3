------------------------- MODULE ManagedConfig_proofs -------------------------
(* Proofs about ManagedConfig: what a record reads as after it was written, edited *)
(* and written again, the configuration that a server makes of the records, what   *)
(* is accepted of a file that somebody wrote, and what a doctor says of both.      *)
EXTENDS ManagedConfig, Lists_proofs, FiniteSetTheorems, TLAPS

Types == {"string", "array", "null", "absent"}

WrittenRecords ==
  [id : Names, state : ContextStates, repository : [type : Types, name : Names],
   branch : Names, revision : Names, graphRef : Names, members : Seq(MemberRecords)]
-----------------------------------------------------------------------------
(* The two spellings of a record                                           *)

LEMMA BlankName == blank \in Names
  BY DEF blank, Names

LEMMA NothingIs == Nothing \in MemberRecords /\ Nothing.repository = blank
  BY BlankName DEF Nothing, Member, MemberRecords

LEMMA OneMember == ASSUME NEW ms \in Seq(MemberRecords), Len(ms) = 1
                   PROVE  /\ ms[1] \in MemberRecords
                          /\ ms = <<Member(ms[1].repository, ms[1].branch,
                                           ms[1].revision, ms[1].graphRef)>>
<1>1. ms[1] \in MemberRecords
  OBVIOUS
<1>2. ms[1] = Member(ms[1].repository, ms[1].branch, ms[1].revision, ms[1].graphRef)
  BY <1>1 DEF Member, MemberRecords
<1>3. ms = <<ms[1]>>
  OBVIOUS
<1>4. QED
  BY <1>1, <1>2, <1>3

\* What is written of a context is read as that context, and v0.4.0 refuses it or
\* reads the same (store/store.go MarshalJSON, UnmarshalJSON).
THEOREM WrittenIsRead ==
  ASSUME NEW c \in ContextRecords, c.members # <<>>
  PROVE  /\ MarshalJSON(c) \in WrittenRecords
         /\ MarshalJSON(c).id = c.id
         /\ UnmarshalJSON(MarshalJSON(c)) = c
         /\ c # Unreadable
         /\ OlderReads(MarshalJSON(c)) \in {Unreadable, c}
<1> DEFINE context(ms) == [id |-> c.id, state |-> c.state, members |-> ms]
<1>1. c.id \in Names /\ c.state \in ContextStates /\ c.members \in Seq(MemberRecords)
  BY DEF ContextRecords
<1>2. context(c.members) = c
  BY DEF ContextRecords
<1>3. c # Unreadable
  BY CodecAssumption
<1>4. CASE Len(c.members) = 1
  <2> DEFINE w == Written(c, JSONString(c.members[1].repository), c.members[1], <<>>)
  <2>1. MarshalJSON(c) = w
    BY <1>4 DEF MarshalJSON
  <2>2. /\ c.members[1] \in MemberRecords
        /\ c.members = <<Member(c.members[1].repository, c.members[1].branch,
                                c.members[1].revision, c.members[1].graphRef)>>
    BY <1>1, <1>4, OneMember
  <2>3. w \in WrittenRecords /\ w.id = c.id
    <3>1. /\ c.members[1].repository \in Names /\ c.members[1].branch \in Names
          /\ c.members[1].revision \in Names /\ c.members[1].graphRef \in Names
      BY <2>2 DEF MemberRecords
    <3>2. JSONString(c.members[1].repository) \in [type : Types, name : Names]
      BY <3>1 DEF JSONString, Types
    <3>3. <<>> \in Seq(MemberRecords)
      OBVIOUS
    <3>4. QED
      BY <1>1, <3>1, <3>2, <3>3 DEF Written, WrittenRecords
  <2>4. /\ w.members = <<>> /\ w.repository.type = "string"
        /\ Member(w.repository.name, w.branch, w.revision, w.graphRef) = c.members[1]
        /\ w.state = c.state
    BY <2>2 DEF Written, JSONString, Member, MemberRecords
  <2> HIDE DEF w
  <2> DEFINE m == Member(w.repository.name, w.branch, w.revision, w.graphRef)
  <2>5. UnmarshalJSON(w) = context(<<m>>)
    BY <2>3, <2>4 DEF UnmarshalJSON
  <2>6. OlderReads(w) = context(<<m>>)
    BY <2>3, <2>4 DEF OlderReads
  <2>7. <<m>> = c.members
    BY <2>2, <2>4
  <2>8. QED
    BY <1>2, <1>3, <2>1, <2>3, <2>5, <2>6, <2>7
<1>5. CASE Len(c.members) # 1
  <2> DEFINE w == Written(c, NoRepository, Nothing, c.members)
  <2>1. MarshalJSON(c) = w
    BY <1>5 DEF MarshalJSON
  <2>2. w \in WrittenRecords /\ w.id = c.id
    <3>1. /\ Nothing.repository \in Names /\ Nothing.branch \in Names
          /\ Nothing.revision \in Names /\ Nothing.graphRef \in Names
      BY NothingIs DEF MemberRecords
    <3>2. NoRepository \in [type : Types, name : Names]
      BY BlankName DEF NoRepository, Types
    <3>3. QED
      BY <1>1, <3>1, <3>2 DEF Written, WrittenRecords
  <2>3. /\ w.members = c.members /\ w.repository.type = "array"
        /\ Member(w.repository.name, w.branch, w.revision, w.graphRef) = Nothing
        /\ w.state = c.state
    BY DEF Written, NoRepository, Member, Nothing
  <2> HIDE DEF w
  <2>4. UnmarshalJSON(w) = context(c.members)
    BY <2>2, <2>3 DEF UnmarshalJSON
  <2>5. OlderReads(w) = Unreadable
    BY <2>3 DEF OlderReads
  <2>6. QED
    BY <1>2, <1>3, <2>1, <2>2, <2>4, <2>5
<1>6. QED
  BY <1>4, <1>5

\* What reads at all is a context with members.
LEMMA ReadIs ==
  ASSUME NEW w \in WrittenRecords, UnmarshalJSON(w) # Unreadable
  PROVE  /\ UnmarshalJSON(w) \in ContextRecords
         /\ UnmarshalJSON(w).id = w.id
         /\ UnmarshalJSON(w).state = w.state
         /\ UnmarshalJSON(w).members # <<>>
<1> DEFINE m == Member(w.repository.name, w.branch, w.revision, w.graphRef)
           context(ms) == [id |-> w.id, state |-> w.state, members |-> ms]
<1>1. /\ w.id \in Names /\ w.state \in ContextStates /\ w.members \in Seq(MemberRecords)
      /\ m \in MemberRecords
  BY DEF WrittenRecords, Member, MemberRecords
<1>2. \/ UnmarshalJSON(w) = context(w.members) /\ w.members # <<>>
      \/ UnmarshalJSON(w) = context(<<m>>)
  BY DEF UnmarshalJSON
<1> HIDE DEF m
<1>3. <<m>> \in Seq(MemberRecords) /\ <<m>> # <<>>
  BY <1>1
<1>4. \A ms \in Seq(MemberRecords) :
        /\ context(ms) \in ContextRecords
        /\ context(ms).id = w.id /\ context(ms).state = w.state /\ context(ms).members = ms
  BY <1>1 DEF ContextRecords
<1>5. PICK ms \in Seq(MemberRecords) : UnmarshalJSON(w) = context(ms) /\ ms # <<>>
  BY <1>1, <1>2, <1>3
<1>6. QED
  BY <1>4, <1>5

\* An edit of the members of a context leaves a context.
LEMMA EditedMember ==
  ASSUME NEW c \in ContextRecords, c.members # <<>>,
         NEW m \in MemberRecords
  PROVE  /\ [c EXCEPT !.members[1] = m] \in ContextRecords
         /\ [c EXCEPT !.members[1] = m].id = c.id
         /\ [c EXCEPT !.members[1] = m].members # <<>>
<1>1. c.members \in Seq(MemberRecords) /\ 1 \in DOMAIN c.members
  BY DEF ContextRecords
<1>2. [c.members EXCEPT ![1] = m] \in Seq(MemberRecords) /\ [c.members EXCEPT ![1] = m] # <<>>
  BY <1>1
<1>3. QED
  BY <1>2 DEF ContextRecords

LEMMA ElsewhereIs ==
  ASSUME NEW c \in ContextRecords, c.members # <<>>, NEW v \in Revisions
  PROVE  /\ Elsewhere(c, v) \in ContextRecords
         /\ Elsewhere(c, v).id = c.id
         /\ Elsewhere(c, v).members # <<>>
<1> DEFINE m == [c.members[1] EXCEPT !.revision = v]
<1>1. c.members[1] \in MemberRecords
  BY DEF ContextRecords
<1>2. m \in MemberRecords
  BY <1>1, WritingAssumption DEF MemberRecords
<1>3. Elsewhere(c, v) = [c EXCEPT !.members[1] = m]
  BY DEF Elsewhere
<1>4. QED
  BY <1>2, <1>3, EditedMember

\* The name of a graph is a name.
LEMMA GraphName ==
  ASSUME NEW c \in ContextRecords, NEW m \in MemberRecords, m.revision \in Revisions
  PROVE  graphRef(c, m) \in Names
<1>1. c.id \in Names /\ m.repository \in Names
  BY DEF ContextRecords, MemberRecords
<1>2. <<"vacmcp">> \in Names /\ <<Short[m.revision]>> \in Names
  BY WritingAssumption DEF Names
<1>3. QED
  BY <1>1, <1>2 DEF graphRef, Names

LEMMA SearchName ==
  ASSUME NEW c \in ContextRecords, NEW m \in MemberRecords, m.revision \in Revisions
  PROVE  searchRef(c, m) \in Names
<1>1. c.id \in Names /\ m.repository \in Names
  BY DEF ContextRecords, MemberRecords
<1>2. <<"vacmcp/">> \in Names /\ <<Short[m.revision]>> \in Names
  BY WritingAssumption DEF Names
<1>3. QED
  <2> DEFINE of == IF Len(c.members) > 1 THEN m.repository \o c.id ELSE c.id
  <2>1. of \in Names
    <3>1. m.repository \o c.id \in Names
      BY <1>1 DEF Names
    <3>2. QED
      BY <1>1, <3>1
  <2>2. searchRef(c, m) = <<"vacmcp/">> \o of \o <<Short[m.revision]>>
    BY DEF searchRef
  <2> HIDE DEF of
  <2>3. QED
    BY <1>2, <2>1, <2>2 DEF Names

\* What the fields of a written record are.
LEMMA FieldsAre ==
  ASSUME NEW c \in ContextRecords, c.members # <<>>, NEW w, w = MarshalJSON(c)
  PROVE  /\ w \in WrittenRecords /\ w.id = c.id /\ w.state = c.state
         /\ Len(c.members) = 1 => w.members = <<>>
         /\ Len(c.members) # 1 =>
              w.members = c.members /\ w.branch = blank /\ w.revision = blank /\ w.graphRef = blank
<1>1. w \in WrittenRecords /\ w.id = c.id
  BY WrittenIsRead
<1>2. w.state = c.state
  BY DEF MarshalJSON, Written
<1>3. Len(c.members) = 1 => w.members = <<>>
  BY DEF MarshalJSON, Written
<1>4. Len(c.members) # 1 =>
        w.members = c.members /\ w.branch = blank /\ w.revision = blank /\ w.graphRef = blank
  BY DEF MarshalJSON, Written, Nothing, Member
<1>5. QED
  BY <1>1, <1>2, <1>3, <1>4

LEMMA SpellingIs ==
  ASSUME NEW w \in WrittenRecords, NEW f \in [type : Types, name : Names]
  PROVE  /\ [w EXCEPT !.repository = f] \in WrittenRecords
         /\ [w EXCEPT !.repository = f].id = w.id
         /\ [w EXCEPT !.repository = f].state = w.state
         /\ [w EXCEPT !.repository = f].repository = f
         /\ [w EXCEPT !.repository = f].branch = w.branch
         /\ [w EXCEPT !.repository = f].revision = w.revision
         /\ [w EXCEPT !.repository = f].graphRef = w.graphRef
         /\ [w EXCEPT !.repository = f].members = w.members
  BY DEF WrittenRecords

LEMMA FieldsTyped ==
  /\ Absent \in [type : Types, name : Names]
  /\ JSONNull \in [type : Types, name : Names]
  /\ \A n \in Names : JSONString(n) \in [type : Types, name : Names]
  BY BlankName DEF Absent, JSONNull, JSONString, Types

\* A record in another spelling says what it said, or does not read.
LEMMA RespelledIs ==
  ASSUME NEW c \in ContextRecords, c.members # <<>>,
         NEW w, w = MarshalJSON(c), NEW e \in respelled(w, c)
  PROVE  /\ e \in WrittenRecords
         /\ e.id = c.id
         /\ UnmarshalJSON(e) \in {Unreadable, c}
<1> DEFINE r == c.members[1].repository
           spelt(f) == [w EXCEPT !.repository = f]
           context(ms) == [id |-> c.id, state |-> c.state, members |-> ms]
<1>1. /\ w \in WrittenRecords /\ w.id = c.id /\ w.state = c.state
      /\ Len(c.members) = 1 => w.members = <<>>
      /\ Len(c.members) # 1 =>
              w.members = c.members /\ w.branch = blank /\ w.revision = blank /\ w.graphRef = blank
  BY FieldsAre
<1>2. context(c.members) = c
  BY DEF ContextRecords
<1>3. r \in Names
  <2>1. c.members[1] \in MemberRecords
    BY DEF ContextRecords
  <2>2. QED
    BY <2>1 DEF MemberRecords
<1>4. ASSUME NEW f \in {Absent, JSONNull}, e = spelt(f), Len(c.members) = 1 => f = Absent
      PROVE  e \in WrittenRecords /\ e.id = c.id /\ UnmarshalJSON(e) \in {Unreadable, c}
  <2>1. /\ e \in WrittenRecords /\ e.id = c.id /\ e.state = c.state /\ e.repository = f
        /\ e.branch = w.branch /\ e.revision = w.revision /\ e.graphRef = w.graphRef
        /\ e.members = w.members
    BY <1>1, <1>4, SpellingIs, FieldsTyped
  <2>2. f.name = blank /\ f.type \in {"absent", "null"} /\ (f = Absent => f.type = "absent")
    BY DEF Absent, JSONNull
  <2>3. CASE Len(c.members) = 1
    <3>1. e.members = <<>> /\ e.repository.type = "absent"
      BY <1>1, <1>4, <2>1, <2>2, <2>3
    <3>2. UnmarshalJSON(e) = Unreadable
      BY <3>1 DEF UnmarshalJSON
    <3>3. QED
      BY <2>1, <3>2
  <2>4. CASE Len(c.members) # 1
    <3>1. Member(e.repository.name, e.branch, e.revision, e.graphRef) = Nothing
      BY <1>1, <2>1, <2>2, <2>4 DEF Nothing
    <3>2. e.members # <<>> /\ e.members = c.members /\ e.repository.type # "string"
      BY <1>1, <2>1, <2>2, <2>4
    <3>3. UnmarshalJSON(e) = context(c.members)
      BY <2>1, <3>1, <3>2 DEF UnmarshalJSON
    <3>4. QED
      BY <1>2, <2>1, <3>3
  <2>5. QED
    BY <2>3, <2>4
<1>5. ASSUME NEW v \in Revisions,
             e = [w EXCEPT !.repository = JSONString(r), !.members = Elsewhere(c, v).members]
      PROVE  e \in WrittenRecords /\ e.id = c.id /\ UnmarshalJSON(e) = Unreadable
  <2>1. Elsewhere(c, v).members \in Seq(MemberRecords) /\ Elsewhere(c, v).members # <<>>
    BY ElsewhereIs DEF ContextRecords
  <2>2. JSONString(r) \in [type : Types, name : Names] /\ JSONString(r).type = "string"
    BY <1>3, FieldsTyped DEF JSONString
  <2>3. e \in WrittenRecords /\ e.id = c.id
    BY <1>1, <1>5, <2>1, <2>2 DEF WrittenRecords
  <2>4. e.members # <<>> /\ e.repository.type = "string"
    BY <1>1, <1>5, <2>1, <2>2 DEF WrittenRecords
  <2>5. UnmarshalJSON(e) = Unreadable
    BY <2>4 DEF UnmarshalJSON
  <2>6. QED
    BY <2>3, <2>5
<1>6. \/ \E f \in {Absent, JSONNull} : e = spelt(f) /\ (Len(c.members) = 1 => f = Absent)
      \/ \E v \in Revisions :
           e = [w EXCEPT !.repository = JSONString(r), !.members = Elsewhere(c, v).members]
  BY DEF respelled
<1>7. QED
  BY <1>4, <1>5, <1>6

\* What an edit makes of a context is a context of its id and its repositories.
Alters(c, x) ==
  /\ x \in ContextRecords /\ x.id = c.id /\ x.members # <<>>
  /\ \A i \in DOMAIN x.members : \E j \in DOMAIN c.members :
       x.members[i].repository = c.members[j].repository

LEMMA MemberAltered ==
  ASSUME NEW c \in ContextRecords, c.members # <<>>,
         NEW m \in MemberRecords, m.repository = c.members[1].repository
  PROVE  Alters(c, [c EXCEPT !.members[1] = m])
<1> DEFINE x == [c EXCEPT !.members[1] = m]
<1>1. x \in ContextRecords /\ x.id = c.id /\ x.members # <<>>
  BY EditedMember
<1>2. x.members = [c.members EXCEPT ![1] = m]
  BY DEF ContextRecords
<1> HIDE DEF x
<1>3. DOMAIN x.members = DOMAIN c.members
  BY <1>2
<1>4. \A i \in DOMAIN c.members : x.members[i] = IF i = 1 THEN m ELSE c.members[i]
  BY <1>2
<1>5. QED
  BY <1>1, <1>3, <1>4 DEF x, Alters

LEMMA MembersAltered ==
  ASSUME NEW c \in ContextRecords, NEW ms \in Seq(MemberRecords), ms # <<>>,
         \A i \in DOMAIN ms : \E j \in DOMAIN c.members : ms[i] = c.members[j]
  PROVE  Alters(c, [c EXCEPT !.members = ms])
<1> DEFINE x == [c EXCEPT !.members = ms]
<1>1. x \in ContextRecords /\ x.id = c.id /\ x.members = ms
  BY DEF ContextRecords
<1> HIDE DEF x
<1>2. QED
  BY <1>1 DEF Alters, x

LEMMA RearrangedAre ==
  ASSUME NEW c \in ContextRecords, c.members # <<>>,
         NEW ms \in {Reverse(c.members), Tail(c.members)}, ms # <<>>
  PROVE  /\ ms \in Seq(MemberRecords)
         /\ \A i \in DOMAIN ms : \E j \in DOMAIN c.members : ms[i] = c.members[j]
<1> DEFINE cs == c.members
<1>1. cs \in Seq(MemberRecords) /\ cs # <<>>
  BY DEF ContextRecords
<1> HIDE DEF cs
<1>2. PICK n \in Nat : n = Len(cs) /\ DOMAIN cs = 1 .. n /\ n > 0
  BY <1>1
<1>3. CASE ms = Reverse(cs)
  <2>1. ms = [i \in 1 .. n |-> cs[(n - i) + 1]]
    BY <1>2, <1>3 DEF Reverse
  <2>2. \A i \in 1 .. n : (n - i) + 1 \in DOMAIN cs /\ cs[(n - i) + 1] \in MemberRecords
    BY <1>1, <1>2
  <2>3. ms \in Seq(MemberRecords)
    BY <2>1, <2>2
  <2>4. QED
    BY <2>1, <2>2, <2>3 DEF cs
<1>4. CASE ms = Tail(cs)
  <2>1. ms \in Seq(MemberRecords)
    BY <1>1, <1>4
  <2>2. DOMAIN ms = 1 .. n - 1 /\ \A i \in 1 .. n - 1 : ms[i] = cs[i + 1]
    BY <1>1, <1>2, <1>4
  <2>3. \A i \in 1 .. n - 1 : i + 1 \in DOMAIN cs
    BY <1>2
  <2>4. QED
    BY <2>1, <2>2, <2>3 DEF cs
<1>5. QED
  BY <1>3, <1>4 DEF cs

LEMMA AlteredIs ==
  ASSUME NEW c \in ContextRecords, c.members # <<>>, NEW x \in altered(c)
  PROVE  Alters(c, x)
<1> DEFINE one == c.members[1]
<1>1. one \in MemberRecords
  BY DEF ContextRecords
<1>2. ASSUME NEW v \in Revisions
      PROVE  /\ [one EXCEPT !.revision = v] \in MemberRecords
             /\ [one EXCEPT !.revision = v].repository = one.repository
             /\ [one EXCEPT !.revision = v].revision = v
  BY <1>1, <1>2, WritingAssumption DEF MemberRecords
<1>3. ASSUME NEW v \in Revisions
      PROVE  /\ Elsewhere(c, v) = [c EXCEPT !.members[1] = [one EXCEPT !.revision = v]]
             /\ Elsewhere(c, v).members[1] = [one EXCEPT !.revision = v]
             /\ Alters(c, Elsewhere(c, v))
  <2>1. Elsewhere(c, v) = [c EXCEPT !.members[1] = [one EXCEPT !.revision = v]]
    BY DEF Elsewhere
  <2>2. Elsewhere(c, v).members[1] = [one EXCEPT !.revision = v]
    BY <1>1 DEF Elsewhere, ContextRecords
  <2> HIDE DEF one
  <2>3. Alters(c, Elsewhere(c, v))
    BY <1>2, <2>1, MemberAltered DEF one
  <2>4. QED
    BY <2>1, <2>2, <2>3
<1>4. ASSUME NEW v \in Revisions
      PROVE  /\ Alters(c, Moved(c, v))
             /\ Moved(c, v).members[1].graphRef \in Names
  <2> DEFINE n == [one EXCEPT !.revision = v]
             b == searchRef(c, n)
             g == graphRef(c, n)
             m == [n EXCEPT !.branch = b, !.graphRef = g]
  <2>1. n \in MemberRecords /\ n.revision = v /\ n.repository = one.repository
    BY <1>2
  <2>2. b \in Names /\ g \in Names
    BY <2>1, SearchName, GraphName
  <2>3. Moved(c, v) = [c EXCEPT !.members[1] = m]
    BY DEF Moved
  <2> HIDE DEF b, g, n
  <2>4. m \in MemberRecords /\ m.repository = one.repository /\ m.graphRef = g
    BY <2>1, <2>2 DEF MemberRecords
  <2> HIDE DEF m
  <2>5. [c EXCEPT !.members[1] = m].members[1] = m
    <3>1. c.members \in Seq(MemberRecords) /\ 1 \in DOMAIN c.members
      BY DEF ContextRecords
    <3>2. [c EXCEPT !.members[1] = m].members = [c.members EXCEPT ![1] = m]
      BY DEF ContextRecords
    <3>3. QED
      BY <3>1, <3>2
  <2>6. Alters(c, [c EXCEPT !.members[1] = m])
    BY <2>4, MemberAltered
  <2>7. QED
    BY <2>2, <2>3, <2>4, <2>5, <2>6
<1>5. Alters(c, [c EXCEPT !.members[1].branch = Default])
  <2> DEFINE m == [one EXCEPT !.branch = Default]
  <2>1. m \in MemberRecords /\ m.repository = one.repository
    BY <1>1, ManagedAssumption, WritingAssumption DEF MemberRecords
  <2>2. [c EXCEPT !.members[1].branch = Default] = [c EXCEPT !.members[1] = m]
    OBVIOUS
  <2> HIDE DEF m
  <2>3. QED
    BY <2>1, <2>2, MemberAltered
<1>6. ASSUME NEW g \in Names
      PROVE  Alters(c, [c EXCEPT !.members[1].graphRef = g])
  <2> DEFINE m == [one EXCEPT !.graphRef = g]
  <2>1. m \in MemberRecords /\ m.repository = one.repository
    BY <1>1 DEF MemberRecords
  <2>2. [c EXCEPT !.members[1].graphRef = g] = [c EXCEPT !.members[1] = m]
    OBVIOUS
  <2> HIDE DEF m
  <2>3. QED
    BY <2>1, <2>2, MemberAltered
<1>7. ASSUME NEW s \in {"READY", "FAILED"} PROVE Alters(c, InState(c, s))
  <2>1. /\ InState(c, s) \in ContextRecords /\ InState(c, s).id = c.id
        /\ InState(c, s).members = c.members
    BY DEF InState, ContextRecords, ContextStates
  <2>2. QED
    BY <2>1 DEF Alters
<1>8. ASSUME NEW ms \in {Reverse(c.members), Tail(c.members)}, ms # <<>>
      PROVE  Alters(c, [c EXCEPT !.members = ms])
  BY <1>8, RearrangedAre, MembersAltered
<1> HIDE DEF one
<1>9. \/ \E v \in Revisions : x = Elsewhere(c, v) \/ x = Moved(c, v)
      \/ x = [c EXCEPT !.members[1].branch = Default]
      \/ \E v \in Revisions : x = [c EXCEPT !.members[1].graphRef = Moved(c, v).members[1].graphRef]
      \/ \E s \in {"READY", "FAILED"} : x = InState(c, s)
      \/ \E ms \in {Reverse(c.members), Tail(c.members)} : ms # <<>> /\ x = [c EXCEPT !.members = ms]
  BY DEF altered
<1>10. ASSUME NEW v \in Revisions, x = [c EXCEPT !.members[1].graphRef = Moved(c, v).members[1].graphRef]
       PROVE  Alters(c, x)
  <2>1. PICK g \in Names : g = Moved(c, v).members[1].graphRef
    BY <1>4
  <2>2. QED
    BY <1>6, <1>10, <2>1
<1>11. CASE \E v \in Revisions : x = Elsewhere(c, v) \/ x = Moved(c, v)
  BY <1>3, <1>4, <1>11
<1>12. CASE \E s \in {"READY", "FAILED"} : x = InState(c, s)
  BY <1>7, <1>12
<1>13. CASE \E ms \in {Reverse(c.members), Tail(c.members)} : ms # <<>> /\ x = [c EXCEPT !.members = ms]
  BY <1>8, <1>13
<1>14. QED
  BY <1>5, <1>9, <1>10, <1>11, <1>12, <1>13

\* A record of another context is still a record of its id.
LEMMA RewrittenIs ==
  ASSUME NEW c \in ContextRecords, c.members # <<>>,
         NEW w, w = MarshalJSON(c), NEW e \in rewritten(w, c)
  PROVE  e \in WrittenRecords /\ e.id = c.id
<1>1. CASE e = [w EXCEPT !.repository = JSONNull]
  BY <1>1, FieldsAre, SpellingIs, FieldsTyped
<1>2. ASSUME NEW x \in altered(c), e = MarshalJSON(x)
      PROVE  e \in WrittenRecords /\ e.id = c.id
  BY <1>2, AlteredIs, WrittenIsRead DEF Alters
<1>3. QED
  BY <1>1, <1>2 DEF rewritten
-----------------------------------------------------------------------------
(* The registry                                                            *)

\* What the record of context id reads as if nobody edits it.
Created(id) == [id |-> id, state |-> records[id].state, members |-> pinned[id]]

PinsOK == \A id \in DOMAIN pinned :
  pinned[id] \in Seq(MemberRecords) /\ pinned[id] # <<>> /\ pinned[id][1] # Nothing

\* Each record is of its own id, says what it was created with unless it was given
\* other members, and says it as vacmcp does unless it was edited.
RecordOK(id) ==
  /\ id \in Names
  /\ records[id] \in WrittenRecords /\ records[id].id = id
  /\ id \notin edited.content => Read(records, id) \in {Unreadable, Created(id)}
  /\ id \notin edited.spelling => records[id] = MarshalJSON(Created(id))

EditsOK ==
  /\ edited \in [spelling : SUBSET Ids, content : SUBSET Ids]
  /\ edited.content \subseteq edited.spelling

RegistryOK ==
  /\ DOMAIN records \subseteq DOMAIN pinned
  /\ PinsOK /\ EditsOK
  /\ \A id \in DOMAIN records : RecordOK(id)

\* What is served of the contexts that nobody edited.
Serves(contexts) ==
  \A id \in Ids \ edited.spelling :
    /\ id \in DOMAIN contexts <=> id \in DOMAIN records /\ Read(records, id).state = "READY"
    /\ id \in DOMAIN contexts => contexts[id] = pinned[id]

ServingOK == serving # Off => Serves(serving.config.contexts)

ConfigInv == RegistryOK /\ ServingOK

LEMMA CreatedIs ==
  ASSUME RegistryOK, NEW id \in DOMAIN records
  PROVE  Created(id) \in ContextRecords /\ Created(id).members # <<>>
  BY DEF RegistryOK, RecordOK, PinsOK, Created, ContextRecords, WrittenRecords

\* A record that nobody edited is read as it was created.
LEMMA UneditedIs ==
  ASSUME RegistryOK, NEW id \in DOMAIN records, id \notin edited.spelling
  PROVE  /\ Read(records, id) = Created(id)
         /\ Read(records, id) # Unreadable
         /\ OlderReads(records[id]) \in {Unreadable, Created(id)}
<1>1. records[id] = MarshalJSON(Created(id))
  BY DEF RegistryOK, RecordOK
<1>2. QED
  BY <1>1, CreatedIs, WrittenIsRead DEF Read

\* What reads is a context of its id.
LEMMA ReadableIs ==
  ASSUME RegistryOK, NEW id \in DOMAIN records, Read(records, id) # Unreadable
  PROVE  /\ Read(records, id) \in ContextRecords
         /\ Read(records, id).id = id
         /\ Read(records, id).members # <<>>
         /\ id \notin edited.content => Read(records, id).members = pinned[id]
<1>1. records[id] \in WrittenRecords /\ records[id].id = id
  BY DEF RegistryOK, RecordOK
<1>2. id \notin edited.content => Read(records, id) = Created(id)
  BY DEF RegistryOK, RecordOK
<1>3. QED
  BY <1>1, <1>2, ReadIs DEF Read, Created

\* What the state of a context leaves.
LEMMA InStateIs ==
  ASSUME NEW c \in ContextRecords, NEW s \in ContextStates
  PROVE  /\ InState(c, s) \in ContextRecords
         /\ InState(c, s).id = c.id
         /\ InState(c, s).state = s
         /\ InState(c, s).members = c.members
         /\ InState(c, s) = [id |-> c.id, state |-> s, members |-> c.members]
  BY DEF InState, ContextRecords

\* The record of a context that was just written.
LEMMA WrittenOK ==
  ASSUME NEW c \in ContextRecords, c.members # <<>>,
         NEW s \in ContextStates, NEW id, c.id = id,
         records'[id] = MarshalJSON(InState(c, s)),
         id \notin edited'.content => c.members = pinned'[id],
         edited'.content \subseteq edited'.spelling
  PROVE  RecordOK(id)'
<1> DEFINE d == InState(c, s)
<1>1. /\ d \in ContextRecords /\ d.id = id /\ d.state = s /\ d.members # <<>>
      /\ d = [id |-> id, state |-> s, members |-> c.members]
  BY InStateIs
<1> HIDE DEF d
<1>2. records'[id] = MarshalJSON(d)
  BY DEF d
<1>3. /\ records'[id] \in WrittenRecords /\ records'[id].id = id /\ records'[id].state = s
      /\ UnmarshalJSON(records'[id]) = d
  BY <1>1, <1>2, FieldsAre, WrittenIsRead
<1>4. id \notin edited'.content => d = Created(id)'
  BY <1>1, <1>3 DEF Created
<1>5. id \in Names
  BY DEF ContextRecords
<1>6. QED
  BY <1>2, <1>3, <1>4, <1>5 DEF RecordOK, Read

LEMMA RecordKept ==
  ASSUME NEW id, RecordOK(id), records'[id] = records[id], pinned'[id] = pinned[id],
         id \in edited'.content <=> id \in edited.content,
         id \in edited'.spelling <=> id \in edited.spelling
  PROVE  RecordOK(id)'
  BY DEF RecordOK, Created, Read

\* Writing the state of a context keeps the registry, also a record that was
\* edited and can be read.
LEMMA StateWritten ==
  ASSUME RegistryOK, NEW id \in DOMAIN records, Read(records, id) # Unreadable,
         NEW s \in ContextStates,
         records' = PutContext(records, InState(Read(records, id), s)),
         UNCHANGED <<pinned, edited>>
  PROVE  RegistryOK' /\ DOMAIN records' = DOMAIN records
<1> DEFINE c == Read(records, id)
<1>1. /\ c \in ContextRecords /\ c.id = id /\ c.members # <<>>
      /\ id \notin edited.content => c.members = pinned[id]
  BY ReadableIs
<1> HIDE DEF c
<1>2. records' = With(records, id, MarshalJSON(InState(c, s)))
  BY <1>1, InStateIs DEF c, PutContext
<1>3. /\ DOMAIN records' = DOMAIN records
      /\ records'[id] = MarshalJSON(InState(c, s))
      /\ \A x \in DOMAIN records : x # id => records'[x] = records[x]
  BY <1>1, <1>2 DEF With
<1>4. edited'.content \subseteq edited'.spelling
  BY DEF RegistryOK, EditsOK
<1>5. RecordOK(id)'
  BY <1>1, <1>3, <1>4, WrittenOK
<1>6. ASSUME NEW x \in DOMAIN records, x # id PROVE RecordOK(x)'
  <2>1. RecordOK(x) /\ records'[x] = records[x]
    BY <1>3, <1>6 DEF RegistryOK
  <2>2. QED
    BY <2>1, RecordKept
<1>7. (PinsOK /\ EditsOK)' /\ DOMAIN records' \subseteq DOMAIN pinned'
  BY <1>3 DEF RegistryOK, PinsOK, EditsOK
<1>8. QED
  BY <1>3, <1>5, <1>6, <1>7 DEF RegistryOK

LEMMA ForgottenIs ==
  ASSUME EditsOK, NEW id, edited' = Forgotten(id)
  PROVE  /\ EditsOK'
         /\ id \notin edited'.spelling
         /\ \A x : x # id => /\ x \in edited'.content <=> x \in edited.content
                             /\ x \in edited'.spelling <=> x \in edited.spelling
  BY DEF EditsOK, Forgotten

\* A context that is created has a record of its own.
LEMMA CreationWritten ==
  ASSUME RegistryOK, NEW c \in ContextRecords, c.members # <<>>, c.members[1] # Nothing,
         NEW s \in ContextStates,
         records' = PutContext(records, InState(c, s)),
         pinned' = With(pinned, c.id, c.members),
         edited' = Forgotten(c.id)
  PROVE  RegistryOK'
<1> DEFINE id == c.id
<1>1. records' = With(records, id, MarshalJSON(InState(c, s)))
  BY InStateIs DEF PutContext
<1>2. /\ DOMAIN records' = DOMAIN records \cup {id}
      /\ records'[id] = MarshalJSON(InState(c, s))
      /\ \A x \in DOMAIN records : x # id => records'[x] = records[x]
  BY <1>1 DEF With
<1>3. /\ DOMAIN pinned' = DOMAIN pinned \cup {id}
      /\ pinned'[id] = c.members
      /\ \A x \in DOMAIN pinned : x # id => pinned'[x] = pinned[x]
  BY DEF With
<1>4. /\ EditsOK'
      /\ \A x : x # id => /\ x \in edited'.content <=> x \in edited.content
                          /\ x \in edited'.spelling <=> x \in edited.spelling
  BY ForgottenIs DEF RegistryOK
<1>5. PinsOK'
  BY <1>3 DEF RegistryOK, PinsOK, ContextRecords
<1>6. RecordOK(id)'
  BY <1>2, <1>3, <1>4, WrittenOK DEF EditsOK
<1>7. ASSUME NEW x \in DOMAIN records, x # id PROVE RecordOK(x)'
  <2>1. RecordOK(x) /\ records'[x] = records[x] /\ pinned'[x] = pinned[x]
    BY <1>2, <1>3, <1>7 DEF RegistryOK
  <2>2. QED
    BY <1>4, <1>7, <2>1, RecordKept
<1>8. DOMAIN records' \subseteq DOMAIN pinned'
  BY <1>2, <1>3 DEF RegistryOK
<1>9. QED
  BY <1>2, <1>4, <1>5, <1>6, <1>7, <1>8 DEF RegistryOK

\* A context that is removed takes its pins and the edits of its record with it.
LEMMA RecordRemoved ==
  ASSUME RegistryOK, NEW id, NEW rs, DOMAIN rs = DOMAIN records,
         \A x \in DOMAIN records : x # id => rs[x] = records[x],
         records' = Without(rs, id),
         pinned' = Without(pinned, id),
         edited' = Forgotten(id)
  PROVE  RegistryOK'
<1>1. /\ DOMAIN records' = DOMAIN records \ {id}
      /\ \A x \in DOMAIN records : x # id => records'[x] = records[x]
  BY DEF Without, RestrictDomain, Restrict
<1>2. /\ DOMAIN pinned' = DOMAIN pinned \ {id}
      /\ \A x \in DOMAIN pinned : x # id => pinned'[x] = pinned[x]
  BY DEF Without, RestrictDomain, Restrict
<1>3. /\ EditsOK'
      /\ \A x : x # id => /\ x \in edited'.content <=> x \in edited.content
                          /\ x \in edited'.spelling <=> x \in edited.spelling
  BY ForgottenIs DEF RegistryOK
<1>4. PinsOK'
  BY <1>2 DEF RegistryOK, PinsOK
<1>5. ASSUME NEW x \in DOMAIN records, x # id PROVE RecordOK(x)'
  <2>1. RecordOK(x) /\ records'[x] = records[x] /\ pinned'[x] = pinned[x]
    BY <1>1, <1>2, <1>5 DEF RegistryOK
  <2>2. QED
    BY <1>3, <1>5, <2>1, RecordKept
<1>6. DOMAIN records' \subseteq DOMAIN pinned'
  BY <1>1, <1>2 DEF RegistryOK
<1>7. QED
  BY <1>1, <1>3, <1>4, <1>5, <1>6 DEF RegistryOK

\* An edit of a record is remembered, and with other members its members too.
LEMMA RecordEdited ==
  ASSUME RegistryOK, NEW id \in Ids, EditRecord(id)
  PROVE  /\ RegistryOK'
         /\ DOMAIN records' = DOMAIN records
         /\ edited'.spelling = edited.spelling \cup {id}
         /\ \A x \in DOMAIN records : x # id => records'[x] = records[x]
<1> DEFINE w == records[id]
           c == Read(records, id)
<1>1. id \in DOMAIN records /\ id \notin edited.spelling
  BY DEF EditRecord
<1>2. c = Created(id) /\ w = MarshalJSON(c)
  BY <1>1, UneditedIs DEF RegistryOK, RecordOK
<1>3. c \in ContextRecords /\ c.members # <<>> /\ c.id = id
  <2>1. Created(id) \in ContextRecords /\ Created(id).members # <<>>
    BY <1>1, CreatedIs
  <2>2. Created(id).id = id
    BY DEF Created
  <2>3. QED
    BY <1>2, <2>1, <2>2
<1>4. UNCHANGED pinned
  BY DEF EditRecord
<1>5. PICK e \in respelled(w, c) \cup rewritten(w, c) :
        /\ records' = [records EXCEPT ![id] = e]
        /\ IF e \in rewritten(w, c)
           THEN edited' = [edited EXCEPT !.spelling = @ \cup {id}, !.content = @ \cup {id}]
           ELSE edited' = [edited EXCEPT !.spelling = @ \cup {id}]
  BY DEF EditRecord
<1> HIDE DEF w, c
<1>6. /\ DOMAIN records' = DOMAIN records /\ records'[id] = e
      /\ \A x \in DOMAIN records : x # id => records'[x] = records[x]
  BY <1>1, <1>5
<1>7. e \in WrittenRecords /\ e.id = id
  BY <1>2, <1>3, RespelledIs, RewrittenIs
<1>8. e \notin rewritten(w, c) => UnmarshalJSON(e) \in {Unreadable, c}
  BY <1>2, <1>3, RespelledIs
<1>9. /\ edited \in [spelling : SUBSET Ids, content : SUBSET Ids]
      /\ edited.content \subseteq edited.spelling
  BY DEF RegistryOK, EditsOK
<1>10. /\ edited'.spelling = edited.spelling \cup {id}
       /\ edited'.content = IF e \in rewritten(w, c) THEN edited.content \cup {id}
                          ELSE edited.content
       /\ edited' \in [spelling : SUBSET Ids, content : SUBSET Ids]
  BY <1>5, <1>9
<1>11. EditsOK'
  BY <1>9, <1>10 DEF EditsOK
<1>12. RecordOK(id)'
  <2>1. id \in Names
    BY WritingAssumption DEF Ids
  <2>2. id \notin edited'.content => UnmarshalJSON(e) \in {Unreadable, Created(id)'}
    <3>1. UnmarshalJSON(e) \notin {Unreadable} => UnmarshalJSON(e).state = e.state
      BY <1>7, ReadIs
    <3>2. c = [id |-> id, state |-> c.state, members |-> pinned[id]]
      BY <1>2 DEF Created
    <3>3. Created(id)' = [id |-> id, state |-> e.state, members |-> pinned[id]]
      BY <1>4, <1>6 DEF Created
    <3>4. QED
      BY <1>8, <1>10, <3>1, <3>2, <3>3
  <2>3. QED
    BY <1>6, <1>7, <1>10, <2>1, <2>2 DEF RecordOK, Read
<1>13. ASSUME NEW x \in DOMAIN records, x # id PROVE RecordOK(x)'
  <2>1. RecordOK(x) /\ records'[x] = records[x] /\ pinned'[x] = pinned[x]
    BY <1>4, <1>6, <1>13 DEF RegistryOK
  <2>2. QED
    BY <1>10, <1>13, <2>1, RecordKept
<1>14. QED
  BY <1>4, <1>6, <1>10, <1>11, <1>12, <1>13 DEF RegistryOK, PinsOK
-----------------------------------------------------------------------------
(* What is served                                                          *)

\* Both spellings of a declaration mean the members they were written for.
LEMMA DeclaredIsMeant ==
  ASSUME NEW ms \in Seq(MemberRecords), ms # <<>>, ms[1] # Nothing
  PROVE  workspace(IF Len(ms) = 1 THEN Inline(ms[1]) ELSE Listed(ms)) = ms
<1>1. CASE Len(ms) = 1
  <2>1. workspace(Inline(ms[1])) = <<ms[1]>>
    BY DEF workspace, Inline
  <2>2. ms = <<ms[1]>>
    BY <1>1
  <2>3. QED
    BY <1>1, <2>1, <2>2
<1>2. CASE Len(ms) # 1
  BY <1>2 DEF workspace, Listed
<1>3. QED
  BY <1>1, <1>2

\* What is loaded of a configuration that was written down.
LEMMA LoadedIs ==
  ASSUME NEW cfg, Load(Marshal(cfg)).ok
  PROVE  /\ DOMAIN Load(Marshal(cfg)).config.contexts = DOMAIN cfg.contexts
         /\ \A id \in DOMAIN cfg.contexts :
              LET ms == cfg.contexts[id]
              IN  Load(Marshal(cfg)).config.contexts[id] =
                    workspace(IF Len(ms) = 1 THEN Inline(ms[1]) ELSE Listed(ms))
<1> DEFINE file == Marshal(cfg)
           read == [repositories |-> file.repositories,
                    contexts |-> [id \in DOMAIN file.contexts |-> workspace(file.contexts[id])]]
<1>1. Load(file) = Accepted(read)
  BY DEF Load, Refused
<1>2. Load(file).config = read
  BY <1>1 DEF Accepted
<1>3. /\ DOMAIN file.contexts = DOMAIN cfg.contexts
      /\ \A id \in DOMAIN cfg.contexts : file.contexts[id] =
           IF Len(cfg.contexts[id]) = 1 THEN Inline(cfg.contexts[id][1])
                                        ELSE Listed(cfg.contexts[id])
  BY DEF Marshal
<1> HIDE DEF file
<1>4. QED
  BY <1>2, <1>3 DEF file

\* A server is given the READY contexts, with the pins they were created with.
LEMMA ServedIs ==
  ASSUME RegistryOK, managedConfig(records).ok
  PROVE  Serves(managedConfig(records).config.contexts)
<1> DEFINE ready == readyContexts(readable(records))
           cfg == generated(ready)
           members(id) == (CHOOSE c \in ready : c.id = id).members
<1>1. \A c \in ready : c.id \in DOMAIN records /\ c = Read(records, c.id)
  <2>1. \A c \in ready : \E id \in DOMAIN records : c = Read(records, id) /\ c # Unreadable
    BY DEF readyContexts, readable, listRecords
  <2>2. QED
    BY <2>1, ReadableIs
<1>2. ASSUME NEW id \in Ids \ edited.spelling
      PROVE  (\E c \in ready : c.id = id) <=>
               id \in DOMAIN records /\ Read(records, id).state = "READY"
  <2>1. ASSUME NEW c \in ready, c.id = id
        PROVE  id \in DOMAIN records /\ Read(records, id).state = "READY"
    <3>1. c.state = "READY"
      BY DEF readyContexts
    <3>2. QED
      BY <1>1, <2>1, <3>1
  <2>2. ASSUME id \in DOMAIN records, Read(records, id).state = "READY"
        PROVE  \E c \in ready : c.id = id
    <3>1. Read(records, id) # Unreadable /\ Read(records, id).id = id
      BY <2>2, UneditedIs, ReadableIs
    <3>2. Read(records, id) \in ready
      BY <2>2, <3>1 DEF readyContexts, readable, listRecords
    <3>3. QED
      BY <3>1, <3>2
  <2>3. QED
    BY <2>1, <2>2
<1>3. ASSUME NEW id \in Ids \ edited.spelling, \E c \in ready : c.id = id
      PROVE  /\ members(id) = pinned[id]
             /\ pinned[id] \in Seq(MemberRecords) /\ pinned[id] # <<>> /\ pinned[id][1] # Nothing
  <2> DEFINE c == CHOOSE c \in ready : c.id = id
  <2>1. c \in ready /\ c.id = id
    BY <1>3
  <2> HIDE DEF c
  <2>2. id \in DOMAIN records /\ c = Read(records, id)
    BY <1>1, <2>1
  <2>3. c.members = pinned[id]
    BY <2>2, UneditedIs DEF Created
  <2>4. id \in DOMAIN pinned
    BY <2>2 DEF RegistryOK
  <2>5. QED
    BY <2>3, <2>4 DEF c, RegistryOK, PinsOK
<1>4. /\ DOMAIN cfg.contexts = {c.id : c \in ready}
      /\ \A id \in DOMAIN cfg.contexts : cfg.contexts[id] = members(id)
  BY DEF generated
<1>5. \/ managedConfig(records) = Accepted(NoConfig) /\ ready = {}
      \/ managedConfig(records) = Load(Marshal(cfg))
  <2>1. ~Refused("unreadable record").ok /\ ~Refused("INVALID_ARGUMENT").ok
    BY DEF Refused
  <2>2. QED
    BY <2>1 DEF managedConfig
<1> HIDE DEF ready, cfg, members
<1>6. CASE managedConfig(records) = Accepted(NoConfig) /\ ready = {}
  <2>1. DOMAIN managedConfig(records).config.contexts = {}
    BY <1>6 DEF Accepted, NoConfig
  <2>2. QED
    BY <1>2, <1>6, <2>1 DEF Serves
<1>7. CASE managedConfig(records) = Load(Marshal(cfg))
  <2> DEFINE served == managedConfig(records).config.contexts
  <2>1. /\ DOMAIN served = {c.id : c \in ready}
        /\ \A id \in DOMAIN served :
             LET ms == members(id)
             IN  served[id] = workspace(IF Len(ms) = 1 THEN Inline(ms[1]) ELSE Listed(ms))
    <3>1. Load(Marshal(cfg)).ok
      BY <1>7
    <3>2. /\ DOMAIN served = DOMAIN cfg.contexts
          /\ \A id \in DOMAIN cfg.contexts :
               LET ms == cfg.contexts[id]
               IN  served[id] = workspace(IF Len(ms) = 1 THEN Inline(ms[1]) ELSE Listed(ms))
      BY <1>7, <3>1, LoadedIs
    <3>3. QED
      BY <1>4, <3>2
  <2> HIDE DEF served
  <2>2. ASSUME NEW id \in Ids \ edited.spelling
        PROVE  id \in DOMAIN served <=> id \in DOMAIN records /\ Read(records, id).state = "READY"
    BY <1>2, <2>1
  <2>3. ASSUME NEW id \in Ids \ edited.spelling, id \in DOMAIN served
        PROVE  served[id] = pinned[id]
    <3>1. \E c \in ready : c.id = id
      BY <2>1, <2>3
    <3>2. served[id] = workspace(IF Len(pinned[id]) = 1 THEN Inline(pinned[id][1])
                                                        ELSE Listed(pinned[id]))
      BY <1>3, <2>1, <2>3, <3>1
    <3>3. QED
      BY <1>3, <3>1, <3>2, DeclaredIsMeant
  <2>4. Serves(served)
    BY <2>2, <2>3 DEF Serves
  <2>5. QED
    BY <2>4 DEF served
<1>8. QED
  BY <1>5, <1>6, <1>7
-----------------------------------------------------------------------------
(* The commands                                                            *)

LEMMA BuildWrites ==
  ASSUME NEW c, NEW d, NEW k, NEW end \in {"FAILED", "BUILDING"}, NEW strays,
         Build(c, d, k, end, strays)
  PROVE  \E s \in ContextStates : records' = PutContext(records, InState(c, s))
  BY DEF Build, Leaves, ContextStates

LEMMA PinIs ==
  ASSUME NEW pins \in Seq(PinRecords), NEW i \in DOMAIN pins
  PROVE  pins[i].repository \in Names
<1>1. pins[i] \in PinRecords
  OBVIOUS
<1>2. QED
  BY <1>1 DEF PinRecords

LEMMA SequenceOf ==
  ASSUME NEW S, NEW n \in Nat, NEW f, DOMAIN f = 1 .. n, f = [i \in 1 .. n |-> f[i]],
         \A i \in 1 .. n : f[i] \in S
  PROVE  f \in Seq(S) /\ Len(f) = n
  OBVIOUS

\* A context that is created is a context of the members it is given.
LEMMA MembersMade ==
  ASSUME NEW id \in Names, NEW pins \in Seq(PinRecords),
         NEW end \in {"FAILED", "BUILDING"}, CreateContext(id, pins, end)
  PROVE  \E c \in ContextRecords, s \in ContextStates :
           /\ c.id = id /\ c.members # <<>> /\ c.members[1] # Nothing
           /\ \A i \in DOMAIN c.members : c.members[i].repository \in DOMAIN states
           /\ records' = PutContext(records, InState(c, s))
           /\ pinned' = With(pinned, id, c.members)
           /\ edited' = Forgotten(id)
<1> DEFINE revision(i) == resolveRevision(disk, pins[i].repository, pins[i].ref)
           bare == [id |-> id, state |-> "CREATING", members |->
                      [i \in DOMAIN pins |-> Member(pins[i].repository, blank, revision(i), blank)]]
           c == [bare EXCEPT !.members = [i \in DOMAIN pins |->
                   [bare.members[i] EXCEPT !.branch = searchRef(bare, bare.members[i]),
                                           !.graphRef = graphRef(bare, bare.members[i])]]]
<1>1. /\ pins # <<>> /\ \A i \in DOMAIN pins : validateName(pins[i].repository)
      /\ \A i \in DOMAIN pins : pins[i].repository \in DOMAIN states /\ revision(i) \in Revisions
      /\ \E k, strays : Build(c, disk, k, end, strays)
      /\ pinned' = With(pinned, id, c.members)
      /\ edited' = Forgotten(id)
  BY DEF CreateContext, acceptedPins
<1> HIDE DEF revision
<1>2. \A i \in DOMAIN pins : /\ bare.members[i] \in MemberRecords
                             /\ bare.members[i].revision \in Revisions
                             /\ bare.members[i].repository = pins[i].repository
  <2>1. ASSUME NEW i \in DOMAIN pins
        PROVE  Member(pins[i].repository, blank, revision(i), blank) \in MemberRecords
    <3> HIDE DEF bare, c
    <3>1. pins[i].repository \in Names
      BY PinIs
    <3>2. revision(i) \in Names
      BY <1>1, WritingAssumption
    <3>3. QED
      BY <3>1, <3>2, BlankName DEF Member, MemberRecords
  <2>2. \A i \in DOMAIN pins :
          bare.members[i] = Member(pins[i].repository, blank, revision(i), blank)
    OBVIOUS
  <2> HIDE DEF bare
  <2> HIDE DEF c
  <2>3. ASSUME NEW i \in DOMAIN pins
        PROVE  /\ bare.members[i] \in MemberRecords
               /\ bare.members[i].revision \in Revisions
               /\ bare.members[i].repository = pins[i].repository
    <3>1. bare.members[i] = Member(pins[i].repository, blank, revision(i), blank)
      BY <2>2
    <3>2. revision(i) \in Revisions
      BY <1>1
    <3>3. bare.members[i] \in MemberRecords
      BY <2>1, <3>1
    <3>4. QED
      BY <3>1, <3>2, <3>3 DEF Member
  <2>4. QED
    BY <2>3
<1>3. bare \in ContextRecords
  <2>1. bare.members \in Seq(MemberRecords)
    BY <1>2
  <2>2. QED
    BY <2>1 DEF ContextRecords, ContextStates
<1>4. bare.id = id /\ bare.state = "CREATING"
  OBVIOUS
<1> DEFINE ms == [i \in DOMAIN pins |->
                   [bare.members[i] EXCEPT !.branch = searchRef(bare, bare.members[i]),
                                           !.graphRef = graphRef(bare, bare.members[i])]]
<1>5. /\ c.id = id /\ c.members = ms
      /\ c \in [id : {id}, state : {"CREATING"}, members : {ms}]
  OBVIOUS
<1> HIDE DEF bare, c
<1>6. ASSUME NEW i \in DOMAIN pins
      PROVE  ms[i] \in MemberRecords /\ ms[i].repository = pins[i].repository
  <2>1. searchRef(bare, bare.members[i]) \in Names /\ graphRef(bare, bare.members[i]) \in Names
    BY <1>2, <1>3, SearchName, GraphName
  <2>2. QED
    BY <1>2, <2>1 DEF MemberRecords
<1>7. ms \in Seq(MemberRecords) /\ ms # <<>> /\ ms[1].repository # blank
  <2>1. DOMAIN pins = 1 .. Len(pins) /\ Len(pins) \in Nat /\ Len(pins) # 0
    BY <1>1
  <2> DEFINE member(i) == [bare.members[i] EXCEPT !.branch = searchRef(bare, bare.members[i]),
                                                  !.graphRef = graphRef(bare, bare.members[i])]
  <2>2. \A i \in 1 .. Len(pins) : member(i) \in MemberRecords
    BY <1>6, <2>1
  <2>3. ms = [i \in 1 .. Len(pins) |-> member(i)]
    BY <2>1
  <2> HIDE DEF member
  <2>4. ms \in Seq(MemberRecords) /\ Len(ms) = Len(pins)
    <3>1. DOMAIN ms = 1 .. Len(pins) /\ ms = [i \in 1 .. Len(pins) |-> ms[i]]
      BY <2>3
    <3>2. \A i \in 1 .. Len(pins) : ms[i] \in MemberRecords
      BY <2>2, <2>3
    <3> HIDE DEF ms
    <3>3. QED
      BY <2>1, <3>1, <3>2, SequenceOf
  <2> HIDE DEF ms
  <2>5. ms # <<>>
    BY <2>1, <2>4
  <2>6. ms[1].repository # blank
    <3>1. 1 \in DOMAIN pins
      BY <2>1
    <3>2. QED
      BY <1>1, <1>6, <3>1 DEF validateName
  <2>7. QED
    BY <2>4, <2>5, <2>6
<1>8. c \in ContextRecords
  BY <1>5, <1>7 DEF ContextRecords, ContextStates
<1>9. \E s \in ContextStates : records' = PutContext(records, InState(c, s))
  BY <1>1, BuildWrites
<1>10. DOMAIN ms = DOMAIN pins
  OBVIOUS
<1> HIDE DEF ms
<1>11. \A i \in DOMAIN c.members : c.members[i].repository \in DOMAIN states
  BY <1>1, <1>5, <1>6, <1>10
<1>12. QED
  BY <1>1, <1>5, <1>7, <1>8, <1>9, <1>11, NothingIs

Ends == {"FAILED", "BUILDING"}

\* The commands that write records run while nothing is served.
LEMMA CreateStep ==
  ASSUME ConfigInv, NEW q \in Pinnings, NEW end \in Ends, CreateContext(q.id, q.pins, end)
  PROVE  ConfigInv'
<1>1. q.id \in Names /\ q.pins \in Seq(PinRecords)
  BY WritingAssumption
<1>2. PICK c \in ContextRecords, s \in ContextStates :
           /\ c.id = q.id /\ c.members # <<>> /\ c.members[1] # Nothing
           /\ records' = PutContext(records, InState(c, s))
           /\ pinned' = With(pinned, q.id, c.members)
           /\ edited' = Forgotten(q.id)
  BY <1>1, MembersMade DEF Ends
<1>3. RegistryOK'
  BY <1>2, CreationWritten DEF ConfigInv
<1>4. serving' = Off
  BY DEF CreateContext
<1>5. QED
  BY <1>3, <1>4 DEF ConfigInv, ServingOK, Off

LEMMA RetryStep ==
  ASSUME ConfigInv, NEW id \in Ids, NEW end \in Ends, RetryContext(id, end)
  PROVE  ConfigInv'
<1> DEFINE c == Read(records, id)
<1>1. id \in DOMAIN records /\ c # Unreadable /\ UNCHANGED <<pinned, edited>> /\ serving' = Off
  BY DEF RetryContext
<1>2. \/ \E s \in ContextStates : records' = PutContext(records, InState(c, s))
      \/ UNCHANGED records
  <2>1. \/ \E d, k : Build(c, d, k, end, {})
        \/ \E d : Leaves(records, d, {})
    BY DEF RetryContext
  <2>2. CASE \E d, k : Build(c, d, k, end, {})
    BY <2>2, BuildWrites DEF Ends
  <2>3. CASE \E d : Leaves(records, d, {})
    BY <2>3 DEF Leaves
  <2>4. QED
    BY <2>1, <2>2, <2>3
<1>3. RegistryOK'
  <2>1. CASE \E s \in ContextStates : records' = PutContext(records, InState(c, s))
    BY <1>1, <2>1, StateWritten DEF ConfigInv
  <2>2. CASE UNCHANGED records
    BY <1>1, <2>2 DEF ConfigInv, RegistryOK, PinsOK, EditsOK, RecordOK, Created, Read
  <2>3. QED
    BY <1>2, <2>1, <2>2
<1>4. QED
  BY <1>1, <1>3 DEF ConfigInv, ServingOK

LEMMA RemoveStep ==
  ASSUME ConfigInv, NEW id \in Ids, RemoveContext(id)
  PROVE  ConfigInv'
<1> DEFINE c == Read(records, id)
           begun == PutContext(records, InState(c, "REMOVING"))
<1>1. id \in DOMAIN records /\ c # Unreadable /\ serving' = Off
  BY DEF RemoveContext
<1>2. \/ /\ records' = Without(begun, id)
         /\ pinned' = Without(pinned, id)
         /\ edited' = Forgotten(id)
      \/ records' = begun /\ UNCHANGED <<pinned, edited>>
  BY DEF RemoveContext, Leaves
<1>3. c.id = id /\ c \in ContextRecords
  BY <1>1, ReadableIs DEF ConfigInv
<1>4. /\ DOMAIN begun = DOMAIN records
      /\ \A x \in DOMAIN records : x # id => begun[x] = records[x]
  <2> HIDE DEF c
  <2>1. InState(c, "REMOVING").id = id
    BY <1>3, InStateIs DEF ContextStates
  <2>2. QED
    BY <1>1, <2>1 DEF PutContext, With
<1>5. RegistryOK'
  <2>1. CASE /\ records' = Without(begun, id)
             /\ pinned' = Without(pinned, id)
             /\ edited' = Forgotten(id)
    <3> HIDE DEF begun
    <3>1. QED
      BY <1>4, <2>1, RecordRemoved DEF ConfigInv
  <2>2. CASE records' = begun /\ UNCHANGED <<pinned, edited>>
    BY <1>1, <2>2, StateWritten DEF ConfigInv, ContextStates
  <2>3. QED
    BY <1>2, <2>1, <2>2
<1>6. QED
  BY <1>1, <1>5 DEF ConfigInv, ServingOK

\* An edit takes its context out of what a server promises.
LEMMA EditStep ==
  ASSUME ConfigInv, NEW id \in Ids, EditRecord(id)
  PROVE  ConfigInv'
<1>1. /\ RegistryOK'
      /\ DOMAIN records' = DOMAIN records
      /\ edited'.spelling = edited.spelling \cup {id}
      /\ \A x \in DOMAIN records : x # id => records'[x] = records[x]
  BY RecordEdited DEF ConfigInv
<1>2. UNCHANGED <<pinned, serving>>
  BY DEF EditRecord
<1>3. ASSUME Serves(serving.config.contexts) PROVE Serves(serving.config.contexts)'
  <2>1. ASSUME NEW x \in Ids \ edited'.spelling
        PROVE  x \in Ids \ edited.spelling /\ x # id
    BY <1>1, <2>1
  <2>2. QED
    BY <1>1, <1>2, <1>3, <2>1 DEF Serves, Read
<1>4. QED
  BY <1>1, <1>2, <1>3 DEF ConfigInv, ServingOK, Off

LEMMA ServeStep == ASSUME ConfigInv, Serve PROVE ConfigInv'
<1>1. UNCHANGED <<records, pinned, edited>>
  BY DEF Serve
<1>2. RegistryOK'
  BY <1>1 DEF ConfigInv, RegistryOK, PinsOK, EditsOK, RecordOK, Created, Read
<1>3. \/ serving' = Off
      \/ /\ managedConfig(records).ok
         /\ serving' = [running |-> TRUE, config |-> managedConfig(records).config]
  BY DEF Serve
<1>4. ASSUME managedConfig(records).ok,
             serving' = [running |-> TRUE, config |-> managedConfig(records).config]
      PROVE  Serves(serving.config.contexts)'
  <2>1. Serves(managedConfig(records).config.contexts)
    BY <1>4, ServedIs DEF ConfigInv
  <2>2. serving'.config.contexts = managedConfig(records).config.contexts
    BY <1>4
  <2>3. QED
    BY <1>1, <2>1, <2>2 DEF Serves, Read
<1>5. QED
  BY <1>2, <1>3, <1>4 DEF ConfigInv, ServingOK, Off

\* What leaves the registry alone, and what is served or nothing.
LEMMA OtherStep ==
  ASSUME ConfigInv, UNCHANGED <<records, pinned, edited>>, serving' \in {Off, serving}
  PROVE  ConfigInv'
<1>1. RegistryOK'
  BY DEF ConfigInv, RegistryOK, PinsOK, EditsOK, RecordOK, Created, Read
<1>2. ServingOK'
  BY DEF ConfigInv, ServingOK, Serves, Read, Off
<1>3. QED
  BY <1>1, <1>2 DEF ConfigInv

LEMMA ConfigInit == Init => ConfigInv
<1> SUFFICES ASSUME Init PROVE ConfigInv
  OBVIOUS
<1>1. DOMAIN records = {} /\ DOMAIN pinned = {}
  BY DEF Init
<1>2. EditsOK
  BY DEF Init, EditsOK
<1>3. RegistryOK
  BY <1>1, <1>2 DEF RegistryOK, PinsOK
<1>4. QED
  BY <1>3 DEF Init, ConfigInv, ServingOK, Off

LEMMA ConfigInductive == ConfigInv /\ [Next]_vars => ConfigInv'
<1> SUFFICES ASSUME ConfigInv, [Next]_vars PROVE ConfigInv'
  OBVIOUS
<1>1. CASE UNCHANGED vars
  BY <1>1, OtherStep DEF vars
<1>2. CASE \E p \in Pinnings, end \in Ends : CreateContext(p.id, p.pins, end)
  BY <1>2, CreateStep
<1>3. CASE \E id \in Ids, end \in Ends : RetryContext(id, end)
  BY <1>3, RetryStep
<1>4. CASE \E id \in Ids : RemoveContext(id)
  BY <1>4, RemoveStep
<1>5. CASE \E id \in Ids : EditRecord(id)
  BY <1>5, EditStep
<1>6. CASE Serve
  BY <1>6, ServeStep
<1>7. CASE \/ \E id \in Ids : VerifyContext(id)
           \/ \E r \in Repos : Sync(r)
           \/ Stop \/ DoctorReads \/ \E e \in Usual : DoctorReports(e)
  <2>1. UNCHANGED <<records, pinned, edited>> /\ serving' \in {Off, serving}
    BY <1>7 DEF VerifyContext, Sync, Stop, DoctorReads, DoctorReports
  <2>2. QED
    BY <2>1, OtherStep
<1>8. CASE \/ \E file \in Files : HandWritten(file)
           \/ \E r \in Pushed, v \in Revisions : Push(r, v)
           \/ \E id \in Ids : Lose(id)
           \/ Heard
  <2>1. UNCHANGED <<records, pinned, edited>> /\ serving' \in {Off, serving}
    BY <1>8 DEF HandWritten, Validate, DoctorFile, Push, Lose, Heard
  <2>2. QED
    BY <2>1, OtherStep
<1>9. QED
  BY <1>1, <1>2, <1>3, <1>4, <1>5, <1>6, <1>7, <1>8 DEF Next, Ends

LEMMA ConfigInvariance == Spec => []ConfigInv
  BY ConfigInit, ConfigInductive, PTL DEF Spec

\* A record reads back as it was created or not at all, v0.4.0 refuses it or reads
\* the same, and a managed server runs on the READY contexts with the pins of
\* their creation, for any names, pins and number of edits.
THEOREM ServesPins == Spec => []ServedAsPinned
<1>1. ConfigInv => ServedAsPinned
  <2> SUFFICES ASSUME ConfigInv PROVE ServedAsPinned
    OBVIOUS
  <2>1. ASSUME NEW id \in DOMAIN records \ edited.content, Read(records, id) # Unreadable
        PROVE  Read(records, id).members = pinned[id]
    BY <2>1, ReadableIs DEF ConfigInv
  <2>2. ASSUME NEW id \in DOMAIN records \ edited.content, id \notin edited.spelling
        PROVE  /\ Read(records, id) # Unreadable
               /\ OlderReads(records[id]) \in {Unreadable, Read(records, id)}
    BY <2>2, UneditedIs DEF ConfigInv
  <2>3. serving # Off => Serves(serving.config.contexts)
    BY DEF ConfigInv, ServingOK
  <2>4. QED
    BY <2>1, <2>2, <2>3 DEF ServedAsPinned, Serves
<1>2. QED
  BY <1>1, ConfigInvariance, PTL

-----------------------------------------------------------------------------
(* A file                                                                  *)

\* Sorted has each member of S once.
LEMMA SortedIs ==
  ASSUME NEW S
  PROVE  /\ IsList(Sorted(S))
         /\ \A k \in DOMAIN Sorted(S) : Sorted(S)[k] \in S
         /\ \A x \in S \cap ToSet(Alphabet) : \E k \in DOMAIN Sorted(S) : Sorted(S)[k] = x
         /\ \A k, l \in DOMAIN Sorted(S) : Sorted(S)[k] = Sorted(S)[l] => k = l
<1> DEFINE I == {i \in DOMAIN Alphabet : Alphabet[i] \in S}
           K == Keep(Alphabet, I)
           n == Len(K)
<1>1. IsList(Alphabet) /\ \A a, b \in DOMAIN Alphabet : Alphabet[a] = Alphabet[b] => a = b
  BY NamesAssumption, SeqIsList DEF IsInjective
<1>2. IsList(K) /\ \E pos : KeepOK(Alphabet, I, K, pos)
  BY <1>1, KeepIs
<1>3. PICK pos : KeepOK(Alphabet, I, K, pos)
  BY <1>2
<1>4. n \in Nat /\ DOMAIN K = 1 .. n
  BY <1>2, ListHas
<1>5. Sorted(S) = K
  BY DEF Sorted
<1> HIDE DEF K
<1>6. /\ \A k \in 1 .. n : pos[k] \in DOMAIN Alphabet /\ Alphabet[pos[k]] \in S
      /\ \A k, l \in 1 .. n : k < l => pos[k] < pos[l]
      /\ \A i \in DOMAIN Alphabet : Alphabet[i] \in S => \E k \in 1 .. n : pos[k] = i
      /\ \A k \in 1 .. n : K[k] = Alphabet[pos[k]]
  BY <1>3, <1>4 DEF KeepOK
<1>7. \A k \in 1 .. n : K[k] \in S
  BY <1>6
<1>8. ASSUME NEW x \in S \cap ToSet(Alphabet) PROVE \E k \in 1 .. n : K[k] = x
  <2>1. PICK i \in DOMAIN Alphabet : Alphabet[i] = x
    BY DEF ToSet
  <2>2. QED
    BY <1>6, <2>1
<1>9. ASSUME NEW k \in 1 .. n, NEW l \in 1 .. n, K[k] = K[l] PROVE k = l
  <2>1. pos[k] = pos[l]
    BY <1>1, <1>6, <1>9
  <2>2. \A a \in DOMAIN Alphabet : a \in Nat
    BY <1>1, ListHas
  <2>3. k \in Nat /\ l \in Nat /\ pos[k] \in Nat /\ pos[l] \in Nat
    BY <1>4, <1>6, <2>2
  <2>4. ~(k < l) /\ ~(l < k)
    BY <1>6, <2>1, <2>3
  <2>5. QED
    BY <2>3, <2>4
<1>10. QED
  BY <1>2, <1>4, <1>5, <1>7, <1>8, <1>9

\* What is sorted is in the order of the names.
LEMMA SortedRises ==
  ASSUME NEW S, NEW k \in DOMAIN Sorted(S), NEW l \in DOMAIN Sorted(S),
         NEW i \in DOMAIN Alphabet, NEW j \in DOMAIN Alphabet,
         Sorted(S)[k] = Alphabet[i], Sorted(S)[l] = Alphabet[j]
  PROVE  k <= l <=> i <= j
<1> DEFINE I == {a \in DOMAIN Alphabet : Alphabet[a] \in S}
           K == Keep(Alphabet, I)
<1>1. IsList(Alphabet) /\ \A a, b \in DOMAIN Alphabet : Alphabet[a] = Alphabet[b] => a = b
  BY NamesAssumption, SeqIsList DEF IsInjective
<1>2. IsList(K) /\ \E pos : KeepOK(Alphabet, I, K, pos)
  BY <1>1, KeepIs
<1>3. PICK pos : KeepOK(Alphabet, I, K, pos)
  BY <1>2
<1>4. PICK n \in Nat : n = Len(K) /\ DOMAIN K = 1 .. n
  BY <1>2, ListHas
<1>5. Sorted(S) = K
  BY DEF Sorted
<1> HIDE DEF K
<1>6. /\ \A a \in 1 .. n : pos[a] \in DOMAIN Alphabet /\ K[a] = Alphabet[pos[a]]
      /\ \A a, b \in 1 .. n : a < b => pos[a] < pos[b]
  BY <1>3, <1>4 DEF KeepOK
<1>7. k \in 1 .. n /\ l \in 1 .. n
  BY <1>4, <1>5
<1>8. pos[k] = i /\ pos[l] = j
  BY <1>1, <1>5, <1>6, <1>7
<1>9. \A a \in DOMAIN Alphabet : a \in Nat
  BY <1>1, ListHas
<1>10. i \in Nat /\ j \in Nat
  BY <1>9
<1>11. (k < l => i < j) /\ (l < k => j < i) /\ (k = l => i = j)
  BY <1>6, <1>7, <1>8
<1>12. QED
  BY <1>7, <1>10, <1>11

Declared(id, k, m) == [id |-> id, at |-> k, member |-> m]

\* x is about context id of cfg: a member of it, or that it has none.
EntryOf(cfg, id, x) ==
  LET ms == cfg.contexts[id]
  IN  IF ms = <<>> THEN x = Declared(id, 0, Nothing)
      ELSE \E k \in DOMAIN ms : x = Declared(id, k, ms[k])

\* A configuration whose contexts have names that can be sorted.
ConfigOK(cfg) ==
  /\ DOMAIN cfg.contexts \subseteq ToSet(Alphabet)
  /\ \A id \in DOMAIN cfg.contexts : cfg.contexts[id] \in Seq(MemberRecords)

LEMMA EntriesAre ==
  ASSUME NEW cfg, ConfigOK(cfg)
  PROVE  /\ IsList(Entries(cfg))
         /\ \A p \in DOMAIN Entries(cfg) : \E id \in DOMAIN cfg.contexts :
              EntryOf(cfg, id, Entries(cfg)[p])
         /\ \A id \in DOMAIN cfg.contexts : \A x : EntryOf(cfg, id, x) =>
              \E p \in DOMAIN Entries(cfg) : Entries(cfg)[p] = x
<1> DEFINE ids == Sorted(DOMAIN cfg.contexts)
           entry(id, k) == [id |-> id, at |-> k, member |-> cfg.contexts[id][k]]
           of(id) == IF cfg.contexts[id] = <<>> THEN <<[id |-> id, at |-> 0, member |-> Nothing]>>
                     ELSE [k \in DOMAIN cfg.contexts[id] |-> entry(id, k)]
           S == [i \in DOMAIN ids |-> of(ids[i])]
           E == FlattenSeq(S)
           n == Len(ids)
<1>1. E = Entries(cfg)
  BY DEF Entries
<1>2. /\ IsList(ids) /\ \A i \in DOMAIN ids : ids[i] \in DOMAIN cfg.contexts
      /\ \A id \in DOMAIN cfg.contexts : \E i \in DOMAIN ids : ids[i] = id
  BY SortedIs DEF ConfigOK
<1> HIDE DEF ids
<1>3. n \in Nat /\ DOMAIN ids = 1 .. n
  BY <1>2, ListHas
<1>4. ASSUME NEW id \in DOMAIN cfg.contexts
      PROVE  /\ IsList(of(id)) /\ DOMAIN of(id) = 1 .. Len(of(id))
             /\ \A k \in DOMAIN of(id) : EntryOf(cfg, id, of(id)[k])
             /\ \A x : EntryOf(cfg, id, x) => \E k \in DOMAIN of(id) : x = of(id)[k]
  <2> DEFINE ms == cfg.contexts[id]
  <2>1. ms \in Seq(MemberRecords)
    BY DEF ConfigOK
  <2>2. CASE ms = <<>>
    <3>1. of(id) = <<Declared(id, 0, Nothing)>>
      BY <2>2 DEF Declared
    <3> HIDE DEF of
    <3>a. \A d : <<d>> \in Seq({d}) /\ DOMAIN <<d>> = 1 .. 1 /\ Len(<<d>>) = 1 /\ <<d>>[1] = d
      OBVIOUS
    <3>2. of(id) \in Seq({Declared(id, 0, Nothing)}) /\ DOMAIN of(id) = 1 .. 1 /\ Len(of(id)) = 1
          /\ of(id)[1] = Declared(id, 0, Nothing)
      BY <3>1, <3>a
    <3>3. IsList(of(id))
      BY <3>2, SeqIsList
    <3>4. QED
      BY <2>2, <3>2, <3>3 DEF EntryOf
  <2>3. CASE ms # <<>>
    <3>1. PICK l \in Nat : l = Len(ms)
      BY <2>1
    <3>2. of(id) = [k \in 1 .. l |-> Declared(id, k, ms[k])]
      BY <2>1, <2>3, <3>1 DEF Declared
    <3>3. IsList(of(id)) /\ DOMAIN of(id) = 1 .. l /\ Len(of(id)) = l
      <4> HIDE DEF of
      <4>1. of(id) = [k \in 1 .. l |-> of(id)[k]]
        BY <3>2
      <4>2. QED
        BY <4>1, ListIs
    <3>4. DOMAIN ms = 1 .. l
      BY <2>1, <3>1
    <3> HIDE DEF of
    <3>5. \A k \in 1 .. l : of(id)[k] = Declared(id, k, ms[k])
      BY <3>2
    <3>6. QED
      BY <2>3, <3>3, <3>4, <3>5 DEF EntryOf
  <2>4. QED
    BY <2>2, <2>3
<1> HIDE DEF of
<1>5. /\ IsList(S) /\ DOMAIN S = 1 .. n /\ Len(S) = n
      /\ \A i \in 1 .. n : S[i] = of(ids[i])
  <2>1. S = [i \in 1 .. n |-> S[i]]
    BY <1>3
  <2>2. \A i \in 1 .. n : S[i] = of(ids[i])
    BY <1>3
  <2> HIDE DEF S
  <2>3. QED
    BY <1>3, <2>1, <2>2, ListIs
<1> HIDE DEF S
<1>6. \A i \in DOMAIN S : IsList(S[i])
  BY <1>2, <1>3, <1>4, <1>5
<1>7. IsList(E) /\ \E off : FlatAll(S, E, off)
  BY <1>5, <1>6, FlatHas
<1>8. PICK off : FlatAll(S, E, off)
  BY <1>7
<1> HIDE DEF E
<1>9. DOMAIN E = 1 .. Len(E)
  BY <1>7, ListHas
<1>10. /\ \A i \in 1 .. n : \A k \in 1 .. Len(S[i]) :
            off[i - 1] + k \in DOMAIN E /\ E[off[i - 1] + k] = S[i][k]
       /\ \A p \in DOMAIN E : \E i \in 1 .. n : \E k \in 1 .. Len(S[i]) : p = off[i - 1] + k
  BY <1>5, <1>8, <1>9 DEF FlatAll
<1>11. ASSUME NEW p \in DOMAIN E
       PROVE  \E id \in DOMAIN cfg.contexts : EntryOf(cfg, id, E[p])
  <2>1. PICK i \in 1 .. n : \E k \in 1 .. Len(S[i]) : p = off[i - 1] + k
    BY <1>10
  <2>2. PICK k \in 1 .. Len(S[i]) : p = off[i - 1] + k
    BY <2>1
  <2>a. ids[i] \in DOMAIN cfg.contexts
    BY <1>2, <1>3
  <2>b. S[i] = of(ids[i])
    BY <1>5
  <2>c. k \in DOMAIN of(ids[i])
    BY <1>4, <2>a, <2>b
  <2>3. E[p] = of(ids[i])[k] /\ k \in DOMAIN of(ids[i]) /\ ids[i] \in DOMAIN cfg.contexts
    BY <1>10, <2>2, <2>a, <2>b, <2>c
  <2>4. QED
    BY <1>4, <2>3
<1>12. ASSUME NEW id \in DOMAIN cfg.contexts, NEW x, EntryOf(cfg, id, x)
       PROVE  \E p \in DOMAIN E : E[p] = x
  <2>1. PICK k \in DOMAIN of(id) : x = of(id)[k]
    BY <1>4, <1>12
  <2>2. PICK i \in 1 .. n : ids[i] = id
    BY <1>2, <1>3
  <2>3. k \in 1 .. Len(S[i]) /\ S[i][k] = x
    BY <1>4, <1>5, <2>1, <2>2
  <2>4. QED
    BY <1>10, <2>3
<1>13. QED
  BY <1>1, <1>7, <1>11, <1>12

\* A set of numbers up to n that is not empty has a greatest.
LEMMA Greatest ==
  ASSUME NEW n \in Nat, NEW S \in SUBSET (1 .. n), S # {}
  PROVE  \E m \in S : \A k \in S : k <= m
<1> DEFINE D == {d \in Nat : \E m \in S : d = n - m}
<1>1. PICK m \in S : TRUE
  OBVIOUS
<1>2. n - m \in D
  OBVIOUS
<1>3. PICK d \in D : \A e \in D : d <= e
  BY <1>2, Least
<1>4. PICK g \in S : d = n - g
  OBVIOUS
<1>5. ASSUME NEW k \in S PROVE k <= g
  <2>1. n - k \in D
    OBVIOUS
  <2>2. d <= n - k
    BY <1>3, <2>1
  <2>3. QED
    BY <1>4, <2>2
<1>6. QED
  BY <1>5

\* Where entry i has its graph already.
GraphBefore(E, i) == {j \in 1 .. i - 1 : E[j].member.graphRef = E[i].member.graphRef}

LastBefore(E, i) == CHOOSE j \in GraphBefore(E, i) : \A k \in GraphBefore(E, i) : k <= j

Agree(E, i, j) ==
  E[i].member.graphRef = E[j].member.graphRef =>
    /\ E[i].member.repository = E[j].member.repository
    /\ E[i].member.revision = E[j].member.revision

\* If each entry agrees with the last one before it that has its graph, any two
\* entries agree.
LEMMA AllAgree ==
  ASSUME NEW n \in Nat, NEW E
  PROVE  (\A i \in 1 .. n : GraphBefore(E, i) # {} => ~clashes(E[i].member, E[LastBefore(E, i)].member))
           <=> \A i, j \in 1 .. n : Agree(E, i, j)
<1>1. ASSUME NEW i \in 1 .. n, GraphBefore(E, i) # {}
      PROVE  LastBefore(E, i) \in GraphBefore(E, i) /\ \A k \in GraphBefore(E, i) : k <= LastBefore(E, i)
  <2>1. GraphBefore(E, i) \in SUBSET (1 .. n)
    BY DEF GraphBefore
  <2>2. \E m \in GraphBefore(E, i) : \A k \in GraphBefore(E, i) : k <= m
    BY <1>1, <2>1, Greatest
  <2>3. QED
    BY <2>2 DEF LastBefore
<1>2. ASSUME NEW i \in 1 .. n, NEW j \in GraphBefore(E, i)
      PROVE  j \in 1 .. n /\ j < i /\ (~clashes(E[i].member, E[j].member) <=> Agree(E, i, j))
  BY DEF GraphBefore, clashes, Agree
<1>3. ASSUME \A i, j \in 1 .. n : Agree(E, i, j), NEW i \in 1 .. n, GraphBefore(E, i) # {}
      PROVE  ~clashes(E[i].member, E[LastBefore(E, i)].member)
  BY <1>1, <1>2, <1>3
<1>4. ASSUME \A i \in 1 .. n : GraphBefore(E, i) # {} => ~clashes(E[i].member, E[LastBefore(E, i)].member)
      PROVE  \A i, j \in 1 .. n : Agree(E, i, j)
  <2> DEFINE W == {i \in 1 .. n : \E j \in 1 .. i - 1 : ~Agree(E, i, j)}
  <2>1. W = {}
    <3> SUFFICES ASSUME W # {} PROVE FALSE
      OBVIOUS
    <3>0. W \in SUBSET Nat
      OBVIOUS
    <3>1. PICK i \in W : \A k \in W : i <= k
      BY <3>0, Least
    <3>2. PICK j \in 1 .. i - 1 : ~Agree(E, i, j)
      OBVIOUS
    <3>3. i \in 1 .. n /\ j \in GraphBefore(E, i)
      BY <3>2 DEF Agree, GraphBefore
    <3>4. PICK l \in GraphBefore(E, i) : l = LastBefore(E, i) /\ j <= l
      BY <1>1, <3>3
    <3>5. Agree(E, i, l) /\ l \in 1 .. n /\ l < i
      BY <1>2, <1>4, <3>3, <3>4
    <3>6. l \notin W
      BY <3>1, <3>5
    <3>7. j = l \/ Agree(E, l, j)
      BY <3>2, <3>4, <3>5, <3>6
    <3>8. E[l].member.graphRef = E[i].member.graphRef /\ E[j].member.graphRef = E[i].member.graphRef
      BY <3>3, <3>4 DEF GraphBefore
    <3>9. QED
      BY <3>2, <3>5, <3>7, <3>8 DEF Agree
  <2>2. ASSUME NEW i \in 1 .. n, NEW j \in 1 .. n PROVE Agree(E, i, j)
    <3>1. i < j \/ j < i \/ i = j
      OBVIOUS
    <3>2. j < i => Agree(E, i, j)
      BY <2>1
    <3>3. i < j => Agree(E, j, i)
      BY <2>1
    <3>4. QED
      BY <3>1, <3>2, <3>3 DEF Agree
  <2>3. QED
    BY <2>2
<1>5. QED
  BY <1>3, <1>4

\* What is asked of the entry x alone, and of its context.
Right(cfg, x) ==
  /\ x.id # blank /\ x.at # 0
  /\ blank \notin {x.member.repository, x.member.branch, x.member.revision, x.member.graphRef}
  /\ x.member.repository \in DOMAIN cfg.repositories
  /\ \A k \in 1 .. x.at - 1 : cfg.contexts[x.id][k].repository # x.member.repository

LEMMA VerdictIs ==
  ASSUME NEW cfg, NEW E, NEW i
  PROVE  verdict(cfg, E, i) = "ok" <=>
           /\ Right(cfg, E[i])
           /\ GraphBefore(E, i) # {} => ~clashes(E[i].member, E[LastBefore(E, i)].member)
<1> DEFINE x == E[i]
           m == x.member
           other == E[LastBefore(E, i)].member
           clash == GraphBefore(E, i) # {} /\ clashes(m, other)
           repeated == \E k \in 1 .. x.at - 1 : cfg.contexts[x.id][k].repository = m.repository
<1>1. verdict(cfg, E, i) =
        CASE x.id = blank \/ x.at = 0 -> "INVALID_ARGUMENT"
          [] blank \in {m.repository, m.branch, m.revision, m.graphRef} -> "INVALID_ARGUMENT"
          [] m.repository \notin DOMAIN cfg.repositories -> "REPOSITORY_NOT_FOUND"
          [] repeated -> "INVALID_ARGUMENT"
          [] clash -> "INVALID_ARGUMENT"
          [] OTHER -> "ok"
  BY DEF verdict, GraphBefore, LastBefore
<1> HIDE DEF clash, m, repeated
<1>2. verdict(cfg, E, i) = "ok" <=>
        /\ ~(x.id = blank \/ x.at = 0)
        /\ blank \notin {m.repository, m.branch, m.revision, m.graphRef}
        /\ m.repository \in DOMAIN cfg.repositories
        /\ ~repeated /\ ~clash
  BY <1>1
<1>3. QED
  BY <1>2 DEF Right, clash, m, repeated

LEMMA ValidIs ==
  ASSUME NEW cfg, ConfigOK(cfg)
  PROVE  LET E == Entries(cfg)
         IN  validate(cfg) = "ok" <=>
               /\ \A r \in DOMAIN cfg.repositories : r # blank /\ cfg.repositories[r] # blank
               /\ E # <<>>
               /\ \A i \in DOMAIN E : Right(cfg, E[i])
               /\ \A i, j \in DOMAIN E : Agree(E, i, j)
<1> DEFINE E == Entries(cfg)
           bad == {i \in DOMAIN E : verdict(cfg, E, i) # "ok"}
           first == CHOOSE i \in bad : \A j \in bad : i <= j
           nameless == \E r \in DOMAIN cfg.repositories : blank \in {r, cfg.repositories[r]}
<1>1. IsList(E)
  BY EntriesAre
<1>2. validate(cfg) = CASE nameless -> "INVALID_ARGUMENT"
                        [] E = <<>> -> "INVALID_ARGUMENT"
                        [] bad # {} -> verdict(cfg, E, first)
                        [] OTHER -> "ok"
  BY DEF validate
<1> HIDE DEF E
<1>3. PICK n \in Nat : DOMAIN E = 1 .. n
  BY <1>1, ListHas
<1>4. bad # {} => first \in bad
  <2>1. bad \in SUBSET Nat
    BY <1>3
  <2> HIDE DEF bad
  <2>2. QED
    BY <2>1, Least
<1>5. bad # {} => verdict(cfg, E, first) # "ok"
  <2> HIDE DEF first
  <2>1. QED
    BY <1>4
<1>6. bad = {} <=> \A i \in 1 .. n : /\ Right(cfg, E[i])
                                     /\ GraphBefore(E, i) # {} => ~clashes(E[i].member, E[LastBefore(E, i)].member)
  BY <1>3, VerdictIs
<1>7. bad = {} <=> /\ \A i \in 1 .. n : Right(cfg, E[i])
                   /\ \A i, j \in 1 .. n : Agree(E, i, j)
  <2> HIDE DEF bad
  <2>1. QED
    BY <1>6, AllAgree
<1> HIDE DEF bad, first, nameless
<1>8. validate(cfg) = "ok" <=> ~nameless /\ E # <<>> /\ bad = {}
  BY <1>2, <1>5
<1>9. QED
  BY <1>3, <1>7, <1>8 DEF nameless, E

\* As many repositories as members: none is there twice.
LEMMA DistinctCount ==
  ASSUME NEW ms \in Seq(MemberRecords)
  PROVE  Cardinality({m.repository : m \in ToSet(ms)}) = Len(ms)
           <=> \A j, k \in DOMAIN ms : j < k => ms[j].repository # ms[k].repository
<1> DEFINE T == {m.repository : m \in ToSet(ms)}
<1>1. PICK n \in Nat : n = Len(ms) /\ DOMAIN ms = 1 .. n
  OBVIOUS
<1> DEFINE f == [k \in 1 .. n |-> ms[k].repository]
<1>2. f \in Surjection(1 .. n, T)
  <2>1. T = {ms[k].repository : k \in 1 .. n}
    BY <1>1 DEF ToSet
  <2> HIDE DEF T
  <2>2. f \in [1 .. n -> T] /\ \A t \in T : \E k \in 1 .. n : f[k] = t
    BY <2>1
  <2>3. QED
    BY <2>2 DEF Surjection
<1>3. IsFiniteSet(1 .. n) /\ Cardinality(1 .. n) = n
  BY FS_Interval
<1> HIDE DEF T
<1>4. Cardinality(T) = n <=> f \in Injection(1 .. n, T)
  <2> HIDE DEF f
  <2>1. QED
    BY <1>2, <1>3, FS_Surjection
<1>5. f \in Injection(1 .. n, T) <=> \A j, k \in 1 .. n : f[j] = f[k] => j = k
  BY <1>2 DEF Surjection, Injection, IsInjective
<1>6. (\A j, k \in 1 .. n : f[j] = f[k] => j = k)
        <=> \A j, k \in 1 .. n : j < k => ms[j].repository # ms[k].repository
  <2>1. \A k \in 1 .. n : f[k] = ms[k].repository
    OBVIOUS
  <2> HIDE DEF f
  <2>2. QED
    BY <2>1
<1>7. QED
  BY <1>1, <1>4, <1>5, <1>6 DEF T

\* A declaration as it is read from a file.
IsDeclaration(d) ==
  /\ d \in [inline : MemberRecords, given : BOOLEAN, members : Seq(MemberRecords)]
  /\ d.given \/ d.members = <<>>

IsFile(file) ==
  /\ file.strict \in BOOLEAN
  /\ DOMAIN file.contexts \subseteq ToSet(Alphabet)
  /\ \A id \in DOMAIN file.contexts : IsDeclaration(file.contexts[id])

\* The members that a sound declaration means.
MembersOf(d) == IF d.inline # Nothing THEN {d.inline} ELSE ToSet(d.members)

\* What Sound asks of the declaration d of context id alone.
SoundAlone(file, id, d) ==
  /\ id # blank
  /\ d.given <=> d.inline = Nothing
  /\ MembersOf(d) # {}
  /\ d.given => Cardinality({m.repository : m \in MembersOf(d)}) = Len(d.members)
  /\ \A m \in MembersOf(d) : m.repository \in DOMAIN file.repositories
                              /\ blank \notin {m.branch, m.revision, m.graphRef}

LEMMA WorkspaceIs ==
  ASSUME NEW d, IsDeclaration(d)
  PROVE  /\ workspace(d) = Unreadable <=> (d.inline # Nothing /\ d.given)
         /\ workspace(d) # Unreadable => workspace(d) \in Seq(MemberRecords)
         /\ (d.given <=> d.inline = Nothing) =>
              /\ workspace(d) # Unreadable
              /\ ToSet(workspace(d)) = MembersOf(d)
              /\ d.given => workspace(d) = d.members
              /\ ~d.given => workspace(d) = <<d.inline>>
         /\ (workspace(d) # Unreadable /\ workspace(d) # <<>>) => (d.given <=> d.inline = Nothing)
<1>1. d.inline \in MemberRecords /\ d.given \in BOOLEAN /\ d.members \in Seq(MemberRecords)
  BY DEF IsDeclaration
<1>2. Unreadable \notin Seq(MemberRecords)
  BY CodecAssumption
<1>3. <<d.inline>> \in Seq(MemberRecords) /\ ToSet(<<d.inline>>) = {d.inline}
  <2>1. <<d.inline>> \in Seq(MemberRecords) /\ DOMAIN <<d.inline>> = 1 .. 1 /\ <<d.inline>>[1] = d.inline
    BY <1>1
  <2>2. QED
    BY <2>1 DEF ToSet
<1>4. CASE d.inline # Nothing /\ d.given
  BY <1>2, <1>4 DEF workspace
<1>5. CASE d.inline # Nothing /\ ~d.given
  <2>1. workspace(d) = <<d.inline>>
    BY <1>5 DEF workspace
  <2>2. MembersOf(d) = {d.inline}
    BY <1>5 DEF MembersOf
  <2>3. QED
    BY <1>2, <1>3, <1>5, <2>1, <2>2
<1>6. CASE d.inline = Nothing
  <2>1. workspace(d) = d.members
    BY <1>6 DEF workspace
  <2>2. MembersOf(d) = ToSet(d.members)
    BY <1>6 DEF MembersOf
  <2>3. ~d.given => d.members = <<>>
    BY DEF IsDeclaration
  <2>4. QED
    BY <1>1, <1>2, <1>6, <2>1, <2>2, <2>3
<1>7. QED
  BY <1>1, <1>4, <1>5, <1>6

\* What is loaded of a file that no declaration keeps from being read.
ReadFile(file) ==
  [repositories |-> file.repositories,
   contexts |-> [id \in DOMAIN file.contexts |-> workspace(file.contexts[id])]]

LEMMA LoadIs ==
  ASSUME NEW file
  PROVE  /\ Load(file).ok <=>
              /\ file.strict
              /\ \A id \in DOMAIN file.contexts : workspace(file.contexts[id]) # Unreadable
              /\ validate(ReadFile(file)) = "ok"
         /\ Load(file).ok => Load(file) = Accepted(ReadFile(file))
<1> DEFINE cfg == ReadFile(file)
           both == ~file.strict \/ \E id \in DOMAIN cfg.contexts : cfg.contexts[id] = Unreadable
<1>1. Load(file) = IF both THEN Refused("INVALID_ARGUMENT")
                   ELSE IF validate(cfg) = "ok" THEN Accepted(cfg) ELSE Refused(validate(cfg))
  BY DEF Load, ReadFile
<1>2. /\ DOMAIN cfg.contexts = DOMAIN file.contexts
      /\ \A id \in DOMAIN file.contexts : cfg.contexts[id] = workspace(file.contexts[id])
  BY DEF ReadFile
<1>3. \A c : ~Refused(c).ok /\ Accepted(c).ok
  BY DEF Refused, Accepted
<1>4. both <=> ~(file.strict /\ \A id \in DOMAIN file.contexts : workspace(file.contexts[id]) # Unreadable)
  BY <1>2
<1> HIDE DEF both, cfg
<1>5. QED
  BY <1>1, <1>3, <1>4 DEF cfg

\* What is right with the entries of a context is what is sound in it.
LEMMA RightIs ==
  ASSUME NEW file, IsFile(file), NEW id \in DOMAIN file.contexts,
         workspace(file.contexts[id]) # Unreadable, blank \notin DOMAIN file.repositories
  PROVE  (\A x : EntryOf(ReadFile(file), id, x) => Right(ReadFile(file), x))
           <=> SoundAlone(file, id, file.contexts[id])
<1> DEFINE cfg == ReadFile(file)
           d == file.contexts[id]
           ms == workspace(d)
<1>1. IsDeclaration(d) /\ ms \in Seq(MemberRecords)
  BY WorkspaceIs DEF IsFile
<1>2. cfg.contexts[id] = ms /\ cfg.repositories = file.repositories
  BY DEF ReadFile
<1>3. PICK n \in Nat : n = Len(ms) /\ DOMAIN ms = 1 .. n
  BY <1>1
<1>4. \A k, m : /\ Declared(id, k, m).id = id /\ Declared(id, k, m).at = k
                /\ Declared(id, k, m).member = m
  BY DEF Declared
<1> HIDE DEF cfg, ms, d
<1>5. CASE ms = <<>>
  <2>1. EntryOf(cfg, id, Declared(id, 0, Nothing))
    BY <1>2, <1>5 DEF EntryOf
  <2>2. ~Right(cfg, Declared(id, 0, Nothing))
    BY <1>4 DEF Right
  <2>3. (d.given <=> d.inline = Nothing) => MembersOf(d) = {}
    <3>1. ToSet(ms) = {}
      BY <1>5 DEF ToSet
    <3>2. QED
      BY <1>1, <3>1, WorkspaceIs DEF ms
  <2>4. QED
    BY <2>1, <2>2, <2>3 DEF SoundAlone, d, cfg
<1>6. CASE ms # <<>>
  <2>1. \A x : EntryOf(cfg, id, x) <=> \E k \in 1 .. n : x = Declared(id, k, ms[k])
    BY <1>2, <1>3, <1>6 DEF EntryOf
  <2>2. (\A x : EntryOf(cfg, id, x) => Right(cfg, x)) <=> \A k \in 1 .. n : Right(cfg, Declared(id, k, ms[k]))
    BY <2>1
  <2>3. ASSUME NEW k \in 1 .. n
        PROVE  Right(cfg, Declared(id, k, ms[k])) <=>
                 /\ id # blank
                 /\ blank \notin {ms[k].repository, ms[k].branch, ms[k].revision, ms[k].graphRef}
                 /\ ms[k].repository \in DOMAIN file.repositories
                 /\ \A j \in 1 .. k - 1 : ms[j].repository # ms[k].repository
    BY <1>2, <1>4 DEF Right
  <2>4. /\ d.given <=> d.inline = Nothing
        /\ ToSet(ms) = MembersOf(d)
        /\ d.given => ms = d.members
        /\ ~d.given => ms = <<d.inline>>
    BY <1>1, <1>6, WorkspaceIs DEF ms, d
  <2>5. ToSet(ms) = {ms[k] : k \in 1 .. n} /\ 1 \in 1 .. n
    BY <1>1, <1>3, <1>6 DEF ToSet
  <2>6. (\A j, k \in 1 .. n : j < k => ms[j].repository # ms[k].repository)
          <=> (d.given => Cardinality({m.repository : m \in MembersOf(d)}) = Len(d.members))
    <3>1. CASE d.given
      BY <1>1, <1>3, <2>4, <3>1, DistinctCount
    <3>2. CASE ~d.given
      <4>1. n = 1
        BY <1>3, <2>4, <3>2
      <4>2. QED
        BY <3>2, <4>1
    <3>3. QED
      BY <3>1, <3>2
  <2>7. (\A k \in 1 .. n : \A j \in 1 .. k - 1 : ms[j].repository # ms[k].repository)
          <=> (\A j, k \in 1 .. n : j < k => ms[j].repository # ms[k].repository)
    OBVIOUS
  <2>8. (\A k \in 1 .. n : Right(cfg, Declared(id, k, ms[k]))) <=>
          /\ id # blank
          /\ \A m \in MembersOf(d) : m.repository \in DOMAIN file.repositories
                                     /\ blank \notin {m.branch, m.revision, m.graphRef}
          /\ d.given => Cardinality({m.repository : m \in MembersOf(d)}) = Len(d.members)
    <3>1. (\A k \in 1 .. n : Right(cfg, Declared(id, k, ms[k]))) <=>
            /\ id # blank
            /\ \A k \in 1 .. n :
                 /\ blank \notin {ms[k].repository, ms[k].branch, ms[k].revision, ms[k].graphRef}
                 /\ ms[k].repository \in DOMAIN file.repositories
            /\ \A k \in 1 .. n : \A j \in 1 .. k - 1 : ms[j].repository # ms[k].repository
      BY <2>3, <2>5
    <3>2. (\A k \in 1 .. n : /\ blank \notin {ms[k].repository, ms[k].branch, ms[k].revision, ms[k].graphRef}
                              /\ ms[k].repository \in DOMAIN file.repositories)
            <=> \A m \in MembersOf(d) : m.repository \in DOMAIN file.repositories
                                     /\ blank \notin {m.branch, m.revision, m.graphRef}
      <4>1. \A m : m \in MembersOf(d) <=> \E k \in 1 .. n : m = ms[k]
        BY <2>4, <2>5
      <4>2. QED
        BY <4>1
    <3>3. QED
      BY <2>6, <2>7, <3>1, <3>2
  <2>9. MembersOf(d) # {}
    BY <2>4, <2>5
  <2>10. QED
    BY <2>2, <2>4, <2>8, <2>9 DEF SoundAlone, d, cfg
<1>7. QED
  BY <1>5, <1>6

\* What Sound asks of any two contexts.
SoundTogether(file, id, jd) ==
  \A m \in MembersOf(file.contexts[id]), n \in MembersOf(file.contexts[jd]) :
    m.graphRef = n.graphRef => m.repository = n.repository /\ m.revision = n.revision

LEMMA SoundIs ==
  ASSUME NEW file, IsFile(file)
  PROVE  Sound(file) <=>
           /\ file.strict
           /\ DOMAIN file.contexts # {}
           /\ \A r \in DOMAIN file.repositories : r # blank /\ file.repositories[r] # blank
           /\ \A id \in DOMAIN file.contexts : SoundAlone(file, id, file.contexts[id])
           /\ \A id, jd \in DOMAIN file.contexts : SoundTogether(file, id, jd)
<1>1. (blank \notin DOMAIN file.repositories \cup Range(file.repositories)) <=>
        \A r \in DOMAIN file.repositories : r # blank /\ file.repositories[r] # blank
  BY DEF Range
<1> DEFINE Alone(id) == SoundAlone(file, id, file.contexts[id])
           Together(id, jd) == SoundTogether(file, id, jd)
           D == DOMAIN file.contexts
           NamesOK == blank \notin DOMAIN file.repositories \cup Range(file.repositories)
<1>2. Sound(file) <=>
        /\ file.strict /\ D # {} /\ blank \notin D /\ NamesOK
        /\ \A id \in D :
             /\ file.contexts[id].given <=> file.contexts[id].inline = Nothing
             /\ MembersOf(file.contexts[id]) # {}
             /\ file.contexts[id].given =>
                  Cardinality({m.repository : m \in MembersOf(file.contexts[id])})
                    = Len(file.contexts[id].members)
             /\ \A m \in MembersOf(file.contexts[id]) :
                  m.repository \in DOMAIN file.repositories
                  /\ blank \notin {m.branch, m.revision, m.graphRef}
             /\ \A jd \in D : Together(id, jd)
  BY DEF Sound, MembersOf, SoundTogether
<1>3. \A id \in D : Alone(id) <=>
        /\ id # blank
        /\ file.contexts[id].given <=> file.contexts[id].inline = Nothing
        /\ MembersOf(file.contexts[id]) # {}
        /\ file.contexts[id].given =>
             Cardinality({m.repository : m \in MembersOf(file.contexts[id])})
               = Len(file.contexts[id].members)
        /\ \A m \in MembersOf(file.contexts[id]) :
             m.repository \in DOMAIN file.repositories
             /\ blank \notin {m.branch, m.revision, m.graphRef}
  BY DEF SoundAlone
<1>4. blank \notin D <=> \A id \in D : id # blank
  OBVIOUS
<1> HIDE DEF Alone, Together, D, NamesOK
<1>5. Sound(file) <=>
        /\ file.strict /\ D # {} /\ NamesOK
        /\ \A id \in D : Alone(id)
        /\ \A id, jd \in D : Together(id, jd)
  <2>1. Sound(file) => /\ file.strict /\ D # {} /\ NamesOK
                       /\ \A id \in D : Alone(id)
                       /\ \A id, jd \in D : Together(id, jd)
    BY <1>2, <1>3, <1>4
  <2>2. (/\ file.strict /\ D # {} /\ NamesOK
         /\ \A id \in D : Alone(id)
         /\ \A id, jd \in D : Together(id, jd)) => Sound(file)
    BY <1>2, <1>3, <1>4
  <2>3. QED
    BY <2>1, <2>2
<1>6. QED
  BY <1>1, <1>5 DEF Alone, Together, D, NamesOK

\* A file is accepted exactly if it is sound.
LEMMA AcceptedIsSound ==
  ASSUME NEW file, IsFile(file)
  PROVE  Load(file).ok <=> Sound(file)
<1> DEFINE cfg == ReadFile(file)
           D == DOMAIN file.contexts
           E == Entries(cfg)
           ds == file.contexts
           nameless == \E r \in DOMAIN file.repositories : r = blank \/ file.repositories[r] = blank
<1>1. CASE \E id \in D : workspace(ds[id]) = Unreadable
  <2>1. PICK id \in D : workspace(ds[id]) = Unreadable
    BY <1>1
  <2>2. ~SoundAlone(file, id, ds[id])
    BY <2>1, WorkspaceIs DEF IsFile, SoundAlone
  <2>3. ~Sound(file)
    BY <2>2, SoundIs
  <2>4. QED
    BY <2>1, <2>3, LoadIs
<1>a. /\ DOMAIN cfg.contexts = D /\ cfg.repositories = file.repositories
      /\ \A id \in D : cfg.contexts[id] = workspace(ds[id])
  BY DEF ReadFile
<1>b. ASSUME \A id \in D : workspace(ds[id]) # Unreadable
      PROVE  ConfigOK(cfg)
  <2>1. \A id \in D : workspace(ds[id]) \in Seq(MemberRecords)
    BY <1>b, WorkspaceIs DEF IsFile
  <2>2. QED
    BY <1>a, <2>1 DEF ConfigOK, IsFile
<1>2. CASE nameless /\ \A id \in D : workspace(ds[id]) # Unreadable
  <2>1. ~Sound(file)
    BY <1>2, SoundIs
  <2>2. validate(cfg) # "ok"
    BY <1>2, <1>a, <1>b, ValidIs
  <2>3. QED
    BY <2>1, <2>2, LoadIs
<1>3. CASE ~nameless /\ \A id \in D : workspace(ds[id]) # Unreadable
  <2>1. /\ DOMAIN cfg.contexts = D /\ cfg.repositories = file.repositories
        /\ \A id \in D : cfg.contexts[id] = workspace(ds[id])
    BY <1>a
  <2>2. ConfigOK(cfg)
    BY <1>3, <1>b
  <2>3. validate(cfg) = "ok" <=> /\ E # <<>>
                                 /\ \A i \in DOMAIN E : Right(cfg, E[i])
                                 /\ \A i, j \in DOMAIN E : Agree(E, i, j)
    BY <1>3, <2>1, <2>2, ValidIs
  <2>4. /\ IsList(E)
        /\ \A p \in DOMAIN E : \E id \in D : EntryOf(cfg, id, E[p])
        /\ \A id \in D : \A x : EntryOf(cfg, id, x) => \E p \in DOMAIN E : E[p] = x
    BY <2>1, <2>2, EntriesAre
  <2> HIDE DEF E, cfg
  <2>5. (\A i \in DOMAIN E : Right(cfg, E[i])) <=> \A id \in D : SoundAlone(file, id, ds[id])
    <3>1. \A id \in D : (\A x : EntryOf(cfg, id, x) => Right(cfg, x)) <=> SoundAlone(file, id, ds[id])
      BY <1>3, RightIs DEF cfg
    <3>2. (\A i \in DOMAIN E : Right(cfg, E[i])) <=> \A id \in D : \A x : EntryOf(cfg, id, x) => Right(cfg, x)
      BY <2>4
    <3>3. QED
      BY <3>1, <3>2
  <2>6. ASSUME \A id \in D : SoundAlone(file, id, ds[id]), NEW id \in D
        PROVE  /\ \A x : EntryOf(cfg, id, x) => x.member \in MembersOf(ds[id])
               /\ \A m \in MembersOf(ds[id]) : \E x : EntryOf(cfg, id, x) /\ x.member = m
    <3> DEFINE ms == workspace(ds[id])
    <3>1. ds[id].given <=> ds[id].inline = Nothing
      BY <2>6 DEF SoundAlone
    <3>2. IsDeclaration(ds[id])
      BY DEF IsFile
    <3>3. ToSet(ms) = MembersOf(ds[id]) /\ ms \in Seq(MemberRecords)
      BY <1>3, <3>1, <3>2, WorkspaceIs
    <3>4. MembersOf(ds[id]) # {}
      BY <2>6 DEF SoundAlone
    <3>5. ms # <<>>
      BY <3>3, <3>4 DEF ToSet
    <3>6. \A x : EntryOf(cfg, id, x) <=> \E k \in DOMAIN ms : x = Declared(id, k, ms[k])
      BY <2>1, <3>5 DEF EntryOf
    <3>7. \A k, m : Declared(id, k, m).member = m
      BY DEF Declared
    <3>8. \A m : m \in MembersOf(ds[id]) <=> \E k \in DOMAIN ms : m = ms[k]
      BY <3>3 DEF ToSet
    <3>9. QED
      BY <3>6, <3>7, <3>8
  <2>7. ASSUME \A id \in D : SoundAlone(file, id, ds[id])
        PROVE  (\A i, j \in DOMAIN E : Agree(E, i, j)) <=> \A id, jd \in D : SoundTogether(file, id, jd)
    <3>1. ASSUME \A i, j \in DOMAIN E : Agree(E, i, j), NEW id \in D, NEW jd \in D,
                 NEW m \in MembersOf(ds[id]), NEW n \in MembersOf(ds[jd]), m.graphRef = n.graphRef
          PROVE  m.repository = n.repository /\ m.revision = n.revision
      <4>1. PICK x : EntryOf(cfg, id, x) /\ x.member = m
        BY <2>6, <2>7
      <4>2. PICK y : EntryOf(cfg, jd, y) /\ y.member = n
        BY <2>6, <2>7
      <4>3. PICK i \in DOMAIN E : E[i] = x
        BY <2>4, <4>1
      <4>4. PICK j \in DOMAIN E : E[j] = y
        BY <2>4, <4>2
      <4>5. Agree(E, i, j)
        BY <3>1
      <4>6. QED
        BY <3>1, <4>1, <4>2, <4>3, <4>4, <4>5 DEF Agree
    <3>2. ASSUME \A id, jd \in D : SoundTogether(file, id, jd), NEW i \in DOMAIN E, NEW j \in DOMAIN E
          PROVE  Agree(E, i, j)
      <4>1. PICK id \in D : EntryOf(cfg, id, E[i])
        BY <2>4
      <4>2. PICK jd \in D : EntryOf(cfg, jd, E[j])
        BY <2>4
      <4>3. E[i].member \in MembersOf(ds[id]) /\ E[j].member \in MembersOf(ds[jd])
        BY <2>6, <2>7, <4>1, <4>2
      <4>4. SoundTogether(file, id, jd)
        BY <3>2
      <4>5. QED
        BY <4>3, <4>4 DEF Agree, SoundTogether
    <3>3. QED
      BY <3>1, <3>2 DEF SoundTogether
  <2>8. E # <<>> <=> D # {}
    <3>1. E = <<>> <=> DOMAIN E = {}
      BY <2>4, ListHas, NoList
    <3>2. D # {} => DOMAIN E # {}
      <4>1. ASSUME NEW id \in D PROVE \E x : EntryOf(cfg, id, x)
        <5>1. workspace(ds[id]) \in Seq(MemberRecords)
          BY <2>1, <2>2 DEF ConfigOK
        <5>2. workspace(ds[id]) # <<>> => 1 \in DOMAIN workspace(ds[id])
          BY <5>1
        <5>3. QED
          BY <2>1, <5>2 DEF EntryOf
      <4>2. QED
        BY <2>4, <4>1
    <3>3. DOMAIN E # {} => D # {}
      BY <2>4
    <3>4. QED
      BY <3>1, <3>2, <3>3
  <2>9. Load(file).ok <=> file.strict /\ validate(cfg) = "ok"
    BY <1>3, LoadIs DEF cfg
  <2>10. QED
    BY <1>3, <2>3, <2>5, <2>7, <2>8, <2>9, SoundIs
<1>4. QED
  BY <1>1, <1>2, <1>3

\* What was accepted is, written down again, read as the same.
LEMMA ReadAgain ==
  ASSUME NEW file, IsFile(file), Load(file).ok
  PROVE  Load(Marshal(Load(file).config)) = Load(file)
<1> DEFINE cfg == ReadFile(file)
           again == Marshal(cfg)
           D == DOMAIN file.contexts
<1>1. /\ Load(file) = Accepted(cfg) /\ validate(cfg) = "ok"
      /\ \A id \in D : workspace(file.contexts[id]) # Unreadable
  BY LoadIs
<1>2. Load(file).config = cfg
  BY <1>1 DEF Accepted
<1>3. /\ DOMAIN cfg.contexts = D
      /\ \A id \in D : cfg.contexts[id] = workspace(file.contexts[id])
  BY DEF ReadFile
<1>4. ASSUME NEW id \in D
      PROVE  LET ms == cfg.contexts[id]
             IN  /\ ms \in Seq(MemberRecords) /\ ms # <<>> /\ ms[1] # Nothing
                 /\ workspace(IF Len(ms) = 1 THEN Inline(ms[1]) ELSE Listed(ms)) = ms
  <2> DEFINE ms == workspace(file.contexts[id])
  <2>1. Sound(file)
    BY AcceptedIsSound
  <2>2. SoundAlone(file, id, file.contexts[id])
    BY <2>1, SoundIs
  <2>3. file.contexts[id].given <=> file.contexts[id].inline = Nothing
    BY <2>2 DEF SoundAlone
  <2>4. ms \in Seq(MemberRecords) /\ ToSet(ms) = MembersOf(file.contexts[id])
    BY <1>1, <2>3, WorkspaceIs DEF IsFile
  <2> HIDE DEF ms
  <2>5. ms # <<>>
    BY <2>2, <2>4 DEF SoundAlone, ToSet
  <2>6. 1 \in DOMAIN ms /\ ms[1] \in ToSet(ms)
    BY <2>4, <2>5 DEF ToSet
  <2>7. blank \notin {ms[1].branch, ms[1].revision, ms[1].graphRef}
    BY <2>2, <2>4, <2>6 DEF SoundAlone
  <2>8. Nothing.branch = blank
    BY DEF Nothing, Member
  <2>9. ms[1] # Nothing
    BY <2>7, <2>8
  <2>10. QED
    BY <1>3, <2>4, <2>5, <2>9, DeclaredIsMeant DEF ms
<1>5. /\ again.strict /\ again.repositories = cfg.repositories
      /\ DOMAIN again.contexts = DOMAIN cfg.contexts
      /\ \A id \in DOMAIN cfg.contexts : again.contexts[id] =
           IF Len(cfg.contexts[id]) = 1 THEN Inline(cfg.contexts[id][1]) ELSE Listed(cfg.contexts[id])
  BY DEF Marshal
<1>6. \A id \in D : workspace(again.contexts[id]) = cfg.contexts[id] /\ workspace(again.contexts[id]) # Unreadable
  <2> HIDE DEF again, cfg
  <2>1. QED
    BY <1>1, <1>3, <1>4, <1>5
<1>7. ReadFile(again) = cfg
  <2> DEFINE f == [id \in D |-> workspace(file.contexts[id])]
             g == [id \in DOMAIN again.contexts |-> workspace(again.contexts[id])]
  <2>1. f = g
    <3> HIDE DEF again, cfg
    <3>1. QED
      BY <1>3, <1>5, <1>6
  <2>2. ReadFile(again) = [repositories |-> again.repositories, contexts |-> g]
    BY DEF ReadFile
  <2>3. cfg = [repositories |-> cfg.repositories, contexts |-> f]
    BY DEF ReadFile
  <2> HIDE DEF f, g, again, cfg
  <2>4. QED
    BY <1>5, <2>1, <2>2, <2>3
<1> HIDE DEF again, cfg
<1>8. Load(again).ok
  BY <1>1, <1>3, <1>5, <1>6, <1>7, LoadIs
<1>9. Load(again) = Accepted(cfg)
  BY <1>7, <1>8, LoadIs
<1>10. QED
  BY <1>1, <1>2, <1>9 DEF again

LEMMA LoadStep == ASSUME LoadTrue, [Next]_vars PROVE LoadTrue'
<1>1. CASE UNCHANGED answer
  BY <1>1 DEF LoadTrue
<1>2. CASE answer'.command # "validate"
  BY <1>2 DEF LoadTrue
<1>3. CASE \E file \in Files : Validate(file)
  <2>1. PICK file \in Files : answer' = [command |-> "validate", file |-> file, loaded |-> Load(file)]
    BY <1>3 DEF Validate
  <2>2. IsFile(file)
    BY FileAssumption DEF IsFile, IsDeclaration
  <2>3. answer'.file = file /\ answer'.loaded = Load(file)
    BY <2>1
  <2>4. Load(file).ok <=> Sound(file)
    BY <2>2, AcceptedIsSound
  <2>5. Load(file).ok => Load(Marshal(Load(file).config)) = Load(file)
    BY <2>2, ReadAgain
  <2>6. QED
    BY <2>3, <2>4, <2>5 DEF LoadTrue
<1>4. Quiet.command # "validate"
  BY DEF Quiet
<1>5. ASSUME NEW p \in Pinnings, NEW end \in {"FAILED", "BUILDING"}, CreateContext(p.id, p.pins, end)
      PROVE  answer'.command # "validate"
  <2>1. answer'.command = "create"
    BY <1>5 DEF CreateContext
  <2>2. QED
    BY <2>1
<1>6. ASSUME NEW id \in Ids, NEW end \in {"FAILED", "BUILDING"}, RetryContext(id, end) \/ RemoveContext(id)
      PROVE  answer'.command # "validate"
  BY <1>4, <1>6 DEF RetryContext, RemoveContext
<1>7. ASSUME Serve \/ \E id \in Ids : VerifyContext(id)
      PROVE  answer'.command # "validate"
  BY <1>7 DEF VerifyContext, Serve
<1>8. ASSUME \E file \in Files : HandWritten(file)
      PROVE  answer'.command # "validate" \/ \E file \in Files : Validate(file)
  <2>1. PICK file \in Files : Validate(file) \/ \E e \in Environments : DoctorFile(file, e)
    BY <1>8 DEF HandWritten
  <2>2. (\E e \in Environments : DoctorFile(file, e)) => answer'.command = "doctor"
    BY DEF DoctorFile, Diagnosis
  <2>3. QED
    BY <2>1, <2>2
<1>9. ASSUME NEW e \in Usual, DoctorReports(e) PROVE answer'.command # "validate"
  <2>1. answer'.command = "doctor"
    BY <1>9 DEF DoctorReports, Diagnosis
  <2>2. QED
    BY <2>1
<1>10. ASSUME \/ Stop \/ DoctorReads \/ Heard
              \/ \E r \in Repos : Sync(r)
              \/ \E r \in Pushed, v \in Revisions : Push(r, v)
              \/ \E id \in Ids : EditRecord(id) \/ Lose(id)
       PROVE  answer'.command # "validate"
  BY <1>4, <1>10 DEF Stop, DoctorReads, Heard, Sync, Push, EditRecord, Lose
<1>11. UNCHANGED answer \/ answer'.command # "validate" \/ \E file \in Files : Validate(file)
  <2>1. CASE UNCHANGED vars
    BY <2>1 DEF vars
  <2>2. CASE Next
    BY <2>2, <1>5, <1>6, <1>7, <1>8, <1>9, <1>10 DEF Next
  <2>3. QED
    BY <2>1, <2>2
<1>12. QED
  BY <1>1, <1>2, <1>3, <1>11

\* A file that somebody wrote is accepted exactly if it is sound, and what was
\* accepted loads as the same when it is written down again, for any files over
\* any names (config/config.go Load, validate, Marshal).
THEOREM LoadsTrue == Spec => []LoadTrue
<1>1. Init => LoadTrue
  BY DEF Init, LoadTrue, Quiet
<1>2. LoadTrue /\ [Next]_vars => LoadTrue'
  BY LoadStep
<1>3. QED
  BY <1>1, <1>2, PTL DEF Spec
-----------------------------------------------------------------------------
(* The rows of a doctor                                                    *)

\* What was read of a version are its numbers before the first part that is none.
LEMMA ReleaseIs ==
  ASSUME NEW v \in Seq(Nat \cup {NaN})
  PROVE  /\ release(v) \in Seq(Nat)
         /\ \A i \in DOMAIN release(v) : release(v)[i] = v[i]
         /\ release(v) = <<>> <=> (v = <<>> \/ v[1] = NaN)
<1> DEFINE other == {i \in DOMAIN v : v[i] = NaN}
<1>1. PICK n \in Nat : n = Len(v)
  OBVIOUS
<1>2. DOMAIN v = 1 .. n /\ v \in [1 .. n -> Nat \cup {NaN}]
  BY <1>1
<1>3. CASE other = {}
  <2>1. release(v) = v
    BY <1>3 DEF release
  <2>2. \A i \in 1 .. n : v[i] \in Nat
    BY <1>2, <1>3
  <2>3. v \in Seq(Nat)
    BY <1>1, <1>2, <2>2
  <2>4. v # <<>> => v[1] # NaN
    BY <1>1, <1>2, <2>2 DEF NaN
  <2>5. QED
    BY <2>1, <2>3, <2>4
<1>4. CASE other # {}
  <2>1. other \in SUBSET Nat
    BY <1>2
  <2>2. PICK k \in Nat : k = Min(other) /\ k \in other /\ \A i \in other : k <= i
    BY <1>4, <2>1, MinIs
  <2>3. k \in 1 .. n /\ v[k] = NaN /\ \A i \in 1 .. k - 1 : v[i] \in Nat
    <3>1. k \in 1 .. n /\ v[k] = NaN
      BY <1>2, <2>2
    <3>2. ASSUME NEW i \in 1 .. k - 1 PROVE v[i] \in Nat
      <4>1. i \in 1 .. n /\ ~(k <= i)
        BY <3>1
      <4>2. i \notin other
        BY <2>2, <4>1
      <4>3. QED
        BY <1>2, <4>1, <4>2
    <3>3. QED
      BY <3>1, <3>2
  <2>4. release(v) = SubSeq(v, 1, k - 1)
    BY <1>4, <2>2 DEF release
  <2> HIDE DEF other
  <2>5. /\ Len(SubSeq(v, 1, k - 1)) = k - 1
        /\ DOMAIN SubSeq(v, 1, k - 1) = 1 .. k - 1
        /\ \A i \in 1 .. k - 1 : SubSeq(v, 1, k - 1)[i] = v[i]
        /\ SubSeq(v, 1, k - 1) \in Seq(Nat \cup {NaN})
    BY <1>1, <2>3
  <2>6. SubSeq(v, 1, k - 1) \in Seq(Nat)
    BY <2>3, <2>5
  <2>7. SubSeq(v, 1, k - 1) = <<>> <=> k = 1
    <3>1. PICK s \in Seq(Nat) : s = SubSeq(v, 1, k - 1) /\ Len(s) = k - 1
      BY <2>5, <2>6
    <3>2. s = <<>> <=> Len(s) = 0
      OBVIOUS
    <3>3. QED
      BY <2>3, <3>1, <3>2
  <2>8. v # <<>> /\ (v[1] = NaN <=> k = 1)
    <3>1. v[1] = NaN => k = 1
      BY <2>3 DEF NaN
    <3>2. QED
      BY <1>1, <2>3, <3>1
  <2>9. QED
    BY <2>4, <2>5, <2>6, <2>7, <2>8
<1>5. QED
  BY <1>3, <1>4

\* The first part that differs decides.
LEMMA AtLeastIs ==
  ASSUME NEW v \in Seq(Nat \cup {NaN})
  PROVE  atLeast(v, minCBM) <=> NotBefore(release(v), minCBM)
<1> DEFINE part(i) == IF i \in DOMAIN release(v) THEN v[i] ELSE 0
           n(i) == IF i \in DOMAIN release(v) THEN release(v)[i] ELSE 0
           differ == {i \in 1 .. 3 : part(i) # minCBM[i]}
<1>1. \A i : n(i) = part(i)
  BY ReleaseIs
<1>2. \A i : n(i) \in Nat
  BY ReleaseIs
<1>3. /\ minCBM[1] = 0 /\ minCBM[2] = 11 /\ minCBM[3] = 0
      /\ DOMAIN minCBM = 1 .. 3
  BY DEF minCBM
<1>4. atLeast(v, minCBM) <=>
        differ = {} \/ \E i \in differ : (\A j \in differ : i <= j) /\ part(i) > minCBM[i]
  BY <1>3 DEF atLeast
<1>5. NotBefore(release(v), minCBM) <=>
        \/ n(1) > 0
        \/ n(1) = 0 /\ n(2) > 11
        \/ n(1) = 0 /\ n(2) = 11 /\ n(3) >= 0
  BY <1>3 DEF NotBefore
<1>6. PICK a \in Nat, b \in Nat, c \in Nat : a = part(1) /\ b = part(2) /\ c = part(3)
  BY <1>1, <1>2
<1>7. 1 .. 3 = {1, 2, 3}
  OBVIOUS
<1>8. /\ 1 \in differ <=> a # 0
      /\ 2 \in differ <=> b # 11
      /\ 3 \in differ <=> c # 0
      /\ \A i \in differ : i = 1 \/ i = 2 \/ i = 3
  BY <1>3, <1>6, <1>7
<1>9. NotBefore(release(v), minCBM) <=> a > 0 \/ (a = 0 /\ b > 11) \/ (a = 0 /\ b = 11)
  BY <1>1, <1>5, <1>6
<1>10. part(1) > minCBM[1] <=> a > 0
  BY <1>3, <1>6
<1>11. part(2) > minCBM[2] <=> b > 11
  BY <1>3, <1>6
<1>12. part(3) > minCBM[3] <=> c > 0
  BY <1>3, <1>6
<1>13. (\E i \in differ : (\A j \in differ : i <= j) /\ part(i) > minCBM[i]) <=>
         \/ a # 0 /\ a > 0
         \/ a = 0 /\ b # 11 /\ b > 11
         \/ a = 0 /\ b = 11 /\ c # 0
  <2> HIDE DEF differ, part
  <2>1. CASE a # 0
    BY <2>1, <1>8, <1>10
  <2>2. CASE a = 0 /\ b # 11
    BY <2>2, <1>8, <1>11
  <2>3. CASE a = 0 /\ b = 11
    BY <2>3, <1>8, <1>12
  <2>4. QED
    BY <2>1, <2>2, <2>3
<1>14. differ = {} <=> a = 0 /\ b = 11 /\ c = 0
  <2> HIDE DEF differ
  <2>1. QED
    BY <1>8
<1> HIDE DEF differ, part, n
<1>15. QED
  BY <1>4, <1>9, <1>13, <1>14

LEMMA RowIs ==
  ASSUME NEW name, NEW status, NEW detail
  PROVE  /\ Row(name, status, detail).name = name
         /\ Row(name, status, detail).status = status
         /\ Row(name, status, detail).detail = detail
BY DEF Row

LEMMA EnginesAre ==
  ASSUME NEW e, e.version \in Seq(Nat \cup {NaN})
  PROVE  /\ checkSDK(e).status = "OK" <=> e.mcp
         /\ checkZoekt(e).status = "OK" <=> e.zoektURL /\ e.zoekt = "answers"
         /\ checkCBM(e).status = "OK" <=>
              /\ e.command = "runs" /\ e.version # <<>> /\ e.version[1] # NaN
              /\ NotBefore(release(e.version), minCBM)
         /\ checkSDK(e).name = sdkCheck
         /\ checkZoekt(e).name = zoektCheck
         /\ checkCBM(e).name = cbmCheck
<1>1. checkSDK(e).status = "OK" <=> e.mcp
  BY RowIs DEF checkSDK
<1>2. checkZoekt(e).status = "OK" <=> e.zoektURL /\ e.zoekt = "answers"
  BY RowIs DEF checkZoekt
<1>3. checkCBM(e).status = "OK" <=>
        e.command = "runs" /\ release(e.version) # <<>> /\ atLeast(e.version, minCBM)
  BY RowIs DEF checkCBM
<1>4. QED
  BY <1>1, <1>2, <1>3, ReleaseIs, AtLeastIs, RowIs DEF checkSDK, checkZoekt, checkCBM

\* A configuration that was loaded: its names can be sorted, and a member is of a
\* repository in it.
Loaded(cfg) ==
  /\ ConfigOK(cfg)
  /\ DOMAIN cfg.repositories \subseteq ToSet(Alphabet)
  /\ \A id \in DOMAIN cfg.contexts : \A i \in DOMAIN cfg.contexts[id] :
       cfg.contexts[id][i].repository \in DOMAIN cfg.repositories

\* What git is asked for is there, at a path where it does not hang.
Readable(cfg, e) ==
  \A r \in DOMAIN cfg.repositories : cfg.repositories[r] \in DOMAIN e.commits \ e.hang

LEMMA GitIs ==
  ASSUME NEW cfg, Loaded(cfg), NEW e
  PROVE  /\ checkGit(cfg, e).name = gitCheck
         /\ checkGit(cfg, e).status = "OK" <=> Readable(cfg, e)
         /\ IF GivenUp(cfg, e) = {} THEN checkGit(cfg, e).status = "OK"
            ELSE checkGit(cfg, e).status = "FAIL" /\ ToSet(checkGit(cfg, e).detail) = GivenUp(cfg, e)
<1> DEFINE names == Sorted(DOMAIN cfg.repositories)
           paths == [i \in DOMAIN names |-> cfg.repositories[names[i]]]
           failing == {i \in DOMAIN names :
                         ~reached(e.hang, paths, i) \/ paths[i] \notin DOMAIN e.commits}
<1>1. /\ IsList(names)
      /\ \A i \in DOMAIN names : names[i] \in DOMAIN cfg.repositories
      /\ \A r \in DOMAIN cfg.repositories : \E i \in DOMAIN names : names[i] = r
  BY SortedIs DEF Loaded
<1>2. PICK n \in Nat : DOMAIN names = 1 .. n
  BY <1>1, ListHas
<1>3. checkGit(cfg, e) = IF failing = {} THEN Row(gitCheck, "OK", names)
                                         ELSE Row(gitCheck, "FAIL", Keep(names, failing))
  BY DEF checkGit
<1>4. \A i \in DOMAIN names : paths[i] = cfg.repositories[names[i]]
  OBVIOUS
<1>5. \A i \in DOMAIN names : i \in failing <=>
        \/ \E j \in 1 .. i : paths[j] \in e.hang
        \/ paths[i] \notin DOMAIN e.commits
  BY DEF reached
<1> HIDE DEF names, paths, failing
<1>6. failing = {} <=> Readable(cfg, e)
  <2>1. ASSUME failing = {}, NEW r \in DOMAIN cfg.repositories
        PROVE  cfg.repositories[r] \in DOMAIN e.commits \ e.hang
    <3>1. PICK i \in DOMAIN names : names[i] = r
      BY <1>1
    <3>2. i \in 1 .. i
      BY <1>2
    <3>3. QED
      BY <1>4, <1>5, <2>1, <3>1, <3>2
  <2>2. ASSUME Readable(cfg, e), NEW i \in failing PROVE FALSE
    <3>1. i \in DOMAIN names
      BY DEF failing
    <3>2. \A j \in 1 .. i : j \in DOMAIN names
      BY <1>2, <3>1
    <3>3. QED
      BY <1>1, <1>4, <1>5, <2>2, <3>1, <3>2 DEF Readable
  <2>3. QED
    BY <2>1, <2>2 DEF Readable
<1>7. ToSet(Keep(names, failing)) = GivenUp(cfg, e) /\ (failing = {} <=> GivenUp(cfg, e) = {})
  <2> DEFINE K == Keep(names, failing)
  <2>1. IsList(K) /\ \E pos : KeepOK(names, failing, K, pos)
    BY <1>1, KeepIs
  <2>2. PICK pos : KeepOK(names, failing, K, pos)
    BY <2>1
  <2>3. PICK m \in Nat : m = Len(K) /\ DOMAIN K = 1 .. m
    BY <2>1, ListHas
  <2> HIDE DEF K
  <2>4. ASSUME NEW i \in DOMAIN names PROVE i \in failing <=> names[i] \in GivenUp(cfg, e)
    <3>1. PICK b \in DOMAIN Alphabet : Alphabet[b] = names[i]
      BY <1>1 DEF Loaded, ToSet
    <3>2. names[i] \in GivenUp(cfg, e) <=>
            \/ cfg.repositories[names[i]] \notin DOMAIN e.commits
            \/ \E a, o \in DOMAIN Alphabet :
                 /\ a <= o /\ Alphabet[o] = names[i]
                 /\ Alphabet[a] \in DOMAIN cfg.repositories
                 /\ cfg.repositories[Alphabet[a]] \in e.hang
      BY <1>1 DEF GivenUp
    <3>3. ASSUME NEW j \in 1 .. i, paths[j] \in e.hang PROVE names[i] \in GivenUp(cfg, e)
      <4>1. j \in DOMAIN names /\ j <= i
        BY <1>2
      <4>2. names[j] \in DOMAIN cfg.repositories /\ cfg.repositories[names[j]] \in e.hang
        BY <1>1, <1>4, <3>3, <4>1
      <4>3. PICK a \in DOMAIN Alphabet : Alphabet[a] = names[j]
        BY <4>2 DEF Loaded, ToSet
      <4>4. a <= b
        BY <3>1, <4>1, <4>3, SortedRises DEF names
      <4>5. QED
        BY <3>1, <3>2, <4>2, <4>3, <4>4
    <3>4. ASSUME NEW a \in DOMAIN Alphabet, NEW o \in DOMAIN Alphabet, a <= o, Alphabet[o] = names[i],
                 Alphabet[a] \in DOMAIN cfg.repositories, cfg.repositories[Alphabet[a]] \in e.hang
          PROVE  i \in failing
      <4>1. PICK j \in DOMAIN names : names[j] = Alphabet[a]
        BY <1>1, <3>4
      <4>2. j <= i
        BY <3>4, <4>1, SortedRises DEF names
      <4>3. j \in 1 .. i
        BY <1>2, <4>2
      <4>4. paths[j] \in e.hang
        BY <1>4, <3>4, <4>1
      <4>5. QED
        BY <1>5, <4>3, <4>4
    <3>5. QED
      BY <1>4, <1>5, <3>2, <3>3, <3>4
  <2>5. \A i \in failing : i \in DOMAIN names
    BY DEF failing
  <2>6. ASSUME NEW k \in DOMAIN K PROVE K[k] \in GivenUp(cfg, e)
    <3>1. pos[k] \in failing \cap DOMAIN names /\ K[k] = names[pos[k]]
      BY <2>2, <2>3 DEF KeepOK
    <3>2. QED
      BY <2>4, <3>1
  <2>7. ASSUME NEW r \in GivenUp(cfg, e) PROVE \E i \in failing : names[i] = r
    <3>1. PICK i \in DOMAIN names : names[i] = r
      BY <1>1 DEF GivenUp
    <3>2. QED
      BY <2>4, <3>1
  <2>8. ASSUME NEW r \in GivenUp(cfg, e) PROVE \E k \in DOMAIN K : K[k] = r
    <3>1. PICK i \in failing : names[i] = r
      BY <2>7
    <3>2. PICK k \in DOMAIN K : pos[k] = i
      BY <2>2, <2>3, <2>5, <3>1 DEF KeepOK
    <3>3. QED
      BY <2>2, <2>3, <3>1, <3>2 DEF KeepOK
  <2>9. ToSet(K) = GivenUp(cfg, e)
    BY <2>6, <2>8 DEF ToSet
  <2>10. failing = {} <=> GivenUp(cfg, e) = {}
    BY <2>4, <2>5, <2>7
  <2>11. QED
    BY <2>9, <2>10 DEF K
<1>8. "OK" # "FAIL"
  OBVIOUS
<1>9. QED
  BY <1>3, <1>6, <1>7, <1>8, RowIs

\* The row of a context that was loaded, on a machine where git can be asked.
LEMMA ResolvedIs ==
  ASSUME NEW cfg, Loaded(cfg), NEW e, NEW id \in DOMAIN cfg.contexts
  PROVE  /\ resolved(cfg, e, id).name = id
         /\ Readable(cfg, e) =>
              (resolved(cfg, e, id).status = "OK" <=> ContextUsable(cfg, e, cfg.contexts[id]))
         /\ resolved(cfg, e, id).status = "OK" => resolved(cfg, e, id).detail = scopes(cfg.contexts[id])
<1> DEFINE ms == cfg.contexts[id]
<1>1. resolved(cfg, e, id) = IF Resolve(cfg, e, id) THEN Row(id, "OK", scopes(ms)) ELSE Row(id, "FAIL", <<>>)
  BY DEF resolved
<1>2. \A i \in DOMAIN ms : ms[i].repository \in DOMAIN cfg.repositories
  BY DEF Loaded
<1>3. Resolve(cfg, e, id) <=>
        \A i \in DOMAIN ms :
          /\ cfg.repositories[ms[i].repository] \in DOMAIN e.commits \ e.hang
          /\ ms[i].revision \in e.commits[cfg.repositories[ms[i].repository]]
  BY <1>2 DEF Resolve
<1>4. ContextUsable(cfg, e, ms) <=>
        \A i \in DOMAIN ms : ms[i].revision \in e.commits[cfg.repositories[ms[i].repository]]
  BY DEF ContextUsable, ToSet
<1> HIDE DEF ms
<1>5. Readable(cfg, e) => (Resolve(cfg, e, id) <=> ContextUsable(cfg, e, ms))
  BY <1>2, <1>3, <1>4 DEF Readable
<1>6. QED
  BY <1>1, <1>5, RowIs DEF ms

LEMMA UnknownIs ==
  ASSUME NEW cfg, NEW e, NEW id, id \notin DOMAIN cfg.contexts
  PROVE  resolved(cfg, e, id).name = id /\ resolved(cfg, e, id).status # "OK"
<1>1. ~Resolve(cfg, e, id)
  BY DEF Resolve
<1>2. "FAIL" # "OK"
  OBVIOUS
<1>3. QED
  BY <1>1, <1>2, RowIs DEF resolved

LEMMA ChecksAre ==
  ASSUME NEW loaded, NEW e, e.version \in Seq(Nat \cup {NaN}), loaded.ok, Loaded(loaded.config)
  PROVE  /\ (\A x \in ToSet(checks(loaded, e)) : x.status = "OK") <=> EnginesUsable(loaded, e)
         /\ \A x \in ToSet(checks(loaded, e)) : x.name = gitCheck => x = checkGit(loaded.config, e)
<1> DEFINE a == checkSDK(e)
           b == Row(configCheck, "OK", <<>>)
           c == checkZoekt(e)
           d == checkCBM(e)
           g == checkGit(loaded.config, e)
<1>1. checks(loaded, e) = <<a, b, c, d, g>>
  BY DEF checks
<1>2. b.status = "OK" /\ b.name = configCheck
  BY RowIs
<1>3. /\ a.status = "OK" <=> e.mcp
      /\ c.status = "OK" <=> e.zoektURL /\ e.zoekt = "answers"
      /\ d.status = "OK" <=> /\ e.command = "runs" /\ e.version # <<>> /\ e.version[1] # NaN
                             /\ NotBefore(release(e.version), minCBM)
      /\ a.name = sdkCheck /\ c.name = zoektCheck /\ d.name = cbmCheck
  BY EnginesAre
<1>4. g.status = "OK" <=> Readable(loaded.config, e)
  BY GitIs
<1> HIDE DEF a, b, c, d, g
<1>5. DOMAIN <<a, b, c, d, g>> = 1 .. 5 /\ 1 .. 5 = {1, 2, 3, 4, 5}
  OBVIOUS
<1>6. ToSet(<<a, b, c, d, g>>) = {a, b, c, d, g}
  BY <1>5 DEF ToSet
<1>7. gitCheck \notin {sdkCheck, configCheck, zoektCheck, cbmCheck}
  <2>1. \A x, y : <<x>> = <<y>> => x = y
    OBVIOUS
  <2>2. "Git repo" \notin {"MCP SDK", "Config", "Zoekt", "CBM"}
    OBVIOUS
  <2>3. QED
    BY <2>1, <2>2 DEF gitCheck, sdkCheck, configCheck, zoektCheck, cbmCheck
<1>8. EnginesUsable(loaded, e) <=>
        /\ e.mcp /\ e.zoektURL /\ e.zoekt = "answers" /\ e.command = "runs"
        /\ e.version # <<>> /\ e.version[1] # NaN
        /\ NotBefore(release(e.version), minCBM)
        /\ Readable(loaded.config, e)
  BY DEF EnginesUsable, Readable
<1>9. (\A x \in {a, b, c, d, g} : x.status = "OK") <=> EnginesUsable(loaded, e)
  BY <1>2, <1>3, <1>4, <1>8
<1>10. \A x \in {a, b, c, d, g} : x.name = gitCheck => x = g
  BY <1>2, <1>3, <1>7
<1>11. QED
  BY <1>1, <1>6, <1>9, <1>10 DEF g

\* The rows of a data directory's repositories.
LEMMA RepositoriesAre ==
  ASSUME NEW st, DOMAIN st = Repos
  PROVE  (\A x \in ToSet(checkRepositories(st)) : x.status = "OK") <=> \A r \in Repos : st[r] = "READY"
<1> DEFINE names == Sorted(DOMAIN st)
           row(i) == Row(names[i], IF st[names[i]] = "READY" THEN "OK" ELSE "FAIL", <<>>)
<1>1. /\ \A i \in DOMAIN names : names[i] \in Repos
      /\ \A r \in Repos : \E i \in DOMAIN names : names[i] = r
  BY SortedIs, ManagedAssumption
<1>2. ToSet(checkRepositories(st)) = {row(i) : i \in DOMAIN names}
  BY DEF checkRepositories, ToSet
<1>3. \A i : row(i).status = "OK" <=> st[names[i]] = "READY"
  <2>1. "FAIL" # "OK"
    OBVIOUS
  <2>2. QED
    BY <2>1, RowIs
<1> HIDE DEF names, row
<1>4. QED
  BY <1>1, <1>2, <1>3

\* The rows of the contexts of a file.
LEMMA ContextsAre ==
  ASSUME NEW cfg, Loaded(cfg), NEW e, Readable(cfg, e)
  PROVE  (\A x \in ToSet(checkContexts(cfg, e)) : x.status = "OK")
           <=> \A id \in DOMAIN cfg.contexts : ContextUsable(cfg, e, cfg.contexts[id])
<1> DEFINE ids == Sorted(DOMAIN cfg.contexts)
<1>1. /\ \A i \in DOMAIN ids : ids[i] \in DOMAIN cfg.contexts
      /\ \A id \in DOMAIN cfg.contexts : \E i \in DOMAIN ids : ids[i] = id
  BY SortedIs DEF Loaded, ConfigOK
<1>2. ToSet(checkContexts(cfg, e)) = {resolved(cfg, e, ids[i]) : i \in DOMAIN ids}
  BY DEF checkContexts, ToSet
<1> HIDE DEF ids
<1>3. QED
  BY <1>1, <1>2, ResolvedIs

\* What a second reading of the records gives.
Listing(rs) ==
  rs # Unreadable => \A i, j \in DOMAIN rs : rs[i].id = rs[j].id => rs[i] = rs[j]

LEMMA ManagedRowIs ==
  ASSUME NEW c, NEW cfg, Loaded(cfg), NEW e
  PROVE  /\ managedRow(c, cfg, e).name = c.id
         /\ managedRow(c, cfg, e).status = "OK" =>
              /\ c.state = "READY" /\ c.id \in DOMAIN cfg.contexts
              /\ managedRow(c, cfg, e).detail = scopes(cfg.contexts[c.id])
         /\ Readable(cfg, e) =>
              (managedRow(c, cfg, e).status = "OK" <=>
                 /\ c.state = "READY" /\ c.id \in DOMAIN cfg.contexts
                 /\ ContextUsable(cfg, e, cfg.contexts[c.id]))
<1>1. CASE c.state # "READY"
  <2>1. managedRow(c, cfg, e).name = c.id /\ managedRow(c, cfg, e).status \in {"FAIL", "SKIP"}
    BY <1>1, RowIs DEF managedRow
  <2>2. managedRow(c, cfg, e).status # "OK"
    BY <2>1
  <2>3. QED
    BY <1>1, <2>1, <2>2
<1>2. CASE c.state = "READY"
  <2>1. managedRow(c, cfg, e) = resolved(cfg, e, c.id)
    BY <1>2 DEF managedRow
  <2>2. CASE c.id \notin DOMAIN cfg.contexts
    BY <2>1, <2>2, UnknownIs
  <2>3. CASE c.id \in DOMAIN cfg.contexts
    BY <1>2, <2>1, <2>3, ResolvedIs
  <2>4. QED
    BY <2>2, <2>3
<1>3. QED
  BY <1>1, <1>2

LEMMA ManagedContextsAre ==
  ASSUME NEW rs, Listing(rs), NEW cfg, Loaded(cfg), NEW e
  PROVE  LET X == ToSet(checkManagedContexts(rs, cfg, e))
         IN  /\ Readable(cfg, e) =>
                  ((\A x \in X : x.status = "OK") <=>
                     /\ rs # Unreadable
                     /\ \A c \in ToSet(rs) : /\ c.state = "READY" /\ c.id \in DOMAIN cfg.contexts
                                             /\ ContextUsable(cfg, e, cfg.contexts[c.id]))
             /\ rs # Unreadable =>
                  \A c \in ToSet(rs) :
                    /\ {x \in X : x.name = c.id} # {}
                    /\ \A x \in X : x.name = c.id /\ x.status = "OK" =>
                         c.id \in DOMAIN cfg.contexts /\ x.detail = scopes(cfg.contexts[c.id])
<1> DEFINE X == ToSet(checkManagedContexts(rs, cfg, e))
<1>1. CASE rs = Unreadable
  <2>1. checkManagedContexts(rs, cfg, e) = <<Row(unnamed, "FAIL", <<>>)>>
    BY <1>1 DEF checkManagedContexts
  <2>2. Row(unnamed, "FAIL", <<>>) \in X
    BY <2>1 DEF ToSet
  <2>3. Row(unnamed, "FAIL", <<>>).status # "OK"
    <3>1. "FAIL" # "OK"
      OBVIOUS
    <3>2. QED
      BY <3>1, RowIs
  <2> HIDE DEF X
  <2>4. QED
    BY <1>1, <2>2, <2>3 DEF X
<1>2. CASE rs # Unreadable
  <2>1. X = {managedRow(rs[i], cfg, e) : i \in DOMAIN rs}
    BY <1>2 DEF checkManagedContexts, ToSet
  <2>2. X = {managedRow(c, cfg, e) : c \in ToSet(rs)}
    BY <2>1 DEF ToSet
  <2>3. \A c, d \in ToSet(rs) : c.id = d.id => c = d
    BY <1>2 DEF Listing, ToSet
  <2> HIDE DEF X
  <2>4. QED
    BY <1>2, <2>2, <2>3, ManagedRowIs DEF X
<1>3. QED
  BY <1>1, <1>2

\* What DoctorTrue says of a report, by what it was made of.
Tells(managed, loaded, e, rs, said, st) ==
  LET cfg == loaded.config
      of(c) == {x \in ToSet(said.contexts) : x.name = c.id}
  IN  /\ said.ok <=>
           /\ EnginesUsable(loaded, e)
           /\ IF managed
              THEN /\ \A r \in Repos : st[r] = "READY"
                   /\ rs # Unreadable
                   /\ \A c \in ToSet(rs) :
                        /\ c.state = "READY" /\ c.id \in DOMAIN cfg.contexts
                        /\ ContextUsable(cfg, e, cfg.contexts[c.id])
              ELSE \A id \in DOMAIN cfg.contexts : ContextUsable(cfg, e, cfg.contexts[id])
      /\ loaded.ok =>
           \A x \in ToSet(said.checks) :
             x.name = gitCheck => IF GivenUp(cfg, e) = {} THEN x.status = "OK"
                                  ELSE x.status = "FAIL" /\ ToSet(x.detail) = GivenUp(cfg, e)
      /\ managed /\ loaded.ok /\ rs # Unreadable =>
           \A c \in ToSet(rs) :
             /\ of(c) # {}
             /\ c.state = "READY" /\ c.id \in DOMAIN cfg.contexts /\ cfg.contexts[c.id] = c.members =>
                  \A x \in of(c) : x.status = "OK" => x.detail = scopes(c.members)

LEMMA ReportIs ==
  ASSUME NEW k, NEW r, NEW c
  PROVE  /\ report(k, r, c).ok <=> /\ \A x \in ToSet(k) : x.status = "OK"
                                   /\ \A x \in ToSet(r) : x.status = "OK"
                                   /\ \A x \in ToSet(c) : x.status = "OK"
         /\ report(k, r, c).checks = k
         /\ report(k, r, c).contexts = c
<1> DEFINE all == \A x \in ToSet(k) \cup ToSet(r) \cup ToSet(c) : x.status = "OK"
<1>1. /\ report(k, r, c).ok = all
      /\ report(k, r, c).checks = k
      /\ report(k, r, c).contexts = c
  BY DEF report
<1>2. all <=> /\ \A x \in ToSet(k) : x.status = "OK"
              /\ \A x \in ToSet(r) : x.status = "OK"
              /\ \A x \in ToSet(c) : x.status = "OK"
  OBVIOUS
<1> HIDE DEF all
<1>3. QED
  BY <1>1, <1>2

LEMMA NothingTold ==
  ASSUME NEW managed, NEW loaded, ~loaded.ok, NEW e, NEW rs, NEW r, NEW c, NEW st
  PROVE  Tells(managed, loaded, e, rs, report(checks(loaded, e), r, c), st)
<1> DEFINE x == Row(configCheck, "FAIL", <<>>)
<1>1. x \in ToSet(checks(loaded, e))
  <2> DEFINE k == <<checkSDK(e), x, notChecked(zoektCheck), notChecked(cbmCheck), notChecked(gitCheck)>>
  <2>1. checks(loaded, e) = k
    BY DEF checks
  <2>2. 2 \in DOMAIN k /\ k[2] = x
    OBVIOUS
  <2> HIDE DEF k, x
  <2>3. QED
    BY <2>1, <2>2 DEF ToSet
<1>2. x.status # "OK"
  <2>1. "FAIL" # "OK"
    OBVIOUS
  <2>2. QED
    BY <2>1, RowIs
<1> HIDE DEF x
<1>3. ~report(checks(loaded, e), r, c).ok
  BY <1>1, <1>2, ReportIs
<1>4. QED
  BY <1>3 DEF Tells, EnginesUsable

LEMMA GitTold ==
  ASSUME NEW loaded, loaded.ok, Loaded(loaded.config), NEW e, e.version \in Seq(Nat \cup {NaN}),
         NEW x \in ToSet(checks(loaded, e)), x.name = gitCheck
  PROVE  IF GivenUp(loaded.config, e) = {} THEN x.status = "OK"
         ELSE x.status = "FAIL" /\ ToSet(x.detail) = GivenUp(loaded.config, e)
BY ChecksAre, GitIs

LEMMA EnginesRead ==
  ASSUME NEW loaded, NEW e
  PROVE  EnginesUsable(loaded, e) => Readable(loaded.config, e)
BY DEF EnginesUsable, Readable

LEMMA FileTold ==
  ASSUME NEW loaded, loaded.ok, Loaded(loaded.config), NEW e, e.version \in Seq(Nat \cup {NaN}), NEW st
  PROVE  Tells(FALSE, loaded, e, <<>>,
               report(checks(loaded, e), <<>>, checkContexts(loaded.config, e)), st)
<1> DEFINE cfg == loaded.config
           k == checks(loaded, e)
           c == checkContexts(cfg, e)
           said == report(k, <<>>, c)
<1>1. ToSet(<<>>) = {}
  BY DEF ToSet
<1>2. said.ok <=> (\A x \in ToSet(k) : x.status = "OK") /\ \A x \in ToSet(c) : x.status = "OK"
  BY <1>1, ReportIs
<1>3. (\A x \in ToSet(k) : x.status = "OK") <=> EnginesUsable(loaded, e)
  BY ChecksAre
<1>4. Readable(cfg, e) => ((\A x \in ToSet(c) : x.status = "OK") <=>
                             \A id \in DOMAIN cfg.contexts : ContextUsable(cfg, e, cfg.contexts[id]))
  BY ContextsAre
<1>5. EnginesUsable(loaded, e) => Readable(cfg, e)
  BY EnginesRead
<1>6. said.checks = k
  BY ReportIs
<1>7. \A x \in ToSet(k) :
        x.name = gitCheck => IF GivenUp(cfg, e) = {} THEN x.status = "OK"
                             ELSE x.status = "FAIL" /\ ToSet(x.detail) = GivenUp(cfg, e)
  BY GitTold
<1> HIDE DEF k, c, said, cfg
<1>8. Tells(FALSE, loaded, e, <<>>, said, st)
  BY <1>2, <1>3, <1>4, <1>5, <1>6, <1>7 DEF Tells, cfg
<1>9. QED
  BY <1>8 DEF said, k, c, cfg

LEMMA DirectoryTold ==
  ASSUME NEW loaded, loaded.ok, Loaded(loaded.config), NEW e, e.version \in Seq(Nat \cup {NaN}),
         NEW rs, Listing(rs), NEW st, DOMAIN st = Repos
  PROVE  Tells(TRUE, loaded, e, rs,
               report(checks(loaded, e), checkRepositories(st),
                      checkManagedContexts(rs, loaded.config, e)), st)
<1> DEFINE cfg == loaded.config
           k == checks(loaded, e)
           r == checkRepositories(st)
           c == checkManagedContexts(rs, cfg, e)
           said == report(k, r, c)
<1>2. said.ok <=> /\ \A x \in ToSet(k) : x.status = "OK"
                  /\ \A x \in ToSet(r) : x.status = "OK"
                  /\ \A x \in ToSet(c) : x.status = "OK"
  BY ReportIs
<1>3. (\A x \in ToSet(k) : x.status = "OK") <=> EnginesUsable(loaded, e)
  BY ChecksAre
<1>4. (\A x \in ToSet(r) : x.status = "OK") <=> \A n \in Repos : st[n] = "READY"
  BY RepositoriesAre
<1>5. /\ Readable(cfg, e) =>
           ((\A x \in ToSet(c) : x.status = "OK") <=>
              /\ rs # Unreadable
              /\ \A o \in ToSet(rs) : /\ o.state = "READY" /\ o.id \in DOMAIN cfg.contexts
                                      /\ ContextUsable(cfg, e, cfg.contexts[o.id]))
      /\ rs # Unreadable =>
           \A o \in ToSet(rs) :
             /\ {x \in ToSet(c) : x.name = o.id} # {}
             /\ \A x \in ToSet(c) : x.name = o.id /\ x.status = "OK" =>
                  o.id \in DOMAIN cfg.contexts /\ x.detail = scopes(cfg.contexts[o.id])
  BY ManagedContextsAre
<1>6. EnginesUsable(loaded, e) => Readable(cfg, e)
  BY EnginesRead
<1>7. said.checks = k /\ said.contexts = c
  BY ReportIs
<1>8. \A x \in ToSet(k) :
        x.name = gitCheck => IF GivenUp(cfg, e) = {} THEN x.status = "OK"
                             ELSE x.status = "FAIL" /\ ToSet(x.detail) = GivenUp(cfg, e)
  BY GitTold
<1> HIDE DEF k, r, c, said, cfg
<1>9. Tells(TRUE, loaded, e, rs, said, st)
  <2>1. said.ok <=>
           /\ EnginesUsable(loaded, e)
           /\ \A n \in Repos : st[n] = "READY"
           /\ rs # Unreadable
           /\ \A o \in ToSet(rs) : /\ o.state = "READY" /\ o.id \in DOMAIN cfg.contexts
                                    /\ ContextUsable(cfg, e, cfg.contexts[o.id])
    BY <1>2, <1>3, <1>4, <1>5, <1>6
  <2>2. rs # Unreadable =>
           \A o \in ToSet(rs) :
             /\ {x \in ToSet(said.contexts) : x.name = o.id} # {}
             /\ o.state = "READY" /\ o.id \in DOMAIN cfg.contexts /\ cfg.contexts[o.id] = o.members =>
                  \A x \in {x \in ToSet(said.contexts) : x.name = o.id} :
                    x.status = "OK" => x.detail = scopes(o.members)
    BY <1>5, <1>7
  <2>3. QED
    BY <1>7, <1>8, <2>1, <2>2 DEF Tells, cfg
<1>10. QED
  BY <1>9 DEF said, k, r, c, cfg
-----------------------------------------------------------------------------
(* What a doctor has loaded                                                *)

LEMMA LoadedFile ==
  ASSUME NEW file, IsFile(file), DOMAIN file.repositories \subseteq ToSet(Alphabet), Load(file).ok
  PROVE  Loaded(Load(file).config)
<1> DEFINE cfg == ReadFile(file)
<1>1. Load(file) = Accepted(cfg) /\ \A id \in DOMAIN file.contexts : workspace(file.contexts[id]) # Unreadable
  BY LoadIs
<1>2. Load(file).config = cfg
  BY <1>1 DEF Accepted
<1>3. /\ cfg.repositories = file.repositories /\ DOMAIN cfg.contexts = DOMAIN file.contexts
      /\ \A id \in DOMAIN file.contexts : cfg.contexts[id] = workspace(file.contexts[id])
  BY DEF ReadFile
<1> HIDE DEF cfg
<1>4. ASSUME NEW id \in DOMAIN file.contexts
      PROVE  /\ cfg.contexts[id] \in Seq(MemberRecords)
             /\ \A i \in DOMAIN cfg.contexts[id] : cfg.contexts[id][i].repository \in DOMAIN file.repositories
  <2> DEFINE d == file.contexts[id]
  <2>1. SoundAlone(file, id, d)
    BY AcceptedIsSound, SoundIs
  <2>2. d.given <=> d.inline = Nothing
    BY <2>1 DEF SoundAlone
  <2>3. workspace(d) \in Seq(MemberRecords) /\ ToSet(workspace(d)) = MembersOf(d)
    BY <1>1, <2>2, WorkspaceIs DEF IsFile
  <2>4. \A m \in MembersOf(d) : m.repository \in DOMAIN file.repositories
    BY <2>1 DEF SoundAlone
  <2>5. \A i \in DOMAIN workspace(d) : workspace(d)[i] \in MembersOf(d)
    BY <2>3 DEF ToSet
  <2> HIDE DEF d
  <2>6. QED
    BY <1>3, <2>3, <2>4, <2>5 DEF d
<1>5. QED
  BY <1>2, <1>3, <1>4 DEF Loaded, ConfigOK, IsFile

LEMMA MarshalledFile ==
  ASSUME NEW cfg, ConfigOK(cfg)
  PROVE  IsFile(Marshal(cfg)) /\ Marshal(cfg).repositories = cfg.repositories
<1> DEFINE file == Marshal(cfg)
<1>1. /\ file.strict = TRUE /\ file.repositories = cfg.repositories
      /\ DOMAIN file.contexts = DOMAIN cfg.contexts
      /\ \A id \in DOMAIN cfg.contexts : file.contexts[id] =
           IF Len(cfg.contexts[id]) = 1 THEN Inline(cfg.contexts[id][1]) ELSE Listed(cfg.contexts[id])
  BY DEF Marshal
<1>2. \A m \in MemberRecords : IsDeclaration(Inline(m))
  <2>1. <<>> \in Seq(MemberRecords)
    OBVIOUS
  <2>2. QED
    BY <2>1 DEF IsDeclaration, Inline
<1>3. \A ms \in Seq(MemberRecords) : IsDeclaration(Listed(ms))
  BY NothingIs DEF IsDeclaration, Listed
<1>4. \A ms \in Seq(MemberRecords) : Len(ms) = 1 => ms[1] \in MemberRecords
  OBVIOUS
<1> HIDE DEF file
<1>5. QED
  BY <1>1, <1>2, <1>3, <1>4 DEF IsFile, ConfigOK, file

\* No context is of a repository that was never added, unless its record was
\* edited to name none.
Known(c) == \A i \in DOMAIN c.members : c.members[i].repository \in Repos \cup {blank}

KnownOK ==
  \A id \in DOMAIN records :
    /\ id \in ToSet(Alphabet)
    /\ Read(records, id) # Unreadable => Known(Read(records, id))

LEMMA ManagedLoaded ==
  ASSUME RegistryOK, KnownOK, managedConfig(records).ok
  PROVE  Loaded(managedConfig(records).config)
<1> DEFINE ready == readyContexts(readable(records))
           cfg == generated(ready)
<1>1. ASSUME NEW c \in ready
      PROVE  c \in ContextRecords /\ c.id \in ToSet(Alphabet) /\ Known(c)
  <2>1. PICK id \in DOMAIN records : c = Read(records, id) /\ c # Unreadable
    BY DEF readyContexts, readable, listRecords
  <2> HIDE DEF ready
  <2>2. QED
    BY <2>1, ReadableIs DEF KnownOK
<1>2. /\ DOMAIN cfg.contexts = {c.id : c \in ready}
      /\ \A id \in DOMAIN cfg.contexts : cfg.contexts[id] = (CHOOSE c \in ready : c.id = id).members
      /\ DOMAIN cfg.repositories = UNION {repositoriesOf(c) : c \in ready}
  BY DEF generated
<1>3. \/ managedConfig(records) = Accepted(NoConfig)
      \/ /\ managedConfig(records) = Load(Marshal(cfg))
         /\ \A c \in ready : lockable(c)
  <2>1. ~Refused("unreadable record").ok /\ ~Refused("INVALID_ARGUMENT").ok
    BY DEF Refused
  <2>2. QED
    BY <2>1 DEF managedConfig
<1> HIDE DEF ready, cfg
<1>4. ConfigOK(cfg)
  <2>1. ASSUME NEW id \in DOMAIN cfg.contexts PROVE cfg.contexts[id] \in Seq(MemberRecords)
    <3>1. PICK c \in ready : c.id = id
      BY <1>2
    <3>2. (CHOOSE o \in ready : o.id = id) \in ready
      BY <3>1
    <3>3. QED
      BY <1>1, <1>2, <3>2 DEF ContextRecords
  <2>2. QED
    BY <1>1, <1>2, <2>1 DEF ConfigOK
<1>5. CASE managedConfig(records) = Accepted(NoConfig)
  <2>1. /\ DOMAIN managedConfig(records).config.contexts = {}
        /\ DOMAIN managedConfig(records).config.repositories = {}
    BY <1>5 DEF Accepted, NoConfig
  <2>2. QED
    BY <2>1 DEF Loaded, ConfigOK
<1>6. CASE /\ managedConfig(records) = Load(Marshal(cfg))
           /\ \A c \in ready : lockable(c)
  <2>1. ASSUME NEW r \in DOMAIN cfg.repositories PROVE r \in ToSet(Alphabet)
    <3>1. PICK c \in ready : r \in repositoriesOf(c)
      BY <1>2
    <3>2. r \in Repos \cup {blank}
      BY <1>1, <3>1 DEF repositoriesOf, Known
    <3>3. r # blank
      BY <1>6, <3>1 DEF lockable, validateName
    <3>4. QED
      BY <3>2, <3>3, ManagedAssumption
  <2>2. IsFile(Marshal(cfg)) /\ DOMAIN Marshal(cfg).repositories \subseteq ToSet(Alphabet)
    BY <1>4, <2>1, MarshalledFile
  <2>3. QED
    BY <1>6, <2>2, LoadedFile
<1>7. QED
  BY <1>3, <1>5, <1>6

LEMMA RewrittenKnown ==
  ASSUME NEW c \in ContextRecords, c.members # <<>>, Known(c),
         NEW w, w = MarshalJSON(c), NEW e \in rewritten(w, c), UnmarshalJSON(e) # Unreadable
  PROVE  Known(UnmarshalJSON(e))
<1>1. CASE e = [w EXCEPT !.repository = JSONNull]
  <2>1. e.repository = JSONNull
    BY <1>1, FieldsAre, SpellingIs, FieldsTyped
  <2> DEFINE fields == Member(e.repository.name, e.branch, e.revision, e.graphRef)
  <2>2. fields.repository = blank
    BY <2>1 DEF Member, JSONNull
  <2>3. e.members = <<>> \/ e.members = c.members
    <3>1. w.members = <<>> \/ w.members = c.members
      BY FieldsAre
    <3>2. e.members = w.members
      BY <1>1, FieldsAre, SpellingIs, FieldsTyped
    <3>3. QED
      BY <3>1, <3>2
  <2>4. \/ UnmarshalJSON(e).members = <<fields>>
        \/ UnmarshalJSON(e).members = e.members /\ e.members # <<>>
        \/ UnmarshalJSON(e) = Unreadable
    <3> DEFINE context(members) == [id |-> e.id, state |-> e.state, members |-> members]
               listed == e.members # <<>> /\ e.repository.type # "string" /\ fields = Nothing
               inline == e.members = <<>> /\ e.repository.type \in {"string", "null"}
    <3>1. UnmarshalJSON(e) = CASE listed -> context(e.members)
                               [] inline -> context(<<fields>>)
                               [] OTHER -> Unreadable
      BY DEF UnmarshalJSON
    <3>2. \A ms : context(ms).members = ms
      OBVIOUS
    <3>3. listed => e.members # <<>> /\ ~inline
      OBVIOUS
    <3> HIDE DEF context, listed, inline, fields
    <3>4. CASE listed
      BY <3>1, <3>2, <3>3, <3>4
    <3>5. CASE inline
      BY <3>1, <3>2, <3>3, <3>5
    <3>6. CASE ~listed /\ ~inline
      BY <3>1, <3>6
    <3>7. QED
      BY <3>4, <3>5, <3>6
  <2> HIDE DEF fields
  <2>5. CASE UnmarshalJSON(e).members = <<fields>>
    <3>1. \A i \in DOMAIN <<fields>> : <<fields>>[i] = fields
      OBVIOUS
    <3>2. QED
      BY <2>2, <2>5, <3>1 DEF Known
  <2>6. CASE UnmarshalJSON(e).members = c.members
    BY <2>6 DEF Known
  <2>7. QED
    BY <2>3, <2>4, <2>5, <2>6
<1>2. ASSUME NEW x \in altered(c), e = MarshalJSON(x) PROVE Known(UnmarshalJSON(e))
  <2>1. Alters(c, x)
    BY AlteredIs
  <2>2. UnmarshalJSON(e) = x
    BY <1>2, <2>1, WrittenIsRead DEF Alters
  <2>3. QED
    BY <2>1, <2>2 DEF Alters, Known
<1>3. QED
  BY <1>1, <1>2 DEF rewritten

\* A record that is kept or written with known members keeps KnownOK.
LEMMA KnownKept ==
  ASSUME KnownOK,
         \A id \in DOMAIN records' :
           \/ id \in DOMAIN records /\ records'[id] = records[id]
           \/ /\ id \in ToSet(Alphabet)
              /\ UnmarshalJSON(records'[id]) # Unreadable => Known(UnmarshalJSON(records'[id]))
  PROVE  KnownOK'
BY DEF KnownOK, Read

LEMMA KnownWritten ==
  ASSUME KnownOK, NEW c \in ContextRecords, c.members # <<>>, Known(c), c.id \in ToSet(Alphabet),
         NEW s \in ContextStates, NEW rs, rs = PutContext(records, InState(c, s))
  PROVE  \A id \in DOMAIN rs :
           \/ id \in DOMAIN records /\ rs[id] = records[id]
           \/ /\ id \in ToSet(Alphabet)
              /\ UnmarshalJSON(rs[id]) # Unreadable => Known(UnmarshalJSON(rs[id]))
<1> DEFINE d == InState(c, s)
<1>1. d \in ContextRecords /\ d.id = c.id /\ d.members = c.members
  BY InStateIs
<1> HIDE DEF d
<1>2. UnmarshalJSON(MarshalJSON(d)) = d /\ Known(d)
  BY <1>1, WrittenIsRead DEF Known
<1>3. \A id \in DOMAIN rs : \/ id \in DOMAIN records /\ rs[id] = records[id]
                            \/ id = c.id /\ rs[id] = MarshalJSON(d)
  BY <1>1 DEF PutContext, With, d
<1>4. QED
  BY <1>2, <1>3

LEMMA KnownStep ==
  ASSUME RegistryOK, KnownOK, DOMAIN states = Repos, [Next]_vars
  PROVE  KnownOK'
<1>1. CASE UNCHANGED records
  BY <1>1, KnownKept
<1>2. ASSUME NEW p \in Pinnings, NEW end \in {"FAILED", "BUILDING"}, CreateContext(p.id, p.pins, end)
      PROVE  KnownOK'
  <2>1. p.id \in Names /\ p.pins \in Seq(PinRecords) /\ p.id \in ToSet(Alphabet)
    BY WritingAssumption, ManagedAssumption
  <2>2. PICK c \in ContextRecords, s \in ContextStates :
             /\ c.id = p.id /\ c.members # <<>>
             /\ \A i \in DOMAIN c.members : c.members[i].repository \in DOMAIN states
             /\ records' = PutContext(records, InState(c, s))
    BY <1>2, <2>1, MembersMade
  <2>3. Known(c)
    BY <2>2 DEF Known
  <2>4. QED
    BY <2>1, <2>2, <2>3, KnownWritten, KnownKept
<1>3. ASSUME NEW id \in DOMAIN records, Read(records, id) # Unreadable, NEW s \in ContextStates,
             NEW rs, rs = PutContext(records, InState(Read(records, id), s))
      PROVE  \A x \in DOMAIN rs :
               \/ x \in DOMAIN records /\ rs[x] = records[x]
               \/ /\ x \in ToSet(Alphabet)
                  /\ UnmarshalJSON(rs[x]) # Unreadable => Known(UnmarshalJSON(rs[x]))
  <2> DEFINE c == Read(records, id)
  <2>1. c \in ContextRecords /\ c.id = id /\ c.members # <<>> /\ Known(c) /\ id \in ToSet(Alphabet)
    BY <1>3, ReadableIs DEF KnownOK
  <2> HIDE DEF c
  <2>2. rs = PutContext(records, InState(c, s))
    BY <1>3 DEF c
  <2>3. QED
    BY <2>1, <2>2, KnownWritten
<1>4. ASSUME NEW id \in Ids, NEW end \in {"FAILED", "BUILDING"}, RetryContext(id, end)
      PROVE  KnownOK'
  <2>1. id \in DOMAIN records /\ Read(records, id) # Unreadable
    BY <1>4 DEF RetryContext
  <2>2. \/ \E d, k : Build(Read(records, id), d, k, end, {})
        \/ \E d : Leaves(records, d, {})
    BY <1>4 DEF RetryContext
  <2>3. \/ \E s \in ContextStates : records' = PutContext(records, InState(Read(records, id), s))
        \/ UNCHANGED records
    <3>1. CASE \E d, k : Build(Read(records, id), d, k, end, {})
      BY <3>1, BuildWrites
    <3>2. CASE \E d : Leaves(records, d, {})
      BY <3>2 DEF Leaves
    <3>3. QED
      BY <2>2, <3>1, <3>2
  <2>4. QED
    BY <1>1, <1>3, <2>1, <2>3, KnownKept
<1>5. ASSUME NEW id \in Ids, RemoveContext(id) PROVE KnownOK'
  <2> DEFINE begun == PutContext(records, InState(Read(records, id), "REMOVING"))
  <2>1. id \in DOMAIN records /\ Read(records, id) # Unreadable
    BY <1>5 DEF RemoveContext
  <2>2. records' = Without(begun, id) \/ records' = begun
    BY <1>5 DEF RemoveContext, Leaves
  <2>3. \A x \in DOMAIN begun :
          \/ x \in DOMAIN records /\ begun[x] = records[x]
          \/ /\ x \in ToSet(Alphabet)
             /\ UnmarshalJSON(begun[x]) # Unreadable => Known(UnmarshalJSON(begun[x]))
    BY <1>3, <2>1 DEF ContextStates
  <2> HIDE DEF begun
  <2>4. \A x \in DOMAIN records' : x \in DOMAIN begun /\ records'[x] = begun[x]
    BY <2>2 DEF Without, RestrictDomain, Restrict
  <2>5. QED
    BY <2>3, <2>4, KnownKept
<1>6. ASSUME NEW id \in Ids, EditRecord(id) PROVE KnownOK'
  <2> DEFINE w == records[id]
             c == Read(records, id)
  <2>1. id \in DOMAIN records /\ id \notin edited.spelling
    BY <1>6 DEF EditRecord
  <2>2. c = Created(id) /\ c # Unreadable /\ w = MarshalJSON(c)
    BY <2>1, UneditedIs DEF RegistryOK, RecordOK
  <2>3. c \in ContextRecords /\ c.members # <<>>
    BY <2>1, <2>2, CreatedIs
  <2>4. Known(c) /\ id \in ToSet(Alphabet)
    BY <2>1, <2>2 DEF KnownOK
  <2>5. PICK e \in respelled(w, c) \cup rewritten(w, c) : records' = [records EXCEPT ![id] = e]
    BY <1>6 DEF EditRecord
  <2> HIDE DEF w, c
  <2>6. UnmarshalJSON(e) # Unreadable => Known(UnmarshalJSON(e))
    <3>1. CASE e \in respelled(w, c)
      BY <2>2, <2>3, <2>4, <3>1, RespelledIs
    <3>2. CASE e \in rewritten(w, c)
      BY <2>2, <2>3, <2>4, <3>2, RewrittenKnown
    <3>3. QED
      BY <2>5, <3>1, <3>2
  <2>7. \A x \in DOMAIN records' : x \in DOMAIN records /\ records'[x] = IF x = id THEN e ELSE records[x]
    BY <2>5
  <2>8. QED
    BY <2>4, <2>6, <2>7, KnownKept
<1>7. \/ UNCHANGED records
      \/ \E p \in Pinnings, end \in {"FAILED", "BUILDING"} : CreateContext(p.id, p.pins, end)
      \/ \E id \in Ids, end \in {"FAILED", "BUILDING"} : RetryContext(id, end)
      \/ \E id \in Ids : RemoveContext(id) \/ EditRecord(id)
  <2>1. CASE UNCHANGED vars
    BY <2>1 DEF vars
  <2>2. ASSUME \/ \E id \in Ids : VerifyContext(id) \/ Lose(id)
               \/ \E r \in Repos : Sync(r)
               \/ Serve \/ Stop \/ DoctorReads \/ Heard
               \/ \E e \in Usual : DoctorReports(e)
               \/ \E file \in Files : HandWritten(file)
               \/ \E r \in Pushed, v \in Revisions : Push(r, v)
        PROVE  UNCHANGED records
    BY <2>2 DEF VerifyContext, Lose, Sync, Serve, Stop, DoctorReads, Heard, DoctorReports, HandWritten,
                Validate, DoctorFile, Push
  <2>3. CASE Next
    BY <2>2, <2>3 DEF Next
  <2>4. QED
    BY <2>1, <2>3
<1>8. QED
  BY <1>1, <1>2, <1>4, <1>5, <1>6, <1>7
-----------------------------------------------------------------------------
(* What a doctor says                                                      *)

\* A doctor goes on with a configuration that was loaded.
ReadingOK == doctor # Off => (doctor.loaded.ok => Loaded(doctor.loaded.config))

DoctorInv == RegistryOK /\ KnownOK /\ DOMAIN states = Repos /\ ReadingOK

LEMMA ListingIs ==
  ASSUME RegistryOK
  PROVE  Listing(Contexts(records))
<1> DEFINE ids == Sorted(DOMAIN records)
           rs == [i \in DOMAIN ids |-> Read(records, ids[i])]
<1>1. CASE Unreadable \in listRecords(records)
  BY <1>1 DEF Contexts, Listing
<1>2. CASE Unreadable \notin listRecords(records)
  <2>1. Contexts(records) = rs
    BY <1>2 DEF Contexts
  <2>2. \A i \in DOMAIN ids : ids[i] \in DOMAIN records
    BY SortedIs
  <2>3. \A id \in DOMAIN records : Read(records, id).id = id
    BY <1>2, ReadableIs DEF listRecords
  <2>4. DOMAIN rs = DOMAIN ids /\ \A i \in DOMAIN ids : rs[i] = Read(records, ids[i])
    OBVIOUS
  <2> HIDE DEF ids, rs
  <2>5. QED
    BY <2>1, <2>2, <2>3, <2>4 DEF Listing
<1>3. QED
  BY <1>1, <1>2

LEMMA StatesStay == ASSUME DOMAIN states = Repos, [Next]_vars PROVE DOMAIN states' = Repos
<1>1. ASSUME NEW r \in Repos, Sync(r) PROVE DOMAIN states' = Repos
  BY <1>1 DEF Sync
<1>2. ASSUME \/ \E p \in Pinnings, end \in {"FAILED", "BUILDING"} : CreateContext(p.id, p.pins, end)
             \/ \E id \in Ids, end \in {"FAILED", "BUILDING"} : RetryContext(id, end)
             \/ \E id \in Ids : RemoveContext(id)
      PROVE  UNCHANGED states
  <2>1. ASSUME NEW p \in Pinnings, NEW end \in {"FAILED", "BUILDING"}, CreateContext(p.id, p.pins, end)
        PROVE  UNCHANGED states
    BY <2>1 DEF CreateContext
  <2>2. ASSUME NEW id \in Ids, NEW end \in {"FAILED", "BUILDING"}, RetryContext(id, end)
        PROVE  UNCHANGED states
    BY <2>2 DEF RetryContext
  <2>3. ASSUME NEW id \in Ids, RemoveContext(id) PROVE UNCHANGED states
    BY <2>3 DEF RemoveContext
  <2>4. QED
    BY <1>2, <2>1, <2>2, <2>3
<1>3. ASSUME \E id \in Ids : VerifyContext(id) \/ Lose(id) \/ EditRecord(id) PROVE UNCHANGED states
  BY <1>3 DEF VerifyContext, Lose, EditRecord
<1>4. ASSUME \/ Serve \/ Stop \/ DoctorReads \/ Heard
             \/ \E e \in Usual : DoctorReports(e)
             \/ \E r \in Pushed, v \in Revisions : Push(r, v)
      PROVE  UNCHANGED states
  BY <1>4 DEF Serve, Stop, DoctorReads, Heard, DoctorReports, Push
<1>5. ASSUME NEW file \in Files, HandWritten(file) PROVE UNCHANGED states
  BY <1>5 DEF HandWritten, Validate, DoctorFile
<1>6. CASE UNCHANGED vars
  BY <1>6 DEF vars
<1>7. QED
  BY <1>1, <1>2, <1>3, <1>4, <1>5, <1>6 DEF Next

LEMMA ReadingStep ==
  ASSUME DoctorInv, [Next]_vars
  PROVE  ReadingOK'
<1>1. CASE DoctorReads
  <2>1. doctor' = [running |-> TRUE, loaded |-> managedConfig(records)]
    BY <1>1 DEF DoctorReads
  <2>2. doctor'.loaded = managedConfig(records)
    BY <2>1
  <2>3. QED
    BY <2>2, ManagedLoaded DEF ReadingOK, DoctorInv
<1>2. ASSUME NEW e \in Usual, DoctorReports(e) PROVE ReadingOK'
  BY <1>2 DEF DoctorReports, ReadingOK, Off
<1>3. ASSUME \/ \E p \in Pinnings, end \in {"FAILED", "BUILDING"} : CreateContext(p.id, p.pins, end)
             \/ \E id \in Ids, end \in {"FAILED", "BUILDING"} : RetryContext(id, end)
             \/ \E id \in Ids : RemoveContext(id)
      PROVE  UNCHANGED doctor
  <2>1. ASSUME NEW p \in Pinnings, NEW end \in {"FAILED", "BUILDING"}, CreateContext(p.id, p.pins, end)
        PROVE  UNCHANGED doctor
    BY <2>1 DEF CreateContext
  <2>2. ASSUME NEW id \in Ids, NEW end \in {"FAILED", "BUILDING"}, RetryContext(id, end)
        PROVE  UNCHANGED doctor
    BY <2>2 DEF RetryContext
  <2>3. ASSUME NEW id \in Ids, RemoveContext(id) PROVE UNCHANGED doctor
    BY <2>3 DEF RemoveContext
  <2>4. QED
    BY <1>3, <2>1, <2>2, <2>3
<1>4. ASSUME \E id \in Ids : VerifyContext(id) \/ Lose(id) \/ EditRecord(id) PROVE UNCHANGED doctor
  BY <1>4 DEF VerifyContext, Lose, EditRecord
<1>5. ASSUME \/ Serve \/ Stop \/ Heard
             \/ \E r \in Repos : Sync(r)
             \/ \E r \in Pushed, v \in Revisions : Push(r, v)
      PROVE  UNCHANGED doctor
  BY <1>5 DEF Serve, Stop, Heard, Sync, Push
<1>6. ASSUME NEW file \in Files, HandWritten(file) PROVE UNCHANGED doctor
  BY <1>6 DEF HandWritten, Validate, DoctorFile
<1>7. UNCHANGED vars => UNCHANGED doctor
  BY DEF vars
<1>8. CASE UNCHANGED doctor
  BY <1>8 DEF ReadingOK, DoctorInv
<1>9. QED
  BY <1>1, <1>2, <1>3, <1>4, <1>5, <1>6, <1>7, <1>8 DEF Next

LEMMA DoctorInvariance == Spec => []DoctorInv
<1>1. Init => DoctorInv
  <2> SUFFICES ASSUME Init PROVE DoctorInv
    OBVIOUS
  <2>1. RegistryOK
    BY ConfigInit DEF ConfigInv
  <2>2. DOMAIN records = {} /\ DOMAIN states = Repos /\ doctor = Off
    BY DEF Init
  <2>3. QED
    BY <2>1, <2>2 DEF DoctorInv, KnownOK, ReadingOK
<1>2. DoctorInv /\ ConfigInv' /\ [Next]_vars => DoctorInv'
  <2> SUFFICES ASSUME DoctorInv, ConfigInv', [Next]_vars PROVE DoctorInv'
    OBVIOUS
  <2>1. KnownOK'
    BY KnownStep DEF DoctorInv
  <2>2. DOMAIN states' = Repos
    BY StatesStay DEF DoctorInv
  <2>3. ReadingOK'
    BY ReadingStep
  <2>4. QED
    BY <2>1, <2>2, <2>3 DEF DoctorInv, ConfigInv
<1>3. QED
  BY <1>1, <1>2, ConfigInvariance, PTL DEF Spec

\* The answer of a doctor.
Report(managed, loaded, e, rs, said) ==
  /\ answer'.managed = managed /\ answer'.loaded = loaded /\ answer'.found = e
  /\ answer'.records = rs /\ answer'.report = said

LEMMA ToldTrue ==
  ASSUME NEW managed \in BOOLEAN, NEW loaded, NEW e, NEW rs, NEW said,
         Report(managed, loaded, e, rs, said), Tells(managed, loaded, e, rs, said, states), UNCHANGED states
  PROVE  DoctorTrue'
BY DEF Report, Tells, DoctorTrue

LEMMA DoctorStep == ASSUME DoctorInv, DoctorTrue, [Next]_vars PROVE DoctorTrue'
<1>1. CASE UNCHANGED vars
  <2>1. UNCHANGED answer /\ UNCHANGED states
    BY <1>1 DEF vars
  <2>2. QED
    BY <2>1 DEF DoctorTrue
<1>2. CASE answer'.command # "doctor"
  BY <1>2 DEF DoctorTrue
<1>3. Quiet.command # "doctor"
  BY DEF Quiet
<1>4. ASSUME NEW p \in Pinnings, NEW end \in {"FAILED", "BUILDING"}, CreateContext(p.id, p.pins, end)
      PROVE  answer'.command # "doctor"
  <2>1. answer'.command = "create"
    BY <1>4 DEF CreateContext
  <2>2. QED
    BY <2>1
<1>5. ASSUME NEW id \in Ids, NEW end \in {"FAILED", "BUILDING"}, RetryContext(id, end) \/ RemoveContext(id)
      PROVE  answer'.command # "doctor"
  BY <1>3, <1>5 DEF RetryContext, RemoveContext
<1>6. ASSUME Serve \/ \E id \in Ids : VerifyContext(id)
      PROVE  answer'.command # "doctor"
  BY <1>6 DEF VerifyContext, Serve
<1>7. ASSUME \/ Stop \/ DoctorReads \/ Heard
             \/ \E r \in Repos : Sync(r)
             \/ \E r \in Pushed, v \in Revisions : Push(r, v)
             \/ \E id \in Ids : EditRecord(id) \/ Lose(id)
      PROVE  answer'.command # "doctor"
  BY <1>3, <1>7 DEF Stop, DoctorReads, Heard, Sync, Push, EditRecord, Lose
<1>8. ASSUME NEW e \in Environments PROVE Found(e, disk).version \in Seq(Nat \cup {NaN})
  BY EnvironmentsAssumption DEF Found
<1>9. ASSUME NEW file \in Files, NEW e \in Environments, DoctorFile(file, e)
      PROVE  DoctorTrue'
  <2> DEFINE loaded == Load(file)
             found == Found(e, disk)
             said == IF loaded.ok
                     THEN report(checks(loaded, found), <<>>, checkContexts(loaded.config, found))
                     ELSE report(checks(loaded, found), <<>>, <<notChecked(unnamed)>>)
  <2>1. Report(FALSE, loaded, found, <<>>, said)
    BY <1>9 DEF DoctorFile, Diagnosis, Report
  <2>2. UNCHANGED states
    BY <1>9 DEF DoctorFile
  <2>3. IsFile(file) /\ DOMAIN file.repositories \subseteq ToSet(Alphabet)
    BY FileAssumption DEF IsFile, IsDeclaration
  <2>4. loaded.ok => Loaded(loaded.config)
    BY <2>3, LoadedFile
  <2>5. found.version \in Seq(Nat \cup {NaN})
    BY <1>8
  <2> HIDE DEF loaded, found
  <2>6. Tells(FALSE, loaded, found, <<>>, said, states)
    BY <2>4, <2>5, FileTold, NothingTold
  <2> HIDE DEF said
  <2>7. QED
    BY <2>1, <2>2, <2>6, ToldTrue
<1>10. ASSUME NEW e \in Usual, DoctorReports(e) PROVE DoctorTrue'
  <2> DEFINE loaded == doctor.loaded
             found == Found(e, disk)
             rs == Contexts(records)
             said == IF loaded.ok
                     THEN report(checks(loaded, found), checkRepositories(states),
                                 checkManagedContexts(rs, loaded.config, found))
                     ELSE report(checks(loaded, found), <<notChecked(unnamed)>>, <<notChecked(unnamed)>>)
  <2>1. Report(TRUE, loaded, found, rs, said)
    BY <1>10 DEF DoctorReports, Diagnosis, Report
  <2>2. UNCHANGED states /\ doctor # Off
    BY <1>10 DEF DoctorReports
  <2>3. Listing(rs) /\ DOMAIN states = Repos
    BY ListingIs DEF DoctorInv
  <2>4. loaded.ok => Loaded(loaded.config)
    BY <2>2 DEF DoctorInv, ReadingOK
  <2>5. found.version \in Seq(Nat \cup {NaN})
    BY <1>8, ManagedAssumption
  <2> HIDE DEF loaded, found, rs
  <2>6. Tells(TRUE, loaded, found, rs, said, states)
    BY <2>3, <2>4, <2>5, DirectoryTold, NothingTold
  <2> HIDE DEF said
  <2>7. QED
    BY <2>1, <2>2, <2>6, ToldTrue
<1>11. ASSUME NEW file \in Files, HandWritten(file)
       PROVE  answer'.command # "doctor" \/ \E e \in Environments : DoctorFile(file, e)
  <2>1. Validate(file) => answer'.command = "validate"
    BY DEF Validate
  <2>2. QED
    BY <1>11, <2>1 DEF HandWritten
<1>12. CASE Next
  BY <1>12, <1>2, <1>4, <1>5, <1>6, <1>7, <1>9, <1>10, <1>11 DEF Next
<1>13. QED
  BY <1>1, <1>12

\* What doctor says of the machine, of the repositories and of every context is
\* what it found, with any records, files and environments: its exit, the row of
\* git, the pins in a row that says OK (cmd/vacmcp/doctor.go).
THEOREM DoctorsTrue == Spec => []DoctorTrue
<1>1. Init => DoctorTrue
  BY DEF Init, DoctorTrue, Quiet
<1>2. DoctorInv /\ DoctorTrue /\ [Next]_vars => DoctorTrue'
  BY DoctorStep
<1>3. QED
  BY <1>1, <1>2, DoctorInvariance, PTL DEF Spec
===============================================================================
