-------------------------- MODULE AtomicWrite_proofs --------------------------
(* Proofs about AtomicWrite: for any writers, readers, records and files.    *)
EXTENDS AtomicWrite, TLAPS

TypeOK ==
  /\ content \in [Files -> {"none", "empty", "partial", "whole"}]
  /\ flushed \in [Files -> BOOLEAN]
  /\ temps \subseteq Files /\ orphans \subseteq Files
  /\ history \in [Names -> Seq(Files \cup {None})]
  /\ safe \in [Names -> Nat]
  /\ pc \in [Writers -> Out \cup {"write", "sync", "rename", "syncDir", "done"}]
  /\ name \in [Writers -> Names \cup {None}]
  /\ tmp \in [Writers -> Files \cup {None}]
  /\ placed \in [Writers -> Nat]
  /\ opened \in [Readers -> Files \cup {None}]
  /\ deletes \in 0..MaxDeletes

\* All of it is there, and stays there.
Durable(i) == content[i] = "whole" /\ flushed[i]

\* A name has never pointed at a file that was not durable by then.
RecordOK(r) ==
  /\ safe[r] \in 1..Len(history[r])
  /\ \A k \in 1..Len(history[r]) : history[r][k] # None => Durable(history[r][k])

\* How far the file of w has come, and where it is.
WriterOK(w) ==
  /\ pc[w] \in Out => name[w] = None /\ tmp[w] = None
  /\ pc[w] \notin Out => name[w] \in Names /\ tmp[w] \in Files /\ content[tmp[w]] # "none"
  /\ pc[w] = "sync" => content[tmp[w]] = "whole"
  /\ pc[w] \in {"rename", "syncDir", "done"} => Durable(tmp[w])
  /\ pc[w] \in {"syncDir", "done"} => tmp[w] \notin temps /\ placed[w] \in 1..Len(history[name[w]])
  /\ pc[w] \notin {"syncDir", "done"} => placed[w] = 0
  /\ pc[w] = "done" => placed[w] <= safe[name[w]]

IInv ==
  /\ TypeOK /\ ReadsWhole /\ NoLitter
  /\ \A r \in Names : RecordOK(r)
  /\ \A w \in Writers : WriterOK(w)

LEMMA CreateTempKeeps == ASSUME NEW w \in Writers, IInv, CreateTemp(w) PROVE IInv'
<1> USE ConstantsAssumption DEF IInv, Out, CreateTemp
<1>1. TypeOK'
  BY DEF TypeOK
<1>2. \A i \in Files : Durable(i) => Durable(i)'
  BY DEF TypeOK, Durable, fs
<1>3. ReadsWhole'
  BY DEF ReadsWhole, TypeOK, fs
<1>4. NoLitter'
  BY DEF NoLitter, TypeOK, WriterOK, fs, writers
<1>5. \A r \in Names : RecordOK(r)'
  BY <1>2 DEF RecordOK, TypeOK
<1>6. \A q \in Writers : WriterOK(q)'
  BY <1>2 DEF WriterOK, TypeOK
<1>7. QED
  BY <1>1, <1>3, <1>4, <1>5, <1>6

LEMMA WriteKeeps == ASSUME NEW w \in Writers, IInv, Write(w) PROVE IInv'
<1> USE ConstantsAssumption DEF IInv, Out, Write
<1>1. TypeOK'
  BY DEF TypeOK
<1>2. \A i \in Files : Durable(i) => Durable(i)'
  BY DEF TypeOK, Durable, fs
<1>3. ReadsWhole'
  BY DEF ReadsWhole, TypeOK, fs
<1>4. NoLitter'
  BY DEF NoLitter, TypeOK
<1>5. \A r \in Names : RecordOK(r)'
  BY <1>2 DEF RecordOK, TypeOK
<1>6. \A q \in Writers : WriterOK(q)'
  BY <1>2 DEF WriterOK, TypeOK, Durable, RecordOK, fs, writers
<1>7. QED
  BY <1>1, <1>3, <1>4, <1>5, <1>6

LEMMA SyncKeeps == ASSUME NEW w \in Writers, IInv, Sync(w) PROVE IInv'
<1> USE ConstantsAssumption DEF IInv, Out, Sync
<1>1. TypeOK'
  BY DEF TypeOK
<1>2. \A i \in Files : Durable(i) => Durable(i)'
  BY DEF TypeOK, Durable, fs
<1>3. ReadsWhole'
  BY DEF ReadsWhole, TypeOK, fs
<1>4. NoLitter'
  BY DEF NoLitter, TypeOK
<1>5. \A r \in Names : RecordOK(r)'
  BY <1>2 DEF RecordOK, TypeOK
<1>6. \A q \in Writers : WriterOK(q)'
  BY <1>2 DEF WriterOK, TypeOK, Durable, RecordOK, fs, writers
<1>7. QED
  BY <1>1, <1>3, <1>4, <1>5, <1>6

LEMMA RenameKeeps == ASSUME NEW w \in Writers, IInv, Rename(w) PROVE IInv'
<1> USE ConstantsAssumption DEF IInv, Out, Rename
<1>1. TypeOK'
  BY DEF TypeOK, WriterOK, fs, writers
<1>2. \A i \in Files : Durable(i) => Durable(i)'
  BY DEF TypeOK, Durable, fs
<1>3. ReadsWhole'
  BY DEF ReadsWhole, TypeOK, fs
<1>4. NoLitter'
  BY DEF NoLitter, TypeOK
<1>5. \A r \in Names : RecordOK(r)'
  BY <1>2 DEF RecordOK, WriterOK, TypeOK, fs
<1>6. \A q \in Writers : WriterOK(q)'
  BY <1>2 DEF WriterOK, TypeOK
<1>7. QED
  BY <1>1, <1>3, <1>4, <1>5, <1>6

LEMMA syncDirKeeps == ASSUME NEW w \in Writers, IInv, syncDir(w) PROVE IInv'
<1> USE ConstantsAssumption DEF IInv, Out, syncDir
<1>1. TypeOK'
  BY DEF TypeOK
<1>2. \A i \in Files : Durable(i) => Durable(i)'
  BY DEF TypeOK, Durable, fs
<1>3. ReadsWhole'
  BY DEF ReadsWhole, TypeOK, fs
<1>4. NoLitter'
  BY DEF NoLitter, TypeOK
<1>5. \A r \in Names : RecordOK(r)'
  BY <1>2 DEF RecordOK, TypeOK
<1>6. \A q \in Writers : WriterOK(q)'
  BY <1>2 DEF WriterOK, TypeOK
<1>7. QED
  BY <1>1, <1>3, <1>4, <1>5, <1>6

LEMMA SucceedKeeps == ASSUME NEW w \in Writers, IInv, Succeed(w) PROVE IInv'
<1> USE ConstantsAssumption DEF IInv, Out, Succeed, Quit
<1>1. TypeOK'
  BY DEF TypeOK, fs, writers, TypeOK
<1>2. \A i \in Files : Durable(i) => Durable(i)'
  BY DEF TypeOK, Durable, fs
<1>3. ReadsWhole'
  BY DEF ReadsWhole, TypeOK, fs
<1>4. NoLitter'
  BY DEF NoLitter, TypeOK, WriterOK, fs, writers
<1>5. \A r \in Names : RecordOK(r)'
  BY <1>2 DEF RecordOK, WriterOK, TypeOK, fs
<1>6. \A q \in Writers : WriterOK(q)'
  BY <1>2 DEF WriterOK, fs, writers, TypeOK
<1>7. QED
  BY <1>1, <1>3, <1>4, <1>5, <1>6

LEMMA FailsKeeps == ASSUME NEW w \in Writers, IInv, Fails(w) PROVE IInv'
<1> USE ConstantsAssumption DEF IInv, Out, Fails, Cleanup, Quit
<1>1. TypeOK'
  BY DEF TypeOK
<1>2. \A i \in Files : Durable(i) => Durable(i)'
  BY DEF TypeOK, Durable, fs
<1>3. ReadsWhole'
  BY DEF ReadsWhole, TypeOK, fs
<1>4. NoLitter'
  BY DEF NoLitter, TypeOK
<1>5. \A r \in Names : RecordOK(r)'
  BY <1>2 DEF RecordOK, TypeOK
<1>6. \A q \in Writers : WriterOK(q)'
  BY <1>2 DEF WriterOK, TypeOK
<1>7. QED
  BY <1>1, <1>3, <1>4, <1>5, <1>6

LEMMA KilledKeeps == ASSUME NEW w \in Writers, IInv, Killed(w) PROVE IInv'
<1> USE ConstantsAssumption DEF IInv, Out, Killed, Quit
<1>1. TypeOK'
  BY DEF TypeOK, WriterOK, fs, writers
<1>2. \A i \in Files : Durable(i) => Durable(i)'
  BY DEF TypeOK, Durable, fs
<1>3. ReadsWhole'
  BY DEF ReadsWhole, TypeOK, fs
<1>4. NoLitter'
  BY DEF NoLitter, TypeOK, fs, writers, TypeOK
<1>5. \A r \in Names : RecordOK(r)'
  BY <1>2 DEF RecordOK, WriterOK, TypeOK, fs
<1>6. \A q \in Writers : WriterOK(q)'
  BY <1>2 DEF WriterOK, fs, writers, TypeOK
<1>7. QED
  BY <1>1, <1>3, <1>4, <1>5, <1>6

LEMMA DeleteRecordKeeps == ASSUME NEW w \in Writers, IInv, DeleteRecord(w) PROVE IInv'
<1> USE ConstantsAssumption DEF IInv, Out, DeleteRecord, Deletable
<1>1. TypeOK'
  BY DEF TypeOK, fs, writers, TypeOK
<1>2. \A i \in Files : Durable(i) => Durable(i)'
  BY DEF TypeOK, Durable, fs
<1>3. ReadsWhole'
  BY DEF ReadsWhole, TypeOK, fs
<1>4. NoLitter'
  BY DEF NoLitter, TypeOK, fs, writers, TypeOK
<1>5. \A r \in Names : RecordOK(r)'
  BY <1>2 DEF RecordOK, TypeOK
<1>6. \A q \in Writers : WriterOK(q)'
  BY <1>2 DEF WriterOK, fs, writers, TypeOK
<1>7. QED
  BY <1>1, <1>3, <1>4, <1>5, <1>6

LEMMA readRecordKeeps == ASSUME NEW q \in Readers, IInv, readRecord(q) PROVE IInv'
<1> USE ConstantsAssumption DEF IInv, readRecord, fs, writers
<1>1. UNCHANGED <<fs, writers, orphans, deletes>>
  OBVIOUS
<1>2. opened' \in [Readers -> Files \cup {None}] /\ ReadsWhole'
  <2>1. ASSUME NEW i \in Listed PROVE i \in Files /\ content[i] = "whole"
    <3>1. PICK r \in Names : i = history[r][Len(history[r])]
      BY DEF Listed, File, Last
    <3>2. history[r] \in Seq(Files \cup {None}) /\ safe[r] \in Nat /\ i # None
      BY DEF TypeOK, Listed
    <3>3. Len(history[r]) \in 1..Len(history[r])
      BY <3>2 DEF RecordOK
    <3>4. QED
      BY <3>1, <3>2, <3>3 DEF RecordOK, Durable
  <2>2. CASE \E i \in Listed : opened' = [opened EXCEPT ![q] = i]
    BY <2>1, <2>2, <1>1 DEF ReadsWhole, TypeOK
  <2>3. CASE opened' = [opened EXCEPT ![q] = None]
    BY <2>3, <1>1 DEF ReadsWhole, TypeOK
  <2>4. QED
    BY <2>2, <2>3
<1>3. TypeOK' /\ NoLitter'
  BY <1>1, <1>2 DEF TypeOK, NoLitter
<1>4. \A r \in Names : RecordOK(r)'
  BY <1>1 DEF RecordOK, Durable
<1>5. \A w \in Writers : WriterOK(w)'
  BY <1>1 DEF WriterOK, Durable
<1>6. QED
  BY <1>2, <1>3, <1>4, <1>5

LEMMA PowerLossKeeps == ASSUME IInv, PowerLoss PROVE IInv'
<1> USE ConstantsAssumption DEF IInv, PowerLoss, Out
<1>1. \A i \in Files : Durable(i) => Durable(i)'
  BY DEF Durable, TypeOK
<1>2. TypeOK'
  <2>1. content' \in [Files -> {"none", "empty", "partial", "whole"}] /\ flushed' \in [Files -> BOOLEAN]
    BY DEF TypeOK
  <2>2. temps' \subseteq Files /\ orphans' \subseteq Files
    <3>1. \A r \in Names : Unflushed(r) \subseteq Files
      BY DEF Unflushed, RecordOK, TypeOK
    <3>2. QED
      BY <3>1 DEF TypeOK
  <2>3. history' \in [Names -> Seq(Files \cup {None})]
    <3>1. ASSUME NEW r \in Names PROVE history'[r] \in Seq(Files \cup {None})
      <4>1. PICK i \in Files \cup {None} : history'[r] = <<i>>
        OBVIOUS
      <4>2. QED
        BY <4>1
    <3>2. history' = [r \in Names |-> history'[r]]
      OBVIOUS
    <3>3. QED
      BY <3>1, <3>2
  <2>4. QED
    BY <2>1, <2>2, <2>3 DEF TypeOK
<1>3. ReadsWhole'
  BY DEF ReadsWhole
<1>4. NoLitter'
  BY DEF NoLitter, TypeOK
<1>5. ASSUME NEW r \in Names PROVE RecordOK(r)'
  <2>1. PICK k \in safe[r]..Len(history[r]) : history'[r] = <<history[r][k]>>
    OBVIOUS
  <2>2. k \in 1..Len(history[r])
    BY DEF RecordOK, TypeOK
  <2>3. QED
    BY <1>1, <2>1, <2>2 DEF RecordOK, TypeOK
<1>6. \A w \in Writers : WriterOK(w)'
  BY DEF WriterOK
<1>7. QED
  BY <1>2, <1>3, <1>4, <1>5, <1>6

LEMMA InitOK == Init => IInv
<1> SUFFICES ASSUME Init PROVE IInv
  OBVIOUS
<1> USE ConstantsAssumption DEF Init, Out
<1>1. TypeOK
  BY DEF TypeOK
<1>2. ReadsWhole /\ NoLitter
  BY DEF ReadsWhole, NoLitter
<1>3. (\A r \in Names : RecordOK(r)) /\ (\A w \in Writers : WriterOK(w))
  BY DEF RecordOK, WriterOK
<1>4. QED
  BY <1>1, <1>2, <1>3 DEF IInv

LEMMA StepInv == IInv /\ [Next]_vars => IInv'
<1> SUFFICES ASSUME IInv, [Next]_vars PROVE IInv'
  OBVIOUS
<1>1. CASE UNCHANGED vars
  BY <1>1 DEF vars, fs, writers, IInv, TypeOK, ReadsWhole, NoLitter, RecordOK, WriterOK,
    Durable
<1>2. CASE Next
  BY <1>2, CreateTempKeeps, WriteKeeps, SyncKeeps, RenameKeeps, syncDirKeeps,
    SucceedKeeps, FailsKeeps, KilledKeeps, DeleteRecordKeeps, readRecordKeeps,
    PowerLossKeeps DEF Next
<1>3. QED
  BY <1>1, <1>2

LEMMA Invariance == Spec => []IInv
  BY InitOK, StepInv, PTL DEF Spec

\* The files, names and histories are what they are meant to be, however writes,
\* kills and power losses interleave.
THEOREM TypeCorrect == Spec => []TypeOK
<1>1. IInv => TypeOK
  BY DEF IInv
<1>2. QED
  BY <1>1, Invariance, PTL

\* A reader never sees part of a record (store.go, atomicWrite).
THEOREM WholeReads == Spec => []ReadsWhole
<1>1. IInv => ReadsWhole
  BY DEF IInv
<1>2. QED
  BY <1>1, Invariance, PTL

\* Only a kill or a power loss leaves a temporary file (store.go, atomicWrite).
THEOREM LitterFree == Spec => []NoLitter
<1>1. IInv => NoLitter
  BY DEF IInv
<1>2. QED
  BY <1>1, Invariance, PTL
-----------------------------------------------------------------------------
(* AtomicWrite implements RecordStore.                                     *)

\* What RecordStore sees of the state: versions and writes.
absHistory == [r \in Names |-> [k \in 1..Len(history[r]) |-> Version(history[r][k])]]
absOp(w) ==
  IF pc[w] \in Out THEN [name |-> None, version |-> None, at |-> IF pc[w] = "ok" THEN 1 ELSE 0]
  ELSE [name |-> name[w], version |-> tmp[w], at |-> placed[w]]

\* No name points at a torn file, so the versions are the files.
LEMMA VersionsAreFiles == IInv => absHistory = history
<1> SUFFICES ASSUME IInv PROVE absHistory = history
  OBVIOUS
<1>1. ASSUME NEW r \in Names
      PROVE  [k \in 1..Len(history[r]) |-> Version(history[r][k])] = history[r]
  <2>1. history[r] \in Seq(Files \cup {None})
    BY DEF IInv, TypeOK
  <2>2. \A k \in 1..Len(history[r]) : Version(history[r][k]) = history[r][k]
    BY DEF IInv, RecordOK, Durable, Version
  <2>3. QED
    BY <2>1, <2>2
<1>2. QED
  BY <1>1 DEF absHistory, IInv, TypeOK

LEMMA InitRefines == Init => Abs!Init
<1> SUFFICES ASSUME Init PROVE Abs!Init
  OBVIOUS
<1>1. absHistory = [r \in Names |-> <<None>>]
  BY InitOK, VersionsAreFiles DEF Init
<1>2. safe = [r \in Names |-> 1]
  BY DEF Init
<1>3. [w \in Writers |-> absOp(w)] = [w \in Writers |-> [name |-> None, version |-> None, at |-> 0]]
  BY DEF Init, absOp, Out
<1>4. QED
  BY <1>1, <1>2, <1>3 DEF Abs!Init, Abs!Idle, absHistory, absOp

\* What RecordStore does at each step of a writer: name, tmp and placed are its
\* write, Rename puts the version in place and the rest is a stutter.
LEMMA WriterRefines ==
  ASSUME IInv, IInv', absHistory = history, absHistory' = history', NEW w \in Writers,
         \/ CreateTemp(w) \/ Write(w) \/ Sync(w) \/ Rename(w) \/ syncDir(w) \/ Succeed(w)
         \/ Fails(w) \/ Killed(w) \/ DeleteRecord(w)
  PROVE  [Abs!Next]_(Abs!vars)
<1> DEFINE op == [v \in Writers |-> absOp(v)]
<1> USE ConstantsAssumption DEF Out
<1>0. ASSUME NEW new, absOp(w)' = new,
             \A v \in Writers \ {w} :
               pc'[v] = pc[v] /\ name'[v] = name[v] /\ tmp'[v] = tmp[v] /\ placed'[v] = placed[v]
      PROVE  op' = [op EXCEPT ![w] = new]
  <2>1. \A v \in Writers \ {w} : absOp(v)' = absOp(v)
    BY <1>0 DEF absOp
  <2>2. QED
    BY <1>0, <2>1
<1>1. CASE CreateTemp(w)
  <2>1. PICK r \in Names, i \in Files :
          /\ op[w] \in {Abs!Idle, Abs!Done}
          /\ op' = [op EXCEPT ![w] = [name |-> r, version |-> i, at |-> 0]]
    <3>1. PICK r \in Names, i \in Files :
            name' = [name EXCEPT ![w] = r] /\ tmp' = [tmp EXCEPT ![w] = i]
      BY <1>1 DEF CreateTemp
    <3>2. absOp(w)' = [name |-> r, version |-> i, at |-> 0]
      BY <1>1, <3>1 DEF CreateTemp, IInv, TypeOK, WriterOK, absOp
    <3>3. op' = [op EXCEPT ![w] = [name |-> r, version |-> i, at |-> 0]]
      BY <1>0, <1>1, <3>1, <3>2 DEF CreateTemp, IInv, TypeOK
    <3>4. op[w] \in {Abs!Idle, Abs!Done}
      BY <1>1 DEF CreateTemp, absOp, Abs!Idle, Abs!Done
    <3>5. QED
      BY <3>3, <3>4
  <2>2. UNCHANGED <<history, safe>>
    BY <1>1 DEF CreateTemp
  <2>3. Abs!Begin(w)
    BY <2>1, <2>2 DEF Abs!Begin, absHistory, absOp
  <2>4. QED
    BY <2>3 DEF Abs!Next
<1>2. CASE Write(w) \/ Sync(w)
  <2>1. op' = op /\ UNCHANGED <<history, safe>>
    BY <1>2 DEF Write, Sync, IInv, TypeOK, absOp
  <2>2. QED
    BY <2>1 DEF Abs!vars, absHistory, absOp
<1>3. CASE Rename(w)
  <2>1. /\ op[w] = [name |-> name[w], version |-> tmp[w], at |-> 0]
        /\ op[w] \notin {Abs!Idle, Abs!Done}
    <3>1. pc[w] \notin Out /\ placed[w] = 0 /\ tmp[w] # None
      BY <1>3 DEF Rename, IInv, WriterOK
    <3>2. op[w] = [name |-> name[w], version |-> tmp[w], at |-> 0]
      BY <3>1 DEF absOp
    <3>3. QED
      BY <3>1, <3>2 DEF Abs!Idle, Abs!Done
  <2>2. op' = [op EXCEPT ![w].at = Len(history[name[w]]) + 1]
    <3>1. absOp(w)' = [op[w] EXCEPT !.at = Len(history[name[w]]) + 1]
      <4>1. /\ pc'[w] \notin Out /\ name'[w] = name[w] /\ tmp'[w] = tmp[w]
            /\ placed'[w] = Len(history[name[w]]) + 1
        BY <1>3 DEF Rename, IInv, TypeOK
      <4>2. absOp(w)' = [name |-> name[w], version |-> tmp[w], at |-> Len(history[name[w]]) + 1]
        BY <4>1 DEF absOp
      <4>3. QED
        BY <2>1, <4>2
    <3>2. op' = [op EXCEPT ![w] = [op[w] EXCEPT !.at = Len(history[name[w]]) + 1]]
      BY <1>0, <1>3, <3>1 DEF Rename, IInv, TypeOK
    <3>3. QED
      BY <3>2
  <2>3. history' = [history EXCEPT ![name[w]] = Append(@, tmp[w])] /\ UNCHANGED safe
    BY <1>3 DEF Rename
  <2>4. Abs!Place(w)
    BY <2>1, <2>2, <2>3 DEF Abs!Place, absHistory, absOp
  <2>5. QED
    BY <2>4 DEF Abs!Next
<1>4. CASE syncDir(w)
  <2>1. op' = op
    BY <1>4 DEF syncDir, IInv, TypeOK, absOp
  <2>2. Abs!Flush
    BY <1>4, <2>1 DEF syncDir, Abs!Flush, absHistory, absOp
  <2>3. QED
    BY <2>2 DEF Abs!Next
<1>5. CASE Succeed(w)
  <2>1. /\ op[w] = [name |-> name[w], version |-> tmp[w], at |-> placed[w]]
        /\ op[w] \notin {Abs!Idle, Abs!Done} /\ placed[w] \in 1..safe[name[w]]
    <3>1. pc[w] \notin Out /\ tmp[w] # None
      BY <1>5 DEF Succeed, IInv, WriterOK
    <3>2. op[w] = [name |-> name[w], version |-> tmp[w], at |-> placed[w]]
      BY <3>1 DEF absOp
    <3>3. placed[w] \in 1..safe[name[w]]
      BY <1>5 DEF Succeed, IInv, TypeOK, WriterOK
    <3>4. QED
      BY <3>1, <3>2, <3>3 DEF Abs!Idle, Abs!Done
  <2>2. absOp(w)' = Abs!Done
    BY <1>5 DEF Succeed, Quit, IInv, TypeOK, absOp, Abs!Done
  <2>3. op' = [op EXCEPT ![w] = Abs!Done]
    BY <1>0, <1>5, <2>2 DEF Succeed, Quit, IInv, TypeOK
  <2>4. UNCHANGED <<history, safe>>
    BY <1>5 DEF Succeed, fs
  <2>5. Abs!Succeed(w)
    BY <2>1, <2>3, <2>4 DEF Abs!Succeed, absHistory, absOp
  <2>6. QED
    BY <2>5 DEF Abs!Next
<1>6. CASE Fails(w) \/ Killed(w)
  <2>1. op[w] \notin {Abs!Idle, Abs!Done}
    BY <1>6 DEF Fails, Killed, IInv, WriterOK, absOp, Abs!Idle, Abs!Done
  <2>2. absOp(w)' = Abs!Idle
    BY <1>6 DEF Fails, Killed, Quit, IInv, TypeOK, absOp, Abs!Idle
  <2>3. op' = [op EXCEPT ![w] = Abs!Idle]
    BY <1>0, <1>6, <2>2 DEF Fails, Killed, Quit, IInv, TypeOK
  <2>4. UNCHANGED <<history, safe>>
    BY <1>6 DEF Fails, Killed, fs
  <2>5. Abs!Fail(w)
    BY <2>1, <2>3, <2>4 DEF Abs!Fail, absHistory, absOp
  <2>6. QED
    BY <2>5 DEF Abs!Next
<1>7. CASE DeleteRecord(w)
  <2>1. PICK r \in Names : File(r) # None /\ history' = [history EXCEPT ![r] = Append(@, None)]
    BY <1>7 DEF DeleteRecord, Deletable
  <2>2. op' = op /\ UNCHANGED safe
    BY <1>7 DEF DeleteRecord, writers, absOp
  <2>3. Abs!Delete(r)
    BY <2>1, <2>2 DEF Abs!Delete, absHistory, absOp, File, Last
  <2>4. QED
    BY <2>3 DEF Abs!Next
<1>8. QED
  BY <1>1, <1>2, <1>3, <1>4, <1>5, <1>6, <1>7

LEMMA StepRefines ==
  IInv /\ IInv' /\ absHistory = history /\ (absHistory = history)' /\ [Next]_vars
    => [Abs!Next]_(Abs!vars)
<1> SUFFICES ASSUME IInv, IInv', absHistory = history, absHistory' = history', [Next]_vars
             PROVE  [Abs!Next]_(Abs!vars)
  OBVIOUS
<1>1. CASE UNCHANGED <<fs, writers>>
  BY <1>1 DEF fs, writers, Abs!vars, Version
<1>2. CASE PowerLoss
  <2>1. [w \in Writers |-> absOp(w)]' = [w \in Writers |-> Abs!Idle]
    BY <1>2 DEF PowerLoss, absOp, Out, Abs!Idle
  <2>2. absHistory' = [r \in Names |-> absHistory'[r]]
    BY <1>2 DEF PowerLoss
  <2>3. \A r \in Names :
          \E k \in safe[r]..Len(absHistory[r]) : absHistory'[r] = <<absHistory[r][k]>>
    BY <1>2 DEF PowerLoss
  <2>4. safe' = [r \in Names |-> 1]
    BY <1>2 DEF PowerLoss
  <2>5. Abs!PowerLoss
    BY <2>1, <2>2, <2>3, <2>4 DEF Abs!PowerLoss, absHistory, absOp
  <2>6. QED
    BY <2>5 DEF Abs!Next
<1>3. CASE \E q \in Readers : readRecord(q)
  BY <1>1, <1>3 DEF readRecord
<1>4. QED
  BY <1>1, <1>2, <1>3, WriterRefines DEF Next, vars

\* The store keeps what RecordStore promises: a write takes place in one step or
\* not at all, and one that succeeded is not taken back (store.go, atomicWrite).
THEOREM ImplementsRecordStore == Spec => Atomic
<1>1. IInv => absHistory = history
  BY VersionsAreFiles
<1>2. QED
  BY <1>1, InitRefines, Invariance, StepRefines, PTL DEF Spec, Atomic, Abs!Spec
==============================================================================
