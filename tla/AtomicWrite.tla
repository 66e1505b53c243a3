----------------------------- MODULE AtomicWrite -----------------------------
(***************************************************************************)
(* How the store writes, reads and deletes the records of one directory    *)
(* (store.go: atomicWrite, syncDir, readRecord, listRecords), on a file    *)
(* system that keeps nothing across a power loss but what was flushed.     *)
(*                                                                         *)
(* A record is the file its name points at; what is in the file is left    *)
(* out, and only whether it is all there is kept.  Every write makes a     *)
(* file of its own.  The store holds no lock, so writers of one record are *)
(* not kept apart here either.                                             *)
(***************************************************************************)
EXTENDS Naturals, Sequences

CONSTANTS
  Writers,   \* processes that write and delete records
  Readers,   \* processes that read them
  Names,     \* the records of the directory
  Files,     \* the files ever created: one per write, which bounds them
  None,      \* no file
  MaxDeletes \* bound: records that are deleted

ASSUME ConstantsAssumption == None \notin Files /\ MaxDeletes \in Nat

VARIABLES
  \* The file system
  content,  \* content[i]: what a reader finds in file i
  flushed,  \* flushed[i]: and what a power loss leaves of it
  temps,    \* files that have a ".tmp-*" name
  history,  \* history[r]: what the name of record r has pointed at
  safe,     \* safe[r]: a power loss leaves one of history[r] from here on
  \* The processes
  pc,       \* pc[w]: where w is in atomicWrite
  name,     \* name[w]: the record it writes
  tmp,      \* tmp[w]: its temporary file
  placed,   \* placed[w]: where its file is in the history of the name
  opened,   \* opened[q]: the file that q reads
  \* For the properties and the bound
  orphans,  \* temporary files that a kill or a power loss has left
  deletes

fs      == <<content, flushed, temps, history, safe>>
writers == <<pc, name, tmp, placed>>
vars == <<fs, writers, opened, orphans, deletes>>

Last(s) == s[Len(s)]

\* The file the name of r points at.
File(r) == Last(history[r])
-----------------------------------------------------------------------------
(* atomicWrite                                                             *)

\* Not in it, or returned from it without an error.
Out == {"idle", "ok"}

CreateTemp(w) ==
  /\ pc[w] \in Out
  /\ \E r \in Names, i \in Files :
       /\ content[i] = "none"
       /\ content' = [content EXCEPT ![i] = "empty"]
       /\ temps' = temps \cup {i}
       /\ name' = [name EXCEPT ![w] = r]
       /\ tmp' = [tmp EXCEPT ![w] = i]
  /\ pc' = [pc EXCEPT ![w] = "write"]
  /\ UNCHANGED <<flushed, history, safe, placed, opened, orphans, deletes>>

\* The data reaches the file bit by bit.
Write(w) ==
  /\ pc[w] = "write"
  /\ \/ /\ content[tmp[w]] = "empty"
        /\ content' = [content EXCEPT ![tmp[w]] = "partial"]
        /\ UNCHANGED pc
     \/ /\ content' = [content EXCEPT ![tmp[w]] = "whole"]
        /\ pc' = [pc EXCEPT ![w] = "sync"]
  /\ UNCHANGED <<flushed, temps, history, safe, name, tmp, placed, opened, orphans, deletes>>

\* Sync, and then Close.
Sync(w) ==
  /\ pc[w] = "sync"
  /\ flushed' = [flushed EXCEPT ![tmp[w]] = TRUE]
  /\ pc' = [pc EXCEPT ![w] = "rename"]
  /\ UNCHANGED <<content, temps, history, safe, name, tmp, placed, opened, orphans, deletes>>

\* What a rename does at the given place of atomicWrite.
Rename(w) ==
  /\ pc[w] = "rename"
  /\ history' = [history EXCEPT ![name[w]] = Append(@, tmp[w])]
  /\ placed' = [placed EXCEPT ![w] = Len(history[name[w]]) + 1]
  /\ temps' = temps \ {tmp[w]}
  /\ pc' = [pc EXCEPT ![w] = "syncDir"]
  /\ UNCHANGED <<content, flushed, safe, name, tmp, opened, orphans, deletes>>

\* Mutant: the directory is not flushed.
syncDir_not(w) ==
  /\ pc[w] = "syncDir"
  /\ pc' = [pc EXCEPT ![w] = "done"]
  /\ UNCHANGED <<fs, name, tmp, placed, opened, orphans, deletes>>

\* Every rename and removal there has been in the directory is on disk now.
syncDir(w) ==
  /\ pc[w] = "syncDir"
  /\ safe' = [r \in Names |-> Len(history[r])]
  /\ pc' = [pc EXCEPT ![w] = "done"]
  /\ UNCHANGED <<content, flushed, temps, history, name, tmp, placed, opened, orphans, deletes>>

Quit(w, to) ==
  /\ pc'   = [pc EXCEPT ![w] = to]
  /\ name' = [name EXCEPT ![w] = None]
  /\ tmp'  = [tmp EXCEPT ![w] = None]
  /\ placed' = [placed EXCEPT ![w] = 0]

Succeed(w) ==
  /\ pc[w] = "done"
  /\ Quit(w, "ok")
  /\ UNCHANGED <<fs, opened, orphans, deletes>>

\* Mutant: a write that fails leaves its temporary file.
Cleanup_not(w) == UNCHANGED temps

\* The deferred function.  Renamed, the file no longer has the temporary name.
Cleanup(w) == temps' = temps \ {tmp[w]}

\* Any of the calls fails, the flush of the directory too.
Fails(w) ==
  /\ pc[w] \notin Out \cup {"done"}
  /\ Cleanup(w)
  /\ Quit(w, "idle")
  /\ UNCHANGED <<content, flushed, history, safe, opened, orphans, deletes>>

\* No deferred function runs.
Killed(w) ==
  /\ pc[w] \notin Out
  /\ orphans' = orphans \cup {tmp[w]}
  /\ Quit(w, "idle")
  /\ UNCHANGED <<fs, opened, deletes>>
-----------------------------------------------------------------------------
(* The other operations on records                                         *)

\* os.Remove fails for a name that is not there.
Deletable(r) == File(r) # None

DeleteRecord(w) ==
  /\ pc[w] \in Out /\ deletes < MaxDeletes
  /\ \E r \in Names :
       /\ Deletable(r)
       /\ history' = [history EXCEPT ![r] = Append(@, None)]
  /\ deletes' = deletes + 1
  /\ UNCHANGED <<content, flushed, temps, safe, writers, opened, orphans>>

\* Mutant: every file of the directory is read.
Listed_all == temps \cup ({File(r) : r \in Names} \ {None})

\* Only names that end in ".json" are records.
Listed == {File(r) : r \in Names} \ {None}

\* os.ReadFile opens the file a name points at, and reads from that file also
\* when the name has moved on.
readRecord(q) ==
  /\ \/ /\ opened[q] = None
        /\ \E i \in Listed : opened' = [opened EXCEPT ![q] = i]
     \/ /\ opened[q] # None
        /\ opened' = [opened EXCEPT ![q] = None]
  /\ UNCHANGED <<fs, writers, orphans, deletes>>
-----------------------------------------------------------------------------
(* The machine goes down: of a name it keeps something it pointed at since *)
(* the directory was flushed, of a file nothing certain unless flushed.    *)

\* Files whose renaming to r is not on disk for certain.
Unflushed(r) == {history[r][k] : k \in safe[r] + 1..Len(history[r])} \ {None}

PowerLoss ==
  /\ \E lost \in SUBSET {i \in Files : content[i] # "none" /\ ~flushed[i]} :
       content' = [i \in Files |-> IF i \in lost THEN "partial" ELSE content[i]]
  /\ flushed' = [i \in Files |-> content[i] # "none"]
  /\ \E back \in SUBSET (UNION {Unflushed(r) : r \in Names}) :
       /\ temps' = temps \cup back
       /\ orphans' = orphans \cup back \cup ({tmp[w] : w \in Writers} \ {None})
  /\ history' \in [Names -> {<<i>> : i \in Files \cup {None}}]
  /\ \A r \in Names : \E k \in safe[r]..Len(history[r]) : history'[r] = <<history[r][k]>>
  /\ safe' = [r \in Names |-> 1]
  /\ pc' = [w \in Writers |-> "idle"]
  /\ name' = [w \in Writers |-> None] /\ tmp' = [w \in Writers |-> None]
  /\ placed' = [w \in Writers |-> 0]
  /\ opened' = [q \in Readers |-> None]
  /\ UNCHANGED deletes
-----------------------------------------------------------------------------
Init ==
  /\ content = [i \in Files |-> "none"]
  /\ flushed = [i \in Files |-> FALSE]
  /\ temps = {}
  /\ history = [r \in Names |-> <<None>>]
  /\ safe = [r \in Names |-> 1]
  /\ pc = [w \in Writers |-> "idle"]
  /\ name = [w \in Writers |-> None]
  /\ tmp = [w \in Writers |-> None]
  /\ placed = [w \in Writers |-> 0]
  /\ opened = [q \in Readers |-> None]
  /\ orphans = {} /\ deletes = 0

Next ==
  \/ \E w \in Writers :
       \/ CreateTemp(w) \/ Write(w) \/ Sync(w) \/ Rename(w) \/ syncDir(w) \/ Succeed(w)
       \/ Fails(w) \/ Killed(w) \/ DeleteRecord(w)
  \/ \E q \in Readers : readRecord(q)
  \/ PowerLoss

Spec == Init /\ [][Next]_vars
-----------------------------------------------------------------------------
(* Properties                                                              *)

\* A reader finds a whole record, whatever is written, replaced or deleted
\* while it reads (store.go, atomicWrite: "a reader sees either the old file or
\* the new one, never a partial one").
ReadsWhole == \A q \in Readers : opened[q] # None => content[opened[q]] = "whole"

\* Only a write that was killed leaves its temporary file behind (store.go,
\* atomicWrite: "A killed process cannot run the cleanup below").
NoLitter == \A i \in temps : i \in orphans \/ \E w \in Writers : tmp[w] = i

\* What RecordStore sees: a file is the version written to it, if all of it is
\* there and stays there.
Torn == <<>>
Version(i) == IF i = None \/ (content[i] = "whole" /\ flushed[i]) THEN i ELSE Torn

Abs == INSTANCE RecordStore WITH
  Versions <- Files, Absent <- None,
  history <- [r \in Names |-> [k \in 1..Len(history[r]) |-> Version(history[r][k])]],
  op <- [w \in Writers |->
          IF pc[w] \in Out THEN [name |-> None, version |-> None, at |-> IF pc[w] = "ok" THEN 1 ELSE 0]
          ELSE [name |-> name[w], version |-> tmp[w], at |-> placed[w]]]

\* Writes replace a record in one step, and one that succeeded is there after a
\* power loss.
Atomic == Abs!Spec
=============================================================================
