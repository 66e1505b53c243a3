--------------------------- MODULE CbmSession_proofs ---------------------------
(* Proofs about CbmSession: for any callers, closers and number of events.   *)
EXTENDS CbmSession, TLAPS

InFlight == {"connecting", "connected", "failed"}
Over     == {"settled", "done"}
Using    == {"asking", "erred", "retire", "closing"}

TypeOK ==
  /\ session \in Ids \cup {None} /\ starting \in Ids \cup {None}
  /\ cliOnly \in BOOLEAN /\ closed \in BOOLEAN
  /\ attempt \in [Ids -> {"unborn", "closing"} \cup InFlight \cup Over]
  /\ abandoned \in [Ids -> BOOLEAN]
  /\ proc \in [Ids -> {"none", "closed"} \cup Alive]
  /\ cpc \in [Callers -> {"idle", "enter", "waiting", "relock", "cli"} \cup Using]
  /\ held \in [Callers -> Ids \cup {None}]
  /\ left \in [Callers -> BOOLEAN]
  /\ dpc \in [Closers -> {"idle", "wait", "closing", "returned"}]
  /\ target \in [Closers -> Ids \cup {None}]
  /\ before \in [Closers -> SUBSET Ids]
  /\ failures \in Nat /\ events \in 0..MaxEvents

\* One goroutine at a time closes a session with the mutex held.
MutexOK ==
  /\ \A c \in Callers : cpc[c] = "closing" =>
       mu # None /\ \A e \in Callers : cpc[e] = "closing" => e = c
  /\ \A i \in Ids : attempt[i] = "closing" =>
       /\ mu # None
       /\ \A c \in Callers : cpc[c] # "closing"
       /\ \A j \in Ids : attempt[j] = "closing" => j = i

\* What Provider knows of the attempts is what they are.
AttemptOK(i) ==
  /\ starting = i <=> attempt[i] \in InFlight
  /\ starting = i => session = None
  /\ attempt[i] = "closing" => starting = None /\ (abandoned[i] \/ closed)
  /\ session = i => attempt[i] \in Over

\* The process of an attempt, and what a failed one says about CBM.
ProcOK(i) ==
  /\ proc[i] = "none" <=> attempt[i] = "unborn"
  /\ proc[i] = "starting" <=> attempt[i] = "connecting"
  /\ attempt[i] \in {"connected", "closing"} => proc[i] = "up"
  /\ attempt[i] = "failed" => proc[i] = "closed" /\ (abandoned[i] \/ failures > 0)
  /\ session = i => proc[i] \in {"up", "broken"}

\* The session a caller has in hand.  Only one that broke is retired.
CallerOK(c) ==
  /\ cpc[c] = "waiting" => held[c] \in Ids
  /\ cpc[c] \in Using => held[c] \in Ids /\ attempt[held[c]] \in Over
  /\ (cpc[c] = "erred" /\ ~left[c]) \/ cpc[c] \in {"retire", "closing"} =>
       proc[held[c]] \in {"broken", "closed"}
  /\ cpc[c] = "closing" => session # held[c]

BeingRetired(i) == \E c \in Callers : cpc[c] = "closing" /\ held[c] = i
BeingClosed(i)  == \E d \in Closers : dpc[d] = "closing" /\ target[d] = i

\* Where the processes are that d has to see closed before it returns.
CloserOK(d) ==
  /\ dpc[d] = "closing" =>
       target[d] \in Ids /\ attempt[target[d]] \in Over /\ session # target[d]
  /\ \A i \in before[d] :
       /\ proc[i] # "none"
       /\ proc[i] \in Alive =>
            \/ dpc[d] = "wait" /\ session = i
            \/ dpc[d] = "wait" /\ target[d] = i /\ abandoned[i] /\ attempt[i] \in Running
            \/ dpc[d] = "wait" /\ BeingRetired(i)
            \/ BeingClosed(i)

IInv ==
  /\ TypeOK /\ MutexOK /\ NoLeakedProcess
  /\ \A i \in Ids : AttemptOK(i)
  /\ \A i \in Ids : ProcOK(i)
  /\ \A c \in Callers : CallerOK(c)
  /\ \A d \in Closers : CloserOK(d)
  /\ cliOnly => failures > 0

ReturnedOK ==
  \A d \in Closers : dpc[d] = "returned" =>
    \A i \in before[d] : proc[i] = "closed" \/ BeingClosed(i)

LEMMA IdsFacts ==
  /\ Ids \subseteq Nat /\ None \notin Ids
  /\ \A i \in Ids : i # None
BY ConstantsAssumption DEF Ids

\* A step of q between two critical sections, or inside one that changes only
\* where q is: what q then has in hand is all there is to show.
LEMMA CallerMoves ==
  ASSUME NEW q \in Callers, IInv, UNCHANGED <<provider, attempts, closers, failures, events>>,
         TypeOK', CallerOK(q)',
         \A c \in Callers \ {q} : cpc'[c] = cpc[c] /\ held'[c] = held[c] /\ left'[c] = left[c],
         cpc[q] = "closing" => held'[q] = held[q], cpc'[q] = "closing" <=> cpc[q] = "closing"
  PROVE  IInv'
<1> USE DEF provider, attempts, closers, IInv
<1>1. \A c \in Callers : (cpc'[c] = "closing" <=> cpc[c] = "closing")
                      /\ (cpc[c] = "closing" => held'[c] = held[c])
  OBVIOUS
<1>2. MutexOK'
  BY <1>1 DEF MutexOK
<1>3. NoLeakedProcess'
  BY <1>1 DEF NoLeakedProcess, Owned
<1>4. (\A i \in Ids : AttemptOK(i) /\ ProcOK(i))' /\ (cliOnly => failures > 0)'
  BY DEF AttemptOK, ProcOK
<1>5. \A c \in Callers : CallerOK(c)'
  BY DEF CallerOK
<1>6. \A d \in Closers : CloserOK(d)'
  BY <1>1 DEF CloserOK, BeingRetired, BeingClosed
<1>7. QED
  BY <1>2, <1>3, <1>4, <1>5, <1>6

LEMMA CallerAlone ==
  ASSUME NEW q \in Callers, IInv,
         \/ Call(q) \/ ContextEnds(q) \/ AttemptOver(q) \/ StopWaiting(q) \/ Relocked(q)
         \/ Answered(q) \/ callToolFails(q) \/ CallErred(q) \/ oneShot(q)
  PROVE  IInv'
<1> USE DEF Call, ContextEnds, AttemptOver, StopWaiting, Relocked, Answered, callToolFails,
            CallErred, oneShot, Return, Use
<1>1. /\ UNCHANGED <<provider, attempts, closers, failures, events>>
      /\ cpc[q] = "closing" => held'[q] = held[q]
      /\ cpc'[q] = "closing" <=> cpc[q] = "closing"
  BY DEF IInv, TypeOK, callers
<1>2. /\ cpc' \in [Callers -> {"idle", "enter", "waiting", "relock", "cli"} \cup Using]
      /\ held' \in [Callers -> Ids \cup {None}] /\ left' \in [Callers -> BOOLEAN]
  <2>1. TypeOK
    BY DEF IInv
  <2>2. cpc' \in [Callers -> {"idle", "enter", "waiting", "relock", "cli"} \cup Using]
    BY <2>1 DEF TypeOK, Using
  <2>3. held' \in [Callers -> Ids \cup {None}]
    BY <2>1 DEF TypeOK, provider
  <2>4. left' \in [Callers -> BOOLEAN]
    BY <2>1 DEF TypeOK
  <2>5. QED
    BY <2>2, <2>3, <2>4
<1>3. TypeOK'
  BY <1>1, <1>2 DEF IInv, TypeOK, provider, attempts, closers
<1>4. CallerOK(q)'
  BY IdsFacts DEF IInv, TypeOK, AttemptOK, ProcOK, CallerOK, provider, attempts, Using
<1>5. \A c \in Callers \ {q} : cpc'[c] = cpc[c] /\ held'[c] = held[c] /\ left'[c] = left[c]
  BY DEF IInv, TypeOK
<1>6. QED
  BY <1>1, <1>3, <1>4, <1>5, CallerMoves

LEMMA persistentKeeps == ASSUME NEW q \in Callers, IInv, persistent(q) PROVE IInv'
<1> USE IdsFacts, ConstantsAssumption DEF IInv, provider, attempts, callers, closers, Running,
    Alive, InFlight, Over, Using
<1>1. TypeOK'
  BY DEF persistent, Use, begin, Wait, TypeOK
<1>2. MutexOK'
  BY DEF persistent, Use, begin, Wait, MutexOK, TypeOK
<1>3. NoLeakedProcess'
  BY DEF persistent, Use, begin, Wait, NoLeakedProcess, Owned, AttemptOK, ProcOK, TypeOK
<1>4. \A i \in Ids : AttemptOK(i)'
  BY DEF persistent, Use, begin, Wait, AttemptOK, TypeOK, MutexOK
<1>5. \A i \in Ids : ProcOK(i)'
  BY DEF persistent, Use, begin, Wait, ProcOK, TypeOK
<1>6. \A c \in Callers : CallerOK(c)'
  <2>1. ASSUME NEW i \in Ids, attempt[i] # "unborn"
        PROVE  attempt'[i] = attempt[i] /\ proc'[i] = proc[i]
    BY <2>1 DEF TypeOK, persistent, begin
  <2>2. /\ session' = session /\ left' = left
        /\ \A c \in Callers \ {q} : cpc'[c] = cpc[c] /\ held'[c] = held[c]
    BY DEF TypeOK, persistent, Use, Wait
  <2>3. ASSUME NEW c \in Callers \ {q} PROVE CallerOK(c)'
    <3>1. CallerOK(c) /\ cpc'[c] = cpc[c] /\ held'[c] = held[c] /\ left'[c] = left[c]
      BY <2>2
    <3>2. cpc[c] \in Using =>
            attempt'[held[c]] = attempt[held[c]] /\ proc'[held[c]] = proc[held[c]]
      BY <2>1, <3>1 DEF CallerOK
    <3>3. QED
      BY <2>2, <3>1, <3>2 DEF CallerOK
  <2>4. CallerOK(q)'
    BY DEF CallerOK, AttemptOK, ProcOK, TypeOK, persistent, Use, begin, Wait
  <2>5. QED
    BY <2>3, <2>4
<1>7. \A d \in Closers : CloserOK(d)'
  <2>1. ASSUME NEW i \in Ids, attempt[i] # "unborn"
        PROVE  attempt'[i] = attempt[i] /\ proc'[i] = proc[i]
    BY <2>1 DEF TypeOK, persistent, begin
  <2>2. session' = session /\ abandoned' = abandoned /\ UNCHANGED closers
    BY DEF persistent, begin
  <2>3. \A i \in Ids : BeingRetired(i) => BeingRetired(i)'
    BY DEF BeingRetired, TypeOK, persistent, Use, Wait
  <2>4. \A i \in Ids : BeingClosed(i) => BeingClosed(i)'
    BY <2>2 DEF BeingClosed
  <2>5. ASSUME NEW d \in Closers, NEW i \in before[d]
        PROVE  /\ i \in Ids /\ attempt[i] # "unborn"
               /\ attempt'[i] = attempt[i] /\ proc'[i] = proc[i]
    BY <2>1 DEF CloserOK, ProcOK, TypeOK
  <2>6. ASSUME NEW d \in Closers, dpc[d] = "closing"
        PROVE  attempt'[target[d]] = attempt[target[d]]
    BY <2>1, <2>6 DEF CloserOK
  <2>7. ASSUME NEW d \in Closers PROVE CloserOK(d)'
    <3>1. dpc'[d] = dpc[d] /\ target'[d] = target[d] /\ before'[d] = before[d]
      BY <2>2
    <3>2. dpc'[d] = "closing" =>
            target'[d] \in Ids /\ attempt'[target'[d]] \in Over /\ session' # target'[d]
      BY <2>2, <2>6, <3>1 DEF CloserOK
    <3>3. ASSUME NEW i \in before[d]
          PROVE  /\ proc'[i] # "none"
                 /\ proc'[i] \in Alive =>
                      \/ dpc'[d] = "wait" /\ session' = i
                      \/ dpc'[d] = "wait" /\ target'[d] = i /\ abandoned'[i] /\ attempt'[i] \in Running
                      \/ dpc'[d] = "wait" /\ BeingRetired(i)'
                      \/ BeingClosed(i)'
      BY <2>2, <2>3, <2>4, <2>5, <3>1 DEF CloserOK
    <3>4. QED
      BY <3>1, <3>2, <3>3 DEF CloserOK
  <2>8. QED
    BY <2>7
<1>8. (cliOnly => failures > 0)'
  BY DEF persistent, Use, begin, Wait, TypeOK, ProcOK
<1>9. QED
  BY <1>1, <1>2, <1>3, <1>4, <1>5, <1>6, <1>7, <1>8

LEMMA retireKeeps == ASSUME NEW q \in Callers, IInv, retire(q) PROVE IInv'
<1> USE IdsFacts, ConstantsAssumption DEF IInv, retire, provider, attempts, callers, closers,
    Running, Alive, InFlight, Over, Using
<1>1. TypeOK'
  BY DEF TypeOK, CallerOK, CloserOK
<1>2. MutexOK'
  BY DEF MutexOK, TypeOK
<1>3. NoLeakedProcess'
  BY DEF NoLeakedProcess, Owned, AttemptOK, ProcOK, TypeOK
<1>4. \A i \in Ids : AttemptOK(i)'
  BY DEF AttemptOK, TypeOK, MutexOK
<1>5. \A i \in Ids : ProcOK(i)'
  BY DEF ProcOK, TypeOK
<1>6. \A c \in Callers : CallerOK(c)'
  BY DEF CallerOK, TypeOK
<1>7. \A d \in Closers : CloserOK(d)'
  BY DEF CloserOK, BeingRetired, BeingClosed, CallerOK, AttemptOK, TypeOK
<1>8. (cliOnly => failures > 0)'
  BY DEF TypeOK, ProcOK
<1>9. QED
  BY <1>1, <1>2, <1>3, <1>4, <1>5, <1>6, <1>7, <1>8

LEMMA RetiredKeeps == ASSUME NEW q \in Callers, IInv, Retired(q) PROVE IInv'
<1> USE IdsFacts, ConstantsAssumption DEF IInv, Retired, provider, attempts, callers, closers,
    Running, Alive, InFlight, Over, Using
<1>1. TypeOK'
  BY DEF TypeOK, CallerOK, CloserOK
<1>2. MutexOK'
  BY DEF MutexOK, TypeOK
<1>3. NoLeakedProcess'
  BY DEF NoLeakedProcess, Owned, AttemptOK, ProcOK, TypeOK
<1>4. \A i \in Ids : AttemptOK(i)'
  BY DEF AttemptOK, TypeOK, MutexOK
<1>5. \A i \in Ids : ProcOK(i)'
  BY DEF ProcOK, CallerOK, CloserOK, TypeOK
<1>6. \A c \in Callers : CallerOK(c)'
  BY DEF CallerOK, TypeOK
<1>7. \A d \in Closers : CloserOK(d)'
  BY DEF CloserOK, BeingRetired, BeingClosed, CallerOK, AttemptOK, TypeOK
<1>8. (cliOnly => failures > 0)'
  BY DEF TypeOK, ProcOK
<1>9. QED
  BY <1>1, <1>2, <1>3, <1>4, <1>5, <1>6, <1>7, <1>8

LEMMA ConnectedKeeps == ASSUME NEW k \in Ids, IInv, Connected(k) PROVE IInv'
<1> USE IdsFacts, ConstantsAssumption DEF IInv, Connected, provider, attempts, callers,
    closers, Running, Alive, InFlight, Over, Using
<1>1. TypeOK'
  BY DEF TypeOK, CallerOK, CloserOK
<1>2. MutexOK'
  BY DEF MutexOK, TypeOK
<1>3. NoLeakedProcess'
  BY DEF NoLeakedProcess, Owned, AttemptOK, ProcOK, TypeOK
<1>4. \A i \in Ids : AttemptOK(i)'
  BY DEF AttemptOK, TypeOK, MutexOK
<1>5. \A i \in Ids : ProcOK(i)'
  BY DEF ProcOK, TypeOK
<1>6. \A c \in Callers : CallerOK(c)'
  BY DEF CallerOK, TypeOK
<1>7. \A d \in Closers : CloserOK(d)'
  BY DEF CloserOK, BeingRetired, BeingClosed, CallerOK, AttemptOK, ProcOK,
    NoLeakedProcess, Owned, TypeOK, MutexOK
<1>8. (cliOnly => failures > 0)'
  BY DEF TypeOK, ProcOK
<1>9. QED
  BY <1>1, <1>2, <1>3, <1>4, <1>5, <1>6, <1>7, <1>8

LEMMA ConnectFailsKeeps == ASSUME NEW k \in Ids, IInv, ConnectFails(k) PROVE IInv'
<1> USE IdsFacts, ConstantsAssumption DEF IInv, ConnectFails, Event, provider, attempts,
    callers, closers, Running, Alive, InFlight, Over, Using
<1>1. TypeOK'
  BY DEF TypeOK, CallerOK, CloserOK
<1>2. MutexOK'
  BY DEF MutexOK, TypeOK
<1>3. NoLeakedProcess'
  BY DEF NoLeakedProcess, Owned, AttemptOK, ProcOK, TypeOK
<1>4. \A i \in Ids : AttemptOK(i)'
  BY DEF AttemptOK, TypeOK, MutexOK
<1>5. \A i \in Ids : ProcOK(i)'
  BY DEF ProcOK, TypeOK
<1>6. \A c \in Callers : CallerOK(c)'
  BY DEF CallerOK, TypeOK
<1>7. \A d \in Closers : CloserOK(d)'
  BY DEF CloserOK, BeingRetired, BeingClosed, CallerOK, AttemptOK, TypeOK
<1>8. (cliOnly => failures > 0)'
  BY DEF TypeOK, ProcOK
<1>9. QED
  BY <1>1, <1>2, <1>3, <1>4, <1>5, <1>6, <1>7, <1>8

LEMMA settleKeeps == ASSUME NEW k \in Ids, IInv, settle(k) PROVE IInv'
<1> USE IdsFacts, ConstantsAssumption DEF IInv, provider, attempts, callers, closers, Running,
    Alive, InFlight, Over, Using
<1>1. TypeOK'
  BY DEF settle, Failed, TypeOK
<1>2. MutexOK'
  BY DEF settle, Failed, MutexOK, TypeOK
<1>3. NoLeakedProcess'
  BY DEF settle, Failed, NoLeakedProcess, Owned, AttemptOK, ProcOK, TypeOK
<1>4. \A i \in Ids : AttemptOK(i)'
  BY DEF settle, Failed, AttemptOK, TypeOK
<1>5. \A i \in Ids : ProcOK(i)'
  BY DEF settle, Failed, ProcOK, TypeOK
<1>6. \A c \in Callers : CallerOK(c)'
  <2>1. ASSUME NEW i \in Ids, attempt[i] \in Over PROVE attempt'[i] = attempt[i]
    BY <2>1 DEF TypeOK, settle
  <2>2. attempt[k] \notin Over /\ session' \in {session, k} /\ UNCHANGED <<proc, callers>>
    BY DEF settle
  <2>3. QED
    BY <2>1, <2>2 DEF CallerOK, TypeOK
<1>7. \A d \in Closers : CloserOK(d)'
  <2>1. attempt[k] \in InFlight /\ session = None /\ UNCHANGED <<proc, abandoned, callers, closers>>
    BY DEF AttemptOK, settle
  <2>2. ASSUME NEW i \in Ids, i # k PROVE attempt'[i] = attempt[i]
    BY <2>2 DEF TypeOK, settle
  <2>3. proc[k] \in Alive => attempt'[k] \in Running \/ (session' = k /\ ~abandoned[k])
    BY DEF ProcOK, TypeOK, settle
  <2>4. session' \in {session, k}
    BY DEF settle
  <2>5. ASSUME NEW i \in Ids
        PROVE  (BeingRetired(i) <=> BeingRetired(i)') /\ (BeingClosed(i) <=> BeingClosed(i)')
    BY <2>1 DEF BeingRetired, BeingClosed
  <2>6. ASSUME NEW d \in Closers PROVE CloserOK(d)'
    <3>1. CloserOK(d) /\ before[d] \subseteq Ids
      BY DEF TypeOK
    <3>2. (dpc[d] = "closing" =>
             target[d] \in Ids /\ attempt[target[d]] \in Over /\ session # target[d])'
      BY <2>1, <2>2, <2>4, <3>1 DEF CloserOK
    <3>3. ASSUME NEW i \in before[d], i # k
          PROVE  (proc[i] # "none" /\
                  (proc[i] \in Alive =>
                     \/ dpc[d] = "wait" /\ session = i
                     \/ dpc[d] = "wait" /\ target[d] = i /\ abandoned[i] /\ attempt[i] \in Running
                     \/ dpc[d] = "wait" /\ BeingRetired(i)
                     \/ BeingClosed(i)))'
      BY <2>1, <2>2, <2>5, <3>1, <3>3 DEF CloserOK
    <3>4. ASSUME k \in before[d]
          PROVE  (proc[k] # "none" /\
                  (proc[k] \in Alive =>
                     \/ dpc[d] = "wait" /\ session = k
                     \/ dpc[d] = "wait" /\ target[d] = k /\ abandoned[k] /\ attempt[k] \in Running
                     \/ dpc[d] = "wait" /\ BeingRetired(k)
                     \/ BeingClosed(k)))'
      BY <2>1, <2>3, <2>5, <3>1, <3>4 DEF CloserOK
    <3>5. QED
      BY <2>1, <3>2, <3>3, <3>4 DEF CloserOK
  <2>7. QED
    BY <2>6
<1>8. (cliOnly => failures > 0)'
  BY DEF settle, Failed, TypeOK, ProcOK
<1>9. QED
  BY <1>1, <1>2, <1>3, <1>4, <1>5, <1>6, <1>7, <1>8

LEMMA SettleClosedKeeps == ASSUME NEW k \in Ids, IInv, SettleClosed(k) PROVE IInv'
<1> USE IdsFacts, ConstantsAssumption DEF IInv, SettleClosed, provider, attempts, callers,
    closers, Running, Alive, InFlight, Over, Using
<1>1. TypeOK'
  BY DEF TypeOK, CallerOK, CloserOK
<1>2. MutexOK'
  BY DEF MutexOK, TypeOK
<1>3. NoLeakedProcess'
  BY DEF NoLeakedProcess, Owned, AttemptOK, ProcOK, TypeOK
<1>4. \A i \in Ids : AttemptOK(i)'
  BY DEF AttemptOK, TypeOK, MutexOK
<1>5. \A i \in Ids : ProcOK(i)'
  BY DEF ProcOK, AttemptOK, TypeOK
<1>6. \A c \in Callers : CallerOK(c)'
  BY DEF CallerOK, TypeOK
<1>7. \A d \in Closers : CloserOK(d)'
  BY DEF CloserOK, BeingRetired, BeingClosed, CallerOK, AttemptOK, TypeOK
<1>8. (cliOnly => failures > 0)'
  BY DEF TypeOK, ProcOK
<1>9. QED
  BY <1>1, <1>2, <1>3, <1>4, <1>5, <1>6, <1>7, <1>8

LEMMA CloseDoneKeeps == ASSUME NEW k \in Ids, IInv, CloseDone(k) PROVE IInv'
<1> USE IdsFacts, ConstantsAssumption DEF IInv, CloseDone, provider, attempts, callers,
    closers, Running, Alive, InFlight, Over, Using
<1>1. TypeOK'
  BY DEF TypeOK, CallerOK, CloserOK
<1>2. MutexOK'
  BY DEF MutexOK, TypeOK
<1>3. NoLeakedProcess'
  BY DEF NoLeakedProcess, Owned, AttemptOK, ProcOK, TypeOK
<1>4. \A i \in Ids : AttemptOK(i)'
  BY DEF AttemptOK, TypeOK, MutexOK
<1>5. \A i \in Ids : ProcOK(i)'
  BY DEF ProcOK, TypeOK
<1>6. \A c \in Callers : CallerOK(c)'
  BY DEF CallerOK, TypeOK
<1>7. \A d \in Closers : CloserOK(d)'
  BY DEF CloserOK, BeingRetired, BeingClosed, CallerOK, AttemptOK, TypeOK
<1>8. (cliOnly => failures > 0)'
  BY DEF TypeOK, ProcOK
<1>9. QED
  BY <1>1, <1>2, <1>3, <1>4, <1>5, <1>6, <1>7, <1>8

LEMMA BreaksKeeps == ASSUME NEW k \in Ids, IInv, Breaks(k) PROVE IInv'
<1> USE IdsFacts, ConstantsAssumption DEF IInv, Breaks, Event, provider, attempts, callers,
    closers, Running, Alive, InFlight, Over, Using
<1>1. TypeOK'
  BY DEF TypeOK, CallerOK, CloserOK
<1>2. MutexOK'
  BY DEF MutexOK, TypeOK
<1>3. NoLeakedProcess'
  BY DEF NoLeakedProcess, Owned, AttemptOK, ProcOK, TypeOK
<1>4. \A i \in Ids : AttemptOK(i)'
  BY DEF AttemptOK, TypeOK, MutexOK
<1>5. \A i \in Ids : ProcOK(i)'
  BY DEF ProcOK, TypeOK
<1>6. \A c \in Callers : CallerOK(c)'
  BY DEF CallerOK, TypeOK
<1>7. \A d \in Closers : CloserOK(d)'
  BY DEF CloserOK, BeingRetired, BeingClosed, CallerOK, AttemptOK, TypeOK
<1>8. (cliOnly => failures > 0)'
  BY DEF TypeOK, ProcOK
<1>9. QED
  BY <1>1, <1>2, <1>3, <1>4, <1>5, <1>6, <1>7, <1>8

LEMMA CloseKeeps == ASSUME NEW q \in Closers, IInv, Close(q) PROVE IInv'
<1> USE IdsFacts, ConstantsAssumption DEF IInv, Close, Event, provider, attempts, callers,
    closers, Running, Alive, InFlight, Over, Using
<1>1. TypeOK'
  BY DEF TypeOK, CallerOK, CloserOK
<1>2. MutexOK'
  BY DEF MutexOK, TypeOK
<1>3. NoLeakedProcess'
  BY DEF NoLeakedProcess, Owned, AttemptOK, ProcOK, TypeOK
<1>4. \A i \in Ids : AttemptOK(i)'
  BY DEF AttemptOK, TypeOK, MutexOK
<1>5. \A i \in Ids : ProcOK(i)'
  BY DEF ProcOK, TypeOK
<1>6. \A c \in Callers : CallerOK(c)'
  BY DEF CallerOK, TypeOK
<1>7. \A d \in Closers : CloserOK(d)'
  <2>1. ASSUME NEW d \in Closers \ {q} PROVE CloserOK(d)'
    BY DEF CloserOK, BeingRetired, BeingClosed, TypeOK
  <2>2. ASSUME NEW i \in Ids, proc[i] \in Alive
        PROVE  session = i \/ (starting = i /\ attempt[i] \in Running) \/ BeingClosed(i)'
    BY <2>2 DEF NoLeakedProcess, Owned, MutexOK, AttemptOK, BeingClosed, TypeOK
  <2>3. CloserOK(q)'
    <3>1. /\ dpc'[q] = "wait" /\ target'[q] = starting
          /\ before'[q] = {i \in Ids : proc[i] \in Alive}
      BY DEF TypeOK
    <3>2. /\ UNCHANGED <<session, attempt, proc>>
          /\ \A i \in Ids : starting = i => abandoned'[i]
      OBVIOUS
    <3>3. QED
      BY <2>2, <3>1, <3>2 DEF CloserOK
  <2>4. QED
    BY <2>1, <2>3
<1>8. (cliOnly => failures > 0)'
  BY DEF TypeOK, ProcOK
<1>9. QED
  BY <1>1, <1>2, <1>3, <1>4, <1>5, <1>6, <1>7, <1>8

LEMMA CloseTakesKeeps == ASSUME NEW q \in Closers, IInv, CloseTakes(q) PROVE IInv'
<1> USE IdsFacts, ConstantsAssumption DEF IInv, CloseTakes, provider, attempts, callers,
    closers, Running, Alive, InFlight, Over, Using
<1>1. TypeOK'
  BY DEF TypeOK, CallerOK, CloserOK
<1>2. MutexOK'
  BY DEF MutexOK, TypeOK
<1>3. NoLeakedProcess'
  BY DEF NoLeakedProcess, Owned, AttemptOK, ProcOK, TypeOK
<1>4. \A i \in Ids : AttemptOK(i)'
  BY DEF AttemptOK, TypeOK, MutexOK
<1>5. \A i \in Ids : ProcOK(i)'
  BY DEF ProcOK, TypeOK
<1>6. \A c \in Callers : CallerOK(c)'
  BY DEF CallerOK, TypeOK
<1>7. \A d \in Closers : CloserOK(d)'
  BY DEF CloserOK, BeingRetired, BeingClosed, CallerOK, AttemptOK, ProcOK,
    NoLeakedProcess, Owned, TypeOK, MutexOK
<1>8. (cliOnly => failures > 0)'
  BY DEF TypeOK, ProcOK
<1>9. QED
  BY <1>1, <1>2, <1>3, <1>4, <1>5, <1>6, <1>7, <1>8

LEMMA CloseSessionKeeps == ASSUME NEW q \in Closers, IInv, CloseSession(q) PROVE IInv'
<1> USE IdsFacts, ConstantsAssumption DEF IInv, CloseSession, provider, attempts, callers,
    closers, Running, Alive, InFlight, Over, Using
<1>1. TypeOK'
  BY DEF TypeOK, CallerOK, CloserOK
<1>2. MutexOK'
  BY DEF MutexOK, TypeOK
<1>3. NoLeakedProcess'
  BY DEF NoLeakedProcess, Owned, AttemptOK, ProcOK, TypeOK
<1>4. \A i \in Ids : AttemptOK(i)'
  BY DEF AttemptOK, TypeOK, MutexOK
<1>5. \A i \in Ids : ProcOK(i)'
  BY DEF ProcOK, CallerOK, CloserOK, TypeOK
<1>6. \A c \in Callers : CallerOK(c)'
  BY DEF CallerOK, TypeOK
<1>7. \A d \in Closers : CloserOK(d)'
  BY DEF CloserOK, BeingRetired, BeingClosed, CallerOK, AttemptOK, TypeOK
<1>8. (cliOnly => failures > 0)'
  BY DEF TypeOK, ProcOK
<1>9. QED
  BY <1>1, <1>2, <1>3, <1>4, <1>5, <1>6, <1>7, <1>8

LEMMA InitOK == Init => IInv
<1> SUFFICES ASSUME Init PROVE IInv
  OBVIOUS
<1> USE IdsFacts, ConstantsAssumption DEF Init, Alive, Running, InFlight, Over, Using
<1>1. TypeOK
  <2>1. /\ attempt \in [Ids -> {"unborn", "closing"} \cup InFlight \cup Over]
        /\ proc \in [Ids -> {"none", "closed"} \cup Alive]
        /\ abandoned \in [Ids -> BOOLEAN]
    OBVIOUS
  <2>2. /\ cpc \in [Callers -> {"idle", "enter", "waiting", "relock", "cli"} \cup Using]
        /\ held \in [Callers -> Ids \cup {None}] /\ left \in [Callers -> BOOLEAN]
    OBVIOUS
  <2>3. /\ dpc \in [Closers -> {"idle", "wait", "closing", "returned"}]
        /\ target \in [Closers -> Ids \cup {None}] /\ before \in [Closers -> SUBSET Ids]
    OBVIOUS
  <2>4. cliOnly \in BOOLEAN /\ closed \in BOOLEAN
    BY Zenon
  <2>5. /\ session \in Ids \cup {None} /\ starting \in Ids \cup {None}
        /\ failures \in Nat /\ events \in 0..MaxEvents
    OBVIOUS
  <2>6. QED
    BY <2>1, <2>2, <2>3, <2>4, <2>5 DEF TypeOK
<1>2. MutexOK /\ NoLeakedProcess /\ (cliOnly => failures > 0)
  BY DEF MutexOK, NoLeakedProcess
<1>3. \A i \in Ids : AttemptOK(i) /\ ProcOK(i)
  BY DEF AttemptOK, ProcOK
<1>4. \A c \in Callers : CallerOK(c)
  BY DEF CallerOK
<1>5. \A d \in Closers : CloserOK(d)
  BY DEF CloserOK
<1>6. QED
  BY <1>1, <1>2, <1>3, <1>4, <1>5 DEF IInv

LEMMA StepInv == IInv /\ [Next]_vars => IInv'
<1> SUFFICES ASSUME IInv, [Next]_vars PROVE IInv'
  OBVIOUS
<1>1. CASE UNCHANGED vars
  BY <1>1 DEF vars, provider, attempts, callers, closers, IInv, TypeOK, MutexOK,
    NoLeakedProcess, Owned, AttemptOK, ProcOK, CallerOK, CloserOK, BeingRetired,
    BeingClosed
<1>2. ASSUME NEW c \in Callers, Call(c) \/ ContextEnds(c) \/ CallerStep(c) PROVE IInv'
  BY <1>2, CallerAlone, persistentKeeps, retireKeeps, RetiredKeeps DEF CallerStep
<1>3. ASSUME NEW i \in Ids, AttemptStep(i) \/ Breaks(i) PROVE IInv'
  BY <1>3, ConnectedKeeps, ConnectFailsKeeps, settleKeeps, SettleClosedKeeps,
    CloseDoneKeeps, BreaksKeeps DEF AttemptStep
<1>4. ASSUME NEW d \in Closers, Close(d) \/ CloserStep(d) PROVE IInv'
  BY <1>4, CloseKeeps, CloseTakesKeeps, CloseSessionKeeps DEF CloserStep
<1>5. QED
  BY <1>1, <1>2, <1>3, <1>4 DEF Next

LEMMA Invariance == Spec => []IInv
  BY InitOK, StepInv, PTL DEF Spec

\* Every reachable state is well typed, for any callers, closers and number of
\* failures.
THEOREM TypeCorrect == Spec => []TypeOK
<1>1. IInv => TypeOK
  BY DEF IInv
<1>2. QED
  BY <1>1, Invariance, PTL

\* A CBM process that runs is in use, being started, or about to be closed by
\* somebody (backend.go, settle, retire and Close).
THEOREM NoProcessLeaks == Spec => []NoLeakedProcess
<1>1. IInv => NoLeakedProcess
  BY DEF IInv
<1>2. QED
  BY <1>1, Invariance, PTL

\* The attempt in flight is the only one, and one that is being closed again
\* lets no other begin (backend.go, persistent and settle).
THEOREM StartsOne == Spec => []OneAttempt
<1>1. IInv => OneAttempt
  <2> SUFFICES ASSUME IInv, NEW i \in Ids, NEW j \in Ids,
                      attempt[i] \in Running, attempt[j] \in Running
               PROVE  i = j
    BY DEF OneAttempt
  <2> USE IdsFacts DEF IInv, Running, InFlight
  <2>1. CASE attempt[i] = "closing"
    BY <2>1 DEF MutexOK, AttemptOK
  <2>2. CASE attempt[i] \in InFlight
    BY <2>2 DEF AttemptOK
  <2>3. QED
    BY <2>1, <2>2
<1>2. QED
  BY <1>1, Invariance, PTL

\* Whatever other Closes run meanwhile: when one returns, each process there was
\* when it was called is gone or in the hands of a Close that is at
\* session.Close (backend.go, Close).
THEOREM CloseReaches == Spec => []ReturnedOK
<1>1. IInv => ReturnedOK
  <2> SUFFICES ASSUME IInv, NEW d \in Closers, dpc[d] = "returned", NEW i \in before[d]
               PROVE  proc[i] = "closed" \/ BeingClosed(i)
    BY DEF ReturnedOK
  <2>1. i \in Ids /\ proc[i] \in {"none", "closed"} \cup Alive
    BY DEF IInv, TypeOK
  <2>2. QED
    BY <2>1 DEF IInv, CloserOK
<1>2. QED
  BY <1>1, Invariance, PTL

\* One goroutine that calls Close, as often as it likes, finds every process
\* that ran at the call closed when it returns (backend.go, Close: "a CBM that
\* had already been spawned is closed before this returns").  A second Close at
\* the same time takes the session over and returns the first one early, which
\* the hypothesis excludes.
THEOREM CloseShutsDown ==
  ASSUME \A d, e \in Closers : d = e
  PROVE  Spec => []CloseIsShutdown
<1>1. ReturnedOK => CloseIsShutdown
  BY DEF ReturnedOK, CloseIsShutdown, BeingClosed
<1>2. QED
  BY <1>1, CloseReaches, PTL

\* Callers share one provider and none costs the others theirs: a working
\* session is closed only for Close, a start comes to nothing only if CBM failed
\* or Close was called, and sessions are given up only when CBM failed to start
\* (backend.go, call, retire, settle).
THEOREM SessionShared == Spec => SharedSessionKept
<1>1. IInv /\ IInv' /\ [Next]_vars =>
        [OnlyBrokenRetired /\ StartSurvives /\ NeverCondemned]_vars
  <2> SUFFICES ASSUME IInv, IInv', Next
               PROVE  OnlyBrokenRetired /\ StartSurvives /\ NeverCondemned
    OBVIOUS
  <2>1. NeverCondemned
    BY DEF IInv, NeverCondemned
  <2>2. ASSUME NEW c \in Callers, Call(c) \/ ContextEnds(c) \/ CallerStep(c)
        PROVE  OnlyBrokenRetired /\ StartSurvives
    <3>1. CASE persistent(c)
      BY <3>1 DEF persistent, begin, IInv, TypeOK, OnlyBrokenRetired, StartSurvives,
        attempts
    <3>2. CASE Retired(c)
      BY <3>2 DEF Retired, IInv, TypeOK, CallerOK, OnlyBrokenRetired, StartSurvives
    <3>3. CASE UNCHANGED attempts
      BY <3>3 DEF attempts, OnlyBrokenRetired, StartSurvives
    <3>4. QED
      BY <2>2, <3>1, <3>2, <3>3 DEF Call, ContextEnds, CallerStep, AttemptOver,
        StopWaiting, Relocked, Answered, callToolFails, CallErred, retire, oneShot,
        attempts
  <2>3. ASSUME NEW i \in Ids, AttemptStep(i) \/ Breaks(i)
        PROVE  OnlyBrokenRetired /\ StartSurvives
    BY <2>3, IdsFacts DEF AttemptStep, Connected, ConnectFails, settle, SettleClosed,
      CloseDone, Breaks, provider, IInv, TypeOK, AttemptOK, ProcOK, OnlyBrokenRetired,
      StartSurvives
  <2>4. ASSUME NEW d \in Closers, Close(d) \/ CloserStep(d)
        PROVE  OnlyBrokenRetired /\ StartSurvives
    BY <2>4 DEF Close, CloserStep, CloseTakes, CloseSession, attempts, IInv, TypeOK,
      OnlyBrokenRetired, StartSurvives
  <2>5. QED
    BY <2>1, <2>2, <2>3, <2>4 DEF Next
<1>2. QED
  BY <1>1, InitOK, StepInv, PTL DEF Spec, SharedSessionKept
==============================================================================
