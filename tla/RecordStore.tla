----------------------------- MODULE RecordStore -----------------------------
(***************************************************************************)
(* What the store promises of its records (package store): a record is     *)
(* replaced or deleted in one step, a write that is reported as successful *)
(* is not taken back by a power loss, and one that was not reported may    *)
(* have happened or not.                                                   *)
(***************************************************************************)
EXTENDS Naturals, Sequences

CONSTANTS
  Writers,  \* processes that write records
  Names,    \* the records of one directory
  Versions, \* everything that is ever written
  Absent    \* no record

VARIABLES
  history, \* history[r]: what record r has been, the last being what it is
  safe,    \* safe[r]: a power loss leaves history[r][k] for some k >= safe[r]
  op       \* op[w]: the write w is in, and at which place of the history it is

vars == <<history, safe, op>>

\* Not writing; and not writing since a write was reported as successful.
Idle == [name |-> Absent, version |-> Absent, at |-> 0]
Done == [name |-> Absent, version |-> Absent, at |-> 1]

Init ==
  /\ history = [r \in Names |-> <<Absent>>]
  /\ safe = [r \in Names |-> 1]
  /\ op = [w \in Writers |-> Idle]

Begin(w) ==
  /\ op[w] \in {Idle, Done}
  /\ \E r \in Names, v \in Versions :
       op' = [op EXCEPT ![w] = [name |-> r, version |-> v, at |-> 0]]
  /\ UNCHANGED <<history, safe>>

Place(w) ==
  /\ op[w] \notin {Idle, Done} /\ op[w].at = 0
  /\ LET r == op[w].name IN
       /\ history' = [history EXCEPT ![r] = Append(@, op[w].version)]
       /\ op' = [op EXCEPT ![w].at = Len(history[r]) + 1]
  /\ UNCHANGED safe

Flush ==
  /\ safe' = [r \in Names |-> Len(history[r])]
  /\ UNCHANGED <<history, op>>

Succeed(w) ==
  /\ op[w] \notin {Idle, Done} /\ op[w].at \in 1..safe[op[w].name]
  /\ op' = [op EXCEPT ![w] = Done]
  /\ UNCHANGED <<history, safe>>

\* The write fails or its process is killed, before or after it has taken place.
Fail(w) ==
  /\ op[w] \notin {Idle, Done}
  /\ op' = [op EXCEPT ![w] = Idle]
  /\ UNCHANGED <<history, safe>>

Delete(r) ==
  /\ history[r][Len(history[r])] # Absent
  /\ history' = [history EXCEPT ![r] = Append(@, Absent)]
  /\ UNCHANGED <<safe, op>>

PowerLoss ==
  /\ history' = [r \in Names |-> history'[r]]
  /\ \A r \in Names : \E k \in safe[r]..Len(history[r]) : history'[r] = <<history[r][k]>>
  /\ safe' = [r \in Names |-> 1]
  /\ op' = [w \in Writers |-> Idle]

Next ==
  \/ \E w \in Writers : Begin(w) \/ Place(w) \/ Succeed(w) \/ Fail(w)
  \/ \E r \in Names : Delete(r)
  \/ Flush \/ PowerLoss

Spec == Init /\ [][Next]_vars
=============================================================================
