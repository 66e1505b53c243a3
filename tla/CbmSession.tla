------------------------------ MODULE CbmSession ------------------------------
(***************************************************************************)
(* The lifecycle of the codebase-memory-mcp session that every trace       *)
(* shares: who starts it, who waits for it, who may take it away, and what *)
(* becomes of the process behind it.                                       *)
(*                                                                         *)
(* A critical section of Provider.mu is one step, except the two that call *)
(* session.Close with the mutex held: those hold mu from one step to the   *)
(* next.  What a call asks and what CBM answers is left out.               *)
(***************************************************************************)
EXTENDS Naturals

CONSTANTS
  Callers,  \* goroutines inside Provider.call
  Closers,  \* goroutines that call Provider.Close
  None,     \* no session, no attempt, nobody
  MaxEvents \* bound: failed starts, sessions that break and calls of Close

ASSUME ConstantsAssumption ==
  /\ MaxEvents \in Nat
  /\ Callers \cap Closers = {}
  /\ None \notin Nat \cup Callers \cup Closers

\* Attempts are numbered as they begin, and a session goes by the number of the
\* attempt that brought it up.  A new attempt needs the session before it to
\* have broken or been closed, so this many are never used up.
Ids == 1..(MaxEvents + 1)

VARIABLES
  \* Provider
  mu,        \* who holds the mutex across a session.Close
  session,   \* the session in use
  starting,  \* the attempt in flight
  cliOnly,   \* starting a session has been given up on
  closed,    \* Close is taking the provider down
  \* The attempts and the processes they start
  attempt,   \* attempt[i]: where the goroutine of begin is
  abandoned, \* attempt[i] was cancelled by Close
  proc,      \* proc[i]: the CBM process of attempt i
  \* The goroutines
  cpc,       \* cpc[c]: where caller c is in call
  held,      \* held[c]: the attempt it waits for, or the session it asks
  left,      \* left[c]: its context has ended
  dpc,       \* dpc[d]: where d is in Close
  target,    \* target[d]: the attempt it abandoned, then the session it took
  before,    \* before[d]: the processes there were when it was called
  failures,  \* starts that failed of themselves
  events     \* of MaxEvents

provider == <<mu, session, starting, cliOnly, closed>>
attempts == <<attempt, abandoned, proc>>
callers  == <<cpc, held, left>>
closers  == <<dpc, target, before>>
vars == <<provider, attempts, callers, closers, failures, events>>

Running == {"connecting", "connected", "failed", "closing"}
Alive   == {"starting", "up", "broken"}

Event == events < MaxEvents /\ events' = events + 1
-----------------------------------------------------------------------------
(* Provider.call                                                           *)

Call(c) ==
  /\ cpc[c] = "idle"
  /\ cpc'  = [cpc EXCEPT ![c] = "enter"]
  /\ left' = [left EXCEPT ![c] = FALSE]
  /\ UNCHANGED <<provider, attempts, held, closers, failures, events>>

\* The caller cancels, its deadline passes or the trace budget expires.
ContextEnds(c) ==
  /\ cpc[c] # "idle" /\ ~left[c]
  /\ left' = [left EXCEPT ![c] = TRUE]
  /\ UNCHANGED <<provider, attempts, cpc, held, closers, failures, events>>

Return(c) ==
  /\ cpc'  = [cpc EXCEPT ![c] = "idle"]
  /\ held' = [held EXCEPT ![c] = None]

\* persistent hands s to its caller: without a session call goes to the cli.
Use(c, s) ==
  /\ held' = [held EXCEPT ![c] = s]
  /\ cpc'  = [cpc EXCEPT ![c] = IF s = None THEN "cli" ELSE "asking"]

\* The one attempt, on a context of its own.
begin(i) ==
  /\ attempt[i] = "unborn" /\ \A j \in Ids : j < i => attempt[j] # "unborn"
  /\ attempt'  = [attempt EXCEPT ![i] = "connecting"]
  /\ proc'     = [proc EXCEPT ![i] = "starting"]
  /\ starting' = i
  /\ UNCHANGED abandoned

Wait(c, i) ==
  /\ held' = [held EXCEPT ![c] = i]
  /\ cpc'  = [cpc EXCEPT ![c] = "waiting"]

\* Mutant: every caller that finds no session starts one.
persistent_each(c) ==
  /\ cpc[c] = "enter" /\ mu = None
  /\ \/ /\ session # None \/ cliOnly \/ closed
        /\ Use(c, session)
        /\ UNCHANGED <<starting, attempts>>
     \/ /\ session = None /\ ~cliOnly /\ ~closed
        /\ \E i \in Ids : begin(i) /\ Wait(c, i)
  /\ UNCHANGED <<mu, session, cliOnly, closed, left, closers, failures, events>>

\* The session there is, or the attempt in flight, or a new attempt.
persistent(c) ==
  /\ cpc[c] = "enter" /\ mu = None
  /\ \/ /\ session # None \/ cliOnly \/ closed
        /\ Use(c, session)
        /\ UNCHANGED <<starting, attempts>>
     \/ /\ session = None /\ ~cliOnly /\ ~closed /\ starting # None
        /\ Wait(c, starting)
        /\ UNCHANGED <<starting, attempts>>
     \/ /\ session = None /\ ~cliOnly /\ ~closed /\ starting = None
        /\ \E i \in Ids : begin(i) /\ Wait(c, i)
  /\ UNCHANGED <<mu, session, cliOnly, closed, left, closers, failures, events>>

\* The select of persistent: the attempt is over, or the caller's context is.
AttemptOver(c) ==
  /\ cpc[c] = "waiting" /\ attempt[held[c]] = "done"
  /\ cpc' = [cpc EXCEPT ![c] = "relock"]
  /\ UNCHANGED <<provider, attempts, held, left, closers, failures, events>>

\* Mutant: a caller whose context has ended waits for the attempt all the same.
StopWaiting_deaf(c) ==
  /\ cpc[c] = "waiting" /\ left[c] /\ attempt[held[c]] = "done"
  /\ Return(c)
  /\ UNCHANGED <<provider, attempts, left, closers, failures, events>>

\* It is not this caller's attempt: the attempt is left running.
StopWaiting(c) ==
  /\ cpc[c] = "waiting" /\ left[c]
  /\ Return(c)
  /\ UNCHANGED <<provider, attempts, left, closers, failures, events>>

Relocked(c) ==
  /\ cpc[c] = "relock" /\ mu = None
  /\ Use(c, session)
  /\ UNCHANGED <<provider, attempts, left, closers, failures, events>>

\* CBM answers, or describes a failure, which is an answer too.
Answered(c) ==
  /\ cpc[c] = "asking" /\ proc[held[c]] \in {"up", "broken"}
  /\ Return(c)
  /\ UNCHANGED <<provider, attempts, left, closers, failures, events>>

\* The connection fails, or the context of the call has ended.
callToolFails(c) ==
  /\ cpc[c] = "asking" /\ (proc[held[c]] \in {"broken", "closed"} \/ left[c])
  /\ cpc' = [cpc EXCEPT ![c] = "erred"]
  /\ UNCHANGED <<provider, attempts, held, left, closers, failures, events>>

\* A caller that has gone says nothing about CBM: the session is left alone.
CallErred(c) ==
  /\ cpc[c] = "erred"
  /\ \/ left[c] /\ Return(c)
     \/ ~left[c] /\ cpc' = [cpc EXCEPT ![c] = "retire"] /\ UNCHANGED held
  /\ UNCHANGED <<provider, attempts, left, closers, failures, events>>

\* Mutant: whatever session there is now is retired.
retire_any(c) ==
  /\ cpc[c] = "retire" /\ mu = None
  /\ \/ /\ session # None
        /\ held' = [held EXCEPT ![c] = session]
        /\ session' = None
        /\ mu'  = c
        /\ cpc' = [cpc EXCEPT ![c] = "closing"]
     \/ /\ session = None
        /\ cpc' = [cpc EXCEPT ![c] = "cli"]
        /\ UNCHANGED <<held, session, mu>>
  /\ UNCHANGED <<starting, cliOnly, closed, attempts, left, closers, failures, events>>

\* Compared, because another caller may have retired it and a third may have
\* started its replacement.
retire(c) ==
  /\ cpc[c] = "retire" /\ mu = None
  /\ \/ /\ session = held[c]
        /\ session' = None
        /\ mu'  = c
        /\ cpc' = [cpc EXCEPT ![c] = "closing"]
     \/ /\ session # held[c]
        /\ cpc' = [cpc EXCEPT ![c] = "cli"]
        /\ UNCHANGED <<session, mu>>
  /\ UNCHANGED <<starting, cliOnly, closed, attempts, held, left, closers, failures, events>>

\* session.Close, after which the mutex is free and the cli is asked.
Retired(c) ==
  /\ cpc[c] = "closing"
  /\ proc' = [proc EXCEPT ![held[c]] = "closed"]
  /\ mu'   = None
  /\ cpc'  = [cpc EXCEPT ![c] = "cli"]
  /\ UNCHANGED <<session, starting, cliOnly, closed, attempt, abandoned, held, left,
                 closers, failures, events>>

\* The subprocess answers, fails, or is killed with the caller's context.
oneShot(c) ==
  /\ cpc[c] = "cli"
  /\ Return(c)
  /\ UNCHANGED <<provider, attempts, left, closers, failures, events>>
-----------------------------------------------------------------------------
(* The attempt                                                             *)

Connected(i) ==
  /\ attempt[i] = "connecting"
  /\ attempt' = [attempt EXCEPT ![i] = "connected"]
  /\ proc'    = [proc EXCEPT ![i] = "up"]
  /\ UNCHANGED <<provider, abandoned, callers, closers, failures, events>>

\* Cancelled by Close, or else CBM could not be started within the connect
\* timeout.  Connect takes down what it has spawned.
ConnectFails(i) ==
  /\ attempt[i] = "connecting"
  /\ attempt' = [attempt EXCEPT ![i] = "failed"]
  /\ proc'    = [proc EXCEPT ![i] = "closed"]
  /\ \/ abandoned[i] /\ UNCHANGED <<failures, events>>
     \/ ~abandoned[i] /\ Event /\ failures' = failures + 1
  /\ UNCHANGED <<provider, abandoned, callers, closers>>

\* What a failed start says about CBM: nothing if Close cancelled it.
Failed(i) == cliOnly' = (cliOnly \/ ~abandoned[i])

settle(i) ==
  /\ mu = None
  /\ starting' = IF starting = i THEN None ELSE starting
  /\ \/ /\ attempt[i] = "failed"
        /\ Failed(i)
        /\ attempt' = [attempt EXCEPT ![i] = "settled"]
        /\ UNCHANGED <<mu, session>>
     \/ /\ attempt[i] = "connected" /\ (abandoned[i] \/ closed)
        /\ mu' = i
        /\ attempt' = [attempt EXCEPT ![i] = "closing"]
        /\ UNCHANGED <<session, cliOnly>>
     \/ /\ attempt[i] = "connected" /\ ~abandoned[i] /\ ~closed
        /\ session' = i
        /\ attempt' = [attempt EXCEPT ![i] = "settled"]
        /\ UNCHANGED <<mu, cliOnly>>
  /\ UNCHANGED <<closed, abandoned, proc, callers, closers, failures, events>>

\* Mutant: a session that nobody will use is forgotten instead of closed.
SettleClosed_forgets(i) ==
  /\ attempt[i] = "closing"
  /\ attempt' = [attempt EXCEPT ![i] = "settled"]
  /\ mu'      = None
  /\ UNCHANGED <<session, starting, cliOnly, closed, abandoned, proc, callers, closers,
                 failures, events>>

\* session.Close of a session that nobody will use.
SettleClosed(i) ==
  /\ attempt[i] = "closing"
  /\ attempt' = [attempt EXCEPT ![i] = "settled"]
  /\ proc'    = [proc EXCEPT ![i] = "closed"]
  /\ mu'      = None
  /\ UNCHANGED <<session, starting, cliOnly, closed, abandoned, callers, closers,
                 failures, events>>

CloseDone(i) ==
  /\ attempt[i] = "settled"
  /\ attempt' = [attempt EXCEPT ![i] = "done"]
  /\ UNCHANGED <<provider, abandoned, proc, callers, closers, failures, events>>

\* CBM exits, its pipe closes or it stops answering in JSON.
Breaks(i) ==
  /\ proc[i] = "up" /\ attempt[i] = "done"
  /\ proc' = [proc EXCEPT ![i] = "broken"]
  /\ Event
  /\ UNCHANGED <<provider, attempt, abandoned, callers, closers, failures>>
-----------------------------------------------------------------------------
(* Provider.Close                                                          *)

Close(d) ==
  /\ dpc[d] \in {"idle", "returned"} /\ mu = None
  /\ Event
  /\ closed' = TRUE
  /\ target' = [target EXCEPT ![d] = starting]
  /\ abandoned' = [i \in Ids |-> abandoned[i] \/ i = starting]
  /\ before' = [before EXCEPT ![d] = {i \in Ids : proc[i] \in Alive}]
  /\ dpc' = [dpc EXCEPT ![d] = "wait"]
  /\ UNCHANGED <<mu, session, starting, cliOnly, attempt, proc, callers, failures>>

\* Mutant: the attempt is cancelled but not waited for.
CloseTakes_nowait(d) ==
  /\ dpc[d] = "wait" /\ mu = None
  /\ target'  = [target EXCEPT ![d] = session]
  /\ session' = None
  /\ closed'  = FALSE
  /\ dpc' = [dpc EXCEPT ![d] = IF session = None THEN "returned" ELSE "closing"]
  /\ UNCHANGED <<mu, starting, cliOnly, attempts, callers, before, failures, events>>

\* The wait for the abandoned attempt, and the second critical section.
CloseTakes(d) ==
  /\ dpc[d] = "wait" /\ mu = None
  /\ target[d] # None => attempt[target[d]] = "done"
  /\ target'  = [target EXCEPT ![d] = session]
  /\ session' = None
  /\ closed'  = FALSE
  /\ dpc' = [dpc EXCEPT ![d] = IF session = None THEN "returned" ELSE "closing"]
  /\ UNCHANGED <<mu, starting, cliOnly, attempts, callers, before, failures, events>>

CloseSession(d) ==
  /\ dpc[d] = "closing"
  /\ proc' = [proc EXCEPT ![target[d]] = "closed"]
  /\ dpc'  = [dpc EXCEPT ![d] = "returned"]
  /\ UNCHANGED <<provider, attempt, abandoned, callers, target, before, failures, events>>
-----------------------------------------------------------------------------
Init ==
  /\ mu = None /\ session = None /\ starting = None
  /\ cliOnly = FALSE /\ closed = FALSE
  /\ attempt = [i \in Ids |-> "unborn"]
  /\ abandoned = [i \in Ids |-> FALSE]
  /\ proc = [i \in Ids |-> "none"]
  /\ cpc = [c \in Callers |-> "idle"]
  /\ held = [c \in Callers |-> None]
  /\ left = [c \in Callers |-> FALSE]
  /\ dpc = [d \in Closers |-> "idle"]
  /\ target = [d \in Closers |-> None]
  /\ before = [d \in Closers |-> {}]
  /\ failures = 0 /\ events = 0

CallerStep(c) ==
  \/ persistent(c) \/ AttemptOver(c) \/ StopWaiting(c) \/ Relocked(c)
  \/ Answered(c) \/ callToolFails(c) \/ CallErred(c)
  \/ retire(c) \/ Retired(c) \/ oneShot(c)

AttemptStep(i) ==
  \/ Connected(i) \/ ConnectFails(i) \/ settle(i) \/ SettleClosed(i) \/ CloseDone(i)

CloserStep(d) == CloseTakes(d) \/ CloseSession(d)

Next ==
  \/ \E c \in Callers : Call(c) \/ ContextEnds(c) \/ CallerStep(c)
  \/ \E i \in Ids : AttemptStep(i) \/ Breaks(i)
  \/ \E d \in Closers : Close(d) \/ CloserStep(d)

Spec == Init /\ [][Next]_vars

\* What a caller does without CBM: once its context has ended neither a session
\* nor a subprocess keeps it.
Unassisted(c) ==
  \/ persistent(c) \/ AttemptOver(c) \/ StopWaiting(c) \/ Relocked(c) \/ CallErred(c)
  \/ retire(c) \/ Retired(c)
  \/ left[c] /\ (callToolFails(c) \/ oneShot(c))

\* Goroutines run, session.Close kills a process that does not exit, every
\* context ends at the latest with the trace budget, and a cancelled start
\* fails.  Nothing says that CBM starts or answers.  The mutex is held across
\* steps at most once per event, so weak fairness is enough to get it.
Fairness ==
  /\ \A c \in Callers : WF_vars(Unassisted(c)) /\ WF_vars(ContextEnds(c))
  /\ \A i \in Ids :
       /\ WF_vars(abandoned[i] /\ ConnectFails(i))
       /\ WF_vars(settle(i) \/ SettleClosed(i) \/ CloseDone(i))
  /\ \A d \in Closers : WF_vars(CloserStep(d))

LiveSpec == Spec /\ Fairness
-----------------------------------------------------------------------------
(* Properties                                                              *)

\* Somebody is still going to close process i.
Owned(i) ==
  \/ session = i
  \/ attempt[i] \in Running
  \/ \E c \in Callers : cpc[c] = "closing" /\ held[c] = i
  \/ \E d \in Closers : dpc[d] = "closing" /\ target[d] = i

\* No CBM process is left running with nobody who will use or close it, however
\* starts, retirements and Close interleave (backend.go, settle: "leaving it
\* open would leave a CBM process behind").
NoLeakedProcess == \A i \in Ids : proc[i] \in Alive => Owned(i)

\* However many traces find no session at once, one CBM is started for them
\* (backend.go, startup: "one attempt at a time").
OneAttempt == \A i, j \in Ids : attempt[i] \in Running /\ attempt[j] \in Running => i = j

\* When Close returns, every CBM process there was when it was called is gone,
\* also one that was only being started or being retired (backend.go, Close:
\* "a CBM that had already been spawned is closed before this returns").
CloseIsShutdown ==
  \A d \in Closers : dpc[d] = "returned" => \A i \in before[d] : proc[i] = "closed"

\* A working session is taken away only by Close: neither a caller that has
\* gone nor one that failed on an earlier session costs the others theirs
\* (backend.go, retire and call).
OnlyBrokenRetired ==
  \A i \in Ids : proc[i] = "up" /\ proc'[i] = "closed" =>
    abandoned[i] \/ closed \/ \E d \in Closers : dpc[d] = "closing" /\ target[d] = i

\* A start outlives the callers that wait for it: it comes to nothing only
\* because CBM failed or Close was called (backend.go, persistent: "The attempt
\* is deliberately left running").
StartSurvives ==
  \A i \in Ids :
    /\ attempt[i] \in {"connecting", "connected"}
    /\ attempt'[i] \notin {"connecting", "connected"} /\ session' # i
    => abandoned[i] \/ closed \/ failures' > failures

\* The provider gives up on sessions only when CBM itself failed to start,
\* never because Close or a caller stopped one (backend.go, settle).
NeverCondemned == cliOnly' => failures' > 0

\* Callers share one provider, and none of them costs the others their session,
\* the start they wait for, or sessions altogether (backend.go, retire, settle).
SharedSessionKept == [][OnlyBrokenRetired /\ StartSurvives /\ NeverCondemned]_vars

\* A call comes back although CBM may neither start nor answer: its own context
\* ends every wait (backend.go, persistent: "the caller must be able to stop
\* waiting the moment its own context ends"); and Close comes back, also when it
\* has to wait for a start to be cancelled.
CallsEnd ==
  /\ \A c \in Callers : cpc[c] # "idle" ~> cpc[c] = "idle"
  /\ \A d \in Closers : dpc[d] = "wait" ~> dpc[d] = "returned"
=============================================================================
