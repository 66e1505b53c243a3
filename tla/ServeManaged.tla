----------------------------- MODULE ServeManaged -----------------------------
(***************************************************************************)
(* One run of `vacmcp serve --managed` after another on one data           *)
(* directory: the lock, the configuration it generates and loads back, the *)
(* listener, the signals, the drain, and the order in which the engine,    *)
(* the lock and the process go.  Beside the servers run management         *)
(* commands, which build contexts and take them apart, and `vacmcp doctor  *)
(* --managed`, which generates the same file.                              *)
(*                                                                         *)
(* What a command does to a context is ManagedLifecycle, what a request    *)
(* asks is QueryCall and how the CBM session lives is CbmSession: here a   *)
(* context is READY or not, a request is running or not, and the session   *)
(* is up or not.                                                           *)
(***************************************************************************)
EXTENDS FiniteSets

CONSTANTS
  Servers,  \* processes that run serve --managed
  Doctors,  \* processes that run doctor --managed
  Commands, \* processes that take contexts apart
  Requests, \* clients with one request each
  Contexts,
  Flags,    \* Flags[w]: the --zoekt-url and --cbm-command that w was given
  None

ASSUME ConstantsAssumption ==
  /\ Servers \cap Doctors = {} /\ Servers \cap Requests = {}
  /\ None \notin Servers \cup Doctors
  /\ None \notin {"listener", "deadline", "canceled", "transport", "success", "failure"}
  /\ DOMAIN Flags = Servers \cup Doctors

Writers == Servers \cup Doctors
Configs == [flags : {Flags[w] : w \in Writers}, contexts : SUBSET Contexts]

VARIABLES
  \* The data directory
  ready,     \* the contexts whose record says READY
  file,      \* generated-config.yaml: the configurations its bytes come from
  lock,      \* the server that holds the server lock
  shared,    \* the commands that hold it shared
  \* The processes
  pc,        \* pc[w]: where a server or a doctor is
  built,     \* built[w]: the configuration it built from the records
  conf,      \* conf[s]: the configuration the server runs on
  disturbed, \* disturbed[s]: another process wrote the file that s loads
  \* A server that serves
  stdio,     \* stdio[s]: it serves STDIO, not HTTP
  caught,    \* caught[s]: signals are delivered to the context
  asked,     \* asked[s]: the context of the command is done
  listener,  \* listener[s]: of the HTTP server
  watcher,   \* watcher[s]: the goroutine that drains
  err,       \* err[s]: what serving returned
  exit,      \* exit[s]: what it is going to exit with
  session,   \* session[s]: the CBM session of its engine is up
  \* The clients
  at         \* at[q]: the server that runs the request of q

directory == <<ready, file, lock, shared>>
startup   == <<built, conf, disturbed>>
serving   == <<stdio, caught, asked, listener, watcher, err>>
vars == <<directory, pc, startup, serving, exit, session, at>>

\* The places where a signal still has its default meaning, in their order.
Starting == {"lock", "read", "truncate", "write", "load", "signals"}
\* The function is inside the transport's serve call.
Serving  == {"listen", "accepting", "draining", "stdio"}
\* The deferred calls, in the order they run.
Leaving  == {"closing", "stopping", "releasing", "exiting"}

NoConfig(w) == [flags |-> Flags[w], contexts |-> {}]
RunningAt(s) == {q \in Requests : at[q] = s}
Go(w, from, to) == pc[w] = from /\ pc' = [pc EXCEPT ![w] = to]
-----------------------------------------------------------------------------
(* The configuration: managedConfig, for a server and for a doctor         *)

\* Mutant: serve reads the records before it waits for the lock.
Start_unlocked(s) ==
  /\ Go(s, "off", "read")
  /\ \E b \in BOOLEAN : stdio' = [stdio EXCEPT ![s] = b]
  /\ UNCHANGED <<directory, startup, caught, asked, listener, watcher, err, exit,
                 session, at>>

\* An operator or a supervisor starts the server, over HTTP or STDIO.
Start(s) ==
  /\ Go(s, "off", "lock")
  /\ \E b \in BOOLEAN : stdio' = [stdio EXCEPT ![s] = b]
  /\ UNCHANGED <<directory, startup, caught, asked, listener, watcher, err, exit,
                 session, at>>

\* Waits for commands and for another server.
HoldServerLock(s) ==
  /\ lock = None /\ shared = {}
  /\ Go(s, "lock", "read")
  /\ lock' = s
  /\ UNCHANGED <<ready, file, shared, startup, serving, exit, session, at>>

\* A doctor takes no lock.
Diagnose(d) ==
  /\ Go(d, "off", "read")
  /\ UNCHANGED <<directory, startup, serving, exit, session, at>>

readyContexts(w) ==
  /\ Go(w, "read", "truncate")
  /\ built' = [built EXCEPT ![w] = [flags |-> Flags[w], contexts |-> ready]]
  /\ UNCHANGED <<directory, conf, disturbed, serving, exit, session, at>>

\* The servers between their own writing of the file and their loading of it,
\* which see what w does to it.
Disturb(w) ==
  disturbed' = [s \in Servers |->
                  disturbed[s] \/ (s # w /\ pc[s] \in {"write", "load"})]

\* os.WriteFile opens the file with O_TRUNC, then writes it from the start.
Truncate(w) ==
  /\ Go(w, "truncate", "write")
  /\ file' = {}
  /\ Disturb(w)
  /\ UNCHANGED <<ready, lock, shared, built, conf, serving, exit, session, at>>

\* Over the bytes of somebody else the longer one may show behind the shorter.
WriteFile(w) ==
  /\ Go(w, "write", "load")
  /\ file' \in {{built[w]}, file \cup {built[w]}}
  /\ Disturb(w)
  /\ UNCHANGED <<ready, lock, shared, built, conf, serving, exit, session, at>>

\* What config.Load can make of the file: it refuses one without contexts, and
\* one with bytes of several it refuses or takes for something of them all.
Loads == {c \in Configs :
            /\ c.contexts # {}
            /\ c.flags \in {f.flags : f \in file}
            /\ IF Cardinality(file) = 1 THEN c \in file
               ELSE c.contexts \subseteq UNION {f.contexts : f \in file}}

Refuses == Cardinality(file) # 1 \/ \A f \in file : f.contexts = {}

\* Without contexts there is nothing to load back.
Loaded(w) == IF built[w].contexts = {} THEN {built[w]} ELSE Loads

LoadConfig(s) ==
  /\ Go(s, "load", "signals")
  /\ \E c \in Loaded(s) : conf' = [conf EXCEPT ![s] = c]
  /\ UNCHANGED <<directory, built, disturbed, serving, exit, session, at>>

\* The records cannot be read, or the file cannot be written or loaded: the lock
\* is the only deferred call.
ConfigFails(s) ==
  /\ \/ \E from \in {"read", "truncate", "write"} : Go(s, from, "releasing")
     \/ /\ Go(s, "load", "releasing")
        /\ built[s].contexts # {} /\ Refuses
  /\ exit' = [exit EXCEPT ![s] = "failure"]
  /\ UNCHANGED <<directory, startup, serving, session, at>>

\* It fails, or has only checks left to make, which read.
DoctorEnds(d) ==
  /\ \E from \in {"read", "truncate", "write", "load"} : Go(d, from, "off")
  /\ built' = [built EXCEPT ![d] = NoConfig(d)]
  /\ UNCHANGED <<directory, conf, disturbed, serving, exit, session, at>>
-----------------------------------------------------------------------------
(* Serving: commandContext, addTools, ServeHTTPContext, ServeStdio         *)

commandContext(s) ==
  /\ Go(s, "signals", IF stdio[s] THEN "stdio" ELSE "listen")
  /\ caught' = [caught EXCEPT ![s] = TRUE]
  /\ watcher' = [watcher EXCEPT ![s] = IF stdio[s] THEN "none" ELSE "waiting"]
  /\ UNCHANGED <<directory, startup, stdio, asked, listener, err, exit, session, at>>

\* A server that was shut down before it listened does not listen.
ListenAndServe(s) ==
  /\ listener[s] # "shut"
  /\ Go(s, "listen", "accepting")
  /\ listener' = [listener EXCEPT ![s] = "open"]
  /\ UNCHANGED <<directory, startup, stdio, caught, asked, watcher, err, exit, session, at>>

\* The address is taken, or accepting fails: this returns at once, and releases
\* the watcher.
ListenerFails(s) ==
  /\ listener[s] # "shut"
  /\ Go(s, "listen", "closing") \/ Go(s, "accepting", "closing")
  /\ listener' = [listener EXCEPT ![s] = "none"]
  /\ err' = [err EXCEPT ![s] = "listener"]
  /\ UNCHANGED <<directory, startup, stdio, caught, asked, watcher, exit, session, at>>

\* Mutant: ServeHTTPContext returns as soon as the listener is closed.
ErrServerClosed_returns(s) ==
  /\ listener[s] = "shut"
  /\ Go(s, "listen", "closing") \/ Go(s, "accepting", "closing")
  /\ err' = [err EXCEPT ![s] = None]
  /\ UNCHANGED <<directory, startup, stdio, caught, asked, listener, watcher, exit,
                 session, at>>

\* Shutdown has closed it: what it says of the drain is waited for.
ErrServerClosed(s) ==
  /\ listener[s] = "shut"
  /\ Go(s, "listen", "draining") \/ Go(s, "accepting", "draining")
  /\ UNCHANGED <<directory, startup, serving, exit, session, at>>

\* The watcher wakes when the context is done or this call is over.
WatcherWakes(s) ==
  /\ watcher[s] = "waiting"
  /\ asked[s] \/ pc[s] \in Leaving
  /\ IF asked[s]
     THEN /\ watcher' = [watcher EXCEPT ![s] = "shutdown"]
          /\ listener' = [listener EXCEPT ![s] = "shut"]
     ELSE /\ watcher' = [watcher EXCEPT ![s] = "none"]
          /\ UNCHANGED listener
  /\ UNCHANGED <<directory, pc, startup, stdio, caught, asked, err, exit, session, at>>

Drained(s) ==
  /\ watcher[s] = "shutdown" /\ RunningAt(s) = {}
  /\ watcher' = [watcher EXCEPT ![s] = "drained"]
  /\ UNCHANGED <<directory, pc, startup, stdio, caught, asked, listener, err, exit,
                 session, at>>

\* Mutant: Shutdown is given no timeout.
DrainExpires_never(s) == FALSE /\ UNCHANGED vars

\* drainTimeout: the requests that still run are not waited for any longer.
DrainExpires(s) ==
  /\ watcher[s] = "shutdown" /\ RunningAt(s) # {}
  /\ watcher' = [watcher EXCEPT ![s] = "expired"]
  /\ UNCHANGED <<directory, pc, startup, stdio, caught, asked, listener, err, exit,
                 session, at>>

DrainReturns(s) ==
  /\ watcher[s] \in {"drained", "expired"}
  /\ Go(s, "draining", "closing")
  /\ err' = [err EXCEPT ![s] = IF watcher[s] = "drained" THEN None ELSE "deadline"]
  /\ UNCHANGED <<directory, startup, stdio, caught, asked, listener, watcher, exit,
                 session, at>>

\* The client has gone, the context is done, or the transport fails.
StdioReturns(s) ==
  /\ Go(s, "stdio", "closing")
  /\ \E e \in {None, "transport"} \cup (IF asked[s] THEN {"canceled"} ELSE {}) :
       err' = [err EXCEPT ![s] = e]
  /\ UNCHANGED <<directory, startup, stdio, caught, asked, listener, watcher, exit,
                 session, at>>
-----------------------------------------------------------------------------
(* Requests                                                                *)

Arrive(q, s) ==
  /\ at[q] = None
  /\ pc[s] = "stdio" \/ (pc[s] = "accepting" /\ listener[s] = "open")
  /\ at' = [at EXCEPT ![q] = s]
  /\ UNCHANGED <<directory, pc, startup, serving, exit, session>>

\* A trace that finds no session starts one, also after Close.
Trace(q) ==
  /\ at[q] # None /\ session' = [session EXCEPT ![at[q]] = TRUE]
  /\ UNCHANGED <<directory, pc, startup, serving, exit, at>>

Answer(q) ==
  /\ at[q] # None /\ at' = [at EXCEPT ![q] = None]
  /\ UNCHANGED <<directory, pc, startup, serving, exit, session>>
-----------------------------------------------------------------------------
(* Stopping                                                                *)

\* Only the error of the context itself is taken for a success.
stopped(s) ==
  IF err[s] = None \/ (asked[s] /\ err[s] = "canceled") THEN "success" ELSE "failure"

\* Everything the process held goes with it, and its requests are answered by
\* nobody.
Gone(s) ==
  /\ lock' = IF lock = s THEN None ELSE lock
  /\ at' = [q \in Requests |-> IF at[q] = s THEN None ELSE at[q]]
  /\ built' = [built EXCEPT ![s] = NoConfig(s)]
  /\ conf' = [conf EXCEPT ![s] = NoConfig(s)]
  /\ disturbed' = [disturbed EXCEPT ![s] = FALSE]
  /\ stdio' = [stdio EXCEPT ![s] = FALSE]
  /\ caught' = [caught EXCEPT ![s] = FALSE]
  /\ asked' = [asked EXCEPT ![s] = FALSE]
  /\ listener' = [listener EXCEPT ![s] = "none"]
  /\ watcher' = [watcher EXCEPT ![s] = "none"]
  /\ err' = [err EXCEPT ![s] = None]
  /\ exit' = [exit EXCEPT ![s] = None]
  /\ session' = [session EXCEPT ![s] = FALSE]
  /\ UNCHANGED <<ready, file, shared>>

\* SIGINT or SIGTERM: to the context while it is caught, else the end.
Signal(s) ==
  \/ /\ pc[s] # "off" /\ caught[s] /\ ~asked[s]
     /\ asked' = [asked EXCEPT ![s] = TRUE]
     /\ UNCHANGED <<directory, pc, startup, stdio, caught, listener, watcher, err, exit,
                    session, at>>
  \/ /\ pc[s] # "off" /\ ~caught[s]
     /\ pc' = [pc EXCEPT ![s] = "off"]
     /\ Gone(s)

\* The goroutine of commandContext: the next signal is not caught.
FirstSignalSeen(s) ==
  /\ asked[s] /\ caught[s]
  /\ caught' = [caught EXCEPT ![s] = FALSE]
  /\ UNCHANGED <<directory, pc, startup, stdio, asked, listener, watcher, err, exit,
                 session, at>>

\* Mutant: the engine is not closed.
CloseEngine_not(s) ==
  /\ Go(s, "closing", "stopping")
  /\ exit' = [exit EXCEPT ![s] = stopped(s)]
  /\ UNCHANGED <<directory, startup, serving, session, at>>

\* serve has its result, and closes the engine first.
CloseEngine(s) ==
  /\ Go(s, "closing", "stopping")
  /\ exit' = [exit EXCEPT ![s] = stopped(s)]
  /\ session' = [session EXCEPT ![s] = FALSE]
  /\ UNCHANGED <<directory, startup, serving, at>>

StopSignals(s) ==
  /\ Go(s, "stopping", "releasing")
  /\ caught' = [caught EXCEPT ![s] = FALSE]
  /\ UNCHANGED <<directory, startup, stdio, asked, listener, watcher, err, exit, session, at>>

ReleaseServerLock(s) ==
  /\ Go(s, "releasing", "exiting")
  /\ lock' = None
  /\ UNCHANGED <<ready, file, shared, startup, serving, exit, session, at>>

Exit(s) ==
  /\ Go(s, "exiting", "off")
  /\ Gone(s)
-----------------------------------------------------------------------------
(* The management plane                                                    *)

\* Building a context takes no management lock.
Build(c) ==
  /\ c \notin ready /\ ready' = ready \cup {c}
  /\ UNCHANGED <<file, lock, shared, pc, startup, serving, exit, session, at>>

\* Refused while a server holds the lock.
holdManagementLock(m) ==
  /\ m \notin shared /\ lock = None
  /\ shared' = shared \cup {m}
  /\ UNCHANGED <<ready, file, lock, pc, startup, serving, exit, session, at>>

TakeApart(m, c) ==
  /\ m \in shared /\ c \in ready /\ ready' = ready \ {c}
  /\ UNCHANGED <<file, lock, shared, pc, startup, serving, exit, session, at>>

ReleaseManagementLock(m) ==
  /\ m \in shared /\ shared' = shared \ {m}
  /\ UNCHANGED <<ready, file, lock, pc, startup, serving, exit, session, at>>
-----------------------------------------------------------------------------
Init ==
  /\ ready \in SUBSET Contexts /\ file = {} /\ lock = None /\ shared = {}
  /\ pc = [w \in Writers |-> "off"]
  /\ built = [w \in Writers |-> NoConfig(w)]
  /\ conf  = [s \in Servers |-> NoConfig(s)]
  /\ disturbed = [s \in Servers |-> FALSE]
  /\ stdio = [s \in Servers |-> FALSE] /\ caught = [s \in Servers |-> FALSE]
  /\ asked = [s \in Servers |-> FALSE] /\ listener = [s \in Servers |-> "none"]
  /\ watcher = [s \in Servers |-> "none"] /\ err = [s \in Servers |-> None]
  /\ exit = [s \in Servers |-> None] /\ session = [s \in Servers |-> FALSE]
  /\ at = [q \in Requests |-> None]

\* What a server does of itself once it serves.
Server(s) ==
  \/ ListenAndServe(s) \/ ErrServerClosed(s) \/ DrainReturns(s) \/ StdioReturns(s)
  \/ CloseEngine(s) \/ StopSignals(s) \/ ReleaseServerLock(s) \/ Exit(s)
Watcher(s) == WatcherWakes(s) \/ Drained(s)

Next ==
  \/ \E s \in Servers :
       \/ Start(s) \/ HoldServerLock(s) \/ LoadConfig(s) \/ ConfigFails(s)
       \/ commandContext(s) \/ ListenerFails(s) \/ Server(s) \/ Watcher(s)
       \/ DrainExpires(s) \/ Signal(s) \/ FirstSignalSeen(s)
  \/ \E w \in Writers : readyContexts(w) \/ Truncate(w) \/ WriteFile(w)
  \/ \E d \in Doctors : Diagnose(d) \/ DoctorEnds(d)
  \/ \E q \in Requests : Trace(q) \/ Answer(q) \/ \E s \in Servers : Arrive(q, s)
  \/ \E c \in Contexts : Build(c) \/ \E m \in Commands : TakeApart(m, c)
  \/ \E m \in Commands : holdManagementLock(m) \/ ReleaseManagementLock(m)

Spec == Init /\ [][Next]_vars

\* Goroutines run and timers fire; nothing says that a request is answered, that
\* a client leaves or that anybody sends a signal.
Fairness ==
  \A s \in Servers :
    /\ WF_vars(Server(s) /\ (pc[s] # "stdio" \/ asked[s]))
    /\ WF_vars(Watcher(s)) /\ WF_vars(DrainExpires(s))

LiveSpec == Spec /\ Fairness
-----------------------------------------------------------------------------
(* Properties                                                              *)

\* A server serves, with its own flags, contexts that are READY, from the moment
\* it has loaded its configuration until it stops serving, although commands take
\* contexts apart and other servers start and stop: it read the records under the
\* lock.  The exception is a server whose file a doctor, which takes no lock,
\* rewrote before it was loaded.
ServesReady ==
  \A s \in Servers :
    pc[s] \in {"signals"} \cup Serving /\ ~disturbed[s] =>
      /\ conf[s].flags = Flags[s]
      /\ conf[s].contexts \subseteq ready

\* An HTTP server that is going to say it stopped as asked was asked, and has
\* answered every request it had read before it closed its engine.
HonestExit ==
  \A s \in Servers :
    ~stdio[s] /\ exit[s] = "success" => asked[s] /\ RunningAt(s) = {}

\* While the CBM session of a server is up the management plane is locked out,
\* and an HTTP server does not exit over it, unless it had to cut requests off.
SessionCovered ==
  \A s \in Servers :
    session[s] => lock = s \/ stdio[s] \/ err[s] \in {"deadline", "listener"}

\* A server that is asked to stop stops, although no request is ever answered.
ShutdownEnds == \A s \in Servers : asked[s] ~> pc[s] = "off"
=============================================================================
