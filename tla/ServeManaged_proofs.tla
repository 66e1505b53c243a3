------------------------- MODULE ServeManaged_proofs -------------------------
(* Proofs about ServeManaged: for any servers, doctors, commands, requests,   *)
(* contexts and flags.                                                        *)
EXTENDS ServeManaged, FiniteSetTheorems, TLAPS

Configuring == {"read", "truncate", "write", "load"}
Stopping    == {"stopping", "releasing", "exiting"}

TypeOK ==
  /\ ready \subseteq Contexts /\ file \subseteq Configs
  /\ lock \in Servers \cup {None} /\ shared \subseteq Commands
  /\ pc \in [Writers -> {"off"} \cup Starting \cup Serving \cup Leaving]
  /\ \A d \in Doctors : pc[d] \in {"off"} \cup Configuring
  /\ built \in [Writers -> Configs] /\ conf \in [Servers -> Configs]
  /\ disturbed \in [Servers -> BOOLEAN]
  /\ stdio \in [Servers -> BOOLEAN] /\ caught \in [Servers -> BOOLEAN]
  /\ asked \in [Servers -> BOOLEAN]
  /\ listener \in [Servers -> {"none", "open", "shut"}]
  /\ watcher \in [Servers -> {"none", "waiting", "shutdown", "drained", "expired"}]
  /\ err \in [Servers -> {None, "listener", "deadline", "canceled", "transport"}]
  /\ exit \in [Servers -> {None, "success", "failure"}]
  /\ session \in [Servers -> BOOLEAN]
  /\ at \in [Requests -> Servers \cup {None}]

\* A server has the lock from before it reads the records until its last
\* deferred call, and no command has it then.
LockOK ==
  /\ \A s \in Servers : lock = s <=> pc[s] \notin {"off", "lock", "exiting"}
  /\ lock # None => shared = {}

\* What a server reads, writes and loads back is its own configuration, of
\* contexts that are READY.
ConfigOK(s) ==
  /\ pc[s] \in {"truncate", "write", "load"} =>
       built[s].flags = Flags[s] /\ built[s].contexts \subseteq ready
  /\ pc[s] = "write" /\ ~disturbed[s] => file = {}
  /\ pc[s] = "load" /\ ~disturbed[s] => file = {built[s]}
  /\ pc[s] \in {"signals"} \cup Serving /\ ~disturbed[s] =>
       conf[s].flags = Flags[s] /\ conf[s].contexts \subseteq ready

\* Nothing is up, asked or returned before the server serves, and what is up
\* belongs to the transport it serves.
TransportOK(s) ==
  /\ pc[s] \in {"off"} \cup Starting =>
       ~caught[s] /\ ~asked[s] /\ listener[s] = "none" /\ watcher[s] = "none"
  /\ pc[s] \in {"off"} \cup Starting \cup Serving => err[s] = None
  /\ pc[s] = "stdio" => stdio[s]
  /\ pc[s] \in {"listen", "accepting", "draining"} => ~stdio[s]
  /\ stdio[s] => watcher[s] = "none" /\ err[s] \notin {"listener", "deadline"}
  /\ err[s] \in {"canceled", "transport"} => stdio[s]
  /\ exit[s] # None => pc[s] \in Stopping
  /\ session[s] \/ RunningAt(s) # {} => pc[s] \in Serving \cup Leaving

\* The drain: only a watcher that was asked shuts the listener, and only a drain
\* that left no request returns without an error.
DrainOK(s) ==
  /\ watcher[s] \in {"shutdown", "drained", "expired"} => asked[s] /\ listener[s] = "shut"
  /\ pc[s] = "draining" => listener[s] = "shut"
  /\ watcher[s] = "drained" => RunningAt(s) = {}
  /\ pc[s] = "closing" /\ ~stdio[s] /\ err[s] = None => asked[s] /\ watcher[s] = "drained"
  /\ pc[s] \in Stopping /\ ~stdio[s] /\ err[s] = None => ~session[s] /\ RunningAt(s) = {}

IInv ==
  /\ TypeOK /\ LockOK /\ HonestExit
  /\ \A s \in Servers : ConfigOK(s)
  /\ \A s \in Servers : TransportOK(s)
  /\ \A s \in Servers : DrainOK(s)

LEMMA StartKeeps == ASSUME NEW s \in Servers, IInv, Start(s) PROVE IInv'
<1> USE ConstantsAssumption DEF IInv, Start, Go, directory, startup, serving,
        Writers, Starting, Serving, Leaving, Configuring, Stopping
<1>1. TypeOK'
  <2>1. pc' \in [Writers -> {"off"} \cup Starting \cup Serving \cup Leaving]
    BY DEF TypeOK
  <2>2. \A d \in Doctors : pc'[d] \in {"off"} \cup Configuring
    BY DEF TypeOK
  <2>3. stdio' \in [Servers -> BOOLEAN]
    BY DEF TypeOK
  <2>4. QED
    BY <2>1, <2>2, <2>3 DEF TypeOK
<1>2. LockOK'
  BY DEF LockOK, TypeOK
<1>3. \A z \in Servers : ConfigOK(z)'
  BY DEF ConfigOK, TypeOK
<1>4. \A z \in Servers : TransportOK(z)'
  BY DEF TransportOK, RunningAt, TypeOK
<1>5. \A z \in Servers : DrainOK(z)'
  BY DEF DrainOK, TransportOK, RunningAt, TypeOK
<1>6. HonestExit'
  BY DEF HonestExit, TransportOK, DrainOK, RunningAt, TypeOK
<1>7. QED
  BY <1>1, <1>2, <1>3, <1>4, <1>5, <1>6

LEMMA HoldServerLockKeeps == ASSUME NEW s \in Servers, IInv, HoldServerLock(s) PROVE IInv'
<1> USE ConstantsAssumption DEF IInv, HoldServerLock, Go, directory, startup, serving,
        Writers, Starting, Serving, Leaving, Configuring, Stopping
<1>1. TypeOK'
  BY DEF TypeOK
<1>2. LockOK'
  BY DEF LockOK, TypeOK
<1>3. \A z \in Servers : ConfigOK(z)'
  BY DEF ConfigOK, TypeOK
<1>4. \A z \in Servers : TransportOK(z)'
  BY DEF TransportOK, RunningAt, TypeOK
<1>5. \A z \in Servers : DrainOK(z)'
  BY DEF DrainOK, TransportOK, RunningAt, TypeOK
<1>6. HonestExit'
  BY DEF HonestExit, DrainOK, RunningAt, TypeOK
<1>7. QED
  BY <1>1, <1>2, <1>3, <1>4, <1>5, <1>6

LEMMA LoadConfigKeeps == ASSUME NEW s \in Servers, IInv, LoadConfig(s) PROVE IInv'
<1> USE ConstantsAssumption DEF IInv, LoadConfig, Loaded, Go, directory, startup, serving,
        Writers, Starting, Serving, Leaving, Configuring, Stopping
<1>1. TypeOK'
  <2>1. Loaded(s) \subseteq Configs
    BY DEF TypeOK, Loads
  <2>2. conf' \in [Servers -> Configs]
    BY <2>1 DEF TypeOK
  <2>3. QED
    BY <2>2 DEF TypeOK
<1>2. LockOK'
  BY DEF LockOK, TypeOK
<1>3. \A z \in Servers : ConfigOK(z)'
  <2>1. ~disturbed[s] => Loaded(s) = {built[s]}
    <3>1. Cardinality({built[s]}) = 1
      BY FS_Singleton
    <3>2. ~disturbed[s] => file = {built[s]}
      BY DEF ConfigOK
    <3>3. ASSUME ~disturbed[s], NEW c \in Loads PROVE c = built[s]
      BY <3>1, <3>2, <3>3 DEF Loads
    <3>4. ASSUME ~disturbed[s], built[s].contexts # {} PROVE built[s] \in Loads
      BY <3>1, <3>2, <3>4 DEF Loads, TypeOK
    <3>5. QED
      BY <3>3, <3>4
  <2>2. ~disturbed[s] => conf'[s] = built[s]
    BY <2>1 DEF TypeOK
  <2>3. ASSUME NEW z \in Servers \ {s} PROVE ConfigOK(z)'
    BY DEF ConfigOK, TypeOK
  <2>4. ConfigOK(s)'
    BY <2>2 DEF ConfigOK, TypeOK
  <2>5. QED
    BY <2>3, <2>4
<1>4. \A z \in Servers : TransportOK(z)'
  BY DEF TransportOK, RunningAt, TypeOK
<1>5. \A z \in Servers : DrainOK(z)'
  BY DEF DrainOK, TransportOK, RunningAt, TypeOK
<1>6. HonestExit'
  BY DEF HonestExit, DrainOK, RunningAt, TypeOK
<1>7. QED
  BY <1>1, <1>2, <1>3, <1>4, <1>5, <1>6

LEMMA ConfigFailsKeeps == ASSUME NEW s \in Servers, IInv, ConfigFails(s) PROVE IInv'
<1> USE ConstantsAssumption DEF IInv, ConfigFails, Refuses, Go, directory, startup, serving,
        Writers, Starting, Serving, Leaving, Configuring, Stopping
<1>1. TypeOK'
  <2>1. pc' \in [Writers -> {"off"} \cup Starting \cup Serving \cup Leaving]
    BY DEF TypeOK
  <2>2. \A d \in Doctors : pc'[d] \in {"off"} \cup Configuring
    BY DEF TypeOK
  <2>3. exit' \in [Servers -> {None, "success", "failure"}]
    BY DEF TypeOK
  <2>4. QED
    BY <2>1, <2>2, <2>3 DEF TypeOK
<1>2. LockOK'
  BY DEF LockOK, TypeOK
<1>3. \A z \in Servers : ConfigOK(z)'
  BY DEF ConfigOK, TypeOK
<1>4. \A z \in Servers : TransportOK(z)'
  BY DEF TransportOK, RunningAt, TypeOK
<1>5. \A z \in Servers : DrainOK(z)'
  BY DEF DrainOK, TransportOK, RunningAt, TypeOK
<1>6. HonestExit'
  BY DEF HonestExit, DrainOK, RunningAt, TypeOK
<1>7. QED
  BY <1>1, <1>2, <1>3, <1>4, <1>5, <1>6

LEMMA commandContextKeeps == ASSUME NEW s \in Servers, IInv, commandContext(s) PROVE IInv'
<1> USE ConstantsAssumption DEF IInv, commandContext, Go, directory, startup, serving,
        Writers, Starting, Serving, Leaving, Configuring, Stopping
<1>1. TypeOK'
  BY DEF TypeOK
<1>2. LockOK'
  BY DEF LockOK, TypeOK
<1>3. \A z \in Servers : ConfigOK(z)'
  BY DEF ConfigOK, TypeOK
<1>4. \A z \in Servers : TransportOK(z)'
  BY DEF TransportOK, RunningAt, TypeOK
<1>5. \A z \in Servers : DrainOK(z)'
  BY DEF DrainOK, TransportOK, RunningAt, TypeOK
<1>6. HonestExit'
  BY DEF HonestExit, DrainOK, RunningAt, TypeOK
<1>7. QED
  BY <1>1, <1>2, <1>3, <1>4, <1>5, <1>6

LEMMA ListenAndServeKeeps == ASSUME NEW s \in Servers, IInv, ListenAndServe(s) PROVE IInv'
<1> USE ConstantsAssumption DEF IInv, ListenAndServe, Go, directory, startup, serving,
        Writers, Starting, Serving, Leaving, Configuring, Stopping
<1>1. TypeOK'
  BY DEF TypeOK
<1>2. LockOK'
  BY DEF LockOK, TypeOK
<1>3. \A z \in Servers : ConfigOK(z)'
  BY DEF ConfigOK, TypeOK
<1>4. \A z \in Servers : TransportOK(z)'
  BY DEF TransportOK, RunningAt, TypeOK
<1>5. \A z \in Servers : DrainOK(z)'
  BY DEF DrainOK, TransportOK, RunningAt, TypeOK
<1>6. HonestExit'
  BY DEF HonestExit, DrainOK, RunningAt, TypeOK
<1>7. QED
  BY <1>1, <1>2, <1>3, <1>4, <1>5, <1>6

LEMMA ListenerFailsKeeps == ASSUME NEW s \in Servers, IInv, ListenerFails(s) PROVE IInv'
<1> USE ConstantsAssumption DEF IInv, ListenerFails, Go, directory, startup, serving,
        Writers, Starting, Serving, Leaving, Configuring, Stopping
<1>1. TypeOK'
  BY DEF TypeOK
<1>2. LockOK'
  BY DEF LockOK, TypeOK
<1>3. \A z \in Servers : ConfigOK(z)'
  BY DEF ConfigOK, TypeOK
<1>4. \A z \in Servers : TransportOK(z)'
  BY DEF TransportOK, RunningAt, TypeOK
<1>5. \A z \in Servers : DrainOK(z)'
  BY DEF DrainOK, TransportOK, RunningAt, TypeOK
<1>6. HonestExit'
  BY DEF HonestExit, DrainOK, RunningAt, TypeOK
<1>7. QED
  BY <1>1, <1>2, <1>3, <1>4, <1>5, <1>6

LEMMA ErrServerClosedKeeps == ASSUME NEW s \in Servers, IInv, ErrServerClosed(s) PROVE IInv'
<1> USE ConstantsAssumption DEF IInv, ErrServerClosed, Go, directory, startup, serving,
        Writers, Starting, Serving, Leaving, Configuring, Stopping
<1>1. TypeOK'
  BY DEF TypeOK
<1>2. LockOK'
  BY DEF LockOK, TypeOK
<1>3. \A z \in Servers : ConfigOK(z)'
  BY DEF ConfigOK, TypeOK
<1>4. \A z \in Servers : TransportOK(z)'
  BY DEF TransportOK, RunningAt, TypeOK
<1>5. \A z \in Servers : DrainOK(z)'
  BY DEF DrainOK, TransportOK, RunningAt, TypeOK
<1>6. HonestExit'
  BY DEF HonestExit, DrainOK, RunningAt, TypeOK
<1>7. QED
  BY <1>1, <1>2, <1>3, <1>4, <1>5, <1>6

LEMMA DrainReturnsKeeps == ASSUME NEW s \in Servers, IInv, DrainReturns(s) PROVE IInv'
<1> USE ConstantsAssumption DEF IInv, DrainReturns, Go, directory, startup, serving,
        Writers, Starting, Serving, Leaving, Configuring, Stopping
<1>1. TypeOK'
  BY DEF TypeOK
<1>2. LockOK'
  BY DEF LockOK, TypeOK
<1>3. \A z \in Servers : ConfigOK(z)'
  BY DEF ConfigOK, TypeOK
<1>4. \A z \in Servers : TransportOK(z)'
  BY DEF TransportOK, RunningAt, TypeOK
<1>5. \A z \in Servers : DrainOK(z)'
  BY DEF DrainOK, TransportOK, RunningAt, TypeOK
<1>6. HonestExit'
  BY DEF HonestExit, DrainOK, RunningAt, TypeOK
<1>7. QED
  BY <1>1, <1>2, <1>3, <1>4, <1>5, <1>6

LEMMA StdioReturnsKeeps == ASSUME NEW s \in Servers, IInv, StdioReturns(s) PROVE IInv'
<1> USE ConstantsAssumption DEF IInv, StdioReturns, Go, directory, startup, serving,
        Writers, Starting, Serving, Leaving, Configuring, Stopping
<1>1. TypeOK'
  <2>1. pc' \in [Writers -> {"off"} \cup Starting \cup Serving \cup Leaving]
    BY DEF TypeOK
  <2>2. \A d \in Doctors : pc'[d] \in {"off"} \cup Configuring
    BY DEF TypeOK
  <2>3. err' \in [Servers -> {None, "listener", "deadline", "canceled", "transport"}]
    BY DEF TypeOK
  <2>4. QED
    BY <2>1, <2>2, <2>3 DEF TypeOK
<1>2. LockOK'
  BY DEF LockOK, TypeOK
<1>3. \A z \in Servers : ConfigOK(z)'
  BY DEF ConfigOK, TypeOK
<1>4. \A z \in Servers : TransportOK(z)'
  BY DEF TransportOK, RunningAt, TypeOK
<1>5. \A z \in Servers : DrainOK(z)'
  BY DEF DrainOK, TransportOK, RunningAt, TypeOK
<1>6. HonestExit'
  BY DEF HonestExit, DrainOK, RunningAt, TypeOK
<1>7. QED
  BY <1>1, <1>2, <1>3, <1>4, <1>5, <1>6

LEMMA CloseEngineKeeps == ASSUME NEW s \in Servers, IInv, CloseEngine(s) PROVE IInv'
<1> USE ConstantsAssumption DEF IInv, CloseEngine, stopped, Go, directory, startup, serving,
        Writers, Starting, Serving, Leaving, Configuring, Stopping
<1>1. TypeOK'
  BY DEF TypeOK
<1>2. LockOK'
  BY DEF LockOK, TypeOK
<1>3. \A z \in Servers : ConfigOK(z)'
  BY DEF ConfigOK, TypeOK
<1>4. \A z \in Servers : TransportOK(z)'
  BY DEF TransportOK, RunningAt, TypeOK
<1>5. \A z \in Servers : DrainOK(z)'
  BY DEF DrainOK, TransportOK, RunningAt, TypeOK
<1>6. HonestExit'
  BY DEF HonestExit, TransportOK, DrainOK, RunningAt, TypeOK
<1>7. QED
  BY <1>1, <1>2, <1>3, <1>4, <1>5, <1>6

LEMMA StopSignalsKeeps == ASSUME NEW s \in Servers, IInv, StopSignals(s) PROVE IInv'
<1> USE ConstantsAssumption DEF IInv, StopSignals, Go, directory, startup, serving,
        Writers, Starting, Serving, Leaving, Configuring, Stopping
<1>1. TypeOK'
  BY DEF TypeOK
<1>2. LockOK'
  BY DEF LockOK, TypeOK
<1>3. \A z \in Servers : ConfigOK(z)'
  BY DEF ConfigOK, TypeOK
<1>4. \A z \in Servers : TransportOK(z)'
  BY DEF TransportOK, RunningAt, TypeOK
<1>5. \A z \in Servers : DrainOK(z)'
  BY DEF DrainOK, TransportOK, RunningAt, TypeOK
<1>6. HonestExit'
  BY DEF HonestExit, DrainOK, RunningAt, TypeOK
<1>7. QED
  BY <1>1, <1>2, <1>3, <1>4, <1>5, <1>6

LEMMA ReleaseServerLockKeeps == ASSUME NEW s \in Servers, IInv, ReleaseServerLock(s) PROVE IInv'
<1> USE ConstantsAssumption DEF IInv, ReleaseServerLock, Go, directory, startup, serving,
        Writers, Starting, Serving, Leaving, Configuring, Stopping
<1>1. TypeOK'
  BY DEF TypeOK
<1>2. LockOK'
  BY DEF LockOK, TypeOK
<1>3. \A z \in Servers : ConfigOK(z)'
  BY DEF ConfigOK, TypeOK
<1>4. \A z \in Servers : TransportOK(z)'
  BY DEF TransportOK, RunningAt, TypeOK
<1>5. \A z \in Servers : DrainOK(z)'
  BY DEF DrainOK, TransportOK, RunningAt, TypeOK
<1>6. HonestExit'
  BY DEF HonestExit, DrainOK, RunningAt, TypeOK
<1>7. QED
  BY <1>1, <1>2, <1>3, <1>4, <1>5, <1>6

LEMMA WatcherWakesKeeps == ASSUME NEW s \in Servers, IInv, WatcherWakes(s) PROVE IInv'
<1> USE ConstantsAssumption DEF IInv, WatcherWakes, Go, directory, startup, serving,
        Writers, Starting, Serving, Leaving, Configuring, Stopping
<1>1. TypeOK'
  <2>1. watcher' \in [Servers -> {"none", "waiting", "shutdown", "drained", "expired"}]
    BY DEF TypeOK
  <2>2. listener' \in [Servers -> {"none", "open", "shut"}]
    BY DEF TypeOK
  <2>3. QED
    BY <2>1, <2>2 DEF TypeOK
<1>2. LockOK'
  BY DEF LockOK, TypeOK
<1>3. \A z \in Servers : ConfigOK(z)'
  BY DEF ConfigOK, TypeOK
<1>4. \A z \in Servers : TransportOK(z)'
  BY DEF TransportOK, RunningAt, TypeOK
<1>5. \A z \in Servers : DrainOK(z)'
  BY DEF DrainOK, TransportOK, RunningAt, TypeOK
<1>6. HonestExit'
  BY DEF HonestExit, DrainOK, RunningAt, TypeOK
<1>7. QED
  BY <1>1, <1>2, <1>3, <1>4, <1>5, <1>6

LEMMA DrainedKeeps == ASSUME NEW s \in Servers, IInv, Drained(s) PROVE IInv'
<1> USE ConstantsAssumption DEF IInv, Drained, Go, directory, startup, serving,
        Writers, Starting, Serving, Leaving, Configuring, Stopping
<1>1. TypeOK'
  BY DEF TypeOK
<1>2. LockOK'
  BY DEF LockOK, TypeOK
<1>3. \A z \in Servers : ConfigOK(z)'
  BY DEF ConfigOK, TypeOK
<1>4. \A z \in Servers : TransportOK(z)'
  BY DEF TransportOK, RunningAt, TypeOK
<1>5. \A z \in Servers : DrainOK(z)'
  BY DEF DrainOK, TransportOK, RunningAt, TypeOK
<1>6. HonestExit'
  BY DEF HonestExit, DrainOK, RunningAt, TypeOK
<1>7. QED
  BY <1>1, <1>2, <1>3, <1>4, <1>5, <1>6

LEMMA DrainExpiresKeeps == ASSUME NEW s \in Servers, IInv, DrainExpires(s) PROVE IInv'
<1> USE ConstantsAssumption DEF IInv, DrainExpires, Go, directory, startup, serving,
        Writers, Starting, Serving, Leaving, Configuring, Stopping
<1>1. TypeOK'
  BY DEF TypeOK
<1>2. LockOK'
  BY DEF LockOK, TypeOK
<1>3. \A z \in Servers : ConfigOK(z)'
  BY DEF ConfigOK, TypeOK
<1>4. \A z \in Servers : TransportOK(z)'
  BY DEF TransportOK, RunningAt, TypeOK
<1>5. \A z \in Servers : DrainOK(z)'
  BY DEF DrainOK, TransportOK, RunningAt, TypeOK
<1>6. HonestExit'
  BY DEF HonestExit, DrainOK, RunningAt, TypeOK
<1>7. QED
  BY <1>1, <1>2, <1>3, <1>4, <1>5, <1>6

LEMMA FirstSignalSeenKeeps == ASSUME NEW s \in Servers, IInv, FirstSignalSeen(s) PROVE IInv'
<1> USE ConstantsAssumption DEF IInv, FirstSignalSeen, Go, directory, startup, serving,
        Writers, Starting, Serving, Leaving, Configuring, Stopping
<1>1. TypeOK'
  BY DEF TypeOK
<1>2. LockOK'
  BY DEF LockOK, TypeOK
<1>3. \A z \in Servers : ConfigOK(z)'
  BY DEF ConfigOK, TypeOK
<1>4. \A z \in Servers : TransportOK(z)'
  BY DEF TransportOK, RunningAt, TypeOK
<1>5. \A z \in Servers : DrainOK(z)'
  BY DEF DrainOK, TransportOK, RunningAt, TypeOK
<1>6. HonestExit'
  BY DEF HonestExit, DrainOK, RunningAt, TypeOK
<1>7. QED
  BY <1>1, <1>2, <1>3, <1>4, <1>5, <1>6

LEMMA GoneKeeps ==
  ASSUME NEW s \in Servers, IInv, pc' = [pc EXCEPT ![s] = "off"], Gone(s) PROVE IInv'
<1> USE ConstantsAssumption DEF IInv, Gone, directory, startup, serving,
        Writers, Starting, Serving, Leaving, Configuring, Stopping
<1>1. TypeOK'
  <2>1. NoConfig(s) \in Configs
    BY DEF Configs, NoConfig
  <2>2. lock' \in Servers \cup {None} /\ at' \in [Requests -> Servers \cup {None}]
    BY DEF TypeOK
  <2>3. built' \in [Writers -> Configs] /\ conf' \in [Servers -> Configs]
    BY <2>1 DEF TypeOK
  <2>4. /\ disturbed' \in [Servers -> BOOLEAN] /\ stdio' \in [Servers -> BOOLEAN]
        /\ caught' \in [Servers -> BOOLEAN] /\ asked' \in [Servers -> BOOLEAN]
        /\ session' \in [Servers -> BOOLEAN]
    BY DEF TypeOK
  <2>5. QED
    BY <2>2, <2>3, <2>4 DEF TypeOK
<1>2. LockOK'
  BY DEF LockOK, TypeOK
<1>3. \A z \in Servers : ConfigOK(z)'
  BY DEF ConfigOK, TypeOK
<1>4. \A z \in Servers : TransportOK(z)'
  BY DEF TransportOK, RunningAt, TypeOK
<1>5. \A z \in Servers : DrainOK(z)'
  BY DEF DrainOK, TransportOK, RunningAt, TypeOK
<1>6. HonestExit'
  BY DEF HonestExit, DrainOK, RunningAt, TypeOK
<1>7. QED
  BY <1>1, <1>2, <1>3, <1>4, <1>5, <1>6

LEMMA readyContextsKeeps == ASSUME NEW w \in Writers, IInv, readyContexts(w) PROVE IInv'
<1> USE ConstantsAssumption DEF IInv, readyContexts, Go, directory, startup, serving,
        Writers, Starting, Serving, Leaving, Configuring, Stopping
<1>1. TypeOK'
  BY DEF TypeOK, Configs, NoConfig, Loads
<1>2. LockOK'
  BY DEF LockOK, TypeOK
<1>3. \A z \in Servers : ConfigOK(z)'
  BY DEF ConfigOK, TypeOK
<1>4. \A z \in Servers : TransportOK(z)'
  BY DEF TransportOK, RunningAt, TypeOK
<1>5. \A z \in Servers : DrainOK(z)'
  BY DEF DrainOK, TransportOK, RunningAt, TypeOK
<1>6. HonestExit'
  BY DEF HonestExit, DrainOK, RunningAt, TypeOK
<1>7. QED
  BY <1>1, <1>2, <1>3, <1>4, <1>5, <1>6

LEMMA TruncateKeeps == ASSUME NEW w \in Writers, IInv, Truncate(w) PROVE IInv'
<1> USE ConstantsAssumption DEF IInv, Truncate, Disturb, Go, directory, startup, serving,
        Writers, Starting, Serving, Leaving, Configuring, Stopping
<1>1. TypeOK'
  BY DEF TypeOK
<1>2. LockOK'
  BY DEF LockOK, TypeOK
<1>3. \A z \in Servers : ConfigOK(z)'
  BY DEF ConfigOK, TypeOK
<1>4. \A z \in Servers : TransportOK(z)'
  BY DEF TransportOK, RunningAt, TypeOK
<1>5. \A z \in Servers : DrainOK(z)'
  BY DEF DrainOK, TransportOK, RunningAt, TypeOK
<1>6. HonestExit'
  BY DEF HonestExit, DrainOK, RunningAt, TypeOK
<1>7. QED
  BY <1>1, <1>2, <1>3, <1>4, <1>5, <1>6

LEMMA WriteFileKeeps == ASSUME NEW w \in Writers, IInv, WriteFile(w) PROVE IInv'
<1> USE ConstantsAssumption DEF IInv, WriteFile, Disturb, Go, directory, startup, serving,
        Writers, Starting, Serving, Leaving, Configuring, Stopping
<1>1. TypeOK'
  BY DEF TypeOK
<1>2. LockOK'
  BY DEF LockOK, TypeOK
<1>3. \A z \in Servers : ConfigOK(z)'
  <2>1. pc[w] = "write" /\ pc' = [pc EXCEPT ![w] = "load"]
    OBVIOUS
  <2>2. ASSUME NEW z \in Servers, pc[z] = "load", z # w PROVE disturbed'[z]
    BY <2>2 DEF TypeOK
  <2>3. ASSUME NEW z \in Servers, pc[z] = "write", z # w PROVE disturbed'[z]
    BY <2>3 DEF TypeOK
  <2>4. ASSUME w \in Servers, ~disturbed[w] PROVE file' = {built[w]}
    BY <2>4 DEF ConfigOK
  <2>5. \A z \in Servers : disturbed[z] => disturbed'[z]
    BY DEF TypeOK
  <2>6. QED
    BY <2>1, <2>2, <2>3, <2>4, <2>5 DEF ConfigOK, TypeOK
<1>4. \A z \in Servers : TransportOK(z)'
  BY DEF TransportOK, RunningAt, TypeOK
<1>5. \A z \in Servers : DrainOK(z)'
  BY DEF DrainOK, TransportOK, RunningAt, TypeOK
<1>6. HonestExit'
  BY DEF HonestExit, DrainOK, RunningAt, TypeOK
<1>7. QED
  BY <1>1, <1>2, <1>3, <1>4, <1>5, <1>6

LEMMA DiagnoseKeeps == ASSUME NEW d \in Doctors, IInv, Diagnose(d) PROVE IInv'
<1> USE ConstantsAssumption DEF IInv, Diagnose, Go, directory, startup, serving,
        Writers, Starting, Serving, Leaving, Configuring, Stopping
<1>1. TypeOK'
  BY DEF TypeOK
<1>2. LockOK'
  BY DEF LockOK, TypeOK
<1>3. \A z \in Servers : ConfigOK(z)'
  BY DEF ConfigOK, TypeOK
<1>4. \A z \in Servers : TransportOK(z)'
  BY DEF TransportOK, RunningAt, TypeOK
<1>5. \A z \in Servers : DrainOK(z)'
  BY DEF DrainOK, TransportOK, RunningAt, TypeOK
<1>6. HonestExit'
  BY DEF HonestExit, DrainOK, RunningAt, TypeOK
<1>7. QED
  BY <1>1, <1>2, <1>3, <1>4, <1>5, <1>6

LEMMA DoctorEndsKeeps == ASSUME NEW d \in Doctors, IInv, DoctorEnds(d) PROVE IInv'
<1> USE ConstantsAssumption DEF IInv, DoctorEnds, NoConfig, Go, directory, startup, serving,
        Writers, Starting, Serving, Leaving, Configuring, Stopping
<1>1. TypeOK'
  BY DEF TypeOK, Configs, NoConfig, Loads
<1>2. LockOK'
  BY DEF LockOK, TypeOK
<1>3. \A z \in Servers : ConfigOK(z)'
  BY DEF ConfigOK, TypeOK
<1>4. \A z \in Servers : TransportOK(z)'
  BY DEF TransportOK, RunningAt, TypeOK
<1>5. \A z \in Servers : DrainOK(z)'
  BY DEF DrainOK, TransportOK, RunningAt, TypeOK
<1>6. HonestExit'
  BY DEF HonestExit, DrainOK, RunningAt, TypeOK
<1>7. QED
  BY <1>1, <1>2, <1>3, <1>4, <1>5, <1>6

LEMMA RequestKeeps ==
  ASSUME NEW q \in Requests, IInv,
         Trace(q) \/ Answer(q) \/ \E s \in Servers : Arrive(q, s)
  PROVE  IInv'
<1> USE ConstantsAssumption DEF IInv, Trace, Answer, Arrive, directory, startup, serving,
        Writers, Starting, Serving, Leaving, Configuring, Stopping
<1>1. TypeOK'
  <2>1. session' \in [Servers -> BOOLEAN]
    <3>1. session \in [Servers -> BOOLEAN]
      BY DEF TypeOK
    <3>2. session' = session \/ session' = [session EXCEPT ![at[q]] = TRUE]
      OBVIOUS
    <3>3. QED
      BY <3>1, <3>2
  <2>2. at' \in [Requests -> Servers \cup {None}]
    BY DEF TypeOK
  <2>3. QED
    BY <2>1, <2>2 DEF TypeOK
<1>2. LockOK'
  BY DEF LockOK, TypeOK
<1>3. \A z \in Servers : ConfigOK(z)'
  BY DEF ConfigOK, TypeOK
<1>4. \A z \in Servers : TransportOK(z)'
  BY DEF TransportOK, RunningAt, TypeOK
<1>5. \A z \in Servers : DrainOK(z)'
  BY DEF DrainOK, TransportOK, RunningAt, TypeOK
<1>6. HonestExit'
  BY DEF HonestExit, TransportOK, DrainOK, RunningAt, TypeOK
<1>7. QED
  BY <1>1, <1>2, <1>3, <1>4, <1>5, <1>6

LEMMA BuildKeeps == ASSUME IInv, NEW c \in Contexts, Build(c) PROVE IInv'
<1> USE ConstantsAssumption DEF IInv, Build, directory, startup, serving,
        Writers, Starting, Serving, Leaving, Configuring, Stopping
<1>1. TypeOK'
  BY DEF TypeOK
<1>2. LockOK'
  BY DEF LockOK, TypeOK
<1>3. \A z \in Servers : ConfigOK(z)'
  BY DEF ConfigOK, TypeOK
<1>4. \A z \in Servers : TransportOK(z)'
  BY DEF TransportOK, RunningAt, TypeOK
<1>5. \A z \in Servers : DrainOK(z)'
  BY DEF DrainOK, TransportOK, RunningAt, TypeOK
<1>6. HonestExit'
  BY DEF HonestExit, DrainOK, RunningAt, TypeOK
<1>7. QED
  BY <1>1, <1>2, <1>3, <1>4, <1>5, <1>6

LEMMA TakeApartKeeps == ASSUME IInv, NEW m \in Commands, NEW c \in Contexts,
         TakeApart(m, c) PROVE IInv'
<1> USE ConstantsAssumption DEF IInv, TakeApart, directory, startup, serving,
        Writers, Starting, Serving, Leaving, Configuring, Stopping
<1>1. TypeOK'
  BY DEF TypeOK
<1>2. LockOK'
  BY DEF LockOK, TypeOK
<1>3. \A z \in Servers : ConfigOK(z)'
  BY DEF ConfigOK, LockOK, TypeOK
<1>4. \A z \in Servers : TransportOK(z)'
  BY DEF TransportOK, RunningAt, TypeOK
<1>5. \A z \in Servers : DrainOK(z)'
  BY DEF DrainOK, TransportOK, RunningAt, TypeOK
<1>6. HonestExit'
  BY DEF HonestExit, DrainOK, RunningAt, TypeOK
<1>7. QED
  BY <1>1, <1>2, <1>3, <1>4, <1>5, <1>6

LEMMA ManagementLockKeeps == ASSUME IInv, NEW m \in Commands,
         holdManagementLock(m) \/ ReleaseManagementLock(m) PROVE IInv'
<1> USE ConstantsAssumption DEF IInv, holdManagementLock, ReleaseManagementLock, directory,
    startup, serving,
        Writers, Starting, Serving, Leaving, Configuring, Stopping
<1>1. TypeOK'
  BY DEF TypeOK
<1>2. LockOK'
  BY DEF LockOK, TypeOK
<1>3. \A z \in Servers : ConfigOK(z)'
  BY DEF ConfigOK, TypeOK
<1>4. \A z \in Servers : TransportOK(z)'
  BY DEF TransportOK, RunningAt, TypeOK
<1>5. \A z \in Servers : DrainOK(z)'
  BY DEF DrainOK, TransportOK, RunningAt, TypeOK
<1>6. HonestExit'
  BY DEF HonestExit, DrainOK, RunningAt, TypeOK
<1>7. QED
  BY <1>1, <1>2, <1>3, <1>4, <1>5, <1>6

\* A signal that is not caught ends the process; one that is asks it to stop.
LEMMA SignalKeeps == ASSUME NEW s \in Servers, IInv, Signal(s) PROVE IInv'
<1>1. CASE pc' = [pc EXCEPT ![s] = "off"] /\ Gone(s)
  BY <1>1, GoneKeeps
<1>2. CASE /\ pc[s] # "off" /\ caught[s] /\ asked' = [asked EXCEPT ![s] = TRUE]
           /\ UNCHANGED <<directory, pc, startup, stdio, caught, listener, watcher, err, exit,
                          session, at>>
  <2> USE <1>2 DEF IInv, directory, startup
  <2>1. TypeOK'
    BY DEF TypeOK
  <2>2. LockOK' /\ \A z \in Servers : ConfigOK(z)'
    BY DEF LockOK, ConfigOK
  <2>3. \A z \in Servers : TransportOK(z)' /\ DrainOK(z)'
    BY DEF TransportOK, DrainOK, RunningAt, TypeOK
  <2>4. HonestExit'
    BY DEF HonestExit, RunningAt, TypeOK
  <2>5. QED
    BY <2>1, <2>2, <2>3, <2>4
<1>3. QED
  BY <1>1, <1>2 DEF Signal

LEMMA InitOK == Init => IInv
<1> SUFFICES ASSUME Init PROVE IInv
  OBVIOUS
<1> USE ConstantsAssumption DEF Init, Writers, Starting, Serving, Leaving, Stopping
<1>1. TypeOK
  <2>1. \A w \in Writers : NoConfig(w) \in Configs
    BY DEF Configs, NoConfig
  <2>2. built \in [Writers -> Configs] /\ conf \in [Servers -> Configs]
    BY <2>1
  <2>3. /\ disturbed \in [Servers -> BOOLEAN] /\ stdio \in [Servers -> BOOLEAN]
        /\ caught \in [Servers -> BOOLEAN] /\ asked \in [Servers -> BOOLEAN]
        /\ session \in [Servers -> BOOLEAN]
    OBVIOUS
  <2>4. QED
    BY <2>2, <2>3 DEF TypeOK
<1>2. LockOK /\ HonestExit
  BY DEF LockOK, HonestExit
<1>3. \A s \in Servers : ConfigOK(s) /\ TransportOK(s) /\ DrainOK(s)
  BY DEF ConfigOK, TransportOK, DrainOK, RunningAt
<1>4. QED
  BY <1>1, <1>2, <1>3 DEF IInv

LEMMA StepInv == IInv /\ [Next]_vars => IInv'
<1> SUFFICES ASSUME IInv, [Next]_vars PROVE IInv'
  OBVIOUS
<1>1. CASE UNCHANGED vars
  BY <1>1 DEF vars, directory, startup, serving, IInv, TypeOK, LockOK, HonestExit,
    ConfigOK, TransportOK, DrainOK, RunningAt
<1>2. ASSUME NEW s \in Servers,
             \/ Start(s) \/ HoldServerLock(s) \/ LoadConfig(s) \/ ConfigFails(s)
             \/ commandContext(s) \/ ListenerFails(s) \/ Server(s) \/ Watcher(s)
             \/ DrainExpires(s) \/ Signal(s) \/ FirstSignalSeen(s)
      PROVE  IInv'
  BY <1>2, StartKeeps, HoldServerLockKeeps, LoadConfigKeeps, ConfigFailsKeeps,
    commandContextKeeps, ListenAndServeKeeps, ListenerFailsKeeps, ErrServerClosedKeeps,
    DrainReturnsKeeps, StdioReturnsKeeps, CloseEngineKeeps, StopSignalsKeeps,
    ReleaseServerLockKeeps, WatcherWakesKeeps, DrainedKeeps, DrainExpiresKeeps,
    FirstSignalSeenKeeps, SignalKeeps, GoneKeeps DEF Server, Watcher, Exit, Go
<1>3. ASSUME NEW w \in Writers, readyContexts(w) \/ Truncate(w) \/ WriteFile(w)
      PROVE  IInv'
  BY <1>3, readyContextsKeeps, TruncateKeeps, WriteFileKeeps
<1>4. ASSUME NEW d \in Doctors, Diagnose(d) \/ DoctorEnds(d)
      PROVE  IInv'
  BY <1>4, DiagnoseKeeps, DoctorEndsKeeps
<1>5. ASSUME NEW q \in Requests, Trace(q) \/ Answer(q) \/ \E s \in Servers : Arrive(q, s)
      PROVE  IInv'
  BY <1>5, RequestKeeps
<1>6. ASSUME NEW c \in Contexts, Build(c) \/ \E m \in Commands : TakeApart(m, c)
      PROVE  IInv'
  BY <1>6, BuildKeeps, TakeApartKeeps
<1>7. ASSUME NEW m \in Commands, holdManagementLock(m) \/ ReleaseManagementLock(m)
      PROVE  IInv'
  BY <1>7, ManagementLockKeeps
<1>8. QED
  BY <1>1, <1>2, <1>3, <1>4, <1>5, <1>6, <1>7 DEF Next

LEMMA Invariance == Spec => []IInv
  BY InitOK, StepInv, PTL DEF Spec

\* Every reachable state is well typed.
THEOREM TypeCorrect == Spec => []TypeOK
<1>1. IInv => TypeOK
  BY DEF IInv
<1>2. QED
  BY <1>1, Invariance, PTL

\* However many servers start and stop beside however many commands, a server
\* serves contexts that are READY, with its own flags, unless another process
\* wrote the file it was about to load (managed.go, managedConfig).
THEOREM ServedReady == Spec => []ServesReady
<1>1. IInv => ServesReady
  BY DEF IInv, ConfigOK, ServesReady
<1>2. QED
  BY <1>1, Invariance, PTL

\* A server that says it stopped as asked was asked, and every request it had
\* read was answered (server.go, ServeHTTPContext).
THEOREM ExitsHonestly == Spec => []HonestExit
<1>1. IInv => HonestExit
  BY DEF IInv
<1>2. QED
  BY <1>1, Invariance, PTL

\* The lock covers the session: it outlives the lock of its server only over
\* STDIO, or when requests had to be cut off (main.go, the deferred calls of serve).
THEOREM LockCoversSession == Spec => []SessionCovered
<1>1. IInv => SessionCovered
  <2> SUFFICES ASSUME IInv, NEW s \in Servers, session[s],
                      ~stdio[s], err[s] \notin {"deadline", "listener"}
               PROVE  lock = s
    BY DEF SessionCovered
  <2>1. pc[s] \in Serving \cup Leaving
    BY DEF IInv, TransportOK
  <2>2. err[s] = None
    BY DEF IInv, TypeOK, TransportOK
  <2>3. pc[s] \notin Stopping
    BY <2>2 DEF IInv, DrainOK
  <2>4. QED
    BY <2>1, <2>3 DEF IInv, LockOK, Serving, Leaving, Stopping
<1>2. QED
  BY <1>1, Invariance, PTL
==============================================================================
