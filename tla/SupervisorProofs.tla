--------------------------- MODULE SupervisorProofs ---------------------------
(***************************************************************************)
(* The safety properties of Supervisor for every number of interrupts:     *)
(* an inductive invariant that follows the client's end through the        *)
(* cleanup, and the properties that follow from it.                        *)
(***************************************************************************)
EXTENDS Supervisor, TLAPS

\* Before the cleanup nothing was signalled and no result is known.
BeforeCleanup ==
    at \in {"starting", "spawning", "running"} =>
        /\ outcome = "none" /\ signals = {} /\ socket = "open"

\* The end of the client is known in this order: it has ended, the event loop
\* has noticed, the task that waits for it is done.
ClientFacts ==
    /\ client = "none" => childWait = "none"
    /\ returncode => client = "ended"
    /\ childWait = "done" => returncode
    /\ at \in {"starting", "spawning"} => client = "none"

\* Behind the termination, the client is gone or was given up.
ClientLetGo ==
    at \in {"reaping", "stopping", "cancelling", "done"} =>
        client # "running" \/ abandoned

\* The socket is open up to the last step.
SocketFacts == socket = "closed" <=> at = "done"

\* The supervisor waits for the server to the end, unless it is interrupted.
ServerFacts ==
    /\ Over(server) => Over(uvicorn)
    /\ at = "done" => Over(server) \/ interrupts > 0

SupervisorInvariant ==
    /\ SupervisorTypeOK
    /\ BeforeCleanup
    /\ ClientFacts
    /\ ClientLetGo
    /\ SocketFacts
    /\ ServerFacts


LEMMA InitEstablishes == Init => SupervisorInvariant
<1> SUFFICES ASSUME Init PROVE SupervisorInvariant
  OBVIOUS
<1>1. SupervisorTypes /\ ProcessTypes
  BY DEF Init, SupervisorTypes, ProcessTypes, Awaits, Outcome
<1>2. RequestTypes
  BY SupervisorAssumption DEF Init, RequestTypes
<1>3. BeforeCleanup /\ ClientFacts /\ ClientLetGo /\ SocketFacts /\ ServerFacts
  BY DEF Init, BeforeCleanup, ClientFacts, ClientLetGo, SocketFacts, ServerFacts, Over
<1> QED BY <1>1, <1>2, <1>3 DEF SupervisorInvariant, SupervisorTypeOK

\* The cleanup of a launch keeps the invariant from the place it is entered:
\* the client has not ended, or it is known to have ended.
LEMMA CleanupPreserves ==
  ASSUME SupervisorInvariant, NEW result \in Outcome, Cleanup(result),
         at \in {"starting", "spawning", "running"},
         interrupts' \in 0..MaxInterrupts, interrupts' >= interrupts,
         abandoned' = abandoned, cancelled' \subseteq {"server", "uvicorn"}, Others
  PROVE  SupervisorInvariant'
<1> USE DEF SupervisorInvariant, SupervisorTypeOK, Others, tasks, processes
<1>1. SupervisorTypes'
  BY DEF SupervisorTypes, Cleanup, Release, StopServer, Close, Awaits
<1>2. ProcessTypes'
  BY DEF ProcessTypes
<1>3. RequestTypes'
  BY DEF Cleanup, Release, StopServer, Close, RequestTypes
<1>4. BeforeCleanup' /\ ClientFacts' /\ ClientLetGo'
  BY DEF Cleanup, Release, StopServer, Close, BeforeCleanup, ClientFacts, ClientLetGo
<1>5. SocketFacts' /\ ServerFacts'
  BY DEF Cleanup, Release, StopServer, Close, BeforeCleanup, SocketFacts, ServerFacts, Over
<1> QED BY <1>1, <1>2, <1>3, <1>4, <1>5

\* So does what follows the termination, when the client is gone or given up.
LEMMA ReleasePreserves ==
  ASSUME SupervisorInvariant, NEW result \in Outcome, Release(result),
         at \in {"terminating", "killing"},
         abandoned' \in BOOLEAN, client # "running" \/ abandoned',
         interrupts' \in 0..MaxInterrupts, interrupts' >= interrupts,
         signals' = signals, cancelled' \subseteq {"server", "uvicorn"}, Others
  PROVE  SupervisorInvariant'
<1> USE DEF SupervisorInvariant, SupervisorTypeOK, Others, tasks, processes
<1>1. SupervisorTypes'
  BY DEF SupervisorTypes, Release, StopServer, Close, Awaits
<1>2. ProcessTypes'
  BY DEF ProcessTypes
<1>3. RequestTypes'
  BY DEF RequestTypes
<1>4. BeforeCleanup' /\ ClientFacts' /\ ClientLetGo'
  BY DEF Release, StopServer, Close, BeforeCleanup, ClientFacts, ClientLetGo
<1>5. SocketFacts' /\ ServerFacts'
  BY DEF Release, StopServer, Close, SocketFacts, ServerFacts, Over
<1> QED BY <1>1, <1>2, <1>3, <1>4, <1>5

\* And what follows the last await on the client.
LEMMA StopPreserves ==
  ASSUME SupervisorInvariant, NEW result \in Outcome,
         \/ at = "reaping" /\ StopServer(result)
         \/ /\ at \in {"stopping", "cancelling"}
            /\ Over(server) \/ interrupts' > 0
            /\ Close(result) /\ stop' = stop,
         interrupts' \in 0..MaxInterrupts, interrupts' >= interrupts,
         UNCHANGED <<abandoned, childWait, signals>>,
         cancelled' \subseteq {"server", "uvicorn"}, Others
  PROVE  SupervisorInvariant'
<1> USE DEF SupervisorInvariant, SupervisorTypeOK, Others, tasks, processes
<1>1. SupervisorTypes'
  BY DEF SupervisorTypes, StopServer, Close, Awaits
<1>2. ProcessTypes'
  BY DEF ProcessTypes
<1>3. RequestTypes'
  BY DEF RequestTypes
<1>4. BeforeCleanup' /\ ClientFacts' /\ ClientLetGo'
  BY DEF StopServer, Close, BeforeCleanup, ClientFacts, ClientLetGo
<1>5. SocketFacts' /\ ServerFacts'
  BY DEF StopServer, Close, SocketFacts, ServerFacts, Over
<1> QED BY <1>1, <1>2, <1>3, <1>4, <1>5

\* A step of the supervisor that only goes on to its next await.
LEMMA AwaitPreserves ==
  ASSUME SupervisorInvariant, Others,
         UNCHANGED <<interrupts, abandoned, outcome, stop, childWait, socket>>,
         signals' \in SUBSET {"SIGTERM", "SIGKILL"}, cancelled' \in SUBSET {"server", "uvicorn"},
         \/ at = "starting" /\ at' = "spawning" /\ signals' = signals
         \/ at = "terminating" /\ at' = "killing"
         \/ at = "stopping" /\ at' = "cancelling"
  PROVE  SupervisorInvariant'
<1> USE DEF SupervisorInvariant, SupervisorTypeOK, Others, tasks, processes
<1>1. SupervisorTypes'
  BY DEF SupervisorTypes, Awaits
<1>2. ProcessTypes' /\ RequestTypes'
  BY DEF ProcessTypes, RequestTypes
<1>3. BeforeCleanup' /\ ClientFacts' /\ ClientLetGo'
  BY DEF BeforeCleanup, ClientFacts, ClientLetGo
<1>4. SocketFacts' /\ ServerFacts'
  BY DEF SocketFacts, ServerFacts, Over
<1> QED BY <1>1, <1>2, <1>3, <1>4

\* What the lemmas on the cleanup need of the variables that a step leaves alone.
LEMMA Bounds ==
  ASSUME SupervisorInvariant
  PROVE  /\ interrupts \in 0..MaxInterrupts /\ interrupts >= interrupts
         /\ abandoned \in BOOLEAN /\ outcome \in Outcome
         /\ cancelled \subseteq {"server", "uvicorn"}
         /\ signals \subseteq {"SIGTERM", "SIGKILL"}
<1>1. interrupts \in 0..MaxInterrupts
  BY DEF SupervisorInvariant, SupervisorTypeOK, RequestTypes
<1>2. interrupts >= interrupts
  BY <1>1
<1> QED BY <1>1, <1>2 DEF SupervisorInvariant, SupervisorTypeOK, SupervisorTypes, RequestTypes

LEMMA SpawnPreserves ==
  ASSUME SupervisorInvariant, Spawn, client' = "running"
  PROVE  SupervisorInvariant'
<1> USE DEF SupervisorInvariant, SupervisorTypeOK, tasks
<1>1. /\ childWait' = "pending" /\ at' = "running" /\ at = "spawning"
      /\ UNCHANGED <<outcome, stop, signals, socket, interrupts, abandoned,
                     cancelled, tasks, descendant, returncode>>
  BY DEF Spawn, ClientFacts
<1>2. SupervisorTypes'
  BY <1>1 DEF SupervisorTypes, Awaits
<1>3. ProcessTypes' /\ RequestTypes'
  BY <1>1 DEF ProcessTypes, RequestTypes
<1>4. BeforeCleanup' /\ ClientFacts' /\ ClientLetGo'
  BY <1>1 DEF BeforeCleanup, ClientFacts, ClientLetGo
<1>5. SocketFacts' /\ ServerFacts'
  BY <1>1 DEF SocketFacts, ServerFacts, Over
<1> QED BY <1>2, <1>3, <1>4, <1>5

LEMMA SupervisePreserves ==
  ASSUME SupervisorInvariant, Supervise
  PROVE  SupervisorInvariant'
<1>1. CASE ServerStarted
  <2>1. CASE Cleanup("startup")
    BY <1>1, <2>1, CleanupPreserves, Bounds DEF ServerStarted, Outcome
  <2>2. CASE ~Cleanup("startup")
    BY <1>1, <2>2, AwaitPreserves, Bounds DEF ServerStarted
  <2> QED BY <2>1, <2>2
<1>2. CASE StartupTimeout
  BY <1>2, CleanupPreserves, Bounds DEF StartupTimeout, Outcome
<1>3. CASE Spawn
  <2>1. CASE client' = "running"
    BY <1>3, <2>1, SpawnPreserves
  <2>2. CASE client' # "running"
    BY <1>3, <2>2, CleanupPreserves, Bounds DEF Spawn, Outcome, Others, processes, tasks
  <2> QED BY <2>1, <2>2
<1>4. CASE WaitEnds
  BY <1>4, CleanupPreserves, Bounds DEF WaitEnds, Outcome
<1>5. CASE Terminated
  <2>1. client # "running"
    BY <1>5 DEF Terminated, SupervisorInvariant, ClientFacts
  <2> QED BY <1>5, <2>1, ReleasePreserves, Bounds DEF Terminated
<1>6. CASE TerminateTimeout
  BY <1>6, AwaitPreserves, Bounds DEF TerminateTimeout
<1>7. CASE KillFails
  BY <1>7, ReleasePreserves, Bounds DEF KillFails, Outcome
<1>8. CASE Reaped
  BY <1>8, StopPreserves, Bounds DEF Reaped
<1>9. CASE StopTimeout
  BY <1>9, AwaitPreserves, Bounds DEF StopTimeout
<1>10. CASE ServerStopped
  <2>1. PICK result \in Outcome : Close(result)
    BY <1>10, Bounds DEF ServerStopped, Outcome
  <2> QED BY <1>10, <2>1, StopPreserves, Bounds DEF ServerStopped
<1> QED BY <1>1, <1>2, <1>3, <1>4, <1>5, <1>6, <1>7, <1>8, <1>9, <1>10 DEF Supervise

LEMMA InterruptPreserves ==
  ASSUME SupervisorInvariant, Interrupt
  PROVE  SupervisorInvariant'
<1>1. /\ interrupts' \in 0..MaxInterrupts /\ interrupts' > 0 /\ interrupts' >= interrupts
  BY Bounds, SupervisorAssumption DEF Interrupt
<1>2. cancelled' \subseteq {"server", "uvicorn"} /\ Others
  BY Bounds DEF Interrupt
<1>3. CASE InterruptLaunch
  BY <1>1, <1>2, <1>3, CleanupPreserves DEF InterruptLaunch, Outcome
<1>4. CASE InterruptTermination
  <2>1. client # "running" \/ abandoned'
    BY <1>4 DEF InterruptTermination, SupervisorInvariant, ClientFacts
  <2>2. abandoned' \in BOOLEAN
    BY <1>4 DEF InterruptTermination
  <2> QED BY <1>1, <1>2, <1>4, <2>1, <2>2, ReleasePreserves DEF InterruptTermination, Outcome
<1>5. CASE InterruptReaping
  BY <1>1, <1>2, <1>5, StopPreserves, Bounds DEF InterruptReaping
<1>6. CASE InterruptStop
  BY <1>1, <1>2, <1>6, StopPreserves DEF InterruptStop, Outcome
<1> QED BY <1>3, <1>4, <1>5, <1>6 DEF Interrupt

\* A step of the event loop, of the server or of the processes: the supervisor
\* stays where it is, and nobody starts again.
LEMMA OthersPreserve ==
  ASSUME SupervisorInvariant,
         UNCHANGED <<at, outcome, interrupts, abandoned, stop, signals, socket>>,
         ProcessTypes', cancelled' \subseteq {"server", "uvicorn"},
         childWait' = childWait \/ childWait' = "done",
         ClientFacts', client' = "running" => client = "running",
         Over(server) => Over(server'), Over(server') => Over(uvicorn')
  PROVE  SupervisorInvariant'
<1> USE DEF SupervisorInvariant, SupervisorTypeOK
<1>1. SupervisorTypes' /\ RequestTypes'
  BY DEF SupervisorTypes, RequestTypes
<1>2. BeforeCleanup' /\ ClientLetGo' /\ SocketFacts'
  BY DEF BeforeCleanup, ClientLetGo, SocketFacts
<1>3. ServerFacts'
  BY DEF ServerFacts, Over
<1> QED BY <1>1, <1>2, <1>3

LEMMA LoopPreserves ==
  ASSUME SupervisorInvariant, LoopCloses \/ ClientNoticed
  PROVE  SupervisorInvariant'
<1> USE DEF SupervisorInvariant, SupervisorTypeOK, ProcessTypes, RequestTypes, ClientFacts,
            supervisor, tasks, processes, Over, ServerFacts
<1>1. CASE LoopCloses
  BY <1>1, OthersPreserve DEF LoopCloses, Others
<1>2. CASE ClientNoticed
  BY <1>2, OthersPreserve DEF ClientNoticed
<1> QED BY <1>1, <1>2

LEMMA ServePreserves ==
  ASSUME SupervisorInvariant, ServeTask \/ UvicornReady \/ UvicornEnds
  PROVE  SupervisorInvariant'
<1> USE DEF SupervisorInvariant, SupervisorTypeOK, ProcessTypes, RequestTypes, ClientFacts,
            supervisor, processes, Over, ServerFacts
<1>1. CASE ServerWakes
  BY <1>1, OthersPreserve DEF ServerWakes
<1>2. CASE ServerJoins
  BY <1>2, OthersPreserve DEF ServerJoins
<1>3. CASE ServerCancelled
  BY <1>3, OthersPreserve DEF ServerCancelled
<1>4. CASE ServerLeaves
  BY <1>4, OthersPreserve DEF ServerLeaves
<1>5. CASE UvicornReady
  BY <1>5, OthersPreserve DEF UvicornReady
<1>6. CASE UvicornEnds
  BY <1>6, OthersPreserve DEF UvicornEnds
<1> QED BY <1>1, <1>2, <1>3, <1>4, <1>5, <1>6 DEF ServeTask

LEMMA ProcessesPreserve ==
  ASSUME SupervisorInvariant, ClientForks \/ ClientEnds \/ DescendantEnds
  PROVE  SupervisorInvariant'
<1> USE DEF SupervisorInvariant, SupervisorTypeOK, ProcessTypes, RequestTypes, ClientFacts,
            supervisor, tasks, Over, ServerFacts
<1>1. CASE ClientForks
  BY <1>1, OthersPreserve DEF ClientForks
<1>2. CASE ClientEnds
  BY <1>2, OthersPreserve DEF ClientEnds
<1>3. CASE DescendantEnds
  BY <1>3, OthersPreserve DEF DescendantEnds
<1> QED BY <1>1, <1>2, <1>3

LEMMA NextPreserves == SupervisorInvariant /\ [Next]_vars => SupervisorInvariant'
<1> SUFFICES ASSUME SupervisorInvariant, [Next]_vars
             PROVE  SupervisorInvariant'
  OBVIOUS
<1>1. CASE Supervise
  BY <1>1, SupervisePreserves
<1>2. CASE Interrupt
  BY <1>2, InterruptPreserves
<1>3. CASE LoopCloses \/ ServeTask \/ ClientNoticed \/ Environment
  BY <1>3, LoopPreserves, ServePreserves, ProcessesPreserve DEF Environment
<1>4. CASE UNCHANGED vars
  BY <1>4, OthersPreserve DEF vars, supervisor, tasks, processes, SupervisorInvariant,
     SupervisorTypeOK, ProcessTypes, RequestTypes, ClientFacts, ServerFacts, Over
<1> QED BY <1>1, <1>2, <1>3, <1>4 DEF Next

\* The inductive invariant holds in every reachable state.
THEOREM SupervisorInvariantHolds == Spec => []SupervisorInvariant
  BY InitEstablishes, NextPreserves, PTL DEF Spec

\* The variables of a launch keep their types.
THEOREM SupervisorTypeCorrect == Spec => []SupervisorTypeOK
<1>1. SupervisorInvariant => SupervisorTypeOK
  BY DEF SupervisorInvariant
<1> QED BY <1>1, SupervisorInvariantHolds, PTL

\* The port is held until the client is gone or given up (target.close is the
\* last statement of supervise_launch's cleanup).
THEOREM SocketIsHeld == Spec => []SocketOutlivesClient
<1>1. SupervisorInvariant => SocketOutlivesClient
  BY DEF SupervisorInvariant, ClientLetGo, SocketFacts, SocketOutlivesClient
<1> QED BY <1>1, SupervisorInvariantHolds, PTL

\* A launch that has ended holds no socket and, without an interrupt, no server.
THEOREM EndReleases == Spec => []ReleasedAtEnd
<1>1. SupervisorInvariant => ReleasedAtEnd
  BY DEF SupervisorInvariant, ServerFacts, SocketFacts, ReleasedAtEnd
<1> QED BY <1>1, SupervisorInvariantHolds, PTL

\* serve_uvicorn never ends before the server it started.
THEOREM ServersAreOwned == Spec => []NoServerOrphan
<1>1. SupervisorInvariant => NoServerOrphan
  BY DEF SupervisorInvariant, ServerFacts, NoServerOrphan
<1> QED BY <1>1, SupervisorInvariantHolds, PTL

\* An exit code is reported only for a client that ended of its own accord
\* under a proxy that was there.
THEOREM ExitCodesAreHonest == Spec => ExitMeansHealthy
<1> DEFINE Reports == outcome' = "exit" /\ outcome # "exit" =>
                        /\ signals = {} /\ ~Over(server) /\ client = "ended"
<1>1. SupervisorInvariant /\ [Next]_vars => Reports
  <2> SUFFICES ASSUME SupervisorInvariant, [Next]_vars,
                      outcome' = "exit", outcome # "exit"
               PROVE  /\ signals = {} /\ ~Over(server) /\ client = "ended"
    OBVIOUS
  <2>1. WaitEnds
    <3> USE DEF Cleanup, Release, StopServer, Close
    <3>1. CASE Supervise
      BY <3>1 DEF Supervise, ServerStarted, StartupTimeout, Spawn, Terminated,
         TerminateTimeout, KillFails, Reaped, StopTimeout, ServerStopped
    <3>2. CASE Interrupt
      BY <3>2 DEF Interrupt, InterruptLaunch, InterruptTermination, InterruptReaping,
         InterruptStop
    <3>3. CASE UNCHANGED supervisor
      BY <3>3 DEF supervisor
    <3>4. CASE ClientNoticed
      BY <3>4 DEF ClientNoticed
    <3> QED
      BY <3>1, <3>2, <3>3, <3>4 DEF Next, vars, LoopCloses, ServeTask, ServerWakes,
         ServerJoins, ServerCancelled, ServerLeaves, Environment, UvicornReady,
         UvicornEnds, ClientForks, ClientEnds, DescendantEnds
  <2>2. at = "running" /\ ~Over(server) /\ childWait = "done"
    BY <2>1 DEF WaitEnds, Cleanup, Release, StopServer, Close
  <2> QED BY <2>2 DEF SupervisorInvariant, BeforeCleanup, ClientFacts
<1> QED BY <1>1, SupervisorInvariantHolds, PTL DEF Spec, ExitMeansHealthy
=============================================================================
