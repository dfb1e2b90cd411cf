------------------------------ MODULE Supervisor ------------------------------
(***************************************************************************)
(* One launch: supervise_launch (runtime/supervisor.py), the server task   *)
(* it starts (serve_uvicorn) and the group of processes it owns            *)
(* (runtime/processes.py).                                                 *)
(*                                                                         *)
(* The three tasks of the event loop take turns at their awaits, so the    *)
(* code between two awaits is one step.  The supervisor awaits             *)
(*                                                                         *)
(*   starting     the server to be ready, for startup_timeout              *)
(*   spawning     the client process                                       *)
(*   running      the end of the server or of the client                   *)
(*   terminating  the client after SIGTERM, for shutdown_timeout           *)
(*   killing      the client after SIGKILL, for as long again              *)
(*   reaping      the cancelled task that waits for the client             *)
(*   stopping     the server after stop was set, for shutdown_timeout      *)
(*   cancelling   the cancelled server                                     *)
(*                                                                         *)
(* The first interrupt (Ctrl-C) cancels the supervisor at the await it is  *)
(* at, the second one every task; a third would end the program itself.    *)
(* A timeout may end any bounded wait before what it waits for happens.    *)
(***************************************************************************)
EXTENDS Naturals

CONSTANT MaxInterrupts      \* bound: interrupts of one launch

ASSUME SupervisorAssumption == MaxInterrupts \in 0..2

VARIABLES
    at,             \* where the supervisor is
    outcome,        \* what it will return or raise
    interrupts,     \* interrupts delivered so far
    abandoned,      \* the cleanup of the client ended without its end
    server,         \* the task of serve_uvicorn
    uvicorn,        \* the task of the uvicorn server inside it
    stop,           \* the stop event
    cancelled,      \* tasks whose cancel() was called
    client,         \* the client process
    descendant,     \* a process the client has started in its group
    returncode,     \* the event loop has noticed the end of the client
    childWait,      \* the task that waits for the client
    signals,        \* signals sent to the group
    socket          \* the reserved loopback socket

supervisor == <<at, outcome, interrupts, abandoned, stop, childWait, signals, socket>>
tasks == <<server, uvicorn>>
processes == <<client, descendant, returncode>>
vars == <<supervisor, tasks, cancelled, processes>>

Awaits == {"starting", "spawning", "running", "terminating", "killing", "reaping",
           "stopping", "cancelling", "done"}
Outcome == {"none", "exit", "startup", "launch", "runtime", "server", "unstoppable", "interrupted"}

SupervisorTypes ==
    /\ at \in Awaits /\ outcome \in Outcome
    /\ abandoned \in BOOLEAN /\ stop \in BOOLEAN
    /\ childWait \in {"none", "pending", "done", "cancelled"}
    /\ socket \in {"open", "closed"}

ProcessTypes ==
    /\ server \in {"waiting", "joining", "leaving", "ended", "failed"}
    /\ uvicorn \in {"starting", "ready", "ended", "failed"}
    /\ client \in {"none", "running", "ended"}
    /\ descendant \in {"none", "running", "ended"}
    /\ returncode \in BOOLEAN

RequestTypes ==
    /\ interrupts \in 0..MaxInterrupts
    /\ cancelled \subseteq {"server", "uvicorn"}
    /\ signals \subseteq {"SIGTERM", "SIGKILL"}

\* Every variable of a launch holds what its declaration says.
SupervisorTypeOK == SupervisorTypes /\ ProcessTypes /\ RequestTypes

Init ==
    /\ at = "starting" /\ outcome = "none" /\ interrupts = 0 /\ abandoned = FALSE
    /\ server = "waiting" /\ uvicorn = "starting" /\ stop = FALSE /\ cancelled = {}
    /\ client = "none" /\ descendant = "none" /\ returncode = FALSE
    /\ childWait = "none" /\ signals = {} /\ socket = "open"

Over(task) == task \in {"ended", "failed"}

-----------------------------------------------------------------------------
(***************************************************************************)
(* The finally block of supervise_launch.  Each operator is the code from  *)
(* one place of it to the next await, for a launch that ends with result.  *)
(***************************************************************************)
Close(result) ==
    /\ at' = "done" /\ outcome' = result /\ socket' = "closed"

\* stop.set() and _stop_server up to its first await.
StopServer(result) ==
    /\ stop' = TRUE
    /\ \/ Over(server) /\ Close(result)
       \/ ~Over(server) /\ at' = "stopping" /\ outcome' = result /\ UNCHANGED socket

\* After the client was terminated, or was not there to be terminated.
Release(result) ==
    \/ /\ childWait = "pending"
       /\ childWait' = "cancelled"
       /\ at' = "reaping" /\ outcome' = result
       /\ UNCHANGED <<stop, socket>>
    \/ /\ childWait # "pending"
       /\ StopServer(result)
       /\ UNCHANGED childWait

\* A client whose end has not been noticed is asked to end first.
Cleanup(result) ==
    \/ /\ client # "none" /\ ~returncode
       /\ signals' = signals \cup {"SIGTERM"}
       /\ at' = "terminating" /\ outcome' = result
       /\ UNCHANGED <<stop, childWait, socket>>
    \/ /\ client = "none" \/ returncode
       /\ Release(result)
       /\ UNCHANGED signals

Others == UNCHANGED <<tasks, processes>>

-----------------------------------------------------------------------------
(***************************************************************************)
(* The supervisor.                                                         *)
(***************************************************************************)
\* _await_server_start returns; a server that has ended is a failure even if
\* it was ready.
ServerStarted ==
    /\ at = "starting"
    /\ \/ Over(server) /\ Cleanup("startup")
       \/ /\ ~Over(server) /\ uvicorn # "starting"
          /\ at' = "spawning"
          /\ UNCHANGED <<outcome, stop, childWait, signals, socket>>
    /\ UNCHANGED <<interrupts, abandoned, cancelled>> /\ Others

\* The timeout may fire when the ready event is set and its task has not run.
StartupTimeout ==
    /\ at = "starting" /\ ~Over(server)
    /\ Cleanup("startup")
    /\ UNCHANGED <<interrupts, abandoned, cancelled>> /\ Others

\* build_launch_spec and start_owned_process.
Spawn ==
    /\ at = "spawning"
    /\ \/ /\ client' = "running" /\ childWait' = "pending" /\ at' = "running"
          /\ UNCHANGED <<outcome, stop, signals, socket>>
       \/ Cleanup("launch") /\ UNCHANGED client
    /\ UNCHANGED <<interrupts, abandoned, cancelled, tasks, descendant, returncode>>

\* Seeded fault: the exit code is preferred when both have ended.
WaitEnds_PrefersClient ==
    /\ at = "running"
    /\ \/ childWait = "done" /\ Cleanup("exit")
       \/ childWait # "done" /\ Over(server) /\ Cleanup("runtime")
    /\ UNCHANGED <<interrupts, abandoned, cancelled>> /\ Others

\* Seeded fault: only the client's end is awaited.
WaitEnds_IgnoresServer ==
    /\ at = "running" /\ childWait = "done"
    /\ \/ Over(server) /\ Cleanup("runtime")
       \/ ~Over(server) /\ Cleanup("exit")
    /\ UNCHANGED <<interrupts, abandoned, cancelled>> /\ Others

\* asyncio.wait returns and both tasks are looked at.
WaitEnds ==
    /\ at = "running"
    /\ \/ Over(server) /\ Cleanup("runtime")
       \/ ~Over(server) /\ childWait = "done" /\ Cleanup("exit")
    /\ UNCHANGED <<interrupts, abandoned, cancelled>> /\ Others

\* terminate_owned_process returns.
Terminated ==
    /\ at \in {"terminating", "killing"} /\ returncode
    /\ Release(outcome)
    /\ UNCHANGED <<interrupts, abandoned, cancelled, signals>> /\ Others

\* Seeded fault: a client that ignores SIGTERM is left alone.
TerminateTimeout_GivesUp ==
    /\ at = "terminating" /\ ~returncode
    /\ Release(outcome)
    /\ UNCHANGED <<interrupts, abandoned, cancelled, signals>> /\ Others

\* Seeded fault: the second signal is not the one that cannot be ignored.
TerminateTimeout_Interrupts ==
    /\ at = "terminating" /\ ~returncode
    /\ signals' = signals \cup {"SIGINT"}
    /\ at' = "killing"
    /\ UNCHANGED <<outcome, interrupts, abandoned, stop, childWait, socket, cancelled>> /\ Others

TerminateTimeout ==
    /\ at = "terminating" /\ ~returncode
    /\ signals' = signals \cup {"SIGKILL"}
    /\ at' = "killing"
    /\ UNCHANGED <<outcome, interrupts, abandoned, stop, childWait, socket, cancelled>> /\ Others

\* ProcessCleanupError: the killed group does not end, or it cannot be killed.
KillFails ==
    /\ at = "killing" /\ ~returncode
    /\ abandoned' = TRUE
    /\ Release("unstoppable")
    /\ UNCHANGED <<interrupts, cancelled, signals>> /\ Others

Reaped ==
    /\ at = "reaping"
    /\ StopServer(outcome)
    /\ UNCHANGED <<interrupts, abandoned, childWait, signals, cancelled>> /\ Others

\* Seeded fault: _stop_server waits for the server without a bound.
StopTimeout_Unbounded == FALSE /\ UNCHANGED vars

StopTimeout ==
    /\ at = "stopping" /\ ~Over(server)
    /\ cancelled' = cancelled \cup {"server"}
    /\ at' = "cancelling"
    /\ UNCHANGED <<outcome, interrupts, abandoned, stop, childWait, signals, socket>> /\ Others

\* An error of a server that is stopping, or its cancellation by an interrupt,
\* replaces the result of the launch.
ServerStopped ==
    /\ at \in {"stopping", "cancelling"} /\ Over(server)
    /\ Close(IF at = "cancelling" THEN outcome
             ELSE IF server = "failed" THEN "server"
             ELSE IF "server" \in cancelled THEN "interrupted" ELSE outcome)
    /\ UNCHANGED <<interrupts, abandoned, stop, childWait, signals, cancelled>> /\ Others

-----------------------------------------------------------------------------
(***************************************************************************)
(* Interrupts: CancelledError at the await that the supervisor is at.      *)
(***************************************************************************)
\* create_subprocess_exec kills and reaps a process it has already started.
InterruptLaunch ==
    /\ at \in {"starting", "spawning", "running"}
    /\ Cleanup("interrupted")
    /\ UNCHANGED abandoned

\* terminate_owned_process ends without a kill; the rest of the cleanup goes on.
InterruptTermination ==
    /\ at \in {"terminating", "killing"}
    /\ abandoned' = ~returncode
    /\ Release("interrupted")
    /\ UNCHANGED signals

\* The await of the cancelled task suppresses the interrupt.
InterruptReaping ==
    /\ at = "reaping"
    /\ StopServer(outcome)
    /\ UNCHANGED <<abandoned, childWait, signals>>

\* Seeded fault: the socket is closed after _stop_server only when it returns.
InterruptStop_KeepsSocket ==
    /\ at \in {"stopping", "cancelling"}
    /\ at' = "done" /\ outcome' = "interrupted"
    /\ UNCHANGED <<abandoned, stop, childWait, signals, socket>>

\* _stop_server ends; the socket is closed nevertheless.
InterruptStop ==
    /\ at \in {"stopping", "cancelling"}
    /\ Close("interrupted")
    /\ UNCHANGED <<abandoned, stop, childWait, signals>>

Interrupt ==
    /\ interrupts < MaxInterrupts
    /\ interrupts' = interrupts + 1
    /\ cancelled' = IF interrupts = 0 THEN cancelled ELSE {"server", "uvicorn"}
    /\ InterruptLaunch \/ InterruptTermination \/ InterruptReaping \/ InterruptStop
    /\ Others

\* asyncio.run cancels every task that is left when the launch has returned.
LoopCloses ==
    /\ at = "done" /\ ~Over(server) /\ cancelled # {"server", "uvicorn"}
    /\ cancelled' = {"server", "uvicorn"}
    /\ UNCHANGED <<supervisor>> /\ Others

-----------------------------------------------------------------------------
(***************************************************************************)
(* serve_uvicorn and the uvicorn server.                                   *)
(***************************************************************************)
\* The server or the stop event is there; should_exit is set in between.
ServerWakes ==
    /\ server = "waiting" /\ "server" \notin cancelled
    /\ Over(uvicorn) \/ stop
    /\ server' = "joining"
    /\ UNCHANGED <<supervisor, cancelled, processes, uvicorn>>

ServerJoins ==
    /\ server = "joining" /\ "server" \notin cancelled /\ Over(uvicorn)
    /\ server' = uvicorn
    /\ UNCHANGED <<supervisor, cancelled, processes, uvicorn>>

\* Seeded fault: the wrapper ends without the server inside it.
ServerCancelled_Orphans ==
    /\ server \in {"waiting", "joining"} /\ "server" \in cancelled
    /\ server' = "ended"
    /\ cancelled' = cancelled \cup {"uvicorn"}
    /\ UNCHANGED <<supervisor, processes, uvicorn>>

\* CancelledError in the try block: the finally block cancels the server inside.
ServerCancelled ==
    /\ server \in {"waiting", "joining"} /\ "server" \in cancelled
    /\ server' = "leaving"
    /\ cancelled' = cancelled \cup {"uvicorn"}
    /\ UNCHANGED <<supervisor, processes, uvicorn>>

ServerLeaves ==
    /\ server = "leaving" /\ Over(uvicorn)
    /\ server' = "ended"
    /\ UNCHANGED <<supervisor, cancelled, processes, uvicorn>>

UvicornReady ==
    /\ uvicorn = "starting"
    /\ uvicorn' = "ready"
    /\ UNCHANGED <<supervisor, cancelled, processes, server>>

\* It may fail at any time, exits when told to and ends when cancelled.
UvicornEnds ==
    /\ ~Over(uvicorn)
    /\ uvicorn' \in {"ended", "failed"}
    /\ UNCHANGED <<supervisor, cancelled, processes, server>>

-----------------------------------------------------------------------------
(***************************************************************************)
(* The processes of the client.                                            *)
(***************************************************************************)
ClientForks ==
    /\ client = "running" /\ descendant = "none"
    /\ descendant' = "running"
    /\ UNCHANGED <<supervisor, cancelled, tasks, client, returncode>>

\* Of its own accord or by a signal.
ClientEnds ==
    /\ client = "running"
    /\ client' = "ended"
    /\ UNCHANGED <<supervisor, cancelled, tasks, descendant, returncode>>

DescendantEnds ==
    /\ descendant = "running"
    /\ descendant' = "ended"
    /\ UNCHANGED <<supervisor, cancelled, tasks, client, returncode>>

\* The event loop notices the end, and then the task that waits for it ends.
ClientNoticed ==
    /\ client = "ended"
    /\ \/ ~returncode /\ returncode' = TRUE /\ UNCHANGED childWait
       \/ returncode /\ childWait = "pending" /\ childWait' = "done" /\ UNCHANGED returncode
    /\ UNCHANGED <<at, outcome, interrupts, abandoned, stop, signals, socket,
                   cancelled, tasks, client, descendant>>

-----------------------------------------------------------------------------
Supervise ==
    \/ ServerStarted \/ StartupTimeout \/ Spawn \/ WaitEnds
    \/ Terminated \/ TerminateTimeout \/ KillFails
    \/ Reaped \/ StopTimeout \/ ServerStopped

ServeTask == ServerWakes \/ ServerJoins \/ ServerCancelled \/ ServerLeaves

Environment == UvicornReady \/ UvicornEnds \/ ClientForks \/ ClientEnds \/ DescendantEnds

Next == Supervise \/ Interrupt \/ LoopCloses \/ ServeTask \/ ClientNoticed \/ Environment

Spec == Init /\ [][Next]_vars

\* The event loop runs every task that can go on and every timer; a cancelled
\* uvicorn ends.  Nothing is assumed of a server that starts or stops, nor of
\* the client, not even that it ends by a signal.
FairSpec ==
    /\ Spec
    /\ WF_vars(Supervise) /\ WF_vars(ServeTask) /\ WF_vars(ClientNoticed) /\ WF_vars(LoopCloses)
    /\ WF_vars("uvicorn" \in cancelled /\ UvicornEnds)

-----------------------------------------------------------------------------
(***************************************************************************)
(* What the supervisor promises.                                           *)
(***************************************************************************)

\* The port is given back only when the client has ended, so no other program
\* can take it and receive the client's unprotected requests; the exception is
\* a cleanup that failed or was interrupted.
SocketOutlivesClient ==
    socket = "closed" /\ client = "running" => abandoned

\* A launch that has ended holds neither the socket nor, unless it was
\* interrupted while it stopped the server, a server.
ReleasedAtEnd ==
    at = "done" => socket = "closed" /\ (Over(server) \/ interrupts > 0)

\* No uvicorn server outlives the task that runs it, however that is cancelled.
NoServerOrphan == Over(server) => Over(uvicorn)

\* An exit code is reported only for a client that ended of its own accord
\* while its proxy was there (a launch runs "only while its loopback proxy
\* remains healthy").
ExitMeansHealthy ==
    [][outcome' = "exit" /\ outcome # "exit" =>
         /\ signals = {}
         /\ ~Over(server)
         /\ client = "ended"]_vars

\* A server that never becomes ready does not hold a launch up, and the launch
\* ends after the client, the server or the user has ended it, also when
\* neither obeys.
LaunchEnds ==
    /\ <>(at # "starting")
    /\ (client = "ended" \/ Over(server) \/ interrupts > 0) ~> (at = "done")

\* A client whose proxy has ended is killed, unless an interrupt comes between.
ClientFollowsProxy ==
    (Over(server) /\ client = "running")
        ~> (client = "ended" \/ "SIGKILL" \in signals \/ interrupts > 0)

-----------------------------------------------------------------------------
(***************************************************************************)
(* What the documents say and the code does not do.                        *)
(***************************************************************************)

\* However a launch ends, its client has ended or was at least killed.
ClientReleased ==
    at = "done" => client # "running" \/ "SIGKILL" \in signals
=============================================================================
