--------------------------- MODULE ServiceLifecycle ---------------------------
(***************************************************************************)
(* How the desktop shell owns its service.  ServiceController (app/shell/  *)
(* src/service/service-controller.ts) starts the settings-only service at  *)
(* boot, connectLive (connect-live.ts) replaces it by the live one, and    *)
(* before-quit (lifecycle.ts) stops it.  Every start is a launch: a        *)
(* composition (service/src/composition/compose-service.ts) that binds the *)
(* LLM gateway proxy and opens the loopback socket, and for the live tier  *)
(* (compose-live.ts) an OpenCode child under a supervisor of its own, the  *)
(* pump that reads its events (service/src/runtime/event-pump.ts) and the  *)
(* remote gateway (service/src/remote-gateway/gateway.ts), if enabled.     *)
(*                                                                         *)
(* Sups, the supervisors of ChildSupervisor, is the set of launches: a     *)
(* supervisor is made for each, and started once.  0 is no launch.         *)
(*                                                                         *)
(* A promise settles its waiters before the event loop takes the next      *)
(* event, so an IPC call or a quit comes in only when nothing is Settling. *)
(***************************************************************************)
EXTENDS ChildSupervisor

CONSTANTS
    Clients,            \* the calls of connectLive
    MaxAttempts,        \* maxAttempts of createLiveStartService
    MaxReconnects       \* maxReconnects of the pump

ASSUME LifecycleAssumption ==
    /\ 0 \notin Sups
    /\ MaxStarts = 1
    /\ MaxAttempts \in Nat \ {0}
    /\ MaxReconnects \in Nat \ {0}

VARIABLES
    ctl,        \* status, started (a launch, 0: null) and startedTier of the controller
    flight,     \* the start behind startPromise
    stopping,   \* the stop behind stopPromise, and the handle it took
    clients,    \* where each call of connectLive is
    app,        \* the Electron app
    launch,     \* the launches
    pump,       \* the event pump of each launch
    proxyPort   \* the launch whose gateway proxy is bound to the port (0: it is free)

shellVars == <<ctl, flight, stopping, clients, app>>
launchVars == <<launch, pump, proxyPort>>
lifecycleVars == <<shellVars, launchVars, supervisorVars>>

Launches == Sups
Tiers == {"settings_only", "live"}

LifecycleTypeOK ==
    /\ SupervisorTypeOK
    /\ ctl \in [status : {"idle", "starting", "running", "failed", "stopped"},
                started : Launches \union {0}, tier : Tiers]
    /\ flight \in [at : {"none", "resolving", "launching", "checking"}, tier : Tiers,
                   launch : Launches \union {0}, attempt : 1 .. MaxAttempts]
    /\ stopping \in [at : {"none", "queued", "closing"}, handle : Launches \union {0}]
    /\ clients \in [Clients -> {"idle", "stopping", "starting", "done"}]
    /\ app \in {"open", "stopping", "quitting", "gone"}
    /\ launch \in [Launches ->
          [tier : Tiers, socket : BOOLEAN, remote : BOOLEAN,
           at : {"none", "supervisor", "binding", "connecting", "unwinding", "failed", "up",
                 "lost", "closing", "draining", "reaping", "down"}]]
    /\ pump \in [Launches -> [running : BOOLEAN, loop : {"none", "reading", "waiting", "ended"},
                              failures : 0 .. MaxReconnects]]
    /\ proxyPort \in Launches \union {0}

LifecycleInit ==
    /\ SupervisorInit
    /\ ctl = [status |-> "idle", started |-> 0, tier |-> "settings_only"]
    /\ flight = [at |-> "none", tier |-> "settings_only", launch |-> 0, attempt |-> 1]
    /\ stopping = [at |-> "none", handle |-> 0]
    /\ clients = [c \in Clients |-> "idle"]
    /\ app = "open"
    /\ launch = [l \in Launches |-> [tier |-> "settings_only", socket |-> FALSE, remote |-> FALSE,
                                    at |-> "none"]]
    /\ pump = [l \in Launches |-> [running |-> FALSE, loop |-> "none", failures |-> 0]]
    /\ proxyPort = 0

LaunchAt(l, place) == launch' = [launch EXCEPT ![l].at = place]

-----------------------------------------------------------------------------
(* The controller.                                                          *)

\* Promise continuations are due: a stop that waited for a start that settled, or
\* one that had nothing to stop.
Continuing ==
    \/ stopping.at = "queued" /\ flight.at = "none"
    \/ stopping.at = "closing" /\ stopping.handle = 0

\* invokeStart: joins the start in flight, or the running service is enough.
InvokeStart(tier) ==
    IF flight.at # "none" \/ ctl.status = "running"
    THEN UNCHANGED <<ctl, flight>>
    ELSE /\ ctl' = [ctl EXCEPT !.status = "starting"]
         /\ flight' = [at |-> "resolving", tier |-> tier, launch |-> 0, attempt |-> 1]

\* The calls of connectLive that wait for the start: it settles in any case.
Answered == [c \in Clients |-> IF clients[c] = "starting" THEN "done" ELSE clients[c]]

\* runStart settles: with a handle, or with the failure that it records.
StartSettles(ok) ==
    /\ ctl' = IF ok THEN [status |-> "running", started |-> flight.launch, tier |-> flight.tier]
              ELSE [ctl EXCEPT !.status = "failed", !.started = 0]
    /\ flight' = [flight EXCEPT !.at = "none", !.launch = 0]
    /\ clients' = Answered

\* Boot: the settings-only service is started and not waited for.
Boot ==
    /\ ctl.status = "idle"
    /\ InvokeStart("settings_only")
    /\ UNCHANGED <<stopping, clients, app, launchVars, supervisorVars>>

\* runStop: behind a start in flight it waits; else it takes the handle and calls
\* its stop(), which disposes of the previews and apps first.
TakeHandle ==
    IF flight.at # "none"
    THEN stopping' = [at |-> "queued", handle |-> 0] /\ UNCHANGED <<ctl, launch>>
    ELSE /\ stopping' = [at |-> "closing", handle |-> ctl.started]
         /\ ctl' = [ctl EXCEPT !.started = 0, !.status = IF @ = "failed" THEN @ ELSE "stopped"]
         /\ launch' = IF ctl.started = 0 THEN launch
                      ELSE [launch EXCEPT ![ctl.started].at = "closing"]

\* stop(): joins the stop under way.
CallStop ==
    IF stopping.at = "none" THEN TakeHandle ELSE UNCHANGED <<stopping, ctl, launch>>

\* The start it waited for has settled: the stop takes the handle.
StopProceeds ==
    /\ stopping.at = "queued" /\ flight.at = "none"
    /\ TakeHandle
    /\ UNCHANGED <<flight, clients, app, pump, proxyPort, supervisorVars>>

\* The stop has returned: the calls of connectLive behind it call startLive(), where
\* the first starts and the others join it, and a quit behind it calls app.quit().
StopReturns ==
    /\ stopping.at = "closing"
    /\ stopping.handle # 0 => launch[stopping.handle].at = "down"
    /\ stopping' = [at |-> "none", handle |-> 0]
    /\ clients' = [c \in Clients |-> IF clients[c] = "stopping" THEN "starting" ELSE clients[c]]
    /\ IF \E c \in Clients : clients[c] = "stopping"
       THEN InvokeStart("live") ELSE UNCHANGED <<ctl, flight>>
    /\ app' = IF app = "stopping" THEN "quitting" ELSE app
    /\ UNCHANGED <<launchVars, supervisorVars>>

\* connectLive(force): returns at once when the live service is running.
ConnectLive(c, force) ==
    /\ ctl.status # "idle" /\ clients[c] = "idle" /\ ~Continuing
    /\ IF ~force /\ ctl.status = "running" /\ ctl.tier = "live"
       THEN /\ clients' = [clients EXCEPT ![c] = "done"]
            /\ UNCHANGED <<ctl, stopping, launch>>
       ELSE /\ clients' = [clients EXCEPT ![c] = "stopping"]
            /\ CallStop
    /\ UNCHANGED <<flight, app, pump, proxyPort, supervisorVars>>

\* before-quit: stops the service once, then quits.
BeforeQuit ==
    /\ ctl.status # "idle" /\ app = "open" /\ ~Continuing
    /\ app' = "stopping"
    /\ CallStop
    /\ UNCHANGED <<flight, clients, pump, proxyPort, supervisorVars>>

\* app.quit() ends the process, and with it everything but the children.
Quit ==
    /\ app = "quitting"
    /\ app' = "gone"
    /\ UNCHANGED <<ctl, flight, stopping, clients, launchVars, supervisorVars>>

-----------------------------------------------------------------------------
(* A start.                                                                 *)

\* The bound on the launches is reached.
NoneLeft == \A l \in Launches : launch[l].at # "none"

NextLaunch == CHOOSE l \in Launches : launch[l].at = "none"

\* The start fails, with an error that the live path retries or with another one.
LaunchFails(l, retry) ==
    /\ LaunchAt(l, "failed")
    /\ IF retry /\ flight.tier = "live" /\ flight.attempt < MaxAttempts
       THEN /\ flight' = [flight EXCEPT !.at = "resolving", !.launch = 0, !.attempt = @ + 1]
            /\ UNCHANGED <<ctl, clients>>
       ELSE StartSettles(FALSE)

\* resolveOptions has the options: createCoworkService composes the service, which
\* binds the proxy where the port is free and does without it where it is not; the
\* live path calls supervisor.start().
Compose ==
    /\ flight.at = "resolving" /\ ~NoneLeft
    /\ LET l == NextLaunch IN
        /\ flight' = [flight EXCEPT !.at = "launching", !.launch = l]
        /\ proxyPort' = IF proxyPort = 0 THEN l ELSE proxyPort
        /\ launch' = [launch EXCEPT ![l] =
              [tier |-> flight.tier, socket |-> FALSE, remote |-> FALSE,
               at |-> IF flight.tier = "live" THEN "supervisor" ELSE "binding"]]
        /\ IF flight.tier = "live" THEN Start({l}) ELSE UNCHANGED supervisorVars
    /\ UNCHANGED <<ctl, stopping, clients, app, pump>>

\* The launch is not configured, or its options cannot be resolved.
NotConfigured ==
    /\ flight.at = "resolving" /\ flight.tier = "live"
    /\ StartSettles(FALSE)
    /\ UNCHANGED <<stopping, app, launchVars, supervisorVars>>

\* The child is healthy: the scrubber is seeded and the socket opened.
ChildReady(l) ==
    /\ launch[l].at = "supervisor" /\ starts[l][1].at = "ready"
    /\ LaunchAt(l, "binding")
    /\ UNCHANGED <<shellVars, pump, proxyPort, supervisorVars>>

\* supervisor.start() threw; a port that is taken is the error that is retried.
ChildFailed(l, retry) ==
    /\ launch[l].at = "supervisor" /\ starts[l][1].at = "failed"
    /\ retry => procs[l][1] = "none"
    /\ LaunchFails(l, retry)
    /\ UNCHANGED <<stopping, app, pump, proxyPort, supervisorVars>>

\* The socket is open; the live path starts the pump, and the remote gateway if it is
\* enabled.
Bound(l, remote) ==
    /\ launch[l].at = "binding"
    /\ remote => launch[l].tier = "live"
    /\ launch' = [launch EXCEPT ![l].at = IF remote THEN "connecting" ELSE "up", ![l].socket = TRUE]
    /\ pump' = IF launch[l].tier = "settings_only" THEN pump
               ELSE [pump EXCEPT ![l] = [running |-> TRUE, loop |-> "reading", failures |-> 0]]
    /\ flight' = [flight EXCEPT !.at = IF remote THEN @ ELSE "checking"]
    /\ UNCHANGED <<ctl, stopping, clients, app, proxyPort, supervisorVars>>

\* The remote gateway listens, or the service does without it.
RemoteStarts(l, ok) ==
    /\ launch[l].at = "connecting"
    /\ launch' = [launch EXCEPT ![l].at = "up", ![l].remote = ok]
    /\ flight' = [flight EXCEPT !.at = "checking"]
    /\ UNCHANGED <<ctl, stopping, clients, app, pump, proxyPort, supervisorVars>>

\* Mutant: a failure after the child's start does not stop the child.
BindFailsLeaking(l) ==
    /\ launch[l].at = "binding"
    /\ LaunchFails(l, FALSE)
    /\ UNCHANGED <<stopping, app, pump, proxyPort, supervisorVars>>

\* The seed or the socket failed: the live path stops the child it started.
BindFails(l) ==
    /\ launch[l].at = "binding"
    /\ IF launch[l].tier = "live"
       THEN /\ LaunchAt(l, "unwinding")
            /\ Stop({l})
            /\ UNCHANGED <<ctl, flight, clients>>
       ELSE LaunchFails(l, FALSE) /\ UNCHANGED supervisorVars
    /\ UNCHANGED <<stopping, app, pump, proxyPort>>

Unwound(l, retry) ==
    /\ launch[l].at = "unwinding" /\ stops[l].at = "done"
    /\ LaunchFails(l, retry)
    /\ UNCHANGED <<stopping, app, pump, proxyPort, supervisorVars>>

\* The authenticated probe of /v1/health succeeds.
HealthVerified ==
    /\ flight.at = "checking"
    /\ StartSettles(TRUE)
    /\ UNCHANGED <<stopping, app, launchVars, supervisorVars>>

\* It does not within its time: the start throws, and its handle is lost with it.
HealthGivesUp ==
    /\ flight.at = "checking"
    /\ LaunchAt(flight.launch, "lost")
    /\ StartSettles(FALSE)
    /\ UNCHANGED <<stopping, app, pump, proxyPort, supervisorVars>>

-----------------------------------------------------------------------------
(* The stop of a launch.                                                    *)

\* remote.stop(): the gateway goes first, it depends on the socket.
RemoteStops(l) ==
    /\ launch[l].at = "closing" /\ launch[l].remote
    /\ launch' = [launch EXCEPT ![l].remote = FALSE]
    /\ UNCHANGED <<shellVars, pump, proxyPort, supervisorVars>>

\* Mutant: the child is stopped with the socket, before the pump.
SocketClosedWithChild(l) ==
    /\ launch[l].at = "closing" /\ ~launch[l].remote
    /\ launch' = [launch EXCEPT ![l].socket = FALSE,
                                ![l].at = IF launch[l].tier = "live" THEN "reaping" ELSE "down"]
    /\ proxyPort' = IF proxyPort = l THEN 0 ELSE proxyPort
    /\ IF launch[l].tier = "live" THEN Stop({l}) ELSE UNCHANGED supervisorVars
    /\ UNCHANGED <<shellVars, pump>>

\* Mutant: the gateway proxy outlives the service.
SocketClosedKeepingProxy(l) ==
    /\ launch[l].at = "closing" /\ ~launch[l].remote
    /\ launch' = [launch EXCEPT ![l].socket = FALSE,
                                ![l].at = IF launch[l].tier = "live" THEN "draining" ELSE "down"]
    /\ pump' = [pump EXCEPT ![l].running = FALSE]
    /\ UNCHANGED <<proxyPort, shellVars, supervisorVars>>

\* running.service.stop(): the socket, then the gateway proxy and the database; the
\* live path goes on to pump.stop().
SocketClosed(l) ==
    /\ launch[l].at = "closing" /\ ~launch[l].remote
    /\ launch' = [launch EXCEPT ![l].socket = FALSE,
                                ![l].at = IF launch[l].tier = "live" THEN "draining" ELSE "down"]
    /\ proxyPort' = IF proxyPort = l THEN 0 ELSE proxyPort
    /\ pump' = [pump EXCEPT ![l].running = FALSE]
    /\ UNCHANGED <<shellVars, supervisorVars>>

\* The pump's loop has returned: supervisor.stop().
PumpStopped(l) ==
    /\ launch[l].at = "draining" /\ pump[l].loop \in {"none", "ended"}
    /\ LaunchAt(l, "reaping")
    /\ pump' = [pump EXCEPT ![l].loop = "none"]
    /\ Stop({l})
    /\ UNCHANGED <<shellVars, proxyPort>>

ChildReaped(l) ==
    /\ launch[l].at = "reaping" /\ stops[l].at = "done"
    /\ LaunchAt(l, "down")
    /\ UNCHANGED <<shellVars, pump, proxyPort, supervisorVars>>

-----------------------------------------------------------------------------
(* The loop of the pump.                                                    *)

\* Mutant: the loop keeps reading after stop().
LoopReturnsNever(l) ==
    /\ ~pump[l].running /\ pump[l].loop = "waiting"
    /\ pump' = [pump EXCEPT ![l].loop = "ended"]
    /\ UNCHANGED <<shellVars, launch, proxyPort, supervisorVars>>

\* The loop sees that it was stopped: the read was aborted, or the wait is over.
LoopReturns(l) ==
    /\ ~pump[l].running /\ pump[l].loop \in {"reading", "waiting"}
    /\ pump' = [pump EXCEPT ![l].loop = "ended"]
    /\ UNCHANGED <<shellVars, launch, proxyPort, supervisorVars>>

\* The connection ended in order, or it failed: too many failures in a row end the loop.
ConnectionEnds(l, failed) ==
    /\ pump[l].running /\ pump[l].loop = "reading"
    /\ LET n == IF failed THEN pump[l].failures + 1 ELSE 0 IN
        pump' = [pump EXCEPT ![l].failures = n,
                             ![l].loop = IF n >= MaxReconnects THEN "ended" ELSE "waiting"]
    /\ UNCHANGED <<shellVars, launch, proxyPort, supervisorVars>>

Reconnects(l) ==
    /\ pump[l].running /\ pump[l].loop = "waiting"
    /\ pump' = [pump EXCEPT ![l].loop = "reading"]
    /\ UNCHANGED <<shellVars, launch, proxyPort, supervisorVars>>

-----------------------------------------------------------------------------

\* What the shell and its launch do by themselves.
Launching(l) ==
    \/ ChildReady(l)
    \/ \E retry \in BOOLEAN : ChildFailed(l, retry) \/ Unwound(l, retry)
    \/ \E remote \in BOOLEAN : Bound(l, remote) \/ RemoteStarts(l, remote)
    \/ BindFails(l)

Closing(l) == RemoteStops(l) \/ SocketClosed(l) \/ PumpStopped(l) \/ ChildReaped(l) \/ LoopReturns(l)

Checking == HealthVerified \/ HealthGivesUp
Resolving == Compose \/ NotConfigured

\* A step of the supervisors.
Supervising(step) == step /\ UNCHANGED <<shellVars, launchVars>>

ShellStep ==
    \/ Boot
    \/ StopProceeds
    \/ StopReturns
    \/ \E c \in Clients, force \in BOOLEAN : ConnectLive(c, force)
    \/ BeforeQuit
    \/ Quit
    \/ Resolving
    \/ Checking
    \/ \E l \in Launches :
          \/ Launching(l) \/ Closing(l)
          \/ \E failed \in BOOLEAN : ConnectionEnds(l, failed)
          \/ Reconnects(l)
    \/ Supervising(SupervisorStep)

\* The process is there.
Open == app # "gone"

LifecycleNext == Open /\ ShellStep

\* Every await is bounded (timeouts of the spawn, of the health checks and of the
\* exit), so every started call goes on; the user need not call anything.
LifecycleFairness ==
    /\ WF_lifecycleVars(Open /\ (StopProceeds \/ StopReturns))
    /\ WF_lifecycleVars(Open /\ Resolving)
    /\ WF_lifecycleVars(Open /\ Checking)
    /\ WF_lifecycleVars(Quit)
    /\ \A l \in Launches :
        /\ WF_lifecycleVars(Open /\ Launching(l))
        /\ WF_lifecycleVars(Open /\ Closing(l))
        /\ WF_lifecycleVars(Open /\ Supervising(StopSettles(l) \/ Settling(l, 1)))
        /\ WF_lifecycleVars(Open /\ Supervising(Obeys(l, 1)))

LifecycleSpec == LifecycleInit /\ [][LifecycleNext]_lifecycleVars
LifecycleLiveSpec == LifecycleSpec /\ LifecycleFairness

-----------------------------------------------------------------------------
(* Properties.                                                              *)

\* Something of the launch is there to be stopped.
Alive(l) == launch[l].socket \/ launch[l].remote \/ pump[l].running \/ procs[l][1] \notin Gone

\* The launches that the controller can still stop.
Owned == {ctl.started, flight.launch, stopping.handle} \ {0}

\* One owner: what is up belongs to the handle, to the start in flight or to the
\* stop under way, and there is never more than one, but for the launches that a
\* health check gave up on.
OneOwner ==
    LET kept == {l \in Launches : Alive(l) /\ launch[l].at # "lost"} IN
    kept \subseteq Owned /\ Cardinality(kept) <= 1

\* State keeps its types, what is up has one owner, and below it each supervisor knows
\* its child while there is one.
LifecycleInv == LifecycleTypeOK /\ OneOwner /\ NoOrphan /\ IdleIsDown

\* Where the child of a launch is: its supervisor was not started, or comes up, or is up, or
\* is being stopped.  A child is signalled only by the start that fails or by the stop.
ChildUntouched(l) ==
    /\ starts[l][1].at = "none" /\ stops[l].at = "none"
    /\ sup[l].state = "idle" /\ sup[l].child = 0 /\ procs[l][1] = "none"

ChildComes(l) ==
    LET place == starts[l][1].at
        proc == procs[l][1]
    IN  /\ stops[l].at = "none" /\ place # "none"
        /\ place = "checking" => sup[l].state = "starting" /\ sup[l].child = 0 /\ proc = "none"
        /\ place \in {"polling", "identifying"} =>
              sup[l].state = "starting" /\ sup[l].child = 1 /\ proc \in {"running", "exited"}
        /\ place = "aborting" =>
              /\ sup[l].state = "starting" /\ sup[l].child = 1 /\ starts[l][1].aborts = 1
              /\ proc \in {"signalled", "exited", "reaped"}
        /\ place = "ready" =>
              sup[l].state = "ready" /\ sup[l].child = 1 /\ proc \in {"running", "exited"}
        /\ place = "failed" =>
              /\ sup[l].state = "idle" /\ sup[l].child = 0
              /\ proc \in Gone \/ (Slow /\ proc = "signalled")

ChildServes(l) == ChildComes(l) /\ starts[l][1].at = "ready"

ChildStops(l) ==
    /\ starts[l][1].at = "ready"
    /\ \/ /\ stops[l].at = "waiting" /\ stops[l].child = 1
          /\ sup[l].state = "stopping" /\ sup[l].child = 1
          /\ procs[l][1] \in {"signalled", "exited", "reaped"}
       \/ /\ stops[l].at = "done"
          /\ sup[l].state = "idle" /\ sup[l].child = 0
          /\ procs[l][1] \in {"exited", "reaped"} \/ (Slow /\ procs[l][1] = "signalled")

\* The child follows its launch, which starts it before it opens the socket and stops it
\* after it closed it.
ChildFollows(l) ==
    LET at == launch[l].at IN
    IF at = "none" \/ launch[l].tier = "settings_only" THEN ChildUntouched(l) ELSE
        /\ at = "supervisor" => ChildComes(l)
        /\ at \in {"binding", "connecting", "up", "lost", "closing", "draining"} => ChildServes(l)
        /\ at \in {"unwinding", "reaping", "down"} => ChildStops(l)
        /\ at = "down" => stops[l].at = "done"
        /\ at = "failed" => \/ ChildComes(l) /\ starts[l][1].at = "failed"
                            \/ ChildStops(l) /\ stops[l].at = "done"

\* So do the socket, the remote gateway and the pump.
PartsFollow(l) ==
    LET at == launch[l].at
        live == launch[l].tier = "live"
    IN  /\ at = "none" => ~live
        /\ at \in {"supervisor", "connecting", "unwinding", "draining", "reaping"} => live
        /\ launch[l].socket <=> at \in {"connecting", "up", "lost", "closing"}
        /\ launch[l].remote => live /\ at \in {"up", "lost", "closing"}
        /\ pump[l].running <=> live /\ launch[l].socket
        /\ pump[l].loop # "none" => live /\ (launch[l].socket \/ at = "draining")
        /\ pump[l].loop \in {"reading", "waiting"} => pump[l].failures < MaxReconnects

\* Each field of the controller holds a launch that is where the field says.
ShellHolds ==
    /\ flight.at # "none" <=> ctl.status = "starting"
    /\ ctl.started # 0 <=> ctl.status = "running"
    /\ ctl.started # 0 => launch[ctl.started].at = "up" /\ launch[ctl.started].tier = ctl.tier
    /\ flight.launch # 0 <=> flight.at \in {"launching", "checking"}
    /\ flight.launch # 0 => launch[flight.launch].tier = flight.tier
    /\ flight.at = "launching" =>
          launch[flight.launch].at \in {"supervisor", "binding", "connecting", "unwinding"}
    /\ flight.at = "checking" => launch[flight.launch].at = "up"
    /\ stopping.at # "none" => ctl.status # "idle"
    /\ stopping.at = "closing" => flight.at = "none" /\ ctl.started = 0
    /\ stopping.handle # 0 =>
          /\ stopping.at = "closing"
          /\ launch[stopping.handle].at \in {"closing", "draining", "reaping", "down"}

\* A launch that is under way, up or being taken down is held by the field that it should be.
HeldByShell(l) ==
    LET at == launch[l].at IN
    /\ at \in {"supervisor", "binding", "connecting", "unwinding"} =>
          flight.at = "launching" /\ flight.launch = l
    /\ at = "up" => (flight.at = "checking" /\ flight.launch = l) \/ ctl.started = l
    /\ at \in {"closing", "draining", "reaping"} => stopping.handle = l

\* The proxy's port is held by a launch that has not closed its own, and until a launch has
\* failed or was lost every launch under way has got it.
ProxyFollows ==
    LET bound == {"supervisor", "binding", "connecting", "unwinding", "up", "closing"} IN
    /\ proxyPort # 0 => launch[proxyPort].at \in bound \union {"failed", "lost"}
    /\ (\A l \in Launches : launch[l].at \notin {"failed", "lost"}) =>
          \A l \in Launches : launch[l].at \in bound => proxyPort = l

\* The inductive invariant: the shell holds each launch that is up, and everything that a
\* launch consists of is where the launch is.
LifecycleIInv ==
    /\ LifecycleTypeOK
    /\ \A l \in Launches : ChildFollows(l) /\ PartsFollow(l) /\ HeldByShell(l)
    /\ ShellHolds
    /\ ProxyFollows

\* getBootstrap hands out a real address: the service it names is up and answers,
\* its runtime was started and has not been told to exit, and the gateway proxy is
\* its own unless a launch failed or was lost before.
BootstrapIsHonest ==
    ctl.status = "running" =>
        /\ ctl.started # 0
        /\ launch[ctl.started].at = "up" /\ launch[ctl.started].socket
        /\ ctl.tier = "live" => sup[ctl.started].state = "ready" /\ ~Killed(ctl.started, 1)
        /\ (\A l \in Launches : launch[l].at \notin {"failed", "lost"}) => proxyPort = ctl.started

\* "The pump reads FROM the child, so it must be torn down before the child is
\* killed", the socket before both, and the remote gateway, which "depends on the
\* socket", before that.
TeardownOrder ==
    [][\A l \in Launches :
          /\ procs[l][1] = "running" /\ procs'[l][1] = "signalled" =>
                ~launch[l].socket /\ pump[l].loop \in {"none", "ended"}
          /\ launch[l].socket /\ ~launch'[l].socket => ~launch[l].remote]_lifecycleVars

\* The bound on the launches stops a start.
Exhausted == flight.at = "resolving" /\ NoneLeft

\* connectLive answers and a quit quits, whatever start, stop or other call they
\* meet (within the bound on the launches).
CallsAnswer ==
    /\ \A c \in Clients : clients[c] # "idle" ~> clients[c] = "done" \/ ~Open \/ Exhausted
    /\ app = "stopping" ~> ~Open \/ Exhausted

\* "Stop the live service once (socket + supervised child), then quit": when the
\* app is gone, no child is left.
QuitLeavesNothing ==
    ~Open => \A l \in Launches : launch[l].at # "lost" => procs[l][1] \in Gone

\* "Let it settle so we own (and reap) any child it spawned": after a stop, with no
\* start in flight, nothing is up.
StoppedIsDown ==
    ctl.status \in {"failed", "stopped"} /\ stopping.at = "none" => \A l \in Launches : ~Alive(l)

\* "A settings-only -> live tier transition releases the port before the next tier
\* binds it": the running service has its gateway proxy.
RunningHasProxy == ctl.status = "running" => proxyPort = ctl.started

\* The running live service reads the events of its child.
RunningReads ==
    ctl.status = "running" /\ ctl.tier = "live" => pump[ctl.started].loop # "ended"

=============================================================================
