--------------------------- MODULE ChildSupervisor ---------------------------
(***************************************************************************)
(* The owner of a child process: OpencodeSupervisor                        *)
(* (service/src/runtime/supervisor.ts) and its role-neutral sibling        *)
(* GenericChildSupervisor (service/src/runtime/generic-child-              *)
(* supervisor.ts), which have the same state machine.  start() checks the  *)
(* port, spawns, polls the child's health and captures its identity;       *)
(* stop() signals the child, waits a bounded time and escalates.  Both are *)
(* asynchronous: every await is a step boundary at which the other call,   *)
(* or an exit of the child, can come in.                                   *)
(*                                                                         *)
(* Sups is a set of supervisors.  The n-th call of start() on a supervisor *)
(* spawns at most one process, which is called n too.                      *)
(***************************************************************************)
EXTENDS Naturals, FiniteSets

CONSTANTS
    Sups,           \* the supervisors
    MaxStarts,      \* bound on the calls of start() on a supervisor
    Slow            \* a signalled child may outlive GRACEFUL_STOP_MS

ASSUME SupervisorAssumption ==
    /\ MaxStarts \in Nat
    /\ Slow \in BOOLEAN

VARIABLES
    sup,        \* the fields state and child (0: null) of each supervisor
    starts,     \* where each call of start() is, and the child it aborts
    stops,      \* the stop() under way on each supervisor, if any
    procs       \* the processes

supervisorVars == <<sup, starts, stops, procs>>

Calls == 1 .. MaxStarts

\* A process exits by itself, or is reaped after a signal.
ProcessStates == {"none", "running", "signalled", "forced", "exited", "reaped"}
Gone == {"none", "exited", "reaped"}

SupervisorTypeOK ==
    /\ sup \in [Sups -> [state : {"idle", "starting", "ready", "stopping"}, child : 0 .. MaxStarts]]
    /\ starts \in [Sups -> [Calls ->
          [at : {"none", "checking", "polling", "identifying", "aborting", "ready", "failed"},
           aborts : 0 .. MaxStarts]]]
    /\ stops \in [Sups -> [at : {"none", "waiting", "done"}, child : 0 .. MaxStarts]]
    /\ procs \in [Sups -> [Calls -> ProcessStates]]

SupervisorInit ==
    /\ sup = [s \in Sups |-> [state |-> "idle", child |-> 0]]
    /\ starts = [s \in Sups |-> [n \in Calls |-> [at |-> "none", aborts |-> 0]]]
    /\ stops = [s \in Sups |-> [at |-> "none", child |-> 0]]
    /\ procs = [s \in Sups |-> [n \in Calls |-> "none"]]

\* Node's child.killed: a signal was delivered, whether or not the child died of it.
Killed(s, n) == procs[s][n] \in {"signalled", "forced", "reaped"}

Unsettled(s) == {n \in Calls : starts[s][n].at \in {"checking", "polling", "identifying", "aborting"}}

\* reset()
Reset(s) == sup' = [sup EXCEPT ![s] = [state |-> "idle", child |-> 0]]

\* child.kill(): has no effect on a child that has exited.
Signal(s, n) ==
    procs' = IF procs[s][n] = "running" THEN [procs EXCEPT ![s][n] = "signalled"] ELSE procs

\* The number of the next call of start() on s.
NextCall(s) == Cardinality({n \in Calls : starts[s][n].at # "none"}) + 1

At(s, n, place) == starts' = [starts EXCEPT ![s][n].at = place]

-----------------------------------------------------------------------------
(* start()                                                                  *)

\* The call on the supervisors S, up to the first await.  In any other state than
\* idle it throws.
Start(S) ==
    /\ \A s \in S : sup[s].state = "idle" /\ NextCall(s) \in Calls
    /\ sup' = [s \in Sups |-> IF s \in S THEN [sup[s] EXCEPT !.state = "starting"] ELSE sup[s]]
    /\ starts' = [s \in Sups |->
                    IF s \in S THEN [starts[s] EXCEPT ![NextCall(s)].at = "checking"] ELSE starts[s]]
    /\ UNCHANGED <<stops, procs>>

\* The port is free: the directories and files are written, the child spawned.
Spawn(s, n) ==
    /\ starts[s][n].at = "checking"
    /\ procs' = [procs EXCEPT ![s][n] = "running"]
    /\ sup' = [sup EXCEPT ![s].child = n]
    /\ At(s, n, "polling")
    /\ UNCHANGED stops

\* The health probe answers.
Healthy(s, n) ==
    /\ starts[s][n].at = "polling"
    /\ procs[s][n] \in {"running", "signalled"}
    /\ At(s, n, "identifying")
    /\ UNCHANGED <<sup, stops, procs>>

\* The operating system knows the process: the runtime is ready.
Identified(s, n) ==
    /\ starts[s][n].at = "identifying"
    /\ procs[s][n] \in {"running", "signalled"}
    /\ sup' = [sup EXCEPT ![s].state = "ready"]
    /\ At(s, n, "ready")
    /\ UNCHANGED <<stops, procs>>

\* The port is taken, the child died, its health did not come in time or is of
\* another version, or it has no identity: abortStart signals the child of the
\* supervisor, or has nothing to wait for.
StartFails(s, n) ==
    /\ starts[s][n].at \in {"checking", "polling", "identifying"}
    /\ IF sup[s].child # 0 /\ ~Killed(s, sup[s].child)
       THEN /\ starts' = [starts EXCEPT ![s][n] = [at |-> "aborting", aborts |-> sup[s].child]]
            /\ Signal(s, sup[s].child)
            /\ UNCHANGED sup
       ELSE /\ Reset(s)
            /\ At(s, n, "failed")
            /\ UNCHANGED procs
    /\ UNCHANGED stops

\* waitForExit settles, with the exit or with the timeout.
WaitSettles(s, n) == procs[s][n] \in Gone \/ Slow

\* SIGKILL, for a child that has not exited and that no signal was delivered to.
Escalate(s, n) ==
    procs' = IF procs[s][n] \notin Gone /\ ~Killed(s, n)
             THEN [procs EXCEPT ![s][n] = "forced"] ELSE procs

AbortSettles(s, n) ==
    /\ starts[s][n].at = "aborting"
    /\ WaitSettles(s, starts[s][n].aborts)
    /\ Escalate(s, starts[s][n].aborts)
    /\ Reset(s)
    /\ At(s, n, "failed")
    /\ UNCHANGED stops

-----------------------------------------------------------------------------
(* stop()                                                                   *)

\* stop() has a child to signal and to wait for; it has none when there is no
\* child, or when the child was signalled before.
HasToWait(s) == sup[s].child # 0 /\ ~Killed(s, sup[s].child)

\* The call on the supervisors S, up to the await.
Stop(S) ==
    /\ \A s \in S : stops[s].at # "waiting"
    /\ sup' = [s \in Sups |->
                 CASE s \notin S -> sup[s]
                   [] s \in S /\ HasToWait(s) -> [sup[s] EXCEPT !.state = "stopping"]
                   [] OTHER -> [state |-> "idle", child |-> 0]]
    /\ stops' = [s \in Sups |->
                   CASE s \notin S -> stops[s]
                     [] s \in S /\ HasToWait(s) -> [at |-> "waiting", child |-> sup[s].child]
                     [] OTHER -> [at |-> "done", child |-> 0]]
    /\ procs' = [s \in Sups |->
                   [n \in Calls |->
                     IF s \in S /\ HasToWait(s) /\ n = sup[s].child /\ procs[s][n] = "running"
                     THEN "signalled" ELSE procs[s][n]]]
    /\ UNCHANGED starts

StopSettles(s) ==
    /\ stops[s].at = "waiting"
    /\ WaitSettles(s, stops[s].child)
    /\ Escalate(s, stops[s].child)
    /\ Reset(s)
    /\ stops' = [stops EXCEPT ![s].at = "done"]
    /\ UNCHANGED starts

-----------------------------------------------------------------------------

\* A child exits, of a signal or by itself.
Exits(s, n) ==
    /\ procs[s][n] \notin Gone
    /\ procs' = [procs EXCEPT ![s][n] = IF @ = "running" THEN "exited" ELSE "reaped"]
    /\ UNCHANGED <<sup, starts, stops>>

\* A child exits of the signal it was sent.
Obeys(s, n) == Killed(s, n) /\ Exits(s, n)

\* The steps of the calls under way.
Settling(s, n) ==
    \/ Spawn(s, n)
    \/ Healthy(s, n)
    \/ Identified(s, n)
    \/ StartFails(s, n)
    \/ AbortSettles(s, n)

\* What happens without a caller.
SupervisorStep ==
    \E s \in Sups :
        \/ StopSettles(s)
        \/ \E n \in Calls : Settling(s, n) \/ Exits(s, n)

\* A caller that starts and stops the supervisor; one that does not overlap its
\* calls, as startLiveCoworkService, stops it after start() has settled.
CallerNext ==
    \/ SupervisorStep
    \/ \E s \in Sups : Start({s})
    \/ \E s \in Sups : Unsettled(s) = {} /\ Stop({s})

SupervisorFairness ==
    \A s \in Sups :
        /\ WF_supervisorVars(StopSettles(s))
        /\ \A n \in Calls : WF_supervisorVars(Settling(s, n)) /\ WF_supervisorVars(Obeys(s, n))

CallerSpec == SupervisorInit /\ [][CallerNext]_supervisorVars /\ SupervisorFairness

-----------------------------------------------------------------------------
(* Properties.                                                              *)

\* One owner: a child that runs and was not told to exit is the child its
\* supervisor knows of, so that a stop reaches it.
NoOrphan ==
    \A s \in Sups, n \in Calls : procs[s][n] = "running" => sup[s].child = n

\* A supervisor that is idle, so that start() is accepted again, has nothing
\* running (children that exit within the grace period, calls that do not overlap).
IdleIsDown ==
    \A s \in Sups, n \in Calls :
        sup[s].state = "idle" => procs[s][n] \in Gone

\* Supervisor and processes keep their types, and an idle supervisor has none.
SupervisorInv == SupervisorTypeOK /\ IdleIsDown

\* Every start() settles and every stop() returns: no wait is unbounded.
CallsSettle ==
    \A s \in Sups :
        /\ \A n \in Calls : n \in Unsettled(s) ~> n \notin Unsettled(s)
        /\ stops[s].at = "waiting" ~> stops[s].at = "done"

\* "Graceful terminate -> bounded wait -> force": once stop() has returned, the
\* child it was called for exited or was killed.
StopForces ==
    \A s \in Sups :
        stops[s].at = "done" /\ stops[s].child # 0 =>
            procs[s][stops[s].child] \in Gone \union {"forced"}

=============================================================================
