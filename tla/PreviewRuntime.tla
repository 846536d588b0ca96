--------------------------- MODULE PreviewRuntime ---------------------------
(***************************************************************************)
(* The preview of the user's project (service/src/runtime-preview): one    *)
(* PreviewService owns either a static server or the child process of a    *)
(* dev script, which it starts behind the permission gate.  Its methods    *)
(* are HTTP handlers, so that they overlap: what one of them awaits (the   *)
(* file system, a port, the exit of a child) lets the others run, and the  *)
(* variables they share may have changed when it goes on.                  *)
(*                                                                         *)
(* Of the gate the model uses the contract.  Each action is one stretch of *)
(* code between two awaits that leave the event loop.                      *)
(***************************************************************************)
EXTENDS ToolContract, FiniteSets

CONSTANTS
    Ops,            \* the calls that may be under way at the same time
    MaxWorkspaces,  \* bound on the folders that become the active workspace
    MaxLaunches     \* bound on the children and static servers started

Launches == 1 .. MaxLaunches
Nobody == "nobody"          \* null
Workspaces == 1 .. MaxWorkspaces

ASSUME PreviewAssumption ==
    MaxLaunches \in Nat /\ MaxWorkspaces \in Nat \ {0} /\ Nobody \notin Requests

VARIABLES
    svc,        \* the service's state
    launched,   \* the children and static servers, in the order they were started
    ops,        \* the calls under way
    active,     \* the active workspace of the settings
    asked,      \* history: per request, the workspace it was raised in, or 0
    unsaved,    \* history: a change of the workspace could not be saved
    overlapped  \* history: a call met another one, a child that was dying or, when it spawned
                \* a child, a preview that was running

workspaceVars == <<active, asked, unsaved>>
previewVars == <<svc, launched, ops, workspaceVars, overlapped>>
vars == <<contractVars, previewVars>>

Kinds == {"dev", "static"}
Ends == {"stop", "restart", "dispose"}
Idle == [at |-> "idle"]

\* Where a call awaits: the project's files, the start of a child or of a server in the
\* workspace it read before, the settings file, the end of child and server.
Awaiting ==
    [at : {"detecting"}, kind : Kinds, root : Workspaces]
        \union [at : {"launching"}, request : Requests, root : Workspaces]
        \union [at : {"serving"}, root : Workspaces]
        \union [at : {"saving"}]
        \union [at : {"stopping"}, then : Ends,
                kind : Kinds \union {"none"}, approved : Requests \union {Nobody}]

TypeOK ==
    /\ ContractTypeOK
    /\ svc \in [status : {"idle", "starting", "running", "failed", "stopped"},
                kind : Kinds \union {"none"}, child : 0 .. MaxLaunches, server : 0 .. MaxLaunches,
                stopping : BOOLEAN, poll : BOOLEAN, leaked : BOOLEAN, unspawned : BOOLEAN,
                pending : Requests \union {Nobody}, approved : Requests \union {Nobody}]
    /\ launched \in [Launches -> [state : {"none", "live", "dying", "gone"},
                                  kind : Kinds \union {"none"}, request : Requests \union {Nobody},
                                  root : 0 .. MaxWorkspaces]]
    /\ ops \in [Ops -> {Idle} \union Awaiting]
    /\ active \in Workspaces
    /\ asked \in [Requests -> 0 .. MaxWorkspaces]
    /\ unsaved \in BOOLEAN
    /\ overlapped \in BOOLEAN

Init ==
    /\ ContractInit
    /\ svc = [status |-> "idle", kind |-> "none", child |-> 0, server |-> 0, stopping |-> FALSE,
              poll |-> FALSE, leaked |-> FALSE, unspawned |-> FALSE,
              pending |-> Nobody, approved |-> Nobody]
    /\ launched = [n \in Launches |-> [state |-> "none", kind |-> "none", request |-> Nobody,
                                       root |-> 0]]
    /\ ops = [o \in Ops |-> Idle]
    /\ active = 1
    /\ asked = [r \in Requests |-> 0]
    /\ unsaved = FALSE
    /\ overlapped = FALSE

-----------------------------------------------------------------------------

Busy == svc.status \in {"starting", "running"}

\* fail()
Failed(s) == [s EXCEPT !.status = "failed", !.poll = FALSE]

Await(o, what) == ops' = [ops EXCEPT ![o] = what]
Return(o) == Await(o, Idle)

Live(n) == launched[n].state = "live"
Dying(n) == launched[n].kind = "dev" /\ launched[n].state = "dying"

\* Another call is under way, or a child has been killed and has not gone yet.
Meeting(o) ==
    \/ \E p \in Ops \ {o} : ops[p] # Idle
    \/ \E n \in Launches : Dying(n)

\* A call is made.
Called(o) ==
    /\ ops[o] = Idle
    /\ overlapped' = (overlapped \/ Meeting(o))

\* A call spawns a child: resolveLaunch does not look whether a preview is running.
Meets(o) == overlapped' = (overlapped \/ Meeting(o) \/ \E n \in Launches : Live(n))

Spawned == {n \in Launches : launched[n].state # "none"}
NextLaunch == Cardinality(Spawned) + 1

\* A new child, or a new server.
Launch(kind, request, root) ==
    /\ NextLaunch \in Launches
    /\ launched' = [launched EXCEPT ![NextLaunch] =
                      [state |-> "live", kind |-> kind, request |-> request, root |-> root]]

-----------------------------------------------------------------------------
(* Starting.                                                                *)

\* startStaticPreview or requestLaunch, up to the await of the project's files: refused
\* while a preview is starting or running.
Begin(o, kind) ==
    /\ Called(o)
    /\ ~Busy
    /\ Await(o, [at |-> "detecting", kind |-> kind, root |-> active])
    /\ UNCHANGED <<contractVars, svc, launched, workspaceVars>>

\* There is nothing to run, or the workspace cannot be confined.  A static preview without
\* its index fails; every other refusal is thrown.
NotDetected(o, fails) ==
    /\ ops[o].at = "detecting"
    /\ fails => ops[o].kind = "static"
    /\ svc' = IF fails THEN Failed(svc) ELSE svc
    /\ Return(o)
    /\ UNCHANGED <<contractVars, launched, workspaceVars, overlapped>>

\* requestLaunch raises the permission request.
LaunchRequested(o, r) ==
    /\ ops[o].at = "detecting" /\ ops[o].kind = "dev"
    /\ Raise(r)
    /\ asked' = [asked EXCEPT ![r] = ops[o].root]
    /\ svc' = [svc EXCEPT !.pending = r]
    /\ Return(o)
    /\ UNCHANGED <<launched, active, unsaved, overlapped>>

\* startStaticPreview goes on, up to the await of the server.
ServerStarts(o) ==
    /\ ops[o].at = "detecting" /\ ops[o].kind = "static"
    /\ svc' = [svc EXCEPT !.status = "starting", !.kind = "static", !.stopping = FALSE,
                          !.unspawned = FALSE]
    /\ Await(o, [at |-> "serving", root |-> ops[o].root])
    /\ UNCHANGED <<contractVars, launched, workspaceVars, overlapped>>

\* The server listens; the preview runs unless it was stopped or failed meanwhile.
ServerListens(o) ==
    /\ ops[o].at = "serving"
    /\ Launch("static", Nobody, ops[o].root)
    /\ svc' = [svc EXCEPT !.server = NextLaunch,
                          !.status = IF @ = "starting" THEN "running" ELSE @,
                          !.poll = IF svc.status = "starting" THEN FALSE ELSE @]
    /\ Return(o)
    /\ UNCHANGED <<contractVars, workspaceVars, overlapped>>

ServerFails(o) ==
    /\ ops[o].at = "serving"
    /\ svc' = Failed(svc)
    /\ Return(o)
    /\ UNCHANGED <<contractVars, launched, workspaceVars, overlapped>>

\* resolveLaunch of the pending request with a Deny, or when the gate has decided already.
LaunchRefused(o, r) ==
    /\ Called(o)
    /\ svc.pending = r
    /\ \/ Decide(r, "deny")
       \/ decision[r] # "pending" /\ UNCHANGED contractVars
    /\ svc' = [svc EXCEPT !.pending = Nobody]
    /\ UNCHANGED <<launched, ops, workspaceVars>>

\* resolveLaunch with an Allow, in the scope "always": the launch is remembered for
\* restart, and doStartDev is called behind the gate, up to its await.  It runs in the
\* workspace that is active then.
LaunchAllowed(o, r) ==
    /\ Called(o)
    /\ svc.pending = r
    /\ Decide(r, "always")
    /\ svc' = [svc EXCEPT !.pending = Nobody, !.approved = r]
    /\ Await(o, [at |-> "launching", request |-> r, root |-> active])
    /\ UNCHANGED <<launched, workspaceVars>>

\* resolveLaunch of another request: only the gate is told.
StaleResolved(o, r, verdict) ==
    /\ Called(o)
    /\ svc.pending # r
    /\ Decide(r, verdict)
    /\ UNCHANGED <<svc, launched, ops, workspaceVars>>

\* The gate's fail-closed timer.
GateTimesOut(r) ==
    /\ Decide(r, "deny")
    /\ UNCHANGED previewVars

\* doStartDev goes on: the child is spawned and the poll loop started.  The loop of an
\* earlier start that is still on is never cancelled any more.
ChildStarts(o) ==
    /\ ops[o].at = "launching"
    /\ Perform(ops[o].request)
    /\ Launch("dev", ops[o].request, ops[o].root)
    /\ svc' = [svc EXCEPT !.status = "starting", !.kind = "dev", !.stopping = FALSE,
                          !.child = NextLaunch, !.poll = TRUE, !.leaked = @ \/ svc.poll,
                          !.unspawned = FALSE]
    /\ Return(o)
    /\ Meets(o)
    /\ UNCHANGED workspaceVars

\* The operating system refuses the child and spawn() throws: the status is set already,
\* and there is neither a child that could exit nor a poll loop.
SpawnThrows(o) ==
    /\ ops[o].at = "launching"
    /\ svc' = [svc EXCEPT !.status = "starting", !.kind = "dev", !.stopping = FALSE,
                          !.unspawned = TRUE]
    /\ Return(o)
    /\ Meets(o)
    /\ UNCHANGED <<contractVars, launched, workspaceVars>>

\* The folder cannot be confined, or no port is free.
ChildRefused(o) ==
    /\ ops[o].at = "launching"
    /\ Return(o)
    /\ UNCHANGED <<contractVars, svc, launched, workspaceVars, overlapped>>

-----------------------------------------------------------------------------
(* The child.                                                               *)

Alive(n) == launched[n].state \in {"live", "dying"}

\* onOutput and the probe of the port: a URL, of whichever child, makes a start succeed.
UrlDetected(n) ==
    /\ launched[n].kind = "dev" /\ Alive(n)
    /\ svc.status = "starting"
    /\ svc' = [svc EXCEPT !.status = "running", !.poll = FALSE]
    /\ UNCHANGED <<contractVars, launched, ops, workspaceVars, overlapped>>

\* onChildExit, of whichever child.
ChildExits(n) ==
    /\ launched[n].kind = "dev" /\ Alive(n)
    /\ launched' = [launched EXCEPT ![n].state = "gone"]
    /\ svc' = IF svc.child = 0 THEN svc
              ELSE IF svc.stopping THEN [svc EXCEPT !.child = 0, !.status = "stopped", !.poll = FALSE]
              ELSE IF Busy THEN [Failed(svc) EXCEPT !.child = 0]
              ELSE [svc EXCEPT !.child = 0]
    /\ UNCHANGED <<contractVars, ops, workspaceVars, overlapped>>

\* The command could not be run.
SpawnFails(n) ==
    /\ launched[n].kind = "dev" /\ launched[n].state = "live"
    /\ launched' = [launched EXCEPT ![n].state = "gone"]
    /\ svc' = [Failed(svc) EXCEPT !.child = IF @ = n THEN 0 ELSE @]
    /\ UNCHANGED <<contractVars, ops, workspaceVars, overlapped>>

\* Mutant: the poll loop only looks for the port.
StartTimesOutNever ==
    /\ svc.status = "starting"
    /\ svc.poll \/ svc.leaked
    /\ UNCHANGED vars

\* The poll loop: the time to start is over, and the child is killed.
StartTimesOut ==
    /\ svc.status = "starting"
    /\ svc.poll \/ svc.leaked
    /\ svc' = [Failed(svc) EXCEPT !.child = 0]
    /\ launched' = [n \in Launches |-> IF n = svc.child THEN [launched[n] EXCEPT !.state = "dying"]
                                       ELSE launched[n]]
    /\ UNCHANGED <<contractVars, ops, workspaceVars, overlapped>>

-----------------------------------------------------------------------------
(* Stopping.                                                                *)

\* What stop() kills and closes.
Doomed == {svc.child, svc.server} \ {0}

\* Mutant: dispose() forgets the request that waits for its answer.
EndedKeepsPending(s, then) ==
    LET stopped == [s EXCEPT !.status = IF @ \in {"starting", "running"} THEN "stopped" ELSE @]
    IN  IF then # "dispose" THEN stopped
        ELSE [stopped EXCEPT !.status = "idle", !.kind = "none", !.approved = Nobody]

\* The rest of stop() and, after it, of dispose().
Ended(s, then) ==
    LET stopped == [s EXCEPT !.status = IF @ \in {"starting", "running"} THEN "stopped" ELSE @]
    IN  IF then # "dispose" THEN stopped
        ELSE [stopped EXCEPT !.status = "idle", !.kind = "none", !.pending = Nobody,
                             !.approved = Nobody]

\* restart() goes on with the kind and the launch it read before it stopped.
Resumed(kind, approved) ==
    IF kind = "static" THEN [at |-> "detecting", kind |-> "static", root |-> active]
    ELSE IF kind = "dev" /\ approved # Nobody
         THEN [at |-> "launching", request |-> approved, root |-> active]
    ELSE Idle

\* Mutant: the child is forgotten, and not killed, when it has not been seen to run.
KilledIfRunning ==
    [n \in Launches |-> IF n \in Doomed /\ svc.status = "running" /\ launched[n].state = "live"
                        THEN [launched[n] EXCEPT !.state = "dying"] ELSE launched[n]]

\* terminateChildTree and close.
Killed ==
    [n \in Launches |-> IF n \in Doomed /\ launched[n].state = "live"
                        THEN [launched[n] EXCEPT !.state = "dying"] ELSE launched[n]]

\* stop(), restart() and dispose(), up to the await of what they end, if there is
\* anything.
Stopping(o, then) ==
    /\ LET stopping == [svc EXCEPT !.stopping = TRUE, !.poll = FALSE, !.child = 0, !.server = 0]
           kind == IF then = "restart" THEN svc.kind ELSE "none"
           approved == IF then = "restart" THEN svc.approved ELSE Nobody
       IN  IF Doomed = {}
           THEN svc' = Ended(stopping, then) /\ Await(o, Resumed(kind, approved))
           ELSE /\ svc' = stopping
                /\ Await(o, [at |-> "stopping", then |-> then, kind |-> kind, approved |-> approved])
    /\ launched' = Killed
    /\ UNCHANGED <<contractVars, workspaceVars>>

\* A call of one of them; dispose() is called by the teardown of the live service.
Stop(o, then) == Called(o) /\ Stopping(o, then)

\* The settings name another workspace, from then on in memory, and are written.  Bound:
\* every change is to a workspace that was not active before.
WorkspaceChanges(o) ==
    /\ Called(o)
    /\ active < MaxWorkspaces
    /\ active' = active + 1
    /\ Await(o, [at |-> "saving"])
    /\ UNCHANGED <<contractVars, svc, launched, asked, unsaved>>

\* They are written: dispose() is called, which nobody awaits.
WorkspaceSaved(o) ==
    /\ ops[o].at = "saving"
    /\ Stopping(o, "dispose")
    /\ UNCHANGED overlapped

\* They could not be written: the request fails before it comes to dispose().
WorkspaceUnsaved(o) ==
    /\ ops[o].at = "saving"
    /\ unsaved' = TRUE
    /\ Return(o)
    /\ UNCHANGED <<contractVars, svc, launched, active, asked, overlapped>>

\* What was ended is gone, or the time for it has passed.
StopReturns(o) ==
    /\ ops[o].at = "stopping"
    /\ svc' = Ended(svc, ops[o].then)
    /\ Await(o, Resumed(ops[o].kind, ops[o].approved))
    /\ UNCHANGED <<contractVars, launched, workspaceVars, overlapped>>

\* A static server that was told to close has closed.
ServerCloses(n) ==
    /\ launched[n].kind = "static" /\ launched[n].state = "dying"
    /\ launched' = [launched EXCEPT ![n].state = "gone"]
    /\ UNCHANGED <<contractVars, svc, ops, workspaceVars, overlapped>>

-----------------------------------------------------------------------------

\* The rest of a call.
Continue(o) ==
    \/ \E fails \in BOOLEAN : NotDetected(o, fails)
    \/ \E r \in Requests : LaunchRequested(o, r)
    \/ ServerStarts(o) \/ ServerListens(o) \/ ServerFails(o)
    \/ ChildStarts(o) \/ SpawnThrows(o) \/ ChildRefused(o)
    \/ WorkspaceSaved(o) \/ WorkspaceUnsaved(o)
    \/ StopReturns(o)

Call(o) ==
    \/ \E kind \in Kinds : Begin(o, kind)
    \/ \E r \in Requests :
          \/ LaunchRefused(o, r) \/ LaunchAllowed(o, r)
          \/ \E verdict \in {"always", "deny"} : StaleResolved(o, r, verdict)
    \/ \E then \in Ends : Stop(o, then)
    \/ WorkspaceChanges(o)

Next ==
    \/ \E o \in Ops : Call(o) \/ Continue(o)
    \/ \E r \in Requests : GateTimesOut(r)
    \/ \E n \in Launches : UrlDetected(n) \/ ChildExits(n) \/ SpawnFails(n) \/ ServerCloses(n)
    \/ StartTimesOut

Spec == Init /\ [][Next]_vars

\* The event loop goes on with what was awaited, and the poll loop runs; nothing is
\* assumed of the children or of the user.
Fairness == WF_vars(StartTimesOut) /\ \A o \in Ops : WF_vars(Continue(o))

LiveSpec == Spec /\ Fairness

-----------------------------------------------------------------------------
(* Properties.                                                              *)

\* "The SINGLE owner of the one active runtime preview": a child or server that runs and
\* was not told to end is the one the service will end.
NoOrphan == \A n \in Launches : Live(n) => n \in {svc.child, svc.server}

\* The service's variables keep their types, and as long as its calls do not overlap, a
\* killed child is given the time to go and a request is not allowed while a preview runs
\* that was started after it was raised, the service loses sight of nothing it started.
PreviewInv == TypeOK /\ (overlapped \/ NoOrphan)

\* Why NoOrphan is kept: while calls do not overlap, only one is under way, a start finds
\* nothing that runs, and what the service refers to is what runs.
OneCall == \A o, p \in Ops : ops[o] # Idle /\ ops[p] # Idle => o = p

NothingRuns == \A n \in Launches : ~Live(n)
NoChildAlive == \A n \in Launches : ~(launched[n].kind = "dev" /\ Alive(n))

CallsInOrder ==
    \A o \in Ops :
        /\ ops[o].at \in {"detecting", "serving", "stopping"} => NothingRuns
        /\ ops[o].at = "detecting" => ~Busy
        /\ ops[o].at = "serving" => svc.status = "starting" /\ NoChildAlive /\ ~svc.poll
        /\ ops[o].at = "detecting" /\ ops[o].kind = "static" => NoChildAlive
        /\ ops[o].at = "stopping" /\ ops[o].kind = "static" => NoChildAlive

OwnsWhatRuns ==
    /\ svc.child # 0 => /\ Live(svc.child) /\ launched[svc.child].kind = "dev"
                        /\ svc.server = 0 /\ \A n \in Launches : ~Dying(n)
    /\ svc.server # 0 => Live(svc.server) /\ launched[svc.server].kind = "static"
    /\ NothingRuns \/ Busy
    /\ svc.kind = "static" => NoChildAlive
    /\ svc.poll => svc.status = "starting" /\ svc.child # 0
    /\ ~svc.leaked

InOrder == NoOrphan /\ OneCall /\ CallsInOrder /\ OwnsWhatRuns

\* "Workspace changed -> tear down any preview confined to the previous workspace": a
\* dev server is started in the workspace its request was raised in, also when it is
\* started by a restart, and what runs, runs in the active workspace, unless that is just
\* being saved.
Saving == \E o \in Ops : ops[o].at = "saving"

RunsWhereAllowed ==
    \A n \in Launches :
        /\ launched[n].kind = "dev" => launched[n].root = asked[launched[n].request]
        /\ Live(n) => launched[n].root = active \/ Saving

\* It holds as long as calls do not overlap and every change of the workspace is saved.
StaysInWorkspace == overlapped \/ unsaved \/ RunsWhereAllowed

\* Why it is kept: but for a change of the workspace that is being carried out, whatever
\* may start a child is of the active workspace.
Changing == Saving \/ \E o \in Ops : ops[o].at = "stopping" /\ ops[o].then = "dispose"

AllowedHere(r) == r # Nobody => asked[r] = active

InWorkspace ==
    /\ RunsWhereAllowed
    /\ \A n \in Launches :
          launched[n].kind = "dev" => launched[n].request \in Requests /\ launched[n].root # 0
    /\ Changing \/ (AllowedHere(svc.pending) /\ AllowedHere(svc.approved))
    /\ \A o \in Ops :
          /\ ops[o].at \in {"detecting", "launching", "serving"} => ops[o].root = active
          /\ ops[o].at = "launching" => AllowedHere(ops[o].request)
          /\ ops[o].at = "stopping" => AllowedHere(ops[o].approved)

AskedIsRaised == \A r \in Requests : asked[r] # 0 => decision[r] # "none"

\* The inductive invariant behind PreviewInv and StaysInWorkspace.
PreviewIInv ==
    /\ TypeOK
    /\ AskedIsRaised
    /\ overlapped \/ InOrder
    /\ overlapped \/ unsaved \/ InWorkspace

\* A start comes to an end: the preview runs, failed or was stopped.  The exception is the
\* start whose child could not be spawned at all.
StartSettles ==
    svc.status = "starting" /\ ~svc.unspawned ~> svc.status # "starting" \/ svc.unspawned

\* Without the exception.
EveryStartSettles == svc.status = "starting" ~> svc.status # "starting"

\* "The one active runtime preview": there is one at a time.
OnePreview == Cardinality({n \in Launches : launched[n].state = "live"}) <= 1

=============================================================================
