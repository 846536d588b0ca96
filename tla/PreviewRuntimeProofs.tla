------------------------ MODULE PreviewRuntimeProofs ------------------------
(***************************************************************************)
(* Proofs about the preview, for every set of requests and of calls and    *)
(* every bound on the launches and workspaces: calls that do not overlap   *)
(* lose nothing they started, and start nothing in another workspace than  *)
(* the one it was allowed for.                                             *)
(***************************************************************************)
EXTENDS PreviewRuntime, FiniteSetTheorems, TLAPS

Calls == {Idle} \union Awaiting
Services ==
    [status : {"idle", "starting", "running", "failed", "stopped"},
     kind : Kinds \union {"none"}, child : 0 .. MaxLaunches, server : 0 .. MaxLaunches,
     stopping : BOOLEAN, poll : BOOLEAN, leaked : BOOLEAN, unspawned : BOOLEAN,
     pending : Requests \union {Nobody}, approved : Requests \union {Nobody}]
Previews ==
    [state : {"none", "live", "dying", "gone"},
     kind : Kinds \union {"none"}, request : Requests \union {Nobody},
     root : 0 .. MaxWorkspaces]

\* What a call awaits is told apart by where it is.
LEMMA CallShape ==
    ASSUME NEW c \in Calls
    PROVE  /\ c.at \in {"idle", "detecting", "launching", "serving", "saving", "stopping"}
           /\ c.at = "idle" <=> c = Idle
           /\ c.at = "detecting" => c.kind \in Kinds
           /\ c.at = "launching" => c.request \in Requests
           /\ c.at \in {"detecting", "launching", "serving"} => c.root \in Workspaces
           /\ c.at = "stopping" => /\ c.then \in Ends /\ c.kind \in Kinds \union {"none"}
                                   /\ c.approved \in Requests \union {Nobody}
  BY DEF Calls, Awaiting, Idle

\* The states a call can be set to.
LEMMA CallTypes ==
    /\ Idle \in Calls
    /\ \A k \in Kinds, w \in Workspaces : [at |-> "detecting", kind |-> k, root |-> w] \in Calls
    /\ \A r \in Requests, w \in Workspaces :
          [at |-> "launching", request |-> r, root |-> w] \in Calls
    /\ \A w \in Workspaces : [at |-> "serving", root |-> w] \in Calls
    /\ [at |-> "saving"] \in Calls
    /\ \A t \in Ends, k \in Kinds \union {"none"}, a \in Requests \union {Nobody} :
          [at |-> "stopping", then |-> t, kind |-> k, approved |-> a] \in Calls
  BY DEF Calls, Awaiting

\* One call goes on and the others stay where they are.
LEMMA AwaitKeeps ==
    ASSUME ops \in [Ops -> Calls], NEW o \in Ops, NEW c \in Calls, Await(o, c)
    PROVE  /\ ops' \in [Ops -> Calls]
           /\ ops'[o] = c
           /\ \A p \in Ops : p # o => ops'[p] = ops[p]
  BY DEF Await

\* The workspace and what is remembered of it.
WorkspaceTypes ==
    active \in Workspaces /\ asked \in [Requests -> 0 .. MaxWorkspaces] /\ unsaved \in BOOLEAN

LEMMA WorkspacesKept ==
    WorkspaceTypes /\ UNCHANGED workspaceVars => WorkspaceTypes'
  BY DEF WorkspaceTypes, workspaceVars

LEMMA WorkspaceNumbers ==
    /\ 1 \in Workspaces /\ 0 \in 0 .. MaxWorkspaces /\ 0 \notin Workspaces
    /\ Workspaces \subseteq 0 .. MaxWorkspaces
  BY PreviewAssumption DEF Workspaces

\* TypeOK in terms of the sets above.
LEMMA TypeParts ==
    TypeOK <=> /\ ContractTypeOK
               /\ svc \in Services
               /\ launched \in [Launches -> Previews]
               /\ ops \in [Ops -> Calls]
               /\ WorkspaceTypes
               /\ overlapped \in BOOLEAN
  BY DEF TypeOK, Services, Previews, Calls, WorkspaceTypes

\* The gate's steps keep its types.
LEMMA ContractSteps ==
    ASSUME ContractTypeOK, NEW r \in Requests
    PROVE  /\ Raise(r) => ContractTypeOK'
           /\ \A v \in Verdicts : Decide(r, v) => ContractTypeOK'
           /\ Perform(r) => ContractTypeOK'
           /\ UNCHANGED contractVars => ContractTypeOK'
  BY DEF ContractTypeOK, Raise, Decide, Perform, contractVars, Verdicts, Allows

\* A launch is given the next number.
LEMMA LaunchType ==
    ASSUME launched \in [Launches -> Previews],
           NEW kind \in Kinds, NEW request \in Requests \union {Nobody}, NEW root \in Workspaces,
           Launch(kind, request, root)
    PROVE  /\ NextLaunch \in Launches
           /\ NextLaunch \in 0 .. MaxLaunches
           /\ launched' \in [Launches -> Previews]
           /\ launched'[NextLaunch] =
                 [state |-> "live", kind |-> kind, request |-> request, root |-> root]
           /\ \A n \in Launches : n # NextLaunch => launched'[n] = launched[n]
  <1>1. [state |-> "live", kind |-> kind, request |-> request, root |-> root] \in Previews
    BY WorkspaceNumbers DEF Previews
  <1>2. NextLaunch \in Launches
    BY DEF Launch
  <1>3. NextLaunch \in 0 .. MaxLaunches
    BY <1>2, PreviewAssumption DEF Launches
  <1>4. QED
    BY <1>1, <1>2, <1>3 DEF Launch

-----------------------------------------------------------------------------
(* Types.                                                                   *)

\* The fields of the service, one by one.
LEMMA ServiceFields ==
    ASSUME NEW s \in Services
    PROVE  /\ s.status \in {"idle", "starting", "running", "failed", "stopped"}
           /\ s.kind \in Kinds \union {"none"}
           /\ s.child \in 0 .. MaxLaunches /\ s.server \in 0 .. MaxLaunches
           /\ s.poll \in BOOLEAN /\ s.leaked \in BOOLEAN
           /\ s.pending \in Requests \union {Nobody} /\ s.approved \in Requests \union {Nobody}
  BY DEF Services

\* What the actions make of the service.
LEMMA ServiceTypes ==
    ASSUME NEW s \in Services
    PROVE  /\ Failed(s) \in Services
           /\ \A n \in 0 .. MaxLaunches : [Failed(s) EXCEPT !.child = n] \in Services
           /\ \A n \in 0 .. MaxLaunches : [s EXCEPT !.child = n] \in Services
           /\ \A r \in Requests \union {Nobody} : [s EXCEPT !.pending = r] \in Services
           /\ \A r \in Requests : [s EXCEPT !.pending = Nobody, !.approved = r] \in Services
           /\ [s EXCEPT !.status = "starting", !.kind = "static", !.stopping = FALSE,
                        !.unspawned = FALSE] \in Services
           /\ [s EXCEPT !.status = "starting", !.kind = "dev", !.stopping = FALSE,
                        !.unspawned = TRUE] \in Services
           /\ [s EXCEPT !.status = "running", !.poll = FALSE] \in Services
           /\ [s EXCEPT !.child = 0, !.status = "stopped", !.poll = FALSE] \in Services
           /\ [s EXCEPT !.stopping = TRUE, !.poll = FALSE, !.child = 0, !.server = 0] \in Services
           /\ \A t \in Ends : Ended(s, t) \in Services
  <1>1. 0 \in 0 .. MaxLaunches
    BY PreviewAssumption
  <1>2. /\ Failed(s) \in Services
        /\ \A n \in 0 .. MaxLaunches : [Failed(s) EXCEPT !.child = n] \in Services
    BY DEF Services, Failed
  <1>3. /\ \A n \in 0 .. MaxLaunches : [s EXCEPT !.child = n] \in Services
        /\ \A r \in Requests \union {Nobody} : [s EXCEPT !.pending = r] \in Services
        /\ \A r \in Requests : [s EXCEPT !.pending = Nobody, !.approved = r] \in Services
    BY DEF Services
  <1>4. /\ [s EXCEPT !.status = "starting", !.kind = "static", !.stopping = FALSE,
                     !.unspawned = FALSE] \in Services
        /\ [s EXCEPT !.status = "starting", !.kind = "dev", !.stopping = FALSE,
                     !.unspawned = TRUE] \in Services
        /\ [s EXCEPT !.status = "running", !.poll = FALSE] \in Services
        /\ [s EXCEPT !.child = 0, !.status = "stopped", !.poll = FALSE] \in Services
        /\ [s EXCEPT !.stopping = TRUE, !.poll = FALSE, !.child = 0, !.server = 0] \in Services
    BY <1>1 DEF Services, Kinds
  <1>5. ASSUME NEW t \in Ends PROVE Ended(s, t) \in Services
    BY DEF Services, Ended, Kinds
  <1>6. QED
    BY <1>2, <1>3, <1>4, <1>5

\* What remains of a call that has stopped the preview.
LEMMA ResumedType ==
    ASSUME active \in Workspaces,
           NEW kind \in Kinds \union {"none"}, NEW approved \in Requests \union {Nobody}
    PROVE  Resumed(kind, approved) \in Calls
  BY CallTypes DEF Resumed, Kinds

\* One launch is given another state.
LEMMA StateType ==
    ASSUME launched \in [Launches -> Previews], NEW n \in Launches,
           NEW state \in {"live", "dying", "gone"},
           launched' = [launched EXCEPT ![n].state = state]
    PROVE  /\ launched' \in [Launches -> Previews]
           /\ launched'[n].state = state
           /\ launched'[n].kind = launched[n].kind /\ launched'[n].request = launched[n].request
           /\ launched'[n].root = launched[n].root
           /\ \A m \in Launches : m # n => launched'[m] = launched[m]
  BY DEF Previews

\* Those that are killed are given another state.
LEMMA KilledType ==
    ASSUME launched \in [Launches -> Previews], NEW D,
           launched' = [n \in Launches |-> IF n \in D THEN [launched[n] EXCEPT !.state = "dying"]
                                           ELSE launched[n]]
    PROVE  /\ launched' \in [Launches -> Previews]
           /\ \A n \in Launches :
                 /\ launched'[n].state = IF n \in D THEN "dying" ELSE launched[n].state
                 /\ launched'[n].kind = launched[n].kind
                 /\ launched'[n].request = launched[n].request
                 /\ launched'[n].root = launched[n].root
  BY DEF Previews

\* The two places where the service kills what it refers to.
LEMMA KilledCases ==
    ASSUME launched \in [Launches -> Previews]
    PROVE  /\ StartTimesOut =>
                 launched' = [n \in Launches |->
                                IF n \in {svc.child} THEN [launched[n] EXCEPT !.state = "dying"]
                                ELSE launched[n]]
           /\ Killed = [n \in Launches |->
                          IF n \in {m \in Doomed : m \in Launches /\ Live(m)}
                          THEN [launched[n] EXCEPT !.state = "dying"] ELSE launched[n]]
  BY DEF StartTimesOut, Killed, Live


LEMMA InitType ==
    Init => TypeOK
  <1>1. ASSUME Init PROVE TypeOK
    <2>1. ContractTypeOK
      BY <1>1 DEF Init, ContractInit, ContractTypeOK
    <2>2. svc \in Services
      BY <1>1, PreviewAssumption DEF Init, Services
    <2>3. launched \in [Launches -> Previews]
      BY <1>1, WorkspaceNumbers DEF Init, Previews
    <2>4. ops \in [Ops -> Calls] /\ WorkspaceTypes /\ overlapped \in BOOLEAN
      BY <1>1, WorkspaceNumbers DEF Init, Calls, WorkspaceTypes
    <2>5. QED
      BY <2>1, <2>2, <2>3, <2>4, TypeParts
  <1>2. QED
    BY <1>1

\* What stop(), restart() and dispose() do at once.
LEMMA TypeStopping ==
    ASSUME TypeOK, NEW o \in Ops, NEW then \in Ends, Stopping(o, then)
    PROVE  /\ ContractTypeOK' /\ svc' \in Services /\ launched' \in [Launches -> Previews]
           /\ ops' \in [Ops -> Calls] /\ WorkspaceTypes'
  <1>0. /\ ContractTypeOK /\ svc \in Services /\ launched \in [Launches -> Previews]
        /\ ops \in [Ops -> Calls] /\ WorkspaceTypes
    BY TypeParts
  <1> USE <1>0, WorkspacesKept
  <1> DEFINE stopping == [svc EXCEPT !.stopping = TRUE, !.poll = FALSE, !.child = 0, !.server = 0]
             kind == IF then = "restart" THEN svc.kind ELSE "none"
             approved == IF then = "restart" THEN svc.approved ELSE Nobody
             waits == [at |-> "stopping", then |-> then, kind |-> kind, approved |-> approved]
  <1>1. stopping \in Services
    BY ServiceTypes
  <1>2. kind \in Kinds \union {"none"} /\ approved \in Requests \union {Nobody}
    BY ServiceFields
  <1>3. \/ svc' = Ended(stopping, then) /\ Await(o, Resumed(kind, approved))
        \/ svc' = stopping /\ Await(o, waits)
    BY DEF Stopping
  <1> HIDE DEF stopping, kind, approved
  <1>4. svc' \in Services
    BY <1>1, <1>3, ServiceTypes
  <1>5. waits \in Calls /\ Resumed(kind, approved) \in Calls
    BY <1>2, CallTypes, ResumedType DEF WorkspaceTypes
  <1>6. ops' \in [Ops -> Calls]
    <2> HIDE DEF waits
    <2>1. QED
      BY <1>3, <1>5, AwaitKeeps
  <1>7. launched' \in [Launches -> Previews]
    BY KilledCases, KilledType DEF Stopping
  <1>8. QED
    BY <1>4, <1>6, <1>7 DEF Stopping, ContractTypeOK, contractVars

\* The actions of a call that goes on.
LEMMA TypeContinue ==
    ASSUME TypeOK, NEW o \in Ops, Continue(o)
    PROVE  TypeOK'
  <1>0. /\ ContractTypeOK /\ svc \in Services /\ launched \in [Launches -> Previews]
        /\ ops \in [Ops -> Calls] /\ WorkspaceTypes /\ overlapped \in BOOLEAN
    BY TypeParts
  <1>01. (/\ ContractTypeOK' /\ svc' \in Services /\ launched' \in [Launches -> Previews]
          /\ ops' \in [Ops -> Calls] /\ WorkspaceTypes' /\ overlapped' \in BOOLEAN) => TypeOK'
    BY DEF TypeOK, Services, Previews, Calls, WorkspaceTypes
  <1> USE <1>0, WorkspacesKept
  <1>1. ops[o] \in Calls
    OBVIOUS
  <1>2. ASSUME NEW fails \in BOOLEAN, NotDetected(o, fails) PROVE TypeOK'
    <2>1. svc' \in Services /\ ops' \in [Ops -> Calls]
      BY <1>2, ServiceTypes, CallTypes, AwaitKeeps DEF NotDetected, Return
    <2>2. QED
      BY <1>2, <2>1, <1>01, ContractSteps DEF NotDetected, ContractTypeOK, contractVars
  <1>3. ASSUME NEW r \in Requests, LaunchRequested(o, r) PROVE TypeOK'
    <2>1. svc' \in Services /\ ops' \in [Ops -> Calls]
      BY <1>3, ServiceTypes, CallTypes, AwaitKeeps DEF LaunchRequested, Return
    <2>2. WorkspaceTypes'
      BY <1>1, <1>3, CallShape, WorkspaceNumbers DEF LaunchRequested, WorkspaceTypes
    <2>3. QED
      BY <1>3, <2>1, <2>2, <1>01, ContractSteps DEF LaunchRequested
  <1>4. ASSUME ServerStarts(o) PROVE TypeOK'
    <2>0. [at |-> "serving", root |-> ops[o].root] \in Calls
      BY <1>1, <1>4, CallShape, CallTypes DEF ServerStarts
    <2>1. svc' \in Services /\ ops' \in [Ops -> Calls]
      BY <1>4, <2>0, ServiceTypes, AwaitKeeps DEF ServerStarts
    <2>2. QED
      BY <1>4, <2>1, <1>01 DEF ServerStarts, ContractTypeOK, contractVars
  <1>5. ASSUME ServerListens(o) PROVE TypeOK'
    <2>0. ops[o].root \in Workspaces
      BY <1>1, <1>5, CallShape DEF ServerListens
    <2>1. launched' \in [Launches -> Previews] /\ NextLaunch \in 0 .. MaxLaunches
      BY <1>5, <2>0, LaunchType DEF ServerListens, Kinds
    <2>2. svc' \in Services
      BY <1>5, <2>1 DEF ServerListens, Services
    <2>3. ops' \in [Ops -> Calls]
      BY <1>5, CallTypes, AwaitKeeps DEF ServerListens, Return
    <2>4. QED
      BY <1>5, <2>1, <2>2, <2>3, <1>01 DEF ServerListens, ContractTypeOK, contractVars
  <1>6. ASSUME ServerFails(o) PROVE TypeOK'
    <2>1. svc' \in Services /\ ops' \in [Ops -> Calls]
      BY <1>6, ServiceTypes, CallTypes, AwaitKeeps DEF ServerFails, Return
    <2>2. QED
      BY <1>6, <2>1, <1>01 DEF ServerFails, ContractTypeOK, contractVars
  <1>7. ASSUME ChildStarts(o) PROVE TypeOK'
    <2>0. ops[o].request \in Requests /\ ops[o].root \in Workspaces
      BY <1>7, <1>1, CallShape DEF ChildStarts
    <2>1. launched' \in [Launches -> Previews] /\ NextLaunch \in 0 .. MaxLaunches
      BY <1>7, <2>0, LaunchType DEF ChildStarts, Kinds
    <2>2. svc' \in Services
      <3> DEFINE l == svc.leaked \/ svc.poll
      <3>1. l \in BOOLEAN
        OBVIOUS
      <3>2. svc' = [svc EXCEPT !.status = "starting", !.kind = "dev", !.stopping = FALSE,
                               !.child = NextLaunch, !.poll = TRUE, !.leaked = l,
                               !.unspawned = FALSE]
        BY <1>7 DEF ChildStarts
      <3> HIDE DEF l
      <3>3. QED
        BY <2>1, <3>1, <3>2 DEF Services, Kinds
    <2>3. ops' \in [Ops -> Calls]
      BY <1>7, CallTypes, AwaitKeeps DEF ChildStarts, Return
    <2>4. ContractTypeOK' /\ overlapped' \in BOOLEAN /\ WorkspaceTypes'
      BY <1>7, <2>0, ContractSteps DEF ChildStarts, Meets
    <2>5. QED
      BY <2>1, <2>2, <2>3, <2>4, <1>01
  <1>8. ASSUME ChildRefused(o) PROVE TypeOK'
    BY <1>8, <1>01, CallTypes, AwaitKeeps DEF ChildRefused, Return, ContractTypeOK, contractVars
  <1>9. ASSUME StopReturns(o) PROVE TypeOK'
    <2>1. /\ ops[o].then \in Ends /\ ops[o].kind \in Kinds \union {"none"}
          /\ ops[o].approved \in Requests \union {Nobody} /\ active \in Workspaces
      BY <1>9, <1>1, CallShape DEF StopReturns, WorkspaceTypes
    <2>2. svc' \in Services /\ ops' \in [Ops -> Calls]
      BY <1>9, <2>1, ServiceTypes, ResumedType, AwaitKeeps DEF StopReturns
    <2>3. QED
      BY <1>9, <2>2, <1>01 DEF StopReturns, ContractTypeOK, contractVars
  <1>10. ASSUME SpawnThrows(o) PROVE TypeOK'
    <2>1. svc' \in Services /\ ops' \in [Ops -> Calls] /\ overlapped' \in BOOLEAN
      BY <1>10, ServiceTypes, CallTypes, AwaitKeeps DEF SpawnThrows, Return, Meets
    <2>2. QED
      BY <1>10, <2>1, <1>01 DEF SpawnThrows, ContractTypeOK, contractVars
  <1>11. ASSUME WorkspaceSaved(o) PROVE TypeOK'
    <2>1. /\ ContractTypeOK' /\ svc' \in Services /\ launched' \in [Launches -> Previews]
          /\ ops' \in [Ops -> Calls] /\ WorkspaceTypes'
      BY <1>11, TypeStopping DEF WorkspaceSaved, Ends
    <2>2. QED
      BY <1>11, <2>1, <1>01 DEF WorkspaceSaved
  <1>12. ASSUME WorkspaceUnsaved(o) PROVE TypeOK'
    <2>1. ops' \in [Ops -> Calls] /\ WorkspaceTypes'
      BY <1>12, CallTypes, AwaitKeeps DEF WorkspaceUnsaved, Return, WorkspaceTypes
    <2>2. QED
      BY <1>12, <2>1, <1>01 DEF WorkspaceUnsaved, ContractTypeOK, contractVars
  <1>13. QED
    BY <1>2, <1>3, <1>4, <1>5, <1>6, <1>7, <1>8, <1>9, <1>10, <1>11, <1>12 DEF Continue

\* The actions that make a call.
LEMMA TypeCall ==
    ASSUME TypeOK, NEW o \in Ops, Call(o)
    PROVE  TypeOK'
  <1>0. /\ ContractTypeOK /\ svc \in Services /\ launched \in [Launches -> Previews]
        /\ ops \in [Ops -> Calls] /\ WorkspaceTypes /\ overlapped \in BOOLEAN
    BY TypeParts
  <1>01. (/\ ContractTypeOK' /\ svc' \in Services /\ launched' \in [Launches -> Previews]
          /\ ops' \in [Ops -> Calls] /\ WorkspaceTypes' /\ overlapped' \in BOOLEAN) => TypeOK'
    BY DEF TypeOK, Services, Previews, Calls, WorkspaceTypes
  <1> USE <1>0, WorkspacesKept
  <1>1. Called(o) => overlapped' \in BOOLEAN
    BY DEF Called
  <1>2. ASSUME NEW kind \in Kinds, Begin(o, kind) PROVE TypeOK'
    <2>1. [at |-> "detecting", kind |-> kind, root |-> active] \in Calls
      BY CallTypes DEF WorkspaceTypes
    <2>2. ops' \in [Ops -> Calls]
      BY <1>2, <2>1, AwaitKeeps DEF Begin
    <2>3. QED
      BY <1>2, <1>1, <1>01, <2>2 DEF Begin, ContractTypeOK, contractVars
  <1>3. ASSUME NEW r \in Requests, LaunchRefused(o, r) PROVE TypeOK'
    <2>1. ContractTypeOK'
      BY <1>3, ContractSteps DEF LaunchRefused, Verdicts
    <2>2. svc' \in Services
      BY <1>3, ServiceTypes DEF LaunchRefused
    <2>3. QED
      BY <1>3, <1>1, <2>1, <2>2, <1>01 DEF LaunchRefused
  <1>4. ASSUME NEW r \in Requests, LaunchAllowed(o, r) PROVE TypeOK'
    <2>1. ContractTypeOK'
      BY <1>4, ContractSteps DEF LaunchAllowed, Verdicts, Allows
    <2>2. [at |-> "launching", request |-> r, root |-> active] \in Calls
      BY CallTypes DEF WorkspaceTypes
    <2>3. svc' \in Services /\ ops' \in [Ops -> Calls]
      BY <1>4, <2>2, ServiceTypes, AwaitKeeps DEF LaunchAllowed
    <2>4. QED
      BY <1>4, <1>1, <2>1, <2>3, <1>01 DEF LaunchAllowed
  <1>5. ASSUME NEW r \in Requests, NEW v \in {"always", "deny"}, StaleResolved(o, r, v)
        PROVE  TypeOK'
    <2>1. ContractTypeOK'
      BY <1>5, ContractSteps DEF StaleResolved, Verdicts, Allows
    <2>2. QED
      BY <1>5, <1>1, <2>1, <1>01 DEF StaleResolved
  <1>6. ASSUME NEW then \in Ends, Stop(o, then) PROVE TypeOK'
    <2>1. /\ ContractTypeOK' /\ svc' \in Services /\ launched' \in [Launches -> Previews]
          /\ ops' \in [Ops -> Calls] /\ WorkspaceTypes'
      BY <1>6, TypeStopping DEF Stop
    <2>2. QED
      BY <1>1, <1>6, <2>1, <1>01 DEF Stop
  <1>8. ASSUME WorkspaceChanges(o) PROVE TypeOK'
    <2>1. ops' \in [Ops -> Calls]
      BY <1>8, CallTypes, AwaitKeeps DEF WorkspaceChanges
    <2>2. WorkspaceTypes'
      BY <1>8, PreviewAssumption DEF WorkspaceChanges, WorkspaceTypes, Workspaces
    <2>3. QED
      BY <1>1, <1>8, <2>1, <2>2, <1>01 DEF WorkspaceChanges, ContractTypeOK, contractVars
  <1>9. QED
    BY <1>2, <1>3, <1>4, <1>5, <1>6, <1>8 DEF Call

\* The service's variables keep their types.
LEMMA TypeStep ==
    TypeOK /\ [Next]_vars => TypeOK'
  <1> SUFFICES ASSUME TypeOK, [Next]_vars PROVE TypeOK'
    OBVIOUS
  <1>0. /\ ContractTypeOK /\ svc \in Services /\ launched \in [Launches -> Previews]
        /\ ops \in [Ops -> Calls] /\ WorkspaceTypes /\ overlapped \in BOOLEAN
    BY TypeParts
  <1>01. (/\ ContractTypeOK' /\ svc' \in Services /\ launched' \in [Launches -> Previews]
          /\ ops' \in [Ops -> Calls] /\ WorkspaceTypes' /\ overlapped' \in BOOLEAN) => TypeOK'
    BY DEF TypeOK, Services, Previews, Calls, WorkspaceTypes
  <1> USE <1>0, WorkspacesKept
  <1>1. 0 \in 0 .. MaxLaunches
    BY PreviewAssumption
  <1>2. ASSUME NEW r \in Requests, GateTimesOut(r) PROVE TypeOK'
    <2>1. ContractTypeOK'
      BY <1>2, ContractSteps DEF GateTimesOut, Verdicts
    <2>2. QED
      BY <1>2, <2>1, <1>01 DEF GateTimesOut, previewVars
  <1>3. ASSUME NEW n \in Launches, UrlDetected(n) PROVE TypeOK'
    <2>1. svc' \in Services
      BY <1>3, ServiceTypes DEF UrlDetected
    <2>2. QED
      BY <1>3, <2>1, <1>01 DEF UrlDetected, ContractTypeOK, contractVars
  <1>4. ASSUME NEW n \in Launches, ChildExits(n) PROVE TypeOK'
    <2>1. svc' \in Services
      BY <1>4, <1>1, ServiceTypes DEF ChildExits
    <2>2. launched' \in [Launches -> Previews]
      BY <1>4, StateType DEF ChildExits
    <2>3. QED
      BY <1>4, <2>1, <2>2, <1>01 DEF ChildExits, ContractTypeOK, contractVars
  <1>5. ASSUME NEW n \in Launches, SpawnFails(n) PROVE TypeOK'
    <2>1. svc' = [Failed(svc) EXCEPT !.child = IF svc.child = n THEN 0 ELSE svc.child]
      BY <1>5 DEF SpawnFails, Failed, Services
    <2>2. svc' \in Services
      BY <2>1, <1>1, ServiceTypes, ServiceFields
    <2>3. launched' \in [Launches -> Previews]
      BY <1>5, StateType DEF SpawnFails
    <2>4. QED
      BY <1>5, <2>2, <2>3, <1>01 DEF SpawnFails, ContractTypeOK, contractVars
  <1>6. ASSUME NEW n \in Launches, ServerCloses(n) PROVE TypeOK'
    <2>1. launched' \in [Launches -> Previews]
      BY <1>6, StateType DEF ServerCloses
    <2>2. QED
      BY <1>6, <2>1, <1>01 DEF ServerCloses, ContractTypeOK, contractVars
  <1>7. ASSUME StartTimesOut PROVE TypeOK'
    <2>1. svc' \in Services
      BY <1>7, <1>1, ServiceTypes DEF StartTimesOut
    <2>2. launched' \in [Launches -> Previews]
      BY <1>7, KilledCases, KilledType
    <2>3. QED
      BY <1>7, <2>1, <2>2, <1>01 DEF StartTimesOut, ContractTypeOK, contractVars
  <1>8. ASSUME UNCHANGED vars PROVE TypeOK'
    BY <1>8, <1>01 DEF vars, previewVars, contractVars, ContractTypeOK
  <1>9. QED
    BY <1>2, <1>3, <1>4, <1>5, <1>6, <1>7, <1>8, TypeContinue, TypeCall DEF Next


-----------------------------------------------------------------------------
(* Calls that do not overlap lose nothing they started.                     *)

\* A call that goes on is the only one, and so is one that meets no other.
LEMMA OneCallKept ==
    ASSUME OneCall, ops \in [Ops -> Calls], NEW o \in Ops, NEW c \in Calls, Await(o, c),
           ops[o] # Idle \/ ~Meeting(o)
    PROVE  OneCall' /\ \A p \in Ops : p # o => ops'[p] = Idle /\ ops[p] = Idle
  <1>1. \A p \in Ops : p # o => ops[p] = Idle
    BY DEF OneCall, Meeting
  <1>2. \A p \in Ops : p # o => ops'[p] = Idle
    BY <1>1, AwaitKeeps
  <1>3. QED
    BY <1>1, <1>2 DEF OneCall

\* What stop(), restart() and dispose() do at once, in the only call or in a new one.
LEMMA OrderStopping ==
    ASSUME TypeOK, TypeOK', InOrder, NEW o \in Ops, NEW then \in Ends, Stopping(o, then),
           ops[o] # Idle \/ ~Meeting(o)
    PROVE  InOrder'
  <1>a. /\ svc \in Services /\ launched \in [Launches -> Previews]
        /\ ops \in [Ops -> Calls] /\ ops[o] \in Calls /\ active \in Workspaces
    BY TypeParts DEF WorkspaceTypes
  <1>b. NoOrphan /\ OneCall /\ CallsInOrder /\ OwnsWhatRuns
    BY DEF InOrder
  <1>c. Idle.at = "idle"
    BY DEF Idle
  <1> DEFINE kind == IF then = "restart" THEN svc.kind ELSE "none"
             approved == IF then = "restart" THEN svc.approved ELSE Nobody
             waits == [at |-> "stopping", then |-> then, kind |-> kind, approved |-> approved]
             resumed == Resumed(kind, approved)
             D == {m \in Doomed : m \in Launches /\ Live(m)}
  <1>1. kind \in Kinds \union {"none"} /\ approved \in Requests \union {Nobody}
    BY <1>a, ServiceFields
  <1>2. \/ Doomed = {} /\ Await(o, resumed)
        \/ Doomed # {} /\ Await(o, waits)
    BY DEF Stopping
  <1>3. /\ svc'.child = 0 /\ svc'.server = 0 /\ svc'.poll = FALSE /\ svc'.leaked = svc.leaked
        /\ svc'.kind \in {svc.kind, "none"}
        /\ Doomed = {} => svc'.status \notin {"starting", "running"}
    <2> DEFINE stopping == [svc EXCEPT !.stopping = TRUE, !.poll = FALSE, !.child = 0, !.server = 0]
               ended == Ended(stopping, then)
    <2>1. IF Doomed = {} THEN svc' = ended ELSE svc' = stopping
      BY DEF Stopping
    <2>2. /\ stopping.child = 0 /\ stopping.server = 0 /\ stopping.poll = FALSE
          /\ stopping.leaked = svc.leaked /\ stopping.kind = svc.kind
      BY <1>a DEF Services
    <2>3. stopping \in Services
      BY <1>a, ServiceTypes
    <2> HIDE DEF stopping
    <2>4. /\ ended.child = stopping.child /\ ended.server = stopping.server
          /\ ended.poll = stopping.poll /\ ended.leaked = stopping.leaked
          /\ ended.kind \in {stopping.kind, "none"}
          /\ ended.status \notin {"starting", "running"}
      BY <2>3 DEF Ended, Services
    <2> HIDE DEF ended
    <2>5. QED
      BY <2>1, <2>2, <2>4
  <1>4. launched' = [n \in Launches |-> IF n \in D THEN [launched[n] EXCEPT !.state = "dying"]
                                        ELSE launched[n]]
    BY <1>a, KilledCases DEF Stopping
  <1>5. \A n \in Launches : (n \in D) <=> Live(n)
    BY <1>b, PreviewAssumption DEF NoOrphan, Doomed, Launches
  <1>6. resumed \in Calls /\ waits \in Calls
    BY <1>a, <1>1, ResumedType, CallTypes
  <1>7. /\ resumed.at \in {"idle", "detecting", "launching"}
        /\ resumed.at = "detecting" => resumed.kind = "static" /\ svc.kind = "static"
    BY <1>c DEF Resumed
  <1>8. waits.at = "stopping" /\ (waits.kind = "static" => svc.kind = "static")
    OBVIOUS
  <1> HIDE DEF kind, approved, waits, resumed, D
  <1>9. \A n \in Launches :
           /\ launched'[n].state = IF n \in D THEN "dying" ELSE launched[n].state
           /\ launched'[n].kind = launched[n].kind
    BY <1>a, <1>4, KilledType
  <1>10. NothingRuns'
    BY <1>5, <1>9 DEF NothingRuns, Live
  <1>11. svc.kind = "static" => NoChildAlive'
    BY <1>b, <1>5, <1>9 DEF OwnsWhatRuns, NoChildAlive, Live, Alive
  <1>12. OneCall' /\ (\A p \in Ops : p # o => ops'[p] = Idle) /\ ops'[o] \in {resumed, waits}
    BY <1>a, <1>b, <1>2, <1>6, OneCallKept, AwaitKeeps
  <1>13. Doomed # {} => ops'[o] = waits
    BY <1>a, <1>2, <1>6, AwaitKeeps
  <1>14. Busy' => Doomed # {}
    BY <1>3 DEF Busy
  <1>15. CASE ops'[o] = waits
    <2>1. CallsInOrder'
      BY <1>c, <1>8, <1>10, <1>11, <1>12, <1>15 DEF CallsInOrder
    <2>2. OwnsWhatRuns' /\ NoOrphan'
      BY <1>b, <1>3, <1>10, <1>11 DEF OwnsWhatRuns, NoOrphan, NothingRuns
    <2>3. QED
      BY <1>12, <2>1, <2>2 DEF InOrder
  <1>16. CASE ops'[o] = resumed /\ Doomed = {}
    <2>1. CallsInOrder'
      BY <1>c, <1>7, <1>10, <1>11, <1>12, <1>14, <1>16 DEF CallsInOrder
    <2>2. OwnsWhatRuns' /\ NoOrphan'
      BY <1>b, <1>3, <1>10, <1>11 DEF OwnsWhatRuns, NoOrphan, NothingRuns
    <2>3. QED
      BY <1>12, <2>1, <2>2 DEF InOrder
  <1>17. QED
    BY <1>12, <1>13, <1>15, <1>16

LEMMA OrderContinue ==
    ASSUME TypeOK, TypeOK', InOrder, NEW o \in Ops, Continue(o), ~overlapped'
    PROVE  InOrder'
  <1>0. /\ svc \in Services /\ launched \in [Launches -> Previews]
        /\ ops \in [Ops -> Calls] /\ ops[o] \in Calls /\ active \in Workspaces
    BY TypeParts DEF WorkspaceTypes
  <1>1. NoOrphan /\ OneCall /\ CallsInOrder /\ OwnsWhatRuns
    BY DEF InOrder
  <1>2. Idle.at = "idle"
    BY DEF Idle
  <1>3. ASSUME NEW fails \in BOOLEAN, NotDetected(o, fails) PROVE InOrder'
    <2>1. ops[o] # Idle
      BY <1>2, <1>3 DEF NotDetected
    <2>2. OneCall' /\ (\A p \in Ops : p # o => ops'[p] = Idle) /\ ops'[o] = Idle
      BY <1>0, <1>1, <1>3, <2>1, CallTypes, OneCallKept, AwaitKeeps DEF NotDetected, Return
    <2>3. /\ svc'.child = svc.child /\ svc'.server = svc.server /\ svc'.kind = svc.kind
          /\ svc'.leaked = svc.leaked
          /\ svc' = svc \/ (svc'.status = "failed" /\ svc'.poll = FALSE)
      BY <1>0, <1>3 DEF NotDetected, Failed, Services
    <2>4. NothingRuns /\ launched' = launched
      BY <1>1, <1>3 DEF NotDetected, CallsInOrder
    <2>5. CallsInOrder'
      BY <1>2, <2>2 DEF CallsInOrder
    <2>6. OwnsWhatRuns'
      BY <1>1, <2>3, <2>4 DEF OwnsWhatRuns, NothingRuns, NoChildAlive, Live, Dying, Alive, Busy
    <2>7. NoOrphan'
      BY <1>1, <2>3, <2>4 DEF NoOrphan, Live
    <2>8. QED
      BY <2>2, <2>5, <2>6, <2>7 DEF InOrder
  <1>4. ASSUME NEW r \in Requests, LaunchRequested(o, r) PROVE InOrder'
    <2>1. ops[o] # Idle
      BY <1>2, <1>4 DEF LaunchRequested
    <2>2. OneCall' /\ (\A p \in Ops : p # o => ops'[p] = Idle) /\ ops'[o] = Idle
      BY <1>0, <1>1, <1>4, <2>1, CallTypes, OneCallKept, AwaitKeeps DEF LaunchRequested, Return
    <2>3. /\ svc'.child = svc.child /\ svc'.server = svc.server /\ svc'.kind = svc.kind
          /\ svc'.leaked = svc.leaked /\ svc'.status = svc.status /\ svc'.poll = svc.poll
      BY <1>0, <1>4 DEF LaunchRequested, Services
    <2>4. launched' = launched
      BY <1>4 DEF LaunchRequested
    <2>5. CallsInOrder'
      BY <1>2, <2>2 DEF CallsInOrder
    <2>6. OwnsWhatRuns'
      BY <1>1, <2>3, <2>4 DEF OwnsWhatRuns, NothingRuns, NoChildAlive, Live, Dying, Alive, Busy
    <2>7. NoOrphan'
      BY <1>1, <2>3, <2>4 DEF NoOrphan, Live
    <2>8. QED
      BY <2>2, <2>5, <2>6, <2>7 DEF InOrder
  <1>5. ASSUME ServerStarts(o) PROVE InOrder'
    <2>1. ops[o] # Idle /\ ops[o].at = "detecting" /\ ops[o].kind = "static"
      BY <1>2, <1>5 DEF ServerStarts
    <2>0. [at |-> "serving", root |-> ops[o].root] \in Calls
      BY <1>0, <2>1, CallShape, CallTypes
    <2>2. /\ OneCall' /\ (\A p \in Ops : p # o => ops'[p] = Idle)
          /\ ops'[o] = [at |-> "serving", root |-> ops[o].root]
      BY <1>0, <1>1, <1>5, <2>0, <2>1, OneCallKept, AwaitKeeps DEF ServerStarts
    <2>3. /\ svc'.child = svc.child /\ svc'.server = svc.server /\ svc'.kind = "static"
          /\ svc'.leaked = svc.leaked /\ svc'.status = "starting" /\ svc'.poll = svc.poll
      BY <1>0, <1>5 DEF ServerStarts, Services
    <2>4. launched' = launched /\ NothingRuns /\ NoChildAlive /\ ~Busy
      BY <1>1, <1>5, <2>1 DEF ServerStarts, CallsInOrder
    <2>5. ~svc.poll /\ svc.child = 0
      BY <1>0, <1>1, <2>4, ServiceFields DEF OwnsWhatRuns, Busy, NothingRuns, Launches
    <2>6. CallsInOrder'
      BY <1>2, <2>2, <2>3, <2>4, <2>5 DEF CallsInOrder, NothingRuns, NoChildAlive, Live, Alive
    <2>7. OwnsWhatRuns'
      BY <1>1, <2>3, <2>4, <2>5 DEF OwnsWhatRuns, NothingRuns, NoChildAlive, Live, Dying, Alive, Busy
    <2>8. NoOrphan'
      BY <1>1, <2>3, <2>4 DEF NoOrphan, Live
    <2>9. QED
      BY <2>2, <2>6, <2>7, <2>8 DEF InOrder
  <1>6. ASSUME ServerListens(o) PROVE InOrder'
    <2> DEFINE new == NextLaunch
    <2>1. ops[o] # Idle /\ ops[o].at = "serving"
      BY <1>2, <1>6 DEF ServerListens
    <2>2. OneCall' /\ (\A p \in Ops : p # o => ops'[p] = Idle) /\ ops'[o] = Idle
      BY <1>0, <1>1, <1>6, <2>1, CallTypes, OneCallKept, AwaitKeeps DEF ServerListens, Return
    <2>3. svc.status = "starting" /\ NothingRuns /\ NoChildAlive /\ ~svc.poll
      BY <1>1, <2>1 DEF CallsInOrder
    <2>4. /\ svc'.child = svc.child /\ svc'.server = new /\ svc'.kind = svc.kind
          /\ svc'.leaked = svc.leaked /\ svc'.status = "running" /\ svc'.poll = FALSE
      BY <1>0, <1>6, <2>3 DEF ServerListens, Services
    <2>5. svc.child = 0
      BY <1>0, <1>1, <2>3, ServiceFields DEF OwnsWhatRuns, NothingRuns, Launches
    <2>6. /\ new \in Launches /\ launched'[new].state = "live" /\ launched'[new].kind = "static"
          /\ \A n \in Launches : n # new => launched'[n] = launched[n]
      <3>1. /\ NextLaunch \in Launches
            /\ launched'[NextLaunch] =
                 [state |-> "live", kind |-> "static", request |-> Nobody, root |-> ops[o].root]
            /\ \A n \in Launches : n # NextLaunch => launched'[n] = launched[n]
        BY <1>0, <1>6, <2>1, CallShape, LaunchType DEF ServerListens, Kinds
      <3>2. QED
        BY <3>1
    <2> HIDE DEF new
    <2>7. CallsInOrder'
      BY <1>2, <2>2 DEF CallsInOrder
    <2>8. OwnsWhatRuns'
      BY <1>1, <2>3, <2>4, <2>5, <2>6
         DEF OwnsWhatRuns, NothingRuns, NoChildAlive, Live, Dying, Alive, Busy
    <2>9. NoOrphan'
      BY <2>3, <2>4, <2>6 DEF NoOrphan, Live, NothingRuns
    <2>10. QED
      BY <2>2, <2>7, <2>8, <2>9 DEF InOrder
  <1>7. ASSUME ServerFails(o) PROVE InOrder'
    <2>1. ops[o] # Idle /\ ops[o].at = "serving"
      BY <1>2, <1>7 DEF ServerFails
    <2>2. OneCall' /\ (\A p \in Ops : p # o => ops'[p] = Idle) /\ ops'[o] = Idle
      BY <1>0, <1>1, <1>7, <2>1, CallTypes, OneCallKept, AwaitKeeps DEF ServerFails, Return
    <2>3. /\ svc'.child = svc.child /\ svc'.server = svc.server /\ svc'.kind = svc.kind
          /\ svc'.leaked = svc.leaked /\ svc'.status = "failed" /\ svc'.poll = FALSE
      BY <1>0, <1>7 DEF ServerFails, Failed, Services
    <2>4. NothingRuns /\ launched' = launched
      BY <1>1, <1>7, <2>1 DEF ServerFails, CallsInOrder
    <2>5. CallsInOrder'
      BY <1>2, <2>2 DEF CallsInOrder
    <2>6. OwnsWhatRuns'
      BY <1>1, <2>3, <2>4 DEF OwnsWhatRuns, NothingRuns, NoChildAlive, Live, Dying, Alive, Busy
    <2>7. NoOrphan'
      BY <1>1, <2>3, <2>4 DEF NoOrphan, Live
    <2>8. QED
      BY <2>2, <2>5, <2>6, <2>7 DEF InOrder
  <1>8. ASSUME ChildStarts(o) PROVE InOrder'
    <2> DEFINE new == NextLaunch
    <2>1. /\ ops[o] # Idle /\ ops[o].at = "launching" /\ ops[o].request \in Requests
          /\ ops[o].root \in Workspaces
      BY <1>0, <1>2, <1>8, CallShape DEF ChildStarts
    <2>2. OneCall' /\ (\A p \in Ops : p # o => ops'[p] = Idle) /\ ops'[o] = Idle
      BY <1>0, <1>1, <1>8, <2>1, CallTypes, OneCallKept, AwaitKeeps DEF ChildStarts, Return
    <2>3. NothingRuns /\ \A n \in Launches : ~Dying(n)
      BY <1>8 DEF ChildStarts, Meets, Meeting, NothingRuns
    <2>4. svc.child = 0 /\ svc.server = 0 /\ ~svc.poll
      BY <1>0, <1>1, <2>3, ServiceFields DEF OwnsWhatRuns, NothingRuns, Launches
    <2>5. /\ svc'.child = new /\ svc'.server = svc.server /\ svc'.kind = "dev"
          /\ svc'.status = "starting" /\ svc'.leaked = (svc.leaked \/ svc.poll)
      BY <1>0, <1>8 DEF ChildStarts, Services
    <2>6. /\ new \in Launches /\ launched'[new].state = "live" /\ launched'[new].kind = "dev"
          /\ \A n \in Launches : n # new => launched'[n] = launched[n]
      <3>1. /\ NextLaunch \in Launches
            /\ launched'[NextLaunch] =
                 [state |-> "live", kind |-> "dev", request |-> ops[o].request,
                  root |-> ops[o].root]
            /\ \A n \in Launches : n # NextLaunch => launched'[n] = launched[n]
        BY <1>0, <1>8, <2>1, LaunchType DEF ChildStarts, Kinds
      <3>2. QED
        BY <3>1
    <2> HIDE DEF new
    <2>7. CallsInOrder'
      BY <1>2, <2>2 DEF CallsInOrder
    <2>8. OwnsWhatRuns'
      <3>1. /\ Live(svc.child)' /\ launched'[svc'.child].kind = "dev" /\ Busy'
            /\ \A n \in Launches : ~Dying(n)'
        BY <2>3, <2>5, <2>6 DEF Live, Dying, Busy
      <3>2. svc'.leaked = FALSE
        BY <1>0, <1>1, <2>4, <2>5, ServiceFields DEF OwnsWhatRuns
      <3>3. svc'.child # 0
        BY <2>5, <2>6, PreviewAssumption DEF Launches
      <3>4. QED
        BY <2>4, <2>5, <3>1, <3>2, <3>3 DEF OwnsWhatRuns
    <2>9. NoOrphan'
      BY <2>3, <2>5, <2>6 DEF NoOrphan, Live, NothingRuns
    <2>10. QED
      BY <2>2, <2>7, <2>8, <2>9 DEF InOrder
  <1>9. ASSUME ChildRefused(o) PROVE InOrder'
    <2>1. ops[o] # Idle
      BY <1>2, <1>9 DEF ChildRefused
    <2>2. OneCall' /\ (\A p \in Ops : p # o => ops'[p] = Idle) /\ ops'[o] = Idle
      BY <1>0, <1>1, <1>9, <2>1, CallTypes, OneCallKept, AwaitKeeps DEF ChildRefused, Return
    <2>3. svc' = svc /\ launched' = launched
      BY <1>9 DEF ChildRefused
    <2>4. CallsInOrder'
      BY <1>2, <2>2 DEF CallsInOrder
    <2>5. OwnsWhatRuns' /\ NoOrphan'
      BY <1>1, <2>3 DEF OwnsWhatRuns, NoOrphan, NothingRuns, NoChildAlive, Live, Dying, Alive, Busy
    <2>6. QED
      BY <2>2, <2>4, <2>5 DEF InOrder
  <1>10. ASSUME StopReturns(o) PROVE InOrder'
    <2> DEFINE c == Resumed(ops[o].kind, ops[o].approved)
    <2>1. /\ ops[o] # Idle /\ ops[o].at = "stopping" /\ ops[o].then \in Ends
          /\ ops[o].kind \in Kinds \union {"none"}
          /\ ops[o].approved \in Requests \union {Nobody}
      BY <1>0, <1>2, <1>10, CallShape DEF StopReturns
    <2>2. c \in Calls
      BY <1>0, <2>1, ResumedType
    <2>3. /\ c.at \in {"idle", "detecting", "launching"}
          /\ c.at = "detecting" => c.kind = "static" /\ ops[o].kind = "static"
      BY <1>2 DEF Resumed
    <2>4. Await(o, c)
      BY <1>10 DEF StopReturns
    <2> HIDE DEF c
    <2>5. OneCall' /\ (\A p \in Ops : p # o => ops'[p] = Idle) /\ ops'[o] = c
      BY <1>0, <1>1, <2>1, <2>2, <2>4, OneCallKept, AwaitKeeps
    <2>6. /\ svc'.child = svc.child /\ svc'.server = svc.server
          /\ svc'.kind \in {svc.kind, "none"}
          /\ svc'.leaked = svc.leaked /\ svc'.status \notin {"starting", "running"}
          /\ svc'.poll = svc.poll
      BY <1>0, <1>10, <2>1 DEF StopReturns, Ended, Services, Ends
    <2>7. NothingRuns /\ launched' = launched /\ (ops[o].kind = "static" => NoChildAlive)
      BY <1>1, <1>10, <2>1 DEF StopReturns, CallsInOrder
    <2>8. svc.child = 0 /\ svc.server = 0 /\ ~svc.poll
      BY <1>0, <1>1, <2>7, ServiceFields DEF OwnsWhatRuns, NothingRuns, Launches
    <2>9. CallsInOrder'
      BY <1>2, <2>3, <2>5, <2>6, <2>7 DEF CallsInOrder, NothingRuns, NoChildAlive, Live, Alive, Busy
    <2>10. OwnsWhatRuns'
      BY <1>1, <2>6, <2>7, <2>8 DEF OwnsWhatRuns, NothingRuns, NoChildAlive, Live, Alive, Busy
    <2>11. NoOrphan'
      BY <2>7 DEF NoOrphan, NothingRuns, Live
    <2>12. QED
      BY <2>5, <2>9, <2>10, <2>11 DEF InOrder
  <1>11. ASSUME SpawnThrows(o) PROVE InOrder'
    <2>1. ops[o] # Idle
      BY <1>2, <1>11 DEF SpawnThrows
    <2>2. OneCall' /\ (\A p \in Ops : p # o => ops'[p] = Idle) /\ ops'[o] = Idle
      BY <1>0, <1>1, <1>11, <2>1, CallTypes, OneCallKept, AwaitKeeps DEF SpawnThrows, Return
    <2>3. NothingRuns /\ \A n \in Launches : ~Dying(n)
      BY <1>11 DEF SpawnThrows, Meets, Meeting, NothingRuns
    <2>4. svc.child = 0 /\ svc.server = 0 /\ ~svc.poll
      BY <1>0, <1>1, <2>3, ServiceFields DEF OwnsWhatRuns, NothingRuns, Launches
    <2>5. /\ svc'.child = svc.child /\ svc'.server = svc.server /\ svc'.kind = "dev"
          /\ svc'.poll = svc.poll /\ svc'.leaked = svc.leaked /\ launched' = launched
      BY <1>0, <1>11 DEF SpawnThrows, Services
    <2>6. CallsInOrder'
      BY <1>2, <2>2 DEF CallsInOrder
    <2>7. OwnsWhatRuns' /\ NoOrphan'
      BY <1>1, <2>3, <2>4, <2>5 DEF OwnsWhatRuns, NoOrphan, NothingRuns, Live
    <2>8. QED
      BY <2>2, <2>6, <2>7 DEF InOrder
  <1>12. ASSUME WorkspaceSaved(o) PROVE InOrder'
    <2>1. ops[o] # Idle
      BY <1>2, <1>12 DEF WorkspaceSaved
    <2>2. QED
      BY <1>12, <2>1, OrderStopping DEF WorkspaceSaved, Ends
  <1>13. ASSUME WorkspaceUnsaved(o) PROVE InOrder'
    <2>1. ops[o] # Idle
      BY <1>2, <1>13 DEF WorkspaceUnsaved
    <2>2. OneCall' /\ (\A p \in Ops : p # o => ops'[p] = Idle) /\ ops'[o] = Idle
      BY <1>0, <1>1, <1>13, <2>1, CallTypes, OneCallKept, AwaitKeeps DEF WorkspaceUnsaved, Return
    <2>3. svc' = svc /\ launched' = launched
      BY <1>13 DEF WorkspaceUnsaved
    <2>4. CallsInOrder'
      BY <1>2, <2>2 DEF CallsInOrder
    <2>5. OwnsWhatRuns' /\ NoOrphan'
      BY <1>1, <2>3 DEF OwnsWhatRuns, NoOrphan, NothingRuns, NoChildAlive, Live, Dying, Alive, Busy
    <2>6. QED
      BY <2>2, <2>4, <2>5 DEF InOrder
  <1>14. QED
    BY <1>3, <1>4, <1>5, <1>6, <1>7, <1>8, <1>9, <1>10, <1>11, <1>12, <1>13 DEF Continue


LEMMA OrderCall ==
    ASSUME TypeOK, TypeOK', InOrder, NEW o \in Ops, Call(o), ~overlapped'
    PROVE  InOrder'
  <1>0. /\ svc \in Services /\ launched \in [Launches -> Previews]
        /\ ops \in [Ops -> Calls] /\ ops[o] \in Calls /\ active \in Workspaces
    BY TypeParts DEF WorkspaceTypes
  <1>1. NoOrphan /\ OneCall /\ CallsInOrder /\ OwnsWhatRuns
    BY DEF InOrder
  <1>2. Idle.at = "idle"
    BY DEF Idle
  <1>3. /\ ops[o] = Idle /\ ~Meeting(o)
        /\ \A n \in Launches : ~Dying(n)
    BY DEF Call, Begin, LaunchRefused, LaunchAllowed, StaleResolved, Stop, WorkspaceChanges,
           Called, Meeting
  <1>4. ASSUME NEW kind \in Kinds, Begin(o, kind) PROVE InOrder'
    <2>1. /\ OneCall' /\ (\A p \in Ops : p # o => ops'[p] = Idle)
          /\ ops'[o] = [at |-> "detecting", kind |-> kind, root |-> active]
      BY <1>0, <1>1, <1>3, <1>4, CallTypes, OneCallKept, AwaitKeeps DEF Begin
    <2>2. svc' = svc /\ launched' = launched /\ ~Busy
      BY <1>4 DEF Begin
    <2>3. NothingRuns
      BY <1>1, <2>2 DEF OwnsWhatRuns
    <2>4. NoChildAlive
      BY <1>3, <2>3 DEF NoChildAlive, NothingRuns, Live, Dying, Alive
    <2>5. CallsInOrder'
      BY <1>2, <2>1, <2>2, <2>3, <2>4 DEF CallsInOrder, NothingRuns, NoChildAlive, Live, Alive, Busy
    <2>6. OwnsWhatRuns' /\ NoOrphan'
      BY <1>1, <2>2 DEF OwnsWhatRuns, NoOrphan, NothingRuns, NoChildAlive, Live, Dying, Alive, Busy
    <2>7. QED
      BY <2>1, <2>5, <2>6 DEF InOrder
  <1>5. ASSUME NEW r \in Requests,
               LaunchRefused(o, r) \/ \E v \in {"always", "deny"} : StaleResolved(o, r, v)
        PROVE  InOrder'
    <2>1. /\ svc'.child = svc.child /\ svc'.server = svc.server /\ svc'.kind = svc.kind
          /\ svc'.leaked = svc.leaked /\ svc'.status = svc.status /\ svc'.poll = svc.poll
      BY <1>0, <1>5 DEF LaunchRefused, StaleResolved, Services
    <2>2. launched' = launched /\ ops' = ops
      BY <1>5 DEF LaunchRefused, StaleResolved
    <2>3. OneCall' /\ CallsInOrder'
      BY <1>1, <2>1, <2>2 DEF OneCall, CallsInOrder, NothingRuns, NoChildAlive, Live, Alive, Busy
    <2>4. OwnsWhatRuns' /\ NoOrphan'
      BY <1>1, <2>1, <2>2 DEF OwnsWhatRuns, NoOrphan, NothingRuns, NoChildAlive, Live, Dying, Alive, Busy
    <2>5. QED
      BY <2>3, <2>4 DEF InOrder
  <1>6. ASSUME NEW r \in Requests, LaunchAllowed(o, r) PROVE InOrder'
    <2>1. /\ OneCall' /\ (\A p \in Ops : p # o => ops'[p] = Idle)
          /\ ops'[o] = [at |-> "launching", request |-> r, root |-> active]
      BY <1>0, <1>1, <1>3, <1>6, CallTypes, OneCallKept, AwaitKeeps DEF LaunchAllowed
    <2>2. /\ svc'.child = svc.child /\ svc'.server = svc.server /\ svc'.kind = svc.kind
          /\ svc'.leaked = svc.leaked /\ svc'.status = svc.status /\ svc'.poll = svc.poll
      BY <1>0, <1>6 DEF LaunchAllowed, Services
    <2>3. launched' = launched
      BY <1>6 DEF LaunchAllowed
    <2>4. CallsInOrder'
      BY <1>2, <2>1 DEF CallsInOrder
    <2>5. OwnsWhatRuns' /\ NoOrphan'
      BY <1>1, <2>2, <2>3 DEF OwnsWhatRuns, NoOrphan, NothingRuns, NoChildAlive, Live, Dying, Alive, Busy
    <2>6. QED
      BY <2>1, <2>4, <2>5 DEF InOrder
  <1>7. ASSUME NEW then \in Ends, Stop(o, then) PROVE InOrder'
    BY <1>3, <1>7, OrderStopping DEF Stop
  <1>8. ASSUME WorkspaceChanges(o) PROVE InOrder'
    <2>1. /\ OneCall' /\ (\A p \in Ops : p # o => ops'[p] = Idle)
          /\ ops'[o] = [at |-> "saving"]
      BY <1>0, <1>1, <1>3, <1>8, CallTypes, OneCallKept, AwaitKeeps DEF WorkspaceChanges
    <2>2. svc' = svc /\ launched' = launched
      BY <1>8 DEF WorkspaceChanges
    <2>3. CallsInOrder'
      BY <1>2, <2>1 DEF CallsInOrder
    <2>4. OwnsWhatRuns' /\ NoOrphan'
      BY <1>1, <2>2 DEF OwnsWhatRuns, NoOrphan, NothingRuns, NoChildAlive, Live, Dying, Alive, Busy
    <2>5. QED
      BY <2>1, <2>3, <2>4 DEF InOrder
  <1>9. QED
    BY <1>4, <1>5, <1>6, <1>7, <1>8 DEF Call

\* The steps of the children, the servers and the poll loop.
LEMMA OrderElse ==
    ASSUME TypeOK, TypeOK', InOrder,
           \/ \E r \in Requests : GateTimesOut(r)
           \/ \E n \in Launches :
                 UrlDetected(n) \/ ChildExits(n) \/ SpawnFails(n) \/ ServerCloses(n)
           \/ StartTimesOut
           \/ UNCHANGED vars
    PROVE  InOrder'
  <1>0. /\ svc \in Services /\ launched \in [Launches -> Previews] /\ ops \in [Ops -> Calls]
        /\ \A p \in Ops : ops[p] \in Calls
    BY TypeParts
  <1>1. NoOrphan /\ OneCall /\ CallsInOrder /\ OwnsWhatRuns
    BY DEF InOrder
  <1>2. ops' = ops /\ OneCall'
    BY <1>1 DEF GateTimesOut, UrlDetected, ChildExits, SpawnFails, ServerCloses, StartTimesOut, vars,
                previewVars, OneCall
  <1>3. CASE (\E r \in Requests : GateTimesOut(r)) \/ UNCHANGED vars
    <2>1. svc' = svc /\ launched' = launched
      BY <1>3 DEF GateTimesOut, vars, previewVars
    <2>2. CallsInOrder'
      BY <1>1, <1>2, <2>1 DEF CallsInOrder, NothingRuns, NoChildAlive, Live, Alive, Busy
    <2>3. OwnsWhatRuns' /\ NoOrphan'
      BY <1>1, <2>1 DEF OwnsWhatRuns, NoOrphan, NothingRuns, NoChildAlive, Live, Dying, Alive, Busy
    <2>4. QED
      BY <1>2, <2>2, <2>3 DEF InOrder
  <1>4. ASSUME NEW n \in Launches, UrlDetected(n) PROVE InOrder'
    <2>1. /\ launched' = launched /\ svc.status = "starting" /\ ~NoChildAlive
          /\ svc'.child = svc.child /\ svc'.server = svc.server /\ svc'.kind = svc.kind
          /\ svc'.leaked = svc.leaked /\ svc'.status = "running" /\ svc'.poll = FALSE
      BY <1>0, <1>4 DEF UrlDetected, Services, NoChildAlive
    <2>2. CallsInOrder'
      BY <1>1, <1>2, <2>1 DEF CallsInOrder, NothingRuns, NoChildAlive, Live, Alive, Busy
    <2>3. OwnsWhatRuns' /\ NoOrphan'
      BY <1>1, <2>1 DEF OwnsWhatRuns, NoOrphan, NothingRuns, NoChildAlive, Live, Dying, Alive, Busy
    <2>4. QED
      BY <1>2, <2>2, <2>3 DEF InOrder
  <1>5. ASSUME NEW n \in Launches, ChildExits(n) \/ SpawnFails(n) PROVE InOrder'
    <2>1. /\ launched[n].kind = "dev" /\ Alive(n)
          /\ launched' = [launched EXCEPT ![n].state = "gone"]
      BY <1>5 DEF ChildExits, SpawnFails, Alive
    <2>2. /\ \A m \in Launches : m # n => launched'[m] = launched[m]
          /\ launched'[n].state = "gone"
      BY <1>0, <2>1, StateType
    <2>3. ~NoChildAlive
      BY <2>1 DEF NoChildAlive
    <2>4. CASE svc.child # 0
      <3>1. Live(n)
        BY <1>1, <2>1, <2>4 DEF OwnsWhatRuns, Live, Dying, Alive
      <3>2. svc.server = 0 /\ svc.child = n
        <4>1. svc.server = 0
          BY <1>1, <2>4 DEF OwnsWhatRuns
        <4>2. n \in {svc.child, svc.server}
          BY <1>1, <3>1 DEF NoOrphan
        <4>3. n # 0
          BY PreviewAssumption DEF Launches
        <4>4. QED
          BY <4>1, <4>2, <4>3
      <3>3. /\ svc'.child = 0 /\ svc'.server = svc.server /\ svc'.kind = svc.kind
            /\ svc'.leaked = svc.leaked
            /\ svc'.status \notin {"starting", "running"}
        <4>1. CASE ChildExits(n)
          <5>1. svc.status \in {"starting", "running"} <=> Busy
            BY DEF Busy
          <5>2. \/ svc' = [svc EXCEPT !.child = 0, !.status = "stopped", !.poll = FALSE]
                \/ svc' = [svc EXCEPT !.status = "failed", !.poll = FALSE, !.child = 0]
                \/ svc' = [svc EXCEPT !.child = 0] /\ ~Busy
            BY <2>4, <4>1 DEF ChildExits, Failed
          <5>3. svc' = [svc EXCEPT !.child = 0, !.status = "stopped", !.poll = FALSE] =>
                  /\ svc'.child = 0 /\ svc'.server = svc.server /\ svc'.kind = svc.kind
                  /\ svc'.leaked = svc.leaked
                  /\ svc'.status \notin {"starting", "running"}
            BY <1>0 DEF Services
          <5>4. svc' = [svc EXCEPT !.status = "failed", !.poll = FALSE, !.child = 0] =>
                  /\ svc'.child = 0 /\ svc'.server = svc.server /\ svc'.kind = svc.kind
                  /\ svc'.leaked = svc.leaked
                  /\ svc'.status \notin {"starting", "running"}
            BY <1>0 DEF Services
          <5>5. svc' = [svc EXCEPT !.child = 0] /\ ~Busy =>
                  /\ svc'.child = 0 /\ svc'.server = svc.server /\ svc'.kind = svc.kind
                  /\ svc'.leaked = svc.leaked
                  /\ svc'.status \notin {"starting", "running"}
            BY <1>0, <5>1 DEF Services
          <5>6. QED
            BY <5>2, <5>3, <5>4, <5>5
        <4>2. CASE SpawnFails(n)
          BY <1>0, <3>2, <4>2 DEF SpawnFails, Failed, Services
        <4>3. QED
          BY <1>5, <4>1, <4>2
      <3>4. svc'.poll = FALSE
        <4>1. svc.poll => Busy
          BY <1>1 DEF OwnsWhatRuns, Busy
        <4>2. \/ svc' = [svc EXCEPT !.child = 0, !.status = "stopped", !.poll = FALSE]
              \/ svc' = [svc EXCEPT !.status = "failed", !.poll = FALSE, !.child = 0]
              \/ svc' = [svc EXCEPT !.child = 0] /\ ~Busy
          <5>1. CASE ChildExits(n)
            BY <2>4, <5>1 DEF ChildExits, Failed
          <5>2. CASE SpawnFails(n)
            <6>1. svc' = [svc EXCEPT !.status = "failed", !.poll = FALSE, !.child = 0]
              BY <3>2, <5>2 DEF SpawnFails, Failed
            <6>2. QED
              BY <6>1
          <5>3. QED
            BY <1>5, <5>1, <5>2
        <4>3. svc.poll \in BOOLEAN
          BY <1>0, ServiceFields
        <4>4. svc' = [svc EXCEPT !.child = 0] /\ ~Busy => svc'.poll = FALSE
          BY <1>0, <4>1, <4>3 DEF Services
        <4>5. svc' = [svc EXCEPT !.child = 0, !.status = "stopped", !.poll = FALSE]
                => svc'.poll = FALSE
          BY <1>0 DEF Services
        <4>6. svc' = [svc EXCEPT !.status = "failed", !.poll = FALSE, !.child = 0]
                => svc'.poll = FALSE
          BY <1>0 DEF Services
        <4>7. QED
          BY <4>2, <4>4, <4>5, <4>6
      <3>5. NothingRuns'
        BY <1>1, <2>2, <3>2, PreviewAssumption DEF NoOrphan, NothingRuns, Live, Launches
      <3>6. \A p \in Ops : ops[p].at \notin {"detecting", "serving", "stopping"}
        BY <1>1, <3>1 DEF CallsInOrder, NothingRuns
      <3>7. CallsInOrder'
        BY <1>2, <3>6 DEF CallsInOrder
      <3>8. OwnsWhatRuns' /\ NoOrphan'
        BY <1>1, <2>3, <3>2, <3>3, <3>4, <3>5 DEF OwnsWhatRuns, NoOrphan, NothingRuns
      <3>9. QED
        BY <1>2, <3>7, <3>8 DEF InOrder
    <2>5. CASE svc.child = 0
      <3>1. ~Live(n)
        BY <1>1, <2>1, <2>5, PreviewAssumption DEF NoOrphan, OwnsWhatRuns, Live, Launches
      <3>2. ChildExits(n) /\ svc' = svc
        BY <1>5, <2>5, <3>1 DEF SpawnFails, ChildExits, Live
      <3>3. \A m \in Launches : Live(m)' <=> Live(m)
        BY <2>2, <3>1 DEF Live
      <3>4. svc.server \in 0 .. MaxLaunches
        BY <1>0, ServiceFields
      <3>5. CallsInOrder'
        BY <1>1, <1>2, <2>3, <3>2, <3>3 DEF CallsInOrder, NothingRuns, Busy
      <3>6. OwnsWhatRuns'
        <4>1. svc.server # 0 => svc.server \in Launches /\ launched'[svc.server] = launched[svc.server]
          BY <1>1, <2>1, <2>2, <3>4, PreviewAssumption DEF OwnsWhatRuns, Launches
        <4>2. QED
          BY <1>1, <2>3, <2>5, <3>2, <3>3, <4>1 DEF OwnsWhatRuns, NothingRuns, Busy, Live
      <3>7. NoOrphan'
        BY <1>1, <3>2, <3>3 DEF NoOrphan
      <3>8. QED
        BY <1>2, <3>5, <3>6, <3>7 DEF InOrder
    <2>6. QED
      BY <2>4, <2>5
  <1>6. ASSUME NEW n \in Launches, ServerCloses(n) PROVE InOrder'
    <2>1. /\ launched[n].kind = "static" /\ launched[n].state = "dying" /\ svc' = svc
          /\ launched' = [launched EXCEPT ![n].state = "gone"]
      BY <1>6 DEF ServerCloses
    <2>2. /\ \A m \in Launches : m # n => launched'[m] = launched[m]
          /\ launched'[n].state = "gone" /\ launched'[n].kind = "static"
      BY <1>0, <2>1, StateType
    <2>3. \A m \in Launches : /\ Live(m)' <=> Live(m)
                              /\ Dying(m)' <=> Dying(m)
                              /\ launched'[m].kind = launched[m].kind
      BY <2>1, <2>2 DEF Live, Dying
    <2>4. (NothingRuns' <=> NothingRuns) /\ (NoChildAlive' <=> NoChildAlive)
      BY <2>1, <2>2, <2>3 DEF NothingRuns, NoChildAlive, Alive, Live
    <2>5. CallsInOrder'
      BY <1>1, <1>2, <2>1, <2>4 DEF CallsInOrder, Busy
    <2>6. (svc.child # 0 => svc.child \in Launches) /\ (svc.server # 0 => svc.server \in Launches)
      BY <1>0, ServiceFields, PreviewAssumption DEF Launches
    <2>7. OwnsWhatRuns'
      <3>1. svc.child # 0 => /\ Live(svc.child)' <=> Live(svc.child)
                             /\ launched'[svc.child].kind = launched[svc.child].kind
        BY <2>1, <2>3, <2>6 DEF Live
      <3>2. svc.server # 0 => /\ Live(svc.server)' <=> Live(svc.server)
                              /\ launched'[svc.server].kind = launched[svc.server].kind
        BY <2>1, <2>3, <2>6 DEF Live
      <3>3. QED
        BY <1>1, <2>1, <2>3, <2>4, <3>1, <3>2 DEF OwnsWhatRuns, Busy, Live
    <2>8. NoOrphan'
      BY <1>1, <2>1, <2>3 DEF NoOrphan
    <2>9. QED
      BY <1>2, <2>5, <2>7, <2>8 DEF InOrder
  <1>7. ASSUME StartTimesOut PROVE InOrder'
    <2>1. svc.poll /\ svc.status = "starting" /\ svc.child # 0
      BY <1>1, <1>7 DEF StartTimesOut, OwnsWhatRuns
    <2>2. /\ Live(svc.child) /\ svc.server = 0 /\ launched[svc.child].kind = "dev"
          /\ svc.child \in Launches
      BY <1>0, <1>1, <2>1, ServiceFields, PreviewAssumption DEF OwnsWhatRuns, Launches
    <2>3. /\ svc'.child = 0 /\ svc'.server = 0 /\ svc'.kind = svc.kind /\ svc'.leaked = svc.leaked
          /\ svc'.status = "failed" /\ svc'.poll = FALSE
      BY <1>0, <1>7, <2>2 DEF StartTimesOut, Failed, Services
    <2> DEFINE D == {svc.child}
    <2>4. launched' = [n \in Launches |-> IF n \in D THEN [launched[n] EXCEPT !.state = "dying"]
                                          ELSE launched[n]]
      BY <1>0, <1>7, KilledCases
    <2>5. \A n \in Launches : Live(n) => n \in D
      BY <1>1, <2>2, PreviewAssumption DEF NoOrphan, Launches
    <2> HIDE DEF D
    <2>6. \A n \in Launches :
             launched'[n].state = IF n \in D THEN "dying" ELSE launched[n].state
      BY <1>0, <2>4, KilledType
    <2>7. NothingRuns'
      BY <2>5, <2>6 DEF NothingRuns, Live
    <2>8. \A p \in Ops : ops[p].at \notin {"detecting", "serving", "stopping"}
      BY <1>1, <2>2 DEF CallsInOrder, NothingRuns
    <2>9. svc.kind # "static"
      BY <1>1, <2>2 DEF OwnsWhatRuns, NoChildAlive, Alive, Live
    <2>10. CallsInOrder'
      BY <1>2, <2>8 DEF CallsInOrder
    <2>11. OwnsWhatRuns' /\ NoOrphan'
      BY <1>1, <2>3, <2>7, <2>9 DEF OwnsWhatRuns, NoOrphan, NothingRuns
    <2>12. QED
      BY <1>2, <2>10, <2>11 DEF InOrder
  <1>8. QED
    BY <1>3, <1>4, <1>5, <1>6, <1>7


\* A step never makes calls that overlapped forget that they did.
LEMMA OverlapIsKept ==
    ASSUME TypeOK, [Next]_vars, overlapped
    PROVE  overlapped'
  BY DEF Next, vars, previewVars, Call, Begin, LaunchRefused, LaunchAllowed, StaleResolved, Stop,
         WorkspaceChanges, WorkspaceSaved, WorkspaceUnsaved, Stopping, SpawnThrows,
         Called, Continue, NotDetected, LaunchRequested, ServerStarts, ServerListens, ServerFails,
         ChildStarts, Meets, ChildRefused, StopReturns, GateTimesOut, UrlDetected, ChildExits,
         SpawnFails, ServerCloses, StartTimesOut

-----------------------------------------------------------------------------
(* Nothing is started in a workspace other than the one it was allowed for. *)

\* What was asked for has been raised with the gate, whatever happens.
LEMMA AskedStep ==
    ASSUME TypeOK, AskedIsRaised, [Next]_vars
    PROVE  AskedIsRaised'
  <1>0. ContractTypeOK /\ WorkspaceTypes
    BY TypeParts
  <1>1. CASE \E o \in Ops, r \in Requests : LaunchRequested(o, r)
    BY <1>0, <1>1 DEF AskedIsRaised, LaunchRequested, Raise, ContractTypeOK, WorkspaceTypes
  <1>2. CASE asked' = asked /\ UNCHANGED contractVars
    BY <1>2 DEF AskedIsRaised, contractVars
  <1>3. CASE asked' = asked /\ \E r \in Requests, v \in Verdicts : Decide(r, v)
    BY <1>0, <1>3 DEF AskedIsRaised, Decide, ContractTypeOK, Verdicts, Allows
  <1>4. CASE asked' = asked /\ decision' = decision
    BY <1>4 DEF AskedIsRaised
  <1>5. ASSUME NEW o \in Ops, Continue(o)
        PROVE  \/ \E r \in Requests : LaunchRequested(o, r)
               \/ asked' = asked /\ decision' = decision
    BY <1>5 DEF Continue, NotDetected, ServerStarts, ServerListens, ServerFails, ChildStarts, Perform,
                SpawnThrows, ChildRefused, WorkspaceSaved, Stopping, WorkspaceUnsaved, StopReturns,
                contractVars, workspaceVars
  <1>6. ASSUME NEW o \in Ops, Call(o)
        PROVE  /\ asked' = asked
               /\ \/ decision' = decision
                  \/ \E r \in Requests, v \in Verdicts : Decide(r, v)
    BY <1>6 DEF Call, Begin, LaunchRefused, LaunchAllowed, StaleResolved, Stop, Stopping,
                WorkspaceChanges, contractVars, workspaceVars, Verdicts, Allows
  <1>7. ASSUME NEW r \in Requests, GateTimesOut(r)
        PROVE  asked' = asked /\ \E v \in Verdicts : Decide(r, v)
    BY <1>7 DEF GateTimesOut, previewVars, workspaceVars, Verdicts
  <1>8. ASSUME \/ \E n \in Launches :
                     UrlDetected(n) \/ ChildExits(n) \/ SpawnFails(n) \/ ServerCloses(n)
               \/ StartTimesOut
               \/ UNCHANGED vars
        PROVE  asked' = asked /\ decision' = decision
    BY <1>8 DEF UrlDetected, ChildExits, SpawnFails, ServerCloses, StartTimesOut, vars, previewVars,
                contractVars, workspaceVars
  <1>9. QED
    BY <1>1, <1>3, <1>4, <1>5, <1>6, <1>7, <1>8 DEF Next

\* No launch is new, and none that had ended runs again.
NoneNew ==
    \A n \in Launches : /\ launched'[n].kind = launched[n].kind
                        /\ launched'[n].request = launched[n].request
                        /\ launched'[n].root = launched[n].root
                        /\ Live(n)' => Live(n)

DevsAreAsked ==
    \A n \in Launches :
        launched[n].kind = "dev" => launched[n].request \in Requests /\ launched[n].root # 0

\* Steps that launch nothing leave what runs where it was allowed.
LEMMA StayWhereAllowed ==
    ASSUME RunsWhereAllowed, DevsAreAsked, NoneNew, asked' = asked,
           (active' = active /\ (Saving => Saving')) \/ NothingRuns' \/ Saving'
    PROVE  RunsWhereAllowed' /\ DevsAreAsked'
  <1>1. \A n \in Launches : Live(n)' => launched'[n].root = active' \/ Saving'
    BY DEF RunsWhereAllowed, NoneNew, NothingRuns
  <1>2. QED
    BY <1>1 DEF RunsWhereAllowed, DevsAreAsked, NoneNew

\* Stopping ends all that runs.
LEMMA NothingOutlives ==
    ASSUME launched \in [Launches -> Previews], NoOrphan,
           NEW o \in Ops, NEW then \in Ends, Stopping(o, then)
    PROVE  NoneNew /\ NothingRuns'
  <1> DEFINE D == {m \in Doomed : m \in Launches /\ Live(m)}
  <1>1. launched' = [n \in Launches |-> IF n \in D THEN [launched[n] EXCEPT !.state = "dying"]
                                        ELSE launched[n]]
    BY KilledCases DEF Stopping
  <1>2. \A n \in Launches : (n \in D) <=> Live(n)
    BY PreviewAssumption DEF NoOrphan, Doomed, Launches
  <1> HIDE DEF D
  <1>3. \A n \in Launches :
           /\ launched'[n].state = IF n \in D THEN "dying" ELSE launched[n].state
           /\ launched'[n].kind = launched[n].kind
           /\ launched'[n].request = launched[n].request
           /\ launched'[n].root = launched[n].root
    BY <1>1 DEF Previews
  <1>4. \A n \in Launches : launched'[n].state # "live"
    BY <1>2, <1>3 DEF Live
  <1>5. QED
    BY <1>3, <1>4 DEF NoneNew, NothingRuns, Live

\* stop(), restart() and dispose(), in the only call or in a new one.
LEMMA PlaceStopping ==
    ASSUME TypeOK, TypeOK', InOrder, InOrder', InWorkspace, NEW o \in Ops, NEW then \in Ends,
           Stopping(o, then), ops[o] # Idle \/ ~Meeting(o),
           \/ then = "dispose"
           \/ ~Changing
    PROVE  InWorkspace'
  <1>0. /\ svc \in Services /\ launched \in [Launches -> Previews]
        /\ ops \in [Ops -> Calls] /\ ops[o] \in Calls /\ active \in Workspaces
    BY TypeParts DEF WorkspaceTypes
  <1> DEFINE kind == IF then = "restart" THEN svc.kind ELSE "none"
             approved == IF then = "restart" THEN svc.approved ELSE Nobody
             waits == [at |-> "stopping", then |-> then, kind |-> kind, approved |-> approved]
             resumed == Resumed(kind, approved)
             stopping == [svc EXCEPT !.stopping = TRUE, !.poll = FALSE, !.child = 0, !.server = 0]
  <1>1. kind \in Kinds \union {"none"} /\ approved \in Requests \union {Nobody}
    BY <1>0, ServiceFields
  <1>2. \/ Doomed = {} /\ svc' = Ended(stopping, then) /\ Await(o, resumed)
        \/ Doomed # {} /\ svc' = stopping /\ Await(o, waits)
    BY DEF Stopping
  <1>3. resumed \in Calls /\ waits \in Calls
    BY <1>0, <1>1, ResumedType, CallTypes
  <1>4. active' = active /\ asked' = asked
    BY DEF Stopping, workspaceVars
  <1>5. then # "dispose" => AllowedHere(svc.pending) /\ AllowedHere(svc.approved)
    BY DEF InWorkspace
  <1>6. AllowedHere(approved)
    BY <1>5 DEF AllowedHere, Ends
  <1>7. /\ stopping.pending = svc.pending /\ stopping.approved = svc.approved
        /\ stopping \in Services
    <2>1. stopping \in Services
      BY <1>0, ServiceTypes
    <2>2. stopping.pending = svc.pending /\ stopping.approved = svc.approved
      BY <1>0 DEF Services
    <2>3. QED
      BY <2>1, <2>2
  <1>8. /\ resumed.at \in {"idle", "detecting", "launching"}
        /\ resumed.at # "idle" => resumed.root = active
        /\ resumed.at = "launching" => resumed.request = approved
        /\ then = "dispose" => resumed = Idle
    BY DEF Resumed, Idle
  <1>9. /\ waits.at = "stopping" /\ waits.approved = approved /\ waits.then = then
    OBVIOUS
  <1> HIDE DEF kind, approved, waits, resumed, stopping
  <1>10. /\ Ended(stopping, then).pending = IF then = "dispose" THEN Nobody ELSE svc.pending
         /\ Ended(stopping, then).approved = IF then = "dispose" THEN Nobody ELSE svc.approved
    BY <1>7 DEF Ended, Services
  <1>11. NoneNew /\ NothingRuns'
    BY <1>0, NothingOutlives DEF InOrder
  <1>12. RunsWhereAllowed' /\ DevsAreAsked'
    BY <1>4, <1>11, StayWhereAllowed DEF InWorkspace, DevsAreAsked
  <1>13. /\ \A p \in Ops : p # o => ops'[p] = Idle
         /\ Doomed = {} => ops'[o] = resumed
         /\ Doomed # {} => ops'[o] = waits
    BY <1>0, <1>2, <1>3, OneCallKept, AwaitKeeps DEF InOrder
  <1>14. Idle.at = "idle"
    BY DEF Idle
  <1>15. \A p \in Ops :
            /\ ops'[p].at \in {"detecting", "launching", "serving"} => ops'[p].root = active'
            /\ ops'[p].at = "launching" => AllowedHere(ops[p].request)'
            /\ ops'[p].at = "stopping" => AllowedHere(ops[p].approved)'
    BY <1>4, <1>6, <1>8, <1>9, <1>13, <1>14 DEF AllowedHere
  <1>16. Changing' \/ (AllowedHere(svc.pending)' /\ AllowedHere(svc.approved)')
    <2>1. CASE Doomed # {} /\ then = "dispose"
      BY <1>9, <1>13, <2>1 DEF Changing
    <2>2. CASE Doomed = {} /\ then = "dispose"
      BY <1>2, <1>10, <2>2 DEF AllowedHere
    <2>3. CASE then # "dispose"
      BY <1>2, <1>4, <1>5, <1>7, <1>10, <2>3 DEF AllowedHere
    <2>4. QED
      BY <2>1, <2>2, <2>3
  <1>17. QED
    BY <1>12, <1>15, <1>16 DEF InWorkspace, DevsAreAsked

\* A call that goes on.
LEMMA PlaceContinue ==
    ASSUME TypeOK, TypeOK', InOrder, InOrder', InWorkspace, AskedIsRaised,
           NEW o \in Ops, Continue(o), ~overlapped', ~unsaved'
    PROVE  InWorkspace'
  <1>0. /\ svc \in Services /\ launched \in [Launches -> Previews] /\ ContractTypeOK
        /\ ops \in [Ops -> Calls] /\ ops[o] \in Calls /\ WorkspaceTypes
    BY TypeParts
  <1>1. RunsWhereAllowed /\ DevsAreAsked /\ OneCall
    BY DEF InWorkspace, DevsAreAsked, InOrder
  <1>2. Idle.at = "idle"
    BY DEF Idle
  <1>3. ops[o] # Idle
    BY <1>2 DEF Continue, NotDetected, LaunchRequested, ServerStarts, ServerListens, ServerFails,
                ChildStarts, SpawnThrows, ChildRefused, WorkspaceSaved, WorkspaceUnsaved, StopReturns
  <1>4. \A p \in Ops : p # o => ops[p] = Idle
    BY <1>1, <1>3 DEF OneCall
  <1>5. ASSUME ops[o].at \in {"detecting", "launching", "serving"}
        PROVE  /\ AllowedHere(svc.pending) /\ AllowedHere(svc.approved)
               /\ ops[o].root = active
               /\ ops[o].at = "launching" => AllowedHere(ops[o].request)
               /\ ~Saving
    BY <1>2, <1>4, <1>5 DEF InWorkspace, Changing, Saving
  <1>6. ASSUME Return(o)
        PROVE  /\ \A p \in Ops : ops'[p] = Idle
               /\ ~Saving'
    <2>1. \A p \in Ops : ops'[p] = Idle
      BY <1>0, <1>4, <1>6, CallTypes, AwaitKeeps DEF Return
    <2>2. QED
      BY <1>2, <2>1 DEF Saving
  <1>7. ASSUME Return(o), AllowedHere(svc.pending)', AllowedHere(svc.approved)',
               RunsWhereAllowed', DevsAreAsked'
        PROVE  InWorkspace'
    BY <1>2, <1>6, <1>7 DEF InWorkspace, DevsAreAsked
  <1>8. ASSUME launched' = launched, active' = active, asked' = asked,
               ops[o].at \in {"detecting", "launching", "serving"}
        PROVE  RunsWhereAllowed' /\ DevsAreAsked'
    <2>1. NoneNew
      BY <1>8 DEF NoneNew, Live
    <2>2. QED
      BY <1>1, <1>5, <1>8, <2>1, StayWhereAllowed
  <1>9. ASSUME (\E fails \in BOOLEAN : NotDetected(o, fails)) \/ ServerFails(o) \/ SpawnThrows(o)
               \/ ChildRefused(o)
        PROVE  InWorkspace'
    <2>1. svc'.pending = svc.pending /\ svc'.approved = svc.approved
      BY <1>0, <1>9 DEF NotDetected, ServerFails, SpawnThrows, ChildRefused, Failed, Services
    <2>2. /\ Return(o) /\ ops[o].at \in {"detecting", "launching", "serving"}
          /\ launched' = launched /\ active' = active /\ asked' = asked
      BY <1>9 DEF NotDetected, ServerFails, SpawnThrows, ChildRefused, workspaceVars
    <2>3. AllowedHere(svc.pending)' /\ AllowedHere(svc.approved)'
      BY <1>5, <2>1, <2>2 DEF AllowedHere
    <2>4. QED
      BY <1>7, <1>8, <2>2, <2>3
  <1>10. ASSUME NEW r \in Requests, LaunchRequested(o, r) PROVE InWorkspace'
    <2>1. /\ Return(o) /\ ops[o].at = "detecting" /\ launched' = launched /\ active' = active
          /\ asked' = [asked EXCEPT ![r] = ops[o].root] /\ decision[r] = "none"
      BY <1>10 DEF LaunchRequested, Raise
    <2>2. svc'.pending = r /\ svc'.approved = svc.approved
      BY <1>0, <1>10 DEF LaunchRequested, Services
    <2>3. asked'[r] = active /\ \A q \in Requests : q # r => asked'[q] = asked[q]
      BY <1>0, <1>5, <2>1 DEF WorkspaceTypes
    <2>4. asked[r] = 0
      BY <2>1 DEF AskedIsRaised
    <2>5. AllowedHere(svc.pending)'
      BY <2>1, <2>2, <2>3 DEF AllowedHere
    <2>6. AllowedHere(svc.approved)'
      <3>1. svc.approved \in Requests \union {Nobody} /\ active # 0
        BY <1>0, ServiceFields, WorkspaceNumbers DEF WorkspaceTypes
      <3>2. QED
        BY <1>5, <2>1, <2>2, <2>3, <2>4, <3>1 DEF AllowedHere
    <2>7. RunsWhereAllowed' /\ DevsAreAsked'
      <3>1. \A n \in Launches : launched[n].kind = "dev" =>
                                   asked'[launched[n].request] = asked[launched[n].request]
        BY <1>1, <2>3, <2>4 DEF RunsWhereAllowed, DevsAreAsked
      <3>2. QED
        BY <1>1, <1>5, <2>1, <3>1 DEF RunsWhereAllowed, DevsAreAsked, Live
    <2>8. QED
      BY <1>7, <2>1, <2>5, <2>6, <2>7
  <1>11. ASSUME ServerStarts(o) PROVE InWorkspace'
    <2>1. /\ ops[o].at = "detecting" /\ launched' = launched /\ active' = active /\ asked' = asked
          /\ Await(o, [at |-> "serving", root |-> ops[o].root])
      BY <1>11 DEF ServerStarts, workspaceVars
    <2>2. svc'.pending = svc.pending /\ svc'.approved = svc.approved
      BY <1>0, <1>11 DEF ServerStarts, Services
    <2>3. [at |-> "serving", root |-> ops[o].root] \in Calls
      BY <1>0, <2>1, CallShape, CallTypes
    <2>4. \A p \in Ops : ops'[p] = IF p = o THEN [at |-> "serving", root |-> ops[o].root] ELSE Idle
      BY <1>0, <1>4, <2>1, <2>3, AwaitKeeps
    <2>5. AllowedHere(svc.pending)' /\ AllowedHere(svc.approved)'
      BY <1>5, <2>1, <2>2 DEF AllowedHere
    <2>6. QED
      BY <1>2, <1>5, <1>8, <2>1, <2>4, <2>5 DEF InWorkspace, DevsAreAsked
  <1>12. ASSUME ServerListens(o) \/ ChildStarts(o) PROVE InWorkspace'
    <2> DEFINE new == NextLaunch
               kind == IF ops[o].at = "serving" THEN "static" ELSE "dev"
               request == IF ops[o].at = "serving" THEN Nobody ELSE ops[o].request
    <2>1. /\ Return(o) /\ ops[o].at \in {"launching", "serving"}
          /\ active' = active /\ asked' = asked
          /\ Launch(kind, request, ops[o].root)
      BY <1>12 DEF ServerListens, ChildStarts, workspaceVars
    <2>2. svc'.pending = svc.pending /\ svc'.approved = svc.approved
      BY <1>0, <1>12 DEF ServerListens, ChildStarts, Services
    <2>3. /\ ops[o].root \in Workspaces /\ request \in Requests \union {Nobody} /\ kind \in Kinds
          /\ kind = "dev" => request \in Requests /\ AllowedHere(request)
      BY <1>0, <1>5, <2>1, CallShape DEF Kinds
    <2> HIDE DEF kind, request
    <2>4. /\ launched'[new] =
               [state |-> "live", kind |-> kind, request |-> request, root |-> ops[o].root]
          /\ \A n \in Launches : n # new => launched'[n] = launched[n]
      BY <1>0, <2>1, <2>3, LaunchType
    <2> HIDE DEF new
    <2>5. \A n \in Launches : /\ n # new => launched'[n] = launched[n]
                              /\ n = new => /\ launched'[n].kind = kind
                                            /\ launched'[n].request = request
                                            /\ launched'[n].root = active
      BY <1>5, <2>1, <2>4
    <2>6. ops[o].root = active /\ active # 0 /\ ~Saving
      BY <1>0, <1>5, <2>1, WorkspaceNumbers DEF WorkspaceTypes
    <2>7. kind = "dev" => asked[request] = active
      BY <2>3, PreviewAssumption DEF AllowedHere
    <2>8. RunsWhereAllowed' /\ DevsAreAsked'
      BY <1>1, <2>1, <2>3, <2>5, <2>6, <2>7 DEF RunsWhereAllowed, DevsAreAsked, Live
    <2>9. AllowedHere(svc.pending)' /\ AllowedHere(svc.approved)'
      BY <1>5, <2>1, <2>2 DEF AllowedHere
    <2>10. QED
      BY <1>7, <2>1, <2>8, <2>9
  <1>13. ASSUME WorkspaceSaved(o) PROVE InWorkspace'
    BY <1>3, <1>13, PlaceStopping DEF WorkspaceSaved, Ends
  <1>14. ASSUME StopReturns(o) PROVE InWorkspace'
    <2> DEFINE c == Resumed(ops[o].kind, ops[o].approved)
    <2>1. /\ ops[o].at = "stopping" /\ launched' = launched /\ active' = active /\ asked' = asked
          /\ svc' = Ended(svc, ops[o].then) /\ Await(o, c)
      BY <1>14 DEF StopReturns, workspaceVars
    <2>2. /\ ops[o].kind \in Kinds \union {"none"} /\ ops[o].approved \in Requests \union {Nobody}
          /\ ops[o].then \in Ends
      BY <1>0, <2>1, CallShape
    <2>3. c \in Calls
      BY <1>0, <2>2, ResumedType DEF WorkspaceTypes
    <2>4. /\ c.at \in {"idle", "detecting", "launching"}
          /\ c.at # "idle" => c.root = active
          /\ c.at = "launching" => c.request = ops[o].approved
      BY DEF Resumed, Idle
    <2>5. AllowedHere(ops[o].approved) /\ ~Saving
      BY <1>2, <1>4, <2>1 DEF InWorkspace, Saving
    <2> HIDE DEF c
    <2>6. \A p \in Ops : ops'[p] = IF p = o THEN c ELSE Idle
      BY <1>0, <1>4, <2>1, <2>3, AwaitKeeps
    <2>7. /\ svc'.pending = IF ops[o].then = "dispose" THEN Nobody ELSE svc.pending
          /\ svc'.approved = IF ops[o].then = "dispose" THEN Nobody ELSE svc.approved
      BY <1>0, <2>1 DEF Ended, Services
    <2>8. AllowedHere(svc.pending)' /\ AllowedHere(svc.approved)'
      <3>1. CASE ops[o].then = "dispose"
        BY <2>7, <3>1 DEF AllowedHere
      <3>2. CASE ops[o].then # "dispose"
        <4>1. ~Changing
          BY <1>2, <1>4, <2>1, <3>2 DEF Changing, Saving
        <4>2. QED
          BY <2>1, <2>7, <3>2, <4>1 DEF InWorkspace, AllowedHere
      <3>3. QED
        BY <3>1, <3>2
    <2>9. RunsWhereAllowed' /\ DevsAreAsked'
      <3>1. NoneNew
        BY <2>1 DEF NoneNew, Live
      <3>2. QED
        BY <1>1, <2>1, <2>5, <3>1, StayWhereAllowed
    <2>10. \A p \in Ops :
              /\ ops'[p].at \in {"detecting", "launching", "serving"} => ops'[p].root = active'
              /\ ops'[p].at = "launching" => AllowedHere(ops[p].request)'
              /\ ops'[p].at = "stopping" => AllowedHere(ops[p].approved)'
      BY <1>2, <2>1, <2>4, <2>5, <2>6 DEF AllowedHere
    <2>11. QED
      BY <2>8, <2>9, <2>10 DEF InWorkspace, DevsAreAsked
  <1>15. ~WorkspaceUnsaved(o)
    BY DEF WorkspaceUnsaved
  <1>16. QED
    BY <1>9, <1>10, <1>11, <1>12, <1>13, <1>14, <1>15 DEF Continue

\* A new call, while no other is under way.
LEMMA PlaceCall ==
    ASSUME TypeOK, TypeOK', InOrder, InOrder', InWorkspace, NEW o \in Ops, Call(o), ~overlapped'
    PROVE  InWorkspace'
  <1>0. /\ svc \in Services /\ launched \in [Launches -> Previews]
        /\ ops \in [Ops -> Calls] /\ WorkspaceTypes /\ active \in Workspaces
    BY TypeParts DEF WorkspaceTypes
  <1>1. ops[o] = Idle /\ ~Meeting(o)
    BY DEF Call, Begin, LaunchRefused, LaunchAllowed, StaleResolved, Stop, WorkspaceChanges, Called
  <1>2. \A p \in Ops : ops[p] = Idle
    BY <1>1 DEF Meeting
  <1>3. Idle.at = "idle"
    BY DEF Idle
  <1>4. ~Changing /\ ~Saving
    BY <1>2, <1>3 DEF Changing, Saving
  <1>5. /\ AllowedHere(svc.pending) /\ AllowedHere(svc.approved)
        /\ RunsWhereAllowed /\ DevsAreAsked
    BY <1>4 DEF InWorkspace, DevsAreAsked
  <1>6. ASSUME launched' = launched, asked' = asked, active' = active \/ Saving'
        PROVE  RunsWhereAllowed' /\ DevsAreAsked'
    <2>1. NoneNew
      BY <1>6 DEF NoneNew, Live
    <2>2. QED
      BY <1>4, <1>5, <1>6, <2>1, StayWhereAllowed
  <1>7. ASSUME NEW kind \in Kinds, Begin(o, kind) PROVE InWorkspace'
    <2> DEFINE c == [at |-> "detecting", kind |-> kind, root |-> active]
    <2>1. svc' = svc /\ launched' = launched /\ active' = active /\ asked' = asked /\ Await(o, c)
      BY <1>7 DEF Begin, workspaceVars
    <2>2. \A p \in Ops : ops'[p] = IF p = o THEN c ELSE Idle
      BY <1>0, <1>2, <2>1, CallTypes, AwaitKeeps
    <2>3. AllowedHere(svc.pending)' /\ AllowedHere(svc.approved)'
      BY <1>5, <2>1 DEF AllowedHere
    <2>4. QED
      BY <1>3, <1>6, <2>1, <2>2, <2>3 DEF InWorkspace, DevsAreAsked
  <1>8. ASSUME NEW r \in Requests,
               LaunchRefused(o, r) \/ \E v \in {"always", "deny"} : StaleResolved(o, r, v)
        PROVE  InWorkspace'
    <2>1. /\ svc'.pending \in {svc.pending, Nobody} /\ svc'.approved = svc.approved
          /\ launched' = launched /\ ops' = ops /\ active' = active /\ asked' = asked
      BY <1>0, <1>8 DEF LaunchRefused, StaleResolved, workspaceVars, Services
    <2>2. AllowedHere(svc.pending)' /\ AllowedHere(svc.approved)'
      BY <1>5, <2>1 DEF AllowedHere
    <2>3. QED
      BY <1>2, <1>3, <1>6, <2>1, <2>2 DEF InWorkspace, DevsAreAsked
  <1>9. ASSUME NEW r \in Requests, LaunchAllowed(o, r) PROVE InWorkspace'
    <2> DEFINE c == [at |-> "launching", request |-> r, root |-> active]
    <2>1. /\ svc.pending = r /\ launched' = launched /\ active' = active /\ asked' = asked
          /\ Await(o, c)
      BY <1>9 DEF LaunchAllowed, workspaceVars
    <2>2. svc'.pending = Nobody /\ svc'.approved = r
      BY <1>0, <1>9 DEF LaunchAllowed, Services
    <2>3. \A p \in Ops : ops'[p] = IF p = o THEN c ELSE Idle
      BY <1>0, <1>2, <2>1, CallTypes, AwaitKeeps
    <2>4. asked[r] = active
      BY <1>5, <2>1, PreviewAssumption DEF AllowedHere
    <2>5. AllowedHere(svc.pending)' /\ AllowedHere(svc.approved)'
      BY <2>1, <2>2, <2>4 DEF AllowedHere
    <2>6. \A p \in Ops :
              /\ ops'[p].at \in {"detecting", "launching", "serving"} => ops'[p].root = active'
              /\ ops'[p].at = "launching" => AllowedHere(ops[p].request)'
              /\ ops'[p].at # "stopping"
      BY <1>3, <2>1, <2>3, <2>4 DEF AllowedHere
    <2>7. QED
      BY <1>6, <2>1, <2>5, <2>6 DEF InWorkspace, DevsAreAsked
  <1>10. ASSUME NEW then \in Ends, Stop(o, then) PROVE InWorkspace'
    BY <1>1, <1>4, <1>10, PlaceStopping DEF Stop
  <1>11. ASSUME WorkspaceChanges(o) PROVE InWorkspace'
    <2>1. /\ svc' = svc /\ launched' = launched /\ asked' = asked
          /\ Await(o, [at |-> "saving"])
      BY <1>11 DEF WorkspaceChanges
    <2>2. \A p \in Ops : ops'[p] = IF p = o THEN [at |-> "saving"] ELSE Idle
      BY <1>0, <1>2, <2>1, CallTypes, AwaitKeeps
    <2>3. Saving' /\ Changing'
      BY <2>2 DEF Saving, Changing
    <2>4. QED
      BY <1>3, <1>6, <2>1, <2>2, <2>3 DEF InWorkspace, DevsAreAsked
  <1>12. QED
    BY <1>7, <1>8, <1>9, <1>10, <1>11 DEF Call

\* The steps of the gate, the children, the servers and the poll loop.
LEMMA PlaceElse ==
    ASSUME TypeOK, InWorkspace,
           \/ \E r \in Requests : GateTimesOut(r)
           \/ \E n \in Launches :
                 UrlDetected(n) \/ ChildExits(n) \/ SpawnFails(n) \/ ServerCloses(n)
           \/ StartTimesOut
           \/ UNCHANGED vars
    PROVE  InWorkspace'
  <1>0. svc \in Services /\ launched \in [Launches -> Previews]
    BY TypeParts
  <1>1. ops' = ops /\ active' = active /\ asked' = asked
    BY DEF GateTimesOut, UrlDetected, ChildExits, SpawnFails, ServerCloses, StartTimesOut, vars,
           previewVars, workspaceVars
  <1>2. svc'.pending = svc.pending /\ svc'.approved = svc.approved
    BY <1>0 DEF GateTimesOut, UrlDetected, ChildExits, SpawnFails, ServerCloses, StartTimesOut, vars,
                previewVars, Failed, Services
  <1>3. NoneNew
    <2>1. CASE launched' = launched
      BY <2>1 DEF NoneNew, Live
    <2>2. ASSUME NEW n \in Launches, launched' = [launched EXCEPT ![n].state = "gone"]
          PROVE  NoneNew
      BY <1>0, <2>2 DEF NoneNew, Live, Previews
    <2>3. CASE StartTimesOut
      <3>1. launched' = [n \in Launches |-> IF n = svc.child
                                            THEN [launched[n] EXCEPT !.state = "dying"]
                                            ELSE launched[n]]
        BY <2>3 DEF StartTimesOut
      <3>2. QED
        BY <1>0, <3>1 DEF NoneNew, Live, Previews
    <2>4. QED
      BY <2>1, <2>2, <2>3 DEF GateTimesOut, UrlDetected, ChildExits, SpawnFails, ServerCloses, vars,
                              previewVars
  <1>4. Saving' = Saving /\ Changing' = Changing
    BY <1>1 DEF Saving, Changing
  <1>5. RunsWhereAllowed' /\ DevsAreAsked'
    BY <1>1, <1>3, <1>4, StayWhereAllowed DEF InWorkspace, DevsAreAsked
  <1>6. AllowedHere(svc.pending)' = AllowedHere(svc.pending)
    BY <1>1, <1>2 DEF AllowedHere
  <1>7. AllowedHere(svc.approved)' = AllowedHere(svc.approved)
    BY <1>1, <1>2 DEF AllowedHere
  <1>8. \A r \in Requests \union {Nobody} : AllowedHere(r)' = AllowedHere(r)
    BY <1>1 DEF AllowedHere
  <1>9. QED
    BY <1>1, <1>4, <1>5, <1>6, <1>7 DEF InWorkspace, DevsAreAsked, AllowedHere

\* A step never makes a change of the workspace that failed be forgotten.
LEMMA UnsavedIsKept ==
    ASSUME TypeOK, [Next]_vars, unsaved
    PROVE  unsaved'
  BY DEF Next, vars, previewVars, workspaceVars, Call, Begin, LaunchRefused, LaunchAllowed,
         StaleResolved, Stop, WorkspaceChanges, WorkspaceSaved, WorkspaceUnsaved, Stopping,
         SpawnThrows, Continue, NotDetected, LaunchRequested, ServerStarts, ServerListens,
         ServerFails, ChildStarts, ChildRefused, StopReturns, GateTimesOut, UrlDetected, ChildExits,
         SpawnFails, ServerCloses, StartTimesOut

LEMMA PreviewStep ==
    PreviewIInv /\ [Next]_vars => PreviewIInv'
  <1> SUFFICES ASSUME PreviewIInv, [Next]_vars PROVE PreviewIInv'
    OBVIOUS
  <1>1. TypeOK /\ TypeOK' /\ AskedIsRaised /\ AskedIsRaised'
    BY TypeStep, AskedStep DEF PreviewIInv
  <1>2. CASE overlapped'
    BY <1>1, <1>2 DEF PreviewIInv
  <1>3. CASE ~overlapped'
    <2>1. ~overlapped /\ InOrder
      BY <1>1, <1>3, OverlapIsKept DEF PreviewIInv
    <2>2. InOrder'
      BY <1>1, <1>3, <2>1, OrderContinue, OrderCall, OrderElse DEF Next
    <2>3. CASE unsaved'
      BY <1>1, <2>2, <2>3 DEF PreviewIInv
    <2>4. CASE ~unsaved'
      <3>1. InWorkspace
        BY <1>1, <2>1, <2>4, UnsavedIsKept DEF PreviewIInv
      <3>2. InWorkspace'
        BY <1>1, <1>3, <2>1, <2>2, <2>4, <3>1, PlaceContinue, PlaceCall, PlaceElse DEF Next
      <3>3. QED
        BY <1>1, <2>2, <3>2 DEF PreviewIInv
    <2>5. QED
      BY <2>3, <2>4
  <1>4. QED
    BY <1>2, <1>3

LEMMA PreviewInit ==
    Init => PreviewIInv
  <1> SUFFICES ASSUME Init PROVE PreviewIInv
    OBVIOUS
  <1>1. \A n \in Launches : launched[n].state = "none" /\ launched[n].kind = "none"
    BY DEF Init
  <1>2. /\ svc.status = "idle" /\ svc.kind = "none" /\ svc.child = 0 /\ svc.server = 0
        /\ svc.poll = FALSE /\ svc.leaked = FALSE
        /\ \A o \in Ops : ops[o] = Idle
    BY DEF Init
  <1>3. NoOrphan /\ OneCall /\ CallsInOrder
    BY <1>1, <1>2 DEF NoOrphan, Live, OneCall, CallsInOrder, Idle
  <1>4. OwnsWhatRuns
    BY <1>1, <1>2 DEF OwnsWhatRuns, NothingRuns, Live
  <1>5. AskedIsRaised
    BY DEF AskedIsRaised, Init
  <1>6. InWorkspace
    <2>1. svc.pending = Nobody /\ svc.approved = Nobody
      BY DEF Init
    <2>2. QED
      BY <1>1, <1>2, <2>1 DEF InWorkspace, RunsWhereAllowed, Live, AllowedHere, Idle
  <1>7. QED
    BY <1>3, <1>4, <1>5, <1>6, InitType DEF PreviewIInv, InOrder

\* The inductive invariant of the preview holds in every reachable state.
THEOREM PreviewSafety == Spec => []PreviewIInv
  BY PreviewInit, PreviewStep, PTL DEF Spec

\* "The SINGLE owner of the one active runtime preview": as long as calls do not overlap,
\* a killed child is given the time to go and no request is allowed beside a running
\* preview, every child and server that runs is one that stop() will end.
THEOREM PreviewInvAlways == Spec => []PreviewInv
  <1>1. PreviewIInv => PreviewInv
    BY DEF PreviewIInv, PreviewInv, InOrder
  <1>2. QED
    BY <1>1, PreviewSafety, PTL

\* As long as calls do not overlap and every change of the workspace is saved, a dev server
\* is started only in the workspace its request was raised in, also by a restart and
\* however long the user took to allow it, and nothing runs on in a workspace that was left.
THEOREM StaysInWorkspaceAlways == Spec => []StaysInWorkspace
  <1>1. PreviewIInv => StaysInWorkspace
    BY DEF PreviewIInv, StaysInWorkspace, InWorkspace
  <1>2. QED
    BY <1>1, PreviewSafety, PTL

=============================================================================
