------------------------- MODULE PermissionBoundary -------------------------
(***************************************************************************)
(* The execution boundary of a tool call: the supervised OpenCode runtime  *)
(* blocks a tool and emits permission.asked on its event stream; the event *)
(* pump hands each frame to the permission bridge and waits for it; the    *)
(* bridge dedupes and calls the tool-permission proxy; the proxy refuses,  *)
(* denies by a branch preset or submits to the permission gate; the gate's *)
(* reply unblocks the tool.  Tools hosted by the service itself (MS365,    *)
(* knowledge search) submit to the same gate, poll it and proceed.         *)
(***************************************************************************)
EXTENDS PermissionGate

CONSTANTS
    ServiceRequests,    \* requests raised by tools the service itself hosts
    Calls,              \* the tool calls the runtime may make in this instance
    PresetKinds,        \* the action kinds a branch preset denies
    MaxFrames,          \* bound on the frames the runtime has emitted unread
    ReuseIds,           \* may a later turn use a permission id again?
    Again               \* do clients answer, and prompt a session, again?

RuntimeRequests == Requests \ ServiceRequests

\* A tool as the proxy tells them apart, and what its arguments designate:
\* nothing concrete, something inside the workspace (or a public URL, or a
\* query), or something outside it.
AllCalls ==
    [tool : {"unmapped", "command", "websearch", "webfetch", "file", "move"},
     target : {"none", "inside", "outside"}]

ASSUME ServiceRequestsAssumption == ServiceRequests \subseteq Requests
ASSUME CallsAssumption == Calls \subseteq AllCalls
ASSUME MaxFramesAssumption == MaxFrames \in Nat \ {0}
ASSUME ReuseIdsAssumption == {ReuseIds, Again} \subseteq BOOLEAN

VARIABLES
    calls,      \* per runtime request, the tool call that raised it
    tools,      \* per runtime request, the runtime's side of the tool call
    frames,     \* the event stream: frames emitted and not yet read
    seen,       \* the bridge's de-dupe set
    bridge,     \* where the one handleFrame in progress awaits, and for whom
    refusals,   \* per request, the proxy's own deny reply
    bound,      \* sessions bound to a dispatch branch's permission preset
    services,   \* per service request, the progress of the tool handler
    lost,       \* history: runtime requests whose ask or answer never arrived
    unchecked   \* history: runtime requests whose last ask met an error of the path checks

boundaryVars == <<calls, tools, frames, seen, bridge, refusals, bound, services, lost, unchecked>>
vars == <<gateVars, boundaryVars>>

Frames ==
    [type : {"asked", "replied"}, request : RuntimeRequests]
        \union [type : {"idle"}, session : Sessions]

Free == [at |-> "free"]
Awaits == [at : {"resolving", "guarding", "refusing", "denying"}, request : RuntimeRequests]

TypeOK ==
    /\ GateTypeOK
    /\ calls \in [RuntimeRequests -> Calls]
    /\ tools \in [RuntimeRequests -> {"idle", "blocked", "ran", "rejected", "aborted"}]
    /\ frames \in Seq(Frames)
    /\ seen \in SUBSET RuntimeRequests
    /\ bridge \in {Free} \union Awaits
    /\ refusals \in [RuntimeRequests -> {"none", "sending"}]
    /\ bound \in SUBSET Sessions
    /\ services \in [ServiceRequests -> {"idle", "polling", "ran", "denied"}]
    /\ lost \in SUBSET RuntimeRequests
    /\ unchecked \in SUBSET RuntimeRequests

\* Every session has registered its task, as it does before its first prompt;
\* some are branches with a preset.
Init ==
    /\ GateInit
    /\ tasks = [s \in Sessions |-> "running"]
    /\ calls \in [RuntimeRequests -> Calls]
    /\ tools = [r \in RuntimeRequests |-> "idle"]
    /\ frames = <<>>
    /\ seen = {}
    /\ bridge = Free
    /\ refusals = [r \in RuntimeRequests |-> "none"]
    /\ bound \in SUBSET Sessions
    /\ services = [r \in ServiceRequests |-> "idle"]
    /\ lost = {}
    /\ unchecked = {}

-----------------------------------------------------------------------------
(* The runtime (external: modelled from how the service talks to it) *)

Emit(frame) == frames' = Append(frames, frame)

\* A tool blocks on a permission and asks for it.
Ask(r) ==
    /\ tools[r] = "idle"
    /\ Len(frames) < MaxFrames
    /\ tools' = [tools EXCEPT ![r] = "blocked"]
    /\ Emit([type |-> "asked", request |-> r])
    /\ UNCHANGED <<gateVars, calls, seen, bridge, refusals, bound, services, lost, unchecked>>

\* The ask of a tool that is still blocked is emitted once more.
AskAgain(r) ==
    /\ tools[r] = "blocked"
    /\ Len(frames) < MaxFrames
    /\ Emit([type |-> "asked", request |-> r])
    /\ UNCHANGED <<gateVars, calls, tools, seen, bridge, refusals, bound, services, lost, unchecked>>

\* The session's turn ends, aborting a tool that is still blocked; where ids
\* are scoped to a turn, the next turn starts with all of them unused.
SessionEnds(s) ==
    /\ Len(frames) < MaxFrames
    /\ tools' = [r \in RuntimeRequests |->
          IF sessionOf[r] # s THEN tools[r]
          ELSE IF ReuseIds THEN "idle"
          ELSE IF tools[r] = "blocked" THEN "aborted" ELSE tools[r]]
    /\ Emit([type |-> "idle", session |-> s])
    /\ UNCHANGED <<gateVars, calls, seen, bridge, refusals, bound, services, lost, unchecked>>

\* The runtime accepts a reply: the tool runs or is rejected, and the runtime
\* reports it.  A reply to a tool that is not blocked changes nothing there.
Unblock(r, value) ==
    IF tools[r] = "blocked"
    THEN /\ tools' = [tools EXCEPT ![r] = IF value = "reject" THEN "rejected" ELSE "ran"]
         /\ Emit([type |-> "replied", request |-> r])
    ELSE UNCHANGED <<tools, frames>>

\* The event stream reconnects and a frame is never seen.
LoseFrame ==
    /\ frames # <<>>
    /\ frames' = Tail(frames)
    /\ lost' = IF Head(frames).type = "asked" THEN lost \union {Head(frames).request} ELSE lost
    /\ UNCHANGED <<gateVars, calls, tools, seen, bridge, refusals, bound, services, unchecked>>

-----------------------------------------------------------------------------
(* The tool-permission proxy.  Each operator below ends the synchronous     *)
(* stretch of handleFrame that runs it.                                     *)

KindOf(r) ==
    CASE calls[r].tool = "command" -> "command_exec"
      [] calls[r].tool \in {"websearch", "webfetch"} -> "web_access"
      [] calls[r].tool = "file" -> "file_edit"
      [] calls[r].tool = "move" -> "file_move"
      [] OTHER -> "none"

PresetDenies(r) == sessionOf[r] \in bound /\ KindOf(r) \in PresetKinds

\* Mutant: the refusal is only reported, not replied.
RefuseSilently(r) ==
    /\ bridge' = Free
    /\ seen' = seen \union {r}
    /\ UNCHANGED <<gateVars, refusals>>

\* refuse(): a deny reply straight to the runtime, awaited.
Refuse(r) ==
    /\ refusals' = [refusals EXCEPT ![r] = "sending"]
    /\ bridge' = [at |-> "refusing", request |-> r]
    /\ seen' = seen \union {r}
    /\ UNCHANGED gateVars

\* submit(), submitWeb(): the gate accepts a new id; a known one throws, the
\* bridge forgets the id again and only reports.
SubmitToGate(r) ==
    /\ IF IsNew(r)
       THEN Submit(r) /\ seen' = seen \union {r}
       ELSE seen' = seen \ {r} /\ UNCHANGED gateVars
    /\ bridge' = Free
    /\ UNCHANGED refusals

\* denyByPreset(): the gate denies by policy, and its reply is awaited.
DenyByPreset(r) ==
    /\ IF IsNew(r)
       THEN /\ DenyByPolicy(r)
            /\ seen' = seen \union {r}
            /\ bridge' = [at |-> "denying", request |-> r]
       ELSE seen' = seen \ {r} /\ bridge' = Free /\ UNCHANGED gateVars
    /\ UNCHANGED refusals

\* The path check of a file tool is awaited.
AwaitGuard(r) ==
    /\ bridge' = [at |-> "guarding", request |-> r]
    /\ seen' = seen \union {r}
    /\ UNCHANGED <<gateVars, refusals>>

\* Mutant: the branch preset is not consulted.
HandleIgnoringPreset(r, hasPath) ==
    LET call == calls[r] IN
    CASE call.tool = "unmapped" -> Refuse(r)
      [] call.tool = "command" -> SubmitToGate(r)
      [] OTHER -> IF hasPath THEN AwaitGuard(r) ELSE SubmitToGate(r)

\* handle(): the tool is classified, the preset consulted, then the target;
\* hasPath says whether the bridge passed a workspace-relative path on.
Handle(r, hasPath) ==
    LET call == calls[r] IN
    CASE call.tool = "unmapped" -> Refuse(r)
      [] call.tool # "unmapped" /\ PresetDenies(r) -> DenyByPreset(r)
      [] OTHER ->
           CASE call.tool = "command" -> SubmitToGate(r)
             [] call.tool = "websearch" ->
                  IF call.target = "none" THEN Refuse(r) ELSE SubmitToGate(r)
             [] call.tool = "webfetch" ->
                  IF call.target = "inside" THEN SubmitToGate(r) ELSE Refuse(r)
             [] call.tool \in {"file", "move"} ->
                  IF hasPath THEN AwaitGuard(r) ELSE SubmitToGate(r)

-----------------------------------------------------------------------------
(* The permission bridge: one handleFrame at a time, awaited by the pump *)

NextFrame(type) ==
    /\ bridge = Free
    /\ frames # <<>>
    /\ Head(frames).type = type
    /\ frames' = Tail(frames)

\* permission.replied: the id leaves the de-dupe set.
ReadReplied ==
    /\ NextFrame("replied")
    /\ seen' = seen \ {Head(frames).request}
    /\ UNCHANGED <<gateVars, calls, tools, bridge, refusals, bound, services, lost, unchecked>>

\* session.idle, of any session: the whole de-dupe set is cleared, and the pump
\* then folds the turn's terminal into the session's task.
ReadIdle ==
    /\ NextFrame("idle")
    /\ seen' = {}
    /\ LET s == Head(frames).session IN
       tasks' = IF tasks[s] = "running" THEN [tasks EXCEPT ![s] = "completed"] ELSE tasks
    /\ UNCHANGED <<states, timers, audit, wire, posts, callers, answers, performed,
                   calls, tools, bridge, refusals, bound, services, lost, unchecked>>

\* permission.asked for an id in the de-dupe set: dropped.
ReadAskedSeen ==
    /\ NextFrame("asked")
    /\ Head(frames).request \in seen
    /\ UNCHANGED <<gateVars, calls, tools, seen, bridge, refusals, bound, services, lost, unchecked>>

\* permission.asked with a path: resolving it is awaited before the id is added
\* to the de-dupe set.
ReadAskedPath ==
    /\ NextFrame("asked")
    /\ LET r == Head(frames).request IN
       /\ r \notin seen
       /\ calls[r].tool \notin {"websearch", "webfetch"}
       /\ calls[r].target # "none"
       /\ bridge' = [at |-> "resolving", request |-> r]
       /\ unchecked' = unchecked \ {r}
    /\ UNCHANGED <<gateVars, calls, tools, seen, refusals, bound, services, lost>>

\* permission.asked without one, or for web access: straight to the proxy.
ReadAskedDirect ==
    /\ NextFrame("asked")
    /\ LET r == Head(frames).request IN
       /\ r \notin seen
       /\ calls[r].tool \in {"websearch", "webfetch"} \/ calls[r].target = "none"
       /\ Handle(r, FALSE)
    /\ UNCHANGED <<calls, tools, bound, services, lost, unchecked>>

\* The path is resolved; one outside the workspace is dropped from the event.
PathResolved ==
    /\ bridge.at = "resolving"
    /\ Handle(bridge.request, calls[bridge.request].target = "inside")
    /\ UNCHANGED <<calls, tools, frames, bound, services, lost, unchecked>>

\* Resolving the path rejects: handleFrame rejects, which the pump only reports.
PathFails ==
    /\ bridge.at = "resolving"
    /\ unchecked' = unchecked \union {bridge.request}
    /\ bridge' = Free
    /\ UNCHANGED <<gateVars, calls, tools, frames, seen, refusals, bound, services, lost>>

\* assertRealPathInside answers: the path may have come to escape meanwhile.
\* A move has no destination in the event, and is refused for that.
GuardAnswers(escapes) ==
    /\ bridge.at = "guarding"
    /\ LET r == bridge.request IN
       IF escapes \/ calls[r].tool = "move" THEN Refuse(r) ELSE SubmitToGate(r)
    /\ UNCHANGED <<calls, tools, frames, bound, services, lost, unchecked>>

\* assertRealPathInside throws something else than a violation of the boundary (no
\* access, a loop of links): the proxy rethrows it, the bridge forgets the id and reports.
GuardFails ==
    /\ bridge.at = "guarding"
    /\ seen' = seen \ {bridge.request}
    /\ unchecked' = unchecked \union {bridge.request}
    /\ bridge' = Free
    /\ UNCHANGED <<gateVars, calls, tools, frames, refusals, bound, services, lost>>

\* The proxy's own deny reply arrives, or is lost and only reported.
RefusalSettles(arrives) ==
    /\ bridge.at = "refusing"
    /\ LET r == bridge.request IN
       /\ refusals' = [refusals EXCEPT ![r] = "none"]
       /\ IF arrives
          THEN Unblock(r, "reject") /\ UNCHANGED lost
          ELSE lost' = lost \union {r} /\ UNCHANGED <<tools, frames>>
    /\ bridge' = Free
    /\ UNCHANGED <<gateVars, calls, seen, bound, services, unchecked>>

\* The POST of the gate's reply settles, whichever path of the gate sent it.
ReplySettles(r, arrives) ==
    /\ IF arrives THEN ReplyDelivered(r) ELSE ReplyFailed(r)
    /\ IF arrives /\ r \in RuntimeRequests
       THEN Unblock(r, wire[r])
       ELSE UNCHANGED <<tools, frames>>
    /\ lost' = IF arrives THEN lost ELSE lost \union ({r} \ ServiceRequests)
    /\ bridge' = IF bridge = [at |-> "denying", request |-> r] THEN Free ELSE bridge
    /\ UNCHANGED <<calls, seen, refusals, bound, services, unchecked>>

-----------------------------------------------------------------------------
(* Tools hosted by the service *)

\* The handler submits its own request.
ServiceCall(r) ==
    /\ services[r] = "idle"
    /\ Submit(r)
    /\ services' = [services EXCEPT ![r] = "polling"]
    /\ UNCHANGED <<calls, tools, frames, seen, bridge, refusals, bound, lost, unchecked>>

\* Mutant: a request that is still pending counts as denied.
ServicePollImpatient(r) ==
    /\ services[r] = "polling"
    /\ \/ /\ Proceed(r)
          /\ services' = [services EXCEPT ![r] = "ran"]
       \/ /\ ~IsAllowed(r)
          /\ services' = [services EXCEPT ![r] = "denied"]
          /\ UNCHANGED gateVars
    /\ UNCHANGED <<calls, tools, frames, seen, bridge, refusals, bound, lost, unchecked>>

\* Mutant: a denial does not end the polling.
ServicePollForever(r) ==
    /\ services[r] = "polling"
    /\ Proceed(r)
    /\ services' = [services EXCEPT ![r] = "ran"]
    /\ UNCHANGED <<calls, tools, frames, seen, bridge, refusals, bound, lost, unchecked>>

\* awaitGateDecision: an Allow is spent at once; an id that is no longer
\* pending and not allowed is a denial.  (The 180 s cap on polling is longer
\* than the gate's 120 s timer, so the loop never ends by it.)
ServicePoll(r) ==
    /\ services[r] = "polling"
    /\ \/ /\ Proceed(r)
          /\ services' = [services EXCEPT ![r] = "ran"]
       \/ /\ ~IsAllowed(r) /\ ~IsPending(r)
          /\ services' = [services EXCEPT ![r] = "denied"]
          /\ UNCHANGED gateVars
    /\ UNCHANGED <<calls, tools, frames, seen, bridge, refusals, bound, lost, unchecked>>

-----------------------------------------------------------------------------
(* The user, the timers and the dispatcher *)

UserDecides(r) ==
    /\ \/ ResolveDeny(r)
       \/ \E scope \in Scopes : ResolveAllow(r, scope)
    /\ UNCHANGED boundaryVars

\* A client answers once more, after another client, the user or the timer did.
AnswerAgain(r) == Again /\ Decided(r) /\ ResolveSettled(r) /\ UNCHANGED boundaryVars

Timeout(r) == TimerFires(r) /\ UNCHANGED boundaryVars

\* The session is prompted again: its task is registered anew.
NewTurn(s) == Again /\ RegisterTask(s) /\ UNCHANGED boundaryVars

\* The branch runner releases the preset of a branch that has ended.
ReleasePreset(s) ==
    /\ s \in bound
    /\ bound' = bound \ {s}
    /\ UNCHANGED <<gateVars, calls, tools, frames, seen, bridge, refusals, services, lost, unchecked>>

BridgeStep ==
    \/ ReadReplied \/ ReadIdle \/ ReadAskedSeen \/ ReadAskedPath \/ ReadAskedDirect
    \/ PathResolved \/ PathFails \/ GuardFails
    \/ \E escapes \in BOOLEAN : GuardAnswers(escapes)
    \/ \E arrives \in BOOLEAN : RefusalSettles(arrives)

Next ==
    \/ \E r \in RuntimeRequests : Ask(r) \/ AskAgain(r)
    \/ \E s \in Sessions : SessionEnds(s) \/ NewTurn(s) \/ ReleasePreset(s)
    \/ LoseFrame
    \/ BridgeStep
    \/ \E r \in Requests : Timeout(r) \/ UserDecides(r) \/ AnswerAgain(r)
    \/ \E r \in Requests, arrives \in BOOLEAN : ReplySettles(r, arrives)
    \/ \E r \in ServiceRequests : ServiceCall(r) \/ ServicePoll(r)

Spec == Init /\ [][Next]_vars

\* The event loop keeps reading frames, settling POSTs, firing timers and
\* polling; nothing is assumed of the runtime or of the user.
Fairness ==
    /\ WF_vars(BridgeStep)
    /\ \A r \in Requests :
          /\ WF_vars(Timeout(r))
          /\ WF_vars(\E arrives \in BOOLEAN : ReplySettles(r, arrives))
    /\ \A r \in ServiceRequests : WF_vars(ServicePoll(r))

LiveSpec == Spec /\ Fairness

-----------------------------------------------------------------------------
(* Properties *)

\* The effects that the gate guards: the runs of the runtime's tools, and the calls of
\* the service's own.
BoundaryEffects ==
    [r \in Requests |->
        IF r \in ServiceRequests THEN performed[r] ELSE IF tools[r] = "ran" THEN 1 ELSE 0]

BoundaryContract == INSTANCE ToolContract WITH decision <- GateDecision, effects <- BoundaryEffects

\* The boundary implements the gate's contract end to end: seen from the tools, a
\* call is decided once and for all, and it takes effect behind the Allow only,
\* once, however asks, refusals, replies, timeouts and late answers race.
ImplementsContract == BoundaryContract!ContractSpec

\* P3 end to end: the runtime executes a gated tool only after the gate has an
\* Allow on record for it, however asks, refusals, replies and timeouts race.
RanOnlyIfAllowed ==
    \A r \in RuntimeRequests : tools[r] = "ran" => Outcome(r) = "allow"

\* While a branch is bound to its preset, no call of a kind the preset denies
\* reaches the user as a prompt, is allowed, or runs.
PresetHolds ==
    \A r \in RuntimeRequests :
        PresetDenies(r) =>
            /\ states[r].status \in {"none", "denied"}
            /\ tools[r] # "ran"

\* A service tool reports what the gate decided: it ran exactly once behind an
\* Allow, or reported a denial and did nothing.
ServiceToolHonest ==
    \A r \in ServiceRequests :
        /\ services[r] = "ran" => performed[r] = 1 /\ Outcome(r) = "allow"
        /\ services[r] # "ran" => performed[r] = 0
        /\ services[r] = "denied" => Outcome(r) = "deny"

\* The calls that nobody answers: their ask or their answer was lost, or the path check of
\* their last ask failed with an error that is only reported.
Unanswered == lost \union unchecked

\* The bridge never loses an id it is responsible for: while the proxy or the
\* gate still owes the runtime an answer, the answer is on its way, waiting for
\* the user, or being worked on, whatever was lost or failed for other requests.
BlockedIsOwned ==
    \A r \in RuntimeRequests \ Unanswered :
        tools[r] = "blocked" =>
            \/ \E i \in DOMAIN frames : frames[i] = [type |-> "asked", request |-> r]
            \/ bridge # Free /\ bridge.request = r
            \/ IsPending(r)
            \/ posts[r] = "sending"

\* Every variable of the boundary keeps its type, and a blocked call keeps its owner,
\* while the pump, the bridge, the proxy and the gate hand it over to each other.
BoundaryInv == TypeOK /\ BlockedIsOwned

\* A call that was never asked for is unknown to the bridge and the gate.
IdleIsUnknown ==
    \A r \in RuntimeRequests :
        tools[r] = "idle" =>
            /\ IsNew(r)
            /\ r \notin seen
            /\ bridge # Free => bridge.request # r
            /\ \A i \in DOMAIN frames : frames[i] # [type |-> "asked", request |-> r]

\* The bridge drops a repeated ask only of a call that has another owner.
SeenIsOwned ==
    \A r \in seen \ Unanswered :
        tools[r] = "blocked" =>
            (bridge # Free /\ bridge.request = r) \/ IsPending(r) \/ posts[r] = "sending"

\* A reply that arrived unblocked its tool, and one that failed is lost.
SettledIsNotOwed ==
    \A r \in RuntimeRequests :
        /\ posts[r] = "delivered" => tools[r] # "blocked"
        /\ posts[r] = "failed" => r \in lost

\* A path is checked only for a call that its preset does not deny.
GuardedIsNotPreset == bridge.at = "guarding" => ~PresetDenies(bridge.request)

\* A service tool submits before it polls, and polls until it proceeds.
PollingIsSubmitted ==
    \A r \in ServiceRequests :
        /\ services[r] = "idle" => IsNew(r)
        /\ services[r] = "polling" => states[r].status \in {"pending", "allowed", "denied"}

\* The inductive invariant of the boundary: BlockedIsOwned needs to know what the
\* de-dupe set, the settled replies and the unasked calls stand for, PresetHolds what
\* is being guarded, ServiceToolHonest where a polling tool's request can be.
BoundaryIInv ==
    /\ GateInv
    /\ BoundaryInv
    /\ IdleIsUnknown
    /\ SeenIsOwned
    /\ SettledIsNotOwed
    /\ GuardedIsNotPreset
    /\ PresetHolds
    /\ PollingIsSubmitted
    /\ ServiceToolHonest

\* No strand: a blocked tool is always unblocked, aborted or answered, unless its own ask
\* or answer was lost or the check of its path failed.
NoStrand ==
    \A r \in RuntimeRequests : tools[r] = "blocked" ~> (tools[r] # "blocked" \/ r \in Unanswered)

\* P3, no strand, as the proxy states it: whatever the path checks do, a blocked tool is
\* unblocked unless its own ask or answer was lost.  It does not hold.
NoStrandButLost ==
    \A r \in RuntimeRequests : tools[r] = "blocked" ~> (tools[r] # "blocked" \/ r \in lost)

\* A polling service tool always comes to an end.
ServiceToolEnds ==
    \A r \in ServiceRequests : services[r] = "polling" ~> services[r] \in {"ran", "denied"}

=============================================================================
