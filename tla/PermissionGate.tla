--------------------------- MODULE PermissionGate ---------------------------
(***************************************************************************)
(* The permission gate of the service (service/src/permission): the single *)
(* authority over permission requests.  A request is submitted by the tool *)
(* boundary, decided by the user, by a policy or by the fail-closed timer, *)
(* audited, forwarded to the runtime, and, for an Allow, spent by proceed. *)
(* The gate runs on one event loop: every action below is one synchronous  *)
(* stretch of code between two awaits, and the outbound reply is the await *)
(* that separates them.                                                    *)
(***************************************************************************)
EXTENDS Naturals, Sequences

CONSTANTS
    Requests,       \* permission request ids
    Sessions,       \* session ids
    sessionOf,      \* the session that raises each request
    MaxProceeds     \* bound on the proceed() calls of one request

ASSUME SessionOfAssumption == sessionOf \in [Requests -> Sessions]
ASSUME MaxProceedsAssumption == MaxProceeds \in Nat \ {0}

VARIABLES
    states,     \* the gate's map requestId -> RequestState
    timers,     \* requests whose fail-closed timer is armed
    audit,      \* per request, the records written to the audit sink
    tasks,      \* the authoritative status of each session's task
    wire,       \* per request, the reply handed to the runtime-reply port
    posts,      \* per request, the progress of that outbound POST
    callers,    \* per request, the call of resolve() that decided it
    answers,    \* per request, what the latest non-deciding resolve() answered
    performed   \* per request, how often proceed() ran the mutation

gateVars == <<states, timers, audit, tasks, wire, posts, callers, answers,
              performed>>

Decisions == {"allow", "deny"}
Scopes == {"once", "always"}
Reasons == {"user_decision", "fail_closed_timeout", "agent_preset"}
TerminalStates == {"completed", "denied"}

\* The members of RequestState; "none" is an id the map does not hold.
NoState == [status |-> "none", scope |-> "none", reason |-> "none"]
PendingState == [status |-> "pending", scope |-> "none", reason |-> "none"]
AllowedState(scope) == [status |-> "allowed", scope |-> scope, reason |-> "none"]
ConsumedState == [status |-> "consumed", scope |-> "none", reason |-> "none"]
DeniedState(reason) == [status |-> "denied", scope |-> "none", reason |-> reason]

RequestStates ==
    {NoState, PendingState, ConsumedState}
        \union {AllowedState(scope) : scope \in Scopes}
        \union {DeniedState(reason) : reason \in Reasons}

AuditRecords == [decision : Decisions, reason : Reasons]

GateTypeOK ==
    /\ states \in [Requests -> RequestStates]
    /\ timers \in SUBSET Requests
    /\ audit \in [Requests -> Seq(AuditRecords)]
    /\ tasks \in [Sessions -> {"absent", "running"} \union TerminalStates]
    /\ wire \in [Requests -> {"none", "once", "always", "reject"}]
    /\ posts \in [Requests -> {"none", "sending", "delivered", "failed"}]
    /\ callers \in [Requests -> {"none", "waiting", "resolved", "transport_error"}]
    /\ answers \in [Requests -> {"none", "unknown"} \union Decisions]
    /\ performed \in [Requests -> Nat]

GateInit ==
    /\ states = [r \in Requests |-> NoState]
    /\ timers = {}
    /\ audit = [r \in Requests |-> <<>>]
    /\ tasks \in [Sessions -> {"absent", "running"}]
    /\ wire = [r \in Requests |-> "none"]
    /\ posts = [r \in Requests |-> "none"]
    /\ callers = [r \in Requests |-> "none"]
    /\ answers = [r \in Requests |-> "none"]
    /\ performed = [r \in Requests |-> 0]

-----------------------------------------------------------------------------
(* Helpers of the gate *)

\* audit.record: one structured record is appended.
RecordAudit(r, decision, reason) ==
    audit' = [audit EXCEPT ![r] = Append(@, [decision |-> decision, reason |-> reason])]

\* Mutant: a finished run is denied all the same.
DenySessionUnfrozen(s) ==
    tasks' = IF tasks[s] # "absent" THEN [tasks EXCEPT ![s] = "denied"] ELSE tasks

\* createSessionDenialSink: a loaded task is driven to the terminal "denied";
\* an absent one is left alone, and a terminal one is frozen (first wins).
DenySession(s) ==
    tasks' = IF tasks[s] = "running" THEN [tasks EXCEPT ![s] = "denied"] ELSE tasks

\* mapOpencodeReply and reply.reply: the decision in the runtime's vocabulary
\* is handed to the port; the POST is then in flight.
Forward(r, value) ==
    /\ wire' = [wire EXCEPT ![r] = value]
    /\ posts' = [posts EXCEPT ![r] = "sending"]

\* Mutant: the reply of a deny carries a scope.
FinalizeDenyForwardsScope(r, reason) ==
    /\ states' = [states EXCEPT ![r] = DeniedState(reason)]
    /\ RecordAudit(r, "deny", reason)
    /\ DenySession(sessionOf[r])
    /\ Forward(r, "once")

\* finalizeDeny: record the deny, audit it, end the session, forward the reply.
FinalizeDeny(r, reason) ==
    /\ states' = [states EXCEPT ![r] = DeniedState(reason)]
    /\ RecordAudit(r, "deny", reason)
    /\ DenySession(sessionOf[r])
    /\ Forward(r, "reject")

IsNew(r) == states[r].status = "none"
IsPending(r) == states[r].status = "pending"
IsAllowed(r) == states[r].status = "allowed"
Decided(r) == states[r].status \in {"allowed", "consumed", "denied"}

-----------------------------------------------------------------------------
(* Operations of the gate *)

\* Mutant: the fail-closed timer is not armed.
SubmitUnarmed(r) ==
    /\ IsNew(r)
    /\ states' = [states EXCEPT ![r] = PendingState]
    /\ UNCHANGED <<timers, audit, tasks, wire, posts, callers, answers, performed>>

\* submit(): a brand-new id becomes pending and its fail-closed timer is armed.
\* A known id is rejected with an exception and nothing changes.
Submit(r) ==
    /\ IsNew(r)
    /\ states' = [states EXCEPT ![r] = PendingState]
    /\ timers' = timers \union {r}
    /\ UNCHANGED <<audit, tasks, wire, posts, callers, answers, performed>>

\* The timer callback: a request that is still pending is denied.
TimerFires(r) ==
    /\ r \in timers
    /\ timers' = timers \ {r}
    /\ IF IsPending(r)
       THEN FinalizeDeny(r, "fail_closed_timeout")
       ELSE UNCHANGED <<states, audit, tasks, wire, posts>>
    /\ UNCHANGED <<callers, answers, performed>>

\* resolve() of an id that is not pending only reads the map: "unknown", or
\* "already_resolved" with the decision on record.
ResolveSettled(r) ==
    /\ ~IsPending(r)
    /\ answers' = [answers EXCEPT ![r] =
          IF IsNew(r) THEN "unknown"
          ELSE IF states[r].status = "denied" THEN "deny" ELSE "allow"]
    /\ UNCHANGED <<states, timers, audit, tasks, wire, posts, callers, performed>>

\* resolve(deny) of a pending request, up to the await of the reply.
ResolveDeny(r) ==
    /\ IsPending(r)
    /\ timers' = timers \ {r}
    /\ FinalizeDeny(r, "user_decision")
    /\ callers' = [callers EXCEPT ![r] = "waiting"]
    /\ UNCHANGED <<answers, performed>>

\* Mutant: a late Allow overrides the decision on record.
ResolveAllowLate(r, scope) ==
    /\ ~IsNew(r)
    /\ timers' = timers \ {r}
    /\ states' = [states EXCEPT ![r] = AllowedState(scope)]
    /\ RecordAudit(r, "allow", "user_decision")
    /\ Forward(r, scope)
    /\ callers' = [callers EXCEPT ![r] = "waiting"]
    /\ UNCHANGED <<tasks, answers, performed>>

\* resolve(allow) of a pending request, up to the await of the reply.
ResolveAllow(r, scope) ==
    /\ IsPending(r)
    /\ timers' = timers \ {r}
    /\ states' = [states EXCEPT ![r] = AllowedState(scope)]
    /\ RecordAudit(r, "allow", "user_decision")
    /\ Forward(r, scope)
    /\ callers' = [callers EXCEPT ![r] = "waiting"]
    /\ UNCHANGED <<tasks, answers, performed>>

\* denyByPolicy(): a brand-new id is denied without ever being pending.
DenyByPolicy(r) ==
    /\ IsNew(r)
    /\ FinalizeDeny(r, "agent_preset")
    /\ UNCHANGED <<timers, callers, answers, performed>>

\* The POST succeeds; a waiting resolve() returns "resolved".
ReplyDelivered(r) ==
    /\ posts[r] = "sending"
    /\ posts' = [posts EXCEPT ![r] = "delivered"]
    /\ callers' = [callers EXCEPT ![r] = IF @ = "waiting" THEN "resolved" ELSE @]
    /\ UNCHANGED <<states, timers, audit, tasks, wire, answers, performed>>

\* The POST fails: a failed deny is reported and swallowed, a failed allow
\* rejects the waiting resolve().
ReplyFailed(r) ==
    /\ posts[r] = "sending"
    /\ posts' = [posts EXCEPT ![r] = "failed"]
    /\ callers' = [callers EXCEPT ![r] =
          IF @ # "waiting" THEN @
          ELSE IF wire[r] = "reject" THEN "resolved" ELSE "transport_error"]
    /\ UNCHANGED <<states, timers, audit, tasks, wire, answers, performed>>

\* Mutant: a "once" Allow is not spent.
ProceedUnspent(r) ==
    /\ IsAllowed(r)
    /\ performed[r] < MaxProceeds
    /\ performed' = [performed EXCEPT ![r] = @ + 1]
    /\ UNCHANGED <<states, timers, audit, tasks, wire, posts, callers, answers>>

\* proceed(): the mutation runs behind a recorded Allow, and a "once" Allow is
\* then spent.  (Without an Allow, or when perform() throws, nothing changes.)
Proceed(r) ==
    /\ IsAllowed(r)
    /\ performed[r] < MaxProceeds
    /\ performed' = [performed EXCEPT ![r] = @ + 1]
    /\ states' = IF states[r].scope = "once"
                 THEN [states EXCEPT ![r] = ConsumedState]
                 ELSE states
    /\ UNCHANGED <<timers, audit, tasks, wire, posts, callers, answers>>

-----------------------------------------------------------------------------
(* The session layer, as far as the gate sees it *)

\* TaskRegistry.register: a (new) run of the session, live and not frozen.
RegisterTask(s) ==
    /\ tasks[s] # "running"
    /\ tasks' = [tasks EXCEPT ![s] = "running"]
    /\ UNCHANGED <<states, timers, audit, wire, posts, callers, answers, performed>>

\* The run reaches a terminal of its own.
TaskCompletes(s) ==
    /\ tasks[s] = "running"
    /\ tasks' = [tasks EXCEPT ![s] = "completed"]
    /\ UNCHANGED <<states, timers, audit, wire, posts, callers, answers, performed>>

-----------------------------------------------------------------------------
(* The gate with arbitrary callers: any tool may submit, any client may     *)
(* resolve any id at any time, any reply may be lost.                       *)

GateNext ==
    \/ \E r \in Requests :
          \/ Submit(r)
          \/ DenyByPolicy(r)
          \/ TimerFires(r)
          \/ ResolveSettled(r)
          \/ ResolveDeny(r)
          \/ \E scope \in Scopes : ResolveAllow(r, scope)
          \/ ReplyDelivered(r)
          \/ ReplyFailed(r)
          \/ Proceed(r)
    \/ \E s \in Sessions : RegisterTask(s) \/ TaskCompletes(s)

GateSpec == GateInit /\ [][GateNext]_gateVars

\* The event loop runs an expired timer and settles an outstanding POST.
GateFairness ==
    \A r \in Requests :
        /\ WF_gateVars(TimerFires(r))
        /\ WF_gateVars(ReplyDelivered(r) \/ ReplyFailed(r))

GateLiveSpec == GateSpec /\ GateFairness

\* In addition the user keeps answering, and a reply that is sent again and
\* again gets through.
GateRetrySpec ==
    /\ GateLiveSpec
    /\ \A r \in Requests :
          /\ WF_gateVars(ResolveSettled(r))
          /\ SF_gateVars(ReplyDelivered(r))

-----------------------------------------------------------------------------
(* Properties *)

\* The decision on record for a request.
Outcome(r) ==
    IF states[r].status = "denied" THEN "deny"
    ELSE IF states[r].status \in {"allowed", "consumed"} THEN "allow"
    ELSE "none"

\* P6: a request that is waiting for an answer always has an armed timer, and
\* no other request has one, so no path leaves a pending request without a
\* fail-closed end or lets a stale timer loose on a decided one.
PendingIsArmed == \A r \in Requests : IsPending(r) <=> r \in timers

\* P5: every Allow and every Deny is audited exactly once, with the decision
\* and the reason on record; an undecided request has no record.
AuditedOnce ==
    \A r \in Requests :
        /\ Outcome(r) = "none" => audit[r] = <<>>
        /\ Outcome(r) = "allow" =>
              audit[r] = <<[decision |-> "allow", reason |-> "user_decision"]>>
        /\ Outcome(r) = "deny" =>
              audit[r] = <<[decision |-> "deny", reason |-> states[r].reason]>>

\* P3: the mutation behind a request runs only when an Allow was audited and
\* forwarded with the request, and at most once when that Allow was "once".
MutationNeedsAllow ==
    \A r \in Requests :
        /\ performed[r] > 0 => /\ Outcome(r) = "allow"
                               /\ wire[r] \in Scopes
        /\ wire[r] = "once" => performed[r] <= 1
        /\ wire[r] = "reject" => performed[r] = 0

\* P3: what is handed to the runtime is the decision on record, for as long as
\* the request exists: a reply is never forwarded ahead of the record, and a
\* late or a repeated answer never forwards a second, different one.
ReplyMatchesRecord ==
    \A r \in Requests :
        /\ wire[r] = "none" <=> Outcome(r) = "none"
        /\ wire[r] = "reject" <=> Outcome(r) = "deny"
        /\ IsAllowed(r) => wire[r] = states[r].scope
        /\ states[r].status = "consumed" => wire[r] = "once"
        /\ posts[r] = "none" <=> wire[r] = "none"

\* An answer "already_resolved" given to a late caller stays true.
AnswersStayTrue ==
    \A r \in Requests : answers[r] \in Decisions => answers[r] = Outcome(r)

\* No step flips, forgets or re-opens a decision: a late Allow cannot override
\* a fail-closed Deny, and a late timer cannot override an Allow.
DecisionIsFinal ==
    [][\A r \in Requests : Decided(r) => Outcome(r)' = Outcome(r)]_gateVars

\* First terminal wins: a Deny never rewrites the terminal of a finished run.
TerminalIsFrozen ==
    [][\A s \in Sessions :
          tasks[s] \in TerminalStates => tasks'[s] \in {tasks[s], "running"}]_gateVars

\* P6: every submitted request is eventually decided, whatever clients do.
EveryRequestDecided ==
    \A r \in Requests : IsPending(r) ~> Decided(r)

\* What the gate promises, ToolContract, read off its map: a spent Allow was for once.
GateDecision ==
    [r \in Requests |->
        CASE states[r].status \in {"none", "pending"} -> states[r].status
          [] states[r].status = "allowed" -> states[r].scope
          [] states[r].status = "consumed" -> "once"
          [] OTHER -> "deny"]

Contract == INSTANCE ToolContract WITH decision <- GateDecision, effects <- performed

\* The gate implements its contract: a request is decided once and for all, and its
\* mutation runs behind the Allow only, once if that was for once.
GateImplementsContract == Contract!ContractSpec

\* An unspent "once" Allow has not run its mutation yet.
UnspentOnce ==
    \A r \in Requests :
        IsAllowed(r) /\ states[r].scope = "once" => performed[r] = 0

\* permission-gate.ts says of a failed Allow reply that "the caller then sees the
\* transport error and can retry".  If it could, a user who keeps answering
\* over a transport that works again would get the reply to the runtime.
RetryReachesRuntime ==
    \A r \in Requests : callers[r] = "transport_error" ~> posts[r] = "delivered"

\* The inductive invariant behind the safety properties: MutationNeedsAllow is
\* not inductive without UnspentOnce.
GateInv ==
    /\ UnspentOnce
    /\ GateTypeOK
    /\ PendingIsArmed
    /\ AuditedOnce
    /\ MutationNeedsAllow
    /\ ReplyMatchesRecord
    /\ AnswersStayTrue

=============================================================================
