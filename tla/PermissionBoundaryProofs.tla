---------------------- MODULE PermissionBoundaryProofs ----------------------
(***************************************************************************)
(* Proofs about the permission gate and the execution boundary around it,  *)
(* for every set of requests, sessions and tool calls.  GateInv is the     *)
(* inductive invariant of the gate: the audit trail, the forwarded reply   *)
(* and the spent Allows are each tied to the one record in the gate's map, *)
(* so that no interleaving of clients, timers and replies can take them    *)
(* apart.  Every step of the boundary is a step of the gate or invisible   *)
(* to it, so that GateInv carries over, and BoundaryIInv ties the          *)
(* runtime's side of a call to the gate's record.                          *)
(***************************************************************************)
EXTENDS PermissionBoundary, TLAPS

-----------------------------------------------------------------------------
(* The gate alone.                                                          *)


\* The map's values are told apart by their status.
LEMMA StatesAreRecords ==
    ASSUME NEW st \in RequestStates
    PROVE  /\ st.status \in {"none", "pending", "allowed", "consumed", "denied"}
           /\ st.status = "allowed" => st.scope \in Scopes
           /\ st.status = "denied" => st.reason \in Reasons
  BY DEF RequestStates, NoState, PendingState, AllowedState, ConsumedState,
         DeniedState, Scopes, Reasons

\* A first audit record leaves a one-record trail.
LEMMA FirstRecord ==
    ASSUME NEW d \in Decisions, NEW reason \in Reasons
    PROVE  /\ Append(<<>>, [decision |-> d, reason |-> reason])
                = <<[decision |-> d, reason |-> reason]>>
           /\ <<[decision |-> d, reason |-> reason]>> \in Seq(AuditRecords)
  BY DEF AuditRecords

\* The empty map, with nothing armed, audited or forwarded, satisfies GateInv.
LEMMA GateInitInv == GateInit => GateInv
  <1> SUFFICES ASSUME GateInit PROVE GateInv
    OBVIOUS
  <1>1. \A r \in Requests : Outcome(r) = "none" /\ ~IsPending(r) /\ ~IsAllowed(r)
    BY DEF GateInit, Outcome, IsPending, IsAllowed, NoState
  <1>2. GateTypeOK
    BY DEF GateInit, GateTypeOK, RequestStates, AuditRecords
  <1>3. QED
    BY <1>1, <1>2 DEF GateInit, GateInv, PendingIsArmed, AuditedOnce,
       MutationNeedsAllow, ReplyMatchesRecord, AnswersStayTrue, UnspentOnce, NoState, Decisions

\* finalizeDeny, called for an undecided request, keeps the invariant whoever
\* calls it: resolve(), the timer callback or denyByPolicy().
LEMMA FinalizeDenyInv ==
    ASSUME GateInv, NEW r \in Requests, NEW reason \in Reasons,
           IsNew(r) \/ IsPending(r),
           FinalizeDeny(r, reason),
           timers' = timers \ {r},
           callers' \in [Requests -> {"none", "waiting", "resolved", "transport_error"}],
           UNCHANGED <<answers, performed>>
    PROVE  GateInv'
  <1>1. Outcome(r) = "none"
    BY DEF IsNew, IsPending, Outcome
  <1>2. /\ audit[r] = <<>> /\ wire[r] = "none" /\ performed[r] = 0
        /\ answers[r] \notin Decisions
    <2>1. audit[r] = <<>> /\ wire[r] = "none"
      BY <1>1 DEF GateInv, AuditedOnce, ReplyMatchesRecord
    <2>2. performed[r] = 0
      <3>1. performed[r] \in Nat
        BY DEF GateInv, GateTypeOK
      <3>2. ~(performed[r] > 0)
        BY <1>1 DEF GateInv, MutationNeedsAllow
      <3>3. QED
        BY <3>1, <3>2
    <2>3. answers[r] \notin Decisions
      BY <1>1 DEF GateInv, AnswersStayTrue, Decisions
    <2>4. QED
      BY <2>1, <2>2, <2>3
  <1>3. /\ states' = [states EXCEPT ![r] = DeniedState(reason)]
        /\ audit' = [audit EXCEPT ![r] = <<[decision |-> "deny", reason |-> reason]>>]
        /\ wire' = [wire EXCEPT ![r] = "reject"]
        /\ posts' = [posts EXCEPT ![r] = "sending"]
    BY <1>2, FirstRecord DEF FinalizeDeny, RecordAudit, Forward, Decisions, GateInv, GateTypeOK
  <1>4. DeniedState(reason) \in RequestStates
    BY DEF RequestStates
  <1>5. GateTypeOK'
    <2>1. tasks' \in [Sessions -> {"absent", "running"} \union TerminalStates]
      BY SessionOfAssumption DEF FinalizeDeny, DenySession, GateInv, GateTypeOK, TerminalStates
    <2>2. audit' \in [Requests -> Seq(AuditRecords)]
      BY <1>3, FirstRecord DEF GateInv, GateTypeOK, Decisions
    <2>3. QED
      BY <1>3, <1>4, <2>1, <2>2 DEF GateInv, GateTypeOK
  <1>6. /\ Outcome(r)' = "deny" /\ states'[r].reason = reason
        /\ ~IsPending(r)' /\ ~IsAllowed(r)' /\ states'[r].status = "denied"
    BY <1>3 DEF GateInv, GateTypeOK, Outcome, DeniedState, IsPending, IsAllowed
  <1>7. \A q \in Requests \ {r} :
           /\ Outcome(q)' = Outcome(q) /\ states'[q] = states[q]
           /\ IsPending(q)' = IsPending(q) /\ IsAllowed(q)' = IsAllowed(q)
           /\ audit'[q] = audit[q] /\ wire'[q] = wire[q] /\ posts'[q] = posts[q]
    BY <1>3 DEF GateInv, GateTypeOK, Outcome, IsPending, IsAllowed
  <1>8. PendingIsArmed'
    BY <1>6, <1>7 DEF GateInv, PendingIsArmed
  <1>9. AuditedOnce'
    BY <1>3, <1>6, <1>7 DEF GateInv, GateTypeOK, AuditedOnce
  <1>10. MutationNeedsAllow'
    BY <1>2, <1>3, <1>6, <1>7 DEF GateInv, GateTypeOK, MutationNeedsAllow
  <1>11. ReplyMatchesRecord'
    BY <1>3, <1>6, <1>7 DEF GateInv, GateTypeOK, ReplyMatchesRecord
  <1>12. AnswersStayTrue'
    BY <1>2, <1>6, <1>7 DEF GateInv, AnswersStayTrue
  <1>13. UnspentOnce'
    BY <1>6, <1>7 DEF GateInv, UnspentOnce
  <1>14. QED
    BY <1>5, <1>8, <1>9, <1>10, <1>11, <1>12, <1>13 DEF GateInv

\* resolve(allow) of a pending request keeps the invariant.
LEMMA ResolveAllowInv ==
    ASSUME GateInv, NEW r \in Requests, NEW scope \in Scopes, ResolveAllow(r, scope)
    PROVE  GateInv'
  <1>1. Outcome(r) = "none"
    BY DEF ResolveAllow, IsPending, Outcome
  <1>2. audit[r] = <<>> /\ ~(performed[r] > 0) /\ answers[r] \notin Decisions
    BY <1>1 DEF GateInv, AuditedOnce, MutationNeedsAllow, AnswersStayTrue, Decisions
  <1>3. /\ states' = [states EXCEPT ![r] = AllowedState(scope)]
        /\ audit' = [audit EXCEPT ![r] =
                        <<[decision |-> "allow", reason |-> "user_decision"]>>]
        /\ wire' = [wire EXCEPT ![r] = scope]
        /\ posts' = [posts EXCEPT ![r] = "sending"]
        /\ callers' = [callers EXCEPT ![r] = "waiting"]
        /\ timers' = timers \ {r}
        /\ UNCHANGED <<tasks, answers, performed>>
    BY <1>2, FirstRecord DEF ResolveAllow, RecordAudit, Forward, Decisions, Reasons,
       GateInv, GateTypeOK
  <1>4. GateTypeOK'
    <2>1. AllowedState(scope) \in RequestStates /\ scope \in {"once", "always"}
      BY DEF RequestStates, Scopes
    <2>2. audit' \in [Requests -> Seq(AuditRecords)]
      BY <1>3, FirstRecord DEF GateInv, GateTypeOK, Decisions, Reasons
    <2>3. QED
      BY <1>3, <2>1, <2>2 DEF GateInv, GateTypeOK
  <1>5. /\ Outcome(r)' = "allow" /\ states'[r] = AllowedState(scope)
        /\ states'[r].status = "allowed" /\ states'[r].scope = scope
        /\ ~IsPending(r)' /\ IsAllowed(r)'
    BY <1>3 DEF GateInv, GateTypeOK, Outcome, AllowedState, IsPending, IsAllowed
  <1>6. \A q \in Requests \ {r} :
           /\ Outcome(q)' = Outcome(q) /\ states'[q] = states[q]
           /\ IsPending(q)' = IsPending(q) /\ IsAllowed(q)' = IsAllowed(q)
           /\ audit'[q] = audit[q] /\ wire'[q] = wire[q] /\ posts'[q] = posts[q]
    BY <1>3 DEF GateInv, GateTypeOK, Outcome, IsPending, IsAllowed
  <1>7. /\ wire'[r] = scope /\ scope \notin {"none", "reject"} /\ posts'[r] = "sending"
        /\ audit'[r] = <<[decision |-> "allow", reason |-> "user_decision"]>>
    BY <1>3 DEF GateInv, GateTypeOK, Scopes
  <1>8. PendingIsArmed'
    BY <1>3, <1>5, <1>6 DEF GateInv, PendingIsArmed
  <1>9. AuditedOnce'
    BY <1>5, <1>6, <1>7 DEF GateInv, AuditedOnce
  <1>10. MutationNeedsAllow'
    <2>1. performed'[r] = 0
      BY <1>2, <1>3 DEF GateInv, GateTypeOK
    <2>2. QED
      BY <1>3, <1>5, <1>6, <1>7, <2>1 DEF GateInv, MutationNeedsAllow
  <1>11. ReplyMatchesRecord'
    BY <1>5, <1>6, <1>7 DEF GateInv, ReplyMatchesRecord
  <1>12. AnswersStayTrue'
    BY <1>2, <1>3, <1>5, <1>6 DEF GateInv, AnswersStayTrue
  <1>13. UnspentOnce'
    <2>1. performed'[r] = 0
      BY <1>2, <1>3 DEF GateInv, GateTypeOK
    <2>2. QED
      BY <1>3, <1>6, <2>1 DEF GateInv, UnspentOnce
  <1>14. QED
    BY <1>4, <1>8, <1>9, <1>10, <1>11, <1>12, <1>13 DEF GateInv

\* submit() of a brand-new id keeps the invariant.
LEMMA SubmitInv ==
    ASSUME GateInv, NEW r \in Requests, Submit(r)
    PROVE  GateInv'
  <1>1. PendingState \in RequestStates /\ PendingState.status = "pending"
    BY DEF RequestStates, PendingState
  <1>2. GateTypeOK'
    BY <1>1 DEF GateInv, GateTypeOK, Submit
  <1>3. /\ Outcome(r) = "none" /\ Outcome(r)' = "none"
        /\ IsPending(r)' /\ ~IsAllowed(r)' /\ states'[r].status = "pending"
    BY <1>1 DEF GateInv, GateTypeOK, Submit, IsNew, Outcome, IsPending, IsAllowed
  <1>4. \A q \in Requests \ {r} :
           /\ Outcome(q)' = Outcome(q) /\ states'[q] = states[q]
           /\ IsPending(q)' = IsPending(q) /\ IsAllowed(q)' = IsAllowed(q)
    BY DEF GateInv, GateTypeOK, Submit, Outcome, IsPending, IsAllowed
  <1>5. PendingIsArmed'
    BY <1>3, <1>4 DEF GateInv, PendingIsArmed, Submit
  <1>6. AuditedOnce'
    BY <1>3, <1>4 DEF GateInv, AuditedOnce, Submit
  <1>7. MutationNeedsAllow'
    BY <1>3, <1>4 DEF GateInv, MutationNeedsAllow, Submit
  <1>8. ReplyMatchesRecord'
    BY <1>3, <1>4 DEF GateInv, ReplyMatchesRecord, Submit
  <1>9. AnswersStayTrue'
    BY <1>3, <1>4 DEF GateInv, AnswersStayTrue, Submit
  <1>10. UnspentOnce'
    BY <1>3, <1>4 DEF GateInv, UnspentOnce, Submit
  <1>11. QED
    BY <1>2, <1>5, <1>6, <1>7, <1>8, <1>9, <1>10 DEF GateInv

\* proceed() keeps the invariant: a "once" Allow cannot be spent twice.
LEMMA ProceedInv ==
    ASSUME GateInv, NEW r \in Requests, Proceed(r)
    PROVE  GateInv'
  <1>1. /\ states[r] \in RequestStates /\ states[r].status = "allowed"
        /\ wire[r] = states[r].scope /\ wire[r] \in Scopes /\ Outcome(r) = "allow"
    BY StatesAreRecords DEF GateInv, GateTypeOK, Proceed, IsAllowed, ReplyMatchesRecord,
       Outcome
  <1>2. ConsumedState \in RequestStates /\ ConsumedState.status = "consumed"
    BY DEF RequestStates, ConsumedState
  <1>3. GateTypeOK'
    BY <1>2 DEF GateInv, GateTypeOK, Proceed
  <1>4. /\ Outcome(r)' = "allow" /\ ~IsPending(r)' /\ ~IsPending(r)
        /\ IsAllowed(r)' => states'[r] = states[r]
        /\ states'[r].status = "consumed" => wire[r] = "once"
    BY <1>1, <1>2 DEF GateInv, GateTypeOK, Proceed, Outcome, IsPending, IsAllowed
  <1>5. \A q \in Requests \ {r} :
           /\ Outcome(q)' = Outcome(q) /\ states'[q] = states[q]
           /\ IsPending(q)' = IsPending(q) /\ IsAllowed(q)' = IsAllowed(q)
           /\ performed'[q] = performed[q]
    BY DEF GateInv, GateTypeOK, Proceed, Outcome, IsPending, IsAllowed
  <1>6. PendingIsArmed'
    BY <1>4, <1>5 DEF GateInv, PendingIsArmed, Proceed
  <1>7. AuditedOnce'
    BY <1>1, <1>4, <1>5 DEF GateInv, AuditedOnce, Proceed
  <1>8. MutationNeedsAllow'
    <2>1. states[r].scope = "once" => performed[r] = 0
      BY <1>1 DEF GateInv, UnspentOnce, IsAllowed
    <2>2. performed'[r] = performed[r] + 1 /\ performed[r] \in Nat
      BY DEF GateInv, GateTypeOK, Proceed
    <2>3. wire' = wire
      BY DEF Proceed
    <2>4. wire[r] = "once" => performed'[r] <= 1
      BY <1>1, <2>1, <2>2
    <2>5. wire[r] # "reject"
      BY <1>1 DEF Scopes
    <2>6. QED
      BY <1>1, <1>4, <1>5, <2>3, <2>4, <2>5 DEF GateInv, MutationNeedsAllow
  <1>9. ReplyMatchesRecord'
    BY <1>1, <1>4, <1>5 DEF GateInv, ReplyMatchesRecord, Proceed, IsAllowed
  <1>10. AnswersStayTrue'
    BY <1>1, <1>4, <1>5 DEF GateInv, AnswersStayTrue, Proceed
  <1>11. UnspentOnce'
    <2>1. states[r].scope = "once" => ~IsAllowed(r)'
      BY <1>2 DEF GateInv, GateTypeOK, Proceed, IsAllowed
    <2>2. QED
      BY <1>4, <1>5, <2>1 DEF GateInv, UnspentOnce
  <1>12. QED
    BY <1>3, <1>6, <1>7, <1>8, <1>9, <1>10, <1>11 DEF GateInv

\* Every step of the gate, of its callers and of the runtime keeps GateInv.
LEMMA GateStepInv == GateInv /\ [GateNext]_gateVars => GateInv'
  <1> SUFFICES ASSUME GateInv, [GateNext]_gateVars PROVE GateInv'
    OBVIOUS
  <1>1. ASSUME NEW r \in Requests, DenyByPolicy(r) PROVE GateInv'
    <2>1. timers' = timers \ {r}
      BY <1>1 DEF GateInv, PendingIsArmed, DenyByPolicy, IsNew, IsPending
    <2>2. QED
      BY <1>1, <2>1, FinalizeDenyInv DEF DenyByPolicy, GateInv, GateTypeOK, Reasons
  <1>2. ASSUME NEW r \in Requests, ResolveDeny(r) PROVE GateInv'
    <2>1. callers' \in [Requests -> {"none", "waiting", "resolved", "transport_error"}]
      BY <1>2 DEF ResolveDeny, GateInv, GateTypeOK
    <2>2. QED
      BY <1>2, <2>1, FinalizeDenyInv DEF ResolveDeny, Reasons
  <1>3. ASSUME NEW r \in Requests, TimerFires(r) PROVE GateInv'
    <2>1. IsPending(r)
      BY <1>3 DEF TimerFires, GateInv, PendingIsArmed
    <2>2. QED
      BY <1>3, <2>1, FinalizeDenyInv DEF TimerFires, GateInv, GateTypeOK, Reasons
  <1>4. ASSUME NEW r \in Requests, ResolveSettled(r) PROVE GateInv'
    <2>1. UNCHANGED <<states, timers, audit, tasks, wire, posts, callers, performed>>
      BY <1>4 DEF ResolveSettled
    <2>2. \A q \in Requests :
             /\ Outcome(q)' = Outcome(q) /\ IsPending(q)' = IsPending(q)
             /\ IsAllowed(q)' = IsAllowed(q)
      BY <2>1 DEF Outcome, IsPending, IsAllowed
    <2>3. answers'[r] \in Decisions => answers'[r] = Outcome(r)
      <3>1. states[r].status \in {"none", "pending", "allowed", "consumed", "denied"}
        BY StatesAreRecords DEF GateInv, GateTypeOK
      <3>2. QED
        BY <1>4, <3>1 DEF ResolveSettled, GateInv, GateTypeOK, IsNew, IsPending, Outcome,
           Decisions
    <2>4. \A q \in Requests \ {r} : answers'[q] = answers[q]
      BY <1>4 DEF ResolveSettled, GateInv, GateTypeOK
    <2>5. GateTypeOK'
      BY <1>4 DEF ResolveSettled, GateInv, GateTypeOK, Decisions
    <2>6. AnswersStayTrue'
      BY <2>2, <2>3, <2>4 DEF GateInv, AnswersStayTrue
    <2>7. QED
      BY <2>1, <2>2, <2>5, <2>6 DEF GateInv, PendingIsArmed, AuditedOnce,
         MutationNeedsAllow, ReplyMatchesRecord, UnspentOnce
  <1>5. ASSUME NEW r \in Requests, ReplyDelivered(r) \/ ReplyFailed(r) PROVE GateInv'
    <2>1. UNCHANGED <<states, timers, audit, tasks, wire, answers, performed>>
      BY <1>5 DEF ReplyDelivered, ReplyFailed
    <2>2. \A q \in Requests :
             /\ Outcome(q)' = Outcome(q) /\ IsPending(q)' = IsPending(q)
             /\ IsAllowed(q)' = IsAllowed(q)
      BY <2>1 DEF Outcome, IsPending, IsAllowed
    <2>3. GateTypeOK'
      BY <1>5 DEF ReplyDelivered, ReplyFailed, GateInv, GateTypeOK
    <2>4. \A q \in Requests : posts'[q] = "none" <=> posts[q] = "none"
      BY <1>5 DEF ReplyDelivered, ReplyFailed, GateInv, GateTypeOK
    <2>5. ReplyMatchesRecord'
      BY <2>1, <2>2, <2>4 DEF GateInv, ReplyMatchesRecord
    <2>6. QED
      BY <2>1, <2>2, <2>3, <2>5 DEF GateInv, PendingIsArmed, AuditedOnce,
         MutationNeedsAllow, AnswersStayTrue, UnspentOnce
  <1>6. ASSUME NEW s \in Sessions, RegisterTask(s) \/ TaskCompletes(s) PROVE GateInv'
    <2>1. UNCHANGED <<states, timers, audit, wire, posts, callers, answers, performed>>
      BY <1>6 DEF RegisterTask, TaskCompletes
    <2>2. GateTypeOK'
      BY <1>6 DEF RegisterTask, TaskCompletes, GateInv, GateTypeOK, TerminalStates
    <2>3. QED
      BY <2>1, <2>2 DEF GateInv, PendingIsArmed, AuditedOnce, MutationNeedsAllow,
         ReplyMatchesRecord, AnswersStayTrue, UnspentOnce, Outcome, IsPending, IsAllowed
  <1>7. CASE UNCHANGED gateVars
    BY <1>7 DEF gateVars, GateInv, GateTypeOK, PendingIsArmed, AuditedOnce,
       MutationNeedsAllow, ReplyMatchesRecord, AnswersStayTrue, UnspentOnce, Outcome,
       IsPending, IsAllowed
  <1>8. QED
    BY <1>1, <1>2, <1>3, <1>4, <1>5, <1>6, <1>7, SubmitInv, ResolveAllowInv, ProceedInv
       DEF GateNext

\* The gate's safety, for any number of requests, sessions and calls: GateInv
\* holds in every reachable state.
THEOREM GateSafety == GateSpec => []GateInv
  <1>1. GateInit => GateInv
    BY GateInitInv
  <1>2. GateInv /\ [GateNext]_gateVars => GateInv'
    BY GateStepInv
  <1>3. QED
    BY <1>1, <1>2, PTL DEF GateSpec

\* P3 for every instance: no mutation without a recorded Allow, and a "once"
\* Allow is spent at most once.
THEOREM MutationNeedsAllowAlways == GateSpec => []MutationNeedsAllow
  <1>1. GateInv => MutationNeedsAllow
    BY DEF GateInv
  <1>2. QED
    BY <1>1, GateSafety, PTL

\* P5 for every instance: the audit trail holds exactly the decisions taken.
THEOREM AuditedOnceAlways == GateSpec => []AuditedOnce
  <1>1. GateInv => AuditedOnce
    BY DEF GateInv
  <1>2. QED
    BY <1>1, GateSafety, PTL

\* No step flips or re-opens a decision, for every instance.
THEOREM DecisionIsFinalAlways == GateSpec => DecisionIsFinal
  <1>1. ASSUME GateInv, [GateNext]_gateVars
        PROVE  [\A r \in Requests : Decided(r) => Outcome(r)' = Outcome(r)]_gateVars
    <2> SUFFICES ASSUME NEW q \in Requests, Decided(q), GateNext
                 PROVE  Outcome(q)' = Outcome(q)
      BY <1>1
    <2>1. ~IsNew(q) /\ ~IsPending(q) /\ q \notin timers
      BY <1>1 DEF Decided, IsNew, IsPending, GateInv, PendingIsArmed
    <2>2. ASSUME NEW r \in Requests,
                 \/ Submit(r) \/ DenyByPolicy(r) \/ TimerFires(r)
                 \/ ResolveDeny(r) \/ \E scope \in Scopes : ResolveAllow(r, scope)
          PROVE  states'[q] = states[q]
      <3>1. r # q
        BY <2>1, <2>2 DEF Submit, DenyByPolicy, TimerFires, ResolveDeny, ResolveAllow
      <3>2. r \in timers => IsPending(r)
        BY <1>1 DEF GateInv, PendingIsArmed
      <3>3. QED
        BY <1>1, <2>2, <3>1, <3>2 DEF Submit, DenyByPolicy, TimerFires, ResolveDeny,
           ResolveAllow, FinalizeDeny, GateInv, GateTypeOK
    <2>3. ASSUME NEW r \in Requests, Proceed(r) PROVE Outcome(q)' = Outcome(q)
      BY <1>1, <2>3 DEF Proceed, Outcome, IsAllowed, ConsumedState, GateInv, GateTypeOK
    <2>4. ASSUME NEW r \in Requests,
                 ResolveSettled(r) \/ ReplyDelivered(r) \/ ReplyFailed(r)
          PROVE  states' = states
      BY <2>4 DEF ResolveSettled, ReplyDelivered, ReplyFailed
    <2>5. ASSUME NEW s \in Sessions, RegisterTask(s) \/ TaskCompletes(s)
          PROVE  states' = states
      BY <2>5 DEF RegisterTask, TaskCompletes
    <2>6. QED
      BY <2>2, <2>3, <2>4, <2>5 DEF GateNext, Outcome
  <1>2. QED
    BY <1>1, GateSafety, PTL DEF GateSpec, DecisionIsFinal

\* However many requests share a session, no denial of one of them rewrites the terminal of
\* a run that is over (createSessionDenialSink meets a frozen task).
THEOREM TerminalIsFrozenAlways == GateSpec => TerminalIsFrozen
  <1>1. ASSUME GateInv, [GateNext]_gateVars
        PROVE  [\A s \in Sessions :
                  tasks[s] \in TerminalStates => tasks'[s] \in {tasks[s], "running"}]_gateVars
    <2> SUFFICES ASSUME NEW t \in Sessions, tasks[t] \in TerminalStates, GateNext
                 PROVE  tasks'[t] \in {tasks[t], "running"}
      BY <1>1
    <2>1. tasks[t] # "running" /\ tasks \in [Sessions -> {"absent", "running"} \union TerminalStates]
      BY <1>1 DEF GateInv, GateTypeOK, TerminalStates
    <2>2. ASSUME NEW s, DenySession(s) PROVE tasks'[t] = tasks[t]
      <3>1. CASE s = t
        BY <2>1, <2>2, <3>1 DEF DenySession
      <3>2. CASE s # t
        BY <2>1, <2>2, <3>2 DEF DenySession
      <3>3. QED
        BY <3>1, <3>2
    <2>3. ASSUME NEW r \in Requests, DenyByPolicy(r) \/ TimerFires(r) \/ ResolveDeny(r)
          PROVE  tasks'[t] = tasks[t]
      BY <2>2, <2>3 DEF DenyByPolicy, TimerFires, ResolveDeny, FinalizeDeny
    <2>4. ASSUME NEW r \in Requests,
                 \/ Submit(r) \/ ResolveSettled(r) \/ Proceed(r)
                 \/ ReplyDelivered(r) \/ ReplyFailed(r)
                 \/ \E scope \in Scopes : ResolveAllow(r, scope)
          PROVE  tasks' = tasks
      BY <2>4 DEF Submit, ResolveSettled, Proceed, ReplyDelivered, ReplyFailed, ResolveAllow
    <2>5. ASSUME NEW s \in Sessions, RegisterTask(s) \/ TaskCompletes(s)
          PROVE  tasks'[t] \in {tasks[t], "running"}
      BY <2>1, <2>5 DEF RegisterTask, TaskCompletes
    <2>6. QED
      BY <2>3, <2>4, <2>5 DEF GateNext
  <1>2. QED
    BY <1>1, GateSafety, PTL DEF GateSpec, TerminalIsFrozen

-----------------------------------------------------------------------------
(* The gate implements ToolContract. *)

\* What the contract sees of a step that changes the record of one request only.
LEMMA DecisionChanges ==
    ASSUME GateTypeOK, NEW r \in Requests, NEW st \in RequestStates, NEW v,
           states' = [states EXCEPT ![r] = st],
           CASE st.status \in {"none", "pending"} -> v = st.status
             [] st.status = "allowed" -> v = st.scope
             [] st.status = "consumed" -> v = "once"
             [] OTHER -> v = "deny"
    PROVE  GateDecision' = [GateDecision EXCEPT ![r] = v]
  <1>1. \A q \in Requests \ {r} : states'[q] = states[q]
    BY DEF GateTypeOK
  <1>2. states'[r] = st
    BY DEF GateTypeOK
  <1>3. \A q \in Requests : GateDecision'[q] = [GateDecision EXCEPT ![r] = v][q]
    <2> SUFFICES ASSUME NEW q \in Requests
                 PROVE  GateDecision'[q] = [GateDecision EXCEPT ![r] = v][q]
      OBVIOUS
    <2>1. CASE q = r
      BY <1>2, <2>1, StatesAreRecords DEF GateDecision
    <2>2. CASE q # r
      BY <1>1, <2>2 DEF GateDecision
    <2>3. QED
      BY <2>1, <2>2
  <1>4. DOMAIN GateDecision' = Requests /\ DOMAIN GateDecision = Requests
    BY DEF GateDecision
  <1>5. QED
    BY <1>3, <1>4 DEF GateDecision

\* The record tells what the contract sees.
LEMMA DecisionOf ==
    ASSUME GateTypeOK, NEW r \in Requests
    PROVE  /\ IsNew(r) => GateDecision[r] = "none"
           /\ IsPending(r) => GateDecision[r] = "pending"
           /\ IsAllowed(r) => GateDecision[r] = states[r].scope /\ states[r].scope \in Scopes
  BY StatesAreRecords DEF GateTypeOK, IsNew, IsPending, IsAllowed, GateDecision

\* proceed() is a Perform of the contract: a "once" Allow it spends was not spent before.
LEMMA ProceedRefines ==
    ASSUME GateInv, NEW r \in Requests, Proceed(r)
    PROVE  Contract!Perform(r)
  <1>1. GateTypeOK
    BY DEF GateInv
  <1>2. IsAllowed(r) /\ GateDecision[r] = states[r].scope /\ states[r].scope \in Scopes
    BY <1>1, DecisionOf DEF Proceed
  <1>3. states[r].scope = "once" => performed[r] = 0
    BY <1>2 DEF GateInv, UnspentOnce
  <1>4. GateDecision' = GateDecision
    <2>1. CASE states[r].scope = "once"
      <3>1. ConsumedState \in RequestStates /\ ConsumedState.status = "consumed"
        BY DEF RequestStates, ConsumedState
      <3>2. GateDecision' = [GateDecision EXCEPT ![r] = "once"]
        BY <1>1, <2>1, <3>1, DecisionChanges DEF Proceed
      <3>3. QED
        BY <1>2, <2>1, <3>2 DEF GateDecision
    <2>2. CASE states[r].scope # "once"
      BY <2>2 DEF Proceed, GateDecision
    <2>3. QED
      BY <2>1, <2>2
  <1>5. QED
    BY <1>2, <1>3, <1>4 DEF Proceed, Scopes, Contract!Perform, Contract!Allows

\* Every step of the gate is a step of the contract or invisible to it.
LEMMA GateStepRefines ==
    ASSUME GateInv, [GateNext]_gateVars
    PROVE  [Contract!ContractNext]_(Contract!contractVars)
  <1> USE DEF Contract!ContractNext, Contract!contractVars
  <1>1. GateTypeOK
    BY DEF GateInv
  <1>2. ASSUME NEW r \in Requests, Submit(r) PROVE Contract!Raise(r)
    <2>1. PendingState \in RequestStates /\ PendingState.status = "pending"
      BY DEF RequestStates, PendingState
    <2>2. GateDecision' = [GateDecision EXCEPT ![r] = "pending"]
      BY <1>1, <1>2, <2>1, DecisionChanges DEF Submit
    <2>3. QED
      BY <1>1, <1>2, <2>2, DecisionOf DEF Submit, Contract!Raise
  <1>3. ASSUME NEW r \in Requests, NEW reason \in Reasons, FinalizeDeny(r, reason)
        PROVE  GateDecision' = [GateDecision EXCEPT ![r] = "deny"]
    <2>1. DeniedState(reason) \in RequestStates /\ DeniedState(reason).status = "denied"
      BY DEF RequestStates, DeniedState
    <2>2. QED
      BY <1>1, <1>3, <2>1, DecisionChanges DEF FinalizeDeny
  <1>4. ASSUME NEW r \in Requests, DenyByPolicy(r) PROVE Contract!Refuse(r)
    BY <1>1, <1>3, <1>4, DecisionOf DEF DenyByPolicy, Reasons, Contract!Refuse
  <1>5. ASSUME NEW r \in Requests, ResolveDeny(r) PROVE Contract!Decide(r, "deny")
    BY <1>1, <1>3, <1>5, DecisionOf DEF ResolveDeny, Reasons, Contract!Decide
  <1>6. ASSUME NEW r \in Requests, TimerFires(r) PROVE Contract!Decide(r, "deny")
    <2>1. IsPending(r)
      BY <1>6 DEF TimerFires, GateInv, PendingIsArmed
    <2>2. QED
      BY <1>1, <1>3, <1>6, <2>1, DecisionOf DEF TimerFires, Reasons, Contract!Decide
  <1>7. ASSUME NEW r \in Requests, NEW scope \in Scopes, ResolveAllow(r, scope)
        PROVE  Contract!Decide(r, scope)
    <2>1. /\ AllowedState(scope) \in RequestStates /\ AllowedState(scope).status = "allowed"
          /\ AllowedState(scope).scope = scope
      BY DEF RequestStates, AllowedState
    <2>2. GateDecision' = [GateDecision EXCEPT ![r] = scope]
      BY <1>1, <1>7, <2>1, DecisionChanges DEF ResolveAllow
    <2>3. QED
      BY <1>1, <1>7, <2>2, DecisionOf DEF ResolveAllow, Contract!Decide
  <1>8. ASSUME NEW r \in Requests, Proceed(r) PROVE Contract!Perform(r)
    BY <1>8, ProceedRefines
  <1>9. ASSUME UNCHANGED <<states, performed>> PROVE UNCHANGED <<GateDecision, performed>>
    BY <1>9 DEF GateDecision
  <1>10. ASSUME NEW r \in Requests, ResolveSettled(r) \/ ReplyDelivered(r) \/ ReplyFailed(r)
         PROVE  UNCHANGED <<GateDecision, performed>>
    BY <1>9, <1>10 DEF ResolveSettled, ReplyDelivered, ReplyFailed
  <1>11. ASSUME NEW s \in Sessions, RegisterTask(s) \/ TaskCompletes(s)
         PROVE  UNCHANGED <<GateDecision, performed>>
    BY <1>9, <1>11 DEF RegisterTask, TaskCompletes
  <1>12. CASE UNCHANGED gateVars
    BY <1>9, <1>12 DEF gateVars
  <1>13. Scopes \subseteq Contract!Verdicts /\ "deny" \in Contract!Verdicts
    BY DEF Scopes, Contract!Verdicts, Contract!Allows
  <1>14. QED
    BY <1>2, <1>4, <1>5, <1>6, <1>7, <1>8, <1>10, <1>11, <1>12, <1>13 DEF GateNext

\* The gate implements its contract, for every set of requests and sessions and any
\* number of callers: no race of clients, timers and replies decides a request twice or
\* runs a mutation that was not allowed.
THEOREM GateImplements == GateSpec => GateImplementsContract
  <1>1. GateInit => Contract!ContractInit
    BY DEF GateInit, GateDecision, NoState, Contract!ContractInit
  <1>2. GateInv /\ [GateNext]_gateVars => [Contract!ContractNext]_(Contract!contractVars)
    BY GateStepRefines
  <1>3. QED
    BY <1>1, <1>2, GateSafety, PTL DEF GateSpec, GateImplementsContract, Contract!ContractSpec

-----------------------------------------------------------------------------
(* The boundary around it.                                                  *)


\* The frames of the stream are told apart by their type.
LEMMA FrameShape ==
    ASSUME NEW f \in Frames
    PROVE  /\ f.type \in {"asked", "replied", "idle"}
           /\ f.type \in {"asked", "replied"} =>
                 f.request \in RuntimeRequests /\ f = [type |-> f.type, request |-> f.request]
           /\ f.type = "idle" => f.session \in Sessions
  BY DEF Frames

\* The first unread frame, and the rest.
LEMMA FramesTail ==
    ASSUME frames \in Seq(Frames), frames # <<>>
    PROVE  /\ Head(frames) \in Frames
           /\ Tail(frames) \in Seq(Frames)
           /\ \A x : (\E i \in DOMAIN frames : frames[i] = x) =>
                 Head(frames) = x \/ \E i \in DOMAIN Tail(frames) : Tail(frames)[i] = x
           /\ \A x : (\E i \in DOMAIN Tail(frames) : Tail(frames)[i] = x) =>
                 \E i \in DOMAIN frames : frames[i] = x
  <1>1. Len(frames) \in Nat /\ Len(frames) > 0 /\ DOMAIN frames = 1..Len(frames)
    OBVIOUS
  <1>2. /\ Head(frames) \in Frames /\ Tail(frames) \in Seq(Frames)
        /\ Head(frames) = frames[1]
        /\ DOMAIN Tail(frames) = 1..(Len(frames) - 1)
        /\ \A i \in 1..(Len(frames) - 1) : Tail(frames)[i] = frames[i + 1]
    BY <1>1
  <1>3. ASSUME NEW x, NEW i \in DOMAIN frames, frames[i] = x, Head(frames) # x
        PROVE  \E j \in DOMAIN Tail(frames) : Tail(frames)[j] = x
    <2>1. i - 1 \in 1..(Len(frames) - 1) /\ (i - 1) + 1 = i
      BY <1>1, <1>2, <1>3
    <2>2. QED
      BY <1>2, <1>3, <2>1
  <1>4. ASSUME NEW x, NEW i \in DOMAIN Tail(frames), Tail(frames)[i] = x
        PROVE  \E j \in DOMAIN frames : frames[j] = x
    <2>1. i + 1 \in DOMAIN frames
      BY <1>1, <1>2
    <2>2. QED
      BY <1>2, <1>4, <2>1
  <1>5. QED
    BY <1>2, <1>3, <1>4

\* A frame is put behind the others.
LEMMA FramesAppend ==
    ASSUME frames \in Seq(Frames), NEW f \in Frames
    PROVE  /\ Append(frames, f) \in Seq(Frames)
           /\ \A x : (\E i \in DOMAIN Append(frames, f) : Append(frames, f)[i] = x) <=>
                 x = f \/ \E i \in DOMAIN frames : frames[i] = x
  <1>1. Len(frames) \in Nat /\ DOMAIN frames = 1..Len(frames)
    OBVIOUS
  <1>2. /\ Append(frames, f) \in Seq(Frames)
        /\ DOMAIN Append(frames, f) = 1..(Len(frames) + 1)
        /\ \A i \in 1..Len(frames) : Append(frames, f)[i] = frames[i]
        /\ Append(frames, f)[Len(frames) + 1] = f
    BY <1>1
  <1>3. 1..(Len(frames) + 1) = (1..Len(frames)) \union {Len(frames) + 1}
    BY <1>1
  <1>4. QED
    BY <1>1, <1>2, <1>3

\* handle() ends in one of four ways, and consults the preset before two of them.
LEMMA HandleCases ==
    ASSUME TypeOK, NEW r \in RuntimeRequests, NEW hasPath \in BOOLEAN, Handle(r, hasPath)
    PROVE  \/ Refuse(r)
           \/ DenyByPreset(r)
           \/ ~PresetDenies(r) /\ SubmitToGate(r)
           \/ ~PresetDenies(r) /\ AwaitGuard(r)
  <1>1. /\ calls[r].tool \in {"unmapped", "command", "websearch", "webfetch", "file", "move"}
        /\ calls[r].target \in {"none", "inside", "outside"}
    BY CallsAssumption DEF TypeOK, AllCalls
  <1>2. CASE calls[r].tool = "unmapped"
    BY <1>2 DEF Handle
  <1>3. CASE calls[r].tool # "unmapped" /\ PresetDenies(r)
    BY <1>3 DEF Handle
  <1>4. CASE calls[r].tool # "unmapped" /\ ~PresetDenies(r)
    BY <1>1, <1>4 DEF Handle
  <1>5. QED
    BY <1>2, <1>3, <1>4

\* What the four ends of handle() have in common.
LEMMA HandleEnds ==
    ASSUME TypeOK, NEW r \in RuntimeRequests,
           Refuse(r) \/ DenyByPreset(r) \/ SubmitToGate(r) \/ AwaitGuard(r)
    PROVE  /\ [GateNext]_gateVars
           /\ seen' \in SUBSET RuntimeRequests
           /\ bridge' \in {Free} \union Awaits
           /\ bridge' = Free \/ bridge'.request = r
           /\ refusals' \in [RuntimeRequests -> {"none", "sending"}]
  <1>1. r \in Requests
    BY DEF RuntimeRequests
  <1>2. CASE Refuse(r)
    BY <1>2 DEF Refuse, TypeOK, Awaits
  <1>3. CASE DenyByPreset(r)
    BY <1>1, <1>3 DEF DenyByPreset, GateNext, TypeOK, Awaits
  <1>4. CASE SubmitToGate(r)
    BY <1>1, <1>4 DEF SubmitToGate, GateNext, TypeOK
  <1>5. CASE AwaitGuard(r)
    BY <1>5 DEF AwaitGuard, TypeOK, Awaits
  <1>6. QED
    BY <1>2, <1>3, <1>4, <1>5

\* The bridge works on requests of the runtime.
LEMMA BridgeShape ==
    ASSUME TypeOK, bridge # Free
    PROVE  /\ bridge.request \in RuntimeRequests
           /\ bridge.at \in {"resolving", "guarding", "refusing", "denying"}
  BY DEF TypeOK, Awaits

\* Every step of the boundary is a step of the gate or leaves the gate alone.
LEMMA BoundaryStepIsGateStep ==
    ASSUME TypeOK, [Next]_vars
    PROVE  [GateNext]_gateVars
  <1>1. ASSUME NEW r \in RuntimeRequests, Ask(r) \/ AskAgain(r) PROVE UNCHANGED gateVars
    BY <1>1 DEF Ask, AskAgain
  <1>2. ASSUME NEW s \in Sessions, SessionEnds(s) \/ NewTurn(s) \/ ReleasePreset(s)
        PROVE  [GateNext]_gateVars
    BY <1>2 DEF SessionEnds, NewTurn, ReleasePreset, GateNext
  <1>3. CASE LoseFrame
    BY <1>3 DEF LoseFrame
  <1>4. CASE ReadReplied \/ ReadAskedSeen \/ ReadAskedPath \/ PathFails \/ GuardFails
    BY <1>4 DEF ReadReplied, ReadAskedSeen, ReadAskedPath, PathFails, GuardFails
  <1>5. CASE ReadIdle
    <2>1. Head(frames).session \in Sessions
      BY <1>5, FramesTail, FrameShape DEF ReadIdle, NextFrame, TypeOK
    <2>2. CASE tasks[Head(frames).session] = "running"
      BY <1>5, <2>1, <2>2 DEF ReadIdle, GateNext, TaskCompletes
    <2>3. CASE tasks[Head(frames).session] # "running"
      BY <1>5, <2>3 DEF ReadIdle, gateVars
    <2>4. QED
      BY <2>2, <2>3
  <1>6. CASE ReadAskedDirect
    <2>1. Head(frames).request \in RuntimeRequests
      BY <1>6, FramesTail, FrameShape DEF ReadAskedDirect, NextFrame, TypeOK
    <2>2. Handle(Head(frames).request, FALSE)
      BY <1>6 DEF ReadAskedDirect
    <2>3. QED
      BY <2>1, <2>2, HandleCases, HandleEnds
  <1>7. CASE PathResolved
    <2>1. bridge.request \in RuntimeRequests
      BY <1>7, BridgeShape DEF PathResolved, Free
    <2>2. Handle(bridge.request, calls[bridge.request].target = "inside")
      BY <1>7 DEF PathResolved
    <2>3. QED
      BY <2>1, <2>2, HandleCases, HandleEnds
  <1>8. ASSUME NEW escapes \in BOOLEAN, GuardAnswers(escapes) PROVE [GateNext]_gateVars
    <2>1. bridge.request \in RuntimeRequests
      BY <1>8, BridgeShape DEF GuardAnswers, Free
    <2>2. QED
      BY <1>8, <2>1, HandleEnds DEF GuardAnswers
  <1>9. ASSUME NEW arrives \in BOOLEAN, RefusalSettles(arrives) PROVE UNCHANGED gateVars
    BY <1>9 DEF RefusalSettles
  <1>10. ASSUME NEW r \in Requests, Timeout(r) \/ UserDecides(r) \/ AnswerAgain(r)
         PROVE  GateNext
    BY <1>10 DEF Timeout, UserDecides, AnswerAgain, GateNext
  <1>11. ASSUME NEW r \in Requests, NEW arrives \in BOOLEAN, ReplySettles(r, arrives)
         PROVE  GateNext
    BY <1>11 DEF ReplySettles, GateNext
  <1>12. ASSUME NEW r \in ServiceRequests, ServiceCall(r) \/ ServicePoll(r)
         PROVE  [GateNext]_gateVars
    BY <1>12, ServiceRequestsAssumption DEF ServiceCall, ServicePoll, GateNext
  <1>13. CASE UNCHANGED vars
    BY <1>13 DEF vars
  <1>14. QED
    BY <1>1, <1>2, <1>3, <1>4, <1>5, <1>6, <1>7, <1>8, <1>9, <1>10, <1>11, <1>12, <1>13
       DEF Next, BridgeStep

\* The boundary keeps its types.
LEMMA BoundaryStepTypes ==
    ASSUME TypeOK, GateTypeOK', [Next]_vars
    PROVE  TypeOK'
  <1>1. ASSUME NEW r \in RuntimeRequests, Ask(r) \/ AskAgain(r) PROVE TypeOK'
    <2>1. [type |-> "asked", request |-> r] \in Frames
      BY DEF Frames
    <2>2. frames' \in Seq(Frames)
      BY <1>1, <2>1, FramesAppend DEF Ask, AskAgain, Emit, TypeOK
    <2>3. QED
      BY <1>1, <2>2 DEF Ask, AskAgain, TypeOK
  <1>2. ASSUME NEW s \in Sessions, SessionEnds(s) PROVE TypeOK'
    <2>1. [type |-> "idle", session |-> s] \in Frames
      BY DEF Frames
    <2>2. frames' \in Seq(Frames)
      BY <1>2, <2>1, FramesAppend DEF SessionEnds, Emit, TypeOK
    <2>3. tools' \in [RuntimeRequests -> {"idle", "blocked", "ran", "rejected", "aborted"}]
      BY <1>2 DEF SessionEnds, TypeOK
    <2>4. QED
      BY <1>2, <2>2, <2>3 DEF SessionEnds, TypeOK
  <1>3. CASE LoseFrame
    BY <1>3, FramesTail, FrameShape DEF LoseFrame, TypeOK
  <1>4. CASE ReadReplied \/ ReadIdle \/ ReadAskedSeen
    BY <1>4, FramesTail DEF ReadReplied, ReadIdle, ReadAskedSeen, NextFrame, TypeOK
  <1>5. CASE ReadAskedPath
    <2>1. Head(frames).request \in RuntimeRequests /\ Tail(frames) \in Seq(Frames)
      BY <1>5, FramesTail, FrameShape DEF ReadAskedPath, NextFrame, TypeOK
    <2>2. bridge' \in Awaits
      BY <1>5, <2>1 DEF ReadAskedPath, Awaits
    <2>3. QED
      BY <1>5, <2>1, <2>2 DEF ReadAskedPath, NextFrame, TypeOK
  <1>6. CASE ReadAskedDirect
    <2>1. Head(frames).request \in RuntimeRequests /\ Tail(frames) \in Seq(Frames)
      BY <1>6, FramesTail, FrameShape DEF ReadAskedDirect, NextFrame, TypeOK
    <2>2. Handle(Head(frames).request, FALSE)
      BY <1>6 DEF ReadAskedDirect
    <2>3. /\ seen' \in SUBSET RuntimeRequests
          /\ bridge' \in {Free} \union Awaits
          /\ refusals' \in [RuntimeRequests -> {"none", "sending"}]
      BY <2>1, <2>2, HandleCases, HandleEnds
    <2>4. QED
      BY <1>6, <2>1, <2>3 DEF ReadAskedDirect, NextFrame, TypeOK
  <1>7. CASE PathResolved
    <2>1. bridge.request \in RuntimeRequests
      BY <1>7, BridgeShape DEF PathResolved, Free
    <2>2. Handle(bridge.request, calls[bridge.request].target = "inside")
      BY <1>7 DEF PathResolved
    <2>3. /\ seen' \in SUBSET RuntimeRequests
          /\ bridge' \in {Free} \union Awaits
          /\ refusals' \in [RuntimeRequests -> {"none", "sending"}]
      BY <2>1, <2>2, HandleCases, HandleEnds
    <2>4. QED
      BY <1>7, <2>3 DEF PathResolved, TypeOK
  <1>8. ASSUME NEW escapes \in BOOLEAN, GuardAnswers(escapes) PROVE TypeOK'
    <2>1. bridge.request \in RuntimeRequests
      BY <1>8, BridgeShape DEF GuardAnswers, Free
    <2>2. /\ seen' \in SUBSET RuntimeRequests
          /\ bridge' \in {Free} \union Awaits
          /\ refusals' \in [RuntimeRequests -> {"none", "sending"}]
      BY <1>8, <2>1, HandleEnds DEF GuardAnswers
    <2>3. QED
      BY <1>8, <2>2 DEF GuardAnswers, TypeOK
  <1>9. ASSUME NEW r \in RuntimeRequests, NEW value, Unblock(r, value)
        PROVE  /\ tools' \in [RuntimeRequests -> {"idle", "blocked", "ran", "rejected", "aborted"}]
               /\ frames' \in Seq(Frames)
    <2>1. [type |-> "replied", request |-> r] \in Frames
      BY DEF Frames
    <2>2. QED
      BY <1>9, <2>1, FramesAppend DEF Unblock, Emit, TypeOK
  <1>10. ASSUME NEW arrives \in BOOLEAN, RefusalSettles(arrives) PROVE TypeOK'
    <2>1. bridge.request \in RuntimeRequests
      BY <1>10, BridgeShape DEF RefusalSettles, Free
    <2>2. QED
      BY <1>9, <1>10, <2>1 DEF RefusalSettles, TypeOK
  <1>11. ASSUME NEW r \in Requests, NEW arrives \in BOOLEAN, ReplySettles(r, arrives)
         PROVE  TypeOK'
    BY <1>9, <1>11 DEF ReplySettles, TypeOK, RuntimeRequests
  <1>12. ASSUME NEW r \in ServiceRequests, ServiceCall(r) \/ ServicePoll(r) PROVE TypeOK'
    BY <1>12 DEF ServiceCall, ServicePoll, TypeOK
  <1>13. ASSUME NEW s \in Sessions, ReleasePreset(s) PROVE TypeOK'
    BY <1>13 DEF ReleasePreset, TypeOK
  <1>14. CASE UNCHANGED boundaryVars
    BY <1>14 DEF boundaryVars, TypeOK
  <1>15. CASE PathFails \/ GuardFails
    <2>1. bridge.request \in RuntimeRequests
      BY <1>15, BridgeShape DEF PathFails, GuardFails, Free
    <2>2. QED
      BY <1>15, <2>1 DEF PathFails, GuardFails, TypeOK
  <1>16. QED
    BY <1>1, <1>2, <1>3, <1>4, <1>5, <1>6, <1>7, <1>8, <1>10, <1>11, <1>12, <1>13, <1>14, <1>15
       DEF Next, BridgeStep, NewTurn, Timeout, UserDecides, AnswerAgain, vars

\* Seen from the gate, the boundary is one of its environments.
THEOREM BoundaryUsesGate == Spec => GateSpec
  <1>1. Init => GateInit /\ TypeOK
    <2>1. Init => GateInit /\ GateInv
      BY GateInitInv DEF Init
    <2>2. QED
      BY <2>1 DEF Init, TypeOK, GateInv
  <1>2. TypeOK /\ GateInv /\ [Next]_vars => TypeOK' /\ GateInv' /\ [GateNext]_gateVars
    BY BoundaryStepIsGateStep, BoundaryStepTypes, GateStepInv DEF GateInv
  <1>3. Init => GateInv
    BY GateInitInv DEF Init
  <1>4. QED
    BY <1>1, <1>2, <1>3, PTL DEF Spec, GateSpec

-----------------------------------------------------------------------------
(* The invariant of the boundary, where a later turn uses no id again. *)

\* The stream holds an ask of the request that the bridge has not read.
HasAsk(r) == \E i \in DOMAIN frames : frames[i] = [type |-> "asked", request |-> r]

\* The request the bridge is working on.
AtBridge(r) == bridge # Free /\ bridge.request = r

\* The part of the invariant that is about one request of the runtime.
CallInv(r) ==
    /\ r \notin lost \union unchecked /\ tools[r] = "blocked" =>
          HasAsk(r) \/ AtBridge(r) \/ IsPending(r) \/ posts[r] = "sending"
    /\ tools[r] = "idle" => IsNew(r) /\ r \notin seen /\ ~AtBridge(r) /\ ~HasAsk(r)
    /\ r \in seen /\ r \notin lost \union unchecked /\ tools[r] = "blocked" =>
          AtBridge(r) \/ IsPending(r) \/ posts[r] = "sending"
    /\ posts[r] = "delivered" => tools[r] # "blocked"
    /\ posts[r] = "failed" => r \in lost
    /\ PresetDenies(r) =>
          /\ AtBridge(r) => bridge.at # "guarding"
          /\ states[r].status \in {"none", "denied"}
          /\ tools[r] # "ran"

\* The part of the invariant that is about one request of the service.
ToolInv(r) ==
    /\ services[r] = "idle" => IsNew(r)
    /\ services[r] = "polling" => states[r].status \in {"pending", "allowed", "denied"}
    /\ services[r] = "ran" => performed[r] = 1 /\ Outcome(r) = "allow"
    /\ services[r] # "ran" => performed[r] = 0
    /\ services[r] = "denied" => Outcome(r) = "deny"

\* The invariant, request by request.
LEMMA IInvByRequest ==
    BoundaryIInv <=>
        /\ GateInv
        /\ TypeOK
        /\ \A r \in RuntimeRequests : CallInv(r)
        /\ \A r \in ServiceRequests : ToolInv(r)
  <1>1. ASSUME TypeOK PROVE seen \subseteq RuntimeRequests
    BY <1>1 DEF TypeOK
  <1>2. ASSUME TypeOK, bridge.at = "guarding"
        PROVE  bridge # Free /\ bridge.request \in RuntimeRequests
    BY <1>2, BridgeShape DEF Free
  <1>3. ASSUME BoundaryIInv
        PROVE  /\ GateInv /\ TypeOK
               /\ \A r \in RuntimeRequests : CallInv(r)
               /\ \A r \in ServiceRequests : ToolInv(r)
    <2> USE <1>3 DEF BoundaryIInv, BoundaryInv
    <2>1. ASSUME NEW r \in RuntimeRequests PROVE CallInv(r)
      BY DEF CallInv, HasAsk, AtBridge, BlockedIsOwned, Unanswered, IdleIsUnknown,
         SeenIsOwned, SettledIsNotOwed, GuardedIsNotPreset, PresetHolds
    <2>2. ASSUME NEW r \in ServiceRequests PROVE ToolInv(r)
      BY DEF ToolInv, PollingIsSubmitted, ServiceToolHonest
    <2>3. QED
      BY <2>1, <2>2
  <1>4. ASSUME GateInv, TypeOK,
               \A r \in RuntimeRequests : CallInv(r),
               \A r \in ServiceRequests : ToolInv(r)
        PROVE  BoundaryIInv
    <2>1. BlockedIsOwned /\ IdleIsUnknown /\ SettledIsNotOwed
      BY <1>4 DEF CallInv, HasAsk, AtBridge, BlockedIsOwned, Unanswered, IdleIsUnknown,
         SettledIsNotOwed
    <2>2. SeenIsOwned
      BY <1>1, <1>4 DEF CallInv, AtBridge, SeenIsOwned, Unanswered
    <2>3. GuardedIsNotPreset /\ PresetHolds
      BY <1>2, <1>4 DEF CallInv, AtBridge, GuardedIsNotPreset, PresetHolds
    <2>4. PollingIsSubmitted /\ ServiceToolHonest
      BY <1>4 DEF ToolInv, PollingIsSubmitted, ServiceToolHonest
    <2>5. QED
      BY <1>4, <2>1, <2>2, <2>3, <2>4 DEF BoundaryIInv, BoundaryInv
  <1>5. QED
    BY <1>3, <1>4

\* The record of an undecided or a decided request, as the gate's invariant has it.
LEMMA RecordFacts ==
    ASSUME GateInv, NEW r \in Requests
    PROVE  /\ states[r].status \in {"none", "pending", "allowed", "consumed", "denied"}
           /\ IsNew(r) => posts[r] = "none" /\ performed[r] = 0
           /\ posts[r] \in {"none", "sending", "delivered", "failed"}
           /\ posts[r] = "none" => IsNew(r) \/ IsPending(r)
           /\ posts[r] # "none" => wire[r] \in {"once", "always", "reject"}
           /\ wire[r] = "reject" => Outcome(r) = "deny"
           /\ wire[r] \in Scopes => Outcome(r) = "allow"
           /\ performed[r] \in Nat
           /\ ~(Outcome(r) = "allow") => performed[r] = 0
  <1>1. /\ states[r].status \in {"none", "pending", "allowed", "consumed", "denied"}
        /\ performed[r] \in Nat /\ wire[r] \in {"none", "once", "always", "reject"}
        /\ posts[r] \in {"none", "sending", "delivered", "failed"}
    BY StatesAreRecords DEF GateInv, GateTypeOK
  <1>2. ~(Outcome(r) = "allow") => performed[r] = 0
    <2>1. ~(Outcome(r) = "allow") => ~(performed[r] > 0)
      BY DEF GateInv, MutationNeedsAllow
    <2>2. QED
      BY <1>1, <2>1
  <1>3. QED
    BY <1>1, <1>2 DEF GateInv, ReplyMatchesRecord, Outcome, IsNew, IsPending, Scopes

\* An operation of the gate on one request, and what it does to it: submit, a deny, an
\* allow, a spent allow, a settled reply, or nothing but an answer.
GateOps(r) ==
    \/ Submit(r) \/ DenyByPolicy(r) \/ TimerFires(r) \/ ResolveSettled(r) \/ ResolveDeny(r)
    \/ (\E scope \in Scopes : ResolveAllow(r, scope))
    \/ ReplyDelivered(r) \/ ReplyFailed(r) \/ Proceed(r)

\* It leaves the other requests alone.
LEMMA OthersUntouched ==
    ASSUME GateTypeOK, NEW r \in Requests, GateOps(r), NEW q \in Requests, q # r
    PROVE  /\ states'[q] = states[q]
           /\ posts'[q] = posts[q]
           /\ performed'[q] = performed[q]
  BY DEF GateOps, Submit, DenyByPolicy, TimerFires, ResolveSettled, ResolveDeny, ResolveAllow,
     ReplyDelivered, ReplyFailed, Proceed, FinalizeDeny, Forward, GateTypeOK

\* A deny by the user, the timer or a policy ends an undecided request.
LEMMA DenyEffect ==
    ASSUME GateInv, NEW r \in Requests,
           DenyByPolicy(r) \/ TimerFires(r) \/ ResolveDeny(r)
    PROVE  /\ IsNew(r) \/ IsPending(r)
           /\ states'[r].status = "denied"
           /\ posts'[r] = "sending"
           /\ performed' = performed
  <1>1. r \in timers => IsPending(r)
    BY DEF GateInv, PendingIsArmed
  <1>2. \E reason \in Reasons : FinalizeDeny(r, reason)
    BY <1>1 DEF DenyByPolicy, TimerFires, ResolveDeny, Reasons
  <1>3. states'[r].status = "denied" /\ posts'[r] = "sending"
    BY <1>2 DEF FinalizeDeny, Forward, DeniedState, GateInv, GateTypeOK
  <1>4. QED
    BY <1>1, <1>3 DEF DenyByPolicy, TimerFires, ResolveDeny

\* The requests of the runtime that a step does not touch keep their part.
LEMMA CallKeeps ==
    ASSUME NEW q \in RuntimeRequests, CallInv(q),
           states'[q] = states[q], posts'[q] = posts[q], tools'[q] = tools[q],
           HasAsk(q)' <=> HasAsk(q), AtBridge(q)' <=> AtBridge(q),
           AtBridge(q) => bridge'.at = bridge.at,
           q \in seen' => q \in seen, q \in lost => q \in lost',
           q \in unchecked => q \in unchecked',
           PresetDenies(q)' => PresetDenies(q)
    PROVE  CallInv(q)'
  BY DEF CallInv, IsNew, IsPending

\* Nobody's preset changes while calls and bindings stay.
LEMMA PresetKeeps ==
    ASSUME calls' = calls, bound' \subseteq bound, NEW q \in RuntimeRequests
    PROVE  PresetDenies(q)' => PresetDenies(q)
  BY DEF PresetDenies, KindOf

\* A service request that a step does not touch keeps its part.
LEMMA ToolKeeps ==
    ASSUME NEW q \in ServiceRequests, ToolInv(q), states'[q] = states[q],
           performed'[q] = performed[q], services'[q] = services[q]
    PROVE  ToolInv(q)'
  BY DEF ToolInv, IsNew, Outcome

\* A frame that is emitted is an ask of one request at most.
LEMMA AsksAfterEmit ==
    ASSUME TypeOK, NEW f \in Frames, Emit(f), NEW q \in RuntimeRequests
    PROVE  HasAsk(q)' <=> HasAsk(q) \/ (f.type = "asked" /\ f.request = q)
  <1> DEFINE ask == [type |-> "asked", request |-> q]
  <1>1. \A x : (\E i \in DOMAIN frames' : frames'[i] = x) <=>
            x = f \/ \E i \in DOMAIN frames : frames[i] = x
    BY FramesAppend DEF Emit, TypeOK
  <1>2. ask = f <=> f.type = "asked" /\ f.request = q
    <2>1. CASE f.type = "asked"
      BY <2>1, FrameShape
    <2>2. CASE f.type # "asked"
      <3>1. [type |-> "asked", request |-> q].type = "asked"
        OBVIOUS
      <3>2. QED
        BY <2>2, <3>1
    <2>3. QED
      BY <2>1, <2>2
  <1>3. /\ HasAsk(q) <=> \E i \in DOMAIN frames : frames[i] = ask
        /\ HasAsk(q)' <=> \E i \in DOMAIN frames' : frames'[i] = ask
    BY DEF HasAsk
  <1> HIDE DEF ask
  <1>4. QED
    BY <1>1, <1>2, <1>3

\* Reading or losing a frame takes away one ask at most.
LEMMA AsksAfterRead ==
    ASSUME TypeOK, frames # <<>>, frames' = Tail(frames), NEW q \in RuntimeRequests
    PROVE  /\ HasAsk(q)' => HasAsk(q)
           /\ HasAsk(q) => HasAsk(q)' \/ (Head(frames).type = "asked" /\ Head(frames).request = q)
  <1> DEFINE ask == [type |-> "asked", request |-> q]
  <1>1. /\ \A x : (\E i \in DOMAIN frames : frames[i] = x) =>
                 Head(frames) = x \/ \E i \in DOMAIN frames' : frames'[i] = x
        /\ \A x : (\E i \in DOMAIN frames' : frames'[i] = x) =>
                 \E i \in DOMAIN frames : frames[i] = x
    BY FramesTail DEF TypeOK
  <1>2. Head(frames) = ask => Head(frames).type = "asked" /\ Head(frames).request = q
    OBVIOUS
  <1>3. /\ HasAsk(q) <=> \E i \in DOMAIN frames : frames[i] = ask
        /\ HasAsk(q)' <=> \E i \in DOMAIN frames' : frames'[i] = ask
    BY DEF HasAsk
  <1> HIDE DEF ask
  <1>4. QED
    BY <1>1, <1>2, <1>3

\* The runtime's own steps keep every call's part.
LEMMA RuntimeSteps ==
    ASSUME BoundaryIInv, ~ReuseIds,
           \/ \E r \in RuntimeRequests : Ask(r) \/ AskAgain(r)
           \/ \E s \in Sessions : SessionEnds(s)
           \/ LoseFrame
    PROVE  /\ \A q \in RuntimeRequests : CallInv(q)'
           /\ \A q \in ServiceRequests : ToolInv(q)'
  <1>0. /\ GateInv /\ TypeOK
        /\ \A q \in RuntimeRequests : CallInv(q)
        /\ \A q \in ServiceRequests : ToolInv(q)
    BY IInvByRequest
  <1>1. /\ UNCHANGED gateVars /\ calls' = calls /\ bound' = bound /\ bridge' = bridge
        /\ services' = services /\ seen' = seen
    BY DEF Ask, AskAgain, SessionEnds, LoseFrame
  <1>2. ASSUME NEW q \in ServiceRequests PROVE ToolInv(q)'
    BY <1>0, <1>1, ToolKeeps DEF gateVars
  <1>3. ASSUME NEW q \in RuntimeRequests
        PROVE  /\ states'[q] = states[q] /\ posts'[q] = posts[q]
               /\ PresetDenies(q)' => PresetDenies(q)
               /\ AtBridge(q)' <=> AtBridge(q)
               /\ bridge'.at = bridge.at
               /\ IsNew(q)' <=> IsNew(q)
               /\ IsPending(q)' <=> IsPending(q)
               /\ q \in seen' <=> q \in seen
    BY <1>1, PresetKeeps DEF gateVars, AtBridge, IsNew, IsPending
  <1>4. ASSUME NEW r \in RuntimeRequests, Ask(r) \/ AskAgain(r), NEW q \in RuntimeRequests
        PROVE  CallInv(q)'
    <2>1. [type |-> "asked", request |-> r] \in Frames
      BY DEF Frames
    <2>2. HasAsk(q)' <=> HasAsk(q) \/ q = r
      BY <1>0, <1>4, <2>1, AsksAfterEmit DEF Ask, AskAgain
    <2>3. CASE q # r
      BY <1>0, <1>3, <1>4, <2>2, <2>3, CallKeeps DEF Ask, AskAgain, TypeOK
    <2>4. CASE q = r
      <3>1. tools'[r] = "blocked" /\ lost' = lost /\ unchecked' = unchecked
        BY <1>0, <1>4 DEF Ask, AskAgain, TypeOK
      <3>2. r \in Requests
        BY DEF RuntimeRequests
      <3>3. Ask(r) => posts[r] # "delivered" /\ posts[r] # "failed" /\ r \notin seen
        BY <1>0, <3>2, RecordFacts DEF Ask, CallInv
      <3>4. QED
        BY <1>0, <1>3, <1>4, <2>2, <2>4, <3>1, <3>3 DEF CallInv, AskAgain
    <2>5. QED
      BY <2>3, <2>4
  <1>5. ASSUME NEW s \in Sessions, SessionEnds(s), NEW q \in RuntimeRequests
        PROVE  CallInv(q)'
    <2>1. [type |-> "idle", session |-> s] \in Frames
      BY DEF Frames
    <2>2. HasAsk(q)' <=> HasAsk(q)
      BY <1>0, <1>5, <2>1, AsksAfterEmit DEF SessionEnds
    <2>3. tools'[q] = tools[q] \/ tools'[q] = "aborted"
      BY <1>0, <1>5 DEF SessionEnds, TypeOK
    <2>4. lost' = lost /\ unchecked' = unchecked
      BY <1>5 DEF SessionEnds
    <2>5. QED
      BY <1>0, <1>3, <2>2, <2>3, <2>4 DEF CallInv
  <1>6. ASSUME LoseFrame, NEW q \in RuntimeRequests PROVE CallInv(q)'
    <2>1. /\ frames # <<>> /\ frames' = Tail(frames) /\ tools' = tools
          /\ lost \subseteq lost' /\ unchecked' = unchecked
          /\ Head(frames).type = "asked" => Head(frames).request \in lost'
      BY <1>6 DEF LoseFrame
    <2>2. HasAsk(q)' => HasAsk(q)
      BY <1>0, <2>1, AsksAfterRead
    <2>3. HasAsk(q) => HasAsk(q)' \/ q \in lost'
      BY <1>0, <2>1, AsksAfterRead
    <2>4. QED
      BY <1>0, <1>3, <2>1, <2>2, <2>3 DEF CallInv
  <1>7. QED
    BY <1>2, <1>4, <1>5, <1>6

\* However handle() ends, every request keeps its part.
LEMMA HandleKeeps ==
    ASSUME BoundaryIInv, NEW r \in RuntimeRequests, tools[r] # "idle",
           \/ Refuse(r)
           \/ DenyByPreset(r)
           \/ ~PresetDenies(r) /\ (SubmitToGate(r) \/ AwaitGuard(r)),
           bridge = Free \/ bridge.request = r,
           UNCHANGED <<calls, tools, bound, services, lost, unchecked>>,
           \A q \in RuntimeRequests :
              (HasAsk(q)' => HasAsk(q)) /\ (HasAsk(q) => HasAsk(q)' \/ q = r)
    PROVE  /\ \A q \in RuntimeRequests : CallInv(q)'
           /\ \A q \in ServiceRequests : ToolInv(q)'
  <1>1. /\ GateInv /\ TypeOK /\ GateTypeOK
        /\ \A q \in RuntimeRequests : CallInv(q)
        /\ \A q \in ServiceRequests : ToolInv(q)
    BY IInvByRequest DEF GateInv
  <1>2. r \in Requests /\ r \notin ServiceRequests
    BY DEF RuntimeRequests
  <1>3. UNCHANGED gateVars \/ (IsNew(r) /\ (Submit(r) \/ DenyByPolicy(r)))
    BY DEF Refuse, DenyByPreset, SubmitToGate, AwaitGuard
  <1>4. ASSUME NEW q \in Requests, q # r
        PROVE  states'[q] = states[q] /\ posts'[q] = posts[q] /\ performed'[q] = performed[q]
    <2>1. CASE UNCHANGED gateVars
      BY <2>1 DEF gateVars
    <2>2. CASE Submit(r) \/ DenyByPolicy(r)
      BY <1>1, <1>2, <1>4, <2>2, OthersUntouched DEF GateOps
    <2>3. QED
      BY <1>3, <2>1, <2>2
  <1>5. ASSUME NEW q \in ServiceRequests PROVE ToolInv(q)'
    BY <1>1, <1>2, <1>4, ToolKeeps, ServiceRequestsAssumption
  <1>6. ASSUME NEW q \in RuntimeRequests, q # r PROVE CallInv(q)'
    <2>1. ~AtBridge(q) /\ ~AtBridge(q)'
      BY <1>1, <1>6, HandleEnds DEF AtBridge
    <2>2. q \in seen' => q \in seen
      BY <1>6 DEF Refuse, DenyByPreset, SubmitToGate, AwaitGuard
    <2>3. QED
      BY <1>1, <1>4, <1>6, <2>1, <2>2, CallKeeps, PresetKeeps DEF RuntimeRequests
  <1>7. CallInv(r)'
    <2>1. PresetDenies(r)' => PresetDenies(r)
      BY PresetKeeps
    <2>2. CASE UNCHANGED gateVars /\ ~IsNew(r) /\ bridge' = Free /\ r \notin seen'
      <3>1. r \notin lost \union unchecked /\ tools[r] = "blocked" => IsPending(r) \/ posts[r] = "sending"
        BY <1>1, <1>2, <2>2, RecordFacts DEF CallInv
      <3>2. QED
        BY <1>1, <2>1, <2>2, <3>1 DEF CallInv, AtBridge, gateVars, IsNew, IsPending
    <2>3. CASE UNCHANGED gateVars /\ bridge' = [at |-> "refusing", request |-> r]
      BY <1>1, <2>1, <2>3 DEF CallInv, AtBridge, Free, gateVars, IsNew, IsPending
    <2>4. CASE ~PresetDenies(r) /\ UNCHANGED gateVars /\ bridge' = [at |-> "guarding", request |-> r]
      BY <1>1, <2>1, <2>4 DEF CallInv, AtBridge, Free, gateVars, IsNew, IsPending
    <2>5. CASE ~PresetDenies(r) /\ Submit(r)
      <3>1. states'[r].status = "pending" /\ posts'[r] = "none"
        BY <1>1, <1>2, <2>5, RecordFacts DEF Submit, PendingState, GateTypeOK
      <3>2. QED
        BY <2>1, <2>5, <3>1 DEF CallInv, IsPending
    <2>6. CASE DenyByPolicy(r) /\ bridge' = [at |-> "denying", request |-> r]
      <3>1. states'[r].status = "denied" /\ posts'[r] = "sending"
        BY <1>1, <1>2, <2>6, DenyEffect
      <3>2. PresetDenies(r) => tools[r] # "ran"
        BY <1>1 DEF CallInv
      <3>3. QED
        BY <2>1, <2>6, <3>1, <3>2 DEF CallInv
    <2>7. QED
      BY <2>2, <2>3, <2>4, <2>5, <2>6 DEF Refuse, DenyByPreset, SubmitToGate, AwaitGuard
  <1>8. QED
    BY <1>5, <1>6, <1>7

\* The bridge's steps keep every request's part.
LEMMA BridgeSteps ==
    ASSUME BoundaryIInv, BridgeStep
    PROVE  /\ \A q \in RuntimeRequests : CallInv(q)'
           /\ \A q \in ServiceRequests : ToolInv(q)'
  <1>1. /\ GateInv /\ TypeOK
        /\ \A q \in RuntimeRequests : CallInv(q)
        /\ \A q \in ServiceRequests : ToolInv(q)
    BY IInvByRequest
  <1>2. CASE ReadReplied \/ ReadIdle \/ ReadAskedSeen
    <2>1. /\ UNCHANGED <<states, posts, performed, calls, tools, bridge, bound, services, lost, unchecked>>
          /\ seen' \subseteq seen /\ frames # <<>> /\ frames' = Tail(frames)
          /\ Head(frames).type = "asked" => Head(frames).request \in seen
          /\ bridge = Free
      BY <1>2 DEF ReadReplied, ReadIdle, ReadAskedSeen, NextFrame, gateVars
    <2>2. ASSUME NEW q \in RuntimeRequests PROVE CallInv(q)'
      <3>1. (HasAsk(q)' => HasAsk(q)) /\ (HasAsk(q) => HasAsk(q)' \/ q \in seen)
        BY <1>1, <2>1, AsksAfterRead
      <3>2. PresetDenies(q)' => PresetDenies(q)
        BY <2>1, PresetKeeps
      <3>3. ~AtBridge(q) /\ ~AtBridge(q)'
        BY <2>1 DEF AtBridge
      <3>4. QED
        BY <1>1, <2>1, <3>1, <3>2, <3>3 DEF CallInv, IsNew, IsPending
    <2>3. ASSUME NEW q \in ServiceRequests PROVE ToolInv(q)'
      BY <1>1, <2>1, ToolKeeps
    <2>4. QED
      BY <2>2, <2>3
  <1>3. CASE ReadAskedPath
    <2> DEFINE r == Head(frames).request
    <2>1. /\ UNCHANGED <<states, posts, performed, calls, tools, bound, services, lost, seen>>
          /\ frames # <<>> /\ frames' = Tail(frames) /\ bridge = Free
          /\ Head(frames).type = "asked"
          /\ bridge' = [at |-> "resolving", request |-> r]
          /\ unchecked' = unchecked \ {r}
      BY <1>3 DEF ReadAskedPath, NextFrame, gateVars
    <2>2. r \in RuntimeRequests /\ HasAsk(r)
      <3>1. Head(frames) \in Frames /\ 1 \in DOMAIN frames /\ Head(frames) = frames[1]
        BY <1>1, <2>1 DEF TypeOK
      <3>2. QED
        BY <2>1, <3>1, FrameShape DEF HasAsk
    <2> HIDE DEF r
    <2>3. ASSUME NEW q \in RuntimeRequests PROVE CallInv(q)'
      <3>1. (HasAsk(q)' => HasAsk(q)) /\ (HasAsk(q) => HasAsk(q)' \/ q = r)
        BY <1>1, <2>1, AsksAfterRead DEF r
      <3>2. PresetDenies(q)' => PresetDenies(q)
        BY <2>1, PresetKeeps
      <3>3. ~AtBridge(q) /\ (AtBridge(q)' <=> q = r) /\ bridge'.at = "resolving"
        BY <2>1 DEF AtBridge, Free
      <3>4. tools[r] # "idle"
        BY <1>1, <2>2 DEF CallInv
      <3>5. QED
        BY <1>1, <2>1, <3>1, <3>2, <3>3, <3>4 DEF CallInv, IsNew, IsPending
    <2>4. ASSUME NEW q \in ServiceRequests PROVE ToolInv(q)'
      BY <1>1, <2>1, ToolKeeps
    <2>5. QED
      BY <2>3, <2>4
  <1>4. CASE ReadAskedDirect
    <2> DEFINE r == Head(frames).request
    <2>1. /\ UNCHANGED <<calls, tools, bound, services, lost, unchecked>>
          /\ frames # <<>> /\ frames' = Tail(frames) /\ bridge = Free
          /\ Head(frames).type = "asked" /\ Handle(r, FALSE)
      BY <1>4 DEF ReadAskedDirect, NextFrame
    <2>2. r \in RuntimeRequests /\ HasAsk(r)
      <3>1. Head(frames) \in Frames /\ 1 \in DOMAIN frames /\ Head(frames) = frames[1]
        BY <1>1, <2>1 DEF TypeOK
      <3>2. QED
        BY <2>1, <3>1, FrameShape DEF HasAsk
    <2>3. \A q \in RuntimeRequests :
             (HasAsk(q)' => HasAsk(q)) /\ (HasAsk(q) => HasAsk(q)' \/ q = r)
      BY <1>1, <2>1, AsksAfterRead
    <2> HIDE DEF r
    <2>4. tools[r] # "idle"
      BY <1>1, <2>2 DEF CallInv
    <2>5. \/ Refuse(r) \/ DenyByPreset(r)
          \/ ~PresetDenies(r) /\ (SubmitToGate(r) \/ AwaitGuard(r))
      BY <1>1, <2>1, <2>2, HandleCases
    <2>6. QED
      BY <2>1, <2>2, <2>3, <2>4, <2>5, HandleKeeps
  <1>5. ASSUME PathResolved \/ \E escapes \in BOOLEAN : GuardAnswers(escapes)
        PROVE  /\ \A q \in RuntimeRequests : CallInv(q)'
               /\ \A q \in ServiceRequests : ToolInv(q)'
    <2> DEFINE r == bridge.request
    <2>1. /\ bridge # Free /\ UNCHANGED <<calls, tools, frames, bound, services, lost, unchecked>>
      BY <1>5 DEF PathResolved, GuardAnswers, Free
    <2>2. r \in RuntimeRequests /\ AtBridge(r)
      BY <1>1, <2>1, BridgeShape DEF AtBridge
    <2>3. \/ Refuse(r) \/ DenyByPreset(r)
          \/ ~PresetDenies(r) /\ (SubmitToGate(r) \/ AwaitGuard(r))
      <3>1. CASE PathResolved
        BY <1>1, <2>2, <3>1, HandleCases DEF PathResolved
      <3>2. ASSUME NEW escapes \in BOOLEAN, GuardAnswers(escapes)
            PROVE  Refuse(r) \/ (~PresetDenies(r) /\ SubmitToGate(r))
        BY <1>1, <2>2, <3>2 DEF GuardAnswers, CallInv
      <3>3. QED
        BY <1>5, <3>1, <3>2
    <2>4. \A q \in RuntimeRequests : HasAsk(q)' <=> HasAsk(q)
      BY <2>1 DEF HasAsk
    <2> HIDE DEF r
    <2>5. tools[r] # "idle"
      BY <1>1, <2>2 DEF CallInv
    <2>6. bridge.request = r
      BY DEF r
    <2>7. QED
      BY <2>1, <2>2, <2>3, <2>4, <2>5, <2>6, HandleKeeps
  <1>6. ASSUME NEW arrives \in BOOLEAN, RefusalSettles(arrives)
        PROVE  /\ \A q \in RuntimeRequests : CallInv(q)'
               /\ \A q \in ServiceRequests : ToolInv(q)'
    <2> DEFINE r == bridge.request
    <2>1. /\ bridge # Free /\ bridge' = Free
          /\ UNCHANGED <<states, posts, performed, calls, seen, bound, services, unchecked>>
          /\ IF arrives THEN Unblock(r, "reject") /\ lost' = lost
             ELSE lost' = lost \union {r} /\ UNCHANGED <<tools, frames>>
      BY <1>6 DEF RefusalSettles, Free, gateVars
    <2>2. r \in RuntimeRequests /\ AtBridge(r)
      BY <1>1, <2>1, BridgeShape DEF AtBridge
    <2>3. [type |-> "replied", request |-> r] \in Frames
      BY <2>2 DEF Frames
    <2>4. \A q \in RuntimeRequests : HasAsk(q)' <=> HasAsk(q)
      <3>1. CASE frames' = frames
        BY <3>1 DEF HasAsk
      <3>2. CASE Emit([type |-> "replied", request |-> r])
        BY <1>1, <2>3, <3>2, AsksAfterEmit
      <3>3. QED
        BY <2>1, <3>1, <3>2 DEF Unblock
    <2>5. \A q \in RuntimeRequests : q # r => tools'[q] = tools[q]
      BY <1>1, <2>1 DEF Unblock, TypeOK
    <2>6. /\ tools'[r] # "blocked" \/ r \in lost'
          /\ tools'[r] = tools[r] \/ tools'[r] = "rejected"
      BY <1>1, <2>1, <2>2 DEF Unblock, TypeOK
    <2>7. lost \subseteq lost'
      BY <2>1
    <2> HIDE DEF r
    <2>8. ASSUME NEW q \in RuntimeRequests PROVE CallInv(q)'
      <3>1. PresetDenies(q)' => PresetDenies(q)
        BY <2>1, PresetKeeps
      <3>2. ~AtBridge(q)' /\ (q # r => ~AtBridge(q))
        BY <2>1 DEF AtBridge, r
      <3>3. QED
        BY <1>1, <2>1, <2>4, <2>5, <2>6, <2>7, <3>1, <3>2 DEF CallInv, IsNew, IsPending
    <2>9. ASSUME NEW q \in ServiceRequests PROVE ToolInv(q)'
      BY <1>1, <2>1, ToolKeeps
    <2>10. QED
      BY <2>8, <2>9
  <1>7. CASE PathFails \/ GuardFails
    <2> DEFINE r == bridge.request
    <2>1. /\ bridge # Free /\ bridge' = Free /\ unchecked' = unchecked \union {r}
          /\ UNCHANGED <<states, posts, performed, calls, tools, frames, bound, services, lost>>
          /\ seen' \subseteq seen
      BY <1>7 DEF PathFails, GuardFails, Free, gateVars
    <2>2. ASSUME NEW q \in RuntimeRequests PROVE CallInv(q)'
      <3>1. PresetDenies(q)' => PresetDenies(q)
        BY <2>1, PresetKeeps
      <3>2. ~AtBridge(q)' /\ (q # r => ~AtBridge(q))
        BY <2>1 DEF AtBridge, r
      <3>3. HasAsk(q)' <=> HasAsk(q)
        BY <2>1 DEF HasAsk
      <3> HIDE DEF r
      <3>4. QED
        BY <1>1, <2>1, <3>1, <3>2, <3>3 DEF CallInv, IsNew, IsPending
    <2>3. ASSUME NEW q \in ServiceRequests PROVE ToolInv(q)'
      BY <1>1, <2>1, ToolKeeps
    <2>4. QED
      BY <2>2, <2>3
  <1>8. QED
    BY <1>2, <1>3, <1>4, <1>5, <1>6, <1>7 DEF BridgeStep

\* The arrival or the loss of the gate's reply keeps every request's part.
LEMMA ReplyKeeps ==
    ASSUME BoundaryIInv, NEW r \in Requests, NEW arrives \in BOOLEAN, ReplySettles(r, arrives)
    PROVE  /\ \A q \in RuntimeRequests : CallInv(q)'
           /\ \A q \in ServiceRequests : ToolInv(q)'
  <1>1. /\ GateInv /\ TypeOK /\ GateTypeOK
        /\ \A q \in RuntimeRequests : CallInv(q)
        /\ \A q \in ServiceRequests : ToolInv(q)
    BY IInvByRequest DEF GateInv
  <1>2. /\ UNCHANGED <<states, performed, calls, seen, bound, services>>
        /\ posts[r] = "sending"
        /\ posts' = [posts EXCEPT ![r] = IF arrives THEN "delivered" ELSE "failed"]
        /\ IF arrives /\ r \in RuntimeRequests
           THEN Unblock(r, wire[r]) ELSE UNCHANGED <<tools, frames>>
        /\ lost' = IF arrives THEN lost ELSE lost \union ({r} \ ServiceRequests)
        /\ bridge' = IF bridge = [at |-> "denying", request |-> r] THEN Free ELSE bridge
        /\ unchecked' = unchecked
    BY DEF ReplySettles, ReplyDelivered, ReplyFailed
  <1>3. ASSUME NEW q \in RuntimeRequests PROVE HasAsk(q)' <=> HasAsk(q)
    <2>1. CASE frames' = frames
      BY <2>1 DEF HasAsk
    <2>2. CASE r \in RuntimeRequests /\ Emit([type |-> "replied", request |-> r])
      <3>1. [type |-> "replied", request |-> r] \in Frames
        BY <2>2 DEF Frames
      <3>2. QED
        BY <1>1, <2>2, <3>1, AsksAfterEmit
    <2>3. QED
      BY <1>2, <2>1, <2>2 DEF Unblock
  <1>4. ASSUME NEW q \in RuntimeRequests PROVE CallInv(q)'
    <2>1. PresetDenies(q)' => PresetDenies(q)
      BY <1>2, PresetKeeps
    <2>2. CASE q # r
      <3>1. tools'[q] = tools[q] /\ posts'[q] = posts[q] /\ (q \in lost' <=> q \in lost)
        BY <1>1, <1>2, <2>2 DEF Unblock, TypeOK, GateTypeOK
      <3>2. (AtBridge(q)' <=> AtBridge(q)) /\ (AtBridge(q) => bridge'.at = bridge.at)
        BY <1>2, <2>2 DEF AtBridge
      <3>3. QED
        BY <1>1, <1>2, <1>3, <2>1, <3>1, <3>2, CallKeeps
    <2>3. CASE q = r
      <3>1. /\ posts'[r] = (IF arrives THEN "delivered" ELSE "failed")
            /\ ~arrives => r \in lost' /\ tools'[r] = tools[r]
            /\ arrives => tools'[r] # "blocked" /\ lost' = lost
            /\ tools'[r] = "idle" => tools[r] = "idle"
            /\ tools'[r] = "ran" => tools[r] = "ran" \/ wire[r] # "reject"
        BY <1>1, <1>2, <2>3 DEF Unblock, TypeOK, GateTypeOK, RuntimeRequests
      <3>2. AtBridge(r)' => AtBridge(r) /\ bridge' = bridge
        BY <1>2 DEF AtBridge
      <3>3. /\ wire[r] # "reject" => Outcome(r) = "allow"
            /\ Outcome(r) = "allow" => states[r].status \in {"allowed", "consumed"}
        BY <1>1, <1>2, RecordFacts DEF Scopes, Outcome
      <3>4. ~IsNew(r)
        BY <1>1, <1>2, RecordFacts
      <3>5. QED
        BY <1>1, <1>2, <1>3, <2>1, <2>3, <3>1, <3>2, <3>3, <3>4 DEF CallInv, IsNew, IsPending
    <2>4. QED
      BY <2>2, <2>3
  <1>5. ASSUME NEW q \in ServiceRequests PROVE ToolInv(q)'
    BY <1>1, <1>2, ToolKeeps
  <1>6. QED
    BY <1>4, <1>5

\* A service tool's steps keep every request's part.
LEMMA ServiceKeeps ==
    ASSUME BoundaryIInv, NEW r \in ServiceRequests, ServiceCall(r) \/ ServicePoll(r)
    PROVE  /\ \A q \in RuntimeRequests : CallInv(q)'
           /\ \A q \in ServiceRequests : ToolInv(q)'
  <1>1. /\ GateInv /\ TypeOK /\ GateTypeOK
        /\ \A q \in RuntimeRequests : CallInv(q)
        /\ \A q \in ServiceRequests : ToolInv(q)
    BY IInvByRequest DEF GateInv
  <1>2. r \in Requests
    BY ServiceRequestsAssumption
  <1>3. /\ UNCHANGED gateVars \/ Submit(r) \/ Proceed(r)
        /\ UNCHANGED <<calls, tools, frames, seen, bridge, bound, lost, unchecked>>
    BY DEF ServiceCall, ServicePoll
  <1>4. ASSUME NEW q \in Requests, q # r
        PROVE  states'[q] = states[q] /\ posts'[q] = posts[q] /\ performed'[q] = performed[q]
    <2>1. CASE UNCHANGED gateVars
      BY <2>1 DEF gateVars
    <2>2. CASE Submit(r) \/ Proceed(r)
      BY <1>1, <1>2, <1>4, <2>2, OthersUntouched DEF GateOps
    <2>3. QED
      BY <1>3, <2>1, <2>2
  <1>5. ASSUME NEW q \in RuntimeRequests PROVE CallInv(q)'
    <2>1. q \in Requests /\ q # r
      BY DEF RuntimeRequests
    <2>2. (HasAsk(q)' <=> HasAsk(q)) /\ (AtBridge(q)' <=> AtBridge(q)) /\ bridge'.at = bridge.at
      BY <1>3 DEF HasAsk, AtBridge
    <2>3. QED
      BY <1>1, <1>3, <1>4, <2>1, <2>2, CallKeeps, PresetKeeps
  <1>6. ASSUME NEW q \in ServiceRequests, q # r PROVE ToolInv(q)'
    <2>1. services'[q] = services[q]
      BY <1>1, <1>6 DEF ServiceCall, ServicePoll, TypeOK
    <2>2. QED
      BY <1>1, <1>4, <1>6, <2>1, ToolKeeps, ServiceRequestsAssumption
  <1>7. ToolInv(r)'
    <2>1. CASE ServiceCall(r)
      <3>1. /\ services'[r] = "polling" /\ states'[r].status = "pending"
            /\ performed'[r] = performed[r] /\ performed[r] = 0
        BY <1>1, <1>2, <2>1, RecordFacts
           DEF ServiceCall, Submit, PendingState, TypeOK, GateTypeOK
      <3>2. QED
        BY <3>1 DEF ToolInv
    <2>2. CASE ServicePoll(r) /\ Proceed(r)
      <3>1. services[r] = "polling" /\ performed[r] = 0 /\ states[r].status = "allowed"
        BY <1>1, <2>2 DEF ServicePoll, Proceed, IsAllowed, ToolInv
      <3>2. performed'[r] = 1
        BY <1>1, <1>2, <2>2, <3>1 DEF Proceed, GateTypeOK
      <3>3. states'[r].status \in {"allowed", "consumed"}
        BY <1>1, <1>2, <2>2, <3>1 DEF Proceed, ConsumedState, GateTypeOK
      <3>4. services'[r] = "ran"
        BY <1>1, <2>2, <3>1 DEF ServicePoll, Proceed, IsAllowed, TypeOK
      <3>5. QED
        BY <3>2, <3>3, <3>4 DEF ToolInv, Outcome
    <2>3. CASE ServicePoll(r) /\ ~Proceed(r)
      <3>1. /\ services[r] = "polling" /\ services'[r] = "denied"
            /\ UNCHANGED gateVars /\ ~IsAllowed(r) /\ ~IsPending(r)
        BY <1>1, <2>3 DEF ServicePoll, TypeOK
      <3>2. states[r].status = "denied" /\ performed[r] = 0
        BY <1>1, <3>1 DEF ToolInv, IsAllowed, IsPending
      <3>3. QED
        BY <3>1, <3>2 DEF ToolInv, Outcome, gateVars
    <2>4. QED
      BY <2>1, <2>2, <2>3
  <1>8. QED
    BY <1>5, <1>6, <1>7

\* The user, the timer, late clients, new turns and released presets keep every
\* request's part.
LEMMA OutsideKeeps ==
    ASSUME BoundaryIInv,
           \/ \E r \in Requests : Timeout(r) \/ UserDecides(r) \/ AnswerAgain(r)
           \/ \E s \in Sessions : NewTurn(s) \/ ReleasePreset(s)
           \/ UNCHANGED vars
    PROVE  /\ \A q \in RuntimeRequests : CallInv(q)'
           /\ \A q \in ServiceRequests : ToolInv(q)'
  <1>1. /\ GateInv /\ TypeOK /\ GateTypeOK
        /\ \A q \in RuntimeRequests : CallInv(q)
        /\ \A q \in ServiceRequests : ToolInv(q)
    BY IInvByRequest DEF GateInv
  <1>2. /\ UNCHANGED <<calls, tools, frames, seen, bridge, services, lost, unchecked, performed>>
        /\ bound' \subseteq bound
    BY DEF Timeout, UserDecides, AnswerAgain, NewTurn, ReleasePreset, RegisterTask, vars,
       boundaryVars, gateVars, TimerFires, ResolveDeny, ResolveAllow, ResolveSettled
  <1>3. ASSUME NEW q \in RuntimeRequests
        PROVE  /\ HasAsk(q)' <=> HasAsk(q)
               /\ AtBridge(q)' <=> AtBridge(q)
               /\ PresetDenies(q)' => PresetDenies(q)
    BY <1>2, PresetKeeps DEF HasAsk, AtBridge
  <1>4. ASSUME NEW q \in Requests, states'[q] = states[q], posts'[q] = posts[q]
        PROVE  /\ q \in RuntimeRequests => CallInv(q)'
               /\ q \in ServiceRequests => ToolInv(q)'
    BY <1>1, <1>2, <1>3, <1>4, CallKeeps, ToolKeeps
  <1>5. ASSUME NEW q \in Requests, IsPending(q),
               states'[q].status \in {"denied", "allowed"}, posts'[q] = "sending"
        PROVE  /\ q \in RuntimeRequests => CallInv(q)'
               /\ q \in ServiceRequests => ToolInv(q)'
    <2>1. q \in RuntimeRequests => ~PresetDenies(q) /\ tools[q] # "idle"
      BY <1>1, <1>5 DEF CallInv, IsNew, IsPending
    <2>2. q \in RuntimeRequests => CallInv(q)'
      BY <1>2, <1>3, <1>5, <2>1 DEF CallInv
    <2>3. q \in ServiceRequests => services[q] = "polling" /\ performed[q] = 0
      <3>1. q \in ServiceRequests => services[q] \in {"idle", "polling", "ran", "denied"}
        BY <1>1 DEF TypeOK
      <3>2. Outcome(q) = "none" /\ ~IsNew(q)
        BY <1>5 DEF IsPending, IsNew, Outcome
      <3>3. QED
        BY <1>1, <3>1, <3>2 DEF ToolInv
    <2>4. q \in ServiceRequests => ToolInv(q)'
      BY <1>2, <1>5, <2>3 DEF ToolInv
    <2>5. QED
      BY <2>2, <2>4
  <1>6. ASSUME NEW r \in Requests, Timeout(r) \/ UserDecides(r), NEW q \in Requests
        PROVE  /\ q \in RuntimeRequests => CallInv(q)'
               /\ q \in ServiceRequests => ToolInv(q)'
    <2>1. CASE q # r
      BY <1>1, <1>4, <1>6, <2>1, OthersUntouched DEF Timeout, UserDecides, GateOps
    <2>2. CASE q = r
      <3>1. IsPending(r)
        BY <1>1, <1>6 DEF Timeout, TimerFires, UserDecides, ResolveDeny, ResolveAllow,
           GateInv, PendingIsArmed
      <3>2. CASE TimerFires(r) \/ ResolveDeny(r)
        BY <1>1, <1>5, <2>2, <3>1, <3>2, DenyEffect
      <3>3. ASSUME NEW scope \in Scopes, ResolveAllow(r, scope)
            PROVE  states'[r].status = "allowed" /\ posts'[r] = "sending"
        BY <1>1, <3>3 DEF ResolveAllow, Forward, AllowedState, GateTypeOK
      <3>4. QED
        BY <1>5, <1>6, <2>2, <3>1, <3>2, <3>3 DEF Timeout, UserDecides
    <2>3. QED
      BY <2>1, <2>2
  <1>7. ASSUME UNCHANGED <<states, posts>>, NEW q \in Requests
        PROVE  /\ q \in RuntimeRequests => CallInv(q)'
               /\ q \in ServiceRequests => ToolInv(q)'
    BY <1>4, <1>7
  <1>8. ASSUME \/ \E r \in Requests : AnswerAgain(r)
               \/ \E s \in Sessions : NewTurn(s) \/ ReleasePreset(s)
               \/ UNCHANGED vars
        PROVE  UNCHANGED <<states, posts>>
    BY <1>8 DEF AnswerAgain, NewTurn, ReleasePreset, RegisterTask, ResolveSettled, vars, gateVars
  <1>9. \A q \in Requests : /\ q \in RuntimeRequests => CallInv(q)'
                            /\ q \in ServiceRequests => ToolInv(q)'
    BY <1>6, <1>7, <1>8
  <1>10. QED
    BY <1>9, ServiceRequestsAssumption DEF RuntimeRequests

\* The initial states satisfy the invariant.
LEMMA BoundaryInitInv == Init => BoundaryIInv
  <1> SUFFICES ASSUME Init PROVE BoundaryIInv
    OBVIOUS
  <1>1. GateInv
    BY GateInitInv DEF Init
  <1>2. TypeOK
    BY <1>1 DEF Init, TypeOK, GateInv
  <1>3. \A r \in Requests :
           IsNew(r) /\ posts[r] = "none" /\ performed[r] = 0 /\ states[r].status = "none"
    BY DEF Init, GateInit, NoState, IsNew
  <1>4. ASSUME NEW r \in RuntimeRequests PROVE CallInv(r)
    BY <1>3 DEF Init, CallInv, HasAsk, AtBridge, RuntimeRequests
  <1>5. ASSUME NEW r \in ServiceRequests PROVE ToolInv(r)
    BY <1>3, ServiceRequestsAssumption DEF Init, ToolInv
  <1>6. QED
    BY <1>1, <1>2, <1>4, <1>5, IInvByRequest

\* Every step of the runtime, the bridge, the proxy, the gate, the service's tools and
\* the user keeps the invariant.
LEMMA BoundaryStepInv ==
    ASSUME ~ReuseIds, BoundaryIInv, [Next]_vars
    PROVE  BoundaryIInv'
  <1>1. GateInv /\ TypeOK
    BY IInvByRequest
  <1>2. GateInv'
    BY <1>1, BoundaryStepIsGateStep, GateStepInv
  <1>3. TypeOK'
    BY <1>1, <1>2, BoundaryStepTypes DEF GateInv
  <1>4. /\ \A q \in RuntimeRequests : CallInv(q)'
        /\ \A q \in ServiceRequests : ToolInv(q)'
    BY RuntimeSteps, BridgeSteps, ReplyKeeps, ServiceKeeps, OutsideKeeps DEF Next
  <1>5. (/\ GateInv
         /\ TypeOK
         /\ \A r \in RuntimeRequests : CallInv(r)
         /\ \A r \in ServiceRequests : ToolInv(r))'
    BY <1>2, <1>3, <1>4
  <1>6. QED
    BY <1>5, IInvByRequest, PTL

\* The invariant holds in every reachable state, for any number of calls, sessions,
\* presets and service tools, where a later turn uses no permission id again.
THEOREM BoundarySafety == ASSUME ~ReuseIds PROVE Spec => []BoundaryIInv
  <1>1. BoundaryIInv /\ [Next]_vars => BoundaryIInv'
    BY BoundaryStepInv
  <1>2. QED
    BY <1>1, BoundaryInitInv, PTL DEF Spec

\* No blocked call loses its owner between the pump, the bridge, the proxy and the
\* gate, whatever was lost or failed for other calls.
THEOREM BoundaryInvAlways == ASSUME ~ReuseIds PROVE Spec => []BoundaryInv
  <1>1. BoundaryIInv => BoundaryInv
    BY DEF BoundaryIInv
  <1>2. QED
    BY <1>1, BoundarySafety, PTL

\* No call that a branch's preset denies reaches the user, is allowed or runs while the
\* branch is bound.
THEOREM PresetHoldsAlways == ASSUME ~ReuseIds PROVE Spec => []PresetHolds
  <1>1. BoundaryIInv => PresetHolds
    BY DEF BoundaryIInv
  <1>2. QED
    BY <1>1, BoundarySafety, PTL

\* A service tool reports what the gate decided, and acts once at most.
THEOREM ServiceToolHonestAlways == ASSUME ~ReuseIds PROVE Spec => []ServiceToolHonest
  <1>1. BoundaryIInv => ServiceToolHonest
    BY DEF BoundaryIInv
  <1>2. QED
    BY <1>1, BoundarySafety, PTL

\* The gate's invariant holds behind the boundary, also where ids are used again.
THEOREM BoundaryKeepsGateInv == Spec => []GateInv
  BY BoundaryUsesGate, GateSafety, PTL

\* And so does what no step of the gate may do to a run that is over, with the presets, the
\* bridge and the tools of the service as the gate's callers.
THEOREM BoundaryKeepsTerminals == Spec => TerminalIsFrozen
  BY BoundaryUsesGate, TerminalIsFrozenAlways

-----------------------------------------------------------------------------
(* The boundary implements ToolContract. *)

\* A step that runs no tool leaves the effects of the runtime's calls alone.
LEMMA EffectsKeep ==
    ASSUME performed' = performed,
           \A q \in RuntimeRequests : tools'[q] = "ran" <=> tools[q] = "ran"
    PROVE  BoundaryEffects' = BoundaryEffects
  BY DEF BoundaryEffects, RuntimeRequests

\* A step of the gate that performs nothing is a step of the contract for the boundary
\* as well, if it runs no tool.
LEMMA QuietStepRefines ==
    ASSUME GateInv, [GateNext]_gateVars, BoundaryEffects' = BoundaryEffects,
           performed' = performed
    PROVE  [BoundaryContract!ContractNext]_(BoundaryContract!contractVars)
  <1>1. [Contract!ContractNext]_(Contract!contractVars)
    BY GateStepRefines
  <1>2. CASE UNCHANGED <<GateDecision, performed>>
    BY <1>2 DEF BoundaryContract!contractVars
  <1>3. ASSUME NEW r \in Requests, Contract!Raise(r) PROVE BoundaryContract!Raise(r)
    BY <1>3 DEF Contract!Raise, BoundaryContract!Raise
  <1>4. ASSUME NEW r \in Requests, NEW verdict \in Contract!Verdicts,
               Contract!Decide(r, verdict)
        PROVE  /\ verdict \in BoundaryContract!Verdicts
               /\ BoundaryContract!Decide(r, verdict)
    BY <1>4 DEF Contract!Decide, BoundaryContract!Decide, Contract!Verdicts, Contract!Allows,
       BoundaryContract!Verdicts, BoundaryContract!Allows
  <1>5. ASSUME NEW r \in Requests, Contract!Refuse(r) PROVE BoundaryContract!Refuse(r)
    BY <1>5 DEF Contract!Refuse, BoundaryContract!Refuse
  <1>6. ASSUME NEW r \in Requests, Contract!Perform(r)
        PROVE  UNCHANGED <<GateDecision, performed>>
    BY <1>6 DEF Contract!Perform
  <1>7. QED
    BY <1>1, <1>2, <1>3, <1>4, <1>5, <1>6
       DEF Contract!ContractNext, Contract!contractVars, BoundaryContract!ContractNext

\* A service tool that proceeds is a Perform of the contract.
LEMMA ServiceProceedRefines ==
    ASSUME GateInv, NEW r \in ServiceRequests, Proceed(r), tools' = tools
    PROVE  BoundaryContract!Perform(r)
  <1>1. r \in Requests /\ GateTypeOK
    BY ServiceRequestsAssumption DEF GateInv
  <1>2. Contract!Perform(r)
    BY <1>1, ProceedRefines
  <1>3. BoundaryEffects' = [BoundaryEffects EXCEPT ![r] = @ + 1]
    BY <1>1, <1>2 DEF Contract!Perform, BoundaryEffects, GateTypeOK
  <1>4. BoundaryEffects[r] = performed[r]
    BY <1>1 DEF BoundaryEffects
  <1>5. QED
    BY <1>2, <1>3, <1>4 DEF Contract!Perform, BoundaryContract!Perform, Contract!Allows,
       BoundaryContract!Allows

\* A reply that arrives runs its tool only as a Perform of the contract.
LEMMA ReplyRefines ==
    ASSUME BoundaryIInv, NEW r \in Requests, NEW arrives \in BOOLEAN, ReplySettles(r, arrives)
    PROVE  \/ BoundaryContract!Perform(r)
           \/ UNCHANGED <<GateDecision, BoundaryEffects>>
  <1>1. GateInv /\ TypeOK /\ GateTypeOK
    BY IInvByRequest DEF GateInv
  <1>2. UNCHANGED <<states, performed>> /\ posts[r] = "sending"
    BY DEF ReplySettles, ReplyDelivered, ReplyFailed
  <1>3. GateDecision' = GateDecision
    BY <1>2 DEF GateDecision
  <1>4. CASE tools' = tools
    BY <1>2, <1>3, <1>4, EffectsKeep
  <1>5. CASE /\ r \in RuntimeRequests /\ tools[r] = "blocked"
             /\ tools' = [tools EXCEPT ![r] = IF wire[r] = "reject" THEN "rejected" ELSE "ran"]
    <2>1. CASE wire[r] = "reject"
      <3>1. \A q \in RuntimeRequests : tools'[q] = "ran" <=> tools[q] = "ran"
        BY <1>1, <1>5, <2>1 DEF TypeOK
      <3>2. QED
        BY <1>2, <1>3, <3>1, EffectsKeep
    <2>2. CASE wire[r] # "reject"
      <3>1. Outcome(r) = "allow" /\ wire[r] \in Scopes
        BY <1>1, <1>2, <2>2, RecordFacts DEF Scopes
      <3>2. GateDecision[r] \in BoundaryContract!Allows
        <4>1. states[r].status \in {"allowed", "consumed"}
          BY <3>1 DEF Outcome
        <4>2. states[r].status = "allowed" => states[r].scope \in Scopes
          BY <1>1, StatesAreRecords DEF GateTypeOK
        <4>3. QED
          BY <4>1, <4>2 DEF GateDecision, Scopes, BoundaryContract!Allows
      <3>3. tools'[r] = "ran" /\ \A q \in RuntimeRequests \ {r} : tools'[q] = tools[q]
        BY <1>1, <1>5, <2>2 DEF TypeOK
      <3>4. BoundaryEffects[r] = 0
        BY <1>5 DEF BoundaryEffects, RuntimeRequests
      <3>5. BoundaryEffects' = [BoundaryEffects EXCEPT ![r] = 1]
        BY <1>2, <1>5, <3>3 DEF BoundaryEffects, RuntimeRequests
      <3>6. QED
        BY <1>3, <3>2, <3>4, <3>5 DEF BoundaryContract!Perform
    <2>3. QED
      BY <2>1, <2>2
  <1>6. QED
    BY <1>4, <1>5 DEF ReplySettles, Unblock

\* Every step of the boundary is a step of the contract or invisible to it.
LEMMA BoundaryStepRefines ==
    ASSUME ~ReuseIds, BoundaryIInv, [Next]_vars
    PROVE  [BoundaryContract!ContractNext]_(BoundaryContract!contractVars)
  <1>1. GateInv /\ TypeOK /\ GateTypeOK
    BY IInvByRequest DEF GateInv
  <1>2. [GateNext]_gateVars
    BY <1>1, BoundaryStepIsGateStep
  <1>3. ASSUME performed' = performed,
               \A q \in RuntimeRequests : tools'[q] = "ran" <=> tools[q] = "ran"
        PROVE  [BoundaryContract!ContractNext]_(BoundaryContract!contractVars)
    BY <1>1, <1>2, <1>3, EffectsKeep, QuietStepRefines
  <1>4. ASSUME NEW r \in RuntimeRequests, Ask(r) \/ AskAgain(r)
        PROVE  [BoundaryContract!ContractNext]_(BoundaryContract!contractVars)
    BY <1>1, <1>3, <1>4 DEF Ask, AskAgain, gateVars, TypeOK
  <1>5. ASSUME NEW s \in Sessions, SessionEnds(s)
        PROVE  [BoundaryContract!ContractNext]_(BoundaryContract!contractVars)
    BY <1>1, <1>3, <1>5 DEF SessionEnds, gateVars, TypeOK
  <1>6. ASSUME performed' = performed, tools' = tools
        PROVE  [BoundaryContract!ContractNext]_(BoundaryContract!contractVars)
    BY <1>3, <1>6
  <1>7. ASSUME NEW s \in Sessions, NewTurn(s) \/ ReleasePreset(s)
        PROVE  performed' = performed /\ tools' = tools
    BY <1>7 DEF NewTurn, ReleasePreset, RegisterTask, gateVars, boundaryVars
  <1>8. ASSUME \/ LoseFrame \/ ReadReplied \/ ReadIdle \/ ReadAskedSeen \/ ReadAskedPath
               \/ PathFails \/ GuardFails
        PROVE  performed' = performed /\ tools' = tools
    BY <1>8 DEF LoseFrame, ReadReplied, ReadIdle, ReadAskedSeen, ReadAskedPath, PathFails,
       GuardFails, gateVars
  <1>9. ASSUME ReadAskedDirect \/ PathResolved \/ \E escapes \in BOOLEAN : GuardAnswers(escapes)
        PROVE  performed' = performed /\ tools' = tools
    <2>1. ASSUME NEW r \in RuntimeRequests,
                 Refuse(r) \/ DenyByPreset(r) \/ SubmitToGate(r) \/ AwaitGuard(r)
          PROVE  performed' = performed
      BY <2>1 DEF Refuse, DenyByPreset, SubmitToGate, AwaitGuard, Submit, DenyByPolicy, gateVars
    <2>2. CASE ReadAskedDirect
      <3>1. Head(frames).request \in RuntimeRequests
        BY <1>1, <2>2, FramesTail, FrameShape DEF ReadAskedDirect, NextFrame, TypeOK
      <3>2. QED
        BY <1>1, <2>1, <2>2, <3>1, HandleCases DEF ReadAskedDirect
    <2>3. CASE PathResolved \/ \E escapes \in BOOLEAN : GuardAnswers(escapes)
      <3>1. bridge.request \in RuntimeRequests
        BY <1>1, <2>3, BridgeShape DEF PathResolved, GuardAnswers, Free
      <3>2. QED
        BY <1>1, <2>1, <2>3, <3>1, HandleCases DEF PathResolved, GuardAnswers
    <2>4. QED
      BY <1>9, <2>2, <2>3
  <1>10. ASSUME NEW arrives \in BOOLEAN, RefusalSettles(arrives)
         PROVE  [BoundaryContract!ContractNext]_(BoundaryContract!contractVars)
    <2>1. performed' = performed
      BY <1>10 DEF RefusalSettles, gateVars
    <2>2. \A q \in RuntimeRequests : tools'[q] = "ran" <=> tools[q] = "ran"
      BY <1>1, <1>10 DEF RefusalSettles, Unblock, TypeOK
    <2>3. QED
      BY <1>3, <2>1, <2>2
  <1>11. ASSUME NEW r \in Requests, Timeout(r) \/ UserDecides(r) \/ AnswerAgain(r)
         PROVE  performed' = performed /\ tools' = tools
    BY <1>11 DEF Timeout, UserDecides, AnswerAgain, TimerFires, ResolveDeny, ResolveAllow,
       ResolveSettled, boundaryVars
  <1>12. ASSUME NEW r \in Requests, NEW arrives \in BOOLEAN, ReplySettles(r, arrives)
         PROVE  [BoundaryContract!ContractNext]_(BoundaryContract!contractVars)
    BY <1>12, ReplyRefines DEF BoundaryContract!ContractNext, BoundaryContract!contractVars
  <1>13. ASSUME NEW r \in ServiceRequests, ServiceCall(r) \/ (ServicePoll(r) /\ ~Proceed(r))
         PROVE  performed' = performed /\ tools' = tools
    BY <1>13 DEF ServiceCall, ServicePoll, Submit, gateVars
  <1>14. ASSUME NEW r \in ServiceRequests, ServicePoll(r), Proceed(r)
         PROVE  [BoundaryContract!ContractNext]_(BoundaryContract!contractVars)
    BY <1>1, <1>14, ServiceProceedRefines, ServiceRequestsAssumption
       DEF ServicePoll, BoundaryContract!ContractNext
  <1>15. CASE UNCHANGED vars
    BY <1>6, <1>15 DEF vars, gateVars, boundaryVars
  <1>16. QED
    BY <1>4, <1>5, <1>6, <1>7, <1>8, <1>9, <1>10, <1>11, <1>12, <1>13, <1>14, <1>15
       DEF Next, BridgeStep

\* The boundary implements the gate's contract for every instance: seen from the tools,
\* each call is decided once and takes effect behind an Allow only.
THEOREM BoundaryImplements == ASSUME ~ReuseIds PROVE Spec => ImplementsContract
  <1>1. Init => BoundaryContract!ContractInit
    BY ServiceRequestsAssumption DEF Init, GateInit, GateDecision, BoundaryEffects, NoState,
       RuntimeRequests, BoundaryContract!ContractInit
  <1>2. BoundaryIInv /\ [Next]_vars =>
            [BoundaryContract!ContractNext]_(BoundaryContract!contractVars)
    BY BoundaryStepRefines
  <1>3. QED
    BY <1>1, <1>2, BoundarySafety, PTL DEF Spec, ImplementsContract, BoundaryContract!ContractSpec

=============================================================================
