------------------------------ MODULE Dispatch ------------------------------
(***************************************************************************)
(* One run of a dispatched task: the loop runner (tasks/loop-runner.ts)    *)
(* makes attempts; each attempt is a fan-out group (dispatchers/fanout.ts) *)
(* whose branches a bounded pool of workers runs; each branch is a child   *)
(* session of its own (dispatchers/live-branch-runner.ts, wired in         *)
(* composition/compose-live.ts).  Cancel and the deadline abort one signal *)
(* that all of them watch; the branch runner looks at it only between two  *)
(* awaits.                                                                 *)
(*                                                                         *)
(* A session is named by its attempt and its branch.  Of a session the     *)
(* model keeps the service's view of it, whether its preset is bound,      *)
(* whether a stream handle is, and what the runtime really does; and, for  *)
(* the properties, whether its POST failed or its view was ended from      *)
(* outside the stream.                                                     *)
(***************************************************************************)
EXTENDS Naturals, FiniteSets

CONSTANTS
    NumBranches,    \* the branches of the plan, run in this order
    Concurrencies,  \* the values of effectiveConcurrency(task) looked at
    MaxTurns,       \* policy.maxTurns
    Modes,          \* the loop modes looked at
    MaxFaults       \* bound on the sessions whose POST fails or whose view is ended from outside

ASSUME DispatchAssumption ==
    /\ {NumBranches, MaxTurns} \union Concurrencies \subseteq Nat \ {0}
    /\ Modes \subseteq {"run_once", "retry_until_verified", "scheduled"}
    /\ MaxFaults \in Nat

VARIABLES
    policy,     \* the loop's mode, requireVerifiedEvidence, whether a hook is wired, and
                \* the concurrency of the group
    loop,       \* the loop runner
    views,      \* the BranchView status of each branch of the current attempt
    runner,     \* what the branch runner of each branch awaits
    sess        \* the child sessions

vars == <<policy, loop, views, runner, sess>>

Branches == 1 .. NumBranches
SessionIds == (1 .. MaxTurns) \X Branches

Policies ==
    [mode : Modes, evidence : BOOLEAN, hook : BOOLEAN, concurrency : Concurrencies]

LoopTerminals == {"completed", "partial", "errored", "cancelled", "exhausted"}

NoSession == [view |-> "absent", bound |-> FALSE, handle |-> FALSE, turn |-> "none", told |-> FALSE,
              fault |-> FALSE]

TypeOK ==
    /\ policy \in Policies
    /\ loop \in [at : {"off", "attempt", "verifying", "sleeping", "ended"},
                 attempts : 0 .. MaxTurns, successes : 0 .. MaxTurns, cancelled : BOOLEAN,
                 deadline : BOOLEAN, verified : BOOLEAN, state : {"running"} \union LoopTerminals]
    /\ views \in [Branches -> {"pending", "running", "completed", "errored", "cancelled"}]
    /\ runner \in [Branches -> {"none", "creating", "sending", "polling"}]
    /\ sess \in [SessionIds -> [view : {"absent", "none", "completed", "errored", "cancelled", "denied"},
                                bound : BOOLEAN, handle : BOOLEAN,
                                turn : {"none", "running", "over"}, told : BOOLEAN,
                                fault : BOOLEAN]]

Init ==
    /\ policy \in Policies
    /\ loop = [at |-> "off", attempts |-> 0, successes |-> 0, cancelled |-> FALSE,
               deadline |-> FALSE, verified |-> FALSE, state |-> "running"]
    /\ views = [b \in Branches |-> "pending"]
    /\ runner = [b \in Branches |-> "none"]
    /\ sess = [s \in SessionIds |-> NoSession]

\* The controller's signal, which is also the group's cancelled flag while an
\* attempt is under way.
Aborted == loop.cancelled \/ loop.deadline

Current(b) == <<loop.attempts, b>>

FaultAllowed == Cardinality({s \in SessionIds : sess[s].fault}) < MaxFaults

-----------------------------------------------------------------------------
(* The fan-out group.                                                       *)

Settled == \A b \in Branches : views[b] \notin {"pending", "running"}

\* aggregateStatus
AggregateStatus ==
    IF ~Settled THEN "running"
    ELSE IF Aborted /\ \E b \in Branches : views[b] = "cancelled" THEN "cancelled"
    ELSE IF \A b \in Branches : views[b] = "completed" THEN "completed"
    ELSE IF \E b \in Branches : views[b] = "completed" THEN "partial"
    ELSE "errored"

\* orchestrator.start: each worker takes a branch and opens its session.
StartGroup ==
    /\ views' = [b \in Branches |-> IF b <= policy.concurrency THEN "running" ELSE "pending"]
    /\ runner' = [b \in Branches |-> IF b <= policy.concurrency THEN "creating" ELSE "none"]

\* Mutant: the branches still queued when the group is aborted are started.
SettleIgnoringAbort(b, status) ==
    LET next == {c \in Branches : views[c] = "pending" /\ \A d \in 1 .. c - 1 : views[d] # "pending"}
    IN  /\ views' = [c \in Branches |->
              IF c = b THEN status ELSE IF c \in next THEN "running" ELSE views[c]]
        /\ runner' = [c \in Branches |->
              IF c = b THEN "none" ELSE IF c \in next THEN "creating" ELSE runner[c]]

\* The branch runner returns: runOne records the branch, as cancelled if the group
\* was, and its worker takes the next branch of the queue.  Once the group is
\* cancelled it takes them all, and marks them cancelled.
Settle(b, status) ==
    LET next == {c \in Branches : views[c] = "pending" /\ \A d \in 1 .. c - 1 : views[d] # "pending"}
    IN  /\ views' = [c \in Branches |->
              IF c = b THEN IF Aborted THEN "cancelled" ELSE status
              ELSE IF views[c] = "pending" /\ Aborted THEN "cancelled"
              ELSE IF c \in next THEN "running" ELSE views[c]]
        /\ runner' = [c \in Branches |->
              IF c = b THEN "none"
              ELSE IF c \in next /\ ~Aborted THEN "creating" ELSE runner[c]]

-----------------------------------------------------------------------------
(* The live branch runner.                                                  *)

\* The session is there, and registered without a stream handle: its preset is
\* bound and the prompt sent.  The signal is not looked at in between.
CreateReturns(b) ==
    /\ runner[b] = "creating"
    /\ sess' = [sess EXCEPT ![Current(b)].view = "none", ![Current(b)].bound = TRUE]
    /\ runner' = [runner EXCEPT ![b] = "sending"]
    /\ UNCHANGED <<policy, loop, views>>

CreateFails(b) ==
    /\ runner[b] = "creating"
    /\ Settle(b, "errored")
    /\ UNCHANGED <<policy, loop, sess>>

\* sendPrompt.send: the prompt reaches the runtime, which starts the turn.
PromptArrives(b) ==
    /\ runner[b] = "sending"
    /\ sess[Current(b)].turn = "none"
    /\ sess' = [sess EXCEPT ![Current(b)].turn = "running"]
    /\ UNCHANGED <<policy, loop, views, runner>>

SendReturns(b) ==
    /\ runner[b] = "sending"
    /\ sess[Current(b)].turn # "none"
    /\ runner' = [runner EXCEPT ![b] = "polling"]
    /\ UNCHANGED <<policy, loop, views, sess>>

\* The POST fails, whether or not it was delivered; the preset stays bound.
SendFails(b) ==
    /\ FaultAllowed
    /\ runner[b] = "sending"
    /\ sess' = [sess EXCEPT ![Current(b)].fault = TRUE]
    /\ Settle(b, "errored")
    /\ UNCHANGED <<policy, loop>>

\* Mutant: the session of an aborted branch is left alone.
PollAbortedQuietly(b) ==
    /\ runner[b] = "polling"
    /\ Aborted
    /\ Settle(b, "errored")
    /\ UNCHANGED <<policy, loop, sess>>

\* Mutant: an aborted branch is waited for all the same.
PollAbortedPatient(b) ==
    /\ runner[b] = "polling"
    /\ Aborted
    /\ sess[Current(b)].view # "none"
    /\ Settle(b, "errored")
    /\ UNCHANGED <<policy, loop, sess>>

\* The poll loop finds the signal aborted: cancelSession.  The registry tells the
\* runtime only if a stream handle is bound, and the view becomes cancelled unless
\* it was terminal; the preset stays bound.
PollAborted(b) ==
    /\ runner[b] = "polling"
    /\ Aborted
    /\ sess' = [sess EXCEPT ![Current(b)].told = @ \/ sess[Current(b)].handle,
                            ![Current(b)].view = IF @ = "none" THEN "cancelled" ELSE @]
    /\ Settle(b, "errored")
    /\ UNCHANGED <<policy, loop>>

\* The poll loop finds a terminal in the view: the preset is released.
PollTerminal(b) ==
    /\ runner[b] = "polling"
    /\ ~Aborted
    /\ sess[Current(b)].view # "none"
    /\ sess' = [sess EXCEPT ![Current(b)].bound = FALSE]
    /\ Settle(b, IF sess[Current(b)].view = "completed" THEN "completed" ELSE "errored")
    /\ UNCHANGED <<policy, loop>>

-----------------------------------------------------------------------------
(* The sessions, as the runtime and the rest of the service move them.      *)

\* The runtime (external) ends the turn, and the pump folds that into the view.
RuntimeEnds(s, state) ==
    /\ sess[s].turn = "running"
    /\ sess' = [sess EXCEPT ![s].turn = "over", ![s].view = IF @ = "none" THEN state ELSE @]
    /\ UNCHANGED <<policy, loop, views, runner>>

\* A permission the turn asked for is denied, by its preset or by the user, or the
\* user cancels the session: the view becomes terminal from outside the stream.
InterruptSession(s, state) ==
    /\ FaultAllowed
    /\ sess[s].turn = "running"
    /\ sess[s].view = "none"
    /\ sess' = [sess EXCEPT ![s].view = state, ![s].fault = TRUE]
    /\ UNCHANGED <<policy, loop, views, runner>>

-----------------------------------------------------------------------------
(* The loop runner.                                                         *)

EndLoop(l, status) ==
    /\ loop' = [l EXCEPT !.at = "ended", !.state = status]
    /\ UNCHANGED <<views, runner>>

\* execAttempt, up to the await.
BeginAttempt(l) ==
    /\ loop' = [l EXCEPT !.at = "attempt", !.attempts = @ + 1]
    /\ StartGroup

\* stopNow, where it returns an outcome.
StopStatus == IF loop.cancelled THEN "cancelled" ELSE "exhausted"

\* The head of the loop of retryUntilVerified.
RetryAgain ==
    IF Aborted THEN EndLoop(loop, StopStatus)
    ELSE IF loop.attempts >= MaxTurns THEN EndLoop(loop, "exhausted")
    ELSE BeginAttempt(loop)

\* The end of scheduled.
ScheduleEnds(l) ==
    EndLoop(l, IF loop.cancelled THEN "cancelled"
               ELSE IF l.successes = l.attempts THEN "completed"
               ELSE IF l.successes = 0 THEN "errored" ELSE "partial")

StartRun ==
    /\ loop.at = "off"
    /\ IF policy.mode = "retry_until_verified" /\ ~policy.hook
       THEN EndLoop(loop, "errored")
       ELSE BeginAttempt(loop)
    /\ UNCHANGED <<policy, sess>>

AttemptOnce(completed) ==
    IF Aborted THEN EndLoop(loop, StopStatus)
    ELSE IF ~completed \/ (policy.evidence /\ ~policy.hook) THEN EndLoop(loop, "errored")
    ELSE IF policy.evidence
         THEN loop' = [loop EXCEPT !.at = "verifying"] /\ UNCHANGED <<views, runner>>
    ELSE EndLoop(loop, "completed")

AttemptRetried(completed) ==
    IF Aborted THEN EndLoop(loop, StopStatus)
    ELSE IF completed
         THEN loop' = [loop EXCEPT !.at = "verifying"] /\ UNCHANGED <<views, runner>>
    ELSE RetryAgain

AttemptScheduled(completed) ==
    LET counted == [loop EXCEPT !.successes = @ + IF completed THEN 1 ELSE 0] IN
    IF Aborted \/ loop.attempts >= MaxTurns
    THEN ScheduleEnds(counted)
    ELSE loop' = [counted EXCEPT !.at = "sleeping"] /\ UNCHANGED <<views, runner>>

\* Mutant: a group that completed in part is a completed attempt.
AttemptEndsGenerously ==
    /\ loop.at = "attempt"
    /\ Settled
    /\ LET completed == AggregateStatus \in {"completed", "partial"} IN
       CASE policy.mode = "run_once" -> AttemptOnce(completed)
         [] policy.mode = "retry_until_verified" -> AttemptRetried(completed)
         [] policy.mode = "scheduled" -> AttemptScheduled(completed)
    /\ UNCHANGED <<policy, sess>>

\* group.done resolves and execAttempt returns.
AttemptEnds ==
    /\ loop.at = "attempt"
    /\ Settled
    /\ LET completed == AggregateStatus = "completed" IN
       CASE policy.mode = "run_once" -> AttemptOnce(completed)
         [] policy.mode = "retry_until_verified" -> AttemptRetried(completed)
         [] policy.mode = "scheduled" -> AttemptScheduled(completed)
    /\ UNCHANGED <<policy, sess>>

\* The verification hook answers.
VerifyReturns(verified) ==
    /\ loop.at = "verifying"
    /\ IF verified THEN EndLoop([loop EXCEPT !.verified = TRUE], "completed")
       ELSE IF policy.mode = "run_once" THEN EndLoop(loop, "exhausted")
       ELSE RetryAgain
    /\ UNCHANGED <<policy, sess>>

\* The interval of a schedule is over, or the signal woke the sleeper.
SleepEnds ==
    /\ loop.at = "sleeping"
    /\ IF Aborted THEN ScheduleEnds(loop) ELSE BeginAttempt(loop)
    /\ UNCHANGED <<policy, sess>>

\* The loop is under way, and not between the last branch and the end of its
\* attempt, which no other event comes between.
Interruptible == loop.at \notin {"off", "ended"} /\ ~(loop.at = "attempt" /\ Settled)

\* cancel
CancelRun ==
    /\ Interruptible
    /\ ~loop.cancelled
    /\ loop' = [loop EXCEPT !.cancelled = TRUE]
    /\ UNCHANGED <<policy, views, runner, sess>>

\* The timer of maxDurationMs.
DeadlineHits ==
    /\ Interruptible
    /\ ~loop.deadline
    /\ loop' = [loop EXCEPT !.deadline = TRUE]
    /\ UNCHANGED <<policy, views, runner, sess>>

-----------------------------------------------------------------------------

BranchStep(b) ==
    \/ CreateReturns(b)
    \/ CreateFails(b)
    \/ PromptArrives(b)
    \/ SendReturns(b)
    \/ SendFails(b)
    \/ PollAborted(b)
    \/ PollTerminal(b)

LoopStep ==
    \/ AttemptEnds
    \/ \E verified \in BOOLEAN : VerifyReturns(verified)
    \/ SleepEnds

Next ==
    \/ StartRun
    \/ LoopStep
    \/ CancelRun
    \/ DeadlineHits
    \/ \E b \in Branches : BranchStep(b)
    \/ \E s \in SessionIds :
          \/ \E state \in {"completed", "errored"} : RuntimeEnds(s, state)
          \/ \E state \in {"denied", "cancelled"} : InterruptSession(s, state)

Spec == Init /\ [][Next]_vars

\* The HTTP calls, the hook and the timers settle.  Nothing is assumed of the
\* runtime, which may never end a turn.
Fairness ==
    /\ WF_vars(LoopStep)
    /\ WF_vars(DeadlineHits)
    /\ \A b \in Branches : WF_vars(BranchStep(b))

LiveSpec == Spec /\ Fairness

-----------------------------------------------------------------------------
(* Properties.                                                              *)

\* The attempts all of whose sessions the runtime completed.
FullAttempts ==
    {a \in 1 .. loop.attempts : \A b \in Branches : sess[<<a, b>>].view = "completed"}

\* A success is never made up: a run reported as completed had every branch of the
\* deciding attempt (of every attempt, if scheduled) completed by its session, and
\* one reported as partial had such an attempt.
HonestOutcome ==
    /\ loop.state = "completed" =>
          IF policy.mode = "scheduled"
          THEN FullAttempts = 1 .. loop.attempts
          ELSE loop.attempts \in FullAttempts
    /\ loop.state = "partial" => FullAttempts # {}

\* The turns under way in the runtime; a session whose POST failed or whose view was
\* ended from outside may have one that its runner no longer knows of.
Turns == {s \in SessionIds : sess[s].turn = "running"}
Regular == {s \in SessionIds : ~sess[s].fault}

\* A branch whose turn runs in the runtime is bound to its agent's preset
\* ("a released binding is fail-OPEN", live-branch-runner.ts).
RunningIsBound == \A s \in Turns : sess[s].bound

\* No more turns than the concurrency allows are under way at once, over all the
\* attempts of the run.
BoundedTurns == Cardinality(Turns \intersect Regular) <= policy.concurrency

\* When the run ends every branch runner has returned, and the session of every
\* turn that was started has a terminal view unless its POST failed.
EndIsAccountedFor ==
    loop.at = "ended" =>
        /\ \A b \in Branches : runner[b] = "none"
        /\ \A s \in Regular : sess[s].turn # "none" => sess[s].view # "none"

\* What holds at every moment of a run: the counters of loop and group stay in range,
\* the worker pool bounds the turns, each is bound to its preset but for those ended
\* from outside, and the end leaves none unaccounted for.
DispatchInv ==
    /\ TypeOK
    /\ \A s \in Turns \intersect Regular : sess[s].bound
    /\ BoundedTurns
    /\ EndIsAccountedFor

\* Once the group is aborted no further session is opened.
AbortOpensNothing ==
    [][Aborted => \A b \in Branches : runner'[b] = "creating" => runner[b] = "creating"]_vars

\* The parts of the inductive invariant.  The loop: when no attempt is under way no branch
\* runner is, and its counters leave room for what comes next.
Active == {b \in Branches : runner[b] # "none"}

LoopInRange ==
    /\ loop.at # "attempt" => Active = {}
    /\ loop.at = "off" => loop.attempts = 0 /\ loop.successes = 0 /\ ~Aborted
    /\ loop.at \in {"attempt", "verifying", "sleeping"} => loop.attempts > 0
    /\ loop.at = "sleeping" => policy.mode = "scheduled" /\ loop.attempts < MaxTurns
    /\ loop.at = "verifying" => policy.mode # "scheduled"
    /\ loop.at # "ended" => loop.state = "running"

\* A branch that has a runner is shown as running, and a session that no runner has opened
\* yet is not there.
Unopened(s) == sess[s].view = "absent" /\ sess[s].turn = "none" /\ ~sess[s].fault

RunnersKnown ==
    /\ \A b \in Branches : (runner[b] # "none") <=> (views[b] = "running")
    /\ \A a \in 1 .. MaxTurns, b \in Branches : a > loop.attempts => Unopened(<<a, b>>)
    /\ \A b \in Branches :
          /\ loop.at = "attempt" /\ (views[b] = "pending" \/ runner[b] = "creating") =>
                Unopened(Current(b))
          /\ runner[b] \in {"sending", "polling"} =>
                /\ sess[Current(b)].bound
                /\ sess[Current(b)].turn = "none" => sess[Current(b)].view = "none"

\* A turn is bound to its preset, and its runner waits for it unless the group was aborted
\* or the session ended from outside.
Waited(s) == \E b \in Active : s = Current(b)

TurnsKnown ==
    \A s \in SessionIds :
        sess[s].turn # "none" /\ ~sess[s].fault =>
            /\ sess[s].view = "none" => Waited(s)
            /\ sess[s].turn = "running" => /\ sess[s].bound
                                           /\ Aborted \/ (sess[s].view = "none" /\ Waited(s))

\* The turns, and the branches that may still start one, fit the pool.
Occupied == {s \in SessionIds : (sess[s].turn = "running" /\ ~sess[s].fault) \/ Waited(s)}
PoolIsBounded == Cardinality(Occupied) <= policy.concurrency

\* Successes are real: those of the branches, of the attempt that is verified, and the
\* ones that are counted.
Counted == IF loop.at = "attempt" THEN loop.attempts - 1 ELSE loop.attempts

SuccessesAreReal ==
    /\ loop.at = "attempt" =>
          \A b \in Branches : views[b] = "completed" => sess[Current(b)].view = "completed"
    /\ loop.at = "verifying" => loop.attempts \in FullAttempts
    /\ loop.successes <= Counted
    /\ loop.successes = Counted /\ policy.mode = "scheduled" => 1 .. Counted \subseteq FullAttempts
    /\ loop.successes > 0 => FullAttempts # {}

\* The inductive invariant.
DispatchIInv ==
    /\ TypeOK
    /\ LoopInRange
    /\ RunnersKnown
    /\ TurnsKnown
    /\ PoolIsBounded
    /\ SuccessesAreReal
    /\ HonestOutcome

\* maxDurationMs: every run comes to an end, even if the runtime never ends a turn.
RunEnds == loop.at # "off" ~> loop.at = "ended"

\* loop-runner.ts: cancel "aborts the in-flight attempt and ends the loop as
\* cancelled".
CancelWins == loop.cancelled /\ loop.at = "ended" => loop.state = "cancelled"

\* loop-runner.ts: the hook is required "for any policy with requireVerifiedEvidence",
\* so a success that had to be verified was.
EvidenceIsRequired == policy.evidence /\ loop.state = "completed" => loop.verified

\* run-registry.ts: an abort cancels the group "so no branch keeps running after
\* the loop ended": the runtime was told to stop a turn that is still under way.
NothingRunsOn ==
    loop.at = "ended" => \A s \in SessionIds : sess[s].turn = "running" => sess[s].told

=============================================================================
