# Formal models of Cowork GHC

Cowork GHC is a desktop assistant: an Electron shell and renderer (`src/app`), a local
TypeScript service (`src/service`), supervised child processes, above all the OpenCode
runtime, which executes the agent's turns, and a knowledge backend in Go (`src/app/backend`).
This directory models the parts whose correctness depends on the order of events: who decides a
permission and when, how a turn's events reach the renderer, how the shell starts, replaces and
stops its service and the service its children, how a dispatched task runs its branches, how a
conversation's turns are recorded, how the preview of a project is run, and how local folders are
imported. The modules are checked with TLC on small instances. What matters most of them is also
proved with TLAPS for every instance: the permission gate and the execution boundary around it, which
are shown to implement an abstract contract, the stream of a session from the pump to the renderer with its
coordinator, the life cycle of the service, the order of the knowledge stack, dispatch, conversation
turns, the preview and the local import.

- [Inventory](#inventory)
- [Modules and how they correspond to the code](#modules)
- [Runs](#runs): what each checks, bounds, fairness
- [What the runs found](#findings)
- [Proofs](#proofs)
- [Not modelled](#not-modelled)
- [Plan](#plan)

To repeat: `tlc -workers 2 -config <cfg> <module>` for the runs listed in `PROJECT.json`,
`tlapm <module>` for the proofs in the eight modules whose name ends in `Proofs`.

## Inventory

The service is one Node process with one event loop, and so is the shell's main process, in which
the service is composed. Code between two `await`s is atomic;
everything else (HTTP requests of the renderer and of a paired phone, frames of the runtime's
`/event` stream, timers, settled POSTs, exits of children) interleaves at the `await`s. That is
the grain of every action below. The Go backend runs its handlers and workers in parallel; there
the grain is one SQL statement or one channel operation.

| Part | State | Operations | Talks to | Hard behaviour |
|---|---|---|---|---|
| Permission gate (`permission/permission-gate.ts`) | map id → pending/allowed/consumed/denied, timers, audit | submit, resolve, proceed, denyByPolicy, timer | runtime (reply POST), task registry (deny), audit | answer vs timer, failed reply, replayed proceed |
| Execution boundary (`runtime/permission-bridge.ts`, `files/tool-permission-proxy.ts`, `permission/branch-permission-bindings.ts`) | de-dupe set, bindings | handleFrame, handle, refuse, denyByPreset | pump → bridge → proxy → gate | redelivered or lost asks, awaits between check and submit, checks that fail, presets released |
| Tools hosted by the service (`documents/docx-tool-router.ts`, `ms365/*`) | one polling handler per call | submit, poll, proceed | gate | poll vs timer |
| Event pump (`runtime/event-pump.ts`) | controllers per session | dispatch, reconnect, stop | runtime → hub, bridge | lost frames, late frames |
| Mapper, reducer, session stream (`execution/*`) | sequence number, view | map, reduceEv, ingest, close | pump → registry → coordinator | numbering, first terminal wins |
| Stream coordinator (`execution/stream-coordinator.ts`) | batch, waiting terminal, two timers | push, flush | session stream → hub | coalescing, grace period |
| Hub and SSE route (`server/session-stream-hub.ts`, `session-stream-route.ts`) | live runs, listeners | open, subscribe, close | coordinator → renderer | run eviction, resume cursor |
| Task registry, session service and router (`session/*`) | view, handle, frozen flag | register, apply, bindStream, cancel, continue | everything | check-then-await, cancel vs end |
| Renderer stream client (`app/ui/src/ev-stream-client.ts`) | folded view | snapshot, subscribe, reconnect on demand | route | gap between snapshot and stream, snapshot inside a batch |
| Child supervisors (`runtime/supervisor.ts`, `runtime/generic-child-supervisor.ts`) | state, child | start, stop, abortStart, reset | child process | failure at any await, escalation |
| Service life cycle (`app/shell/src/service/*`, `app/shell/src/lifecycle.ts`, `composition/compose-service.ts`, `compose-live.ts`, start and stop in `runtime/event-pump.ts` and `remote-gateway/gateway.ts`) | the controller's status and handle, one launch per start | start, connectLive, health check, retry, stop, quit, pump reconnect | shell → composition → supervisor, pump, socket, proxy, remote gateway | a quit during connectLive, two connectLives, a start that fails half way |
| Knowledge stack supervisor (`knowledge/stack/stack-supervisor.ts`) | four supervisors | start, stop | supervisors | partial failure |
| Dispatch (`tasks/loop-runner.ts`, `dispatchers/*`) | attempts, branch views, abort signal | start, cancel, deadline, poll | session service, presets, verification hook | abort at every await, failed POSTs |
| Conversation turns (`conversation/turn-router.ts`, `db/sqlite-conversation-store.ts`) | stored conversation, watchers | POST turn, terminal watcher, backstop, recovery | session service, prompt, store | overlapping turns, restart |
| Preview runtime (`runtime-preview/*`) | one child or static server, pending request, remembered Allow | start, resolve, stop, restart, dispose, poll | gate, child process, settings | overlapping calls, exit of an earlier child, port that never opens, workspace changed in between |
| Local import (`app/backend/internal/localimport/*`) | job rows, file rows, chunks, vectors, in-memory queue | sync, patch, delete, worker run, recovery | database, file system | racing requests, failing statements, restart, full queue, file written while it is imported, file system that hangs |

`PROJECT.json` lists every other part of the repository with the reason it is not modelled,
the hazards at the lines where they bite, and the properties that would catch them.

What makes each part correct:

- gate: a decision is made once, audited once, forwarded as recorded; a mutation runs only behind
  an Allow and once if the Allow was given once; every request is decided;
- boundary: the runtime runs a gated tool only after an Allow; a branch's preset holds; a blocked
  tool is answered;
- stream: nothing lost, doubled or reordered up to the terminal; the renderer is never ahead of
  the snapshot; the first terminal wins; the renderer learns the end, or that its stream is lost;
- supervisors: no orphan, nothing runs under an idle supervisor, calls settle; the stack comes up
  and goes down in dependency order;
- life cycle: what is up has exactly one owner, which will stop it; the address handed to the renderer
  is that of a service that is up; parts go down in dependency order; connectLive and quit come
  to an end;
- preview: a dev server runs only behind its own Allow and in the workspace it was asked for, what runs is what
  the service will end, a start settles;
- local import: one active job per source, a file and its chunks agree, a change is never overlooked,
  no worker is held for ever;
- dispatch: no made-up success, bounded concurrency, presets bound while a turn runs, every run
  ends and accounts for its sessions;
- conversation: one live turn, one reply per turn, a status that belongs to the linked turn, every
  turn recorded as ended.

## Modules

Definitions keep the names of the source where there is one; `PROJECT.json` "map" gives the lines.
A definition whose comment begins with "Mutant:" is a plausible wrong version of the definition after
it; no specification uses it.

**ToolContract** - what the gate promises whoever acts behind it, and nothing else: a request is decided
once, and its effect happens only behind an Allow, once if the Allow was for once. Two variables,
five actions. `PermissionGate` implements it (`GateImplementsContract`, with `GateDecision` and
`performed` for its variables), and so does `PermissionBoundary` (`ImplementsContract`), where
the effect of a request of the runtime is that the blocked tool ran. `PreviewRuntime` is built on
it in place of the gate.

**PermissionGate** - the gate with arbitrary callers. `states` is the map of
`RequestState`s, `timers` the armed fail-closed timers, `audit` the records per request, `tasks`
the status of each session's task as far as `denySession` touches it, `wire` and `posts` the reply
in the runtime's vocabulary and the progress of its POST, `callers` and `answers` what `resolve()`
told its callers, `performed` how often `proceed()` ran the mutation. `resolve()` is three actions,
by the branch it takes; its `await` on the reply separates `ResolveAllow` from
`ReplyDelivered`/`ReplyFailed`. A `proceed()` without an Allow, or whose `perform` throws, changes
nothing and is left out.

**PermissionBoundary** extends it with the runtime (external: blocks a tool and asks), the pump that hands over
one frame at a time and waits for it, the bridge with its de-dupe set, the proxy, the presets, and
service-hosted tools. A tool call is a class (`unmapped`, `command`, `websearch`, `webfetch`, `file`, `move`)
and a target class. The two awaits on the path (resolving it, checking its real location) are separate steps. A
path that does not resolve inside the workspace is dropped by the bridge, and the proxy then submits a request
without one. Either await may also fail with an error that is not a violation of the boundary (`PathFails`,
`GuardFails`: a path that cannot be resolved, a real location that cannot be read); the code only reports it,
and the call is left without a reply and without a record. The history variable `unchecked` names those calls,
as `lost` does those whose ask or answer was lost. Polling by service tools ends by the gate's 120 s timer
before its own cap of 180 s, so the cap is not an action. `AnswerAgain` is an answer to a request that is
decided already (a second device, a click after the timer), enabled by the constant `Again`; `NewTurn` is the
prompt that makes a session's task live again.

**StreamCoordinator** holds the coordinator as operators that return the coordinator after a call and
what it emitted. An event carries `ids`, the runtime frames whose content it has, which is what
coalescing must preserve. **Coalescing** is the coordinator alone under arbitrary calls and timers.

**SessionStream** composes runtime, pump, hub run (mapper + coordinator), task registry, SSE response and
renderer client for one session. A view keeps its cursor, its terminal and which frames its text and its items
came from. `PumpDispatch` is the whole of `dispatch`: open, map, apply, push, emit, and for a frame that ends
the turn close and flush. Because that close follows in the same stretch of code, the coordinator's grace timer
never gets to fire here and is not an action. `cancel` and `continueSession` are split at their awaits, and so
is the prompt: it binds the stream, and then the runtime gets it (`PromptArrives`) or the send fails
(`PromptFails`), which leaves a bound view that no turn will ever end. `client` may take a new snapshot after a
loss, because `reconnect()` is there to be called, but need not, because nothing in the renderer calls it by
itself. `due` is a history variable: the tokens that a view had already when it was adopted (a snapshot by the
renderer, a rebuilt view by the registry), although they were still on their way to it.

**ChildSupervisor** is the state machine that `OpencodeSupervisor` and `GenericChildSupervisor` share,
for a set of supervisors; the n-th `start()` spawns process n at most. `Killed` is Node's
`child.killed`, which is set when a signal is delivered. **StackSupervisor** extends it with the
order in which the stack starts and stops its four children.

**ServiceLifecycle** extends it with the owner of the service. A supervisor of `ChildSupervisor` is a launch:
every start composes a service with a supervisor of its own, one that was not used yet (`NextLaunch`). `ctl`,
`flight` and `stopping` are the fields of `ServiceController`, with the promises that concurrent callers share;
`launch` is what a composition has bound so far (socket, remote gateway) and where its start or its teardown is;
`pump` is the reconnect loop; `proxyPort` the one port that two compositions may compete for. A launch is "lost"
when the health check gave up on it after it came up: the controller has dropped the handle. Promise callbacks
run before the event loop takes the next event (`Settling`).

**Dispatch** is one run: the loop runner's three modes, the fan-out group with its worker pool, the
branch runner of each branch and the child sessions, each with the service's view of it and what the
runtime really does. Cancel and deadline cannot come between the last branch's return and the end of
the attempt, which are consecutive microtasks (`Interruptible`). `Init` chooses the mode and the
concurrency of the policy; `fault` is a history variable that names the sessions whose POST failed or
that were ended from outside, so that properties about the others (`Regular`) can be stated.

**ConversationTurn** is one conversation: the handler of a POST split at its two calls of the runtime
(the store is synchronous SQLite), the terminal watcher with its backstop, and a restart, which loses
everything in memory and runs `recoverStaleRunning`.

**PreviewRuntime** is `PreviewService` under HTTP handlers that overlap. `svc` has its variables, `launched` the
children and static servers in the order they were started, `ops` what each call awaits. The handlers share
every variable, so that what one finds after an await may be another's. `active` is the workspace of the
settings: a start reads it when it is called, a change of it takes effect in memory at once, is written, and
only then calls `dispose()`. `SpawnThrows` is a spawn that the operating system refuses after the status was
set. Three variables are history: `overlapped` (a call met another one, a child that was being killed or, when
it spawned, a preview started since its request was raised), `asked` (the workspace each request was raised in)
and `unsaved` (a change of the workspace could not be written).

**LocalImport** is the import of one or more folders: handlers that check, insert a job row and enqueue it in
three steps, or list the running jobs of a source, mark them stale and delete it in three; workers that walk,
compare, delete the old chunks of a file, write its row, its chunks and their vectors, and prune the files that
are gone one by one; the walk's two channels; and a restart, which loses queue, handlers and workers and keeps
the database. A file's version stands for its modification time, size and content. Any statement may fail: the
code logs most failures and goes on, and so does the model. A chunk that has a vector cannot be deleted, because
the vector's reference (`migrations/001_initial_schema.sql:63`) has no cascade and nothing deletes vectors.
`Timeout` is the deadline of a job; it ends every wait for the database or for a channel, but not a call to the
file system (`Hang`, `Answers`). Three variables are history: `leftover` (files whose old chunks were to be
deleted and are still there), `loose` (sources with a job that a deletion marked stale) and `unrecorded` (jobs
whose last status could not be written).

**PermissionBoundaryProofs, CoalescingProofs, SessionStreamProofs, SupervisionProofs, DispatchProofs,
ConversationTurnProofs, PreviewRuntimeProofs, LocalImportProofs** hold the theorems about the module each is
named after ([Proofs](#proofs)); the first of them those about `PermissionGate` too, and `SupervisionProofs`
those about the two owners of supervisors, `StackSupervisor` and `ServiceLifecycle`. The inductive invariants
are defined in the modules themselves (`BoundaryIInv`, `CoalescingIInv`, `StackIInv`, `LifecycleIInv`,
`DispatchIInv`, `TurnIInv`, `PreviewIInv`, `ImportIInv`), so that TLC can check them too, except those of the
session stream, which quantify over the views on the way and are in `SessionStreamProofs`.

**MCPermissionGate, MCPermissionBoundary, MCStackSupervisor** give TLC the functions and sets a
`.cfg` cannot write. The other modules are instantiated by their `.cfg` directly.

## Runs

Deadlock is checked unless the system may really stop: a session whose turns are over, a finished
dispatch run, a conversation with no more posts, a stack that is down. Where a run has both a
bound and a property about what eventually happens, the bound limits the environment (frames sent,
connections broken, POSTs), never the steps that must happen.

| Run | Checks | Instance |
|---|---|---|
| `permission` | GateInv (GateTypeOK, PendingIsArmed, AuditedOnce, MutationNeedsAllow, ReplyMatchesRecord, AnswersStayTrue, UnspentOnce), ServiceToolHonest, ImplementsContract, TerminalIsFrozen, ServiceToolEnds, NoStrand | one runtime call of every kind and target beside one service tool in one session, frames and replies lost, path checks that fail, repeated answers |
| `boundary` | BoundaryInv (TypeOK, BlockedIsOwned), PresetHolds, ImplementsContract | two calls in two sessions, one call per way handleFrame can end, a preset that denies file edits, frames and replies lost, path checks that fail, one unread frame; 3.3 million states, the longest run |
| `coalescing` | CoalescingInv (TypeOK, CarriedInOrder, BufferIsBounded), NothingLost, TerminalLeaves | five events, batches of three |
| `session_stream` | StreamInv (TypeOK, SnapshotIsCurrent), EndIsComplete | three activity frames, two ends, one lost frame, batches of two, client first |
| `session_faults` | RunIsOwned, NoDoubleCount, OutcomeIsFinal, ClientLearnsTheEnd | two activity frames, one cancel or denial, one continue, one broken connection, a client at any time, with snapshots inside a batch |
| `stack` | BackendComesLast, BackendGoesFirst, StackSettles | the four real processes, one start |
| `lifecycle` | LifecycleInv (LifecycleTypeOK, OneOwner, NoOrphan, IdleIsDown), BootstrapIsHonest, TeardownOrder, CallsAnswer | three launches, two calls of connectLive, two attempts per start, two reconnects, a quit |
| `dispatch` | DispatchInv (TypeOK, RunningIsBound for regular sessions, BoundedTurns, EndIsAccountedFor), HonestOutcome, AbortOpensNothing, RunEnds | two branches on one or two workers, two attempts, all modes, one failed POST or end from outside |
| `turn` | TurnInv (TypeOK, RunningHasSession, OneReply), NoPhantomReply, StaleEndKeepsStatus, TurnIsRecorded | two posts that may overlap, one restart |
| `local_import` | ImportInv, StaleIsDetected, JobsMove | one folder with a directory and a file, one worker, two requests at a time, a queue and an error channel of one, two jobs, two versions, one restart |
| `preview` | PreviewInv (TypeOK, NoOrphan), StaysInWorkspace, StartSettles | one request, two calls at a time, two workspaces, two launches |
| `turn_overlap` | OneLiveTurn (refuted) | two posts, no restart |

One more configuration passes and is kept for work on a module alone: `MCPermissionGate.cfg` (the gate with
arbitrary callers, two requests of one session and an empty session, two proceeds each; 62 thousand
states).

Why the bounds are enough. The gate treats requests independently except for the session they share, so two
calls show every interaction (and the proofs cover any number). Three tokens with a batch of two fill a batch
and leave one over; two ends are a turn and a late or second end. Two branches on one worker leave one in the
queue when the group is aborted, on two they race; three branches on two workers were checked as well (the
safety properties, without faults: 1.1 million states). Three launches are the settings-only service, a live
start that fails and its second attempt, or two live starts after each other; two clients are two windows, or a
call and its repetition. Two turns are one that is live or over and one that overlaps it, is rejected or comes
after; three posts were checked as well (the safety properties, without a restart: 5.6 million states). In the
import, capacities of one make every channel full at once where the code needs 10 or 100 entries; a directory
before a file is the least in which an error of one path meets the entry of another; two jobs are one that runs
and one that is queued, refused or comes after a restart; two versions are a file before and after it was
written. Two workers with one file were checked as well (the inductive invariant: 290 thousand states). Two
launches of a preview are one that is being ended and its successor, and one request suffices for a restart to
use its Allow again; two requests and three launches with one call at a time were checked as well (the inductive
invariant, 1.4 million states).

Conditions under which properties are stated; [Findings](#findings) has the configuration that shows
the other side of each:

- `SnapshotIsCurrent` and `EndIsComplete` are checked without cancel, reconnect and continue;
- `NoDoubleCount` has no such condition, and confines what is doubled to the tokens in `due`; that no token is
  doubled at all is `EachTokenOnce`, which fails;
- `BlockedIsOwned` and `NoStrand` except the requests whose own ask or answer was lost and those whose path
  check failed (`Unanswered`, the history variables `lost` and `unchecked`), and speak of all others whatever
  happens to these;
- `ClientLearnsTheEnd` speaks of sessions whose prompt reached the runtime and excepts those that lost frames or were
  opened again; a renderer has learned the end when it is shown the terminal or that its stream is lost;
- `IdleIsDown` assumes that children exit within the grace period and that the caller does not
  overlap `stop()` with a pending `start()`, as `startLiveCoworkService` does not; the stack
  supervisor does overlap them (`MCStackOrphan.cfg`);
- `DispatchInv` speaks of the sessions whose POST was answered and that were not ended from outside
  (`Regular`);
- `LifecycleInv` excepts the launches that were lost to a health check that gave up, and children obey the
  first signal (`Slow = FALSE`); the clause of `BootstrapIsHonest` about the gateway proxy holds
  as long as no launch failed or was lost;
- `PreviewInv` states `NoOrphan` for calls that do not overlap each other, a dying child or a preview started
  since their request was raised, and `StaysInWorkspace` for these and changes of the workspace that were saved;
  `StartSettles` excepts the start whose spawn threw;
- `ImportInv`, for the number of batches, and `StaleIsDetected` except the files in `leftover` and the sources in
  `loose`; `JobsMove` the jobs held by a file system that does not answer and those in `unrecorded`;
- `StaleEndKeepsStatus` is about the ends that go through `finalize`; the failed send of a turn's own
  POST is the exception (`MCTurnFindings.cfg`).

### Fairness

Weak fairness, only for what the event loop, a timer or the operating system does: an armed timer fires, a POST
settles (every HTTP call of the service has a timeout), frames that arrived are read, a worker and a loop go on
when what they await has settled, a signalled child exits. Of the runtime it is assumed only in `SessionStream`,
for `ClientLearnsTheEnd`, that it ends a turn it was prompted for: without that there is no end to learn. The
renderer goes on from a snapshot to the stream and reads it; that it reconnects after a loss is not assumed
(`onError` in `app/ui/src/app-shell.ts` only shows the failure). `Dispatch` and `ConversationTurn` assume
nothing of the runtime: the deadline and the backstop timer must suffice. `ServiceLifecycle` assumes that the
awaits of a start and of a stop settle (the health check has a deadline, a socket that is closed closes, a
signalled child exits) and nothing of the pump's connections; `PreviewRuntime` that the poll loop's deadline
fires and the file system answers, not that a dev server ever listens or a child ever exits; `LocalImport` that
a handler enqueues its job, an idle worker takes one, and the deadline of a job ends it unless the worker is in
a call to the file system, not that such a call ever returns. Users never have to act. `GateRetrySpec`, used by
`MCPermissionGateRetry.cfg` only, adds a user who keeps answering and strong fairness of delivery: even then the
reply is not sent again.

## Findings

A comment in the code states the property, TLC refutes it for what the code does. `turn_overlap` is a
run of the project (`PROJECT.json` quotes the line): the check for a live turn is made before the await
on `session.create` and not after, so two POSTs of one conversation both start a turn
(`conversation/turn-router.ts:280`).

The other configurations are not among the runs; each checks one such property and gives the trace,
with `tlc -config <cfg> <module>`. Where a configuration names several, one is active and the others
are commented out. Lines are under `src/service/src` unless they begin with `app/` or
`specs/`, which are under `src`. A line in parentheses is where the trace bites; no comment states these
properties in so many words, they are what the component is for.

| Configuration | Module | Property | Stated at | What happens |
|---|---|---|---|---|
| `MCPermissionGateRetry.cfg` | MCPermissionGate | RetryReachesRuntime | `permission/permission-gate.ts:205` | after a failed Allow reply a retry is answered already_resolved and sends nothing |
| `MCPermissionReuse.cfg` | MCPermissionBoundary | NoStrand | `runtime/permission-bridge.ts:113` | a permission id used again in a later turn is forgotten by the bridge, not by the gate; the tool stays blocked (only if the runtime does use ids again) |
| `MCPermissionUnchecked.cfg` | MCPermissionBoundary | NoStrandButLost | `permission/permission-gate.ts:11`, `files/tool-permission-proxy.ts:12` | the path check fails with an error that is not a boundary violation: the bridge reports it and forgets the id, nobody replies, the tool stays blocked |
| `MCCoalescingEnd.cfg` | Coalescing | TerminalIsLast | `execution/stream-coordinator.ts:19` | a token buffered during the grace period is emitted after the terminal by a later flush() (in the product close() flushes at once, so this is a matter of the coordinator's own contract) |
| `MCSessionCancel.cfg` | SessionStream | SnapshotIsCurrent | `execution/session-stream.ts:9` | after a cancel the renderer still receives what the frozen view drops |
| `MCSessionResync.cfg` | SessionStream | EachTokenOnce | `execution/ev-reducer.ts:11` | a snapshot inside a coalesced batch, then the whole batch |
| `MCSessionReprompt.cfg` | SessionStream | LiveFrameCounts | `execution/ev-mapper.ts:10` | numbering starts again with each run, below the rebuilt view's cursor |
| `MCSessionLateText.cfg` | SessionStream | LateTextIsKept | `execution/ev-reducer.ts:126` | text after session.idle meets the freeze before the exception made for it |
| `MCSessionReopen.cfg` | SessionStream | LiveTaskIsKept | `session/session-service.ts:123` | two continues, a prompt in between: the live task is replaced |
| `MCSupervisorForce.cfg` | ChildSupervisor | StopForces | `runtime/supervisor.ts:203` | SIGKILL is unreachable once a signal was delivered (where signals can be ignored, that is on POSIX) |
| `MCStackOrphan.cfg` | MCStackSupervisor | DownLeavesNothing | `knowledge/stack/stack-supervisor.ts:133` | a sibling still checking its port spawns after the stack was stopped |
| `MCDispatchFindings.cfg` | Dispatch | CancelWins | `tasks/loop-runner.ts:13` | a cancel during verification ends as completed |
| `MCDispatchFindings.cfg` | Dispatch | RunningIsBound | `dispatchers/live-branch-runner.ts:40` | a denial ends the view, the poll releases the preset, the turn still runs |
| `MCDispatchFindings.cfg` | Dispatch | NothingRunsOn | `dispatchers/run-registry.ts:128` | branches have no stream handle, so the runtime is never told to stop |
| `MCDispatchFindings.cfg` | Dispatch | EvidenceIsRequired | `tasks/loop-runner.ts:68` | scheduled runs ignore requireVerifiedEvidence |
| `MCTurnFindings.cfg` | ConversationTurn | StaleTurnKeepsStatus | `conversation/turn-router.ts:202` | the failure path writes the status without asking whether the turn is still linked |
| `MCTurnFindings.cfg` | ConversationTurn | FailedTurnIsOver | `conversation/turn-router.ts:281` | the session of a failed dispatch stays live for the 409 check |
| `MCLifecycleFindings.cfg` | ServiceLifecycle | QuitLeavesNothing | `app/shell/src/lifecycle.ts:11` | a quit joins the stop of a connectLive under way; its start follows and nobody stops it |
| `MCLifecycleFindings.cfg` | ServiceLifecycle | StoppedIsDown | `app/shell/src/service/service-controller.ts:177` | the health check gives up, the handle of the service that is up is dropped, stop() has nothing to stop |
| `MCLifecycleFindings.cfg` | ServiceLifecycle | RunningHasProxy | `composition/compose-service.ts:1046` | a live start that fails leaves its gateway proxy on the port, the next service runs without |
| `MCLifecycleFindings.cfg` | ServiceLifecycle | RunningReads | (at `runtime/event-pump.ts:163`) | after maxReconnects failures the live service runs on and reads no events |
| `MCImportQueued.cfg` | LocalImport | QueuedIsServed | `specs/005-local-folder-import/data-model.md:76` | a restart, or a full queue, leaves a queued row that no worker has, and the source cannot be synchronised |
| `MCImportSearchable.cfg` | LocalImport | ImportedIsSearchable | (at `app/backend/internal/localimport/processor.go:190`) | a stop or failure between the row of a file and its chunks: the next import takes the file for unchanged |
| `MCImportKept.cfg` | LocalImport | ReadableIsKept | (at `app/backend/internal/localimport/processor.go:122`) | an entry that arrives together with another path's error is skipped, and pruned as if the file were gone |
| `MCImportTwice.cfg` | LocalImport | OneWorkerPerSource | (at `app/backend/internal/localimport/handler.go:217`) | a deletion marks the running job stale; when it fails, or before it is done, a new sync starts a second worker on the source |
| `MCImportReplaced.cfg` | LocalImport | OldChunksCanBeDeleted | `app/backend/internal/localimport/processor.go:202`, `specs/005-local-folder-import/research.md:128` | the chunks of a modified file that were embedded cannot be deleted, for `chunk_embeddings` refers to them; the failure is logged and the new batch stored beside the old |
| `MCPreviewFindings.cfg` | PreviewRuntime | NoOrphan | `runtime-preview/preview-service.ts:17` | a restart while the killed child is still dying: its exit clears the new child, which the service no longer knows and which runs on |
| `MCPreviewFindings.cfg` | PreviewRuntime | RunsWhereAllowed | `composition/compose-service.ts:904` | the change of the workspace cannot be saved: the request fails before it comes to dispose(), and the preview of the workspace before runs on, or is started in the new one |
| `MCPreviewFindings.cfg` | PreviewRuntime | EveryStartSettles | (at `runtime-preview/preview-service.ts:283`) | spawn() throws after the status was set: there is no child and no poll loop, and the preview stays "starting" |
| `MCPreviewFindings.cfg` | PreviewRuntime | OnePreview | `runtime-preview/preview-service.ts:2` | an Allow is not checked against a preview started since the request was raised: two previews run, without any two calls overlapping |

## Proofs

The first part of `PermissionBoundaryProofs`, on the gate, proves, for every set of requests and sessions, every
assignment of requests to sessions and every bound on `proceed()`:

- `GateSafety`: `GateSpec => []GateInv`;
- `MutationNeedsAllowAlways`, `AuditedOnceAlways`: two of its conjuncts as theorems of their own;
- `DecisionIsFinalAlways`: the action property, from the same invariant;
- `GateImplements`: the gate implements `ToolContract`.

The second part, on the boundary, proves, for every set of calls, presets and service tools and every length
of the frame queue:

- `BoundaryUsesGate`: `Spec => GateSpec`, the boundary does to the gate only what the gate allows, so that
  the theorems about the gate hold of it: `BoundaryKeepsGateInv`;
- `BoundarySafety`: `Spec => []BoundaryIInv`, and from it `BoundaryInvAlways` (types, and a blocked call whose
  ask and answer were not lost and whose path checks answered is owned by somebody who will answer it),
  `PresetHoldsAlways`, `ServiceToolHonestAlways`;
- `BoundaryImplements`: the boundary, with the runtime, the lost frames and the lost replies, implements
  `ToolContract`: a gated tool runs only behind an Allow, and once. TLC checks the same refinement in the
  runs `permission` and `boundary`.

Assumptions: `SessionOfAssumption` (every request has a session), `MaxProceedsAssumption`,
`ServiceRequestsAssumption` and the other named assumptions on the boundary's constants, all evaluated
by TLC in the runs. Requests and sessions may be infinite. The theorems from `BoundarySafety` on also
assume `~ReuseIds`, that the runtime does not use a permission id twice; `MCPermissionReuse.cfg` shows that
the blocked call of a reused id is stranded, so the assumption is needed.

The argument for the gate. Each safety property relates the gate's map to one of its effects (timers,
audit, wire, answers, performed). They are not inductive one by one: that a decision is audited once needs
that an undecided request has no record yet; that a reply matches the record needs that it was not
forwarded before; that a "once" Allow runs its mutation at most once needs that an Allow still
on record has not run it, which is the extra conjunct `UnspentOnce`. `GateInv` is their conjunction.
The lemmas follow the code: `FinalizeDenyInv` is shared by the three callers of `finalizeDeny`,
`ResolveAllowInv`, `SubmitInv` and `ProceedInv` treat the other operations that touch the record, and
`GateStepInv` puts one case per action together.

The argument for the boundary. `BoundaryIInv` adds to the gate's invariant what ties the bridge, the queue and
the gate together: `IdleIsUnknown` (a call not yet asked for is unknown to bridge and gate, so that its first
ask is not taken for a duplicate), `SeenIsOwned` (a repeated ask is dropped only for a call the bridge or the
gate has), `SettledIsNotOwed` (a reply that arrived has unblocked its tool, one that failed is lost, so that a
call still blocked has its answer before it), `GuardedIsNotPreset` (a call waiting at the path check was not to
be denied by its preset, which gives `PresetHolds` across the await) and `PollingIsSubmitted` (a service tool
polls a request the gate knows). `IInvByRequest` splits the invariant by request, so that each step shows it for
the request it touches, and `OthersUntouched`, `CallKeeps` and `ToolKeeps` for all the others. For the
refinement every step either leaves decision and effect alone (`QuietStepRefines`), is a `proceed()` of a
service tool, or is the arrival of a reply, where `ReplyMatchesRecord` gives that the tool which runs has an
Allow on record.

`TerminalIsFrozenAlways` and, through `BoundaryUsesGate`, `BoundaryKeepsTerminals` add the action property that
no denial rewrites the terminal of a finished run.

### The other components

Each module below has a theorem `Spec => []...IInv` for an inductive invariant, which TLC had checked
before, from which the theorems on the properties of the runs follow. The constants are arbitrary, within the
named assumptions that TLC evaluates.

**CoalescingProofs** (any batch size, any number of events): `CoalescingSafety`, `CoalescingInvAlways`,
`NothingLostAlways`. The content of the coordinator is read in the order it will leave (`Leaving`: emitted,
buffered, withheld); a push puts an id behind all others because what is carried was pushed before
(`CarriedWasPushed`), and a flush only moves the boundary. That no event is lost needs the buffer's kind:
a token, never a terminal, so that a terminal that arrives is not merged into it.

**SessionStreamProofs**. `RunIsOwnedAlways`, `OutcomeIsFinalAlways` and `NoDoubleCountAlways` are about every
behaviour: cancels, denials, continues, lost frames and lost connections, renderers that come at any time. The
first terminal wins because every step on the task keeps it, folds a view that is over (which changes nothing)
or answers a cancel of a task that was live (`TaskSteps`).

A token is doubled only when it was on its way still to a view that was adopted with it, the renderer's from a
snapshot or the registry's from a rebuild. The invariant `TokenInv` follows each token: the runtime sends it
once (`Upstream`: the frames not dispatched yet are distinct), and what has been
dispatched is in one place on its way to the renderer, the buffer or withheld events of the coordinator or the
response (`Downstream`). A text meets what is on its way only in tokens of `due` (`Texts`), so that appending a
batch can double only those. When the renderer adopts a snapshot, `due` takes what the snapshot shares with what
is held back for it; when a continue replaces the task by a rebuilt one, what the rebuilt text shares with the
frames that are not dispatched yet.

`StreamSafety`, and from it `StreamInvAlways` and `EndIsCompleteAlways`, are about an undisturbed turn
(`Undisturbed`: no interruption, no continue, no broken connection, the client subscribed before the prompt),
with any number of frames, ends and lost frames, and any batch size. This is the case for which the code
promises them: TLC refutes the one with a cancel (`MCSessionCancel.cfg`), the other with a resync that doubles a
token (`MCSessionResync.cfg`). The registry applies a frame at once; the renderer gets it later and merged with
others. So the invariant follows the content on its way: the events in the SSE response bring the renderer's
view to some view `v`, and what the coordinator buffers or withholds brings `v` to the registry's (`Leads`,
`Carries`, `Holds`, `Flows`). Merging tokens must not change what a view becomes, which is so because a merged
event carries the last cursor and all ids in order. The invariant has three cases, before the run is open, while
it is, and after it closed (`Before`, `During`, `After`); in the last nothing is buffered, so a renderer that
ended has everything.

**SupervisionProofs** has three parts. The first says what a step does to one supervisor that is started once;
both systems that follow are built on it. They share no constants but those of `ChildSupervisor`, and each proof
cites the assumption of its own module only.

The stack (any set of leaves): `StackSafety`, `BackendComesLastAlways` and, for children that exit
within the grace period (`Slow = FALSE`), `BackendGoesFirstAlways`. The invariant ties the place of the stack's own
`start()` to the place of the backend's `start()` and to its child (`BackendChild`): the child is the
first and only one, untouched until the start aborts or a stop begins, and gone after either unless it outlived the
wait. With a slow child the supervisor returns from `stop()` before the exit, so the assumption is needed.

The life cycle (any number of launches, calls of connectLive, attempts and reconnects): `LifecycleSafety`,
`BootstrapIsHonestAlways`, `TeardownOrderAlways` and, for `Slow = FALSE`, `LifecycleInvAlways`; the first three
hold of children that outlive the grace period too. That there is one owner is not inductive: a step of the
controller forgets or takes a launch, and nothing is lost only because that launch is just then where it should
be. So `LifecycleIInv` says it in both directions. Each field of the controller (the handle, the start in
flight, the handle of the stop) holds a launch that is where the field says (`ShellHolds`), and a launch that is
coming up, up or going down is held by the field it should be (`HeldByShell`); since the three fields exclude
each other, there is one. Below that, the socket, the gateway and the pump are where the launch is
(`PartsFollow`), the child is untouched, comes up, serves or is being stopped as the place of the launch says
(`ChildFollows`), and the launches under way have the proxy port until one fails or is lost (`ProxyFollows`).
The proof has one lemma per action; what a start or a stop does to its child comes from the first part.
`TeardownOrderAlways` needs the invariant at the step before: a child can be signalled only by a failing start,
whose launch has opened nothing yet, by the unwinding of a socket that did not open, or by the stop, after the
pump's loop has returned. `ShellIsACaller` says that the shell is a caller of `ChildSupervisor` that does not
overlap `start()` and `stop()` (`CallerNext`), which is the condition under which a supervisor's idle state can
be trusted; the stack is not such a caller (`MCStackOrphan.cfg`).

**ConversationTurnProofs** (any number of posts and restarts): `TurnSafety`, `TurnInvAlways` (`OneReply`,
`RunningHasSession`), `NoPhantomReplyAlways`, `StaleEndKeepsStatusAlways`. One reply per turn is not inductive: it
needs that an armed watcher's turn has its question and no reply (`WatchedIsUnanswered`), and that a
turn whose handler has not stored anything, or has answered with an error, is not watched
(`WatchedIsStored`).

**DispatchProofs** (any number of branches, attempts and faults, any concurrency and mode): `DispatchSafety`,
`DispatchInvAlways`, `HonestOutcomeAlways`, `AbortOpensNothingAlways`. The bound on the turns holds over
all the attempts of a run, so the invariant must say why a new attempt finds the pool empty: a regular turn
that is running is waited for by a runner unless the group was aborted (`TurnsKnown`), runners
exist only within an attempt (`LoopInRange`), and an aborted run begins none. `PoolIsBounded` counts turns and
runners together, so that a runner that is about to start a turn has its place; when a branch settles, the
next of the queue takes the place of the one that leaves (`PoolSwaps`), or nobody does (`PoolShrinks`).
`SuccessesAreReal` carries a branch's success to the attempt, to the hook and to the schedule's
count. `Regular` is needed: a session whose POST failed, or that was denied, may run on unbound
(`MCDispatchFindings.cfg`).

**PreviewRuntimeProofs** (any sets of requests and calls, any number of launches and workspaces):
`PreviewSafety`, `PreviewInvAlways`, `StaysInWorkspaceAlways`. Without an overlap what runs is what the service
will end; the invariant enumerates what the one call under way may await and what then runs (`CallsInOrder`,
`OwnsWhatRuns`). That a dev server runs in the workspace it was asked for spans several calls: the request is
raised by one, answered by another, used again by a restart, and the workspace may change between any two of
them. `InWorkspace` says that but for a change that is being carried out, the pending request, the remembered
launch and whatever a call awaits are all of the active workspace, which is so because `dispose()` forgets them.
The proof found two ways into an orphan that `overlapped` had not covered, a child still dying when the next
call begins and a preview started since the request was raised; both are the code's behaviour
(`MCPreviewFindings.cfg`).

**LocalImportProofs** (any number of folders, paths, files, workers, requests, jobs, versions and restarts, and
any failing statements): `ImportSafety`, `ImportInvAlways`, `StaleIsDetectedAlways`,
`OneWorkerUnlessLooseAlways`. A source has one active job because of the unique index (`JobsOfSources`),
whatever fails. One worker at a time is in a source that is not loose, which follows from that and from the
queue holding a job once (`WaitingOnce`, `Listed`, `WorkersRun`); the chunks of a file that is not left over
were therefore deleted by the worker that inserts the next batch (`FileCleared`), and a change is detected
because a file's version is taken before its text is read and a row never carries a version later than its text
(`Importing`, `OneBatch`). The two exceptions are needed: with a second worker on the source
(`MCImportTwice.cfg`), or with old chunks that could not be deleted (`MCImportReplaced.cfg`), a file has two
batches.

Only model-checked: every liveness property (fairness and ENABLED are outside what the prover
handles), that is TerminalLeaves, ServiceToolEnds, NoStrand, StackSettles, RunEnds, TurnIsRecorded,
JobsMove, StartSettles, CallsAnswer and ClientLearnsTheEnd. Every safety invariant and action property that
a passing run checks is stated by a theorem.

## Not modelled

Reasons per part are in `PROJECT.json`. In the modelled parts these are left out: the progress ticker of a
session stream (it pushes an event with the sequence number of the last one, which every receiver ignores as
content), heartbeats, the approval level and the wording of audit records, `list`/`rename`/`delete` of sessions,
the environment, directories and files written before a child is spawned, ports, `planBranches` validation and
the pruning of finished runs, attachments and titles of messages, and requests rejected before they change
anything; of the shell, its windows, its single-instance lock and the unlocking of the vault; of the import, the
graph, which is best effort, and the retrieval over the vectors; of the preview, its output buffer and the
detection of the URL in it.

The modules stand for a small share of the repository's lines. Most of the others have no state whose order
of change could go wrong, or none that a model would add to: the renderer's views and layout, catalogs
read from disk, formatting and parsing of documents, requests to providers and to Microsoft Graph
translated and forwarded, SQL record keeping behind one synchronous call, prototypes, and
build and verification scripts. What is left of the event-driven code is in the plan.

## Plan

Done in this order: gate and its proofs; boundary; stream (coordinator, session stream); supervisors;
dispatch; conversation turns; the contract, its refinements and the proofs of the boundary; life cycle of the
service; preview runtime; local import.

Proved after that, in this order: conversation turns, the stack, local import, preview, coordinator,
dispatch, `TerminalIsFrozen`, the session stream, the life cycle of the service.

Next, extending the models:

1. the local index (`knowledge-local/`): a single-flight job against clear, cancel and a crash;
2. the Microsoft 365 connector's device-code sign-in against sign-out;
3. the app runtime (`runtime-app/`) as a variant of `PreviewRuntime`;
4. pairing and device sessions of the remote gateway, composed with `ConversationTurn`;
5. settings with recovery and legacy migration (`db/`, `workspace/`), the file review ledger
   (`file-review/`), the reaper of a previous run's child.
