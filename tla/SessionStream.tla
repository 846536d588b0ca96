---------------------------- MODULE SessionStream ----------------------------
(***************************************************************************)
(* The live stream of one session, from the runtime to the renderer.       *)
(*                                                                         *)
(*   runtime --/event--> pump --> hub run: mapper -> task registry (apply) *)
(*                                        \-> coordinator --SSE--> client  *)
(*                                                                         *)
(* The task registry holds the authoritative view and freezes it at its    *)
(* first terminal; cancel and deny drive it to a terminal from outside the *)
(* stream.  A client adopts a snapshot of the view, then subscribes from   *)
(* its sequence number on.  A hub run owns the mapper, which numbers the   *)
(* events of the run; the pump opens it and closes it at the frame that    *)
(* ends the turn.                                                          *)
(*                                                                         *)
(* A view keeps what the properties tell apart: the sequence number of the *)
(* last event, the terminal, and which frames its text (tokens) and its    *)
(* items (todos, steps, tool calls, file mutations, metrics) came from.    *)
(***************************************************************************)
EXTENDS StreamCoordinator, FiniteSets

CONSTANTS
    MaxActivity,    \* bound on the token and state frames the runtime sends
    MaxEnds,        \* bound on the session.idle and session.error frames
    MaxInterrupts,  \* bound on the cancels and denials
    MaxContinues,   \* bound on the calls of continueSession
    MaxDrops,       \* bound on the SSE connections that break
    MaxLosses,      \* bound on the frames lost while the pump reconnects
    ClientFirst     \* the renderer subscribes before it prompts

ASSUME BoundsAssumption ==
    /\ {MaxActivity, MaxEnds, MaxInterrupts, MaxContinues, MaxDrops, MaxLosses} \subseteq Nat
    /\ ClientFirst \in BOOLEAN

VARIABLES
    runtime,    \* the OpenCode child: what it was told and what it has sent
    frames,     \* the /event stream between the runtime and the pump
    task,       \* the session's task in the registry, and the calls on it under way
    run,        \* the hub's live run for the session, or NoRun
    sse,        \* the SSE response the client reads
    client,     \* the renderer's stream client
    due         \* history: the tokens a view held already when it was adopted, although
                \* they were still on their way to it

vars == <<runtime, frames, task, run, sse, client, due>>

ActivityKinds == {"token", "state"}
EndKinds == {"idle", "error", "abort"}
Frame(kind, id) == [kind |-> kind, id |-> id]

InitialView == [last |-> 0, terminal |-> "none", text |-> <<>>, items |-> <<>>]

Views ==
    [last : Nat, terminal : {"none"} \union TerminalKinds, text : Seq(Nat), items : Seq(Nat)]

NoRun == [seq |-> 0, coord |-> NewCoordinator, exists |-> FALSE, opened |-> FALSE,
          listening |-> FALSE]
NewRun == [NoRun EXCEPT !.exists = TRUE]

ClosedSse == [open |-> FALSE, since |-> 0, wire |-> <<>>]

TypeOK ==
    /\ runtime \in [prompted : BOOLEAN, sending : BOOLEAN, aborted : BOOLEAN, sent : Nat,
                    text : Seq(Nat), items : Seq(Nat), ends : 0 .. MaxEnds, lost : 0 .. MaxLosses]
    /\ frames \in Seq([kind : ActivityKinds \union EndKinds, id : Nat])
    /\ task \in [view : Views, frozen : BOOLEAN, bound : BOOLEAN,
                 cancelling : {"no", "reached", "failed", "stale"},
                 interrupts : 0 .. MaxInterrupts, continuing : 0 .. MaxContinues,
                 continues : 0 .. MaxContinues]
    /\ run \in [seq : Nat, coord : Coordinators, exists : BOOLEAN, opened : BOOLEAN,
                listening : BOOLEAN]
    /\ sse \in [open : BOOLEAN, since : Nat, wire : Seq(Events)]
    /\ client \in [phase : {"off", "snapshot", "live", "ended", "lost"}, view : Views,
                   drops : 0 .. MaxDrops]
    /\ due \subseteq Nat

Init ==
    /\ runtime = [prompted |-> FALSE, sending |-> FALSE, aborted |-> FALSE, sent |-> 0,
                  text |-> <<>>, items |-> <<>>, ends |-> 0, lost |-> 0]
    /\ frames = <<>>
    /\ task = [view |-> InitialView, frozen |-> FALSE, bound |-> FALSE, cancelling |-> "no",
               interrupts |-> 0, continuing |-> 0, continues |-> 0]
    /\ run = NoRun
    /\ sse = ClosedSse
    /\ client = [phase |-> "off", view |-> InitialView, drops |-> 0]
    /\ due = {}

-----------------------------------------------------------------------------
(* The reducer, shared by the registry and the client.                      *)

\* foldOne: after the first terminal only a token may still be added, and only
\* to an empty text.  (An "error" event sets an error banner, left out.)
FoldOne(view, event) ==
    IF IsTerminal(event)
    THEN IF view.terminal # "none" THEN view ELSE [view EXCEPT !.terminal = event.kind]
    ELSE IF event.kind = "token" /\ (view.terminal = "none" \/ view.text = <<>>)
    THEN [view EXCEPT !.text = @ \o event.ids]
    ELSE IF event.kind = "state" /\ view.terminal = "none"
    THEN [view EXCEPT !.items = @ \o event.ids]
    ELSE view

\* reduceEv: an event at or below the cursor is ignored.
ReduceEv(view, event) ==
    IF event.seq <= view.last THEN view ELSE [FoldOne(view, event) EXCEPT !.last = event.seq]

\* TaskRegistry.apply: a frozen task drops every event, a terminal freezes it.
Apply(t, event) ==
    IF t.frozen THEN t
    ELSE LET view == ReduceEv(t.view, event) IN
         [t EXCEPT !.view = view, !.frozen = view.terminal # "none"]

-----------------------------------------------------------------------------
(* The hub run: mapper, fold, coordinator, fan-out to the SSE route.        *)

\* EvMapper.map: the events of a frame, numbered from seq + 1 on.
MapFrame(seq, frame) ==
    CASE frame.kind \in ActivityKinds -> <<Event(seq + 1, frame.kind, <<frame.id>>)>>
      [] frame.kind = "idle" -> <<Event(seq + 1, "completed", <<>>)>>
      [] frame.kind = "abort" -> <<Event(seq + 1, "cancelled", <<>>)>>
      [] frame.kind = "error" -> <<Event(seq + 1, "error", <<>>), Event(seq + 2, "errored", <<>>)>>

\* Mutant: only the first event of a frame is folded.
ApplyAllFirst(t, events) == Apply(t, events[1])

\* The loop of ingest: a frame maps to one event, or to two.
ApplyAll(t, events) ==
    LET first == Apply(t, events[1]) IN
    IF Len(events) = 1 THEN first ELSE Apply(first, events[2])

PushAll(c, events) ==
    LET first == Push(c, events[1]) IN
    IF Len(events) = 1 THEN first
    ELSE LET second == Push(first.coord, events[2]) IN
         Outcome(second.coord, first.out \o second.out)

\* The events above since: the sequence numbers of what is emitted grow, so what is
\* skipped comes first.
Fresh(events, since) ==
    LET skipped == {i \in DOMAIN events : events[i].seq <= since} IN
    SubSeq(events, Cardinality(skipped) + 1, Len(events))

\* Mutant: a client that resumes misses the first event after its snapshot.
DeliverLate(events) ==
    LET fresh == Fresh(events, sse.since + 1) IN
    sse' = [sse EXCEPT !.wire = @ \o fresh,
                       !.open = @ /\ ~\E i \in DOMAIN fresh : IsTerminal(fresh[i])]

\* handleStream's onEvent, for each event in turn: what the client has is
\* skipped, and the response ends after a terminal.
Deliver(events) ==
    LET fresh == Fresh(events, sse.since) IN
    sse' = [sse EXCEPT !.wire = @ \o fresh,
                       !.open = @ /\ ~\E i \in DOMAIN fresh : IsTerminal(fresh[i])]

\* The hub's emit: the events reach the subscribed listener, which detaches when
\* its response ends.
EmitTo(r, events) ==
    IF r.listening THEN Deliver(events) ELSE UNCHANGED sse

\* Mutant: a run without listeners is kept although nobody will close it.
UnsubscribeKeeping(r) == [r EXCEPT !.listening = FALSE]

\* Unsubscribe.close: a run the pump never claimed goes with its last listener.
Unsubscribe(r) ==
    IF r.exists /\ ~r.opened THEN NoRun ELSE [r EXCEPT !.listening = FALSE]

-----------------------------------------------------------------------------
(* The session router and the runtime.                                      *)

\* POST message: accepted while the view is not terminal, also during a turn.  The
\* stream is bound, and then the prompt is sent.  Bound: one at a time.
Prompt ==
    /\ ~runtime.sending
    /\ task.view.terminal = "none"
    /\ ClientFirst => client.phase = "live"
    /\ task' = [task EXCEPT !.bound = TRUE]
    /\ runtime' = [runtime EXCEPT !.sending = TRUE]
    /\ UNCHANGED <<frames, run, sse, client, due>>

\* The runtime takes the prompt.
PromptArrives ==
    /\ runtime.sending
    /\ runtime' = [runtime EXCEPT !.sending = FALSE, !.prompted = TRUE]
    /\ UNCHANGED <<frames, task, run, sse, client, due>>

\* There is no runtime, or it cannot be reached: the POST is refused, and the stream stays
\* bound.
PromptFails ==
    /\ runtime.sending
    /\ runtime' = [runtime EXCEPT !.sending = FALSE]
    /\ UNCHANGED <<frames, task, run, sse, client, due>>

\* The runtime works on a prompt and stores what it sends.  It may still send activity
\* after it went idle: ev-reducer.ts records that it does so on turns that use tools.
RuntimeWorks(kind) ==
    /\ runtime.prompted
    /\ runtime.sent < MaxActivity
    /\ LET id == runtime.sent + 1 IN
       /\ \/ /\ kind = "token"
             /\ runtime' = [runtime EXCEPT !.sent = id, !.text = Append(@, id)]
          \/ /\ kind = "state"
             /\ runtime' = [runtime EXCEPT !.sent = id, !.items = Append(@, id)]
       /\ frames' = Append(frames, Frame(kind, id))
    /\ UNCHANGED <<task, run, sse, client, due>>

\* The runtime ends the turn.
RuntimeEnds(kind) ==
    /\ runtime.prompted
    /\ runtime.ends < MaxEnds
    /\ kind = "abort" => runtime.aborted
    /\ runtime' = [runtime EXCEPT !.ends = @ + 1]
    /\ frames' = Append(frames, Frame(kind, 0))
    /\ UNCHANGED <<task, run, sse, client, due>>

-----------------------------------------------------------------------------
(* The event pump.                                                          *)

\* What a frame does to the run: its events, the run after them and what the
\* coordinator emitted.  A frame that ends the turn closes the run, and close()
\* flushes the coordinator.  The pump claims the run it feeds.
Ingest(r, frame) ==
    LET events == MapFrame(r.seq, frame)
        pushed == PushAll(r.coord, events)
    IN  IF frame.kind \in EndKinds
        THEN [events |-> events, run |-> NoRun, out |-> pushed.out \o Flush(pushed.coord).out]
        ELSE [events |-> events, out |-> pushed.out,
              run |-> [r EXCEPT !.seq = @ + Len(events), !.coord = pushed.coord, !.opened = TRUE]]

\* EventPump.dispatch: the session's run is opened if there is none, and the frame
\* is mapped, folded into the authoritative view, pushed and emitted.
PumpDispatch ==
    /\ frames # <<>>
    /\ frames' = Tail(frames)
    /\ \E fed \in {Ingest(IF run.exists THEN run ELSE NewRun, Head(frames))} :
          /\ task' = ApplyAll(task, fed.events)
          /\ run' = fed.run
          /\ EmitTo(run, fed.out)
    /\ UNCHANGED <<runtime, client, due>>

\* The window timer of the run's coordinator.
WindowFires ==
    /\ run.coord.window
    /\ LET flushed == FlushPending(run.coord) IN
       /\ run' = [run EXCEPT !.coord = flushed.coord]
       /\ EmitTo(run, flushed.out)
    /\ UNCHANGED <<runtime, frames, task, client, due>>

\* The /event connection breaks; a frame sent before the pump is back is lost.
LoseFrame ==
    /\ frames # <<>>
    /\ runtime.lost < MaxLosses
    /\ runtime' = [runtime EXCEPT !.lost = @ + 1]
    /\ frames' = Tail(frames)
    /\ UNCHANGED <<task, run, sse, client, due>>

-----------------------------------------------------------------------------
(* The task registry: cancel, deny and continue.                            *)

\* The event that drives a session to a terminal from outside the stream.
OutsideTerminal(t, state) == Event(t.view.last + 1, state, <<>>)

\* cancel, up to the await: the runtime is told to abort the stream bound to
\* the session.
CancelAborts ==
    /\ task.interrupts < MaxInterrupts
    /\ task.cancelling = "no"
    /\ task.bound
    /\ \/ /\ task' = [task EXCEPT !.interrupts = @ + 1, !.cancelling = "reached"]
          /\ runtime' = [runtime EXCEPT !.aborted = TRUE]
       \/ /\ task' = [task EXCEPT !.interrupts = @ + 1, !.cancelling = "failed"]
          /\ UNCHANGED runtime
    /\ UNCHANGED <<frames, run, sse, client, due>>

\* Mutant: a cancel overwrites a terminal that came while the abort was under way.
CancelOverwrites(t) ==
    [t EXCEPT !.view.terminal = "cancelled", !.view.last = @ + 1, !.frozen = TRUE]

\* The rest of cancel: terminal and freeze.
Cancelled(t) ==
    [t EXCEPT !.view = ReduceEv(t.view, OutsideTerminal(t, "cancelled")), !.frozen = TRUE]

CancelSettles ==
    /\ task.cancelling = "reached"
    /\ task' = [Cancelled(task) EXCEPT !.cancelling = "no"]
    /\ UNCHANGED <<runtime, frames, run, sse, client, due>>

\* The abort call fails and cancel() throws before it touched the view, or the task it
\* was called for has been replaced meanwhile and what it touches is forgotten.
CancelFails ==
    /\ task.cancelling # "no"
    /\ task' = [task EXCEPT !.cancelling = "no"]
    /\ UNCHANGED <<runtime, frames, run, sse, client, due>>

\* A session that was never prompted has no stream to abort.
CancelUnbound ==
    /\ task.interrupts < MaxInterrupts
    /\ ~task.bound
    /\ task' = [Cancelled(task) EXCEPT !.interrupts = @ + 1]
    /\ UNCHANGED <<runtime, frames, run, sse, client, due>>

\* denySession, when a permission request of the turn is denied.
Deny ==
    /\ task.interrupts < MaxInterrupts
    /\ runtime.prompted
    /\ task' = [Apply(task, OutsideTerminal(task, "denied")) EXCEPT !.interrupts = @ + 1]
    /\ UNCHANGED <<runtime, frames, run, sse, client, due>>

\* continueSession, up to the await on the store: only a session that is over.
ContinueCalled ==
    /\ task.continues < MaxContinues
    /\ task.view.terminal # "none"
    /\ task' = [task EXCEPT !.continues = @ + 1, !.continuing = @ + 1]
    /\ UNCHANGED <<runtime, frames, run, sse, client, due>>

\* What is on its way to a view: the frames to the registry's, the batch that is
\* held back to the renderer's.
Ids(s) == {s[i] : i \in DOMAIN s}
Undispatched == {frames[i].id : i \in DOMAIN frames}
HeldBack == Ids(run.coord.pending.ids)

\* The rest of continueSession: the view is rebuilt from the runtime's messages,
\* which hold no terminal, and registered as a new task.
ContinueSettles ==
    /\ task.continuing > 0
    /\ task' = [task EXCEPT !.continuing = @ - 1, !.frozen = FALSE, !.bound = FALSE,
                            !.cancelling = IF @ = "no" THEN "no" ELSE "stale",
                            !.view = [last |-> runtime.sent, terminal |-> "none",
                                      text |-> runtime.text, items |-> runtime.items]]
    /\ due' = due \union (Ids(runtime.text) \intersect Undispatched)
    /\ UNCHANGED <<runtime, frames, run, sse, client>>

-----------------------------------------------------------------------------
(* The renderer's stream client and the SSE route.                          *)

\* loadSnapshot: the authoritative view replaces the client's own.  A lost stream is not
\* opened again by itself: this is the user who opens the session once more.
LoadSnapshot ==
    /\ \/ client.phase \in {"off", "lost"}
       \/ client.phase = "ended" /\ task.view.terminal = "none"
    /\ client' = [client EXCEPT !.view = task.view,
                                !.phase = IF task.view.terminal = "none" THEN "snapshot" ELSE "ended"]
    /\ due' = due \union (Ids(task.view.text) \intersect HeldBack)
    /\ UNCHANGED <<runtime, frames, task, run, sse>>

\* GET stream, for a session that ended since the snapshot: an empty response,
\* which the client takes for a lost connection.
OpenFinished ==
    /\ client.phase = "snapshot"
    /\ task.view.terminal # "none"
    /\ client' = [client EXCEPT !.phase = "lost"]
    /\ UNCHANGED <<runtime, frames, task, run, sse, due>>

\* GET stream: the client joins the session's run, which is made if need be.
Subscribe ==
    /\ client.phase = "snapshot"
    /\ task.view.terminal = "none"
    /\ client' = [client EXCEPT !.phase = "live"]
    /\ sse' = [open |-> TRUE, since |-> client.view.last, wire |-> <<>>]
    /\ run' = [(IF run.exists THEN run ELSE NewRun) EXCEPT !.listening = TRUE]
    /\ UNCHANGED <<runtime, frames, task, due>>

\* The client folds an event; a terminal ends the read loop.
Receive ==
    /\ client.phase = "live"
    /\ sse.wire # <<>>
    /\ LET view == ReduceEv(client.view, Head(sse.wire)) IN
       IF view.terminal # "none"
       THEN /\ client' = [client EXCEPT !.view = view, !.phase = "ended"]
            /\ sse' = ClosedSse
            /\ run' = Unsubscribe(run)
       ELSE /\ client' = [client EXCEPT !.view = view]
            /\ sse' = [sse EXCEPT !.wire = Tail(@)]
            /\ UNCHANGED run
    /\ UNCHANGED <<runtime, frames, task, due>>

\* The connection breaks before a terminal came: what is on the wire is lost, the
\* route unsubscribes, and the client says so (surfaceDisconnect).  A response that
\* is not broken only ends with a terminal.
Disconnect ==
    /\ client.phase = "live"
    /\ client.drops < MaxDrops
    /\ client' = [client EXCEPT !.phase = "lost", !.drops = @ + 1]
    /\ sse' = ClosedSse
    /\ run' = Unsubscribe(run)
    /\ UNCHANGED <<runtime, frames, task, due>>

-----------------------------------------------------------------------------

Next ==
    \/ Prompt \/ PromptArrives \/ PromptFails
    \/ \E kind \in ActivityKinds : RuntimeWorks(kind)
    \/ \E kind \in EndKinds : RuntimeEnds(kind)
    \/ PumpDispatch
    \/ WindowFires
    \/ LoseFrame
    \/ CancelAborts
    \/ CancelSettles
    \/ CancelFails
    \/ CancelUnbound
    \/ Deny
    \/ ContinueCalled
    \/ ContinueSettles
    \/ LoadSnapshot
    \/ OpenFinished
    \/ Subscribe
    \/ Receive
    \/ Disconnect

Spec == Init /\ [][Next]_vars

\* The pump and the timers run, a renderer that has loaded a snapshot goes on to the
\* stream and reads it, and the runtime (external) ends a turn it was prompted for.
Fairness ==
    /\ WF_vars(PumpDispatch)
    /\ WF_vars(WindowFires)
    /\ WF_vars(OpenFinished \/ Subscribe)
    /\ WF_vars(Receive)
    /\ WF_vars(RuntimeEnds("idle"))

LiveSpec == Spec /\ Fairness

-----------------------------------------------------------------------------
(* Properties.                                                              *)

IsPrefix(s, t) == Len(s) <= Len(t) /\ s = SubSeq(t, 1, Len(s))

\* The view older was once, or is, the view newer.
AtLeastAsCurrent(newer, older) ==
    /\ older.last <= newer.last
    /\ older.terminal \in {"none", newer.terminal}
    /\ IsPrefix(older.text, newer.text)
    /\ IsPrefix(older.items, newer.items)

\* session-stream.ts: apply before emit, so "the authoritative snapshot is always
\* at least as current as anything the renderer has seen".
SnapshotIsCurrent == AtLeastAsCurrent(task.view, client.view)

\* All the parts of the stream keep their types, and the registry's view is never
\* behind the renderer's while frames, batches and emissions are on their way.
StreamInv == TypeOK /\ SnapshotIsCurrent

\* A token that is in the renderer's text twice was in a view that was adopted while the
\* token was still on its way: no reconnection, batch, cancel, reopening or loss doubles
\* any other.
NoDoubleCount ==
    \A i, j \in DOMAIN client.view.text :
        i # j /\ client.view.text[i] = client.view.text[j] => client.view.text[i] \in due

\* ev-reducer.ts: a resync "cannot double-count": no token is in the renderer's
\* text twice.
EachTokenOnce ==
    \A i, j \in DOMAIN client.view.text : i # j => client.view.text[i] # client.view.text[j]

\* A renderer that was shown the end was shown the whole turn: its view is the
\* authoritative one, through the buffer, the window and the resume cursor.
EndIsComplete ==
    client.phase = "ended" =>
        /\ client.view.terminal = task.view.terminal
        /\ client.view.text = task.view.text
        /\ client.view.items = task.view.items

\* A run is owned: by the pump that will close it, or by a listener whose
\* detachment evicts it (session-stream-hub.ts, empty-run eviction).
RunIsOwned == run.exists => run.opened \/ run.listening

\* The first terminal wins: until the session is continued, neither the runtime's
\* frames nor a cancel or a denial change the outcome or what was produced.
OutcomeIsFinal ==
    [][/\ task.view.terminal # "none"
       /\ task'.continuing >= task.continuing
       => /\ task'.view.terminal = task.view.terminal
          /\ task'.view.text = task.view.text
          /\ task'.view.items = task.view.items]_vars

\* ev-mapper.ts: "seq is monotonic per session", so a token or state frame of a turn that
\* is not over always counts, when the view does not hold it yet: the registry folds it
\* and moves its cursor.
LiveFrameCounts ==
    [][/\ ~task.frozen
       /\ task.bound
       /\ frames # <<>>
       /\ Head(frames).kind \in ActivityKinds
       /\ Head(frames).id \notin Ids(task.view.text) \union Ids(task.view.items)
       /\ frames' = Tail(frames)
       /\ runtime' = runtime
       => task'.view.last > task.view.last]_vars

\* ev-reducer.ts: a token that comes after session.idle is kept when the text is
\* still empty.
LateTextIsKept ==
    [][/\ task.view.terminal = "completed"
       /\ task.view.text = <<>>
       /\ frames # <<>>
       /\ Head(frames).kind = "token"
       /\ frames' = Tail(frames)
       /\ runtime' = runtime
       => task'.view.text # <<>>]_vars

\* session-service.ts: continueSession must "never clobber a LIVE in-process task",
\* whose stream a later cancel could then no longer abort.
LiveTaskIsKept ==
    [][task'.continuing < task.continuing => task.view.terminal # "none" \/ ~task.bound]_vars

\* A renderer that watches a session the runtime was prompted for does not watch for
\* ever: it is shown the end or that its stream is lost, unless the frame that says so was
\* lost between the runtime and the pump or the session was opened again, which starts
\* its view afresh.
ClientLearnsTheEnd ==
    client.phase # "off" /\ runtime.prompted
        ~> client.phase \in {"ended", "lost"} \/ runtime.lost > 0 \/ task.continues > 0

=============================================================================
