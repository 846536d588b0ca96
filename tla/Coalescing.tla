----------------------------- MODULE Coalescing -----------------------------
(***************************************************************************)
(* The stream coordinator by itself, under any calls its callers may make: *)
(* events of every kind are pushed with increasing sequence numbers, also  *)
(* after a terminal; the window and the grace timer fire; flush() is       *)
(* called at any time.                                                     *)
(***************************************************************************)
EXTENDS StreamCoordinator

CONSTANT MaxEvents      \* bound on the events pushed

ASSUME MaxEventsAssumption == MaxEvents \in Nat

VARIABLES
    coord,      \* the coordinator
    pushed,     \* the kinds of the events pushed, the n-th with sequence number n
    emitted     \* what reached the emit sink, in order

vars == <<coord, pushed, emitted>>

TypeOK ==
    /\ coord \in Coordinators
    /\ pushed \in Seq(EventKinds)
    /\ emitted \in Seq(Events)

Init ==
    /\ coord = NewCoordinator
    /\ pushed = <<>>
    /\ emitted = <<>>

Takes(outcome) ==
    /\ coord' = outcome.coord
    /\ emitted' = emitted \o outcome.out

PushNext(kind) ==
    /\ Len(pushed) < MaxEvents
    /\ pushed' = Append(pushed, kind)
    /\ LET n == Len(pushed) + 1 IN Takes(Push(coord, Event(n, kind, <<n>>)))

WindowFires == coord.window /\ Takes(FlushPending(coord)) /\ UNCHANGED pushed

GraceFires == coord.grace /\ Takes(EmitTerminalNow(coord)) /\ UNCHANGED pushed

FlushCalled == Takes(Flush(coord)) /\ UNCHANGED pushed

Next ==
    \/ \E kind \in {"token", "state", "completed"} : PushNext(kind)
    \/ WindowFires
    \/ GraceFires
    \/ FlushCalled

\* Timers that are set fire.
Fairness == WF_vars(WindowFires) /\ WF_vars(GraceFires)

Spec == Init /\ [][Next]_vars /\ Fairness

-----------------------------------------------------------------------------

\* The frames a sequence of events carries, terminals left out, are in the order of the
\* runtime and each is there once: across events, and within an event.
InOrder(events) ==
    \A i, j \in DOMAIN events :
        ~IsTerminal(events[i]) /\ ~IsTerminal(events[j]) =>
            \A k \in DOMAIN events[i].ids, l \in DOMAIN events[j].ids :
                i < j \/ (i = j /\ k < l) => events[i].ids[k] < events[j].ids[l]

\* Coalescing neither duplicates nor reorders what it carries: tokens and state
\* events reach the renderer in the order of the runtime, each once.
Leaving == Append(emitted, coord.pending)
CarriedInOrder == InOrder(Leaving)

\* Backpressure: the buffer never holds a full batch, and what it holds before
\* the end has a timer that will flush it.
BufferIsBounded ==
    /\ Len(coord.pending.ids) < MaxBatch
    /\ coord.pending # NoEvent /\ ~coord.terminated => coord.window

\* What holds of the buffer at every moment, whatever timers fire and however batches
\* are cut: content leaves in order, and none waits without a timer.
CoalescingInv == TypeOK /\ CarriedInOrder /\ BufferIsBounded

Holds(event, n) == \E k \in DOMAIN event.ids : event.ids[k] = n

\* Until the terminal leaves, no token and no state event is lost: it was emitted
\* or it is still in the buffer, whatever timers fired and however batches were
\* cut.  And a waiting terminal is the last that was pushed.
NothingLost ==
    ~coord.terminated =>
        \A n \in DOMAIN pushed :
            IF pushed[n] \in TerminalKinds
            THEN \E k \in n .. Len(pushed) : coord.terminal = Event(k, pushed[k], <<k>>)
            ELSE Holds(coord.pending, n) \/ \E i \in DOMAIN emitted : Holds(emitted[i], n)

\* The inductive invariant: what is carried was pushed, the buffer holds tokens, and a
\* terminal is what waits for the grace period.
CarriedWasPushed ==
    \A i \in DOMAIN Leaving :
        IsTerminal(Leaving[i]) \/ \A k \in DOMAIN Leaving[i].ids : Leaving[i].ids[k] \in DOMAIN pushed

CoalescingIInv ==
    /\ CoalescingInv
    /\ NothingLost
    /\ CarriedWasPushed
    /\ coord.pending = NoEvent \/ (coord.pending.kind = "token" /\ coord.pending.ids # <<>>)
    /\ coord.terminal = NoEvent \/ IsTerminal(coord.terminal)

\* A terminal that was pushed is emitted.
TerminalLeaves == coord.terminal # NoEvent ~> coord.terminated

\* stream-coordinator.ts: a terminal "is the FINAL emission; nothing is emitted
\* after it".
TerminalIsLast ==
    \A i \in DOMAIN emitted : IsTerminal(emitted[i]) => i = Len(emitted)

=============================================================================
