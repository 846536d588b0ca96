------------------------- MODULE StreamCoordinator -------------------------
(***************************************************************************)
(* The coalescing coordinator of a session stream                          *)
(* (service/src/execution/stream-coordinator.ts).  Tokens are buffered for *)
(* a window or until a batch is full and leave as one event that carries   *)
(* the sequence number of the last; every other event flushes the buffer   *)
(* and leaves at once; a terminal waits out a grace period.  The operators *)
(* compute, for a coordinator and a call, the coordinator after it and the *)
(* events it emits; SessionStream composes them with the rest.             *)
(***************************************************************************)
EXTENDS Naturals, Sequences

CONSTANT MaxBatch       \* maxBatchTokens, the cap on buffered tokens

ASSUME MaxBatchAssumption == MaxBatch \in Nat \ {0}

\* An event on its way to the renderer.  ids names the runtime frames whose
\* content it carries: one, or those of all the tokens coalesced into it.
Event(seq, kind, ids) == [seq |-> seq, kind |-> kind, ids |-> ids]
NoEvent == [seq |-> 0, kind |-> "none", ids |-> <<>>]

TerminalKinds == {"completed", "errored", "cancelled", "denied"}
EventKinds == {"none", "token", "state", "error"} \union TerminalKinds
Events == [seq : Nat, kind : EventKinds, ids : Seq(Nat)]
IsTerminal(event) == event.kind \in TerminalKinds

\* pending and its window timer, pendingTerminal and its grace timer, terminated.
Coordinators ==
    [pending : Events, window : BOOLEAN, terminal : Events, grace : BOOLEAN,
     terminated : BOOLEAN]

NewCoordinator ==
    [pending |-> NoEvent, window |-> FALSE, terminal |-> NoEvent, grace |-> FALSE,
     terminated |-> FALSE]

\* The outcome of a call: the coordinator after it, and what it emitted.
Outcome(coord, out) == [coord |-> coord, out |-> out]

\* Mutant: the batch that leaves is not taken out of the buffer.
FlushPendingKept(c) ==
    Outcome([c EXCEPT !.window = FALSE], IF c.pending = NoEvent THEN <<>> ELSE <<c.pending>>)

\* flushPending: the buffered tokens leave as one event.
FlushPending(c) ==
    Outcome([c EXCEPT !.pending = NoEvent, !.window = FALSE],
            IF c.pending = NoEvent THEN <<>> ELSE <<c.pending>>)

\* emitTerminalNow: the waiting terminal leaves; the window timer is cleared,
\* but a token buffered during the grace period stays in the buffer.
EmitTerminalNow(c) ==
    IF c.terminal = NoEvent
    THEN Outcome([c EXCEPT !.grace = FALSE], <<>>)
    ELSE Outcome([c EXCEPT !.terminal = NoEvent, !.grace = FALSE, !.window = FALSE,
                           !.terminated = TRUE],
                 <<c.terminal>>)

\* Mutant: the batch keeps the sequence number and content of its first token.
AccumulateFirst(c, event) ==
    LET batch == IF c.pending = NoEvent THEN event ELSE c.pending
        held == [c EXCEPT !.pending = batch]
    IN  IF Len(batch.ids) >= MaxBatch
        THEN FlushPending(held)
        ELSE Outcome([held EXCEPT !.window = TRUE], <<>>)

\* accumulate: a token joins the batch, which takes its sequence number.
Accumulate(c, event) ==
    LET batch == Event(event.seq, "token", c.pending.ids \o event.ids)
        held == [c EXCEPT !.pending = batch]
    IN  IF Len(batch.ids) >= MaxBatch
        THEN FlushPending(held)
        ELSE Outcome([held EXCEPT !.window = TRUE], <<>>)

\* Mutant: a state event overtakes the tokens buffered before it.
PushOvertaking(c, event) ==
    IF c.terminated THEN Outcome(c, <<>>)
    ELSE IF event.kind = "token" THEN Accumulate(c, event)
    ELSE IF IsTerminal(event)
         THEN LET flushed == FlushPending(c) IN
              Outcome([flushed.coord EXCEPT !.terminal = event, !.grace = TRUE], flushed.out)
    ELSE Outcome(c, <<event>>)

\* Mutant: no grace timer is set for a terminal.
PushWithoutGrace(c, event) ==
    IF c.terminated THEN Outcome(c, <<>>)
    ELSE IF event.kind = "token" THEN Accumulate(c, event)
    ELSE LET flushed == FlushPending(c) IN
         IF IsTerminal(event)
         THEN Outcome([flushed.coord EXCEPT !.terminal = event], flushed.out)
         ELSE Outcome(flushed.coord, Append(flushed.out, event))

\* push
Push(c, event) ==
    IF c.terminated THEN Outcome(c, <<>>)
    ELSE IF event.kind = "token" THEN Accumulate(c, event)
    ELSE LET flushed == FlushPending(c) IN
         IF IsTerminal(event)
         THEN Outcome([flushed.coord EXCEPT !.terminal = event, !.grace = TRUE], flushed.out)
         ELSE Outcome(flushed.coord, Append(flushed.out, event))

\* flush
Flush(c) ==
    LET flushed == FlushPending(c)
        ended == EmitTerminalNow(flushed.coord)
    IN  Outcome(ended.coord, flushed.out \o ended.out)

=============================================================================
