-------------------------- MODULE CoalescingProofs --------------------------
(***************************************************************************)
(* Proofs about the stream coordinator, for every batch size and every     *)
(* number of events: whatever calls are made and timers fire, what it      *)
(* carries leaves in order, each frame once, and until the terminal leaves *)
(* nothing is lost.                                                        *)
(***************************************************************************)
EXTENDS Coalescing, TLAPS

-----------------------------------------------------------------------------
(* Sequences.                                                               *)

\* An element is put behind the others.
LEMMA Behind ==
    ASSUME NEW S, NEW s \in Seq(S), NEW x \in S
    PROVE  /\ Append(s, x) \in Seq(S)
           /\ s \o <<x>> = Append(s, x)
           /\ DOMAIN s = 1 .. Len(s) /\ Len(s) \in Nat
           /\ Len(Append(s, x)) = Len(s) + 1
           /\ DOMAIN Append(s, x) = 1 .. (Len(s) + 1)
           /\ \A i \in 1 .. Len(s) : Append(s, x)[i] = s[i] /\ s[i] \in S
           /\ Append(s, x)[Len(s) + 1] = x
  <1>1. /\ Append(s, x) \in Seq(S) /\ DOMAIN s = 1 .. Len(s) /\ Len(s) \in Nat
        /\ Len(Append(s, x)) = Len(s) + 1
        /\ \A i \in 1 .. Len(s) : Append(s, x)[i] = s[i] /\ s[i] \in S
        /\ Append(s, x)[Len(s) + 1] = x
    OBVIOUS
  <1>2. DOMAIN Append(s, x) = 1 .. (Len(s) + 1)
    BY <1>1
  <1>3. s \o <<x>> = Append(s, x)
    OBVIOUS
  <1>4. QED
    BY <1>1, <1>2, <1>3

\* Nothing is put behind the others.
LEMMA NothingBehind ==
    ASSUME NEW S, NEW s \in Seq(S)
    PROVE  s \o <<>> = s
  OBVIOUS

\* InOrder of a sequence with one more event: the others are in order, the event is in
\* order, and what it carries comes after what the others carry.
Increasing(event) ==
    \A k, l \in DOMAIN event.ids : k < l => event.ids[k] < event.ids[l]

Comes(events, event) ==
    \A i \in DOMAIN events :
        IsTerminal(events[i]) \/
            \A k \in DOMAIN events[i].ids, l \in DOMAIN event.ids : events[i].ids[k] < event.ids[l]

LEMMA InOrderAppend ==
    ASSUME NEW events \in Seq(Events), NEW event \in Events
    PROVE  InOrder(Append(events, event)) <=>
             /\ InOrder(events)
             /\ IsTerminal(event) \/ (Increasing(event) /\ Comes(events, event))
  <1> DEFINE more == Append(events, event)
             last == Len(events) + 1
  <1>1. /\ DOMAIN events = 1 .. Len(events) /\ Len(events) \in Nat
        /\ DOMAIN more = 1 .. last
        /\ \A i \in 1 .. Len(events) : more[i] = events[i]
        /\ more[last] = event
    BY Behind
  <1>2. \A i \in 1 .. last : i \in 1 .. Len(events) \/ i = last
    BY <1>1
  <1>3. \A i \in 1 .. Len(events) : i \in 1 .. last /\ i < last
    BY <1>1
  <1>4. last \in 1 .. last
    BY <1>1
  <1>5. ASSUME InOrder(more)
        PROVE  /\ InOrder(events)
               /\ IsTerminal(event) \/ (Increasing(event) /\ Comes(events, event))
    <2> HIDE DEF more
    <2>1. InOrder(events)
      BY <1>1, <1>3, <1>5 DEF InOrder
    <2>2. ~IsTerminal(event) => Increasing(event)
      BY <1>1, <1>4, <1>5 DEF InOrder, Increasing
    <2>3. ~IsTerminal(event) => Comes(events, event)
      <3>1. ASSUME ~IsTerminal(event), NEW i \in DOMAIN events, ~IsTerminal(events[i]),
                   NEW k \in DOMAIN events[i].ids, NEW l \in DOMAIN event.ids
            PROVE  events[i].ids[k] < event.ids[l]
        <4>1. i \in DOMAIN more /\ last \in DOMAIN more /\ i < last
              /\ more[i] = events[i] /\ more[last] = event
          BY <1>1, <1>3, <1>4, <3>1
        <4>2. QED
          BY <1>5, <3>1, <4>1 DEF InOrder
      <3>2. QED
        BY <3>1 DEF Comes
    <2>4. QED
      BY <2>1, <2>2, <2>3
  <1>6. ASSUME InOrder(events),
               IsTerminal(event) \/ (Increasing(event) /\ Comes(events, event))
        PROVE  InOrder(more)
    <2> SUFFICES ASSUME NEW i \in DOMAIN more, NEW j \in DOMAIN more,
                        ~IsTerminal(more[i]), ~IsTerminal(more[j]),
                        NEW k \in DOMAIN more[i].ids, NEW l \in DOMAIN more[j].ids,
                        i < j \/ (i = j /\ k < l)
                 PROVE  more[i].ids[k] < more[j].ids[l]
      BY DEF InOrder
    <2> HIDE DEF more
    <2>1. CASE i \in 1 .. Len(events) /\ j \in 1 .. Len(events)
      BY <1>1, <1>6, <2>1 DEF InOrder
    <2>2. CASE i \in 1 .. Len(events) /\ j = last
      <3>1. more[i] = events[i] /\ more[j] = event /\ i \in DOMAIN events
        BY <1>1, <2>2
      <3>2. QED
        BY <1>6, <3>1 DEF Comes
    <2>3. CASE i = last /\ j = last
      <3>1. more[i] = event /\ more[j] = event /\ ~(i < j)
        BY <1>1, <2>3
      <3>2. QED
        BY <1>6, <3>1, <2>3 DEF Increasing
    <2>4. CASE i = last /\ j \in 1 .. Len(events)
      BY <1>1, <2>4
    <2>5. QED
      BY <1>1, <1>2, <2>1, <2>2, <2>3, <2>4
  <1>7. QED
    BY <1>5, <1>6

-----------------------------------------------------------------------------
(* What has left and what is buffered, when n events have been pushed.      *)

Orderly(events, pending, n) ==
    /\ events \in Seq(Events) /\ pending \in Events /\ n \in Nat
    /\ ~IsTerminal(pending)
    /\ InOrder(events) /\ Increasing(pending) /\ Comes(events, pending)
    /\ \A i \in DOMAIN events :
          IsTerminal(events[i]) \/ \A k \in DOMAIN events[i].ids : events[i].ids[k] \in 1 .. n
    /\ \A k \in DOMAIN pending.ids : pending.ids[k] \in 1 .. n

LEMMA EventTypes ==
    /\ NoEvent \in Events /\ ~IsTerminal(NoEvent)
    /\ NoEvent.ids = <<>> /\ DOMAIN NoEvent.ids = {}
    /\ \A n \in Nat, kind \in EventKinds, ids \in Seq(Nat) : Event(n, kind, ids) \in Events
    /\ \A n \in Nat : <<n>> \in Seq(Nat) /\ DOMAIN <<n>> = {1} /\ <<n>>[1] = n
  BY DEF NoEvent, Events, Event, EventKinds, IsTerminal, TerminalKinds

\* The buffered tokens leave.
LEMMA ReleaseInOrder ==
    ASSUME NEW events, NEW pending, NEW n, Orderly(events, pending, n)
    PROVE  Orderly(Append(events, pending), NoEvent, n)
  <1> DEFINE more == Append(events, pending)
  <1>1. events \in Seq(Events) /\ pending \in Events /\ n \in Nat
    BY DEF Orderly
  <1>2. /\ more \in Seq(Events) /\ DOMAIN more = 1 .. (Len(events) + 1) /\ Len(events) \in Nat
        /\ DOMAIN events = 1 .. Len(events)
        /\ \A i \in 1 .. Len(events) : more[i] = events[i]
        /\ more[Len(events) + 1] = pending
    BY <1>1, Behind
  <1>3. InOrder(more)
    BY <1>1, InOrderAppend DEF Orderly
  <1> HIDE DEF more
  <1>4. \A i \in DOMAIN more :
           IsTerminal(more[i]) \/ \A k \in DOMAIN more[i].ids : more[i].ids[k] \in 1 .. n
    <2>1. \A i \in DOMAIN more : i \in DOMAIN events \/ i = Len(events) + 1
      BY <1>2
    <2>2. QED
      BY <1>2, <2>1 DEF Orderly
  <1>5. Increasing(NoEvent) /\ Comes(more, NoEvent)
    BY EventTypes DEF Increasing, Comes
  <1>6. QED
    BY <1>1, <1>2, <1>3, <1>4, <1>5, EventTypes DEF Orderly, more

\* A terminal leaves.
LEMMA TerminalInOrder ==
    ASSUME NEW events, NEW pending, NEW n, Orderly(events, pending, n),
           NEW event \in Events, IsTerminal(event)
    PROVE  Orderly(Append(events, event), pending, n)
  <1> DEFINE more == Append(events, event)
  <1>1. events \in Seq(Events) /\ pending \in Events /\ n \in Nat
    BY DEF Orderly
  <1>2. /\ more \in Seq(Events) /\ DOMAIN more = 1 .. (Len(events) + 1) /\ Len(events) \in Nat
        /\ DOMAIN events = 1 .. Len(events)
        /\ \A i \in 1 .. Len(events) : more[i] = events[i]
        /\ more[Len(events) + 1] = event
    BY <1>1, Behind
  <1>3. InOrder(more)
    BY <1>1, InOrderAppend DEF Orderly
  <1> HIDE DEF more
  <1>4. \A i \in DOMAIN more : i \in DOMAIN events \/ IsTerminal(more[i])
    BY <1>2
  <1>5. Comes(more, pending)
    BY <1>2, <1>4 DEF Orderly, Comes
  <1>6. \A i \in DOMAIN more :
           IsTerminal(more[i]) \/ \A k \in DOMAIN more[i].ids : more[i].ids[k] \in 1 .. n
    BY <1>2, <1>4 DEF Orderly
  <1>7. QED
    BY <1>1, <1>2, <1>3, <1>5, <1>6 DEF Orderly, more

\* A token joins the buffer: its number is above all that has been carried.
LEMMA TokenInOrder ==
    ASSUME NEW events, NEW pending, NEW n, Orderly(events, pending, n)
    PROVE  Orderly(events, Event(n + 1, "token", pending.ids \o <<n + 1>>), n + 1)
  <1> DEFINE ids == pending.ids \o <<n + 1>>
             old == pending.ids
  <1>1. events \in Seq(Events) /\ old \in Seq(Nat) /\ n \in Nat /\ n + 1 \in Nat
    BY DEF Orderly, Events
  <1>2. /\ ids \in Seq(Nat) /\ DOMAIN ids = 1 .. (Len(old) + 1) /\ Len(old) \in Nat
        /\ DOMAIN old = 1 .. Len(old)
        /\ \A k \in 1 .. Len(old) : ids[k] = old[k]
        /\ ids[Len(old) + 1] = n + 1
    BY <1>1, Behind
  <1> DEFINE batch == Event(n + 1, "token", ids)
  <1>3. batch \in Events /\ batch.ids = ids /\ ~IsTerminal(batch)
    BY <1>1, <1>2 DEF Event, Events, EventKinds, IsTerminal, TerminalKinds
  <1> HIDE DEF batch, ids
  <1>4. \A k \in DOMAIN old : old[k] \in 1 .. n
    BY DEF Orderly
  <1>5. \A k \in DOMAIN ids : k \in DOMAIN old \/ k = Len(old) + 1
    BY <1>2
  <1>6. ASSUME NEW k \in DOMAIN ids PROVE ids[k] \in 1 .. (n + 1)
    <2>1. CASE k \in DOMAIN old
      <3>1. ids[k] = old[k] /\ old[k] \in 1 .. n
        BY <1>2, <1>4, <2>1
      <3>2. QED
        BY <1>1, <3>1
    <2>2. CASE k = Len(old) + 1
      BY <1>1, <1>2, <2>2
    <2>3. QED
      BY <1>5, <2>1, <2>2
  <1>7. Increasing(batch)
    <2> SUFFICES ASSUME NEW k \in DOMAIN ids, NEW l \in DOMAIN ids, k < l PROVE ids[k] < ids[l]
      BY <1>3 DEF Increasing
    <2>1. k \in DOMAIN old /\ ids[k] = old[k] /\ old[k] \in 1 .. n
      BY <1>2, <1>4, <1>5
    <2>2. CASE l \in DOMAIN old
      BY <1>2, <2>1, <2>2 DEF Orderly, Increasing
    <2>3. CASE l = Len(old) + 1
      BY <1>1, <1>2, <2>1, <2>3
    <2>4. QED
      BY <1>5, <2>2, <2>3
  <1>8. Comes(events, batch)
    <2> SUFFICES ASSUME NEW i \in DOMAIN events, ~IsTerminal(events[i]),
                        NEW k \in DOMAIN events[i].ids, NEW l \in DOMAIN ids
                 PROVE  events[i].ids[k] < ids[l]
      BY <1>3 DEF Comes
    <2>1. events[i].ids[k] \in 1 .. n
      BY DEF Orderly
    <2>2. CASE l \in DOMAIN old
      BY <1>2, <2>2 DEF Orderly, Comes
    <2>3. CASE l = Len(old) + 1
      BY <1>1, <1>2, <2>1, <2>3
    <2>4. QED
      BY <1>5, <2>2, <2>3
  <1>9. \A i \in DOMAIN events :
           IsTerminal(events[i]) \/ \A k \in DOMAIN events[i].ids : events[i].ids[k] \in 1 .. (n + 1)
    <2>1. \A m \in 1 .. n : m \in 1 .. (n + 1)
      BY <1>1
    <2>2. QED
      BY <2>1 DEF Orderly
  <1>10. Orderly(events, batch, n + 1)
    BY <1>1, <1>3, <1>6, <1>7, <1>8, <1>9 DEF Orderly
  <1>11. QED
    BY <1>10 DEF batch, ids

\* An event that carries nothing more is pushed.
LEMMA StillInOrder ==
    ASSUME NEW events, NEW pending, NEW n, Orderly(events, pending, n)
    PROVE  Orderly(events, pending, n + 1)
  <1>1. n \in Nat /\ \A m \in 1 .. n : m \in 1 .. (n + 1)
    BY DEF Orderly
  <1>2. QED
    BY <1>1 DEF Orderly

\* A state event leaves behind the buffer.
LEMMA StateInOrder ==
    ASSUME NEW events, NEW n, Orderly(events, NoEvent, n)
    PROVE  Orderly(Append(events, Event(n + 1, "state", <<n + 1>>)), NoEvent, n + 1)
  <1> DEFINE event == Event(n + 1, "state", <<n + 1>>)
  <1>1. n \in Nat /\ n + 1 \in Nat
    BY DEF Orderly
  <1>2. /\ event \in Events /\ ~IsTerminal(event)
        /\ DOMAIN event.ids = {1} /\ event.ids[1] = n + 1
    BY <1>1, EventTypes DEF Event, EventKinds, IsTerminal, TerminalKinds
  <1> HIDE DEF event
  <1>3. Increasing(event)
    BY <1>1, <1>2 DEF Increasing
  <1>4. Comes(events, event)
    BY <1>1, <1>2 DEF Comes, Orderly
  <1>5. \A k \in DOMAIN event.ids : event.ids[k] \in 1 .. (n + 1)
    BY <1>1, <1>2
  <1>6. Orderly(events, event, n + 1)
    BY <1>1, <1>2, <1>3, <1>4, <1>5, StillInOrder DEF Orderly
  <1>7. QED
    BY <1>6, ReleaseInOrder DEF event


-----------------------------------------------------------------------------
(* What is not lost.                                                        *)

\* Frame m has left or is buffered.
Has(events, pending, m) == Holds(pending, m) \/ \E i \in DOMAIN events : Holds(events[i], m)

LEMMA ReleaseHas ==
    ASSUME NEW events \in Seq(Events), NEW pending \in Events
    PROVE  \A m : Has(events, pending, m) => Has(Append(events, pending), NoEvent, m)
  <1> DEFINE more == Append(events, pending)
  <1>1. /\ DOMAIN more = 1 .. (Len(events) + 1) /\ Len(events) \in Nat
        /\ DOMAIN events = 1 .. Len(events)
        /\ \A i \in 1 .. Len(events) : more[i] = events[i]
        /\ more[Len(events) + 1] = pending
    BY Behind
  <1>2. Len(events) + 1 \in DOMAIN more /\ \A i \in DOMAIN events : i \in DOMAIN more
    BY <1>1
  <1> HIDE DEF more
  <1>3. \A m : Has(events, pending, m) => Has(more, NoEvent, m)
    BY <1>1, <1>2 DEF Has
  <1>4. QED
    BY <1>3 DEF more

LEMMA AppendHas ==
    ASSUME NEW events \in Seq(Events), NEW event \in Events, NEW pending
    PROVE  \A m : Has(events, pending, m) \/ Holds(event, m) => Has(Append(events, event), pending, m)
  <1> DEFINE more == Append(events, event)
  <1>1. /\ DOMAIN more = 1 .. (Len(events) + 1) /\ Len(events) \in Nat
        /\ DOMAIN events = 1 .. Len(events)
        /\ \A i \in 1 .. Len(events) : more[i] = events[i]
        /\ more[Len(events) + 1] = event
    BY Behind
  <1>2. Len(events) + 1 \in DOMAIN more /\ \A i \in DOMAIN events : i \in DOMAIN more
    BY <1>1
  <1> HIDE DEF more
  <1>3. \A m : Has(events, pending, m) \/ Holds(event, m) => Has(more, pending, m)
    BY <1>1, <1>2 DEF Has
  <1>4. QED
    BY <1>3 DEF more

LEMMA TokenHas ==
    ASSUME NEW events, NEW pending \in Events, NEW n \in Nat
    PROVE  \A m : Has(events, pending, m) \/ m = n + 1 =>
              Has(events, Event(n + 1, "token", pending.ids \o <<n + 1>>), m)
  <1> DEFINE old == pending.ids
             ids == old \o <<n + 1>>
             batch == Event(n + 1, "token", ids)
  <1>1. old \in Seq(Nat) /\ n + 1 \in Nat
    BY DEF Events
  <1>2. /\ DOMAIN ids = 1 .. (Len(old) + 1) /\ Len(old) \in Nat
        /\ DOMAIN old = 1 .. Len(old)
        /\ \A k \in 1 .. Len(old) : ids[k] = old[k]
        /\ ids[Len(old) + 1] = n + 1
    BY <1>1, Behind
  <1>3. batch.ids = ids
    BY DEF Event
  <1>4. Len(old) + 1 \in DOMAIN ids /\ \A k \in DOMAIN old : k \in DOMAIN ids
    BY <1>2
  <1> HIDE DEF batch, ids
  <1>5. \A m : Holds(pending, m) \/ m = n + 1 => Holds(batch, m)
    BY <1>2, <1>3, <1>4 DEF Holds
  <1>6. \A m : Has(events, pending, m) \/ m = n + 1 => Has(events, batch, m)
    BY <1>5 DEF Has
  <1>7. QED
    BY <1>6 DEF batch, ids

\* Nothing is held by the empty buffer.
LEMMA NoEventHolds ==
    \A m : ~Holds(NoEvent, m)
  BY EventTypes DEF Holds

-----------------------------------------------------------------------------
(* The calls.                                                               *)

Released == IF coord.pending = NoEvent THEN emitted ELSE Append(emitted, coord.pending)
Batch(n) == Event(n, "token", coord.pending.ids \o <<n>>)

\* A flush of the buffer, alone or before a terminal.
LEMMA ReleasedIs ==
    ASSUME TypeOK
    PROVE  /\ FlushPending(coord).coord = [coord EXCEPT !.pending = NoEvent, !.window = FALSE]
           /\ emitted \o FlushPending(coord).out = Released
           /\ Released \in Seq(Events)
           /\ FlushPending(coord).out \in Seq(Events)
  <1>1. coord.pending \in Events /\ emitted \in Seq(Events)
    BY DEF TypeOK, Coordinators
  <1>2. emitted \o <<>> = emitted
    BY <1>1
  <1>3. /\ emitted \o <<coord.pending>> = Append(emitted, coord.pending)
        /\ Append(emitted, coord.pending) \in Seq(Events)
    BY <1>1
  <1>4. <<coord.pending>> \in Seq(Events) /\ <<>> \in Seq(Events)
    BY <1>1
  <1>5. /\ FlushPending(coord).coord = [coord EXCEPT !.pending = NoEvent, !.window = FALSE]
        /\ FlushPending(coord).out = IF coord.pending = NoEvent THEN <<>> ELSE <<coord.pending>>
    BY DEF FlushPending, Outcome
  <1>6. QED
    BY <1>1, <1>2, <1>3, <1>4, <1>5 DEF Released

\* Two flushes in a row, and an event behind a flush.
LEMMA Concat ==
    ASSUME NEW s \in Seq(Events), NEW t \in Seq(Events), NEW x \in Events
    PROVE  /\ s \o (t \o <<x>>) = Append(s \o t, x)
           /\ s \o Append(t, x) = Append(s \o t, x)
           /\ t \o <<>> = t
  OBVIOUS


\* push() of the n-th event.
LEMMA PushCases ==
    ASSUME TypeOK, NEW kind \in {"token", "state", "completed"}, PushNext(kind),
           NEW n, n = Len(pushed) + 1
    PROVE  /\ coord' \in Coordinators
           /\ \/ coord.terminated /\ coord' = coord /\ emitted' = emitted
              \/ /\ ~coord.terminated /\ kind = "token"
                 /\ Len(coord.pending.ids) + 1 < MaxBatch
                 /\ coord'.pending = Batch(n) /\ coord'.window = TRUE
                 /\ coord'.terminal = coord.terminal /\ coord'.terminated = coord.terminated
                 /\ emitted' = emitted
              \/ /\ ~coord.terminated /\ kind = "token"
                 /\ coord'.pending = NoEvent
                 /\ coord'.terminal = coord.terminal /\ coord'.terminated = coord.terminated
                 /\ emitted' = Append(emitted, Batch(n))
              \/ /\ ~coord.terminated /\ kind = "completed"
                 /\ coord'.pending = NoEvent
                 /\ coord'.terminal = Event(n, kind, <<n>>) /\ coord'.terminated = coord.terminated
                 /\ emitted' = Released
              \/ /\ ~coord.terminated /\ kind = "state"
                 /\ coord'.pending = NoEvent
                 /\ coord'.terminal = coord.terminal /\ coord'.terminated = coord.terminated
                 /\ emitted' = Append(Released, Event(n, kind, <<n>>))
  <1> DEFINE event == Event(n, kind, <<n>>)
  <1>0. /\ coord \in Coordinators /\ emitted \in Seq(Events) /\ n \in Nat
        /\ coord.pending \in Events /\ coord.pending.ids \in Seq(Nat)
    BY DEF TypeOK, Coordinators, Events
  <1>1. Takes(Push(coord, event))
    BY DEF PushNext
  <1>2. event \in Events /\ event.kind = kind /\ event.ids = <<n>> /\ event.seq = n
    BY <1>0, EventTypes DEF Event, EventKinds, TerminalKinds
  <1>3. (IsTerminal(event) <=> kind = "completed")
    BY <1>2 DEF IsTerminal, TerminalKinds
  <1> HIDE DEF event
  <1>4. CASE coord.terminated
    <2>1. Push(coord, event) = Outcome(coord, <<>>)
      BY <1>4 DEF Push
    <2>2. coord' = coord /\ emitted' = emitted \o <<>>
      BY <1>1, <2>1 DEF Takes, Outcome
    <2>3. QED
      BY <1>0, <1>4, <2>2
  <1>5. CASE ~coord.terminated /\ kind = "token"
    <2> DEFINE batch == Batch(n)
               held == [coord EXCEPT !.pending = batch]
    <2>1. batch = Event(n, "token", coord.pending.ids \o event.ids)
      BY <1>2 DEF Batch
    <2>2. /\ coord.pending.ids \o <<n>> \in Seq(Nat)
          /\ Len(coord.pending.ids \o <<n>>) = Len(coord.pending.ids) + 1
      BY <1>0
    <2>3. batch \in Events /\ Len(batch.ids) = Len(coord.pending.ids) + 1 /\ batch # NoEvent
      BY <1>0, <2>2, EventTypes DEF Batch, Event, NoEvent, EventKinds
    <2>4. /\ held \in Coordinators /\ held.pending = batch
          /\ held.terminal = coord.terminal /\ held.terminated = coord.terminated
      BY <1>0, <2>3 DEF Coordinators
    <2>5. Push(coord, event) = IF Len(batch.ids) >= MaxBatch THEN FlushPending(held)
                               ELSE Outcome([held EXCEPT !.window = TRUE], <<>>)
      BY <1>2, <1>5, <2>1 DEF Push, Accumulate
    <2> HIDE DEF batch, held
    <2>6. CASE Len(batch.ids) >= MaxBatch
      <3>1. FlushPending(held) = Outcome([held EXCEPT !.pending = NoEvent, !.window = FALSE], <<batch>>)
        BY <2>3, <2>4 DEF FlushPending
      <3>2. /\ coord' = [held EXCEPT !.pending = NoEvent, !.window = FALSE]
            /\ emitted' = emitted \o <<batch>>
        BY <1>1, <2>5, <2>6, <3>1 DEF Takes, Outcome
      <3>3. emitted' = Append(emitted, batch)
        BY <1>0, <2>3, <3>2
      <3>4. /\ coord' \in Coordinators /\ coord'.pending = NoEvent
            /\ coord'.terminal = coord.terminal /\ coord'.terminated = coord.terminated
        BY <2>4, <3>2, EventTypes DEF Coordinators
      <3>5. QED
        BY <1>5, <3>3, <3>4 DEF batch
    <2>7. CASE ~(Len(batch.ids) >= MaxBatch)
      <3>0. Push(coord, event) = Outcome([held EXCEPT !.window = TRUE], <<>>)
        BY <2>5, <2>7
      <3>1. coord' = [held EXCEPT !.window = TRUE] /\ emitted' = emitted \o <<>>
        BY <1>1, <3>0 DEF Takes, Outcome
      <3>2. Len(coord.pending.ids) + 1 < MaxBatch
        BY <1>0, <2>2, <2>3, <2>7, MaxBatchAssumption
      <3>3. /\ coord' \in Coordinators /\ coord'.pending = batch /\ coord'.window = TRUE
            /\ coord'.terminal = coord.terminal /\ coord'.terminated = coord.terminated
        BY <2>4, <3>1 DEF Coordinators
      <3>4. emitted' = emitted
        BY <1>0, <3>1
      <3>5. QED
        BY <1>5, <3>2, <3>3, <3>4 DEF batch
    <2>8. QED
      BY <2>6, <2>7
  <1>6. CASE ~coord.terminated /\ kind # "token"
    <2> DEFINE fc == FlushPending(coord).coord
               fo == FlushPending(coord).out
    <2>1. /\ fc \in Coordinators /\ fc.pending = NoEvent /\ fc.terminal = coord.terminal
          /\ fc.terminated = coord.terminated
          /\ emitted \o fo = Released /\ fo \in Seq(Events)
      <3>1. fc = [coord EXCEPT !.pending = NoEvent, !.window = FALSE]
        BY ReleasedIs
      <3>2. emitted \o fo = Released /\ fo \in Seq(Events)
        BY ReleasedIs
      <3> HIDE DEF fc, fo
      <3>3. QED
        BY <1>0, <3>1, <3>2, EventTypes DEF Coordinators
    <2>2. CASE kind = "completed"
      <3>1. Push(coord, event) = Outcome([fc EXCEPT !.terminal = event, !.grace = TRUE], fo)
        BY <1>2, <1>3, <1>6, <2>2 DEF Push
      <3> HIDE DEF fc, fo
      <3>2. /\ coord' = [fc EXCEPT !.terminal = event, !.grace = TRUE]
            /\ emitted' = emitted \o fo
        BY <1>1, <3>1 DEF Takes, Outcome
      <3>3. /\ coord' \in Coordinators /\ coord'.pending = NoEvent
            /\ coord'.terminal = event /\ coord'.terminated = coord.terminated
        BY <1>2, <2>1, <3>2 DEF Coordinators
      <3>4. QED
        BY <1>6, <2>1, <2>2, <3>2, <3>3 DEF event
    <2>3. CASE kind = "state"
      <3>1. Push(coord, event) = Outcome(fc, Append(fo, event))
        BY <1>2, <1>3, <1>6, <2>3 DEF Push
      <3> HIDE DEF fc, fo
      <3>2. coord' = fc /\ emitted' = emitted \o Append(fo, event)
        BY <1>1, <3>1 DEF Takes, Outcome
      <3>3. emitted' = Append(Released, event)
        BY <1>0, <1>2, <2>1, <3>2, Concat
      <3>4. QED
        BY <1>6, <2>1, <2>3, <3>2, <3>3 DEF event
    <2>4. QED
      BY <1>6, <2>2, <2>3
  <1>7. QED
    BY <1>4, <1>5, <1>6

\* The timers, and flush(): what was buffered leaves or stays, and the terminal leaves or
\* there is none.
LEMMA OtherCases ==
    ASSUME TypeOK, WindowFires \/ GraceFires \/ FlushCalled
    PROVE  /\ coord' \in Coordinators /\ pushed' = pushed
           /\ \/ /\ coord'.pending = NoEvent /\ coord'.terminal = coord.terminal
                 /\ coord'.terminated = coord.terminated /\ emitted' = Released
              \/ /\ coord'.pending = coord.pending /\ coord'.window = coord.window
                 /\ coord'.terminal = coord.terminal
                 /\ coord'.terminated = coord.terminated /\ emitted' = emitted
              \/ /\ coord'.pending = coord.pending /\ coord'.terminal = NoEvent
                 /\ coord.terminal # NoEvent
                 /\ coord'.terminated = TRUE /\ emitted' = Append(emitted, coord.terminal)
              \/ /\ coord'.pending = NoEvent /\ coord'.terminal = NoEvent
                 /\ coord.terminal # NoEvent
                 /\ coord'.terminated = TRUE /\ emitted' = Append(Released, coord.terminal)
  <1> DEFINE fc == FlushPending(coord).coord
             fo == FlushPending(coord).out
  <1>0. coord \in Coordinators /\ emitted \in Seq(Events) /\ coord.terminal \in Events
    BY DEF TypeOK, Coordinators
  <1>1. /\ fc = [coord EXCEPT !.pending = NoEvent, !.window = FALSE]
        /\ emitted \o fo = Released /\ fo \in Seq(Events)
    BY ReleasedIs
  <1>2. /\ fc \in Coordinators /\ fc.pending = NoEvent /\ fc.terminal = coord.terminal
        /\ fc.terminated = coord.terminated
    <2> HIDE DEF fc, fo
    <2>1. QED
      BY <1>0, <1>1, EventTypes DEF Coordinators
  <1>3. ASSUME NEW c \in Coordinators, c.terminal = coord.terminal
        PROVE  /\ EmitTerminalNow(c).coord \in Coordinators
               /\ EmitTerminalNow(c).coord.pending = c.pending
               /\ coord.terminal = NoEvent =>
                     /\ EmitTerminalNow(c).coord = [c EXCEPT !.grace = FALSE]
                     /\ EmitTerminalNow(c).out = <<>>
               /\ coord.terminal # NoEvent =>
                     /\ EmitTerminalNow(c).coord.terminal = NoEvent
                     /\ EmitTerminalNow(c).coord.terminated = TRUE
                     /\ EmitTerminalNow(c).out = <<coord.terminal>>
    BY <1>3, EventTypes DEF EmitTerminalNow, Outcome, Coordinators
  <1>4. CASE WindowFires
    <2>1. coord' = fc /\ emitted' = emitted \o fo /\ pushed' = pushed
      BY <1>4 DEF WindowFires, Takes
    <2> HIDE DEF fc, fo
    <2>2. QED
      BY <1>1, <1>2, <2>1
  <1>5. CASE GraceFires
    <2> DEFINE tc == EmitTerminalNow(coord).coord
               to == EmitTerminalNow(coord).out
    <2>1. coord' = tc /\ emitted' = emitted \o to /\ pushed' = pushed
      BY <1>5 DEF GraceFires, Takes
    <2>2. CASE coord.terminal = NoEvent
      <3>1. tc = [coord EXCEPT !.grace = FALSE] /\ to = <<>>
        BY <1>0, <1>3, <2>2
      <3> HIDE DEF tc, to
      <3>2. emitted' = emitted
        BY <1>0, <2>1, <3>1
      <3>3. /\ coord' \in Coordinators /\ coord'.pending = coord.pending
            /\ coord'.window = coord.window
            /\ coord'.terminal = coord.terminal /\ coord'.terminated = coord.terminated
        BY <1>0, <2>1, <3>1 DEF Coordinators
      <3>4. QED
        BY <2>1, <3>2, <3>3
    <2>3. CASE coord.terminal # NoEvent
      <3>1. /\ tc \in Coordinators /\ tc.pending = coord.pending /\ tc.terminal = NoEvent
            /\ tc.terminated = TRUE /\ to = <<coord.terminal>>
        BY <1>0, <1>3, <2>3
      <3> HIDE DEF tc, to
      <3>2. emitted' = Append(emitted, coord.terminal)
        BY <1>0, <2>1, <3>1
      <3>3. QED
        BY <2>1, <2>3, <3>1, <3>2
    <2>4. QED
      BY <2>2, <2>3
  <1>6. CASE FlushCalled
    <2> DEFINE tc == EmitTerminalNow(fc).coord
               to == EmitTerminalNow(fc).out
    <2>1. coord' = tc /\ emitted' = emitted \o (fo \o to) /\ pushed' = pushed
      BY <1>6 DEF FlushCalled, Flush, Takes, Outcome
    <2>2. CASE coord.terminal = NoEvent
      <3>1. tc = [fc EXCEPT !.grace = FALSE] /\ to = <<>>
        BY <1>2, <1>3, <2>2
      <3> HIDE DEF tc, to, fc, fo
      <3>2. emitted' = Released
        BY <1>1, <2>1, <3>1, Concat, <1>0
      <3>3. /\ coord' \in Coordinators /\ coord'.pending = NoEvent
            /\ coord'.terminal = coord.terminal /\ coord'.terminated = coord.terminated
        BY <1>2, <2>1, <3>1 DEF Coordinators
      <3>4. QED
        BY <2>1, <3>2, <3>3
    <2>3. CASE coord.terminal # NoEvent
      <3>1. /\ tc \in Coordinators /\ tc.pending = NoEvent /\ tc.terminal = NoEvent
            /\ tc.terminated = TRUE /\ to = <<coord.terminal>>
        BY <1>2, <1>3, <2>3
      <3> HIDE DEF tc, to, fc, fo
      <3>2. emitted' = Append(Released, coord.terminal)
        BY <1>0, <1>1, <2>1, <3>1, Concat
      <3>3. QED
        BY <2>1, <2>3, <3>1, <3>2
    <2>4. QED
      BY <2>2, <2>3
  <1>7. QED
    BY <1>4, <1>5, <1>6


-----------------------------------------------------------------------------
(* The inductive invariant.                                                 *)

\* Orderly in the words of the invariant.
WasPushed(events, n) ==
    \A i \in DOMAIN events :
        IsTerminal(events[i]) \/ \A k \in DOMAIN events[i].ids : events[i].ids[k] \in 1 .. n

LEMMA OrderlyIs ==
    ASSUME NEW events \in Seq(Events), NEW pending \in Events, ~IsTerminal(pending), NEW n \in Nat
    PROVE  Orderly(events, pending, n) <=>
             InOrder(Append(events, pending)) /\ WasPushed(Append(events, pending), n)
  <1> DEFINE more == Append(events, pending)
  <1>1. /\ DOMAIN more = 1 .. (Len(events) + 1) /\ Len(events) \in Nat
        /\ DOMAIN events = 1 .. Len(events)
        /\ \A i \in 1 .. Len(events) : more[i] = events[i]
        /\ more[Len(events) + 1] = pending
    BY Behind
  <1>2. InOrder(more) <=> InOrder(events) /\ Increasing(pending) /\ Comes(events, pending)
    BY InOrderAppend
  <1> HIDE DEF more
  <1>3. /\ Len(events) + 1 \in DOMAIN more
        /\ \A i \in DOMAIN events : i \in DOMAIN more
        /\ \A i \in DOMAIN more : i \in DOMAIN events \/ i = Len(events) + 1
    BY <1>1
  <1>4. WasPushed(more, n) <=> /\ WasPushed(events, n)
                               /\ \A k \in DOMAIN pending.ids : pending.ids[k] \in 1 .. n
    <2>1. ASSUME WasPushed(more, n)
          PROVE  /\ WasPushed(events, n)
                 /\ \A k \in DOMAIN pending.ids : pending.ids[k] \in 1 .. n
      BY <1>1, <1>3, <2>1 DEF WasPushed
    <2>2. ASSUME WasPushed(events, n), \A k \in DOMAIN pending.ids : pending.ids[k] \in 1 .. n
          PROVE  WasPushed(more, n)
      BY <1>1, <1>3, <2>2 DEF WasPushed
    <2>3. QED
      BY <2>1, <2>2
  <1>5. Orderly(events, pending, n) <=> InOrder(more) /\ WasPushed(more, n)
    BY <1>2, <1>4 DEF Orderly, WasPushed
  <1>6. QED
    BY <1>5 DEF more

\* What the invariant says of the present state.
LEMMA InvParts ==
    ASSUME CoalescingIInv
    PROVE  /\ TypeOK /\ Len(pushed) \in Nat /\ DOMAIN pushed = 1 .. Len(pushed)
           /\ coord.pending \in Events /\ coord.terminal \in Events /\ ~IsTerminal(coord.pending)
           /\ Orderly(emitted, coord.pending, Len(pushed))
  <1>1. /\ TypeOK /\ Len(pushed) \in Nat /\ DOMAIN pushed = 1 .. Len(pushed)
        /\ emitted \in Seq(Events) /\ coord.pending \in Events /\ coord.terminal \in Events
    BY DEF CoalescingIInv, CoalescingInv, TypeOK, Coordinators
  <1>2. ~IsTerminal(coord.pending)
    BY EventTypes DEF CoalescingIInv, IsTerminal, TerminalKinds
  <1>3. InOrder(Append(emitted, coord.pending))
    BY DEF CoalescingIInv, CoalescingInv, CarriedInOrder, Leaving
  <1>4. WasPushed(Append(emitted, coord.pending), Len(pushed))
    BY <1>1 DEF CoalescingIInv, CarriedWasPushed, Leaving, WasPushed
  <1>5. QED
    BY <1>1, <1>2, <1>3, <1>4, OrderlyIs

\* What has to be shown of the next state.
LEMMA InvNext ==
    ASSUME coord' \in Coordinators, pushed' \in Seq(EventKinds),
           Orderly(emitted', coord'.pending, Len(pushed')),
           Len(coord'.pending.ids) < MaxBatch,
           coord'.pending # NoEvent /\ ~coord'.terminated => coord'.window,
           coord'.pending = NoEvent \/ (coord'.pending.kind = "token" /\ coord'.pending.ids # <<>>),
           coord'.terminal = NoEvent \/ IsTerminal(coord'.terminal),
           NothingLost'
    PROVE  CoalescingIInv'
  <1>1. /\ emitted' \in Seq(Events) /\ coord'.pending \in Events /\ ~IsTerminal(coord'.pending)
        /\ Len(pushed') \in Nat /\ DOMAIN pushed' = 1 .. Len(pushed')
    BY DEF Orderly
  <1>2. /\ InOrder(Append(emitted', coord'.pending))
        /\ WasPushed(Append(emitted', coord'.pending), Len(pushed'))
    BY <1>1, OrderlyIs
  <1>3. CarriedInOrder'
    BY <1>2 DEF CarriedInOrder, Leaving
  <1>4. CarriedWasPushed'
    BY <1>1, <1>2 DEF CarriedWasPushed, Leaving, WasPushed
  <1>5. TypeOK' /\ BufferIsBounded'
    BY <1>1 DEF TypeOK, BufferIsBounded
  <1>6. (coord.terminal = NoEvent \/ IsTerminal(coord.terminal))'
    OBVIOUS
  <1>7. QED
    BY <1>3, <1>4, <1>5, <1>6 DEF CoalescingIInv, CoalescingInv

\* The buffer leaves, if there is anything in it.
LEMMA ReleasedKeeps ==
    ASSUME CoalescingIInv
    PROVE  /\ Released \in Seq(Events)
           /\ Orderly(Released, NoEvent, Len(pushed))
           /\ \A m : Has(emitted, coord.pending, m) => Has(Released, NoEvent, m)
  <1>1. /\ Orderly(emitted, coord.pending, Len(pushed)) /\ TypeOK
        /\ emitted \in Seq(Events) /\ coord.pending \in Events
    BY InvParts DEF Orderly
  <1>2. CASE coord.pending = NoEvent
    BY <1>1, <1>2 DEF Released
  <1>3. CASE coord.pending # NoEvent
    BY <1>1, <1>3, ReleaseInOrder, ReleaseHas, ReleasedIs DEF Released
  <1>4. QED
    BY <1>2, <1>3

\* NothingLost in terms of Has.
LEMMA LostIs ==
    ASSUME CoalescingIInv, ~coord.terminated, NEW m \in DOMAIN pushed
    PROVE  IF pushed[m] \in TerminalKinds
           THEN \E k \in m .. Len(pushed) : coord.terminal = Event(k, pushed[k], <<k>>)
           ELSE Has(emitted, coord.pending, m)
  BY DEF CoalescingIInv, NothingLost, Has

\* No event is pushed, and what is carried stays.
LEMMA StillThere ==
    ASSUME CoalescingIInv, pushed' = pushed, coord'.terminated = coord.terminated,
           coord'.terminal = coord.terminal,
           \A m : Has(emitted, coord.pending, m) => Has(emitted', coord'.pending, m)
    PROVE  NothingLost'
  <1> SUFFICES ASSUME ~coord'.terminated, NEW m \in DOMAIN pushed'
               PROVE  IF pushed'[m] \in TerminalKinds
                      THEN \E k \in m .. Len(pushed') : coord'.terminal = Event(k, pushed'[k], <<k>>)
                      ELSE Has(emitted', coord'.pending, m)
    BY DEF NothingLost, Has
  <1>1. QED
    BY LostIs

\* An event is pushed: what is carried stays, and the event is carried or waits.
LEMMA OneMoreThere ==
    ASSUME CoalescingIInv, ~coord.terminated, NEW kind \in EventKinds, NEW n, n = Len(pushed) + 1,
           pushed' = Append(pushed, kind),
           \A m : Has(emitted, coord.pending, m) => Has(emitted', coord'.pending, m),
           kind \in TerminalKinds => coord'.terminal = Event(n, kind, <<n>>),
           kind \notin TerminalKinds =>
              coord'.terminal = coord.terminal /\ Has(emitted', coord'.pending, n)
    PROVE  NothingLost'
  <1>0. pushed \in Seq(EventKinds) /\ Len(pushed) \in Nat /\ DOMAIN pushed = 1 .. Len(pushed)
    BY DEF CoalescingIInv, CoalescingInv, TypeOK
  <1>1. /\ DOMAIN pushed' = 1 .. n /\ Len(pushed') = n /\ n \in Nat
        /\ \A m \in 1 .. Len(pushed) : pushed'[m] = pushed[m]
        /\ pushed'[n] = kind
    BY <1>0, Behind
  <1> SUFFICES ASSUME NEW m \in DOMAIN pushed'
               PROVE  IF pushed'[m] \in TerminalKinds
                      THEN \E k \in m .. Len(pushed') : coord'.terminal = Event(k, pushed'[k], <<k>>)
                      ELSE Has(emitted', coord'.pending, m)
    BY DEF NothingLost, Has
  <1>2. m \in 1 .. Len(pushed) \/ m = n
    BY <1>0, <1>1
  <1>3. CASE kind \in TerminalKinds
    <2>1. n \in m .. Len(pushed') /\ coord'.terminal = Event(n, pushed'[n], <<n>>)
      BY <1>0, <1>1, <1>2, <1>3
    <2>2. CASE m = n
      BY <1>1, <1>3, <2>1, <2>2
    <2>3. CASE m \in 1 .. Len(pushed)
      BY <1>0, <1>1, <2>1, <2>3, LostIs
    <2>4. QED
      BY <1>2, <2>2, <2>3
  <1>4. CASE kind \notin TerminalKinds
    <2>1. CASE m = n
      BY <1>1, <1>4, <2>1
    <2>2. CASE m \in 1 .. Len(pushed) /\ pushed[m] \notin TerminalKinds
      BY <1>0, <1>1, <2>2, LostIs
    <2>3. CASE m \in 1 .. Len(pushed) /\ pushed[m] \in TerminalKinds
      <3>1. PICK k \in m .. Len(pushed) : coord.terminal = Event(k, pushed[k], <<k>>)
        BY <1>0, <2>3, LostIs
      <3>2. k \in m .. Len(pushed') /\ pushed'[k] = pushed[k]
        BY <1>0, <1>1, <2>3, <3>1
      <3>3. QED
        BY <1>1, <1>4, <2>3, <3>1, <3>2
    <2>4. QED
      BY <1>2, <2>1, <2>2, <2>3
  <1>5. QED
    BY <1>3, <1>4


LEMMA PushStep ==
    ASSUME CoalescingIInv, NEW kind \in {"token", "state", "completed"}, PushNext(kind)
    PROVE  CoalescingIInv'
  <1> DEFINE n == Len(pushed) + 1
  <1>1. /\ TypeOK /\ Len(pushed) \in Nat /\ coord.pending \in Events
        /\ emitted \in Seq(Events) /\ coord.pending.ids \in Seq(Nat)
        /\ Orderly(emitted, coord.pending, Len(pushed))
    BY InvParts DEF TypeOK, Events
  <1>2. kind \in EventKinds /\ (kind \in TerminalKinds <=> kind = "completed")
    BY DEF EventKinds, TerminalKinds
  <1>3. /\ pushed' = Append(pushed, kind) /\ pushed' \in Seq(EventKinds) /\ Len(pushed') = n
        /\ n \in Nat
    BY <1>1, <1>2 DEF PushNext, TypeOK
  <1>4. /\ Len(coord.pending.ids) < MaxBatch /\ 0 < MaxBatch /\ Len(<<>>) = 0
        /\ coord.pending # NoEvent /\ ~coord.terminated => coord.window
        /\ coord.pending = NoEvent \/ (coord.pending.kind = "token" /\ coord.pending.ids # <<>>)
        /\ coord.terminal = NoEvent \/ IsTerminal(coord.terminal)
    BY MaxBatchAssumption DEF CoalescingIInv, CoalescingInv, BufferIsBounded
  <1>5. /\ Released \in Seq(Events) /\ Orderly(Released, NoEvent, Len(pushed))
        /\ \A m : Has(emitted, coord.pending, m) => Has(Released, NoEvent, m)
    BY ReleasedKeeps
  <1>6. /\ Batch(n) \in Events /\ Batch(n).kind = "token" /\ Batch(n).ids # <<>>
        /\ Len(Batch(n).ids) = Len(coord.pending.ids) + 1
        /\ Orderly(emitted, Batch(n), n)
        /\ \A m : Has(emitted, coord.pending, m) \/ m = n => Has(emitted, Batch(n), m)
    <2>1. Orderly(emitted, Batch(n), n)
      BY <1>1, TokenInOrder DEF Batch
    <2>2. \A m : Has(emitted, coord.pending, m) \/ m = n => Has(emitted, Batch(n), m)
      BY <1>1, TokenHas DEF Batch
    <2>3. /\ coord.pending.ids \o <<n>> # <<>>
          /\ Len(coord.pending.ids \o <<n>>) = Len(coord.pending.ids) + 1
      BY <1>1, <1>3
    <2>4. Batch(n) \in Events /\ Batch(n).kind = "token" /\ Batch(n).ids = coord.pending.ids \o <<n>>
      BY <2>1 DEF Batch, Event, Orderly
    <2>5. QED
      BY <2>1, <2>2, <2>3, <2>4
  <1> HIDE DEF n
  <1>7. /\ coord' \in Coordinators
        /\ \/ coord.terminated /\ coord' = coord /\ emitted' = emitted
           \/ /\ ~coord.terminated /\ kind = "token"
              /\ Len(coord.pending.ids) + 1 < MaxBatch
              /\ coord'.pending = Batch(n) /\ coord'.window = TRUE
              /\ coord'.terminal = coord.terminal /\ coord'.terminated = coord.terminated
              /\ emitted' = emitted
           \/ /\ ~coord.terminated /\ kind = "token"
              /\ coord'.pending = NoEvent
              /\ coord'.terminal = coord.terminal /\ coord'.terminated = coord.terminated
              /\ emitted' = Append(emitted, Batch(n))
           \/ /\ ~coord.terminated /\ kind = "completed"
              /\ coord'.pending = NoEvent
              /\ coord'.terminal = Event(n, kind, <<n>>) /\ coord'.terminated = coord.terminated
              /\ emitted' = Released
           \/ /\ ~coord.terminated /\ kind = "state"
              /\ coord'.pending = NoEvent
              /\ coord'.terminal = coord.terminal /\ coord'.terminated = coord.terminated
              /\ emitted' = Append(Released, Event(n, kind, <<n>>))
    BY <1>1, PushCases DEF n
  <1>8. CASE coord.terminated /\ coord' = coord /\ emitted' = emitted
    <2>1. Orderly(emitted', coord'.pending, n)
      BY <1>1, <1>8, StillInOrder DEF n
    <2>2. NothingLost'
      BY <1>8 DEF NothingLost
    <2>3. QED
      BY <1>3, <1>4, <1>7, <1>8, <2>1, <2>2, InvNext
  <1>9. CASE /\ ~coord.terminated /\ kind = "token"
             /\ Len(coord.pending.ids) + 1 < MaxBatch
             /\ coord'.pending = Batch(n) /\ coord'.window = TRUE
             /\ coord'.terminal = coord.terminal /\ coord'.terminated = coord.terminated
             /\ emitted' = emitted
    <2>1. NothingLost'
      BY <1>2, <1>3, <1>6, <1>9, OneMoreThere DEF n
    <2>2. QED
      BY <1>3, <1>4, <1>6, <1>7, <1>9, <2>1, InvNext
  <1>10. CASE /\ ~coord.terminated /\ kind = "token"
              /\ coord'.pending = NoEvent
              /\ coord'.terminal = coord.terminal /\ coord'.terminated = coord.terminated
              /\ emitted' = Append(emitted, Batch(n))
    <2>1. Orderly(emitted', coord'.pending, n)
      BY <1>6, <1>10, ReleaseInOrder
    <2>2. \A m : Has(emitted, coord.pending, m) \/ m = n => Has(emitted', coord'.pending, m)
      BY <1>1, <1>6, <1>10, ReleaseHas
    <2>3. NothingLost'
      BY <1>2, <1>3, <1>10, <2>2, OneMoreThere DEF n
    <2>4. QED
      BY <1>3, <1>4, <1>7, <1>10, <2>1, <2>3, InvNext, EventTypes
  <1>11. CASE /\ ~coord.terminated /\ kind = "completed"
              /\ coord'.pending = NoEvent
              /\ coord'.terminal = Event(n, kind, <<n>>) /\ coord'.terminated = coord.terminated
              /\ emitted' = Released
    <2>1. Orderly(emitted', coord'.pending, n)
      BY <1>5, <1>11, StillInOrder DEF n
    <2>2. NothingLost'
      BY <1>2, <1>3, <1>5, <1>11, OneMoreThere DEF n
    <2>3. IsTerminal(coord'.terminal)
      BY <1>2, <1>11 DEF IsTerminal, Event
    <2>4. QED
      BY <1>3, <1>4, <1>7, <1>11, <2>1, <2>2, <2>3, InvNext, EventTypes
  <1>12. CASE /\ ~coord.terminated /\ kind = "state"
              /\ coord'.pending = NoEvent
              /\ coord'.terminal = coord.terminal /\ coord'.terminated = coord.terminated
              /\ emitted' = Append(Released, Event(n, kind, <<n>>))
    <2> DEFINE event == Event(n, "state", <<n>>)
    <2>1. Orderly(emitted', coord'.pending, n)
      BY <1>5, <1>12, StateInOrder DEF n
    <2>2. event \in Events /\ Holds(event, n)
      BY <1>3, EventTypes DEF Event, EventKinds, Holds
    <2> HIDE DEF event
    <2>3. \A m : Has(Released, NoEvent, m) \/ Holds(event, m) =>
             Has(Append(Released, event), NoEvent, m)
      BY <1>5, <2>2, AppendHas
    <2>4. emitted' = Append(Released, event)
      BY <1>12 DEF event
    <2>5. \A m : Has(emitted, coord.pending, m) \/ m = n => Has(emitted', coord'.pending, m)
      BY <1>5, <1>12, <2>2, <2>3, <2>4
    <2>6. NothingLost'
      BY <1>2, <1>3, <1>12, <2>5, OneMoreThere DEF n
    <2>7. QED
      BY <1>3, <1>4, <1>7, <1>12, <2>1, <2>6, InvNext, EventTypes
  <1>13. QED
    BY <1>7, <1>8, <1>9, <1>10, <1>11, <1>12

LEMMA OtherStep ==
    ASSUME CoalescingIInv, WindowFires \/ GraceFires \/ FlushCalled
    PROVE  CoalescingIInv'
  <1>1. /\ TypeOK /\ coord.pending \in Events /\ coord.terminal \in Events
        /\ emitted \in Seq(Events) /\ pushed \in Seq(EventKinds)
        /\ Orderly(emitted, coord.pending, Len(pushed))
    BY InvParts DEF TypeOK
  <1>2. /\ Len(coord.pending.ids) < MaxBatch /\ 0 < MaxBatch /\ Len(<<>>) = 0
        /\ coord.pending # NoEvent /\ ~coord.terminated => coord.window
        /\ coord.pending = NoEvent \/ (coord.pending.kind = "token" /\ coord.pending.ids # <<>>)
        /\ coord.terminal = NoEvent \/ IsTerminal(coord.terminal)
    BY MaxBatchAssumption DEF CoalescingIInv, CoalescingInv, BufferIsBounded
  <1>3. /\ Released \in Seq(Events) /\ Orderly(Released, NoEvent, Len(pushed))
        /\ \A m : Has(emitted, coord.pending, m) => Has(Released, NoEvent, m)
    BY ReleasedKeeps
  <1>4. /\ coord' \in Coordinators /\ pushed' = pushed
        /\ \/ /\ coord'.pending = NoEvent /\ coord'.terminal = coord.terminal
              /\ coord'.terminated = coord.terminated /\ emitted' = Released
           \/ /\ coord'.pending = coord.pending /\ coord'.window = coord.window
              /\ coord'.terminal = coord.terminal
              /\ coord'.terminated = coord.terminated /\ emitted' = emitted
           \/ /\ coord'.pending = coord.pending /\ coord'.terminal = NoEvent
              /\ coord.terminal # NoEvent
              /\ coord'.terminated = TRUE /\ emitted' = Append(emitted, coord.terminal)
           \/ /\ coord'.pending = NoEvent /\ coord'.terminal = NoEvent
              /\ coord.terminal # NoEvent
              /\ coord'.terminated = TRUE /\ emitted' = Append(Released, coord.terminal)
    BY <1>1, OtherCases
  <1>5. CASE /\ coord'.pending = NoEvent /\ coord'.terminal = coord.terminal
             /\ coord'.terminated = coord.terminated /\ emitted' = Released
    <2>1. NothingLost'
      BY <1>3, <1>4, <1>5, StillThere
    <2>2. QED
      BY <1>1, <1>2, <1>3, <1>4, <1>5, <2>1, InvNext, EventTypes
  <1>6. CASE /\ coord'.pending = coord.pending /\ coord'.window = coord.window
             /\ coord'.terminal = coord.terminal
             /\ coord'.terminated = coord.terminated /\ emitted' = emitted
    <2>1. NothingLost'
      BY <1>4, <1>6, StillThere
    <2>2. QED
      BY <1>1, <1>2, <1>4, <1>6, <2>1, InvNext
  <1>7. CASE /\ coord'.pending = coord.pending /\ coord'.terminal = NoEvent
             /\ coord.terminal # NoEvent
             /\ coord'.terminated = TRUE /\ emitted' = Append(emitted, coord.terminal)
    <2>1. NothingLost'
      BY <1>7 DEF NothingLost
    <2>2. Orderly(emitted', coord'.pending, Len(pushed'))
      BY <1>1, <1>2, <1>4, <1>7, TerminalInOrder
    <2>3. QED
      BY <1>1, <1>2, <1>4, <1>7, <2>1, <2>2, InvNext
  <1>8. CASE /\ coord'.pending = NoEvent /\ coord'.terminal = NoEvent
             /\ coord.terminal # NoEvent
             /\ coord'.terminated = TRUE /\ emitted' = Append(Released, coord.terminal)
    <2>1. NothingLost'
      BY <1>8 DEF NothingLost
    <2>2. Orderly(emitted', coord'.pending, Len(pushed'))
      BY <1>1, <1>2, <1>3, <1>4, <1>8, TerminalInOrder
    <2>3. QED
      BY <1>1, <1>2, <1>4, <1>8, <2>1, <2>2, InvNext, EventTypes
  <1>9. QED
    BY <1>4, <1>5, <1>6, <1>7, <1>8

LEMMA CoalescingStep ==
    CoalescingIInv /\ [Next]_vars => CoalescingIInv'
  <1> SUFFICES ASSUME CoalescingIInv, [Next]_vars PROVE CoalescingIInv'
    OBVIOUS
  <1>1. CASE Next
    BY <1>1, PushStep, OtherStep DEF Next
  <1>2. CASE UNCHANGED vars
    BY <1>2 DEF vars, CoalescingIInv, CoalescingInv, TypeOK, CarriedInOrder, Leaving, BufferIsBounded,
                NothingLost, CarriedWasPushed
  <1>3. QED
    BY <1>1, <1>2

LEMMA CoalescingInit ==
    Init => CoalescingIInv
  <1> SUFFICES ASSUME Init PROVE CoalescingIInv
    OBVIOUS
  <1>1. /\ coord.pending = NoEvent /\ coord.terminal = NoEvent /\ pushed = <<>> /\ emitted = <<>>
        /\ Len(NoEvent.ids) = 0
    BY DEF Init, NewCoordinator, NoEvent
  <1>2. TypeOK
    BY EventTypes DEF Init, TypeOK, NewCoordinator, Coordinators
  <1>3. Orderly(emitted, coord.pending, 0)
    <2>1. DOMAIN emitted = {} /\ emitted \in Seq(Events)
      BY <1>1
    <2>2. QED
      BY <1>1, <2>1, EventTypes DEF Orderly, InOrder, Increasing, Comes
  <1>4. InOrder(Leaving) /\ WasPushed(Leaving, 0)
    BY <1>1, <1>2, <1>3, EventTypes, OrderlyIs DEF Leaving, TypeOK
  <1>5. CarriedInOrder /\ CarriedWasPushed
    BY <1>1, <1>4 DEF CarriedInOrder, CarriedWasPushed, WasPushed
  <1>6. BufferIsBounded /\ NothingLost
    BY <1>1, MaxBatchAssumption DEF BufferIsBounded, NothingLost
  <1>7. QED
    BY <1>1, <1>2, <1>5, <1>6 DEF CoalescingIInv, CoalescingInv

\* The inductive invariant of the coordinator holds in every reachable state.
THEOREM CoalescingSafety == Spec => []CoalescingIInv
  BY CoalescingInit, CoalescingStep, PTL DEF Spec

\* For every batch size, whatever timers fire and whenever flush() is called, content
\* reaches the renderer in the order of the runtime, each frame once, the buffer stays
\* below a full batch, and none waits in it without a timer before the end.
THEOREM CoalescingInvAlways == Spec => []CoalescingInv
  <1>1. CoalescingIInv => CoalescingInv
    BY DEF CoalescingIInv
  <1>2. QED
    BY <1>1, CoalescingSafety, PTL

\* Until the terminal leaves, every token and state event that was pushed has been emitted
\* or is in the buffer, and the last terminal that was pushed is the one that waits.
THEOREM NothingLostAlways == Spec => []NothingLost
  <1>1. CoalescingIInv => NothingLost
    BY DEF CoalescingIInv
  <1>2. QED
    BY <1>1, CoalescingSafety, PTL

=============================================================================
