------------------------ MODULE SessionStreamProofs ------------------------
(***************************************************************************)
(* Proofs about the live stream of one session, for every number of        *)
(* frames, every batch size and every bound.  Whatever happens, the first  *)
(* outcome is final, a hub run has an owner, and no token counts twice     *)
(* but one that was still on its way to a view that was adopted.  And as   *)
(* long as nothing comes in from the side (no cancel, no denial, no        *)
(* reopening, no broken connection, and a renderer that subscribes before  *)
(* it prompts) the registry is never behind the renderer, and a renderer   *)
(* that was shown the end was shown the whole turn.                        *)
(***************************************************************************)
EXTENDS SessionStream, FiniteSetTheorems, SequenceTheorems, TLAPS

-----------------------------------------------------------------------------
(* Sequences.                                                               *)

LEMMA PrefixIs ==
    ASSUME NEW S, NEW s \in Seq(S), NEW t \in Seq(S)
    PROVE  IsPrefix(s, t) <=> Len(s) <= Len(t) /\ \A i \in 1 .. Len(s) : s[i] = t[i]
  <1>1. Len(s) \in Nat /\ Len(t) \in Nat
    OBVIOUS
  <1>2. ASSUME Len(s) <= Len(t)
        PROVE  s = SubSeq(t, 1, Len(s)) <=> \A i \in 1 .. Len(s) : s[i] = t[i]
    <2> DEFINE u == SubSeq(t, 1, Len(s))
    <2>1. u \in Seq(S) /\ Len(u) = Len(s) /\ \A i \in 1 .. Len(s) : u[i] = t[i]
      BY <1>1, <1>2
    <2> HIDE DEF u
    <2>2. s = u <=> \A i \in 1 .. Len(s) : s[i] = u[i]
      BY <2>1
    <2>3. QED
      BY <2>1, <2>2 DEF u
  <1>3. QED
    BY <1>2 DEF IsPrefix

LEMMA PrefixFacts ==
    ASSUME NEW S, NEW s \in Seq(S), NEW t \in Seq(S), NEW u \in Seq(S)
    PROVE  /\ IsPrefix(s, s)
           /\ IsPrefix(s, s \o t)
           /\ IsPrefix(s, t) /\ IsPrefix(t, u) => IsPrefix(s, u)
  <1>1. Len(s) \in Nat /\ Len(t) \in Nat /\ Len(u) \in Nat
    OBVIOUS
  <1>2. IsPrefix(s, s)
    BY <1>1, PrefixIs
  <1>3. IsPrefix(s, s \o t)
    <2> DEFINE both == s \o t
    <2>1. both \in Seq(S) /\ Len(both) = Len(s) + Len(t)
      OBVIOUS
    <2>2. \A i \in 1 .. Len(s) : both[i] = s[i]
      OBVIOUS
    <2> HIDE DEF both
    <2>3. IsPrefix(s, both)
      BY <1>1, <2>1, <2>2, PrefixIs
    <2>4. QED
      BY <2>3 DEF both
  <1>4. ASSUME IsPrefix(s, t), IsPrefix(t, u) PROVE IsPrefix(s, u)
    <2>1. Len(s) <= Len(t) /\ \A i \in 1 .. Len(s) : s[i] = t[i]
      BY <1>4, PrefixIs
    <2>2. Len(t) <= Len(u) /\ \A i \in 1 .. Len(t) : t[i] = u[i]
      BY <1>4, PrefixIs
    <2>3. Len(s) <= Len(u) /\ \A i \in 1 .. Len(s) : s[i] = u[i]
      BY <1>1, <2>1, <2>2
    <2>4. QED
      BY <2>3, PrefixIs
  <1>5. QED
    BY <1>2, <1>3, <1>4

LEMMA Joining ==
    ASSUME NEW S, NEW s \in Seq(S)
    PROVE  /\ s \o <<>> = s
           /\ \A t, u \in Seq(S) : s \o (t \o u) = (s \o t) \o u
  OBVIOUS

-----------------------------------------------------------------------------
(* Views and the reducer.                                                   *)

LEMMA EventTypes ==
    /\ NoEvent \in Events /\ ~IsTerminal(NoEvent) /\ NoEvent.ids = <<>> /\ NoEvent.seq = 0
    /\ \A n \in Nat, kind \in EventKinds, ids \in Seq(Nat) :
          /\ Event(n, kind, ids) \in Events
          /\ Event(n, kind, ids).seq = n /\ Event(n, kind, ids).kind = kind
          /\ Event(n, kind, ids).ids = ids
    /\ <<>> \in Seq(Nat)
  BY DEF NoEvent, Events, Event, EventKinds, IsTerminal, TerminalKinds

LEMMA EmptyEvent ==
    ASSUME NEW n \in Nat, NEW kind \in EventKinds
    PROVE  LET e == Event(n, kind, <<>>) IN
           /\ e \in Events /\ e.seq = n /\ e.kind = kind
           /\ IsTerminal(e) <=> kind \in TerminalKinds
  BY DEF Event, Events, IsTerminal

LEMMA ViewFields ==
    ASSUME NEW v \in Views
    PROVE  /\ v.last \in Nat /\ v.terminal \in {"none"} \union TerminalKinds
           /\ v.text \in Seq(Nat) /\ v.items \in Seq(Nat)
  BY DEF Views

\* Two views with the same fields are the same.
LEMMA SameView ==
    ASSUME NEW v \in Views, NEW u \in Views, v.last = u.last, v.terminal = u.terminal,
           v.text = u.text, v.items = u.items
    PROVE  v = u
  BY DEF Views

LEMMA ViewUpdates ==
    ASSUME NEW v \in Views, NEW n \in Nat, NEW k \in {"none"} \union TerminalKinds,
           NEW s \in Seq(Nat)
    PROVE  /\ [v EXCEPT !.last = n] \in Views
           /\ [v EXCEPT !.terminal = k] \in Views
           /\ [v EXCEPT !.text = v.text \o s] \in Views
           /\ [v EXCEPT !.items = v.items \o s] \in Views
  <1>1. v.text \o s \in Seq(Nat) /\ v.items \o s \in Seq(Nat)
    BY ViewFields
  <1>2. QED
    BY <1>1 DEF Views

\* What an event does to a view that is not over and has not seen it.
LEMMA FoldedIs ==
    ASSUME NEW v \in Views, NEW e \in Events, v.terminal = "none", e.seq > v.last
    PROVE  LET f == ReduceEv(v, e) IN
           /\ f \in Views /\ f.last = e.seq
           /\ f.terminal = IF IsTerminal(e) THEN e.kind ELSE "none"
           /\ f.text = IF e.kind = "token" THEN v.text \o e.ids ELSE v.text
           /\ f.items = IF e.kind = "state" THEN v.items \o e.ids ELSE v.items
  <1> DEFINE g == FoldOne(v, e)
             f == ReduceEv(v, e)
  <1>1. /\ e.seq \in Nat /\ e.kind \in EventKinds /\ e.ids \in Seq(Nat) /\ v.last \in Nat
        /\ v.text \in Seq(Nat) /\ v.items \in Seq(Nat)
        /\ IsTerminal(e) <=> e.kind \in TerminalKinds
    BY ViewFields DEF Events, IsTerminal
  <1>2. f = [g EXCEPT !.last = e.seq]
    BY <1>1 DEF ReduceEv
  <1>3. /\ g \in Views
        /\ g.terminal = IF IsTerminal(e) THEN e.kind ELSE "none"
        /\ g.text = IF e.kind = "token" THEN v.text \o e.ids ELSE v.text
        /\ g.items = IF e.kind = "state" THEN v.items \o e.ids ELSE v.items
    <2>1. CASE IsTerminal(e)
      <3>1. g = [v EXCEPT !.terminal = e.kind] /\ e.kind \notin {"token", "state"}
        BY <1>1, <2>1 DEF FoldOne, TerminalKinds
      <3>2. g \in Views
        BY <1>1, <2>1, <3>1, ViewUpdates
      <3>3. QED
        BY <2>1, <3>1, <3>2 DEF Views
    <2>2. CASE ~IsTerminal(e) /\ e.kind = "token"
      <3>1. g = [v EXCEPT !.text = v.text \o e.ids]
        BY <2>2 DEF FoldOne
      <3>2. g \in Views
        BY <1>1, <3>1, ViewUpdates
      <3>3. QED
        BY <2>2, <3>1, <3>2 DEF Views
    <2>3. CASE ~IsTerminal(e) /\ e.kind = "state"
      <3>1. g = [v EXCEPT !.items = v.items \o e.ids]
        BY <2>3 DEF FoldOne
      <3>2. g \in Views
        BY <1>1, <3>1, ViewUpdates
      <3>3. QED
        BY <2>3, <3>1, <3>2 DEF Views
    <2>4. CASE ~IsTerminal(e) /\ e.kind \notin {"token", "state"}
      BY <2>4 DEF FoldOne
    <2>5. QED
      BY <2>1, <2>2, <2>3, <2>4
  <1> HIDE DEF g
  <1>4. f \in Views
    BY <1>1, <1>2, <1>3, ViewUpdates
  <1>5. f.last = e.seq /\ f.terminal = g.terminal /\ f.text = g.text /\ f.items = g.items
    BY <1>2, <1>3 DEF Views
  <1>6. QED
    BY <1>3, <1>4, <1>5

LEMMA CurrentFacts ==
    ASSUME NEW v \in Views, NEW u \in Views, NEW x \in Views
    PROVE  /\ AtLeastAsCurrent(v, v)
           /\ AtLeastAsCurrent(v, u) /\ AtLeastAsCurrent(u, x) => AtLeastAsCurrent(v, x)
  <1>1. /\ v.last \in Nat /\ u.last \in Nat /\ x.last \in Nat
        /\ v.text \in Seq(Nat) /\ u.text \in Seq(Nat) /\ x.text \in Seq(Nat)
        /\ v.items \in Seq(Nat) /\ u.items \in Seq(Nat) /\ x.items \in Seq(Nat)
    BY ViewFields
  <1>2. IsPrefix(v.text, v.text) /\ IsPrefix(v.items, v.items)
    BY <1>1, PrefixFacts
  <1>3. AtLeastAsCurrent(v, v)
    BY <1>1, <1>2 DEF AtLeastAsCurrent
  <1>4. ASSUME AtLeastAsCurrent(v, u), AtLeastAsCurrent(u, x) PROVE AtLeastAsCurrent(v, x)
    <2>1. IsPrefix(x.text, u.text) /\ IsPrefix(u.text, v.text)
          /\ IsPrefix(x.items, u.items) /\ IsPrefix(u.items, v.items)
      BY <1>4 DEF AtLeastAsCurrent
    <2>2. IsPrefix(x.text, v.text) /\ IsPrefix(x.items, v.items)
      BY <1>1, <2>1, PrefixFacts
    <2>3. QED
      BY <1>1, <1>4, <2>2 DEF AtLeastAsCurrent
  <1>5. QED
    BY <1>3, <1>4

\* A view that goes on from another: later, with more text and more items.
LEMMA GoesOnIsCurrent ==
    ASSUME NEW v \in Views, NEW u \in Views, NEW s \in Seq(Nat), NEW t \in Seq(Nat),
           v.last <= u.last, v.terminal \in {"none", u.terminal},
           u.text = v.text \o s, u.items = v.items \o t
    PROVE  AtLeastAsCurrent(u, v)
  <1>1. v.text \in Seq(Nat) /\ v.items \in Seq(Nat)
    BY ViewFields
  <1>2. IsPrefix(v.text, u.text) /\ IsPrefix(v.items, u.items)
    BY <1>1, PrefixFacts
  <1>3. QED
    BY <1>2 DEF AtLeastAsCurrent

LEMMA FoldIsCurrent ==
    ASSUME NEW v \in Views, NEW e \in Events, v.terminal = "none", e.seq > v.last
    PROVE  AtLeastAsCurrent(ReduceEv(v, e), v)
  <1> DEFINE f == ReduceEv(v, e)
  <1>1. /\ v.text \in Seq(Nat) /\ v.items \in Seq(Nat) /\ e.ids \in Seq(Nat) /\ <<>> \in Seq(Nat)
        /\ v.last \in Nat /\ e.seq \in Nat
    BY ViewFields DEF Events
  <1>2. /\ f \in Views /\ f.last = e.seq
        /\ f.text = v.text \o e.ids \/ f.text = v.text \o <<>>
        /\ f.items = v.items \o e.ids \/ f.items = v.items \o <<>>
    <2>1. v.text \o <<>> = v.text /\ v.items \o <<>> = v.items
      BY <1>1
    <2>2. QED
      BY <2>1, FoldedIs
  <1> HIDE DEF f
  <1>3. v.last <= f.last
    BY <1>1, <1>2
  <1>4. QED
    BY <1>1, <1>2, <1>3, GoesOnIsCurrent DEF f

-----------------------------------------------------------------------------
(* What the renderer will make of the events on the wire.                   *)

\* vs are the views from c to v, one event of w after the other: each event is new to the
\* view it meets, no view but the last is over, and none is ahead of the last.
Steps(vs, c, w, v) ==
    /\ Len(vs) = Len(w) + 1
    /\ vs[1] = c
    /\ vs[Len(w) + 1] = v
    /\ \A i \in 1 .. Len(w) : /\ w[i].seq > vs[i].last
                              /\ vs[i].terminal = "none"
                              /\ vs[i + 1] = ReduceEv(vs[i], w[i])
    /\ \A i \in 1 .. (Len(w) + 1) : AtLeastAsCurrent(v, vs[i])

Leads(c, w, v) == \E vs \in Seq(Views) : Steps(vs, c, w, v)

LEMMA LeadsNowhere ==
    ASSUME NEW c \in Views
    PROVE  Leads(c, <<>>, c)
  <1>1. /\ <<c>> \in Seq(Views) /\ Len(<<c>>) = 1 /\ Len(<<>>) = 0 /\ <<c>>[1] = c
        /\ 1 .. 0 = {} /\ 1 .. 1 = {1}
    OBVIOUS
  <1>2. Steps(<<c>>, c, <<>>, c)
    BY <1>1, CurrentFacts DEF Steps
  <1>3. QED
    BY <1>1, <1>2 DEF Leads

LEMMA LeadsFurther ==
    ASSUME NEW c \in Views, NEW w \in Seq(Events), NEW v \in Views, Leads(c, w, v),
           NEW e \in Events, v.terminal = "none", e.seq > v.last
    PROVE  Leads(c, Append(w, e), ReduceEv(v, e))
  <1> DEFINE f == ReduceEv(v, e)
             more == Append(w, e)
             n == Len(w)
  <1>1. PICK vs \in Seq(Views) : Steps(vs, c, w, v)
    BY DEF Leads
  <1> DEFINE us == Append(vs, f)
  <1>2. f \in Views /\ AtLeastAsCurrent(f, v)
    BY FoldedIs, FoldIsCurrent
  <1> HIDE DEF f
  <1>3. /\ n \in Nat /\ Len(more) = n + 1 /\ more[n + 1] = e
        /\ \A i \in 1 .. n : more[i] = w[i]
    OBVIOUS
  <1>4. /\ us \in Seq(Views) /\ Len(us) = n + 2 /\ us[n + 2] = f
        /\ \A i \in 1 .. (n + 1) : us[i] = vs[i] /\ vs[i] \in Views
    BY <1>1, <1>2, <1>3 DEF Steps
  <1> HIDE DEF more, us
  <1>5. us[1] = c /\ us[n + 1] = v
    BY <1>1, <1>3, <1>4 DEF Steps
  <1>6. ASSUME NEW i \in 1 .. (n + 1)
        PROVE  /\ more[i].seq > us[i].last /\ us[i].terminal = "none"
               /\ us[i + 1] = ReduceEv(us[i], more[i])
    <2>1. CASE i \in 1 .. n
      <3>1. i + 1 \in 1 .. (n + 1) /\ i \in 1 .. (n + 1)
        BY <1>3, <2>1
      <3>2. us[i] = vs[i] /\ us[i + 1] = vs[i + 1] /\ more[i] = w[i]
        BY <1>3, <1>4, <2>1, <3>1
      <3>3. QED
        BY <1>1, <2>1, <3>2 DEF Steps
    <2>2. CASE i = n + 1
      <3>1. us[i] = v /\ more[i] = e /\ us[i + 1] = f
        BY <1>3, <1>4, <1>5, <2>2
      <3>2. QED
        BY <3>1 DEF f
    <2>3. QED
      BY <1>3, <2>1, <2>2
  <1>7. ASSUME NEW i \in 1 .. (n + 2) PROVE AtLeastAsCurrent(f, us[i])
    <2>1. CASE i \in 1 .. (n + 1)
      <3>1. us[i] = vs[i] /\ us[i] \in Views
        BY <1>4, <2>1
      <3>2. AtLeastAsCurrent(v, us[i])
        BY <1>1, <2>1, <3>1 DEF Steps
      <3>3. QED
        BY <1>2, <3>1, <3>2, CurrentFacts
    <2>2. CASE i = n + 2
      BY <1>2, <1>4, <2>2, CurrentFacts
    <2>3. QED
      BY <1>3, <2>1, <2>2
  <1>8. n + 1 + 1 = n + 2
    BY <1>3
  <1>9. Steps(us, c, more, f)
    BY <1>3, <1>4, <1>5, <1>6, <1>7, <1>8 DEF Steps
  <1>10. QED
    BY <1>4, <1>9 DEF Leads, f, more

LEMMA FirstLeads ==
    ASSUME NEW c \in Views, NEW w \in Seq(Events), NEW v \in Views, Leads(c, w, v), w # <<>>
    PROVE  /\ Head(w) \in Events /\ Tail(w) \in Seq(Events)
           /\ Head(w).seq > c.last /\ c.terminal = "none"
           /\ Leads(ReduceEv(c, Head(w)), Tail(w), v)
           /\ ReduceEv(c, Head(w)).terminal # "none" => ReduceEv(c, Head(w)) = v
  <1> DEFINE e == Head(w)
             rest == Tail(w)
             n == Len(w)
  <1>1. PICK vs \in Seq(Views) : Steps(vs, c, w, v)
    BY DEF Leads
  <1> DEFINE us == Tail(vs)
  <1>2. /\ n \in Nat /\ n >= 1 /\ e = w[1] /\ e \in Events
        /\ rest \in Seq(Events) /\ Len(rest) = n - 1
    OBVIOUS
  <1>3. \A i \in 1 .. (n - 1) : rest[i] = w[i + 1]
    BY <1>2
  <1>4. Len(vs) = n + 1 /\ vs # <<>>
    BY <1>1, <1>2 DEF Steps
  <1>5. us \in Seq(Views) /\ Len(us) = n /\ \A i \in 1 .. n : us[i] = vs[i + 1]
    BY <1>2, <1>4
  <1> HIDE DEF e, rest, us
  <1>6. e.seq > c.last /\ c.terminal = "none" /\ vs[2] = ReduceEv(c, e)
    BY <1>1, <1>2 DEF Steps
  <1>7. us[1] = ReduceEv(c, e) /\ us[n] = v
    BY <1>1, <1>2, <1>5, <1>6 DEF Steps
  <1>8. ASSUME NEW i \in 1 .. (n - 1)
        PROVE  /\ rest[i].seq > us[i].last /\ us[i].terminal = "none"
               /\ us[i + 1] = ReduceEv(us[i], rest[i])
    <2>1. i \in 1 .. n /\ i + 1 \in 1 .. n
      BY <1>2
    <2>2. us[i] = vs[i + 1] /\ us[i + 1] = vs[(i + 1) + 1] /\ rest[i] = w[i + 1]
      BY <1>3, <1>5, <2>1
    <2>3. QED
      BY <1>1, <2>1, <2>2 DEF Steps
  <1>9. ASSUME NEW i \in 1 .. n PROVE AtLeastAsCurrent(v, us[i])
    <2>1. us[i] = vs[i + 1] /\ i + 1 \in 1 .. (n + 1)
      BY <1>2, <1>5
    <2>2. QED
      BY <1>1, <2>1 DEF Steps
  <1>10. Len(rest) + 1 = n
    BY <1>2
  <1>11. Steps(us, us[1], rest, v)
    BY <1>2, <1>5, <1>7, <1>8, <1>9, <1>10 DEF Steps
  <1>12. Leads(ReduceEv(c, e), rest, v)
    BY <1>5, <1>7, <1>11 DEF Leads
  <1>13. ASSUME ReduceEv(c, e).terminal # "none" PROVE ReduceEv(c, e) = v
    <2>1. ~(1 \in 1 .. (n - 1))
      BY <1>7, <1>8, <1>13
    <2>2. n = 1
      BY <1>2, <2>1
    <2>3. QED
      BY <1>7, <2>2
  <1>14. QED
    BY <1>2, <1>6, <1>12, <1>13 DEF e, rest

LEMMA LeadsAhead ==
    ASSUME NEW c, NEW w \in Seq(Events), NEW v, Leads(c, w, v)
    PROVE  AtLeastAsCurrent(v, c)
  <1>1. PICK vs \in Seq(Views) : Steps(vs, c, w, v)
    BY DEF Leads
  <1>2. 1 \in 1 .. (Len(w) + 1)
    OBVIOUS
  <1>3. QED
    BY <1>1, <1>2 DEF Steps

-----------------------------------------------------------------------------
(* What leaves the coordinator.                                             *)

\* A renderer on its way to v that is sent out, too, is on its way to u.
Carries(v, out, u) ==
    /\ v \in Views /\ u \in Views /\ out \in Seq(Events)
    /\ \A i \in DOMAIN out : out[i].seq > 0
    /\ \A c \in Views, w \in Seq(Events) : Leads(c, w, v) => Leads(c, w \o out, u)

LEMMA CarriesNothing ==
    ASSUME NEW v \in Views
    PROVE  Carries(v, <<>>, v)
  <1>1. <<>> \in Seq(Events) /\ DOMAIN <<>> = {} /\ \A w \in Seq(Events) : w \o <<>> = w
    OBVIOUS
  <1>2. QED
    BY <1>1 DEF Carries

LEMMA CarriesMore ==
    ASSUME NEW v, NEW out, NEW u, Carries(v, out, u),
           NEW e \in Events, u.terminal = "none", e.seq > u.last
    PROVE  Carries(v, Append(out, e), ReduceEv(u, e))
  <1> DEFINE more == Append(out, e)
             f == ReduceEv(u, e)
  <1>1. v \in Views /\ u \in Views /\ out \in Seq(Events) /\ u.last \in Nat /\ e.seq \in Nat
    BY ViewFields DEF Carries, Events
  <1>2. f \in Views
    BY <1>1, FoldedIs
  <1>3. /\ more \in Seq(Events) /\ DOMAIN more = 1 .. (Len(out) + 1) /\ DOMAIN out = 1 .. Len(out)
        /\ more[Len(out) + 1] = e /\ \A i \in 1 .. Len(out) : more[i] = out[i]
    BY <1>1
  <1>4. \A i \in DOMAIN more : more[i].seq > 0
    <2>1. TAKE i \in DOMAIN more
    <2>2. CASE i \in 1 .. Len(out)
      BY <1>3, <2>2 DEF Carries
    <2>3. CASE i = Len(out) + 1
      BY <1>1, <1>3, <2>3
    <2>4. QED
      BY <1>1, <1>3, <2>2, <2>3
  <1>5. ASSUME NEW c \in Views, NEW w \in Seq(Events), Leads(c, w, v)
        PROVE  Leads(c, w \o more, f)
    <2>1. w \o out \in Seq(Events) /\ w \o more = Append(w \o out, e)
      BY <1>1
    <2>2. Leads(c, w \o out, u)
      BY <1>5 DEF Carries
    <2> HIDE DEF more, f
    <2>3. Leads(c, Append(w \o out, e), ReduceEv(u, e))
      BY <1>1, <2>1, <2>2, LeadsFurther
    <2>4. QED
      BY <2>1, <2>3 DEF f
  <1> HIDE DEF more, f
  <1>6. Carries(v, more, f)
    BY <1>1, <1>2, <1>3, <1>4, <1>5 DEF Carries
  <1>7. QED
    BY <1>6 DEF more, f

LEMMA CoordinatorFields ==
    ASSUME NEW c \in Coordinators
    PROVE  /\ c.pending \in Events /\ c.pending.ids \in Seq(Nat) /\ c.pending.seq \in Nat
           /\ c.terminal \in Events /\ c.window \in BOOLEAN /\ c.grace \in BOOLEAN
           /\ c.terminated \in BOOLEAN
  BY DEF Coordinators, Events

LEMMA FlushedIs ==
    ASSUME NEW c \in Coordinators
    PROVE  LET f == FlushPending(c) IN
           /\ f.coord \in Coordinators /\ f.coord.pending = NoEvent
           /\ f.coord.terminal = c.terminal /\ f.coord.terminated = c.terminated
           /\ f.out = IF c.pending = NoEvent THEN <<>> ELSE <<c.pending>>
           /\ f.out \in Seq(Events)
  <1> DEFINE fc == [c EXCEPT !.pending = NoEvent, !.window = FALSE]
             out == IF c.pending = NoEvent THEN <<>> ELSE <<c.pending>>
  <1>1. fc \in Coordinators
    BY EventTypes DEF Coordinators
  <1>2. fc.pending = NoEvent /\ fc.terminal = c.terminal /\ fc.terminated = c.terminated
    BY DEF Coordinators
  <1>3. out \in Seq(Events)
    BY CoordinatorFields
  <1>4. FlushPending(c) = Outcome(fc, out)
    BY DEF FlushPending
  <1> HIDE DEF fc, out
  <1>5. FlushPending(c).coord = fc /\ FlushPending(c).out = out
    BY <1>4 DEF Outcome
  <1>6. QED
    BY <1>1, <1>2, <1>3, <1>5 DEF out

\* A token that is pushed joins the batch.
Batch(c, e) == Event(e.seq, "token", c.pending.ids \o e.ids)

LEMMA BatchIs ==
    ASSUME NEW c \in Coordinators, NEW e \in Events
    PROVE  /\ Batch(c, e) \in Events /\ Batch(c, e).seq = e.seq /\ Batch(c, e).kind = "token"
           /\ Batch(c, e).ids = c.pending.ids \o e.ids /\ ~IsTerminal(Batch(c, e))
           /\ Batch(c, e) # NoEvent
  <1>1. c.pending.ids \o e.ids \in Seq(Nat) /\ e.seq \in Nat
    BY CoordinatorFields DEF Events
  <1>2. "token" \in EventKinds /\ "token" \notin TerminalKinds /\ NoEvent.kind = "none"
    BY DEF EventKinds, TerminalKinds, NoEvent
  <1> DEFINE ids == c.pending.ids \o e.ids
             batch == Event(e.seq, "token", ids)
  <1>3. ids \in Seq(Nat)
    BY <1>1
  <1> HIDE DEF ids
  <1>4. batch \in Events /\ batch.seq = e.seq /\ batch.kind = "token" /\ batch.ids = ids
    BY <1>1, <1>2, <1>3, EventTypes
  <1> HIDE DEF batch
  <1>5. ~IsTerminal(batch) /\ batch # NoEvent
    BY <1>2, <1>4 DEF IsTerminal
  <1>6. QED
    BY <1>4, <1>5 DEF Batch, batch, ids

LEMMA TokenPushed ==
    ASSUME NEW c \in Coordinators, ~c.terminated, NEW e \in Events, e.kind = "token"
    PROVE  LET p == Push(c, e) IN
           /\ p.coord \in Coordinators
           /\ p.coord.terminal = c.terminal /\ p.coord.terminated = c.terminated
           /\ \/ p.coord.pending = NoEvent /\ p.out = <<Batch(c, e)>>
              \/ p.coord.pending = Batch(c, e) /\ p.out = <<>>
  <1> DEFINE batch == Batch(c, e)
             held == [c EXCEPT !.pending = batch]
  <1>1. batch \in Events /\ batch # NoEvent
    BY BatchIs
  <1>2. Push(c, e) = IF Len(batch.ids) >= MaxBatch THEN FlushPending(held)
                     ELSE Outcome([held EXCEPT !.window = TRUE], <<>>)
    BY DEF Push, Accumulate, Batch
  <1> HIDE DEF batch
  <1>3. held \in Coordinators
    BY <1>1 DEF Coordinators
  <1>4. held.pending = batch /\ held.terminal = c.terminal /\ held.terminated = c.terminated
    BY DEF Coordinators
  <1> HIDE DEF held
  <1>5. CASE Len(batch.ids) >= MaxBatch
    <2>1. Push(c, e) = FlushPending(held)
      BY <1>2, <1>5
    <2>2. QED
      BY <1>1, <1>3, <1>4, <2>1, FlushedIs DEF batch
  <1>6. CASE ~(Len(batch.ids) >= MaxBatch)
    <2> DEFINE waiting == [held EXCEPT !.window = TRUE]
    <2>1. Push(c, e) = Outcome(waiting, <<>>)
      BY <1>2, <1>6
    <2>2. waiting \in Coordinators
      BY <1>3 DEF Coordinators
    <2>3. /\ waiting.pending = batch /\ waiting.terminal = c.terminal
          /\ waiting.terminated = c.terminated
      BY <1>3, <1>4 DEF Coordinators
    <2> HIDE DEF waiting
    <2>4. Push(c, e).coord = waiting /\ Push(c, e).out = <<>>
      BY <2>1 DEF Outcome
    <2>5. QED
      BY <2>2, <2>3, <2>4 DEF batch
  <1>7. QED
    BY <1>5, <1>6

\* Another event that is no terminal leaves behind the batch.
LEMMA OtherPushed ==
    ASSUME NEW c \in Coordinators, ~c.terminated, NEW e \in Events, e.kind # "token",
           ~IsTerminal(e)
    PROVE  Push(c, e).coord = FlushPending(c).coord
           /\ Push(c, e).out = Append(FlushPending(c).out, e)
  <1>1. Push(c, e) = Outcome(FlushPending(c).coord, Append(FlushPending(c).out, e))
    BY DEF Push
  <1> DEFINE fc == FlushPending(c).coord
             fo == Append(FlushPending(c).out, e)
  <1>2. Push(c, e) = Outcome(fc, fo)
    BY <1>1
  <1> HIDE DEF fc, fo
  <1>3. Push(c, e).coord = fc /\ Push(c, e).out = fo
    BY <1>2 DEF Outcome
  <1>4. QED
    BY <1>3 DEF fc, fo

\* A terminal waits, and the batch leaves.
LEMMA TerminalPushed ==
    ASSUME NEW c \in Coordinators, ~c.terminated, NEW e \in Events, IsTerminal(e)
    PROVE  LET p == Push(c, e) IN
           /\ p.coord \in Coordinators /\ p.coord.pending = NoEvent /\ p.coord.terminal = e
           /\ p.out = FlushPending(c).out
  <1> DEFINE f == FlushPending(c)
             fc == f.coord
             waiting == [fc EXCEPT !.terminal = e, !.grace = TRUE]
             fo == f.out
  <1>1. fc \in Coordinators /\ fc.pending = NoEvent
    BY FlushedIs
  <1>2. e.kind # "token"
    BY DEF IsTerminal, TerminalKinds
  <1>3. Push(c, e) = Outcome(waiting, fo)
    BY <1>2 DEF Push
  <1> HIDE DEF fc, fo
  <1>4. waiting \in Coordinators
    BY <1>1 DEF Coordinators
  <1>5. waiting.pending = NoEvent /\ waiting.terminal = e
    BY <1>1 DEF Coordinators
  <1> HIDE DEF waiting
  <1>6. Push(c, e).coord = waiting /\ Push(c, e).out = fo
    BY <1>3 DEF Outcome
  <1>7. QED
    BY <1>4, <1>5, <1>6 DEF fo

LEMMA PushTypes ==
    ASSUME NEW c \in Coordinators, NEW e \in Events
    PROVE  Push(c, e).coord \in Coordinators
  <1>1. CASE c.terminated
    <2>1. Push(c, e) = Outcome(c, <<>>)
      BY <1>1 DEF Push
    <2>2. QED
      BY <2>1 DEF Outcome
  <1>2. CASE ~c.terminated /\ e.kind = "token"
    BY <1>2, TokenPushed
  <1>3. CASE ~c.terminated /\ e.kind # "token" /\ ~IsTerminal(e)
    BY <1>3, OtherPushed, FlushedIs
  <1>4. CASE ~c.terminated /\ IsTerminal(e)
    BY <1>4, TerminalPushed
  <1>5. QED
    BY <1>1, <1>2, <1>3, <1>4

\* close(), when a terminal waits and nothing else.
LEMMA TerminalFlushed ==
    ASSUME NEW c \in Coordinators, c.pending = NoEvent, NEW e, c.terminal = e, e # NoEvent
    PROVE  Flush(c).out = <<e>>
  <1> DEFINE f == FlushPending(c)
             fc == f.coord
             ended == EmitTerminalNow(fc)
             fo == f.out
             eo == ended.out
  <1>1. Flush(c) = Outcome(ended.coord, fo \o eo)
    BY DEF Flush
  <1>2. fc.terminal = e /\ fo = <<>>
    BY FlushedIs
  <1> HIDE DEF fc, fo
  <1>3. eo = <<e>>
    BY <1>2 DEF EmitTerminalNow, Outcome
  <1> HIDE DEF ended, eo
  <1>4. Flush(c).out = fo \o eo
    BY <1>1 DEF Outcome
  <1>5. <<>> \o <<e>> = <<e>>
    OBVIOUS
  <1>6. QED
    BY <1>2, <1>3, <1>4, <1>5

-----------------------------------------------------------------------------
(* The buffer of a run that somebody listens to.                            *)

\* What has been emitted makes the view v, and with what c buffers the view t.
Holds(v, c, t) ==
    /\ c \in Coordinators /\ v \in Views /\ t \in Views
    /\ c.terminal = NoEvent /\ ~c.terminated
    /\ v.terminal = "none" /\ t.terminal = "none"
    /\ t.text = v.text \o c.pending.ids /\ t.items = v.items
    /\ v.last <= t.last
    /\ \/ c.pending = NoEvent
       \/ c.pending.kind = "token" /\ v.last < c.pending.seq /\ c.pending.seq <= t.last

LEMMA FlushHolds ==
    ASSUME NEW v, NEW c, NEW t, Holds(v, c, t)
    PROVE  \E u \in Views : /\ Carries(v, FlushPending(c).out, u)
                            /\ Holds(u, FlushPending(c).coord, t)
                            /\ u.text = t.text
  <1> DEFINE fc == FlushPending(c).coord
             fo == FlushPending(c).out
  <1>1. /\ c \in Coordinators /\ v \in Views /\ t \in Views
        /\ c.terminal = NoEvent /\ ~c.terminated
        /\ v.terminal = "none" /\ t.terminal = "none"
        /\ t.text = v.text \o c.pending.ids /\ t.items = v.items /\ v.last <= t.last
    BY DEF Holds
  <1>2. /\ fc \in Coordinators /\ fc.pending = NoEvent
        /\ fc.terminal = NoEvent /\ fc.terminated = c.terminated
        /\ fo = IF c.pending = NoEvent THEN <<>> ELSE <<c.pending>>
    BY <1>1, FlushedIs
  <1> HIDE DEF fc, fo
  <1>3. fc.pending.ids = <<>> /\ NoEvent.ids = <<>>
    BY <1>2, EventTypes
  <1>4. /\ v.text \in Seq(Nat) /\ t.text \in Seq(Nat) /\ v.last \in Nat /\ t.last \in Nat
        /\ c.pending \in Events /\ c.pending.seq \in Nat
    BY <1>1, ViewFields, CoordinatorFields
  <1>5. CASE c.pending = NoEvent
    <2>1. t.text = v.text
      BY <1>1, <1>3, <1>4, <1>5, Joining
    <2>2. fo = <<>> /\ t.text = v.text \o fc.pending.ids
      BY <1>2, <1>3, <1>4, <1>5, <2>1, Joining
    <2>3. Holds(v, fc, t)
      BY <1>1, <1>2, <2>2 DEF Holds
    <2>4. Carries(v, fo, v)
      BY <1>1, <2>2, CarriesNothing
    <2>5. QED
      BY <1>1, <2>1, <2>3, <2>4 DEF fc, fo
  <1>6. CASE c.pending # NoEvent
    <2> DEFINE e == c.pending
               u == ReduceEv(v, e)
    <2>1. e.kind = "token" /\ v.last < e.seq /\ e.seq <= t.last /\ e.seq > v.last
      BY <1>4, <1>6 DEF Holds
    <2>2. fo = Append(<<>>, e)
      BY <1>2, <1>6
    <2>3. ~IsTerminal(e)
      BY <2>1 DEF IsTerminal, TerminalKinds
    <2>4. /\ u \in Views /\ u.last = e.seq /\ u.terminal = "none"
          /\ u.text = v.text \o e.ids /\ u.items = v.items
      BY <1>1, <1>4, <2>1, <2>3, FoldedIs
    <2>5. Carries(v, <<>>, v)
      BY <1>1, CarriesNothing
    <2>6. Carries(v, fo, u)
      BY <1>1, <1>4, <2>1, <2>2, <2>5, CarriesMore
    <2> HIDE DEF u
    <2>7. u.text = t.text /\ u.items = t.items /\ u.last <= t.last
      BY <1>1, <2>1, <2>4
    <2>8. t.text = u.text \o fc.pending.ids
      BY <1>3, <1>4, <2>7, Joining
    <2>9. Holds(u, fc, t)
      BY <1>1, <1>2, <2>4, <2>7, <2>8 DEF Holds
    <2>10. QED
      BY <2>4, <2>6, <2>7, <2>9 DEF fc, fo
  <1>7. QED
    BY <1>5, <1>6

\* Any event but a terminal.
LEMMA ActivityHolds ==
    ASSUME NEW v, NEW c, NEW t, Holds(v, c, t),
           NEW e \in Events, ~IsTerminal(e), e.seq > t.last
    PROVE  \E u \in Views : /\ Carries(v, Push(c, e).out, u)
                            /\ Holds(u, Push(c, e).coord, ReduceEv(t, e))
  <1> DEFINE pc == Push(c, e).coord
             po == Push(c, e).out
             t2 == ReduceEv(t, e)
  <1>1. /\ c \in Coordinators /\ v \in Views /\ t \in Views
        /\ c.terminal = NoEvent /\ ~c.terminated
        /\ v.terminal = "none" /\ t.terminal = "none"
        /\ t.text = v.text \o c.pending.ids /\ t.items = v.items /\ v.last <= t.last
    BY DEF Holds
  <1>2. /\ v.text \in Seq(Nat) /\ t.text \in Seq(Nat) /\ v.last \in Nat /\ t.last \in Nat
        /\ t.items \in Seq(Nat)
        /\ c.pending \in Events /\ c.pending.ids \in Seq(Nat) /\ e.seq \in Nat /\ e.ids \in Seq(Nat)
    BY <1>1, ViewFields, CoordinatorFields DEF Events
  <1>3. /\ t2 \in Views /\ t2.last = e.seq /\ t2.terminal = "none"
        /\ t2.text = IF e.kind = "token" THEN t.text \o e.ids ELSE t.text
        /\ t2.items = IF e.kind = "state" THEN t.items \o e.ids ELSE t.items
    BY <1>1, FoldedIs
  <1> HIDE DEF t2
  <1>4. CASE e.kind = "token"
    <2> DEFINE b == Batch(c, e)
    <2>1. /\ b \in Events /\ b.seq = e.seq /\ b.kind = "token" /\ b.ids = c.pending.ids \o e.ids
          /\ ~IsTerminal(b)
      BY <1>1, BatchIs
    <2>2. /\ pc \in Coordinators /\ pc.terminal = NoEvent /\ ~pc.terminated
          /\ \/ pc.pending = NoEvent /\ po = <<b>>
             \/ pc.pending = b /\ po = <<>>
      BY <1>1, <1>4, TokenPushed
    <2> HIDE DEF pc, po, b
    <2>3. t2.text = v.text \o b.ids /\ t2.items = v.items
      <3>1. t2.text = (v.text \o c.pending.ids) \o e.ids /\ t2.items = t.items
        BY <1>1, <1>3, <1>4
      <3>2. v.text \o (c.pending.ids \o e.ids) = (v.text \o c.pending.ids) \o e.ids
        <4>1. \A s, i \in Seq(Nat) : v.text \o (s \o i) = (v.text \o s) \o i
          BY <1>2, Joining
        <4>2. QED
          BY <1>2, <4>1, Zenon
      <3>3. QED
        BY <1>1, <2>1, <3>1, <3>2
    <2>4. v.last < b.seq /\ b.seq > v.last /\ b.seq <= t2.last /\ v.last <= t2.last
      BY <1>1, <1>2, <1>3, <2>1
    <2>5. CASE pc.pending = b /\ po = <<>>
      <3>1. Holds(v, pc, t2)
        BY <1>1, <1>3, <2>1, <2>2, <2>3, <2>4, <2>5 DEF Holds
      <3>2. Carries(v, po, v)
        BY <1>1, <2>5, CarriesNothing
      <3>3. QED
        BY <1>1, <3>1, <3>2 DEF pc, po, t2
    <2>6. CASE pc.pending = NoEvent /\ po = <<b>>
      <3> DEFINE u == ReduceEv(v, b)
      <3>1. /\ u \in Views /\ u.last = b.seq /\ u.terminal = "none"
            /\ u.text = v.text \o b.ids /\ u.items = v.items
        BY <1>1, <2>1, <2>4, FoldedIs
      <3>2. po = Append(<<>>, b) /\ Carries(v, <<>>, v)
        BY <1>1, <2>6, CarriesNothing
      <3>3. Carries(v, po, u)
        BY <1>1, <2>1, <2>4, <3>2, CarriesMore
      <3> HIDE DEF u
      <3>4. t2.text = u.text \o pc.pending.ids
        BY <2>3, <2>6, <3>1, ViewFields, EventTypes, Joining
      <3>5. Holds(u, pc, t2)
        BY <1>3, <2>2, <2>3, <2>4, <2>6, <3>1, <3>4 DEF Holds
      <3>6. QED
        BY <3>1, <3>3, <3>5 DEF pc, po, t2
    <2>7. QED
      BY <2>2, <2>5, <2>6
  <1>5. CASE e.kind # "token"
    <2> DEFINE fc == FlushPending(c).coord
               fo == FlushPending(c).out
    <2>1. PICK x \in Views : Carries(v, fo, x) /\ Holds(x, fc, t) /\ x.text = t.text
      BY FlushHolds
    <2>2. /\ fc \in Coordinators /\ fc.pending = NoEvent
          /\ fc.terminal = NoEvent /\ ~fc.terminated
      BY <1>1, FlushedIs
    <2>3. pc = fc /\ po = Append(fo, e)
      BY <1>1, <1>5, OtherPushed
    <2> HIDE DEF fc, fo, pc, po
    <2> DEFINE u == ReduceEv(x, e)
    <2>4. x.terminal = "none" /\ x.items = t.items /\ x.last <= t.last /\ x.last \in Nat
      BY <2>1, ViewFields DEF Holds
    <2>5. e.seq > x.last
      BY <1>2, <2>4
    <2>6. /\ u \in Views /\ u.last = e.seq /\ u.terminal = "none"
          /\ u.text = x.text /\ u.items = IF e.kind = "state" THEN x.items \o e.ids ELSE x.items
      BY <1>5, <2>4, <2>5, FoldedIs
    <2>7. Carries(v, po, u)
      BY <2>1, <2>3, <2>4, <2>5, CarriesMore
    <2> HIDE DEF u
    <2>8. t2.text = u.text /\ t2.items = u.items /\ u.last <= t2.last
      BY <1>2, <1>3, <1>5, <2>1, <2>4, <2>6
    <2>9. t2.text = u.text \o pc.pending.ids
      <3>1. u.text \in Seq(Nat) /\ pc.pending.ids = <<>>
        BY <2>2, <2>3, <2>6, ViewFields, EventTypes
      <3>2. QED
        BY <2>8, <3>1, Joining
    <2>10. Holds(u, pc, t2)
      BY <1>3, <2>2, <2>3, <2>6, <2>8, <2>9 DEF Holds
    <2>11. QED
      BY <2>6, <2>7, <2>10 DEF pc, po, t2
  <1>6. QED
    BY <1>4, <1>5

LEMMA CarriesBoth ==
    ASSUME NEW v, NEW out, NEW x, Carries(v, out, x), NEW more, NEW u, Carries(x, more, u)
    PROVE  Carries(v, out \o more, u)
  <1> DEFINE both == out \o more
  <1>1. /\ v \in Views /\ x \in Views /\ u \in Views /\ out \in Seq(Events) /\ more \in Seq(Events)
        /\ \A i \in DOMAIN out : out[i].seq > 0
        /\ \A i \in DOMAIN more : more[i].seq > 0
    BY DEF Carries
  <1>2. both \in Seq(Events)
    BY <1>1
  <1>3. \A i \in DOMAIN both : both[i].seq > 0
    <2>1. TAKE i \in DOMAIN both
    <2>2. i \in 1 .. (Len(out) + Len(more)) /\ Len(out) \in Nat /\ Len(more) \in Nat
      BY <1>1
    <2>3. both[i] = IF i <= Len(out) THEN out[i] ELSE more[i - Len(out)]
      BY <1>1, <2>2, ConcatProperties
    <2>4. CASE i <= Len(out)
      <3>1. i \in DOMAIN out
        BY <1>1, <2>2, <2>4
      <3>2. QED
        BY <1>1, <2>3, <2>4, <3>1
    <2>5. CASE ~(i <= Len(out))
      <3>1. i - Len(out) \in DOMAIN more
        BY <1>1, <2>2, <2>5
      <3>2. QED
        BY <1>1, <2>3, <2>5, <3>1
    <2>6. QED
      BY <2>4, <2>5
  <1>4. ASSUME NEW c \in Views, NEW w \in Seq(Events), Leads(c, w, v)
        PROVE  Leads(c, w \o both, u)
    <2>1. w \o out \in Seq(Events) /\ w \o both = (w \o out) \o more
      BY <1>1
    <2>2. Leads(c, w \o out, x)
      BY <1>4 DEF Carries
    <2> HIDE DEF both
    <2>3. Leads(c, (w \o out) \o more, u)
      BY <2>1, <2>2 DEF Carries
    <2>4. QED
      BY <2>1, <2>3
  <1> HIDE DEF both
  <1>5. Carries(v, both, u)
    BY <1>1, <1>2, <1>3, <1>4 DEF Carries
  <1>6. QED
    BY <1>5 DEF both

\* A terminal, and close(): the renderer comes to the view that the terminal makes.
LEMMA TerminalHolds ==
    ASSUME NEW v, NEW c, NEW t, Holds(v, c, t), NEW e \in Events, IsTerminal(e), e.seq > t.last
    PROVE  Carries(v, Push(c, e).out \o Flush(Push(c, e).coord).out, ReduceEv(t, e))
  <1> DEFINE pc == Push(c, e).coord
             po == Push(c, e).out
             fo == FlushPending(c).out
             last == Flush(pc).out
             t2 == ReduceEv(t, e)
  <1>1. c \in Coordinators /\ t \in Views /\ ~c.terminated /\ t.terminal = "none"
    BY DEF Holds
  <1>2. PICK x \in Views : Carries(v, fo, x) /\ Holds(x, FlushPending(c).coord, t) /\ x.text = t.text
    BY FlushHolds
  <1>3. x.terminal = "none" /\ x.items = t.items /\ x.last <= t.last
    BY <1>2 DEF Holds
  <1>4. e # NoEvent
    BY DEF IsTerminal, TerminalKinds, NoEvent
  <1>5. pc \in Coordinators /\ pc.pending = NoEvent /\ pc.terminal = e /\ po = fo
    BY <1>1, TerminalPushed
  <1>6. last = <<e>>
    BY <1>4, <1>5, TerminalFlushed
  <1>7. fo \in Seq(Events)
    BY <1>1, FlushedIs
  <1> HIDE DEF pc, po, fo, last
  <1>8. po \o last = Append(fo, e)
    BY <1>5, <1>6, <1>7
  <1>9. e.seq > x.last
    BY <1>1, <1>2, <1>3, ViewFields DEF Events
  <1>10. Carries(v, Append(fo, e), ReduceEv(x, e))
    BY <1>2, <1>3, <1>9, CarriesMore
  <1>11. ReduceEv(x, e) = t2
    <2>1. e.kind \notin {"token", "state"}
      BY DEF IsTerminal, TerminalKinds
    <2> DEFINE y == ReduceEv(x, e)
    <2>2. y \in Views /\ y.last = e.seq /\ y.terminal = e.kind /\ y.text = x.text /\ y.items = x.items
      BY <1>2, <1>3, <1>9, <2>1, FoldedIs
    <2>3. t2 \in Views /\ t2.last = e.seq /\ t2.terminal = e.kind /\ t2.text = t.text /\ t2.items = t.items
      BY <1>1, <2>1, FoldedIs
    <2> HIDE DEF y, t2
    <2>4. y = t2
      BY <1>2, <1>3, <2>2, <2>3, SameView
    <2>5. QED
      BY <2>4 DEF y
  <1>12. Carries(v, po \o last, t2)
    BY <1>8, <1>10, <1>11
  <1>13. QED
    BY <1>12 DEF po, last, pc, t2

-----------------------------------------------------------------------------
(* Frames.                                                                  *)

Frames == [kind : ActivityKinds \union EndKinds, id : Nat]

LEMMA FrameFields ==
    ASSUME NEW f \in Frames
    PROVE  f.id \in Nat /\ f.kind \in ActivityKinds \union EndKinds
  BY DEF Frames

-----------------------------------------------------------------------------
(* A frame at the run and at the registry.                                  *)

Tasks ==
    [view : Views, frozen : BOOLEAN, bound : BOOLEAN, cancelling : {"no", "reached", "failed", "stale"},
     interrupts : 0 .. MaxInterrupts, continuing : 0 .. MaxContinues,
     continues : 0 .. MaxContinues]

Runs == [seq : Nat, coord : Coordinators, exists : BOOLEAN, opened : BOOLEAN, listening : BOOLEAN]

LEMMA TaskFields ==
    ASSUME NEW k \in Tasks
    PROVE  /\ k.view \in Views /\ k.frozen \in BOOLEAN /\ k.bound \in BOOLEAN
           /\ k.cancelling \in {"no", "reached", "failed", "stale"}
           /\ k.interrupts \in 0 .. MaxInterrupts /\ k.continuing \in 0 .. MaxContinues
           /\ k.continues \in 0 .. MaxContinues
  BY DEF Tasks

\* The calls under way on a task.
SameCalls(k, l) ==
    /\ k.bound = l.bound /\ k.cancelling = l.cancelling /\ k.interrupts = l.interrupts
    /\ k.continuing = l.continuing /\ k.continues = l.continues

\* A live task takes a new event, and is frozen by a terminal.
LEMMA AppliedIs ==
    ASSUME NEW k \in Tasks, ~k.frozen, k.view.terminal = "none",
           NEW e \in Events, e.seq > k.view.last
    PROVE  /\ Apply(k, e) \in Tasks /\ SameCalls(Apply(k, e), k)
           /\ Apply(k, e).view = ReduceEv(k.view, e)
           /\ Apply(k, e).frozen = IsTerminal(e)
  <1> DEFINE u == ReduceEv(k.view, e)
             over == u.terminal # "none"
             a == [k EXCEPT !.view = u, !.frozen = over]
  <1>1. k.view \in Views
    BY TaskFields
  <1>2. u \in Views /\ u.terminal = IF IsTerminal(e) THEN e.kind ELSE "none"
    BY <1>1, FoldedIs
  <1>3. over = IsTerminal(e)
    BY <1>2 DEF IsTerminal, TerminalKinds
  <1>4. Apply(k, e) = a
    BY DEF Apply
  <1> HIDE DEF u, over
  <1>5. over \in BOOLEAN
    BY <1>3 DEF IsTerminal
  <1>6. a \in Tasks
    BY <1>2, <1>5 DEF Tasks
  <1>7. a.view = u /\ a.frozen = over
    BY DEF Tasks
  <1>8. SameCalls(a, k)
    BY DEF Tasks, SameCalls
  <1> HIDE DEF a
  <1>9. QED
    BY <1>3, <1>4, <1>6, <1>7, <1>8 DEF u

LEMMA OneEvent ==
    ASSUME NEW c, NEW k, NEW e
    PROVE  /\ ApplyAll(k, <<e>>) = Apply(k, e)
           /\ PushAll(c, <<e>>) = Push(c, e)
  <1> DEFINE events == <<e>>
  <1>1. Len(events) = 1 /\ events[1] = e
    OBVIOUS
  <1>2. QED
    BY <1>1 DEF ApplyAll, PushAll

LEMMA MappedIs ==
    ASSUME NEW n \in Nat, NEW frame \in Frames
    PROVE  /\ frame.kind \in ActivityKinds =>
                MapFrame(n, frame) = <<Event(n + 1, frame.kind, <<frame.id>>)>>
           /\ frame.kind = "idle" => MapFrame(n, frame) = <<Event(n + 1, "completed", <<>>)>>
           /\ frame.kind = "abort" => MapFrame(n, frame) = <<Event(n + 1, "cancelled", <<>>)>>
           /\ frame.kind = "error" =>
                MapFrame(n, frame) = <<Event(n + 1, "error", <<>>), Event(n + 2, "errored", <<>>)>>
  BY DEF MapFrame, ActivityKinds

\* What the frame that ends the turn does to a task that is live and to the run that
\* somebody listens to: the task is over, and what is emitted leads to its view.
LEMMA EndReached ==
    ASSUME NEW v, NEW c, NEW k \in Tasks, Holds(v, c, k.view), ~k.frozen,
           NEW frame \in Frames, frame.kind \in EndKinds
    PROVE  LET events == MapFrame(k.view.last, frame)
               pushed == PushAll(c, events)
           IN  /\ ApplyAll(k, events) \in Tasks /\ SameCalls(ApplyAll(k, events), k)
               /\ ApplyAll(k, events).frozen /\ ApplyAll(k, events).view.terminal # "none"
               /\ ApplyAll(k, events).view.text = k.view.text
               /\ Carries(v, pushed.out \o Flush(pushed.coord).out, ApplyAll(k, events).view)
  <1> DEFINE t == k.view
             n == t.last
             events == MapFrame(n, frame)
  <1>1. t \in Views /\ n \in Nat /\ t.terminal = "none" /\ c \in Coordinators /\ <<>> \in Seq(Nat)
    BY TaskFields, ViewFields DEF Holds
  <1>2. ASSUME NEW l \in Tasks, ~l.frozen, l.view.terminal = "none", NEW x, NEW d, Holds(x, d, l.view),
               NEW e \in Events, IsTerminal(e), e.seq > l.view.last
        PROVE  /\ Apply(l, e) \in Tasks /\ SameCalls(Apply(l, e), l)
               /\ Apply(l, e).frozen /\ Apply(l, e).view.terminal # "none"
               /\ Apply(l, e).view.text = l.view.text
               /\ Carries(x, Push(d, e).out \o Flush(Push(d, e).coord).out, Apply(l, e).view)
    <2>1. /\ Apply(l, e) \in Tasks /\ SameCalls(Apply(l, e), l)
          /\ Apply(l, e).view = ReduceEv(l.view, e) /\ Apply(l, e).frozen = IsTerminal(e)
      BY <1>2, AppliedIs
    <2>2. e.kind \notin {"none", "token"}
      BY <1>2 DEF IsTerminal, TerminalKinds
    <2>3. ReduceEv(l.view, e).terminal # "none" /\ ReduceEv(l.view, e).text = l.view.text
      BY <1>2, <2>2, TaskFields, FoldedIs
    <2>4. Carries(x, Push(d, e).out \o Flush(Push(d, e).coord).out, ReduceEv(l.view, e))
      BY <1>2, TerminalHolds
    <2>5. QED
      BY <1>2, <2>1, <2>3, <2>4
  <1>3. CASE frame.kind \in {"idle", "abort"}
    <2>1. PICK kind \in {"completed", "cancelled"} : events = <<Event(n + 1, kind, <<>>)>>
      BY <1>1, <1>3, MappedIs
    <2> DEFINE e == Event(n + 1, kind, <<>>)
    <2>2. kind \in EventKinds /\ kind \in TerminalKinds /\ n + 1 \in Nat /\ n + 1 > n
      BY <1>1 DEF EventKinds, TerminalKinds
    <2>3. e \in Events /\ e.seq = n + 1 /\ IsTerminal(e)
      BY <2>2, EmptyEvent
    <2>4. events = <<e>>
      BY <2>1
    <2> HIDE DEF e, events
    <2>5. ApplyAll(k, events) = Apply(k, e) /\ PushAll(c, events) = Push(c, e)
      BY <2>4, OneEvent
    <2>6. /\ Apply(k, e) \in Tasks /\ SameCalls(Apply(k, e), k)
          /\ Apply(k, e).frozen /\ Apply(k, e).view.terminal # "none"
          /\ Apply(k, e).view.text = k.view.text
          /\ Carries(v, Push(c, e).out \o Flush(Push(c, e).coord).out, Apply(k, e).view)
      BY <1>1, <1>2, <2>2, <2>3
    <2>7. QED
      BY <2>5, <2>6 DEF events
  <1>4. CASE frame.kind = "error"
    <2> DEFINE e == Event(n + 1, "error", <<>>)
               f == Event(n + 2, "errored", <<>>)
    <2>1. events = <<e, f>>
      BY <1>1, <1>4, MappedIs
    <2>2. /\ "error" \in EventKinds /\ "errored" \in EventKinds /\ n + 1 \in Nat /\ n + 2 \in Nat
          /\ n + 1 > n /\ n + 2 > n + 1
          /\ "error" \notin TerminalKinds /\ "errored" \in TerminalKinds
      BY <1>1 DEF EventKinds, TerminalKinds
    <2>3. /\ e \in Events /\ e.seq = n + 1 /\ e.kind = "error" /\ ~IsTerminal(e)
          /\ f \in Events /\ f.seq = n + 2 /\ IsTerminal(f)
      BY <2>2, EmptyEvent
    <2> HIDE DEF e, f, events
    <2> DEFINE l == Apply(k, e)
               d == Push(c, e).coord
               o == Push(c, e).out
               p == Push(d, f)
               po == p.out
               fo == Flush(p.coord).out
    <2>4. /\ ApplyAll(k, events) = Apply(l, f)
          /\ PushAll(c, events).coord = p.coord /\ PushAll(c, events).out = o \o po
      <3>1. Len(events) = 2 /\ events[1] = e /\ events[2] = f
        BY <2>1
      <3>2. ApplyAll(k, events) = Apply(l, f)
        BY <3>1 DEF ApplyAll
      <3> DEFINE pc == p.coord
                 out == o \o po
      <3>3. PushAll(c, events) = Outcome(pc, out)
        BY <3>1 DEF PushAll
      <3> HIDE DEF pc, out
      <3>4. PushAll(c, events).coord = pc /\ PushAll(c, events).out = out
        BY <3>3 DEF Outcome
      <3>5. QED
        BY <3>2, <3>4 DEF pc, out
    <2>5. /\ l \in Tasks /\ SameCalls(l, k) /\ ~l.frozen /\ l.view = ReduceEv(t, e)
      BY <1>1, <2>2, <2>3, AppliedIs
    <2>6. l.view.terminal = "none" /\ l.view.text = t.text /\ l.view.last = n + 1
      BY <1>1, <2>2, <2>3, <2>5, FoldedIs
    <2>7. PICK x \in Views : Carries(v, o, x) /\ Holds(x, d, l.view)
      BY <1>1, <2>2, <2>3, <2>5, ActivityHolds
    <2> HIDE DEF l, d, o
    <2>8. /\ Apply(l, f) \in Tasks /\ SameCalls(Apply(l, f), l)
          /\ Apply(l, f).frozen /\ Apply(l, f).view.terminal # "none"
          /\ Apply(l, f).view.text = l.view.text
          /\ Carries(x, po \o fo, Apply(l, f).view)
      <3>1. f.seq > l.view.last
        BY <2>2, <2>3, <2>6
      <3>2. QED
        BY <1>2, <2>3, <2>5, <2>6, <2>7, <3>1
    <2>9. Carries(v, o \o (po \o fo), Apply(l, f).view)
      BY <2>7, <2>8, CarriesBoth
    <2>10. o \in Seq(Events) /\ po \in Seq(Events) /\ fo \in Seq(Events)
      <3>1. d \in Coordinators /\ ~d.terminated
        BY <2>7 DEF Holds
      <3>2. p.coord \in Coordinators /\ p.coord.pending = NoEvent /\ p.coord.terminal = f
            /\ p.out = FlushPending(d).out
        BY <2>3, <3>1, TerminalPushed
      <3>3. f # NoEvent
        BY <2>3, EventTypes
      <3>4. Flush(p.coord).out = <<f>>
        BY <3>2, <3>3, TerminalFlushed
      <3>5. o \in Seq(Events) /\ FlushPending(d).out \in Seq(Events)
        BY <2>7, <3>1, FlushedIs DEF Carries
      <3>6. QED
        BY <2>3, <3>2, <3>4, <3>5
    <2>11. Flush(PushAll(c, events).coord).out = fo
      BY <2>4
    <2> HIDE DEF po, fo
    <2>12. o \o (po \o fo) = (o \o po) \o fo
      BY <2>10
    <2>13. SameCalls(Apply(l, f), k)
      BY <2>5, <2>8 DEF SameCalls
    <2>14. QED
      BY <2>4, <2>6, <2>8, <2>9, <2>11, <2>12, <2>13 DEF events
  <1>5. QED
    BY <1>3, <1>4 DEF EndKinds

LEMMA RunFields ==
    ASSUME NEW r \in Runs
    PROVE  /\ r.seq \in Nat /\ r.coord \in Coordinators /\ r.exists \in BOOLEAN
           /\ r.opened \in BOOLEAN /\ r.listening \in BOOLEAN
  BY DEF Runs

LEMMA NewRuns ==
    /\ NoRun \in Runs /\ ~NoRun.exists /\ ~NoRun.listening /\ ~NoRun.coord.window /\ NoRun.seq = 0
    /\ NewRun \in Runs /\ NewRun.exists /\ ~NewRun.listening /\ NewRun.seq = 0
    /\ NewRun.coord = NewCoordinator
    /\ NewCoordinator \in Coordinators
  <1>1. NewCoordinator \in Coordinators /\ ~NewCoordinator.window
    BY EventTypes DEF NewCoordinator, Coordinators
  <1>2. /\ NoRun \in Runs /\ ~NoRun.exists /\ ~NoRun.listening /\ NoRun.coord = NewCoordinator
        /\ NoRun.seq = 0
    BY <1>1 DEF NoRun, Runs
  <1>3. NewRun \in Runs /\ NewRun.exists /\ ~NewRun.listening /\ NewRun.coord = NewCoordinator
        /\ NewRun.seq = 0
    BY <1>2 DEF NewRun, Runs
  <1>4. QED
    BY <1>1, <1>2, <1>3

\* Whatever the frame, the run after it has its type, nobody starts to listen, and if
\* there still is a run the pump has claimed it.
LEMMA IngestedRun ==
    ASSUME NEW r \in Runs, NEW frame \in Frames
    PROVE  /\ Ingest(r, frame).run \in Runs
           /\ Ingest(r, frame).run.listening => r.listening
           /\ Ingest(r, frame).run.exists => Ingest(r, frame).run.opened
  <1> DEFINE events == MapFrame(r.seq, frame)
             n == Len(events)
             d == PushAll(r.coord, events).coord
             next == [r EXCEPT !.seq = r.seq + n, !.coord = d, !.opened = TRUE]
  <1>1. CASE frame.kind \in EndKinds
    <2>1. Ingest(r, frame).run = NoRun
      BY <1>1 DEF Ingest
    <2>2. QED
      BY <2>1, NewRuns
  <1>2. CASE frame.kind \notin EndKinds
    <2>1. Ingest(r, frame).run = next
      BY <1>2 DEF Ingest
    <2>2. r.seq \in Nat /\ r.coord \in Coordinators
      BY RunFields
    <2>3. frame.kind \in ActivityKinds /\ frame.id \in Nat
      BY <1>2, FrameFields
    <2>4. events = <<Event(r.seq + 1, frame.kind, <<frame.id>>)>>
      BY <2>2, <2>3, MappedIs
    <2> DEFINE e == Event(r.seq + 1, frame.kind, <<frame.id>>)
    <2>5. e \in Events
      <3>1. r.seq + 1 \in Nat /\ frame.kind \in EventKinds /\ <<frame.id>> \in Seq(Nat)
        BY <2>2, <2>3 DEF ActivityKinds, EventKinds
      <3>2. QED
        BY <3>1 DEF Event, Events
    <2> HIDE DEF e
    <2>6. n = 1 /\ d = Push(r.coord, e).coord
      BY <2>4, OneEvent DEF e
    <2> HIDE DEF events
    <2>7. d \in Coordinators /\ n = 1
      BY <2>2, <2>5, <2>6, PushTypes
    <2> HIDE DEF d, n
    <2>8. r.seq + n \in Nat
      BY <2>2, <2>7
    <2>9. next \in Runs /\ next.listening = r.listening /\ next.opened
      BY <2>7, <2>8 DEF Runs
    <2>10. QED
      BY <2>1, <2>9
  <1>3. QED
    BY <1>1, <1>2

\* A frozen task takes nothing.
LEMMA FrozenApplied ==
    ASSUME NEW k, k.frozen, NEW events
    PROVE  ApplyAll(k, events) = k
  BY DEF ApplyAll, Apply

\* To a client that subscribed from the start everything is new.
LEMMA FreshIsAll ==
    ASSUME NEW out \in Seq(Events), \A i \in DOMAIN out : out[i].seq > 0
    PROVE  Fresh(out, 0) = out
  <1> DEFINE skipped == {i \in DOMAIN out : out[i].seq <= 0}
  <1>1. \A i \in DOMAIN out : out[i] \in Events
    OBVIOUS
  <1>2. \A i \in DOMAIN out : out[i].seq \in Nat
    BY <1>1 DEF Events
  <1>3. skipped = {}
    BY <1>2
  <1>4. Cardinality(skipped) = 0
    BY <1>3, FS_EmptySet
  <1>5. Fresh(out, 0) = SubSeq(out, Cardinality(skipped) + 1, Len(out))
    BY DEF Fresh
  <1> HIDE DEF skipped
  <1>6. SubSeq(out, 1, Len(out)) = out
    OBVIOUS
  <1>7. QED
    BY <1>4, <1>5, <1>6

-----------------------------------------------------------------------------
(* The inductive invariant of a session that nothing disturbs.              *)

Undisturbed == MaxInterrupts = 0 /\ MaxContinues = 0 /\ MaxDrops = 0 /\ ClientFirst

Runtimes ==
    [prompted : BOOLEAN, sending : BOOLEAN, aborted : BOOLEAN, sent : Nat, text : Seq(Nat),
     items : Seq(Nat), ends : 0 .. MaxEnds, lost : 0 .. MaxLosses]
Responses == [open : BOOLEAN, since : Nat, wire : Seq(Events)]
Clients ==
    [phase : {"off", "snapshot", "live", "ended", "lost"}, view : Views, drops : 0 .. MaxDrops]

Types ==
    /\ runtime \in Runtimes
    /\ frames \in Seq(Frames)
    /\ task \in Tasks
    /\ run \in Runs
    /\ sse \in Responses
    /\ client \in Clients
    /\ due \subseteq Nat

\* No call on the task is under way, and it is frozen when it is over and only then.
Calm(k) ==
    /\ k.cancelling = "no"
    /\ k.continuing = 0
    /\ k.frozen <=> k.view.terminal # "none"

\* The view v is the view of the task k, which is over.
Arrived(v, k) ==
    /\ k.frozen
    /\ v.terminal = k.view.terminal
    /\ v.text = k.view.text
    /\ v.items = k.view.items
    /\ v.last <= k.view.last

\* The wire w brings the view c to a view v, and the buffer of the run r brings v to the
\* view of the task k, or v is the last view there is.
Flows(c, w, r, k) ==
    \E v \in Views :
        /\ Leads(c, w, v)
        /\ IF r.listening
           THEN r.exists /\ r.seq = k.view.last /\ Holds(v, r.coord, k.view)
           ELSE Arrived(v, k)

Before ==
    /\ client.phase \in {"off", "snapshot"}
    /\ task.view = InitialView /\ client.view = InitialView
    /\ run = NoRun
    /\ sse.wire = <<>>
    /\ frames = <<>>
    /\ ~runtime.prompted /\ ~runtime.sending

During ==
    /\ client.phase = "live"
    /\ client.view.terminal = "none"
    /\ Flows(client.view, sse.wire, run, task)

After ==
    /\ client.phase = "ended"
    /\ ~run.listening
    /\ Arrived(client.view, task)

IInv ==
    /\ Types
    /\ Calm(task)
    /\ sse.since = 0
    /\ Before \/ During \/ After

LEMMA InitialFacts ==
    /\ InitialView \in Views /\ InitialView.terminal = "none" /\ InitialView.last = 0
    /\ InitialView.text = <<>> /\ InitialView.items = <<>>
  BY DEF InitialView, Views

LEMMA InitIInv ==
    ASSUME Undisturbed, Init
    PROVE  IInv
  <1>1. 0 \in 0 .. MaxEnds /\ 0 \in 0 .. MaxLosses /\ 0 \in 0 .. MaxInterrupts
        /\ 0 \in 0 .. MaxContinues /\ 0 \in 0 .. MaxDrops
    BY BoundsAssumption
  <1>2. InitialView \in Views /\ InitialView.terminal = "none"
    BY InitialFacts
  <1>3. runtime \in Runtimes /\ ~runtime.prompted /\ ~runtime.sending
    BY <1>1 DEF Init, Runtimes
  <1>4. task \in Tasks /\ task.view = InitialView /\ Calm(task)
    BY <1>1, <1>2 DEF Init, Tasks, Calm
  <1>5. sse \in Responses /\ sse.since = 0 /\ sse.wire = <<>>
    BY DEF Init, ClosedSse, Responses
  <1>6. client \in Clients /\ client.phase = "off" /\ client.view = InitialView
    BY <1>1, <1>2 DEF Init, Clients
  <1>7. frames = <<>> /\ frames \in Seq(Frames) /\ run = NoRun /\ run \in Runs
    BY NewRuns DEF Init
  <1>8. Before
    BY <1>3, <1>4, <1>5, <1>6, <1>7 DEF Before
  <1>9. due \subseteq Nat
    BY DEF Init
  <1>10. QED
    BY <1>2, <1>3, <1>4, <1>5, <1>6, <1>7, <1>8, <1>9 DEF IInv, Types

-----------------------------------------------------------------------------
(* The runtime, and what the pump loses.                                    *)

LEMMA RuntimeFields ==
    ASSUME NEW r \in Runtimes
    PROVE  /\ r.prompted \in BOOLEAN /\ r.sending \in BOOLEAN /\ r.aborted \in BOOLEAN
           /\ r.sent \in Nat /\ r.text \in Seq(Nat) /\ r.items \in Seq(Nat)
           /\ r.ends \in 0 .. MaxEnds /\ r.lost \in 0 .. MaxLosses
  BY DEF Runtimes

\* The upstream parts keep their types.
LEMMA UpstreamTypes ==
    ASSUME runtime \in Runtimes, frames \in Seq(Frames), [Next]_vars
    PROVE  runtime' \in Runtimes /\ frames' \in Seq(Frames)
  <1>1. /\ runtime.sent \in Nat /\ runtime.text \in Seq(Nat) /\ runtime.items \in Seq(Nat)
        /\ runtime.ends \in 0 .. MaxEnds /\ runtime.lost \in 0 .. MaxLosses
        /\ MaxEnds \in Nat /\ MaxLosses \in Nat
    BY RuntimeFields, BoundsAssumption
  <1>2. CASE UNCHANGED <<runtime, frames>>
    BY <1>2
  <1>3. CASE Prompt \/ PromptArrives \/ PromptFails
    <2>1. /\ frames' = frames
          /\ \/ runtime' = [runtime EXCEPT !.sending = TRUE]
             \/ runtime' = [runtime EXCEPT !.sending = FALSE, !.prompted = TRUE]
             \/ runtime' = [runtime EXCEPT !.sending = FALSE]
      BY <1>3 DEF Prompt, PromptArrives, PromptFails
    <2>2. QED
      BY <2>1 DEF Runtimes
  <1>4. ASSUME NEW kind \in ActivityKinds, RuntimeWorks(kind)
        PROVE  runtime' \in Runtimes /\ frames' \in Seq(Frames)
    <2> DEFINE id == runtime.sent + 1
    <2>1. /\ id \in Nat /\ Append(runtime.text, id) \in Seq(Nat)
          /\ Append(runtime.items, id) \in Seq(Nat)
      BY <1>1
    <2>2. /\ \/ runtime' = [runtime EXCEPT !.sent = id, !.text = Append(@, id)]
             \/ runtime' = [runtime EXCEPT !.sent = id, !.items = Append(@, id)]
          /\ frames' = Append(frames, Frame(kind, id))
      BY <1>4 DEF RuntimeWorks
    <2> HIDE DEF id
    <2>3. runtime' \in Runtimes
      BY <2>1, <2>2 DEF Runtimes
    <2>4. Frame(kind, id) \in Frames
      BY <2>1 DEF Frame, Frames
    <2>5. QED
      BY <2>2, <2>3, <2>4
  <1>5. ASSUME NEW kind \in EndKinds, RuntimeEnds(kind)
        PROVE  runtime' \in Runtimes /\ frames' \in Seq(Frames)
    <2>1. runtime.ends + 1 \in 0 .. MaxEnds
      BY <1>1, <1>5 DEF RuntimeEnds
    <2>2. runtime' \in Runtimes
      BY <1>5, <2>1 DEF RuntimeEnds, Runtimes
    <2>3. Frame(kind, 0) \in Frames
      BY DEF Frame, Frames
    <2>4. frames' \in Seq(Frames)
      BY <1>5, <2>3 DEF RuntimeEnds
    <2>5. QED
      BY <2>2, <2>4
  <1>6. CASE PumpDispatch
    BY <1>6 DEF PumpDispatch
  <1>7. CASE LoseFrame
    <2>1. runtime.lost + 1 \in 0 .. MaxLosses
      BY <1>1, <1>7 DEF LoseFrame
    <2>2. runtime' \in Runtimes
      BY <1>7, <2>1 DEF LoseFrame, Runtimes
    <2>3. QED
      BY <1>7, <2>2 DEF LoseFrame
  <1>8. CASE CancelAborts
    <2>1. frames' = frames /\ (runtime' = runtime \/ runtime' = [runtime EXCEPT !.aborted = TRUE])
      BY <1>8 DEF CancelAborts
    <2>2. QED
      BY <2>1 DEF Runtimes
  <1>9. CASE \/ WindowFires \/ CancelSettles \/ CancelFails \/ CancelUnbound \/ Deny
             \/ ContinueCalled \/ ContinueSettles \/ LoadSnapshot \/ OpenFinished \/ Subscribe
             \/ Receive \/ Disconnect \/ UNCHANGED vars
    <2>1. UNCHANGED <<runtime, frames>>
      BY <1>9 DEF WindowFires, CancelSettles, CancelFails, CancelUnbound, Deny, ContinueCalled,
                  ContinueSettles, LoadSnapshot, OpenFinished, Subscribe, Receive, Disconnect, vars
    <2>2. QED
      BY <1>2, <2>1
  <1>10. QED
    BY <1>3, <1>4, <1>5, <1>6, <1>7, <1>8, <1>9 DEF Next

\* A step that touches neither the stream to the client nor the view.
LEMMA SamePhase ==
    ASSUME During \/ After, UNCHANGED <<run, sse, client>>,
           task'.view = task.view, task'.frozen = task.frozen
    PROVE  (During \/ After)'
  <1>1. CASE During
    <2>1. Flows(client'.view, sse'.wire, run', task')
      BY <1>1 DEF During, Flows, Arrived
    <2>2. QED
      BY <1>1, <2>1 DEF During
  <1>2. CASE After
    BY <1>2 DEF After, Arrived
  <1>3. QED
    BY <1>1, <1>2

LEMMA StepPrompt ==
    ASSUME Undisturbed, IInv, Prompt
    PROVE  IInv'
  <1>1. client.phase = "live" /\ (During \/ After)
    BY DEF Prompt, Undisturbed, IInv, Before
  <1>2. task \in Tasks /\ runtime' \in Runtimes /\ UNCHANGED <<frames, run, sse, client, due>>
    BY UpstreamTypes DEF IInv, Types, Prompt, Next
  <1>3. task' \in Tasks
    BY <1>2 DEF Prompt, Tasks
  <1>4. task'.view = task.view /\ task'.frozen = task.frozen /\ Calm(task')
    BY <1>2 DEF Prompt, Tasks, Calm, IInv
  <1>5. (During \/ After)'
    BY <1>1, <1>2, <1>4, SamePhase
  <1>6. Types' /\ sse'.since = 0
    BY <1>2, <1>3 DEF Types, IInv
  <1>7. QED
    BY <1>4, <1>5, <1>6 DEF IInv

\* The steps that touch the runtime and the frames only.
LEMMA StepUpstream ==
    ASSUME Undisturbed, IInv,
           \/ PromptArrives \/ PromptFails \/ LoseFrame
           \/ \E kind \in ActivityKinds : RuntimeWorks(kind)
           \/ \E kind \in EndKinds : RuntimeEnds(kind)
    PROVE  IInv'
  <1>1. UNCHANGED <<task, run, sse, client, due>>
    BY DEF PromptArrives, PromptFails, LoseFrame, RuntimeWorks, RuntimeEnds
  <1>2. ~Before
    BY DEF Before, PromptArrives, PromptFails, LoseFrame, RuntimeWorks, RuntimeEnds
  <1>3. (During \/ After)'
    BY <1>1, <1>2, SamePhase DEF IInv
  <1>4. runtime' \in Runtimes /\ frames' \in Seq(Frames)
    BY UpstreamTypes DEF IInv, Types, Next
  <1>5. Types' /\ Calm(task') /\ sse'.since = 0
    BY <1>1, <1>4 DEF Types, IInv
  <1>6. QED
    BY <1>3, <1>5 DEF IInv

-----------------------------------------------------------------------------
(* The renderer.                                                            *)

LEMMA ClientFields ==
    ASSUME NEW c \in Clients
    PROVE  /\ c.phase \in {"off", "snapshot", "live", "ended", "lost"} /\ c.view \in Views
           /\ c.drops \in 0 .. MaxDrops
  BY DEF Clients

LEMMA StepLoadSnapshot ==
    ASSUME Undisturbed, IInv, LoadSnapshot
    PROVE  IInv'
  <1>1. Before
    <2>1. ~During
      BY DEF During, LoadSnapshot
    <2>2. CASE After
      <3>1. task.view.terminal = "none"
        BY <2>2 DEF After, LoadSnapshot
      <3>2. QED
        BY <2>2, <3>1 DEF After, Arrived, IInv, Calm
    <2>3. QED
      BY <2>1, <2>2 DEF IInv
  <1>2. client \in Clients /\ task \in Tasks /\ task.view = InitialView /\ task.view.terminal = "none"
    BY <1>1, InitialFacts DEF Before, IInv, Types
  <1>3. client' = [client EXCEPT !.view = InitialView, !.phase = "snapshot"]
    BY <1>2 DEF LoadSnapshot
  <1>4. client' \in Clients /\ client'.view = InitialView /\ client'.phase = "snapshot"
    BY <1>2, <1>3, InitialFacts DEF Clients
  <1>5. UNCHANGED <<runtime, frames, task, run, sse>> /\ due' = due
    <2>1. task.view.text = <<>> /\ Ids(<<>>) = {}
      BY <1>2, InitialFacts DEF Ids
    <2>2. QED
      BY <2>1 DEF LoadSnapshot
  <1>6. Before'
    BY <1>1, <1>4, <1>5 DEF Before
  <1>7. Types' /\ Calm(task') /\ sse'.since = 0
    BY <1>4, <1>5 DEF Types, IInv
  <1>8. QED
    BY <1>6, <1>7 DEF IInv

LEMMA StepSubscribe ==
    ASSUME Undisturbed, IInv, Subscribe
    PROVE  IInv'
  <1> DEFINE c == NewCoordinator
             joined == [NewRun EXCEPT !.listening = TRUE]
  <1>1. Before
    BY DEF IInv, During, After, Subscribe
  <1>2. /\ client \in Clients /\ task.view = InitialView /\ client.view = InitialView /\ run = NoRun
        /\ ~run.exists
    BY <1>1, NewRuns DEF Before, IInv, Types
  <1>3. client' = [client EXCEPT !.phase = "live"] /\ run' = joined
        /\ sse' = [open |-> TRUE, since |-> client.view.last, wire |-> <<>>]
    BY <1>2 DEF Subscribe
  <1>4. client' \in Clients /\ client'.view = InitialView /\ client'.phase = "live"
    BY <1>2, <1>3 DEF Clients
  <1>5. sse' \in Responses /\ sse'.since = 0 /\ sse'.wire = <<>>
    BY <1>2, <1>3, InitialFacts DEF Responses
  <1>6. joined \in Runs /\ joined.listening /\ joined.exists /\ joined.seq = 0 /\ joined.coord = c
    BY NewRuns DEF Runs
  <1>7. c \in Coordinators /\ c.pending = NoEvent /\ c.terminal = NoEvent /\ ~c.terminated
    BY NewRuns DEF NewCoordinator
  <1>8. Holds(InitialView, c, InitialView)
    <2>1. InitialView.text = InitialView.text \o c.pending.ids
      BY <1>7, EventTypes, InitialFacts, Joining
    <2>2. InitialView.last <= InitialView.last
      BY InitialFacts
    <2>3. QED
      BY <1>7, <2>1, <2>2, InitialFacts DEF Holds
  <1> HIDE DEF c, joined
  <1>9. Leads(InitialView, <<>>, InitialView)
    BY InitialFacts, LeadsNowhere
  <1>10. UNCHANGED <<runtime, frames, task, due>>
    BY DEF Subscribe
  <1>11. Flows(client'.view, sse'.wire, run', task')
    BY <1>2, <1>3, <1>4, <1>5, <1>6, <1>8, <1>9, <1>10, InitialFacts DEF Flows
  <1>12. During'
    BY <1>4, <1>11, InitialFacts DEF During
  <1>13. Types'
    BY <1>3, <1>4, <1>5, <1>6, <1>10 DEF Types, IInv
  <1>14. Calm(task') /\ sse'.since = 0
    BY <1>5, <1>10 DEF IInv
  <1>15. QED
    BY <1>12, <1>13, <1>14 DEF IInv

\* The run loses its listener: it goes if nobody claimed it.
LEMMA Unsubscribed ==
    ASSUME NEW r \in Runs
    PROVE  Unsubscribe(r) \in Runs /\ ~Unsubscribe(r).listening
  <1>1. [r EXCEPT !.listening = FALSE] \in Runs /\ ~[r EXCEPT !.listening = FALSE].listening
    BY DEF Runs
  <1>2. QED
    BY <1>1, NewRuns DEF Unsubscribe

LEMMA StepReceive ==
    ASSUME Undisturbed, IInv, Receive
    PROVE  IInv'
  <1> DEFINE c == client.view
             w == sse.wire
             e == Head(w)
             u == ReduceEv(c, e)
  <1>1. During /\ w # <<>>
    BY DEF IInv, Before, After, Receive
  <1>2. /\ client \in Clients /\ sse \in Responses /\ run \in Runs /\ task \in Tasks
        /\ c \in Views /\ sse.since = 0 /\ w \in Seq(Events)
    BY ClientFields DEF IInv, Types, Responses
  <1>3. PICK v \in Views : /\ Leads(c, w, v)
                           /\ IF run.listening
                              THEN run.exists /\ run.seq = task.view.last /\ Holds(v, run.coord, task.view)
                              ELSE Arrived(v, task)
    BY <1>1 DEF During, Flows
  <1>4. /\ e \in Events /\ Tail(w) \in Seq(Events) /\ e.seq > c.last /\ c.terminal = "none"
        /\ Leads(u, Tail(w), v) /\ (u.terminal # "none" => u = v)
    BY <1>1, <1>2, <1>3, FirstLeads
  <1>5. u \in Views
    BY <1>2, <1>4, FoldedIs
  <1>6. UNCHANGED <<runtime, frames, task, due>>
    BY DEF Receive
  <1>7. CASE u.terminal # "none"
    <2>1. /\ client' = [client EXCEPT !.view = u, !.phase = "ended"]
          /\ sse' = ClosedSse /\ run' = Unsubscribe(run)
      BY <1>7 DEF Receive
    <2> HIDE DEF u
    <2>2. client' \in Clients /\ client'.view = u /\ client'.phase = "ended"
      BY <1>2, <1>5, <2>1 DEF Clients
    <2>3. sse' \in Responses /\ sse'.since = 0
      BY <2>1 DEF ClosedSse, Responses
    <2>4. run' \in Runs /\ ~run'.listening
      BY <1>2, <2>1, Unsubscribed
    <2>5. u = v /\ v.terminal # "none"
      BY <1>4, <1>7 DEF u
    <2>6. Arrived(v, task)
      BY <1>3, <2>5 DEF Holds
    <2>7. After'
      BY <1>6, <2>2, <2>4, <2>5, <2>6 DEF After, Arrived
    <2>8. Types'
      BY <1>6, <2>2, <2>3, <2>4 DEF Types, IInv
    <2>9. Calm(task')
      BY <1>6 DEF IInv
    <2>10. QED
      BY <2>3, <2>7, <2>8, <2>9 DEF IInv
  <1>8. CASE u.terminal = "none"
    <2> DEFINE rest == Tail(w)
    <2>1. client' = [client EXCEPT !.view = u] /\ sse' = [sse EXCEPT !.wire = rest] /\ run' = run
      BY <1>8 DEF Receive
    <2> HIDE DEF u, rest
    <2>2. client' \in Clients /\ client'.view = u /\ client'.phase = client.phase
      BY <1>2, <1>5, <2>1 DEF Clients
    <2>3. rest \in Seq(Events) /\ Leads(u, rest, v)
      BY <1>4 DEF u, rest
    <2>4. sse' \in Responses /\ sse'.since = 0 /\ sse'.wire = rest
      BY <1>2, <2>1, <2>3 DEF Responses
    <2>5. Flows(client'.view, sse'.wire, run', task')
      BY <1>3, <1>6, <2>1, <2>2, <2>3, <2>4 DEF Flows, Arrived
    <2>6. During'
      BY <1>1, <1>8, <2>2, <2>5 DEF During, u
    <2>7. Types'
      BY <1>6, <2>1, <2>2, <2>4 DEF Types, IInv
    <2>8. Calm(task')
      BY <1>6 DEF IInv
    <2>9. QED
      BY <2>4, <2>6, <2>7, <2>8 DEF IInv
  <1>9. QED
    BY <1>7, <1>8

-----------------------------------------------------------------------------
(* The pump and the window.                                                 *)

\* What a run emits is on the wire behind what was there.
LEMMA Delivered ==
    ASSUME sse \in Responses, sse.since = 0, NEW out \in Seq(Events),
           \A i \in DOMAIN out : out[i].seq > 0, Deliver(out)
    PROVE  sse' \in Responses /\ sse'.since = 0 /\ sse'.wire = sse.wire \o out
  <1> DEFINE still == sse.open /\ ~\E i \in DOMAIN out : IsTerminal(out[i])
             wire == sse.wire \o out
  <1>1. Fresh(out, 0) = out
    BY FreshIsAll
  <1>2. sse' = [sse EXCEPT !.wire = wire, !.open = still]
    BY <1>1 DEF Deliver
  <1>3. sse.wire \in Seq(Events)
    BY DEF Responses
  <1>4. wire \in Seq(Events) /\ still \in BOOLEAN
    BY <1>3
  <1> HIDE DEF wire, still
  <1>5. sse' \in Responses
    BY <1>2, <1>4 DEF Responses
  <1>6. sse'.since = sse.since /\ sse'.wire = wire
    BY <1>2 DEF Responses
  <1>7. QED
    BY <1>5, <1>6 DEF wire

\* What carries the renderer on, delivered, is on its wire.
LEMMA FlowsOn ==
    ASSUME NEW c \in Views, NEW w \in Seq(Events), NEW v, Leads(c, w, v),
           NEW out, NEW u, Carries(v, out, u), NEW r, NEW k,
           IF r.listening THEN r.exists /\ r.seq = k.view.last /\ Holds(u, r.coord, k.view)
                          ELSE Arrived(u, k)
    PROVE  Flows(c, w \o out, r, k)
  BY DEF Carries, Flows

LEMMA StepWindowFires ==
    ASSUME Undisturbed, IInv, WindowFires
    PROVE  IInv'
  <1> DEFINE fc == FlushPending(run.coord).coord
             fo == FlushPending(run.coord).out
  <1>1. run \in Runs /\ task \in Tasks /\ sse \in Responses /\ client \in Clients /\ sse.since = 0
    BY DEF IInv, Types
  <1>2. run.coord \in Coordinators /\ sse.wire \in Seq(Events) /\ client.view \in Views
    BY <1>1, RunFields, ClientFields DEF Responses
  <1>3. run' = [run EXCEPT !.coord = fc] /\ EmitTo(run, fo)
    BY DEF WindowFires
  <1>4. fc \in Coordinators
    BY <1>2, FlushedIs
  <1> HIDE DEF fc, fo
  <1>5. /\ run' \in Runs /\ run'.coord = fc /\ run'.listening = run.listening
        /\ run'.exists = run.exists /\ run'.seq = run.seq
    BY <1>1, <1>3, <1>4 DEF Runs
  <1>6. UNCHANGED <<runtime, frames, task, client, due>>
    BY DEF WindowFires
  <1>7. Calm(task')
    BY <1>6 DEF IInv
  <1>8. ~Before
    BY NewRuns DEF Before, WindowFires
  <1>9. CASE ~run.listening
    <2>1. sse' = sse
      BY <1>3, <1>9 DEF EmitTo
    <2>2. ASSUME During PROVE During'
      <3>1. PICK v \in Views : Leads(client.view, sse.wire, v) /\ Arrived(v, task)
        BY <1>9, <2>2 DEF During, Flows
      <3>2. Flows(client'.view, sse'.wire, run', task')
        BY <1>5, <1>6, <1>9, <2>1, <3>1 DEF Flows
      <3>3. QED
        BY <1>6, <2>2, <3>2 DEF During
    <2>3. ASSUME After PROVE After'
      BY <1>5, <1>6, <1>9, <2>3 DEF After
    <2>4. Types' /\ sse'.since = 0
      BY <1>5, <1>6, <2>1 DEF Types, IInv
    <2>5. (During \/ After)'
      BY <1>8, <2>2, <2>3 DEF IInv
    <2>6. QED
      BY <1>7, <2>4, <2>5 DEF IInv
  <1>10. CASE run.listening
    <2>1. During
      BY <1>8, <1>10 DEF After, IInv
    <2>2. PICK v \in Views : /\ Leads(client.view, sse.wire, v)
                             /\ run.exists /\ run.seq = task.view.last
                             /\ Holds(v, run.coord, task.view)
      BY <1>10, <2>1 DEF During, Flows
    <2>3. PICK u \in Views : Carries(v, fo, u) /\ Holds(u, fc, task.view)
      BY <2>2, FlushHolds DEF fo, fc
    <2>4. fo \in Seq(Events) /\ \A i \in DOMAIN fo : fo[i].seq > 0
      BY <2>3 DEF Carries
    <2>5. sse' \in Responses /\ sse'.since = 0 /\ sse'.wire = sse.wire \o fo
      BY <1>1, <1>3, <1>10, <2>4, Delivered DEF EmitTo
    <2>6. Flows(client.view, sse.wire \o fo, run', task)
      BY <1>2, <1>5, <1>10, <2>2, <2>3, FlowsOn
    <2>7. During'
      BY <1>6, <2>1, <2>5, <2>6 DEF During
    <2>8. Types'
      BY <1>5, <1>6, <2>5 DEF Types, IInv
    <2>9. QED
      BY <1>7, <2>5, <2>7, <2>8 DEF IInv
  <1>11. QED
    BY <1>1, <1>9, <1>10, RunFields

\* What an activity frame does to a task that is live and to the run that somebody
\* listens to: the registry folds it, and the buffer still leads to the registry's view.
LEMMA ActivityReached ==
    ASSUME NEW v, NEW r \in Runs, NEW k \in Tasks, Holds(v, r.coord, k.view),
           r.seq = k.view.last, ~k.frozen, NEW frame \in Frames, frame.kind \in ActivityKinds
    PROVE  LET fed == Ingest(r, frame)
               l == ApplyAll(k, fed.events)
           IN  /\ l \in Tasks /\ SameCalls(l, k) /\ ~l.frozen /\ l.view.terminal = "none"
               /\ l.view.text = IF frame.kind = "token" THEN Append(k.view.text, frame.id)
                                                        ELSE k.view.text
               /\ fed.run.exists = r.exists /\ fed.run.listening = r.listening
               /\ fed.run.seq = l.view.last
               /\ \E u \in Views : Carries(v, fed.out, u) /\ Holds(u, fed.run.coord, l.view)
  <1> DEFINE n == r.seq
             ids == <<frame.id>>
             e == Event(n + 1, frame.kind, ids)
             events == MapFrame(n, frame)
             d == Push(r.coord, e).coord
             o == Push(r.coord, e).out
             after == [r EXCEPT !.seq = n + 1, !.coord = d, !.opened = TRUE]
             l == Apply(k, e)
             text == k.view.text
  <1>1. /\ k.view \in Views /\ n \in Nat /\ r.coord \in Coordinators /\ k.view.terminal = "none"
        /\ text \in Seq(Nat) /\ frame.id \in Nat
    BY RunFields, TaskFields, ViewFields, FrameFields DEF Holds
  <1>2. /\ n + 1 \in Nat /\ n + 1 > k.view.last /\ ids \in Seq(Nat) /\ frame.kind \in EventKinds
        /\ frame.kind \notin TerminalKinds /\ frame.kind \notin EndKinds
    BY <1>1 DEF ActivityKinds, EventKinds, TerminalKinds, EndKinds
  <1>3. events = <<e>>
    BY <1>1, MappedIs
  <1>4. e \in Events /\ e.seq = n + 1 /\ e.kind = frame.kind /\ e.ids = ids /\ ~IsTerminal(e)
    BY <1>2 DEF Event, Events, IsTerminal
  <1> HIDE DEF e, ids
  <1>5. ApplyAll(k, events) = l /\ PushAll(r.coord, events) = Push(r.coord, e) /\ Len(events) = 1
    BY <1>3, OneEvent
  <1> HIDE DEF events, after
  <1>6. Ingest(r, frame) = [events |-> events, out |-> o, run |-> after]
    BY <1>2, <1>5 DEF Ingest, events, after
  <1>7. l \in Tasks /\ SameCalls(l, k) /\ ~l.frozen /\ l.view = ReduceEv(k.view, e)
    BY <1>1, <1>2, <1>4, AppliedIs
  <1>8. /\ l.view.terminal = "none" /\ l.view.last = n + 1
        /\ l.view.text = IF frame.kind = "token" THEN text \o ids ELSE text
    BY <1>1, <1>2, <1>4, <1>7, FoldedIs
  <1>9. text \o ids = Append(text, frame.id)
    BY <1>1 DEF ids
  <1>10. \E u \in Views : Carries(v, o, u) /\ Holds(u, d, l.view)
    BY <1>2, <1>4, <1>7, ActivityHolds
  <1>11. d \in Coordinators
    BY <1>1, <1>4, PushTypes
  <1> HIDE DEF l, d, o
  <1>12. after.exists = r.exists /\ after.listening = r.listening /\ after.seq = n + 1 /\ after.coord = d
    BY DEF after, Runs
  <1>13. /\ Ingest(r, frame).events = events /\ Ingest(r, frame).out = o
         /\ Ingest(r, frame).run = after
    BY <1>6
  <1>14. QED
    BY <1>5, <1>7, <1>8, <1>9, <1>10, <1>12, <1>13

\* Nobody listens: the task is over and stays as it is.
LEMMA StepDispatchUnheard ==
    ASSUME Undisturbed, IInv, PumpDispatch, ~run.listening
    PROVE  IInv'
  <1> DEFINE r == IF run.exists THEN run ELSE NewRun
             frame == Head(frames)
             fed == Ingest(r, frame)
  <1>1. ~Before /\ frames # <<>>
    BY DEF Before, PumpDispatch
  <1>2. task.frozen
    BY <1>1 DEF During, After, Flows, Arrived, IInv
  <1>3. run \in Runs /\ frames \in Seq(Frames)
    BY DEF IInv, Types
  <1>4. r \in Runs /\ ~r.listening /\ frame \in Frames
    BY <1>1, <1>3, NewRuns
  <1>5. task' = ApplyAll(task, fed.events) /\ run' = fed.run /\ sse' = sse
    BY DEF PumpDispatch, EmitTo
  <1> HIDE DEF r, frame
  <1>6. fed.run \in Runs /\ ~fed.run.listening
    BY <1>4, IngestedRun
  <1>7. ApplyAll(task, fed.events) = task
    BY <1>2, FrozenApplied
  <1> HIDE DEF fed
  <1>8. UNCHANGED <<runtime, client, sse, task, due>> /\ frames' = Tail(frames)
    BY <1>5, <1>7 DEF PumpDispatch
  <1>9. run' \in Runs /\ ~run'.listening
    BY <1>5, <1>6
  <1>10. frames' \in Seq(Frames)
    BY <1>1, <1>3, <1>8
  <1>11. Types'
    BY <1>8, <1>9, <1>10 DEF Types, IInv
  <1>12. Calm(task') /\ sse'.since = 0
    BY <1>8 DEF IInv
  <1>13. ASSUME During PROVE During'
    <2>1. PICK v \in Views : Leads(client.view, sse.wire, v) /\ Arrived(v, task)
      BY <1>13 DEF During, Flows
    <2>2. Flows(client'.view, sse'.wire, run', task')
      BY <1>8, <1>9, <2>1 DEF Flows
    <2>3. QED
      BY <1>8, <1>13, <2>2 DEF During
  <1>14. ASSUME After PROVE After'
    BY <1>8, <1>9, <1>14 DEF After
  <1>15. QED
    BY <1>1, <1>11, <1>12, <1>13, <1>14 DEF IInv

LEMMA SameCallsCalm ==
    ASSUME NEW k, NEW l, Calm(k), SameCalls(l, k), l.frozen <=> l.view.terminal # "none"
    PROVE  Calm(l)
  BY DEF Calm, SameCalls

\* Somebody listens: the session is live, and what is emitted is delivered.
LEMMA StepDispatchHeard ==
    ASSUME Undisturbed, IInv, PumpDispatch, run.listening
    PROVE  IInv'
  <1> DEFINE frame == Head(frames)
             fed == Ingest(run, frame)
             l == ApplyAll(task, fed.events)
  <1>1. During /\ frames # <<>>
    BY NewRuns DEF Before, After, IInv, PumpDispatch
  <1>2. /\ run \in Runs /\ task \in Tasks /\ sse \in Responses /\ client \in Clients
        /\ frames \in Seq(Frames) /\ sse.since = 0 /\ Calm(task)
    BY DEF IInv, Types
  <1>3. /\ sse.wire \in Seq(Events) /\ client.view \in Views
    BY <1>2, ClientFields DEF Responses
  <1>4. PICK v \in Views : /\ Leads(client.view, sse.wire, v)
                           /\ run.exists /\ run.seq = task.view.last
                           /\ Holds(v, run.coord, task.view)
    BY <1>1 DEF During, Flows
  <1>5. ~task.frozen
    BY <1>2, <1>4 DEF Holds, Calm
  <1>6. /\ frame \in Frames /\ Tail(frames) \in Seq(Frames)
    BY <1>1, <1>2
  <1>7. task' = l /\ run' = fed.run /\ Deliver(fed.out)
    BY <1>4 DEF PumpDispatch, EmitTo
  <1>8. frames' = Tail(frames) /\ UNCHANGED <<runtime, client, due>>
    BY DEF PumpDispatch
  <1>9. fed.run \in Runs
    BY <1>2, <1>6, IngestedRun
  <1> HIDE DEF frame
  <1>10. /\ l \in Tasks /\ Calm(l)
         /\ \E u \in Views :
               /\ Carries(v, fed.out, u)
               /\ IF fed.run.listening
                  THEN fed.run.exists /\ fed.run.seq = l.view.last /\ Holds(u, fed.run.coord, l.view)
                  ELSE Arrived(u, l)
    <2>1. CASE frame.kind \in ActivityKinds
      <3>1. /\ l \in Tasks /\ SameCalls(l, task) /\ ~l.frozen /\ l.view.terminal = "none"
            /\ l.view.text = IF frame.kind = "token" THEN Append(task.view.text, frame.id)
                                                     ELSE task.view.text
            /\ fed.run.exists = run.exists /\ fed.run.listening = run.listening
            /\ fed.run.seq = l.view.last
            /\ \E u \in Views : Carries(v, fed.out, u) /\ Holds(u, fed.run.coord, l.view)
        BY <1>2, <1>4, <1>5, <1>6, <2>1, ActivityReached
      <3> HIDE DEF l, fed
      <3>2. Calm(l)
        BY <1>2, <3>1, SameCallsCalm
      <3>3. QED
        BY <1>4, <3>1, <3>2
    <2>2. CASE frame.kind \in EndKinds
      <3> DEFINE events == MapFrame(task.view.last, frame)
                 pushed == PushAll(run.coord, events)
                 out == pushed.out \o Flush(pushed.coord).out
      <3>1. /\ ApplyAll(task, events) \in Tasks /\ SameCalls(ApplyAll(task, events), task)
            /\ ApplyAll(task, events).frozen /\ ApplyAll(task, events).view.terminal # "none"
            /\ ApplyAll(task, events).view.text = task.view.text
            /\ Carries(v, out, ApplyAll(task, events).view)
        BY <1>2, <1>4, <1>5, <1>6, <2>2, EndReached
      <3>2. fed = [events |-> events, run |-> NoRun, out |-> out]
        BY <1>4, <2>2 DEF Ingest
      <3> HIDE DEF events, out, fed
      <3>3. fed.events = events /\ fed.out = out /\ fed.run = NoRun
        BY <3>2
      <3>4. /\ l \in Tasks /\ SameCalls(l, task) /\ l.frozen /\ l.view.terminal # "none"
            /\ l.view.text = task.view.text /\ Carries(v, fed.out, l.view)
        BY <3>1, <3>3
      <3> HIDE DEF l
      <3>5. Calm(l)
        BY <1>2, <3>4, SameCallsCalm
      <3>6. l.view \in Views /\ Arrived(l.view, l)
        BY <3>4, TaskFields, ViewFields DEF Arrived
      <3>7. QED
        BY <1>6, <3>3, <3>4, <3>5, <3>6, NewRuns
    <2>3. QED
      BY <1>6, <2>1, <2>2, FrameFields
  <1> HIDE DEF l, fed
  <1>11. PICK u \in Views :
            /\ Carries(v, fed.out, u)
            /\ IF fed.run.listening
               THEN fed.run.exists /\ fed.run.seq = l.view.last /\ Holds(u, fed.run.coord, l.view)
               ELSE Arrived(u, l)
    BY <1>10
  <1>12. fed.out \in Seq(Events) /\ \A i \in DOMAIN fed.out : fed.out[i].seq > 0
    BY <1>11 DEF Carries
  <1>13. sse' \in Responses /\ sse'.since = 0 /\ sse'.wire = sse.wire \o fed.out
    BY <1>2, <1>7, <1>12, Delivered
  <1>14. Flows(client.view, sse.wire \o fed.out, fed.run, l)
    BY <1>3, <1>4, <1>11, FlowsOn
  <1>15. During'
    BY <1>1, <1>7, <1>8, <1>13, <1>14 DEF During
  <1>16. Types'
    BY <1>2, <1>6, <1>7, <1>8, <1>9, <1>10, <1>13 DEF Types, IInv
  <1>17. Calm(task')
    BY <1>7, <1>8, <1>10
  <1>18. QED
    BY <1>13, <1>15, <1>16, <1>17 DEF IInv

-----------------------------------------------------------------------------
(* Nothing disturbs the session, and so the invariant holds.                *)

\* Without interrupts, reopenings and drops these cannot happen, and a renderer that is
\* not over has not seen an end.
LEMMA NothingElse ==
    ASSUME Undisturbed, IInv
    PROVE  /\ ~CancelAborts /\ ~CancelSettles /\ ~CancelFails /\ ~CancelUnbound /\ ~Deny
           /\ ~ContinueCalled /\ ~ContinueSettles /\ ~OpenFinished /\ ~Disconnect
  <1>1. /\ task \in Tasks /\ client \in Clients /\ task.cancelling = "no" /\ task.continuing = 0
    BY DEF IInv, Types, Calm
  <1>2. ~(task.interrupts < MaxInterrupts) /\ ~(task.continues < MaxContinues)
        /\ ~(client.drops < MaxDrops)
    BY <1>1, TaskFields, ClientFields DEF Undisturbed
  <1>3. ~CancelAborts /\ ~CancelUnbound /\ ~Deny /\ ~ContinueCalled /\ ~Disconnect
    BY <1>2 DEF CancelAborts, CancelUnbound, Deny, ContinueCalled, Disconnect
  <1>4. ~CancelSettles /\ ~CancelFails /\ ~ContinueSettles
    BY <1>1 DEF CancelSettles, CancelFails, ContinueSettles
  <1>5. ~OpenFinished
    BY InitialFacts DEF OpenFinished, IInv, Before, During, After
  <1>6. QED
    BY <1>3, <1>4, <1>5

LEMMA StepIInv ==
    ASSUME Undisturbed, IInv, [Next]_vars
    PROVE  IInv'
  <1>1. CASE Prompt
    BY <1>1, StepPrompt
  <1>2. CASE PromptArrives \/ PromptFails \/ LoseFrame
    BY <1>2, StepUpstream
  <1>3. CASE \E kind \in ActivityKinds : RuntimeWorks(kind)
    BY <1>3, StepUpstream
  <1>4. CASE \E kind \in EndKinds : RuntimeEnds(kind)
    BY <1>4, StepUpstream
  <1>5. CASE PumpDispatch
    BY <1>5, StepDispatchHeard, StepDispatchUnheard
  <1>6. CASE WindowFires
    BY <1>6, StepWindowFires
  <1>7. CASE LoadSnapshot
    BY <1>7, StepLoadSnapshot
  <1>8. CASE Subscribe
    BY <1>8, StepSubscribe
  <1>9. CASE Receive
    BY <1>9, StepReceive
  <1>10. CASE UNCHANGED vars
    <2>1. UNCHANGED <<runtime, frames, task, run, sse, client, due>>
      BY <1>10 DEF vars
    <2>2. Types' /\ Calm(task') /\ sse'.since = 0
      BY <2>1 DEF IInv, Types
    <2>3. Before => Before'
      BY <2>1 DEF Before
    <2>4. During \/ After => (During \/ After)'
      BY <2>1, SamePhase
    <2>5. QED
      BY <2>2, <2>3, <2>4 DEF IInv
  <1>11. QED
    BY <1>1, <1>2, <1>3, <1>4, <1>5, <1>6, <1>7, <1>8, <1>9, <1>10, NothingElse DEF Next


THEOREM StreamSafety ==
    ASSUME Undisturbed
    PROVE  Spec => []IInv
  <1>1. Init => IInv
    BY InitIInv
  <1>2. IInv /\ [Next]_vars => IInv'
    BY StepIInv
  <1>3. QED
    BY <1>1, <1>2, PTL DEF Spec

\* The view of a task that is over is at least as current as one that arrived at it.
LEMMA ArrivedIsCurrent ==
    ASSUME NEW v \in Views, NEW k \in Tasks, Arrived(v, k)
    PROVE  AtLeastAsCurrent(k.view, v)
  <1>1. k.view \in Views /\ v.text \in Seq(Nat) /\ v.items \in Seq(Nat)
    BY TaskFields, ViewFields
  <1>2. IsPrefix(v.text, v.text) /\ IsPrefix(v.items, v.items)
    BY <1>1, PrefixFacts
  <1>3. QED
    BY <1>2 DEF Arrived, AtLeastAsCurrent

LEMMA HeldIsCurrent ==
    ASSUME NEW v, NEW c, NEW t, Holds(v, c, t)
    PROVE  AtLeastAsCurrent(t, v)
  <1>1. /\ v \in Views /\ t \in Views /\ c \in Coordinators /\ v.last <= t.last
        /\ v.terminal = "none" /\ t.text = v.text \o c.pending.ids /\ t.items = v.items
    BY DEF Holds
  <1>2. c.pending.ids \in Seq(Nat) /\ <<>> \in Seq(Nat) /\ t.items = v.items \o <<>>
    BY <1>1, CoordinatorFields, ViewFields, Joining
  <1>3. QED
    BY <1>1, <1>2, GoesOnIsCurrent

LEMMA InvCurrent ==
    ASSUME IInv
    PROVE  SnapshotIsCurrent
  <1>1. client \in Clients /\ task \in Tasks
    BY DEF IInv, Types
  <1>2. client.view \in Views /\ task.view \in Views
    BY <1>1, ClientFields, TaskFields
  <1>3. CASE Before
    BY <1>2, <1>3, CurrentFacts DEF Before, SnapshotIsCurrent
  <1>4. CASE During
    <2>1. PICK v \in Views : /\ Leads(client.view, sse.wire, v)
                             /\ IF run.listening
                                THEN Holds(v, run.coord, task.view)
                                ELSE Arrived(v, task)
      BY <1>4 DEF During, Flows
    <2>2. sse.wire \in Seq(Events)
      BY DEF IInv, Types, Responses
    <2>3. AtLeastAsCurrent(v, client.view)
      BY <2>1, <2>2, LeadsAhead
    <2>4. AtLeastAsCurrent(task.view, v)
      BY <1>1, <2>1, ArrivedIsCurrent, HeldIsCurrent
    <2>5. QED
      BY <1>2, <2>3, <2>4, CurrentFacts DEF SnapshotIsCurrent
  <1>5. CASE After
    BY <1>1, <1>2, <1>5, ArrivedIsCurrent DEF After, SnapshotIsCurrent
  <1>6. QED
    BY <1>3, <1>4, <1>5 DEF IInv

\* For a session that nothing disturbs, however many frames are sent or lost and
\* however large the batches: the registry's view is at every moment at least as
\* current as what the renderer has seen (apply comes before emit).
THEOREM StreamInvAlways ==
    ASSUME Undisturbed
    PROVE  Spec => []StreamInv
  <1>1. IInv => TypeOK
    BY DEF IInv, Types, TypeOK, Runtimes, Frames, Tasks, Runs, Responses, Clients
  <1>2. IInv => StreamInv
    BY <1>1, InvCurrent DEF StreamInv
  <1>3. QED
    BY <1>2, StreamSafety, PTL

\* A renderer of such a session that was shown the end was shown the whole turn: nothing
\* is left in the buffer, on the wire or behind its cursor.
THEOREM EndIsCompleteAlways ==
    ASSUME Undisturbed
    PROVE  Spec => []EndIsComplete
  <1>1. IInv => EndIsComplete
    BY DEF IInv, Before, During, After, Arrived, EndIsComplete
  <1>2. QED
    BY <1>1, StreamSafety, PTL

-----------------------------------------------------------------------------
(* A run has an owner, whatever happens.                                    *)

Owned ==
    /\ runtime \in Runtimes
    /\ frames \in Seq(Frames)
    /\ run \in Runs
    /\ RunIsOwned

LEMMA InitOwned ==
    ASSUME Init
    PROVE  Owned
  <1>1. 0 \in 0 .. MaxEnds /\ 0 \in 0 .. MaxLosses
    BY BoundsAssumption
  <1>2. runtime \in Runtimes
    BY <1>1 DEF Init, Runtimes
  <1>3. QED
    BY <1>2, NewRuns DEF Init, Owned, RunIsOwned

LEMMA StepOwned ==
    ASSUME Owned, [Next]_vars
    PROVE  Owned'
  <1>1. run \in Runs /\ run.exists \in BOOLEAN /\ run.coord \in Coordinators
    BY RunFields DEF Owned
  <1>2. runtime' \in Runtimes /\ frames' \in Seq(Frames)
    BY UpstreamTypes DEF Owned
  <1>3. SUFFICES run' \in Runs /\ (run'.exists => run'.opened \/ run'.listening)
    BY <1>2 DEF Owned, RunIsOwned
  <1>4. CASE run' = run
    BY <1>4 DEF Owned, RunIsOwned
  <1>5. CASE PumpDispatch
    <2> DEFINE r == IF run.exists THEN run ELSE NewRun
               frame == Head(frames)
    <2>1. frame \in Frames /\ r \in Runs
      BY <1>1, <1>5, NewRuns DEF PumpDispatch, Owned
    <2>2. run' = Ingest(r, frame).run
      BY <1>5 DEF PumpDispatch
    <2> HIDE DEF r, frame
    <2>3. QED
      BY <2>1, <2>2, IngestedRun
  <1>6. CASE WindowFires
    <2> DEFINE fc == FlushPending(run.coord).coord
    <2>1. run' = [run EXCEPT !.coord = fc]
      BY <1>6 DEF WindowFires
    <2>2. fc \in Coordinators
      BY <1>1, FlushedIs
    <2> HIDE DEF fc
    <2>3. /\ run' \in Runs /\ run'.exists = run.exists /\ run'.opened = run.opened
          /\ run'.listening = run.listening
      BY <1>1, <2>1, <2>2 DEF Runs
    <2>4. QED
      BY <2>3 DEF Owned, RunIsOwned
  <1>7. CASE Subscribe
    <2> DEFINE r == IF run.exists THEN run ELSE NewRun
    <2>1. r \in Runs /\ run' = [r EXCEPT !.listening = TRUE]
      BY <1>1, <1>7, NewRuns DEF Subscribe
    <2> HIDE DEF r
    <2>2. QED
      BY <2>1 DEF Runs
  <1>8. CASE run' = Unsubscribe(run)
    <2>1. CASE run.exists /\ ~run.opened
      BY <1>8, <2>1, NewRuns DEF Unsubscribe
    <2>2. CASE ~(run.exists /\ ~run.opened)
      <3>1. run' = [run EXCEPT !.listening = FALSE]
        BY <1>8, <2>2 DEF Unsubscribe
      <3>2. run' \in Runs /\ run'.exists = run.exists /\ run'.opened = run.opened
        BY <1>1, <3>1 DEF Runs
      <3>3. QED
        BY <2>2, <3>2
    <2>3. QED
      BY <2>1, <2>2
  <1>9. CASE Receive \/ Disconnect
    <2>1. run' = run \/ run' = Unsubscribe(run)
      BY <1>9 DEF Receive, Disconnect
    <2>2. QED
      BY <1>4, <1>8, <2>1
  <1>10. CASE \/ Prompt \/ PromptArrives \/ PromptFails \/ (\E kind \in ActivityKinds : RuntimeWorks(kind))
              \/ (\E kind \in EndKinds : RuntimeEnds(kind)) \/ LoseFrame \/ CancelAborts
              \/ CancelSettles \/ CancelFails \/ CancelUnbound \/ Deny \/ ContinueCalled
              \/ ContinueSettles \/ LoadSnapshot \/ OpenFinished \/ UNCHANGED vars
    <2>1. run' = run
      BY <1>10 DEF Prompt, PromptArrives, PromptFails, RuntimeWorks, RuntimeEnds, LoseFrame,
                   CancelAborts, CancelSettles, CancelFails, CancelUnbound, Deny, ContinueCalled, ContinueSettles,
                   LoadSnapshot, OpenFinished, vars
    <2>2. QED
      BY <1>4, <2>1
  <1>11. QED
    BY <1>5, <1>6, <1>7, <1>9, <1>10 DEF Next

\* Under every cancel, denial, reopening, broken connection and lost frame: a run that
\* exists has somebody who will end it, the pump that feeds it or a listener whose
\* detachment evicts it.
THEOREM RunIsOwnedAlways == Spec => []RunIsOwned
  <1>1. Owned => RunIsOwned
    BY DEF Owned
  <1>2. QED
    BY <1>1, InitOwned, StepOwned, PTL DEF Spec

-----------------------------------------------------------------------------
(* The outcome is final, whatever happens.                                  *)

\* Reopening reads a text back from the runtime whose type nothing here tells, so what is
\* kept of a task is that it is made of its parts.
Shaped(k) ==
    /\ k \in [view : {k.view}, frozen : BOOLEAN, bound : BOOLEAN, cancelling : {k.cancelling},
             interrupts : {k.interrupts}, continuing : {k.continuing}, continues : {k.continues}]
    /\ k.view = [last |-> k.view.last, terminal |-> k.view.terminal, text |-> k.view.text,
                 items |-> k.view.items]

\* A task that is over is frozen.
Sealed(k) == Shaped(k) /\ (k.view.terminal # "none" => k.frozen)

\* The task l has the outcome of k, and what k produced.
SameOutcome(l, k) ==
    /\ l.view.terminal = k.view.terminal
    /\ l.view.text = k.view.text
    /\ l.view.items = k.view.items

\* The reopenings under way and those there were are the same.
SameReopenings(l, k) == l.continuing = k.continuing /\ l.continues = k.continues

LEMMA ReducedIs ==
    ASSUME NEW k, Shaped(k), NEW e
    PROVE  LET u == ReduceEv(k.view, e) IN
           /\ u = [last |-> u.last, terminal |-> u.terminal, text |-> u.text, items |-> u.items]
           /\ k.view.terminal # "none" /\ IsTerminal(e) =>
                /\ u.terminal = k.view.terminal
                /\ u.text = k.view.text
                /\ u.items = k.view.items
  <1> DEFINE v == k.view
             g == FoldOne(v, e)
             u == ReduceEv(v, e)
  <1>1. v = [last |-> v.last, terminal |-> v.terminal, text |-> v.text, items |-> v.items]
    BY DEF Shaped
  <1> HIDE DEF v
  <1>2. /\ g = [last |-> g.last, terminal |-> g.terminal, text |-> g.text, items |-> g.items]
        /\ v.terminal # "none" /\ IsTerminal(e) =>
             g.terminal = v.terminal /\ g.text = v.text /\ g.items = v.items
    BY <1>1 DEF FoldOne
  <1> HIDE DEF g
  <1>3. u = v \/ u = [g EXCEPT !.last = e.seq]
    BY DEF ReduceEv, g
  <1>4. CASE u = v
    BY <1>1, <1>4 DEF v
  <1>5. CASE u = [g EXCEPT !.last = e.seq]
    <2>1. u = [last |-> e.seq, terminal |-> g.terminal, text |-> g.text, items |-> g.items]
      BY <1>2, <1>5
    <2>2. QED
      BY <1>2, <2>1 DEF v
  <1>6. QED
    BY <1>3, <1>4, <1>5

\* An event at a task.
LEMMA SealedApplied ==
    ASSUME NEW k, Sealed(k), NEW e
    PROVE  /\ Sealed(Apply(k, e))
           /\ SameReopenings(Apply(k, e), k)
           /\ k.view.terminal # "none" => Apply(k, e) = k
  <1> DEFINE u == ReduceEv(k.view, e)
             over == u.terminal # "none"
             a == [k EXCEPT !.view = u, !.frozen = over]
  <1>1. CASE k.frozen
    BY <1>1 DEF Apply, SameReopenings
  <1>2. CASE ~k.frozen
    <2>1. k.view.terminal = "none"
      BY <1>2 DEF Sealed
    <2>2. Apply(k, e) = a
      BY <1>2 DEF Apply
    <2>3. u = [last |-> u.last, terminal |-> u.terminal, text |-> u.text, items |-> u.items]
      BY ReducedIs DEF Sealed
    <2> HIDE DEF u
    <2>4. a \in [view : {u}, frozen : BOOLEAN, bound : BOOLEAN, cancelling : {k.cancelling},
                 interrupts : {k.interrupts}, continuing : {k.continuing}, continues : {k.continues}]
          /\ a.frozen = over
      BY DEF Sealed, Shaped
    <2>5. Shaped(a) /\ a.view = u /\ a.frozen = over /\ SameReopenings(a, k)
      BY <2>3, <2>4 DEF Shaped, SameReopenings
    <2>6. QED
      BY <2>1, <2>2, <2>5 DEF Sealed
  <1>3. QED
    BY <1>1, <1>2

\* A cancel at a task.
LEMMA SealedCancelled ==
    ASSUME NEW k, Sealed(k)
    PROVE  /\ Sealed(Cancelled(k))
           /\ SameReopenings(Cancelled(k), k)
           /\ k.view.terminal # "none" => SameOutcome(Cancelled(k), k)
  <1> DEFINE e == OutsideTerminal(k, "cancelled")
             u == ReduceEv(k.view, e)
             a == [k EXCEPT !.view = u, !.frozen = TRUE]
  <1>1. IsTerminal(e)
    BY DEF OutsideTerminal, Event, IsTerminal, TerminalKinds
  <1>2. /\ u = [last |-> u.last, terminal |-> u.terminal, text |-> u.text, items |-> u.items]
        /\ k.view.terminal # "none" =>
             u.terminal = k.view.terminal /\ u.text = k.view.text /\ u.items = k.view.items
    BY <1>1, ReducedIs DEF Sealed
  <1>3. Cancelled(k) = a
    BY DEF Cancelled
  <1> HIDE DEF u
  <1>4. a \in [view : {u}, frozen : BOOLEAN, bound : BOOLEAN, cancelling : {k.cancelling},
               interrupts : {k.interrupts}, continuing : {k.continuing}, continues : {k.continues}]
        /\ a.frozen
    BY DEF Sealed, Shaped
  <1>5. Shaped(a) /\ a.view = u /\ a.frozen /\ SameReopenings(a, k)
    BY <1>2, <1>4 DEF Shaped, SameReopenings
  <1> HIDE DEF a
  <1>6. QED
    BY <1>2, <1>3, <1>5 DEF Sealed, SameOutcome

\* A step leaves the outcome of a session that is over alone, or it is a reopening.
Kept ==
    /\ Sealed(task')
    /\ SameReopenings(task', task)
    /\ task.view.terminal # "none" => SameOutcome(task', task)

Called ==
    /\ Sealed(task')
    /\ task.view.terminal # "none" /\ SameOutcome(task', task)
    /\ task.continues < MaxContinues
    /\ task'.continues = task.continues + 1
    /\ task'.continuing = task.continuing + 1

Settled ==
    /\ Sealed(task')
    /\ task.continuing > 0
    /\ task'.continues = task.continues
    /\ task'.continuing = task.continuing - 1

LEMMA TaskSteps ==
    ASSUME Sealed(task), [Next]_vars
    PROVE  Kept \/ Called \/ Settled
  <1>1. Shaped(task) /\ (task.view.terminal # "none" => task.frozen)
    BY DEF Sealed
  <1>2. ASSUME task'.view = task.view, task'.frozen = task.frozen, Shaped(task'),
               SameReopenings(task', task)
        PROVE  Kept
    BY <1>1, <1>2 DEF Kept, Sealed, SameOutcome
  <1>3. CASE task' = task
    BY <1>1, <1>3 DEF Kept, Sealed, SameOutcome, SameReopenings
  <1>4. CASE Prompt
    <2>1. task' = [task EXCEPT !.bound = TRUE]
      BY <1>4 DEF Prompt
    <2>2. /\ Shaped(task') /\ task'.view = task.view /\ task'.frozen = task.frozen
          /\ SameReopenings(task', task)
      BY <1>1, <2>1 DEF Shaped, SameReopenings
    <2>3. QED
      BY <1>2, <2>2
  <1>5. CASE PumpDispatch
    <2>1. PICK events : task' = ApplyAll(task, events)
      BY <1>5 DEF PumpDispatch
    <2> DEFINE l == Apply(task, events[1])
    <2>2. Sealed(l) /\ SameReopenings(l, task) /\ (task.view.terminal # "none" => l = task)
      BY SealedApplied
    <2> DEFINE m == Apply(l, events[2])
    <2>3. Sealed(m) /\ SameReopenings(m, l) /\ (l.view.terminal # "none" => m = l)
      BY <2>2, SealedApplied
    <2>4. task' = l \/ task' = m
      BY <2>1 DEF ApplyAll
    <2> HIDE DEF l, m
    <2>5. QED
      BY <2>2, <2>3, <2>4 DEF Kept, SameReopenings, SameOutcome
  <1>6. CASE CancelAborts
    <2>1. PICK told \in {"reached", "failed"}, n \in {task.interrupts + 1} :
             task' = [task EXCEPT !.interrupts = n, !.cancelling = told]
      BY <1>6 DEF CancelAborts
    <2>2. /\ Shaped(task') /\ task'.view = task.view /\ task'.frozen = task.frozen
          /\ SameReopenings(task', task)
      BY <1>1, <2>1 DEF Shaped, SameReopenings
    <2>3. QED
      BY <1>2, <2>2
  <1>7. CASE CancelFails
    <2>1. task' = [task EXCEPT !.cancelling = "no"]
      BY <1>7 DEF CancelFails
    <2>2. /\ Shaped(task') /\ task'.view = task.view /\ task'.frozen = task.frozen
          /\ SameReopenings(task', task)
      BY <1>1, <2>1 DEF Shaped, SameReopenings
    <2>3. QED
      BY <1>2, <2>2
  <1>8. ASSUME NEW l, Sealed(l), SameReopenings(l, task),
               task.view.terminal # "none" => SameOutcome(l, task),
               Shaped(task'), task'.view = l.view, task'.frozen = l.frozen, SameReopenings(task', l)
        PROVE  Kept
    BY <1>8 DEF Kept, Sealed, SameOutcome, SameReopenings
  <1>9. CASE CancelSettles
    <2> DEFINE l == Cancelled(task)
    <2>1. Sealed(l) /\ SameReopenings(l, task) /\ (task.view.terminal # "none" => SameOutcome(l, task))
      BY SealedCancelled
    <2>2. task' = [l EXCEPT !.cancelling = "no"]
      BY <1>9 DEF CancelSettles
    <2> HIDE DEF l
    <2>3. Shaped(task') /\ task'.view = l.view /\ task'.frozen = l.frozen /\ SameReopenings(task', l)
      BY <2>1, <2>2 DEF Sealed, Shaped, SameReopenings
    <2>4. QED
      BY <1>8, <2>1, <2>3
  <1>10. CASE CancelUnbound
    <2> DEFINE l == Cancelled(task)
    <2>1. Sealed(l) /\ SameReopenings(l, task) /\ (task.view.terminal # "none" => SameOutcome(l, task))
      BY SealedCancelled
    <2>2. PICK n \in {l.interrupts + 1} : task' = [l EXCEPT !.interrupts = n]
      BY <1>10 DEF CancelUnbound
    <2> HIDE DEF l
    <2>3. Shaped(task') /\ task'.view = l.view /\ task'.frozen = l.frozen /\ SameReopenings(task', l)
      BY <2>1, <2>2 DEF Sealed, Shaped, SameReopenings
    <2>4. QED
      BY <1>8, <2>1, <2>3
  <1>11. CASE Deny
    <2> DEFINE l == Apply(task, OutsideTerminal(task, "denied"))
    <2>1. Sealed(l) /\ SameReopenings(l, task) /\ (task.view.terminal # "none" => l = task)
      BY SealedApplied
    <2>2. PICK n \in {l.interrupts + 1} : task' = [l EXCEPT !.interrupts = n]
      BY <1>11 DEF Deny
    <2> HIDE DEF l
    <2>3. Shaped(task') /\ task'.view = l.view /\ task'.frozen = l.frozen /\ SameReopenings(task', l)
      BY <2>1, <2>2 DEF Sealed, Shaped, SameReopenings
    <2>4. task.view.terminal # "none" => SameOutcome(l, task)
      BY <2>1 DEF SameOutcome
    <2>5. QED
      BY <1>8, <2>1, <2>3, <2>4
  <1>12. CASE ContinueCalled
    <2>1. PICK n \in {task.continues + 1}, m \in {task.continuing + 1} :
             task' = [task EXCEPT !.continues = n, !.continuing = m]
      BY <1>12 DEF ContinueCalled
    <2>2. /\ Shaped(task') /\ task'.view = task.view /\ task'.frozen = task.frozen
          /\ task'.continues = n /\ task'.continuing = m
      BY <1>1, <2>1 DEF Shaped
    <2>3. QED
      BY <1>1, <1>12, <2>1, <2>2 DEF Called, ContinueCalled, Sealed, SameOutcome
  <1>13. CASE ContinueSettles
    <2> DEFINE fresh == [last |-> runtime.sent, terminal |-> "none",
                         text |-> runtime.text, items |-> runtime.items]
               cancelling == IF task.cancelling = "no" THEN "no" ELSE "stale"
    <2>1. PICK m \in {task.continuing - 1} :
             task' = [task EXCEPT !.continuing = m, !.frozen = FALSE, !.bound = FALSE,
                                  !.cancelling = cancelling, !.view = fresh]
      BY <1>13 DEF ContinueSettles
    <2>2. /\ fresh.terminal = "none"
          /\ fresh = [last |-> fresh.last, terminal |-> fresh.terminal, text |-> fresh.text,
                      items |-> fresh.items]
      OBVIOUS
    <2> HIDE DEF fresh, cancelling
    <2>3. Shaped(task') /\ task'.view = fresh /\ task'.continuing = m /\ task'.continues = task.continues
      BY <1>1, <2>1, <2>2 DEF Shaped
    <2>4. QED
      BY <1>13, <2>1, <2>2, <2>3 DEF Settled, Sealed, ContinueSettles
  <1>14. CASE \/ (\E kind \in ActivityKinds : RuntimeWorks(kind))
              \/ (\E kind \in EndKinds : RuntimeEnds(kind)) \/ WindowFires \/ LoseFrame
              \/ LoadSnapshot \/ OpenFinished \/ Subscribe \/ Receive \/ Disconnect
              \/ PromptArrives \/ PromptFails \/ UNCHANGED vars
    <2>1. task' = task
      BY <1>14 DEF PromptArrives, PromptFails, RuntimeWorks, RuntimeEnds, WindowFires, LoseFrame, LoadSnapshot, OpenFinished,
                   Subscribe, Receive, Disconnect, vars
    <2>2. QED
      BY <1>3, <2>1
  <1>15. QED
    BY <1>4, <1>5, <1>6, <1>7, <1>9, <1>10, <1>11, <1>12, <1>13, <1>14 DEF Next

SealedInv == Sealed(task) /\ task.continuing \in Nat

LEMMA InitSealed ==
    ASSUME Init
    PROVE  SealedInv /\ task.continuing = 0 /\ task.continues = 0
  BY DEF Init, SealedInv, Sealed, Shaped, InitialView

LEMMA StepSealed ==
    ASSUME SealedInv, [Next]_vars
    PROVE  SealedInv'
  <1>1. Kept \/ Called \/ Settled
    BY TaskSteps DEF SealedInv
  <1>2. Sealed(task')
    BY <1>1 DEF Kept, Called, Settled
  <1>3. task'.continuing \in Nat
    BY <1>1 DEF SealedInv, Kept, Called, Settled, SameReopenings
  <1>4. QED
    BY <1>2, <1>3 DEF SealedInv

\* The first terminal wins: until the session is opened again, no frame of the runtime,
\* cancel or denial, in any order and number, changes the outcome or what was produced.
THEOREM OutcomeIsFinalAlways == Spec => OutcomeIsFinal
  <1>1. ASSUME SealedInv, [Next]_vars
        PROVE  [/\ task.view.terminal # "none"
                /\ task'.continuing >= task.continuing
                => /\ task'.view.terminal = task.view.terminal
                   /\ task'.view.text = task.view.text
                   /\ task'.view.items = task.view.items]_vars
    <2>1. SUFFICES ASSUME task.view.terminal # "none", task'.continuing >= task.continuing
                   PROVE  SameOutcome(task', task)
      BY DEF SameOutcome
    <2>2. Kept \/ Called \/ Settled
      BY <1>1, TaskSteps DEF SealedInv
    <2>3. ~Settled
      BY <1>1, <2>1 DEF Settled, SealedInv
    <2>4. QED
      BY <2>1, <2>2, <2>3 DEF Kept, Called
  <1>2. QED
    BY <1>1, InitSealed, StepSealed, PTL DEF Spec, OutcomeIsFinal

-----------------------------------------------------------------------------
(* The types, whatever happens.                                             *)

\* What an event does to a view, new to it or not.
LEMMA ReducedTypes ==
    ASSUME NEW v \in Views, NEW e \in Events
    PROVE  /\ ReduceEv(v, e) \in Views
           /\ ReduceEv(v, e).text \in {v.text, v.text \o e.ids}
           /\ IsTerminal(e) => ReduceEv(v, e).text = v.text
  <1> DEFINE g == FoldOne(v, e)
  <1>1. /\ e.seq \in Nat /\ e.kind \in EventKinds /\ e.ids \in Seq(Nat)
        /\ v.text \in Seq(Nat) /\ v.items \in Seq(Nat)
        /\ IsTerminal(e) <=> e.kind \in TerminalKinds
    BY ViewFields DEF Events, IsTerminal
  <1>2. /\ g \in Views /\ g.text \in {v.text, v.text \o e.ids}
        /\ IsTerminal(e) => g.text = v.text
    <2>1. CASE g = v
      BY <2>1
    <2>2. CASE IsTerminal(e) /\ g # v
      <3>1. g = [v EXCEPT !.terminal = e.kind]
        BY <2>2 DEF FoldOne
      <3>2. g \in Views
        BY <1>1, <2>2, <3>1, ViewUpdates
      <3>3. QED
        BY <3>1, <3>2 DEF Views
    <2>3. CASE ~IsTerminal(e) /\ g = [v EXCEPT !.text = v.text \o e.ids]
      <3>1. g \in Views
        BY <1>1, <2>3, ViewUpdates
      <3>2. QED
        BY <2>3, <3>1 DEF Views
    <2>4. CASE ~IsTerminal(e) /\ g = [v EXCEPT !.items = v.items \o e.ids]
      <3>1. g \in Views
        BY <1>1, <2>4, ViewUpdates
      <3>2. QED
        BY <2>4, <3>1 DEF Views
    <2>5. QED
      BY <2>1, <2>2, <2>3, <2>4 DEF FoldOne
  <1> HIDE DEF g
  <1>3. [g EXCEPT !.last = e.seq] \in Views /\ [g EXCEPT !.last = e.seq].text = g.text
    <2>1. [g EXCEPT !.last = e.seq] \in Views
      BY <1>1, <1>2, ViewUpdates
    <2>2. [g EXCEPT !.last = e.seq].text = g.text
      BY <1>2 DEF Views
    <2>3. QED
      BY <2>1, <2>2
  <1>4. ReduceEv(v, e) = v \/ ReduceEv(v, e) = [g EXCEPT !.last = e.seq]
    BY DEF ReduceEv, g
  <1>5. QED
    BY <1>2, <1>3, <1>4

\* What an event does to a task, live or not.
LEMMA AppliedTypes ==
    ASSUME NEW k \in Tasks, NEW e \in Events
    PROVE  /\ Apply(k, e) \in Tasks /\ SameCalls(Apply(k, e), k)
           /\ Apply(k, e).view.text \in {k.view.text, k.view.text \o e.ids}
           /\ IsTerminal(e) => Apply(k, e).view.text = k.view.text
  <1> DEFINE u == ReduceEv(k.view, e)
             over == u.terminal # "none"
             a == [k EXCEPT !.view = u, !.frozen = over]
  <1>1. CASE k.frozen
    BY <1>1 DEF Apply, SameCalls
  <1>2. CASE ~k.frozen
    <2>1. /\ u \in Views /\ u.text \in {k.view.text, k.view.text \o e.ids}
          /\ IsTerminal(e) => u.text = k.view.text
      BY TaskFields, ReducedTypes
    <2>2. Apply(k, e) = a
      BY <1>2 DEF Apply
    <2> HIDE DEF u
    <2>3. over \in BOOLEAN
      OBVIOUS
    <2> HIDE DEF over
    <2>4. a \in Tasks
      BY <2>1, <2>3 DEF Tasks
    <2>5. a.view = u /\ SameCalls(a, k)
      BY DEF Tasks, SameCalls
    <2>6. QED
      BY <2>1, <2>2, <2>4, <2>5
  <1>3. QED
    BY <1>1, <1>2

\* The events of a frame.
LEMMA MappedTypes ==
    ASSUME NEW n \in Nat, NEW frame \in Frames
    PROVE  \/ /\ frame.kind \in ActivityKinds
              /\ \E e \in Events : /\ MapFrame(n, frame) = <<e>>
                                   /\ ~IsTerminal(e) /\ e.ids = <<frame.id>>
           \/ /\ frame.kind \in EndKinds
              /\ \E e \in Events : /\ MapFrame(n, frame) = <<e>>
                                   /\ IsTerminal(e) /\ e.ids = <<>>
           \/ /\ frame.kind \in EndKinds
              /\ \E e, f \in Events : /\ MapFrame(n, frame) = <<e, f>>
                                      /\ ~IsTerminal(e) /\ e.kind # "token" /\ e.ids = <<>>
                                      /\ IsTerminal(f) /\ f.ids = <<>>
  <1>1. frame.id \in Nat /\ frame.kind \in ActivityKinds \union EndKinds
    BY FrameFields
  <1>2. n + 1 \in Nat /\ n + 2 \in Nat /\ <<frame.id>> \in Seq(Nat) /\ <<>> \in Seq(Nat)
    BY <1>1
  <1>3. ASSUME NEW m \in Nat, NEW kind \in EventKinds, NEW ids \in Seq(Nat)
        PROVE  /\ Event(m, kind, ids) \in Events /\ Event(m, kind, ids).kind = kind
               /\ Event(m, kind, ids).ids = ids
               /\ IsTerminal(Event(m, kind, ids)) <=> kind \in TerminalKinds
    BY EventTypes DEF IsTerminal
  <1>4. CASE frame.kind \in ActivityKinds
    <2> DEFINE ids == <<frame.id>>
               e == Event(n + 1, frame.kind, ids)
    <2>1. frame.kind \in EventKinds /\ frame.kind \notin TerminalKinds
      BY <1>4 DEF ActivityKinds, EventKinds, TerminalKinds
    <2>2. ids \in Seq(Nat)
      BY <1>2
    <2>3. MapFrame(n, frame) = <<e>>
      BY <1>4, MappedIs
    <2> HIDE DEF ids
    <2>4. e \in Events /\ e.ids = ids /\ ~IsTerminal(e)
      BY <1>2, <1>3, <2>1, <2>2
    <2> HIDE DEF e
    <2>5. QED
      BY <1>4, <2>3, <2>4 DEF ids
  <1>5. CASE frame.kind \in {"idle", "abort"}
    <2>1. PICK kind \in {"completed", "cancelled"} : MapFrame(n, frame) = <<Event(n + 1, kind, <<>>)>>
      BY <1>5, MappedIs
    <2> DEFINE e == Event(n + 1, kind, <<>>)
    <2>2. kind \in EventKinds /\ kind \in TerminalKinds
      BY DEF EventKinds, TerminalKinds
    <2>3. e \in Events /\ e.ids = <<>> /\ IsTerminal(e)
      BY <1>2, <2>2, EmptyEvent DEF Event
    <2>4. MapFrame(n, frame) = <<e>>
      BY <2>1
    <2> HIDE DEF e
    <2>5. QED
      BY <1>5, <2>3, <2>4 DEF EndKinds
  <1>6. CASE frame.kind = "error"
    <2> DEFINE e == Event(n + 1, "error", <<>>)
               f == Event(n + 2, "errored", <<>>)
    <2>1. /\ "error" \in EventKinds /\ "errored" \in EventKinds
          /\ "error" \notin TerminalKinds /\ "errored" \in TerminalKinds
      BY DEF EventKinds, TerminalKinds
    <2>2. /\ e \in Events /\ e.kind = "error" /\ e.ids = <<>> /\ ~IsTerminal(e)
          /\ f \in Events /\ f.ids = <<>> /\ IsTerminal(f)
      <3>1. e \in Events /\ e.kind = "error" /\ ~IsTerminal(e) /\ f \in Events /\ IsTerminal(f)
        BY <1>2, <2>1, EmptyEvent
      <3>2. e.ids = <<>> /\ f.ids = <<>>
        BY DEF Event
      <3>3. QED
        BY <3>1, <3>2
    <2>3. MapFrame(n, frame) = <<e, f>>
      BY <1>6, MappedIs
    <2> HIDE DEF e, f
    <2>4. QED
      BY <1>6, <2>2, <2>3 DEF EndKinds
  <1>7. QED
    BY <1>1, <1>4, <1>5, <1>6 DEF EndKinds

LEMMA TwoApplied ==
    ASSUME NEW k, NEW e, NEW f
    PROVE  ApplyAll(k, <<e, f>>) = Apply(Apply(k, e), f)
  <1>1. Len(<<e, f>>) = 2 /\ <<e, f>>[1] = e /\ <<e, f>>[2] = f
    OBVIOUS
  <1>2. QED
    BY <1>1 DEF ApplyAll

LEMMA TwoPushed ==
    ASSUME NEW c, NEW events, Len(events) = 2
    PROVE  LET first == Push(c, events[1])
               second == Push(first.coord, events[2])
           IN  /\ PushAll(c, events).coord = second.coord
               /\ PushAll(c, events).out = first.out \o second.out
  <1> DEFINE first == Push(c, events[1])
             second == Push(first.coord, events[2])
             coord == second.coord
             out == first.out \o second.out
  <1>1. PushAll(c, events) = Outcome(coord, out)
    BY DEF PushAll
  <1> HIDE DEF coord, out
  <1>2. PushAll(c, events).coord = coord /\ PushAll(c, events).out = out
    BY <1>1 DEF Outcome
  <1>3. QED
    BY <1>2 DEF coord, out

\* What a frame adds to the text of a task is its token, if that.
LEMMA FrameApplied ==
    ASSUME NEW n \in Nat, NEW frame \in Frames, NEW k \in Tasks
    PROVE  LET l == ApplyAll(k, MapFrame(n, frame)) IN
           /\ l \in Tasks /\ SameCalls(l, k)
           /\ \/ l.view.text = k.view.text
              \/ frame.kind \in ActivityKinds /\ l.view.text = k.view.text \o <<frame.id>>
  <1> DEFINE events == MapFrame(n, frame)
  <1> HIDE DEF events
  <1>1. ASSUME NEW e \in Events, events = <<e>>, frame.kind \in ActivityKinds, e.ids = <<frame.id>>
        PROVE  /\ ApplyAll(k, events) \in Tasks /\ SameCalls(ApplyAll(k, events), k)
               /\ ApplyAll(k, events).view.text \in {k.view.text, k.view.text \o <<frame.id>>}
    <2>1. ApplyAll(k, events) = Apply(k, e)
      BY <1>1, OneEvent
    <2>2. /\ Apply(k, e) \in Tasks /\ SameCalls(Apply(k, e), k)
          /\ Apply(k, e).view.text \in {k.view.text, k.view.text \o e.ids}
      BY <1>1, AppliedTypes
    <2>3. QED
      BY <1>1, <2>1, <2>2
  <1>2. ASSUME NEW e \in Events, events = <<e>>, IsTerminal(e)
        PROVE  /\ ApplyAll(k, events) \in Tasks /\ SameCalls(ApplyAll(k, events), k)
               /\ ApplyAll(k, events).view.text = k.view.text
    <2>1. ApplyAll(k, events) = Apply(k, e)
      BY <1>2, OneEvent
    <2>2. /\ Apply(k, e) \in Tasks /\ SameCalls(Apply(k, e), k)
          /\ Apply(k, e).view.text = k.view.text
      BY <1>2, AppliedTypes
    <2>3. QED
      BY <2>1, <2>2
  <1>3. ASSUME NEW e \in Events, NEW f \in Events, events = <<e, f>>, e.ids = <<>>, IsTerminal(f)
        PROVE  /\ ApplyAll(k, events) \in Tasks /\ SameCalls(ApplyAll(k, events), k)
               /\ ApplyAll(k, events).view.text = k.view.text
    <2>1. ApplyAll(k, events) = Apply(Apply(k, e), f)
      <3>1. ApplyAll(k, <<e, f>>) = Apply(Apply(k, e), f)
        BY TwoApplied
      <3>2. events = <<e, f>>
        BY <1>3
      <3>3. QED
        BY <3>1, <3>2
    <2>2. /\ Apply(k, e) \in Tasks /\ SameCalls(Apply(k, e), k)
          /\ Apply(k, e).view.text \in {k.view.text, k.view.text \o <<>>}
      BY <1>3, AppliedTypes
    <2>3. k.view.text \o <<>> = k.view.text
      BY TaskFields, ViewFields, Joining
    <2> DEFINE l == Apply(k, e)
    <2> HIDE DEF l
    <2>4. /\ Apply(l, f) \in Tasks /\ SameCalls(Apply(l, f), l)
          /\ Apply(l, f).view.text = l.view.text
      BY <1>3, <2>2, AppliedTypes DEF l
    <2>5. QED
      BY <2>1, <2>2, <2>3, <2>4 DEF SameCalls, l
  <1>4. QED
    BY <1>1, <1>2, <1>3, MappedTypes DEF events

LEMMA OutsideTypes ==
    ASSUME NEW k \in Tasks, NEW state \in TerminalKinds
    PROVE  OutsideTerminal(k, state) \in Events /\ IsTerminal(OutsideTerminal(k, state))
  <1>1. k.view.last + 1 \in Nat /\ state \in EventKinds
    BY TaskFields, ViewFields DEF EventKinds, TerminalKinds
  <1>2. QED
    BY <1>1, EmptyEvent DEF OutsideTerminal

LEMMA CancelledTypes ==
    ASSUME NEW k \in Tasks
    PROVE  /\ Cancelled(k) \in Tasks /\ SameCalls(Cancelled(k), k)
           /\ Cancelled(k).view.text = k.view.text
  <1> DEFINE e == OutsideTerminal(k, "cancelled")
             u == ReduceEv(k.view, e)
             a == [k EXCEPT !.view = u, !.frozen = TRUE]
  <1>1. e \in Events /\ IsTerminal(e)
    BY OutsideTypes DEF TerminalKinds
  <1>2. u \in Views /\ u.text = k.view.text
    BY <1>1, TaskFields, ReducedTypes
  <1>3. Cancelled(k) = a
    BY DEF Cancelled
  <1> HIDE DEF u
  <1>4. a \in Tasks /\ a.view = u /\ SameCalls(a, k)
    BY <1>2 DEF Tasks, SameCalls
  <1>5. QED
    BY <1>2, <1>3, <1>4

\* A task keeps its type, and every reopening under way has been counted.
Counted(k) == k \in Tasks /\ k.continuing <= k.continues

LEMMA TaskTypes ==
    ASSUME runtime \in Runtimes, frames \in Seq(Frames), run \in Runs, Counted(task), [Next]_vars
    PROVE  /\ Counted(task')
           /\ PumpDispatch \/ ContinueSettles \/ task'.view.text = task.view.text
  <1>1. /\ task \in Tasks /\ task.continuing <= task.continues
        /\ task.interrupts \in 0 .. MaxInterrupts /\ task.continuing \in 0 .. MaxContinues
        /\ task.continues \in 0 .. MaxContinues /\ MaxInterrupts \in Nat /\ MaxContinues \in Nat
    BY TaskFields, BoundsAssumption DEF Counted
  <1>2. ASSUME NEW l \in Tasks, SameCalls(l, task), task'.view = l.view, task' \in Tasks,
               task'.continuing = l.continuing, task'.continues = l.continues
        PROVE  Counted(task')
    BY <1>1, <1>2 DEF Counted, SameCalls
  <1>3. CASE task' = task
    BY <1>1, <1>3 DEF Counted
  <1>4. CASE Prompt
    <2>1. task' \in Tasks /\ task'.view = task.view /\ task'.continuing = task.continuing
          /\ task'.continues = task.continues
      BY <1>1, <1>4 DEF Prompt, Tasks
    <2>2. QED
      BY <1>1, <2>1 DEF Counted
  <1>5. CASE PumpDispatch
    <2> DEFINE r == IF run.exists THEN run ELSE NewRun
               frame == Head(frames)
    <2>1. r \in Runs /\ r.seq \in Nat /\ frame \in Frames
      BY <1>5, NewRuns, RunFields DEF PumpDispatch
    <2>2. Ingest(r, frame).events = MapFrame(r.seq, frame)
      BY DEF Ingest
    <2>3. task' = ApplyAll(task, MapFrame(r.seq, frame))
      BY <1>5, <2>2 DEF PumpDispatch
    <2> HIDE DEF r, frame
    <2>4. task' \in Tasks /\ SameCalls(task', task)
      BY <1>1, <2>1, <2>3, FrameApplied
    <2>5. QED
      BY <1>1, <1>5, <2>4 DEF Counted, SameCalls
  <1>6. CASE CancelAborts
    <2>1. task.interrupts + 1 \in 0 .. MaxInterrupts
      BY <1>1, <1>6 DEF CancelAborts
    <2>2. task' \in Tasks /\ task'.view = task.view /\ task'.continuing = task.continuing
          /\ task'.continues = task.continues
      BY <1>1, <1>6, <2>1 DEF CancelAborts, Tasks
    <2>3. QED
      BY <1>1, <2>2 DEF Counted
  <1>7. CASE CancelFails
    <2>1. task' \in Tasks /\ task'.view = task.view /\ task'.continuing = task.continuing
          /\ task'.continues = task.continues
      BY <1>1, <1>7 DEF CancelFails, Tasks
    <2>2. QED
      BY <1>1, <2>1 DEF Counted
  <1>8. CASE CancelSettles
    <2> DEFINE l == Cancelled(task)
    <2>1. l \in Tasks /\ SameCalls(l, task) /\ l.view.text = task.view.text
      BY <1>1, CancelledTypes
    <2>2. task' = [l EXCEPT !.cancelling = "no"]
      BY <1>8 DEF CancelSettles
    <2> HIDE DEF l
    <2>3. task' \in Tasks /\ task'.view = l.view /\ task'.continuing = l.continuing
          /\ task'.continues = l.continues
      BY <2>1, <2>2 DEF Tasks
    <2>4. QED
      BY <1>2, <2>1, <2>3
  <1>9. CASE CancelUnbound
    <2> DEFINE l == Cancelled(task)
    <2>1. l \in Tasks /\ SameCalls(l, task) /\ l.view.text = task.view.text
      BY <1>1, CancelledTypes
    <2>2. task' = [l EXCEPT !.interrupts = @ + 1]
      BY <1>9 DEF CancelUnbound
    <2>3. l.interrupts + 1 \in 0 .. MaxInterrupts
      BY <1>1, <1>9, <2>1 DEF CancelUnbound, SameCalls
    <2> HIDE DEF l
    <2>4. task' \in Tasks /\ task'.view = l.view /\ task'.continuing = l.continuing
          /\ task'.continues = l.continues
      BY <2>1, <2>2, <2>3 DEF Tasks
    <2>5. QED
      BY <1>2, <2>1, <2>4
  <1>10. CASE Deny
    <2> DEFINE e == OutsideTerminal(task, "denied")
               l == Apply(task, e)
    <2>1. e \in Events /\ IsTerminal(e)
      BY <1>1, OutsideTypes DEF TerminalKinds
    <2>2. task' = [l EXCEPT !.interrupts = @ + 1]
      BY <1>10 DEF Deny
    <2> HIDE DEF e
    <2>3. l \in Tasks /\ SameCalls(l, task) /\ l.view.text = task.view.text
      BY <1>1, <2>1, AppliedTypes
    <2>4. l.interrupts + 1 \in 0 .. MaxInterrupts
      BY <1>1, <1>10, <2>3 DEF Deny, SameCalls
    <2> HIDE DEF l
    <2>5. task' \in Tasks /\ task'.view = l.view /\ task'.continuing = l.continuing
          /\ task'.continues = l.continues
      BY <2>2, <2>3, <2>4 DEF Tasks
    <2>6. QED
      BY <1>2, <2>3, <2>5
  <1>11. CASE ContinueCalled
    <2>1. task.continues + 1 \in 0 .. MaxContinues /\ task.continuing + 1 \in 0 .. MaxContinues
          /\ task.continuing + 1 <= task.continues + 1
      BY <1>1, <1>11 DEF ContinueCalled
    <2>2. /\ task' \in Tasks /\ task'.view = task.view
          /\ task'.continuing = task.continuing + 1 /\ task'.continues = task.continues + 1
      BY <1>1, <1>11, <2>1 DEF ContinueCalled, Tasks
    <2>3. QED
      BY <2>1, <2>2 DEF Counted
  <1>12. CASE ContinueSettles
    <2> DEFINE fresh == [last |-> runtime.sent, terminal |-> "none",
                         text |-> runtime.text, items |-> runtime.items]
               cancelling == IF task.cancelling = "no" THEN "no" ELSE "stale"
               m == task.continuing - 1
    <2>1. task' = [task EXCEPT !.continuing = m, !.frozen = FALSE, !.bound = FALSE,
                               !.cancelling = cancelling, !.view = fresh]
      BY <1>12 DEF ContinueSettles
    <2>2. fresh \in Views
      BY RuntimeFields DEF Views
    <2>3. m \in 0 .. MaxContinues /\ m <= task.continues
      BY <1>1, <1>12 DEF ContinueSettles
    <2>4. cancelling \in {"no", "reached", "failed", "stale"}
      OBVIOUS
    <2> HIDE DEF fresh, cancelling, m
    <2>5. task' \in Tasks /\ task'.continuing = m /\ task'.continues = task.continues
      BY <1>1, <2>1, <2>2, <2>3, <2>4 DEF Tasks
    <2>6. QED
      BY <1>12, <2>3, <2>5 DEF Counted
  <1>13. CASE \/ (\E kind \in ActivityKinds : RuntimeWorks(kind))
              \/ (\E kind \in EndKinds : RuntimeEnds(kind)) \/ WindowFires \/ LoseFrame
              \/ LoadSnapshot \/ OpenFinished \/ Subscribe \/ Receive \/ Disconnect
              \/ PromptArrives \/ PromptFails \/ UNCHANGED vars
    <2>1. task' = task
      BY <1>13 DEF PromptArrives, PromptFails, RuntimeWorks, RuntimeEnds, WindowFires, LoseFrame,
                   LoadSnapshot, OpenFinished, Subscribe, Receive, Disconnect, vars
    <2>2. QED
      BY <1>3, <2>1
  <1>14. QED
    BY <1>4, <1>5, <1>6, <1>7, <1>8, <1>9, <1>10, <1>11, <1>12, <1>13 DEF Next

-----------------------------------------------------------------------------
(* Tokens on their way.                                                     *)

\* Only the tokens of d are twice in s.
Once(s, d) == \A i, j \in DOMAIN s : i # j /\ s[i] = s[j] => s[i] \in d

\* What the events of w carry; none carries a token twice, and no two carry the same.
Carried(w) == UNION {Ids(w[i].ids) : i \in DOMAIN w}
Distinct(w) ==
    /\ \A i \in DOMAIN w : Once(w[i].ids, {})
    /\ \A i, j \in DOMAIN w : i # j => Ids(w[i].ids) \intersect Ids(w[j].ids) = {}

LEMMA EmptyOnce == Ids(<<>>) = {} /\ \A d : Once(<<>>, d)
  BY DEF Ids, Once

LEMMA ShortOnce ==
    ASSUME NEW x
    PROVE  Ids(<<x>>) = {x} /\ \A d : Once(<<x>>, d)
  BY DEF Ids, Once

LEMMA JoinOnce ==
    ASSUME NEW s \in Seq(Nat), NEW t \in Seq(Nat)
    PROVE  /\ Ids(s \o t) = Ids(s) \union Ids(t)
           /\ \A d : Once(s, d) /\ Once(t, d) /\ Ids(s) \intersect Ids(t) \subseteq d
                       => Once(s \o t, d)
  <1> DEFINE both == s \o t
             m == Len(s)
             n == Len(t)
  <1>1. /\ m \in Nat /\ n \in Nat /\ DOMAIN s = 1 .. m /\ DOMAIN t = 1 .. n
        /\ both \in Seq(Nat) /\ DOMAIN both = 1 .. (m + n)
    OBVIOUS
  <1>2. \A i \in 1 .. m : both[i] = s[i] /\ i \in DOMAIN both
    OBVIOUS
  <1>3. \A i \in 1 .. n : both[m + i] = t[i] /\ m + i \in DOMAIN both
    OBVIOUS
  <1>4. \A i \in DOMAIN both : i \in 1 .. m \/ \E j \in 1 .. n : i = m + j
    <2>1. TAKE i \in DOMAIN both
    <2>2. CASE i <= m
      BY <1>1, <2>2
    <2>3. CASE ~(i <= m)
      <3>1. i - m \in 1 .. n /\ i = m + (i - m)
        BY <1>1, <2>3
      <3>2. QED
        BY <3>1
    <2>4. QED
      BY <2>2, <2>3
  <1> HIDE DEF both, m, n
  <1>5. Ids(both) = Ids(s) \union Ids(t)
    <2>1. ASSUME NEW x \in Ids(both) PROVE x \in Ids(s) \union Ids(t)
      <3>1. PICK i \in DOMAIN both : x = both[i]
        BY DEF Ids
      <3>2. CASE i \in 1 .. m
        BY <1>1, <1>2, <3>1, <3>2 DEF Ids
      <3>3. CASE \E j \in 1 .. n : i = m + j
        BY <1>1, <1>3, <3>1, <3>3 DEF Ids
      <3>4. QED
        BY <1>4, <3>2, <3>3
    <2>2. ASSUME NEW x \in Ids(s) PROVE x \in Ids(both)
      BY <1>1, <1>2 DEF Ids
    <2>3. ASSUME NEW x \in Ids(t) PROVE x \in Ids(both)
      BY <1>1, <1>3 DEF Ids
    <2>4. QED
      BY <2>1, <2>2, <2>3
  <1>6. ASSUME NEW d, Once(s, d), Once(t, d), Ids(s) \intersect Ids(t) \subseteq d
        PROVE  Once(both, d)
    <2>1. SUFFICES ASSUME NEW i \in DOMAIN both, NEW j \in DOMAIN both, i # j, both[i] = both[j]
                   PROVE  both[i] \in d
      BY DEF Once
    <2>2. ASSUME NEW a \in 1 .. m, NEW b \in 1 .. n, s[a] = t[b] PROVE s[a] \in d
      BY <1>1, <1>6, <2>2 DEF Ids
    <2>3. CASE i \in 1 .. m /\ j \in 1 .. m
      BY <1>1, <1>2, <1>6, <2>1, <2>3 DEF Once
    <2>4. ASSUME NEW a \in 1 .. n, NEW b \in 1 .. n, i = m + a, j = m + b
          PROVE  both[i] \in d
      <3>1. a # b /\ both[i] = t[a] /\ both[j] = t[b]
        BY <1>3, <2>1, <2>4
      <3>2. QED
        BY <1>1, <1>6, <2>1, <3>1 DEF Once
    <2>5. ASSUME i \in 1 .. m, NEW b \in 1 .. n, j = m + b PROVE both[i] \in d
      BY <1>2, <1>3, <2>1, <2>2, <2>5
    <2>6. ASSUME j \in 1 .. m, NEW a \in 1 .. n, i = m + a PROVE both[i] \in d
      BY <1>2, <1>3, <2>1, <2>2, <2>6
    <2>7. QED
      BY <1>4, <2>3, <2>4, <2>5, <2>6
  <1>7. QED
    BY <1>5, <1>6 DEF both

LEMMA EmptyDistinct == <<>> \in Seq(Events) /\ Carried(<<>>) = {} /\ Distinct(<<>>)
  <1>1. DOMAIN <<>> = {} /\ <<>> \in Seq(Events)
    OBVIOUS
  <1>2. QED
    BY <1>1 DEF Carried, Distinct

LEMMA ShortDistinct ==
    ASSUME NEW e \in Events
    PROVE  /\ <<e>> \in Seq(Events)
           /\ Carried(<<e>>) = Ids(e.ids)
           /\ Once(e.ids, {}) => Distinct(<<e>>)
  <1> DEFINE w == <<e>>
  <1>1. w \in Seq(Events) /\ DOMAIN w = {1} /\ w[1] = e
    OBVIOUS
  <1> HIDE DEF w
  <1>2. Carried(w) = Ids(e.ids) /\ (Once(e.ids, {}) => Distinct(w))
    BY <1>1 DEF Carried, Distinct
  <1>3. QED
    BY <1>1, <1>2 DEF w

LEMMA JoinDistinct ==
    ASSUME NEW w \in Seq(Events), NEW o \in Seq(Events)
    PROVE  /\ w \o o \in Seq(Events)
           /\ Carried(w \o o) = Carried(w) \union Carried(o)
           /\ Distinct(w) /\ Distinct(o) /\ Carried(w) \intersect Carried(o) = {}
                => Distinct(w \o o)
  <1> DEFINE both == w \o o
             m == Len(w)
             n == Len(o)
  <1>1. /\ m \in Nat /\ n \in Nat /\ DOMAIN w = 1 .. m /\ DOMAIN o = 1 .. n
        /\ both \in Seq(Events) /\ DOMAIN both = 1 .. (m + n)
    OBVIOUS
  <1>2. \A i \in 1 .. m : both[i] = w[i] /\ i \in DOMAIN both
    OBVIOUS
  <1>3. \A i \in 1 .. n : both[m + i] = o[i] /\ m + i \in DOMAIN both
    OBVIOUS
  <1>4. \A i \in DOMAIN both : i \in 1 .. m \/ \E j \in 1 .. n : i = m + j
    <2>1. TAKE i \in DOMAIN both
    <2>2. CASE i <= m
      BY <1>1, <2>2
    <2>3. CASE ~(i <= m)
      <3>1. i - m \in 1 .. n /\ i = m + (i - m)
        BY <1>1, <2>3
      <3>2. QED
        BY <3>1
    <2>4. QED
      BY <2>2, <2>3
  <1> HIDE DEF both, m, n
  <1>5. Carried(both) = Carried(w) \union Carried(o)
    <2>1. ASSUME NEW x \in Carried(both) PROVE x \in Carried(w) \union Carried(o)
      <3>1. PICK i \in DOMAIN both : x \in Ids(both[i].ids)
        BY DEF Carried
      <3>2. CASE i \in 1 .. m
        BY <1>1, <1>2, <3>1, <3>2 DEF Carried
      <3>3. CASE \E j \in 1 .. n : i = m + j
        BY <1>1, <1>3, <3>1, <3>3 DEF Carried
      <3>4. QED
        BY <1>4, <3>2, <3>3
    <2>2. ASSUME NEW x \in Carried(w) PROVE x \in Carried(both)
      <3>1. PICK i \in DOMAIN w : x \in Ids(w[i].ids)
        BY DEF Carried
      <3>2. QED
        BY <1>1, <1>2, <3>1 DEF Carried
    <2>3. ASSUME NEW x \in Carried(o) PROVE x \in Carried(both)
      <3>1. PICK i \in DOMAIN o : x \in Ids(o[i].ids)
        BY DEF Carried
      <3>2. m + i \in DOMAIN both /\ both[m + i] = o[i]
        BY <1>1, <1>3
      <3>3. QED
        BY <3>1, <3>2 DEF Carried
    <2>4. QED
      BY <2>1, <2>2, <2>3
  <1>6. ASSUME Distinct(w), Distinct(o), Carried(w) \intersect Carried(o) = {}
        PROVE  Distinct(both)
    <2>1. ASSUME NEW i \in DOMAIN both PROVE Once(both[i].ids, {})
      <3>1. CASE i \in 1 .. m
        BY <1>1, <1>2, <1>6, <3>1 DEF Distinct
      <3>2. CASE \E j \in 1 .. n : i = m + j
        BY <1>1, <1>3, <1>6, <3>2 DEF Distinct
      <3>3. QED
        BY <1>4, <3>1, <3>2
    <2>2. ASSUME NEW a \in 1 .. m, NEW b \in 1 .. n
          PROVE  Ids(w[a].ids) \intersect Ids(o[b].ids) = {}
      <3>1. Ids(w[a].ids) \subseteq Carried(w) /\ Ids(o[b].ids) \subseteq Carried(o)
        BY <1>1 DEF Carried
      <3>2. QED
        BY <1>6, <3>1
    <2>3. ASSUME NEW i \in DOMAIN both, NEW j \in DOMAIN both, i # j
          PROVE  Ids(both[i].ids) \intersect Ids(both[j].ids) = {}
      <3>1. CASE i \in 1 .. m /\ j \in 1 .. m
        BY <1>1, <1>2, <1>6, <2>3, <3>1 DEF Distinct
      <3>2. ASSUME NEW a \in 1 .. n, NEW b \in 1 .. n, i = m + a, j = m + b
            PROVE  Ids(both[i].ids) \intersect Ids(both[j].ids) = {}
        <4>1. a # b /\ both[i] = o[a] /\ both[j] = o[b]
          BY <1>3, <2>3, <3>2
        <4>2. QED
          BY <1>1, <1>6, <4>1 DEF Distinct
      <3>3. ASSUME i \in 1 .. m, NEW b \in 1 .. n, j = m + b
            PROVE  Ids(both[i].ids) \intersect Ids(both[j].ids) = {}
        BY <1>2, <1>3, <2>2, <3>3
      <3>4. ASSUME j \in 1 .. m, NEW a \in 1 .. n, i = m + a
            PROVE  Ids(both[i].ids) \intersect Ids(both[j].ids) = {}
        <4>1. both[j] = w[j] /\ both[i] = o[a]
          BY <1>2, <1>3, <3>4
        <4>2. QED
          BY <2>2, <3>4, <4>1
      <3>5. QED
        BY <1>4, <3>1, <3>2, <3>3, <3>4
    <2>4. QED
      BY <2>1, <2>3 DEF Distinct
  <1>7. QED
    BY <1>1, <1>5, <1>6 DEF both

LEMMA AddDistinct ==
    ASSUME NEW w \in Seq(Events), Distinct(w), NEW e \in Events, Once(e.ids, {}),
           Carried(w) \intersect Ids(e.ids) = {}
    PROVE  /\ Append(w, e) \in Seq(Events) /\ Distinct(Append(w, e))
           /\ Carried(Append(w, e)) = Carried(w) \union Ids(e.ids)
  <1> DEFINE o == <<e>>
  <1>1. o \in Seq(Events) /\ Carried(o) = Ids(e.ids) /\ Distinct(o)
    BY ShortDistinct
  <1>2. Append(w, e) = w \o o
    OBVIOUS
  <1> HIDE DEF o
  <1>3. QED
    BY <1>1, <1>2, JoinDistinct

\* What is left of w after its first events.
LEMMA RestDistinct ==
    ASSUME NEW w \in Seq(Events), NEW m \in Nat
    PROVE  LET rest == SubSeq(w, m + 1, Len(w)) IN
           /\ rest \in Seq(Events)
           /\ Carried(rest) \subseteq Carried(w)
           /\ Distinct(w) => Distinct(rest)
  <1> DEFINE rest == SubSeq(w, m + 1, Len(w))
             n == Len(w)
  <1>1. /\ n \in Nat /\ DOMAIN w = 1 .. n /\ m + 1 \in Int /\ n \in Int
        /\ \A i \in (m + 1) .. n : w[i] \in Events
    OBVIOUS
  <1>2. /\ rest \in Seq(Events) /\ Len(rest) = IF m + 1 <= n THEN n - (m + 1) + 1 ELSE 0
        /\ \A i \in 1 .. (n - (m + 1) + 1) : rest[i] = w[(m + 1) + i - 1]
    BY <1>1, SubSeqProperties
  <1>3. DOMAIN rest = 1 .. Len(rest)
    BY <1>2
  <1> HIDE DEF rest, n
  <1>4. \A i \in DOMAIN rest : m + i \in DOMAIN w /\ rest[i] = w[m + i] /\ i \in Nat
    <2>1. TAKE i \in DOMAIN rest
    <2>2. i \in 1 .. Len(rest) /\ m + 1 <= n
      BY <1>1, <1>2, <1>3
    <2>3. Len(rest) = n - (m + 1) + 1
      BY <1>2, <2>2
    <2>4. i \in 1 .. (n - (m + 1) + 1)
      BY <2>2, <2>3
    <2> HIDE <1>2, <2>1
    <2>5. i \in Nat /\ m + i \in 1 .. n /\ (m + 1) + i - 1 = m + i
      BY <1>1, <2>4
    <2>6. QED
      BY <1>1, <1>2, <2>4, <2>5
  <1>5. Carried(rest) \subseteq Carried(w)
    <2>1. SUFFICES ASSUME NEW x \in Carried(rest) PROVE x \in Carried(w)
      OBVIOUS
    <2>2. PICK i \in DOMAIN rest : x \in Ids(rest[i].ids)
      BY DEF Carried
    <2>3. QED
      BY <1>4, <2>2 DEF Carried
  <1>6. ASSUME Distinct(w) PROVE Distinct(rest)
    <2>1. \A i \in DOMAIN rest : Once(rest[i].ids, {})
      BY <1>4, <1>6 DEF Distinct
    <2>2. ASSUME NEW i \in DOMAIN rest, NEW j \in DOMAIN rest, i # j
          PROVE  Ids(rest[i].ids) \intersect Ids(rest[j].ids) = {}
      <3>1. m + i # m + j
        BY <1>4, <2>2
      <3>2. QED
        BY <1>4, <1>6, <3>1 DEF Distinct
    <2>3. QED
      BY <2>1, <2>2 DEF Distinct
  <1>7. QED
    BY <1>2, <1>5, <1>6 DEF rest, n

LEMMA HeadDistinct ==
    ASSUME NEW w \in Seq(Events), w # <<>>, Distinct(w)
    PROVE  /\ Head(w) \in Events /\ Tail(w) \in Seq(Events) /\ Distinct(Tail(w))
           /\ Once(Head(w).ids, {})
           /\ Ids(Head(w).ids) \subseteq Carried(w) /\ Carried(Tail(w)) \subseteq Carried(w)
           /\ Ids(Head(w).ids) \intersect Carried(Tail(w)) = {}
  <1> DEFINE rest == Tail(w)
             e == Head(w)
  <1>1. /\ e = w[1] /\ 1 \in DOMAIN w /\ e \in Events /\ rest \in Seq(Events)
        /\ Tail(w) = SubSeq(w, 1 + 1, Len(w))
    OBVIOUS
  <1>2. \A i \in DOMAIN rest : rest[i] = w[i + 1] /\ i + 1 \in DOMAIN w /\ i + 1 # 1
    OBVIOUS
  <1>3. Distinct(rest) /\ Carried(rest) \subseteq Carried(w)
    BY <1>1, RestDistinct
  <1> HIDE DEF rest, e
  <1>4. Once(e.ids, {}) /\ Ids(e.ids) \subseteq Carried(w)
    BY <1>1 DEF Distinct, Carried
  <1>5. Ids(e.ids) \intersect Carried(rest) = {}
    <2>1. SUFFICES ASSUME NEW i \in DOMAIN rest PROVE Ids(e.ids) \intersect Ids(rest[i].ids) = {}
      BY DEF Carried
    <2>2. QED
      BY <1>1, <1>2 DEF Distinct
  <1>6. QED
    BY <1>1, <1>3, <1>4, <1>5 DEF rest, e

-----------------------------------------------------------------------------
(* What the coordinator lets go and what it holds back.                     *)

\* No terminal waits in the coordinator: the frame that ends the turn also closes the run.
Quiet(c) == c \in Coordinators /\ c.terminal = NoEvent /\ ~c.terminated

\* The events of out and the batch of c carry tokens of S, each of them once.
Splits(out, c, S) ==
    /\ out \in Seq(Events) /\ Distinct(out)
    /\ Quiet(c) /\ Once(c.pending.ids, {})
    /\ Carried(out) \intersect Ids(c.pending.ids) = {}
    /\ Carried(out) \union Ids(c.pending.ids) \subseteq S

LEMMA NewSplits ==
    /\ Quiet(NewCoordinator) /\ NewCoordinator.pending = NoEvent
    /\ Ids(NoEvent.ids) = {} /\ Once(NoEvent.ids, {})
    /\ \A S, w, c : Splits(w, c, S) => /\ Splits(w, NewCoordinator, S)
                                       /\ Splits(<<>>, c, S)
                                       /\ Splits(<<>>, NewCoordinator, S)
  <1>1. NewCoordinator.pending = NoEvent /\ Quiet(NewCoordinator)
    BY NewRuns DEF Quiet, NewCoordinator
  <1>2. NoEvent.ids = <<>>
    BY EventTypes
  <1>3. Ids(NoEvent.ids) = {} /\ Once(NoEvent.ids, {})
    BY <1>2, EmptyOnce
  <1>4. <<>> \in Seq(Events) /\ Carried(<<>>) = {} /\ Distinct(<<>>)
    BY EmptyDistinct
  <1>5. QED
    BY <1>1, <1>3, <1>4 DEF Splits

\* flushPending lets the batch go.
LEMMA FlushSplits ==
    ASSUME NEW c, Quiet(c), Once(c.pending.ids, {})
    PROVE  /\ Splits(FlushPending(c).out, FlushPending(c).coord, Ids(c.pending.ids))
           /\ FlushPending(c).coord.pending = NoEvent
  <1> DEFINE out == FlushPending(c).out
             fc == FlushPending(c).coord
  <1>1. c \in Coordinators /\ c.terminal = NoEvent /\ ~c.terminated /\ c.pending \in Events
    BY CoordinatorFields DEF Quiet
  <1>2. /\ fc \in Coordinators /\ fc.pending = NoEvent /\ fc.terminal = NoEvent /\ ~fc.terminated
        /\ out \in Seq(Events) /\ out = IF c.pending = NoEvent THEN <<>> ELSE <<c.pending>>
    BY <1>1, FlushedIs
  <1> HIDE DEF out, fc
  <1>3. Ids(fc.pending.ids) = {} /\ Once(fc.pending.ids, {})
    BY <1>2, NewSplits
  <1>4. Distinct(out) /\ Carried(out) \subseteq Ids(c.pending.ids)
    <2>1. CASE c.pending = NoEvent
      BY <1>2, <2>1, EmptyDistinct
    <2>2. CASE c.pending # NoEvent
      BY <1>1, <1>2, <2>2, ShortDistinct
    <2>3. QED
      BY <2>1, <2>2
  <1>5. QED
    BY <1>2, <1>3, <1>4 DEF Splits, Quiet, out, fc

LEMMA PushSplits ==
    ASSUME NEW c, Quiet(c), Once(c.pending.ids, {}), NEW e \in Events, ~IsTerminal(e),
           Once(e.ids, {}), Ids(c.pending.ids) \intersect Ids(e.ids) = {}
    PROVE  Splits(Push(c, e).out, Push(c, e).coord, Ids(c.pending.ids) \union Ids(e.ids))
  <1> DEFINE out == Push(c, e).out
             pc == Push(c, e).coord
             both == Ids(c.pending.ids) \union Ids(e.ids)
  <1>1. /\ c \in Coordinators /\ c.terminal = NoEvent /\ ~c.terminated
        /\ c.pending.ids \in Seq(Nat) /\ e.ids \in Seq(Nat)
    BY CoordinatorFields DEF Quiet, Events
  <1>2. CASE e.kind = "token"
    <2> DEFINE b == Batch(c, e)
    <2>1. /\ pc \in Coordinators /\ pc.terminal = NoEvent /\ ~pc.terminated
          /\ \/ pc.pending = NoEvent /\ out = <<b>>
             \/ pc.pending = b /\ out = <<>>
      BY <1>1, <1>2, TokenPushed
    <2>2. b \in Events /\ b.ids = c.pending.ids \o e.ids
      BY <1>1, BatchIs
    <2> HIDE DEF out, pc, b
    <2>3. Ids(b.ids) = both /\ Once(b.ids, {})
      BY <1>1, <2>2, JoinOnce
    <2> HIDE DEF both
    <2>4. CASE pc.pending = NoEvent /\ out = <<b>>
      <3>1. out \in Seq(Events) /\ Distinct(out) /\ Carried(out) = both
        BY <2>2, <2>3, <2>4, ShortDistinct
      <3>2. Ids(pc.pending.ids) = {} /\ Once(pc.pending.ids, {})
        BY <2>4, NewSplits
      <3>3. QED
        BY <2>1, <3>1, <3>2 DEF Splits, Quiet, out, pc, both
    <2>5. CASE pc.pending = b /\ out = <<>>
      <3>1. out \in Seq(Events) /\ Distinct(out) /\ Carried(out) = {}
        BY <2>5, EmptyDistinct
      <3>2. QED
        BY <2>1, <2>3, <2>5, <3>1 DEF Splits, Quiet, out, pc, both
    <2>6. QED
      BY <2>1, <2>4, <2>5
  <1>3. CASE e.kind # "token"
    <2> DEFINE fo == FlushPending(c).out
    <2>1. pc = FlushPending(c).coord /\ out = Append(fo, e)
      BY <1>1, <1>3, OtherPushed
    <2>2. Splits(fo, pc, Ids(c.pending.ids)) /\ pc.pending = NoEvent
      BY <2>1, FlushSplits
    <2> HIDE DEF out, pc, fo
    <2>3. /\ fo \in Seq(Events) /\ Distinct(fo) /\ Quiet(pc) /\ Carried(fo) \subseteq Ids(c.pending.ids)
          /\ Ids(pc.pending.ids) = {} /\ Once(pc.pending.ids, {})
      BY <2>2, NewSplits DEF Splits
    <2>4. out \in Seq(Events) /\ Distinct(out) /\ Carried(out) \subseteq both
      BY <2>1, <2>3, AddDistinct
    <2>5. QED
      BY <2>3, <2>4 DEF Splits, out, pc
  <1>4. QED
    BY <1>2, <1>3

\* A frame that ends the turn: the batch and a terminal leave, and no run remains.
LEMMA EndSplits ==
    ASSUME NEW c, Quiet(c), Once(c.pending.ids, {}),
           NEW n \in Nat, NEW frame \in Frames, frame.kind \in EndKinds
    PROVE  LET pushed == PushAll(c, MapFrame(n, frame)) IN
           Splits(pushed.out \o Flush(pushed.coord).out, NewCoordinator, Ids(c.pending.ids))
  <1> DEFINE events == MapFrame(n, frame)
             fo == FlushPending(c).out
             fc == FlushPending(c).coord
             pushed == PushAll(c, events)
             out == pushed.out \o Flush(pushed.coord).out
  <1>1. c \in Coordinators /\ c.terminal = NoEvent /\ ~c.terminated
    BY DEF Quiet
  <1>2. Splits(fo, fc, Ids(c.pending.ids)) /\ fc.pending = NoEvent
    BY FlushSplits
  <1>3. fo \in Seq(Events) /\ Distinct(fo) /\ Carried(fo) \subseteq Ids(c.pending.ids) /\ Quiet(fc)
    BY <1>2 DEF Splits
  <1>4. ASSUME NEW e \in Events, e.ids = <<>>, NEW o \in Seq(Events), Distinct(o)
        PROVE  /\ o \o <<e>> = Append(o, e)
               /\ Append(o, e) \in Seq(Events) /\ Distinct(Append(o, e))
               /\ Carried(Append(o, e)) = Carried(o)
    <2>1. Ids(e.ids) = {} /\ Once(e.ids, {})
      BY <1>4, EmptyOnce
    <2>2. /\ Append(o, e) \in Seq(Events) /\ Distinct(Append(o, e))
          /\ Carried(Append(o, e)) = Carried(o) \union Ids(e.ids)
      BY <1>4, <2>1, AddDistinct
    <2>3. o \o <<e>> = Append(o, e)
      BY <1>4
    <2>4. QED
      BY <2>1, <2>2, <2>3
  <1>5. \/ \E e \in Events : events = <<e>> /\ IsTerminal(e) /\ e.ids = <<>>
        \/ \E e, f \in Events : /\ events = <<e, f>>
                                /\ ~IsTerminal(e) /\ e.kind # "token" /\ e.ids = <<>>
                                /\ IsTerminal(f) /\ f.ids = <<>>
    BY MappedTypes DEF ActivityKinds, EndKinds
  <1>6. ASSUME NEW d, Quiet(d), NEW e \in Events, IsTerminal(e)
        PROVE  /\ Push(d, e).out = FlushPending(d).out
               /\ Flush(Push(d, e).coord).out = <<e>>
    <2> DEFINE pd == Push(d, e).coord
    <2>1. /\ pd \in Coordinators /\ pd.pending = NoEvent /\ pd.terminal = e
          /\ Push(d, e).out = FlushPending(d).out
      BY <1>6, TerminalPushed DEF Quiet
    <2>2. e # NoEvent
      BY <1>6, EventTypes
    <2> HIDE DEF pd
    <2>3. Flush(pd).out = <<e>>
      BY <2>1, <2>2, TerminalFlushed
    <2>4. QED
      BY <2>1, <2>3 DEF pd
  <1> HIDE DEF events, fo, fc
  <1>7. out \in Seq(Events) /\ Distinct(out) /\ Carried(out) = Carried(fo)
    <2>1. ASSUME NEW e \in Events, events = <<e>>, IsTerminal(e), e.ids = <<>>
          PROVE  out \in Seq(Events) /\ Distinct(out) /\ Carried(out) = Carried(fo)
      <3>1. pushed = Push(c, e)
        BY <2>1, OneEvent
      <3>2. out = Append(fo, e)
        <4>1. out = fo \o <<e>>
          BY <1>6, <2>1, <3>1 DEF fo
        <4>2. QED
          BY <1>3, <1>4, <2>1, <4>1
      <3> HIDE DEF out
      <3>3. QED
        BY <1>3, <1>4, <2>1, <3>2
    <2>2. ASSUME NEW e \in Events, NEW f \in Events, events = <<e, f>>, ~IsTerminal(e),
                 e.kind # "token", e.ids = <<>>, IsTerminal(f), f.ids = <<>>
          PROVE  out \in Seq(Events) /\ Distinct(out) /\ Carried(out) = Carried(fo)
      <3> DEFINE so == Append(fo, e)
      <3>1. Push(c, e).coord = fc /\ Push(c, e).out = so
        BY <1>1, <2>2, OtherPushed DEF fo, fc
      <3>2. Len(events) = 2 /\ events[1] = e /\ events[2] = f
        BY <2>2
      <3>3. pushed.coord = Push(fc, f).coord /\ pushed.out = so \o Push(fc, f).out
        BY <3>1, <3>2, TwoPushed
      <3>4. Push(fc, f).out = <<>>
        <4>1. Push(fc, f).out = FlushPending(fc).out
          BY <1>3, <1>6, <2>2
        <4>2. FlushPending(fc).out = <<>>
          BY <1>2, <1>3, FlushedIs DEF Quiet, fc
        <4>3. QED
          BY <4>1, <4>2
      <3>5. so \in Seq(Events) /\ Distinct(so) /\ Carried(so) = Carried(fo)
        BY <1>3, <1>4, <2>2
      <3> HIDE DEF so
      <3>6. pushed.out = so
        BY <3>3, <3>4, <3>5
      <3>7. Flush(pushed.coord).out = <<f>>
        BY <1>3, <1>6, <2>2, <3>3
      <3>8. out = Append(so, f)
        BY <1>4, <2>2, <3>5, <3>6, <3>7
      <3> HIDE DEF out
      <3>9. QED
        BY <1>4, <2>2, <3>5, <3>8
    <2>3. QED
      BY <1>5, <2>1, <2>2
  <1> HIDE DEF out
  <1>8. Splits(out, NewCoordinator, Ids(c.pending.ids))
    BY <1>3, <1>7, NewSplits DEF Splits
  <1>9. QED
    BY <1>8 DEF out, events

\* What a frame brings to a run.
Brought(frame) == IF frame.kind \in ActivityKinds THEN {frame.id} ELSE {}

LEMMA IngestSplits ==
    ASSUME NEW r \in Runs, Quiet(r.coord), Once(r.coord.pending.ids, {}), NEW frame \in Frames,
           Brought(frame) \intersect Ids(r.coord.pending.ids) = {}
    PROVE  Splits(Ingest(r, frame).out, Ingest(r, frame).run.coord,
                  Ids(r.coord.pending.ids) \union Brought(frame))
  <1> DEFINE c == r.coord
             events == MapFrame(r.seq, frame)
             held == Ids(c.pending.ids)
  <1>1. /\ r.seq \in Nat /\ frame.id \in Nat /\ frame.kind \in ActivityKinds \union EndKinds
        /\ c \in Coordinators
    BY RunFields, FrameFields
  <1>2. CASE frame.kind \in EndKinds
    <2> DEFINE pushed == PushAll(c, events)
               out == pushed.out \o Flush(pushed.coord).out
    <2>1. Ingest(r, frame).out = out /\ Ingest(r, frame).run = NoRun
      BY <1>2 DEF Ingest
    <2>2. Splits(out, NewCoordinator, held)
      BY <1>1, <1>2, EndSplits
    <2> HIDE DEF out
    <2>3. NoRun.coord = NewCoordinator
      BY DEF NoRun
    <2>4. Splits(out, NewCoordinator, held \union Brought(frame))
      BY <2>2 DEF Splits
    <2>5. QED
      BY <2>1, <2>3, <2>4
  <1>3. CASE frame.kind \in ActivityKinds
    <2>1. frame.kind \notin EndKinds
      BY <1>3 DEF ActivityKinds, EndKinds
    <2>2. PICK e \in Events : events = <<e>> /\ ~IsTerminal(e) /\ e.ids = <<frame.id>>
      BY <1>1, <2>1, MappedTypes
    <2>3. PushAll(c, events) = Push(c, e)
      BY <2>2, OneEvent
    <2> DEFINE n == Len(events)
               pc == Push(c, e).coord
    <2>4. Ingest(r, frame).out = Push(c, e).out
      BY <2>1, <2>3 DEF Ingest
    <2>5. Ingest(r, frame).run = [r EXCEPT !.seq = r.seq + n, !.coord = pc, !.opened = TRUE]
      BY <2>1, <2>3 DEF Ingest
    <2>6. Ingest(r, frame).run.coord = pc
      BY <2>5 DEF Runs
    <2>7. Ids(e.ids) = {frame.id} /\ Once(e.ids, {}) /\ Brought(frame) = {frame.id}
      BY <1>3, <2>2, ShortOnce DEF Brought
    <2>8. Splits(Push(c, e).out, pc, held \union {frame.id})
      BY <2>2, <2>7, PushSplits
    <2>9. QED
      BY <2>4, <2>6, <2>7, <2>8
  <1>4. QED
    BY <1>1, <1>2, <1>3

\* What reaches the wire: nothing, or what is new to the client.
LEMMA Emitted ==
    ASSUME sse \in Responses, NEW out \in Seq(Events), Distinct(sse.wire), Distinct(out),
           Carried(sse.wire) \intersect Carried(out) = {}, NEW r, EmitTo(r, out)
    PROVE  /\ sse' \in Responses /\ sse'.wire \in Seq(Events) /\ Distinct(sse'.wire)
           /\ Carried(sse'.wire) \subseteq Carried(sse.wire) \union Carried(out)
           /\ ~r.listening => sse'.wire = sse.wire
  <1>1. sse.wire \in Seq(Events) /\ sse.since \in Nat
    BY DEF Responses
  <1>2. CASE sse' = sse
    BY <1>1, <1>2
  <1>3. CASE r.listening /\ Deliver(out)
    <2> DEFINE skipped == {i \in DOMAIN out : out[i].seq <= sse.since}
               m == Cardinality(skipped)
               fresh == SubSeq(out, m + 1, Len(out))
               wire == sse.wire \o fresh
               still == sse.open /\ ~\E i \in DOMAIN fresh : IsTerminal(fresh[i])
    <2>1. m \in Nat
      <3>1. IsFiniteSet(1 .. Len(out))
        BY FS_Interval
      <3>2. skipped \subseteq 1 .. Len(out)
        OBVIOUS
      <3>3. IsFiniteSet(skipped)
        BY <3>1, <3>2, FS_Subset
      <3>4. QED
        BY <3>3, FS_CardinalityType
    <2>2. Fresh(out, sse.since) = fresh
      BY DEF Fresh
    <2>3. sse' = [sse EXCEPT !.wire = wire, !.open = still]
      BY <1>3, <2>2 DEF Deliver
    <2> HIDE DEF m
    <2>4. /\ fresh \in Seq(Events) /\ Carried(fresh) \subseteq Carried(out) /\ Distinct(fresh)
      BY <2>1, RestDistinct
    <2> HIDE DEF fresh
    <2>5. /\ wire \in Seq(Events) /\ Distinct(wire)
          /\ Carried(wire) = Carried(sse.wire) \union Carried(fresh)
      BY <1>1, <2>4, JoinDistinct
    <2>6. still \in BOOLEAN
      OBVIOUS
    <2> HIDE DEF wire, still
    <2>7. sse' \in Responses
      BY <2>3, <2>5, <2>6 DEF Responses
    <2>8. sse'.wire = wire
      BY <2>3 DEF Responses
    <2>9. QED
      BY <1>3, <2>4, <2>5, <2>7, <2>8
  <1>4. QED
    BY <1>2, <1>3 DEF EmitTo

-----------------------------------------------------------------------------
(* No token counts twice, whatever happens.                                 *)

\* The text s holds tokens of those sent, and only those of d twice, or while they are
\* also in x.
Keeps(s, sent, x, d) == Ids(s) \subseteq sent /\ Once(s, d) /\ Ids(s) \intersect x \subseteq d

Sent == 1 .. runtime.sent
Flowing == Carried(sse.wire) \union HeldBack

Upstream ==
    /\ Keeps(runtime.text, Sent, {}, {})
    /\ Undispatched \subseteq {0} \union Sent
    /\ \A i \in DOMAIN frames : frames[i].kind \in ActivityKinds => frames[i].id # 0
    /\ \A i, j \in DOMAIN frames : i # j /\ frames[i].id = frames[j].id => frames[i].id = 0

Downstream ==
    /\ Splits(sse.wire, run.coord, Sent \ Undispatched)
    /\ client.phase # "live" => sse.wire = <<>> /\ ~run.listening

Texts ==
    /\ Keeps(task.view.text, Sent, Undispatched, due)
    /\ Keeps(client.view.text, Sent, Flowing \union Undispatched, due)

TokenTypes == Owned /\ Counted(task) /\ sse \in Responses /\ client \in Clients
TokenInv == TokenTypes /\ Upstream /\ Downstream /\ Texts

\* Nothing that is sent meanwhile is in a text already.
LEMMA StillKeeps ==
    ASSUME NEW s, NEW sent, NEW x, NEW d, Keeps(s, sent, x, d),
           NEW sent2, NEW x2, NEW d2, sent \subseteq sent2, x2 \intersect sent \subseteq x,
           d \subseteq d2
    PROVE  Keeps(s, sent2, x2, d2)
  BY DEF Keeps, Once

LEMMA StillSplits ==
    ASSUME NEW w, NEW c, NEW s, Splits(w, c, s), NEW s2, s \subseteq s2
    PROVE  Splits(w, c, s2)
  BY DEF Splits

\* A text takes what comes off its way.
LEMMA KeepsMore ==
    ASSUME NEW s \in Seq(Nat), NEW t \in Seq(Nat), NEW sent, NEW x, NEW d, Keeps(s, sent, x, d),
           Once(t, {}), Ids(t) \subseteq x \intersect sent, NEW x2,
           x2 \subseteq x, x2 \intersect Ids(t) = {}
    PROVE  Keeps(s \o t, sent, x2, d)
  <1>1. Once(t, d) /\ Once(s, d)
    BY DEF Once, Keeps
  <1>2. Ids(s) \intersect Ids(t) \subseteq d
    BY DEF Keeps
  <1>3. Ids(s \o t) = Ids(s) \union Ids(t) /\ Once(s \o t, d)
    BY <1>1, <1>2, JoinOnce
  <1>4. QED
    BY <1>3 DEF Keeps

LEMMA InitTokens ==
    ASSUME Init
    PROVE  TokenInv
  <1>1. /\ 0 \in 0 .. MaxInterrupts /\ 0 \in 0 .. MaxContinues /\ 0 \in 0 .. MaxDrops
        /\ InitialView \in Views /\ InitialView.text = <<>>
    BY BoundsAssumption, InitialFacts
  <1>2. Counted(task) /\ task.view.text = <<>>
    BY <1>1 DEF Init, Counted, Tasks
  <1>3. sse \in Responses /\ sse.wire = <<>>
    BY DEF Init, ClosedSse, Responses
  <1>4. client \in Clients /\ client.view.text = <<>>
    BY <1>1 DEF Init, Clients
  <1>5. runtime.text = <<>> /\ frames = <<>> /\ run = NoRun
    BY DEF Init
  <1>6. Undispatched = {}
    BY <1>5 DEF Undispatched
  <1>7. \A sent, x, d : Keeps(<<>>, sent, x, d)
    BY EmptyOnce DEF Keeps
  <1>8. Upstream
    BY <1>5, <1>6, <1>7 DEF Upstream
  <1>9. run.coord = NewCoordinator /\ ~run.listening
    BY <1>5, NewRuns DEF NoRun
  <1>10. Splits(<<>>, NewCoordinator, Sent \ Undispatched)
    <2>1. NewCoordinator.pending.ids = NoEvent.ids
      BY NewSplits
    <2>2. QED
      BY <2>1, NewSplits, EmptyDistinct DEF Splits
  <1>11. Downstream
    BY <1>3, <1>9, <1>10 DEF Downstream
  <1>12. Texts
    BY <1>2, <1>4, <1>7 DEF Texts
  <1>13. QED
    BY <1>2, <1>3, <1>4, <1>8, <1>11, <1>12, InitOwned DEF TokenInv, TokenTypes

\* What is unchanged upstream, or loses its first frame.
LEMMA UpstreamStays ==
    ASSUME Upstream, frames \in Seq(Frames), runtime'.sent = runtime.sent,
           runtime'.text = runtime.text,
           frames' = frames \/ (frames # <<>> /\ frames' = Tail(frames))
    PROVE  Upstream' /\ Sent' = Sent /\ Undispatched' \subseteq Undispatched
  <1>1. Sent' = Sent
    BY DEF Sent
  <1>2. CASE frames' = frames
    <2>1. Undispatched' = Undispatched
      BY <1>2 DEF Undispatched
    <2>2. QED
      BY <1>1, <1>2, <2>1 DEF Upstream
  <1>3. CASE frames # <<>> /\ frames' = Tail(frames)
    <2>1. \A i \in DOMAIN frames' : i + 1 \in DOMAIN frames /\ frames'[i] = frames[i + 1] /\ i \in Nat
      BY <1>3
    <2>2. Undispatched' \subseteq Undispatched
      BY <2>1 DEF Undispatched
    <2>3. \A i \in DOMAIN frames' : frames'[i].kind \in ActivityKinds => frames'[i].id # 0
      BY <2>1 DEF Upstream
    <2>4. ASSUME NEW i \in DOMAIN frames', NEW j \in DOMAIN frames', i # j,
                 frames'[i].id = frames'[j].id
          PROVE  frames'[i].id = 0
      <3>1. i + 1 # j + 1
        BY <2>1, <2>4
      <3>2. QED
        BY <2>1, <2>4, <3>1 DEF Upstream
    <2>5. QED
      BY <1>1, <2>2, <2>3, <2>4 DEF Upstream
  <1>4. QED
    BY <1>2, <1>3

LEMMA UpstreamGrows ==
    ASSUME Upstream, runtime \in Runtimes, frames \in Seq(Frames), NEW f \in Frames,
           frames' = Append(frames, f),
           \/ /\ f.kind \notin ActivityKinds /\ f.id = 0
              /\ runtime'.sent = runtime.sent /\ runtime'.text = runtime.text
           \/ /\ f.id = runtime.sent + 1 /\ runtime'.sent = f.id
              /\ runtime'.text \in {runtime.text, Append(runtime.text, f.id)}
    PROVE  /\ Upstream' /\ Sent \subseteq Sent' /\ Undispatched' \intersect Sent \subseteq Undispatched
           /\ Sent \ Undispatched \subseteq Sent' \ Undispatched'
  <1>1. runtime.sent \in Nat /\ runtime.text \in Seq(Nat) /\ f.id \in Nat
    BY RuntimeFields, FrameFields
  <1> DEFINE n == Len(frames)
  <1>2. /\ n \in Nat /\ DOMAIN frames = 1 .. n /\ DOMAIN frames' = 1 .. (n + 1)
        /\ frames'[n + 1] = f /\ \A i \in 1 .. n : frames'[i] = frames[i]
    OBVIOUS
  <1>3. \A i \in DOMAIN frames' : i = n + 1 \/ i \in 1 .. n
    BY <1>2
  <1>4. n + 1 \in DOMAIN frames' /\ \A i \in 1 .. n : i \in DOMAIN frames'
    BY <1>2
  <1> HIDE DEF n
  <1>5. Undispatched' = Undispatched \union {f.id}
    BY <1>2, <1>3, <1>4 DEF Undispatched
  <1>6. f.id \notin Sent /\ Sent \subseteq Sent' /\ Sent' \subseteq Sent \union {f.id}
        /\ (f.id = 0 \/ f.id \in Sent')
    BY <1>1 DEF Sent
  <1>7. Undispatched \subseteq {0} \union Sent
    BY DEF Upstream
  <1>8. f.id = 0 \/ f.id \notin Undispatched
    BY <1>6, <1>7
  <1>9. Keeps(runtime'.text, Sent', {}, {})
    <2>1. Keeps(runtime.text, Sent, {}, {})
      BY DEF Upstream
    <2>2. CASE runtime'.text = runtime.text
      BY <1>6, <2>1, <2>2, StillKeeps
    <2>3. CASE runtime'.text = Append(runtime.text, f.id) /\ f.id \in Sent'
      <3> DEFINE t == <<f.id>>
      <3>1. t \in Seq(Nat) /\ Ids(t) = {f.id} /\ Once(t, {})
        BY <1>1, ShortOnce
      <3>2. Append(runtime.text, f.id) = runtime.text \o t
        <4>1. \A s \in Seq(Nat), x \in Nat : Append(s, x) = s \o <<x>>
          OBVIOUS
        <4>2. QED
          BY <1>1, <4>1
      <3> HIDE DEF t
      <3>3. Ids(runtime.text) \subseteq Sent /\ Once(runtime.text, {})
        BY <2>1 DEF Keeps
      <3>4. /\ Ids(runtime.text \o t) = Ids(runtime.text) \union {f.id}
            /\ Once(runtime.text \o t, {})
        BY <1>1, <1>6, <3>1, <3>3, JoinOnce
      <3>5. QED
        BY <1>6, <2>3, <3>2, <3>3, <3>4 DEF Keeps
    <2>4. \/ runtime'.text = runtime.text
          \/ runtime'.text = Append(runtime.text, f.id) /\ f.id \in Sent'
      BY <1>1, <1>6
    <2>5. QED
      BY <2>2, <2>3, <2>4
  <1>10. \A i \in DOMAIN frames' : frames'[i].kind \in ActivityKinds => frames'[i].id # 0
    BY <1>1, <1>2, <1>3 DEF Upstream
  <1>11. ASSUME NEW i \in DOMAIN frames', NEW j \in DOMAIN frames', i # j,
                frames'[i].id = frames'[j].id
         PROVE  frames'[i].id = 0
    <2>1. \A k \in 1 .. n : frames[k].id \in Undispatched
      BY <1>2 DEF Undispatched
    <2>2. CASE i \in 1 .. n /\ j \in 1 .. n
      BY <1>2, <1>11, <2>2 DEF Upstream
    <2>3. CASE i = n + 1 /\ j \in 1 .. n
      BY <1>2, <1>8, <1>11, <2>1, <2>3
    <2>4. CASE j = n + 1 /\ i \in 1 .. n
      BY <1>2, <1>8, <1>11, <2>1, <2>4
    <2>5. QED
      BY <1>3, <1>11, <2>2, <2>3, <2>4
  <1>12. Undispatched' \subseteq {0} \union Sent'
    BY <1>5, <1>6, <1>7
  <1>13. Upstream'
    BY <1>9, <1>10, <1>11, <1>12 DEF Upstream
  <1>14. QED
    BY <1>5, <1>6, <1>13

LEMMA DownstreamStays ==
    ASSUME Downstream, run'.coord = run.coord, run'.listening = run.listening,
           sse'.wire = sse.wire, Sent \ Undispatched \subseteq Sent' \ Undispatched',
           client'.phase # "live" => client.phase # "live"
    PROVE  Downstream' /\ Flowing' = Flowing
  <1>1. Splits(sse.wire, run.coord, Sent \ Undispatched)
    BY DEF Downstream
  <1>2. Splits(sse.wire, run.coord, Sent' \ Undispatched')
    BY <1>1, StillSplits
  <1>3. QED
    BY <1>2 DEF Downstream, Flowing, HeldBack

LEMMA TextsStay ==
    ASSUME Texts, task'.view.text = task.view.text, client'.view.text = client.view.text,
           Sent \subseteq Sent', due \subseteq due', Undispatched' \intersect Sent \subseteq Undispatched,
           Flowing' \subseteq Flowing \union Undispatched
    PROVE  Texts'
  <1>1. /\ Keeps(task.view.text, Sent, Undispatched, due)
        /\ Keeps(client.view.text, Sent, Flowing \union Undispatched, due)
    BY DEF Texts
  <1>2. Keeps(task.view.text, Sent', Undispatched', due')
    BY <1>1, StillKeeps
  <1>3. (Flowing' \union Undispatched') \intersect Sent \subseteq Flowing \union Undispatched
    OBVIOUS
  <1>4. Keeps(client.view.text, Sent', Flowing' \union Undispatched', due')
    BY <1>1, <1>3, StillKeeps
  <1>5. QED
    BY <1>2, <1>4 DEF Texts

LEMMA SentUpstream ==
    ASSUME TokenInv, sse' = sse, run' = run, client' = client, due' = due, task' = task,
           \/ \E kind \in ActivityKinds : RuntimeWorks(kind)
           \/ \E kind \in EndKinds : RuntimeEnds(kind)
           \/ LoseFrame
    PROVE  Upstream' /\ Downstream' /\ Texts'
  <1>1. runtime \in Runtimes /\ frames \in Seq(Frames) /\ Upstream /\ Downstream /\ Texts
        /\ runtime.sent \in Nat
    BY RuntimeFields DEF TokenInv, TokenTypes, Owned
  <1>2. /\ Upstream' /\ Sent \subseteq Sent' /\ Undispatched' \intersect Sent \subseteq Undispatched
        /\ Sent \ Undispatched \subseteq Sent' \ Undispatched'
    <2>1. ASSUME NEW kind \in ActivityKinds, RuntimeWorks(kind) PROVE <1>2!:
      <3> DEFINE f == Frame(kind, runtime.sent + 1)
      <3>1. f \in Frames /\ f.id = runtime.sent + 1
        BY <1>1 DEF Frame, Frames
      <3>2. /\ frames' = Append(frames, f)
            /\ \/ runtime' = [runtime EXCEPT !.sent = runtime.sent + 1,
                                             !.text = Append(runtime.text, runtime.sent + 1)]
               \/ runtime' = [runtime EXCEPT !.sent = runtime.sent + 1,
                                             !.items = Append(runtime.items, runtime.sent + 1)]
        BY <2>1 DEF RuntimeWorks
      <3> HIDE DEF f
      <3>3. /\ runtime'.sent = f.id
            /\ runtime'.text \in {runtime.text, Append(runtime.text, f.id)}
        BY <1>1, <3>1, <3>2 DEF Runtimes
      <3>4. QED
        BY <1>1, <3>1, <3>2, <3>3, UpstreamGrows
    <2>2. ASSUME NEW kind \in EndKinds, RuntimeEnds(kind) PROVE <1>2!:
      <3> DEFINE f == Frame(kind, 0)
      <3>1. f \in Frames /\ f.id = 0 /\ f.kind \notin ActivityKinds
        BY DEF Frame, Frames, EndKinds, ActivityKinds
      <3>2. frames' = Append(frames, f) /\ runtime' = [runtime EXCEPT !.ends = runtime.ends + 1]
        BY <2>2 DEF RuntimeEnds
      <3> HIDE DEF f
      <3>3. runtime'.sent = runtime.sent /\ runtime'.text = runtime.text
        BY <1>1, <3>2 DEF Runtimes
      <3>4. QED
        BY <1>1, <3>1, <3>2, <3>3, UpstreamGrows
    <2>3. ASSUME LoseFrame PROVE <1>2!:
      <3>1. frames # <<>> /\ frames' = Tail(frames)
            /\ runtime' = [runtime EXCEPT !.lost = runtime.lost + 1]
        BY <2>3 DEF LoseFrame
      <3>2. runtime'.sent = runtime.sent /\ runtime'.text = runtime.text
        BY <1>1, <3>1 DEF Runtimes
      <3>3. QED
        BY <1>1, <3>1, <3>2, UpstreamStays
    <2>4. QED
      BY <2>1, <2>2, <2>3
  <1>3. Downstream' /\ Flowing' = Flowing
    BY <1>1, <1>2, DownstreamStays
  <1>4. Texts'
    BY <1>1, <1>2, <1>3, TextsStay
  <1>5. QED
    BY <1>2, <1>3, <1>4

LEMMA TokensQuiet ==
    ASSUME TokenInv, runtime'.sent = runtime.sent, runtime'.text = runtime.text,
           UNCHANGED <<frames, run, sse, due>>, task'.view.text = task.view.text,
           client' = client \/ client' = [client EXCEPT !.phase = "lost"], client' # client => client.phase # "live"
    PROVE  client' \in Clients /\ Upstream' /\ Downstream' /\ Texts'
  <1>1. frames \in Seq(Frames) /\ Upstream /\ Downstream /\ Texts /\ client \in Clients
    BY DEF TokenInv, TokenTypes, Owned
  <1>2. Upstream' /\ Sent' = Sent /\ Undispatched' = Undispatched
    BY <1>1, UpstreamStays DEF Undispatched
  <1>3. /\ client' \in Clients /\ client'.view.text = client.view.text
        /\ client'.phase # "live" => client.phase # "live"
    <2>1. CASE client' = client
      BY <1>1, <2>1
    <2>2. CASE client' # client
      <3>1. client' = [client EXCEPT !.phase = "lost"] /\ client.phase # "live"
        BY <2>2
      <3>2. client' \in Clients /\ client'.view = client.view
        BY <1>1, <3>1 DEF Clients
      <3>3. QED
        BY <3>1, <3>2
    <2>3. QED
      BY <2>1, <2>2
  <1>4. Downstream' /\ Flowing' = Flowing
    BY <1>1, <1>2, <1>3, DownstreamStays
  <1>5. Texts'
    BY <1>1, <1>2, <1>3, <1>4, TextsStay
  <1>6. QED
    BY <1>2, <1>3, <1>4, <1>5

\* A view that is adopted: what is on its way to it comes again.
LEMMA TokensReopened ==
    ASSUME TokenInv, ContinueSettles
    PROVE  Upstream' /\ Downstream' /\ Texts'
  <1>1. frames \in Seq(Frames) /\ Upstream /\ Downstream /\ Texts /\ task \in Tasks
    BY DEF TokenInv, TokenTypes, Owned, Counted
  <1>2. /\ UNCHANGED <<runtime, frames, run, sse, client>>
        /\ due' = due \union (Ids(runtime.text) \intersect Undispatched)
    BY DEF ContinueSettles
  <1>3. task'.view.text = runtime.text
    BY <1>1 DEF ContinueSettles, Tasks
  <1>4. Upstream' /\ Sent' = Sent /\ Undispatched' = Undispatched
    BY <1>1, <1>2, UpstreamStays DEF Undispatched
  <1>5. Downstream' /\ Flowing' = Flowing
    BY <1>1, <1>2, <1>4, DownstreamStays
  <1>6. Keeps(runtime.text, Sent, Undispatched, due')
    BY <1>1, <1>2 DEF Upstream, Keeps, Once
  <1>7. Keeps(client.view.text, Sent, Flowing \union Undispatched, due')
    BY <1>1, <1>2, StillKeeps DEF Texts
  <1>8. Texts'
    BY <1>2, <1>3, <1>4, <1>5, <1>6, <1>7 DEF Texts
  <1>9. QED
    BY <1>4, <1>5, <1>8

LEMMA TokensLoaded ==
    ASSUME TokenInv, LoadSnapshot
    PROVE  client' \in Clients /\ Upstream' /\ Downstream' /\ Texts'
  <1> DEFINE phase == IF task.view.terminal = "none" THEN "snapshot" ELSE "ended"
  <1>1. /\ frames \in Seq(Frames) /\ Upstream /\ Downstream /\ Texts /\ client \in Clients
        /\ task.view \in Views
    BY TaskFields DEF TokenInv, TokenTypes, Owned, Counted
  <1>2. /\ UNCHANGED <<runtime, frames, task, run, sse>>
        /\ due' = due \union (Ids(task.view.text) \intersect HeldBack)
        /\ client' = [client EXCEPT !.view = task.view, !.phase = phase]
        /\ client.phase # "live"
    BY DEF LoadSnapshot
  <1>3. client' \in Clients /\ client'.view = task.view /\ client'.phase # "live"
    BY <1>1, <1>2 DEF Clients
  <1>4. Upstream' /\ Sent' = Sent /\ Undispatched' = Undispatched
    BY <1>1, <1>2, UpstreamStays DEF Undispatched
  <1>5. Downstream' /\ Flowing' = Flowing
    BY <1>1, <1>2, <1>3, <1>4, DownstreamStays
  <1>6. Flowing = HeldBack
    <2>1. sse.wire = <<>>
      BY <1>1, <1>2 DEF Downstream
    <2>2. QED
      BY <2>1, EmptyDistinct DEF Flowing
  <1>7. Keeps(task.view.text, Sent, Undispatched, due)
    BY <1>1 DEF Texts
  <1>8. Keeps(task.view.text, Sent, Undispatched, due')
    BY <1>2, <1>7, StillKeeps
  <1>9. Keeps(task.view.text, Sent, Flowing \union Undispatched, due')
    BY <1>2, <1>6, <1>8 DEF Keeps
  <1>10. Texts'
    BY <1>2, <1>3, <1>4, <1>5, <1>8, <1>9 DEF Texts
  <1>11. QED
    BY <1>3, <1>4, <1>5, <1>10

\* The renderer joins a run or leaves it: at most less is on the way.
LEMMA TokensJoined ==
    ASSUME TokenInv, UNCHANGED <<runtime, frames, task, due>>, client' \in Clients,
           client'.view.text = client.view.text, sse'.wire = <<>>,
           run'.coord = run.coord \/ run'.coord = NewCoordinator,
           client'.phase = "live" \/ ~run'.listening
    PROVE  Upstream' /\ Downstream' /\ Texts'
  <1>1. frames \in Seq(Frames) /\ Upstream /\ Downstream /\ Texts
    BY DEF TokenInv, TokenTypes, Owned
  <1>2. Upstream' /\ Sent' = Sent /\ Undispatched' = Undispatched
    BY <1>1, UpstreamStays DEF Undispatched
  <1>3. Splits(sse.wire, run.coord, Sent \ Undispatched)
    BY <1>1 DEF Downstream
  <1>4. Splits(sse'.wire, run'.coord, Sent' \ Undispatched')
    BY <1>2, <1>3, NewSplits
  <1>5. Downstream'
    BY <1>4 DEF Downstream
  <1>6. Flowing' \subseteq Flowing
    <2>1. Carried(sse'.wire) = {} /\ Ids(NewCoordinator.pending.ids) = {}
      BY EmptyDistinct, NewSplits
    <2>2. QED
      BY <2>1 DEF Flowing, HeldBack
  <1>7. Texts'
    BY <1>1, <1>2, <1>6, TextsStay
  <1>8. QED
    BY <1>2, <1>5, <1>7

LEMMA TokensSubscribed ==
    ASSUME TokenInv, Subscribe
    PROVE  sse' \in Responses /\ client' \in Clients /\ Upstream' /\ Downstream' /\ Texts'
  <1>1. run \in Runs /\ client \in Clients /\ client.view \in Views
    BY DEF TokenInv, TokenTypes, Owned, Clients
  <1> DEFINE r == IF run.exists THEN run ELSE NewRun
  <1>2. /\ UNCHANGED <<runtime, frames, task, due>>
        /\ client' = [client EXCEPT !.phase = "live"]
        /\ sse' = [open |-> TRUE, since |-> client.view.last, wire |-> <<>>]
        /\ run' = [r EXCEPT !.listening = TRUE]
    BY DEF Subscribe
  <1>3. r \in Runs /\ (r.coord = run.coord \/ r.coord = NewCoordinator)
    BY <1>1, NewRuns
  <1> HIDE DEF r
  <1>4. run'.coord = run.coord \/ run'.coord = NewCoordinator
    BY <1>2, <1>3 DEF Runs
  <1>5. client' \in Clients /\ client'.view = client.view /\ client'.phase = "live"
    BY <1>1, <1>2 DEF Clients
  <1>6. sse' \in Responses /\ sse'.wire = <<>>
    <2>1. client.view.last \in Nat
      BY <1>1, ViewFields
    <2>2. QED
      BY <1>2, <2>1 DEF Responses
  <1>7. QED
    BY <1>2, <1>4, <1>5, <1>6, TokensJoined

LEMMA LeftRun ==
    ASSUME NEW r \in Runs
    PROVE  /\ ~Unsubscribe(r).listening
           /\ Unsubscribe(r).coord = r.coord \/ Unsubscribe(r).coord = NewCoordinator
  <1>1. CASE r.exists /\ ~r.opened
    BY <1>1, NewRuns DEF Unsubscribe, NoRun
  <1>2. CASE ~(r.exists /\ ~r.opened)
    <2>1. Unsubscribe(r) = [r EXCEPT !.listening = FALSE]
      BY <1>2 DEF Unsubscribe
    <2>2. QED
      BY <2>1 DEF Runs
  <1>3. QED
    BY <1>1, <1>2

LEMMA TokensDisconnected ==
    ASSUME TokenInv, Disconnect
    PROVE  sse' \in Responses /\ client' \in Clients /\ Upstream' /\ Downstream' /\ Texts'
  <1>1. /\ run \in Runs /\ client \in Clients /\ client.drops \in 0 .. MaxDrops
        /\ MaxDrops \in Nat
    BY BoundsAssumption DEF TokenInv, TokenTypes, Owned, Clients
  <1>2. /\ UNCHANGED <<runtime, frames, task, due>>
        /\ client' = [client EXCEPT !.phase = "lost", !.drops = client.drops + 1]
        /\ sse' = ClosedSse /\ run' = Unsubscribe(run) /\ client.drops < MaxDrops
    BY DEF Disconnect
  <1>3. client.drops + 1 \in 0 .. MaxDrops
    BY <1>1, <1>2
  <1>4. client' \in Clients /\ client'.view = client.view
    BY <1>1, <1>2, <1>3 DEF Clients
  <1>5. sse' \in Responses /\ sse'.wire = <<>>
    BY <1>2 DEF ClosedSse, Responses
  <1>6. QED
    BY <1>1, <1>2, <1>4, <1>5, LeftRun, TokensJoined

\* The renderer folds what was on its way: that is on its way no more.
LEMMA TokensReceived ==
    ASSUME TokenInv, Receive
    PROVE  sse' \in Responses /\ client' \in Clients /\ Upstream' /\ Downstream' /\ Texts'
  <1> DEFINE w == sse.wire
             e == Head(w)
             rest == Tail(w)
             view == ReduceEv(client.view, e)
             held == run.coord.pending.ids
  <1>1. /\ frames \in Seq(Frames) /\ Upstream /\ Downstream /\ Texts /\ run \in Runs
        /\ client \in Clients /\ client.view \in Views /\ client.view.text \in Seq(Nat)
        /\ sse \in Responses /\ Splits(w, run.coord, Sent \ Undispatched)
    BY ViewFields DEF TokenInv, TokenTypes, Owned, Clients, Downstream
  <1>2. /\ w \in Seq(Events) /\ w # <<>> /\ Distinct(w) /\ UNCHANGED <<runtime, frames, task, due>>
        /\ client.phase = "live"
    BY <1>1 DEF Receive, Splits
  <1>3. /\ e \in Events /\ rest \in Seq(Events) /\ Distinct(rest) /\ Once(e.ids, {})
        /\ Ids(e.ids) \subseteq Carried(w) /\ Carried(rest) \subseteq Carried(w)
        /\ Ids(e.ids) \intersect Carried(rest) = {}
    BY <1>2, HeadDistinct
  <1>4. /\ view \in Views
        /\ view.text = client.view.text \/ view.text = client.view.text \o e.ids
    BY <1>1, <1>3, ReducedTypes
  <1>5. \/ /\ client' = [client EXCEPT !.view = view, !.phase = "ended"]
           /\ sse' = ClosedSse /\ run' = Unsubscribe(run)
        \/ /\ client' = [client EXCEPT !.view = view]
           /\ sse' = [sse EXCEPT !.wire = rest] /\ run' = run
    BY DEF Receive
  <1> HIDE DEF view, e, rest
  <1>6. /\ client' \in Clients /\ client'.view = view /\ sse' \in Responses
        /\ \/ sse'.wire = <<>> /\ ~run'.listening
              /\ (run'.coord = run.coord \/ run'.coord = NewCoordinator)
           \/ sse'.wire = rest /\ run' = run /\ client'.phase = "live"
    <2>1. CASE /\ client' = [client EXCEPT !.view = view, !.phase = "ended"]
               /\ sse' = ClosedSse /\ run' = Unsubscribe(run)
      <3>1. client' \in Clients /\ client'.view = view
        BY <1>1, <1>4, <2>1 DEF Clients
      <3>2. sse' \in Responses /\ sse'.wire = <<>>
        BY <2>1 DEF ClosedSse, Responses
      <3>3. QED
        BY <1>1, <2>1, <3>1, <3>2, LeftRun
    <2>2. CASE /\ client' = [client EXCEPT !.view = view]
               /\ sse' = [sse EXCEPT !.wire = rest] /\ run' = run
      <3>1. client' \in Clients /\ client'.view = view /\ client'.phase = "live"
        BY <1>1, <1>2, <1>4, <2>2 DEF Clients
      <3>2. sse' \in Responses /\ sse'.wire = rest
        BY <1>1, <1>3, <2>2 DEF Responses
      <3>3. QED
        BY <2>2, <3>1, <3>2
    <2>3. QED
      BY <1>5, <2>1, <2>2
  <1>7. Upstream' /\ Sent' = Sent /\ Undispatched' = Undispatched
    BY <1>1, <1>2, UpstreamStays DEF Undispatched
  <1>8. Splits(rest, run.coord, Sent \ Undispatched)
    BY <1>1, <1>3 DEF Splits
  <1>9. Splits(sse'.wire, run'.coord, Sent' \ Undispatched')
    BY <1>6, <1>7, <1>8, NewSplits
  <1>10. Downstream'
    BY <1>6, <1>9 DEF Downstream
  <1>11. Flowing' \subseteq Carried(rest) \union Ids(held)
    <2>1. Carried(<<>>) = {} /\ Ids(NewCoordinator.pending.ids) = {}
      BY EmptyDistinct, NewSplits
    <2>2. QED
      BY <1>6, <2>1 DEF Flowing, HeldBack
  <1>12. /\ Flowing' \subseteq Flowing /\ Ids(e.ids) \subseteq Flowing
         /\ Ids(e.ids) \subseteq Sent /\ Ids(e.ids) \intersect (Flowing' \union Undispatched) = {}
    <2>1. /\ Carried(w) \intersect Ids(held) = {}
          /\ Carried(w) \union Ids(held) \subseteq Sent \ Undispatched
      BY <1>1 DEF Splits
    <2>2. Flowing = Carried(w) \union Ids(held)
      BY DEF Flowing, HeldBack
    <2>3. QED
      BY <1>3, <1>11, <2>1, <2>2
  <1>13. /\ Keeps(task.view.text, Sent, Undispatched, due)
         /\ Keeps(client.view.text, Sent, Flowing \union Undispatched, due)
    BY <1>1 DEF Texts
  <1>14. Keeps(view.text, Sent, Flowing' \union Undispatched, due)
    <2>1. CASE view.text = client.view.text
      BY <1>12, <1>13, <2>1 DEF Keeps
    <2>2. CASE view.text = client.view.text \o e.ids
      <3>1. e.ids \in Seq(Nat)
        BY <1>3 DEF Events
      <3>2. Keeps(client.view.text \o e.ids, Sent, Flowing' \union Undispatched, due)
        BY <1>1, <1>3, <1>12, <1>13, <3>1, KeepsMore
      <3>3. QED
        BY <2>2, <3>2
    <2>3. QED
      BY <1>4, <2>1, <2>2
  <1>15. Texts'
    BY <1>2, <1>6, <1>7, <1>13, <1>14 DEF Texts
  <1>16. QED
    BY <1>6, <1>7, <1>10, <1>15

\* What a run lets go is on the wire or lost; tokens of s may have joined it.
LEMMA TokensEmitted ==
    ASSUME TokenInv, NEW r, NEW out, NEW c, NEW got, Splits(out, c, got), NEW s,
           got \subseteq HeldBack \union s, s \intersect Flowing = {}, EmitTo(r, out)
    PROVE  /\ sse' \in Responses
           /\ Splits(sse'.wire, c, Flowing \union s)
           /\ ~r.listening => sse'.wire = sse.wire
  <1>1. /\ sse \in Responses /\ sse.wire \in Seq(Events) /\ Distinct(sse.wire)
        /\ Carried(sse.wire) \intersect HeldBack = {}
    BY DEF TokenInv, TokenTypes, Downstream, Splits, HeldBack
  <1>2. /\ out \in Seq(Events) /\ Distinct(out) /\ Quiet(c) /\ Once(c.pending.ids, {})
        /\ Carried(out) \intersect Ids(c.pending.ids) = {}
        /\ Carried(out) \union Ids(c.pending.ids) \subseteq got
    BY DEF Splits
  <1>3. Carried(sse.wire) \intersect got = {}
    BY <1>1 DEF Flowing
  <1>4. /\ sse' \in Responses /\ sse'.wire \in Seq(Events) /\ Distinct(sse'.wire)
        /\ Carried(sse'.wire) \subseteq Carried(sse.wire) \union Carried(out)
        /\ ~r.listening => sse'.wire = sse.wire
    BY <1>1, <1>2, <1>3, Emitted
  <1>5. Carried(sse'.wire) \intersect Ids(c.pending.ids) = {}
    BY <1>2, <1>3, <1>4
  <1>6. Carried(sse'.wire) \union Ids(c.pending.ids) \subseteq Flowing \union s
    BY <1>2, <1>4 DEF Flowing
  <1>7. QED
    BY <1>2, <1>4, <1>5, <1>6 DEF Splits

LEMMA TokensFlushed ==
    ASSUME TokenInv, WindowFires
    PROVE  sse' \in Responses /\ Upstream' /\ Downstream' /\ Texts'
  <1> DEFINE out == FlushPending(run.coord).out
             c == FlushPending(run.coord).coord
  <1>1. /\ frames \in Seq(Frames) /\ Upstream /\ Downstream /\ Texts /\ run \in Runs
        /\ Quiet(run.coord) /\ Once(run.coord.pending.ids, {})
        /\ Flowing \subseteq Sent \ Undispatched
    BY DEF TokenInv, TokenTypes, Owned, Downstream, Splits, Flowing, HeldBack
  <1>2. /\ UNCHANGED <<runtime, frames, task, client, due>>
        /\ run' = [run EXCEPT !.coord = c] /\ EmitTo(run, out)
    BY DEF WindowFires
  <1>3. Splits(out, c, HeldBack)
    BY <1>1, FlushSplits DEF HeldBack
  <1> HIDE DEF out, c
  <1>4. /\ sse' \in Responses /\ Splits(sse'.wire, c, Flowing)
        /\ ~run.listening => sse'.wire = sse.wire
    <2> DEFINE s == {}
    <2>1. s \intersect Flowing = {} /\ HeldBack \subseteq HeldBack \union s /\ Flowing \union s = Flowing
      OBVIOUS
    <2> HIDE DEF s
    <2>2. /\ sse' \in Responses /\ Splits(sse'.wire, c, Flowing \union s)
          /\ ~run.listening => sse'.wire = sse.wire
      BY <1>2, <1>3, <2>1, TokensEmitted
    <2>3. QED
      BY <2>1, <2>2
  <1>5. run'.coord = c /\ run'.listening = run.listening
    BY <1>1, <1>2 DEF Runs
  <1>6. Upstream' /\ Sent' = Sent /\ Undispatched' = Undispatched
    BY <1>1, <1>2, UpstreamStays DEF Undispatched
  <1>7. Splits(sse'.wire, run'.coord, Sent' \ Undispatched')
    BY <1>1, <1>4, <1>5, <1>6, StillSplits
  <1>8. Downstream'
    BY <1>1, <1>2, <1>4, <1>5, <1>7 DEF Downstream
  <1>9. Flowing' \subseteq Flowing
    BY <1>4, <1>5 DEF Flowing, HeldBack, Splits
  <1>10. Texts'
    BY <1>1, <1>2, <1>6, <1>9, TextsStay
  <1>11. QED
    BY <1>4, <1>6, <1>8, <1>10

\* A frame leaves the stream for the registry's text and for the run.
LEMMA TokensDispatched ==
    ASSUME TokenInv, PumpDispatch
    PROVE  sse' \in Responses /\ Upstream' /\ Downstream' /\ Texts'
  <1> DEFINE frame == Head(frames)
             r == IF run.exists THEN run ELSE NewRun
             fed == Ingest(r, frame)
             held == Ids(r.coord.pending.ids)
             new == Brought(frame)
  <1>1. /\ frames \in Seq(Frames) /\ Upstream /\ Downstream /\ Texts /\ run \in Runs
        /\ Quiet(run.coord) /\ Once(run.coord.pending.ids, {}) /\ task \in Tasks
        /\ Flowing \subseteq Sent \ Undispatched
    BY DEF TokenInv, TokenTypes, Owned, Counted, Downstream, Splits, Flowing, HeldBack
  <1>2. /\ frames # <<>> /\ frames' = Tail(frames) /\ UNCHANGED <<runtime, client, due>>
        /\ task' = ApplyAll(task, fed.events) /\ run' = fed.run /\ EmitTo(run, fed.out)
    BY DEF PumpDispatch
  <1>3. frame \in Frames /\ frame = frames[1] /\ 1 \in DOMAIN frames
    BY <1>1, <1>2
  <1>4. /\ r \in Runs /\ r.seq \in Nat /\ Quiet(r.coord) /\ Once(r.coord.pending.ids, {})
        /\ held \subseteq HeldBack /\ (r.listening => run.listening)
    <2>1. CASE run.exists
      BY <1>1, <2>1, RunFields DEF HeldBack
    <2>2. CASE ~run.exists
      BY <2>2, NewRuns, NewSplits DEF HeldBack
    <2>3. QED
      BY <2>1, <2>2
  <1>5. fed.events = MapFrame(r.seq, frame)
    BY DEF Ingest
  <1> HIDE DEF frame, r, new
  <1>6. /\ Upstream' /\ Sent' = Sent /\ Undispatched' \subseteq Undispatched
    BY <1>1, <1>2, UpstreamStays
  <1>7. new \subseteq Undispatched /\ new \subseteq Sent /\ new \intersect Undispatched' = {}
    <2>1. CASE frame.kind \in ActivityKinds
      <3>1. new = {frame.id} /\ frame.id \in Undispatched /\ frame.id # 0
        BY <1>1, <1>3, <2>1 DEF Brought, Undispatched, Upstream, new
      <3>2. frame.id \in Sent
        BY <1>1, <3>1 DEF Upstream
      <3>3. \A i \in DOMAIN frames' : i + 1 \in DOMAIN frames /\ frames'[i] = frames[i + 1] /\ i + 1 # 1
        BY <1>1, <1>2
      <3>4. \A i \in DOMAIN frames' : frames'[i].id # frame.id
        BY <1>1, <1>3, <3>1, <3>3 DEF Upstream
      <3>5. frame.id \notin Undispatched'
        BY <3>4 DEF Undispatched
      <3>6. QED
        BY <3>1, <3>2, <3>5
    <2>2. CASE frame.kind \notin ActivityKinds
      BY <2>2 DEF Brought, new
    <2>3. QED
      BY <2>1, <2>2
  <1>8. Splits(fed.out, fed.run.coord, held \union new)
    <2>1. new \intersect held = {}
      BY <1>1, <1>4, <1>7 DEF Flowing
    <2>2. QED
      BY <1>3, <1>4, <2>1, IngestSplits DEF new
  <1>9. fed.run.listening => r.listening
    BY <1>3, <1>4, IngestedRun
  <1> HIDE DEF fed, held
  <1>10. /\ sse' \in Responses /\ Splits(sse'.wire, fed.run.coord, Flowing \union new)
         /\ ~run.listening => sse'.wire = sse.wire
    <2>1. new \intersect Flowing = {}
      BY <1>1, <1>7
    <2>2. held \union new \subseteq HeldBack \union new
      BY <1>4
    <2>3. QED
      BY <1>2, <1>8, <2>1, <2>2, TokensEmitted
  <1>11. Flowing \union new \subseteq Sent' \ Undispatched'
    BY <1>1, <1>6, <1>7
  <1>12. Splits(sse'.wire, run'.coord, Sent' \ Undispatched')
    BY <1>2, <1>10, <1>11, StillSplits
  <1>13. Downstream'
    BY <1>1, <1>2, <1>4, <1>9, <1>10, <1>12 DEF Downstream
  <1>14. Flowing' \subseteq Flowing \union new
    BY <1>2, <1>10 DEF Flowing, HeldBack, Splits
  <1>15. Keeps(task'.view.text, Sent', Undispatched', due')
    <2>1. Keeps(task.view.text, Sent, Undispatched, due) /\ task.view.text \in Seq(Nat)
      BY <1>1, TaskFields, ViewFields DEF Texts
    <2>2. \/ task'.view.text = task.view.text
          \/ frame.kind \in ActivityKinds /\ task'.view.text = task.view.text \o <<frame.id>>
      <3> DEFINE l == ApplyAll(task, MapFrame(r.seq, frame))
      <3>1. l.view.text = task.view.text
            \/ (frame.kind \in ActivityKinds /\ l.view.text = task.view.text \o <<frame.id>>)
        BY <1>1, <1>3, <1>4, FrameApplied
      <3>2. task' = l
        BY <1>2, <1>5
      <3> HIDE DEF l
      <3>3. QED
        BY <3>1, <3>2
    <2>3. CASE task'.view.text = task.view.text
      BY <1>2, <1>6, <2>1, <2>3 DEF Keeps
    <2>4. CASE frame.kind \in ActivityKinds /\ task'.view.text = task.view.text \o <<frame.id>>
      <3> DEFINE t == <<frame.id>>
      <3>1. t \in Seq(Nat) /\ Ids(t) = new /\ Once(t, {})
        BY <1>3, <2>4, FrameFields, ShortOnce DEF Brought, new
      <3> HIDE DEF t
      <3>2. Keeps(task.view.text \o t, Sent, Undispatched', due)
        BY <1>6, <1>7, <2>1, <3>1, KeepsMore
      <3>3. QED
        BY <1>2, <1>6, <2>4, <3>2 DEF t
    <2>5. QED
      BY <2>2, <2>3, <2>4
  <1>16. Keeps(client'.view.text, Sent', Flowing' \union Undispatched', due')
    BY <1>1, <1>2, <1>6, <1>7, <1>14 DEF Texts, Keeps
  <1>17. QED
    BY <1>6, <1>10, <1>13, <1>15, <1>16 DEF Texts

LEMMA StepTokens ==
    ASSUME TokenInv, [Next]_vars
    PROVE  TokenInv'
  <1>1. Owned /\ Counted(task) /\ sse \in Responses /\ client \in Clients /\ runtime \in Runtimes
    BY DEF TokenInv, TokenTypes, Owned
  <1>2. Owned' /\ Counted(task')
    BY <1>1, StepOwned, TaskTypes DEF Owned
  <1>3. PumpDispatch \/ ContinueSettles \/ task'.view.text = task.view.text
    BY <1>1, TaskTypes DEF Owned
  <1>4. SUFFICES sse' \in Responses /\ client' \in Clients /\ Upstream' /\ Downstream' /\ Texts'
    BY <1>2 DEF TokenInv, TokenTypes
  <1>5. ASSUME \/ Prompt \/ PromptArrives \/ PromptFails \/ CancelAborts \/ CancelSettles
               \/ CancelFails \/ CancelUnbound \/ Deny \/ ContinueCalled \/ UNCHANGED vars,
               ~PumpDispatch, ~ContinueSettles
        PROVE  client' \in Clients /\ sse' \in Responses /\ Upstream' /\ Downstream' /\ Texts'
    <2>1. UNCHANGED <<frames, run, sse, client, due>>
      BY <1>5 DEF Prompt, PromptArrives, PromptFails, CancelAborts, CancelSettles, CancelFails,
                  CancelUnbound, Deny, ContinueCalled, vars
    <2>2. \/ runtime' = runtime
          \/ runtime' = [runtime EXCEPT !.sending = TRUE]
          \/ runtime' = [runtime EXCEPT !.sending = FALSE, !.prompted = TRUE]
          \/ runtime' = [runtime EXCEPT !.sending = FALSE]
          \/ runtime' = [runtime EXCEPT !.aborted = TRUE]
      BY <1>5 DEF Prompt, PromptArrives, PromptFails, CancelAborts, CancelSettles, CancelFails,
                  CancelUnbound, Deny, ContinueCalled, vars
    <2>3. runtime'.sent = runtime.sent /\ runtime'.text = runtime.text
      BY <1>1, <2>2 DEF Runtimes
    <2>4. task'.view.text = task.view.text
      BY <1>3, <1>5
    <2>5. QED
      BY <1>1, <2>1, <2>3, <2>4, TokensQuiet
  <1>6. CASE OpenFinished
    <2>1. /\ UNCHANGED <<runtime, frames, run, sse, due, task>>
          /\ client' = [client EXCEPT !.phase = "lost"] /\ client.phase # "live"
      BY <1>6 DEF OpenFinished
    <2>2. QED
      BY <1>1, <2>1, TokensQuiet
  <1>7. CASE \/ \E kind \in ActivityKinds : RuntimeWorks(kind)
             \/ \E kind \in EndKinds : RuntimeEnds(kind)
             \/ LoseFrame
    <2>1. UNCHANGED <<sse, run, client, due, task>>
      BY <1>7 DEF RuntimeWorks, RuntimeEnds, LoseFrame
    <2>2. QED
      BY <1>1, <1>7, <2>1, SentUpstream
  <1>8. CASE PumpDispatch \/ WindowFires
    <2>1. client' = client
      BY <1>8 DEF PumpDispatch, WindowFires
    <2>2. QED
      BY <1>1, <1>8, <2>1, TokensDispatched, TokensFlushed
  <1>9. CASE ContinueSettles \/ LoadSnapshot
    <2>1. sse' = sse /\ (client' = client \/ LoadSnapshot)
      BY <1>9 DEF ContinueSettles, LoadSnapshot
    <2>2. QED
      BY <1>1, <1>9, <2>1, TokensReopened, TokensLoaded
  <1>10. CASE Subscribe \/ Receive \/ Disconnect
    BY <1>10, TokensSubscribed, TokensReceived, TokensDisconnected
  <1>11. QED
    BY <1>5, <1>6, <1>7, <1>8, <1>9, <1>10 DEF Next

\* Under every cancel, denial, reopening, broken connection, lost frame and batch, and
\* whatever the runtime sends in which order: a token that is in the renderer's text twice
\* was in a view that was adopted while the token was still on its way to it.
THEOREM NoDoubleCountAlways == Spec => []NoDoubleCount
  <1>1. TokenInv => NoDoubleCount
    <2>1. SUFFICES ASSUME TokenInv PROVE NoDoubleCount
      OBVIOUS
    <2>2. Once(client.view.text, due)
      BY <2>1 DEF TokenInv, Texts, Keeps
    <2>3. QED
      BY <2>2 DEF Once, NoDoubleCount
  <1>2. QED
    BY <1>1, InitTokens, StepTokens, PTL DEF Spec

=============================================================================
