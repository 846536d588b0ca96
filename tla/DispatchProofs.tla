--------------------------- MODULE DispatchProofs ---------------------------
(***************************************************************************)
(* Proofs about a run of a dispatched task, for every number of branches,  *)
(* of attempts and of faults, every concurrency and every loop mode: the   *)
(* pool bounds the turns, a turn is bound to its preset, the end leaves    *)
(* none unaccounted for, no success is made up and nothing is opened after *)
(* an abort.                                                               *)
(***************************************************************************)
EXTENDS Dispatch, FiniteSetTheorems, TLAPS

Loops ==
    [at : {"off", "attempt", "verifying", "sleeping", "ended"},
     attempts : 0 .. MaxTurns, successes : 0 .. MaxTurns, cancelled : BOOLEAN,
     deadline : BOOLEAN, verified : BOOLEAN, state : {"running"} \union LoopTerminals]
ViewStates == {"pending", "running", "completed", "errored", "cancelled"}
RunnerStates == {"none", "creating", "sending", "polling"}
Sessions ==
    [view : {"absent", "none", "completed", "errored", "cancelled", "denied"},
     bound : BOOLEAN, handle : BOOLEAN,
     turn : {"none", "running", "over"}, told : BOOLEAN, fault : BOOLEAN]

LEMMA Bounds ==
    /\ NumBranches \in Nat /\ NumBranches > 0
    /\ MaxTurns \in Nat /\ MaxTurns > 0
    /\ \A c \in Concurrencies : c \in Nat /\ c > 0
  BY DispatchAssumption

\* TypeOK in terms of the sets above.
LEMMA TypeParts ==
    TypeOK <=> /\ policy \in Policies /\ loop \in Loops
               /\ views \in [Branches -> ViewStates] /\ runner \in [Branches -> RunnerStates]
               /\ sess \in [SessionIds -> Sessions]
  BY DEF TypeOK, Loops, ViewStates, RunnerStates, Sessions

LEMMA LoopFields ==
    ASSUME NEW l \in Loops
    PROVE  /\ l.at \in {"off", "attempt", "verifying", "sleeping", "ended"}
           /\ l.attempts \in 0 .. MaxTurns /\ l.attempts \in Nat
           /\ l.successes \in 0 .. MaxTurns /\ l.successes \in Nat
           /\ l.cancelled \in BOOLEAN /\ l.deadline \in BOOLEAN
  BY Bounds DEF Loops

\* The sessions of the attempt under way.
LEMMA CurrentIs ==
    ASSUME loop \in Loops, loop.attempts > 0
    PROVE  /\ \A b \in Branches : Current(b) \in SessionIds
           /\ \A b, c \in Branches : Current(b) = Current(c) => b = c
  <1>1. loop.attempts \in 1 .. MaxTurns
    BY LoopFields, Bounds
  <1>2. QED
    BY <1>1 DEF Current, SessionIds

LEMMA SessionsAreFinite ==
    IsFiniteSet(SessionIds)
  <1>1. IsFiniteSet(1 .. MaxTurns) /\ IsFiniteSet(Branches)
    BY Bounds, FS_Interval DEF Branches
  <1>2. IsFiniteSet((1 .. MaxTurns) \X Branches)
    BY <1>1, FS_Product
  <1>3. QED
    BY <1>2 DEF SessionIds

\* One session is given another state.
LEMMA SessionEdit ==
    ASSUME sess \in [SessionIds -> Sessions], NEW s \in SessionIds, NEW r \in Sessions,
           sess' = [sess EXCEPT ![s] = r]
    PROVE  /\ sess' \in [SessionIds -> Sessions]
           /\ sess'[s] = r
           /\ \A t \in SessionIds : t # s => sess'[t] = sess[t]
  OBVIOUS

\* The states a session can be given.
LEMMA SessionTypes ==
    ASSUME NEW r \in Sessions
    PROVE  /\ [r EXCEPT !.view = "none", !.bound = TRUE] \in Sessions
           /\ [r EXCEPT !.turn = "running"] \in Sessions
           /\ [r EXCEPT !.fault = TRUE] \in Sessions
           /\ [r EXCEPT !.bound = FALSE] \in Sessions
           /\ \A t \in BOOLEAN, v \in {"none", "completed", "errored", "cancelled", "denied"} :
                 [r EXCEPT !.told = t, !.view = v] \in Sessions
           /\ \A v \in {"absent", "none", "completed", "errored", "cancelled", "denied"} :
                 /\ [r EXCEPT !.turn = "over", !.view = v] \in Sessions
                 /\ [r EXCEPT !.view = v, !.fault = TRUE] \in Sessions
                 /\ \A t \in BOOLEAN : [r EXCEPT !.told = t, !.view = v] \in Sessions
  BY DEF Sessions

-----------------------------------------------------------------------------
(* The pool.                                                                *)

LEMMA OccupiedIsFinite ==
    IsFiniteSet(Occupied) /\ Cardinality(Occupied) \in Nat
  <1>1. Occupied \in SUBSET SessionIds
    BY DEF Occupied
  <1>2. IsFiniteSet(Occupied)
    BY <1>1, SessionsAreFinite, FS_Subset
  <1>3. QED
    BY <1>2, FS_CardinalityType

\* No session joins.
LEMMA PoolShrinks ==
    ASSUME TypeOK, PoolIsBounded, policy' = policy, Occupied' \subseteq Occupied
    PROVE  PoolIsBounded'
  <1>1. Cardinality(Occupied') <= Cardinality(Occupied) /\ IsFiniteSet(Occupied')
    BY OccupiedIsFinite, FS_Subset
  <1>2. Cardinality(Occupied') \in Nat /\ Cardinality(Occupied) \in Nat
    BY <1>1, OccupiedIsFinite, FS_CardinalityType
  <1>3. policy.concurrency \in Nat
    BY Bounds DEF TypeOK, Policies
  <1>4. QED
    BY <1>1, <1>2, <1>3 DEF PoolIsBounded

\* A session takes the place of another.
LEMMA PoolSwaps ==
    ASSUME TypeOK, PoolIsBounded, policy' = policy, NEW out \in Occupied, NEW in,
           Occupied' \subseteq (Occupied \ {out}) \union {in}
    PROVE  PoolIsBounded'
  <1> DEFINE rest == Occupied \ {out}
             pool == rest \union {in}
  <1>1. IsFiniteSet(rest) /\ Cardinality(rest) = Cardinality(Occupied) - 1
    BY OccupiedIsFinite, FS_RemoveElement
  <1>2. Cardinality(rest) \in Nat
    BY <1>1, FS_CardinalityType
  <1>3. /\ IsFiniteSet(pool)
        /\ Cardinality(pool) = IF in \in rest THEN Cardinality(rest) ELSE Cardinality(rest) + 1
    BY <1>1, FS_AddElement
  <1>4. Cardinality(pool) <= Cardinality(Occupied) /\ Cardinality(pool) \in Nat
    BY <1>1, <1>2, <1>3, OccupiedIsFinite
  <1>5. Cardinality(Occupied') <= Cardinality(pool) /\ IsFiniteSet(Occupied')
    BY <1>3, FS_Subset
  <1>6. Cardinality(Occupied') \in Nat /\ policy.concurrency \in Nat
    BY <1>5, FS_CardinalityType, Bounds DEF TypeOK, Policies
  <1>7. QED
    BY <1>4, <1>5, <1>6, OccupiedIsFinite DEF PoolIsBounded

\* A group that has been started fills the pool at most.
LEMMA PoolStarts ==
    ASSUME TypeOK, policy' = policy,
           Occupied' \subseteq {s \in SessionIds : s[1] = loop'.attempts /\ s[2] <= policy.concurrency}
    PROVE  PoolIsBounded'
  <1> DEFINE n == policy.concurrency
             T == Occupied'
             f == [s \in T |-> s[2]]
  <1>1. n \in Nat
    BY Bounds DEF TypeOK, Policies
  <1>2. \A s \in T : s \in SessionIds /\ s[1] = loop'.attempts /\ s[2] <= n
    OBVIOUS
  <1> HIDE DEF T
  <1>3. \A s \in SessionIds : s[2] \in Branches /\ s = <<s[1], s[2]>>
    BY DEF SessionIds
  <1>4. \A b \in Branches : b \in Nat /\ b >= 1
    BY Bounds DEF Branches
  <1>5. \A s \in T : s[2] \in 1 .. n
    <2>1. TAKE s \in T
    <2>2. s[2] \in Branches /\ s[2] <= n
      BY <1>2, <1>3
    <2>3. s[2] \in Nat /\ s[2] >= 1
      BY <1>4, <2>2
    <2>4. QED
      BY <1>1, <2>2, <2>3
  <1>6. \A s, t \in T : s[2] = t[2] => s = t
    <2>1. TAKE s, t \in T
    <2>2. s = <<loop'.attempts, s[2]>> /\ t = <<loop'.attempts, t[2]>>
      BY <1>2, <1>3
    <2>3. QED
      BY <2>2
  <1>7. f \in [T -> 1 .. n] /\ \A s, t \in T : f[s] = f[t] => s = t
    BY <1>5, <1>6
  <1>8. f \in Injection(T, 1 .. n)
    BY <1>7 DEF Injection, IsInjective
  <1>9. IsFiniteSet(1 .. n) /\ Cardinality(1 .. n) = n
    <2>1. IsFiniteSet(1 .. n) /\ Cardinality(1 .. n) = IF 1 > n THEN 0 ELSE n - 1 + 1
      BY <1>1, FS_Interval
    <2>2. QED
      BY <1>1, <2>1
  <1>10. Cardinality(T) <= Cardinality(1 .. n)
    BY <1>8, <1>9, FS_Injection
  <1>11. QED
    BY <1>9, <1>10 DEF PoolIsBounded, T

-----------------------------------------------------------------------------
(* Full attempts stay full.                                                 *)

LEMMA FullGrows ==
    ASSUME TypeOK, loop'.attempts \in Nat, loop'.attempts >= loop.attempts,
           \A s \in SessionIds : sess[s].view = "completed" => sess'[s].view = "completed"
    PROVE  FullAttempts \subseteq FullAttempts'
  <1>1. loop.attempts \in 0 .. MaxTurns
    BY LoopFields, TypeParts
  <1>2. \A a \in 1 .. loop.attempts : /\ a \in 1 .. loop'.attempts
                                      /\ \A b \in Branches : <<a, b>> \in SessionIds
    BY <1>1, Bounds DEF SessionIds
  <1>3. QED
    BY <1>2 DEF FullAttempts

\* A step that leaves the loop alone keeps what is said of successes, if it keeps what is
\* said of the branches.
LEMMA SuccessesKept ==
    ASSUME TypeOK, SuccessesAreReal, HonestOutcome, loop' = loop, policy' = policy,
           \A s \in SessionIds : sess[s].view = "completed" => sess'[s].view = "completed",
           loop.at = "attempt" =>
              \A b \in Branches : views'[b] = "completed" => sess'[Current(b)].view = "completed"
    PROVE  SuccessesAreReal' /\ HonestOutcome'
  <1>1. FullAttempts \subseteq FullAttempts'
    BY FullGrows, LoopFields, TypeParts
  <1>2. FullAttempts' \subseteq 1 .. loop.attempts
    BY DEF FullAttempts
  <1>3. Counted' = Counted
    BY DEF Counted
  <1>4. SuccessesAreReal'
    BY <1>1, <1>3 DEF SuccessesAreReal, Current
  <1>5. HonestOutcome'
    BY <1>1, <1>2 DEF HonestOutcome
  <1>6. QED
    BY <1>4, <1>5


-----------------------------------------------------------------------------
(* A branch settles.                                                        *)

\* Once the group is aborted the queue is emptied; before, at most one branch is taken
\* from it.
LEMMA SettleCases ==
    ASSUME TypeOK, NEW b \in Branches, views[b] = "running", NEW status, Settle(b, status)
    PROVE  \/ /\ Aborted
              /\ runner'[b] = "none" /\ views'[b] = "cancelled"
              /\ \A c \in Branches : c # b =>
                    /\ runner'[c] = runner[c]
                    /\ views'[c] = IF views[c] = "pending" THEN "cancelled" ELSE views[c]
           \/ /\ ~Aborted
              /\ runner'[b] = "none" /\ views'[b] = status
              /\ \A c \in Branches : c # b => runner'[c] = runner[c] /\ views'[c] = views[c]
           \/ /\ ~Aborted
              /\ runner'[b] = "none" /\ views'[b] = status
              /\ \E n \in Branches :
                    /\ n # b /\ views[n] = "pending"
                    /\ runner'[n] = "creating" /\ views'[n] = "running"
                    /\ \A c \in Branches \ {b, n} : runner'[c] = runner[c] /\ views'[c] = views[c]
  <1> DEFINE next == {c \in Branches : /\ views[c] = "pending"
                                       /\ \A d \in 1 .. c - 1 : views[d] # "pending"}
  <1>1. /\ views' = [c \in Branches |->
              IF c = b THEN IF Aborted THEN "cancelled" ELSE status
              ELSE IF views[c] = "pending" /\ Aborted THEN "cancelled"
              ELSE IF c \in next THEN "running" ELSE views[c]]
        /\ runner' = [c \in Branches |->
              IF c = b THEN "none"
              ELSE IF c \in next /\ ~Aborted THEN "creating" ELSE runner[c]]
    BY DEF Settle
  <1>2. b \notin next /\ \A c \in next : c \in Branches /\ views[c] = "pending"
    OBVIOUS
  <1>3. \A c, d \in next : c = d
    BY Bounds DEF Branches
  <1> HIDE DEF next
  <1>4. CASE Aborted
    BY <1>1, <1>2, <1>4
  <1>5. CASE ~Aborted /\ next = {}
    BY <1>1, <1>5
  <1>6. CASE ~Aborted /\ next # {}
    <2>1. PICK n \in next : TRUE
      BY <1>6
    <2>2. /\ n \in Branches /\ n # b /\ views[n] = "pending"
          /\ runner'[n] = "creating" /\ views'[n] = "running"
          /\ runner'[b] = "none" /\ views'[b] = status
      BY <1>1, <1>2, <1>6, <2>1
    <2>3. \A c \in Branches \ {b, n} : runner'[c] = runner[c] /\ views'[c] = views[c]
      BY <1>1, <1>3, <1>6, <2>1
    <2>4. QED
      BY <1>6, <2>2, <2>3
  <1>7. QED
    BY <1>4, <1>5, <1>6

\* The types of what Settle changes.
LEMMA SettleType ==
    ASSUME TypeOK, NEW b \in Branches, NEW status \in ViewStates, Settle(b, status)
    PROVE  views' \in [Branches -> ViewStates] /\ runner' \in [Branches -> RunnerStates]
  BY TypeParts DEF Settle, ViewStates, RunnerStates

\* While a branch has a runner an attempt is under way.
LEMMA RunnerMeansAttempt ==
    ASSUME DispatchIInv, NEW b \in Branches, runner[b] # "none"
    PROVE  /\ loop.at = "attempt" /\ loop.attempts > 0 /\ loop.attempts \in 1 .. MaxTurns
           /\ views[b] = "running" /\ b \in Active /\ Waited(Current(b))
           /\ Current(b) \in SessionIds
           /\ \A c, d \in Branches : Current(c) = Current(d) => c = d
  <1>1. b \in Active
    BY DEF Active
  <1>2. loop.at = "attempt" /\ loop.attempts > 0
    BY <1>1 DEF DispatchIInv, LoopInRange
  <1>3. loop \in Loops
    BY TypeParts DEF DispatchIInv
  <1>4. loop.attempts \in 1 .. MaxTurns
    BY <1>2, <1>3, LoopFields, Bounds
  <1>5. Current(b) \in SessionIds /\ \A c, d \in Branches : Current(c) = Current(d) => c = d
    BY <1>2, <1>3, CurrentIs
  <1>6. views[b] = "running"
    BY DEF DispatchIInv, RunnersKnown
  <1>7. QED
    BY <1>1, <1>2, <1>4, <1>5, <1>6 DEF Waited

\* A branch settles, and its session is left in a state that needs no runner.
LEMMA SettleKeeps ==
    ASSUME DispatchIInv, NEW b \in Branches, runner[b] # "none",
           NEW status \in ViewStates, status \notin {"pending", "running"}, Settle(b, status),
           loop' = loop, policy' = policy,
           sess' \in [SessionIds -> Sessions],
           \A s \in SessionIds : s # Current(b) => sess'[s] = sess[s],
           sess[Current(b)].view = "completed" => sess'[Current(b)].view = "completed",
           sess'[Current(b)].turn = sess[Current(b)].turn,
           ~Aborted /\ status = "completed" => sess'[Current(b)].view = "completed",
           sess'[Current(b)].turn # "none" /\ ~sess'[Current(b)].fault =>
              /\ sess'[Current(b)].view # "none"
              /\ sess'[Current(b)].turn = "running" => sess'[Current(b)].bound /\ Aborted
    PROVE  DispatchIInv'
  <1>0. /\ TypeOK /\ LoopInRange /\ RunnersKnown /\ TurnsKnown /\ PoolIsBounded
        /\ SuccessesAreReal /\ HonestOutcome
    BY DEF DispatchIInv
  <1>1. /\ loop.at = "attempt" /\ loop.attempts > 0 /\ loop.attempts \in 1 .. MaxTurns
        /\ views[b] = "running" /\ b \in Active /\ Waited(Current(b))
        /\ Current(b) \in SessionIds
        /\ \A c, d \in Branches : Current(c) = Current(d) => c = d
    BY RunnerMeansAttempt
  <1>2. \A c \in Branches : Current(c) \in SessionIds
    BY <1>0, <1>1, CurrentIs, TypeParts
  <1>3. (Aborted' <=> Aborted) /\ \A c : Current(c)' = Current(c)
    BY DEF Aborted, Current
  <1>4. TypeOK'
    <2>1. views' \in [Branches -> ViewStates] /\ runner' \in [Branches -> RunnerStates]
      BY <1>0, SettleType
    <2>2. QED
      BY <1>0, <2>1 DEF TypeOK, ViewStates, RunnerStates, Sessions
  <1>5. LoopInRange'
    BY <1>0, <1>1, <1>3 DEF LoopInRange
  <1>6. \/ /\ Aborted
           /\ runner'[b] = "none" /\ views'[b] = "cancelled"
           /\ \A c \in Branches : c # b =>
                 /\ runner'[c] = runner[c]
                 /\ views'[c] = IF views[c] = "pending" THEN "cancelled" ELSE views[c]
        \/ /\ ~Aborted
           /\ runner'[b] = "none" /\ views'[b] = status
           /\ \A c \in Branches : c # b => runner'[c] = runner[c] /\ views'[c] = views[c]
        \/ /\ ~Aborted
           /\ runner'[b] = "none" /\ views'[b] = status
           /\ \E n \in Branches :
                 /\ n # b /\ views[n] = "pending"
                 /\ runner'[n] = "creating" /\ views'[n] = "running"
                 /\ \A c \in Branches \ {b, n} : runner'[c] = runner[c] /\ views'[c] = views[c]
    BY <1>0, <1>1, SettleCases
  <1>7. \A c \in Branches : c # b => sess'[Current(c)] = sess[Current(c)]
    BY <1>1, <1>2
  <1>8. \A a \in 1 .. MaxTurns, c \in Branches : a > loop'.attempts =>
           /\ <<a, c>> \in SessionIds /\ <<a, c>> # Current(b)
    BY <1>1 DEF SessionIds, Current
  <1>9. RunnersKnown'
    <2>1. \A c \in Branches : (runner'[c] # "none") <=> (views'[c] = "running")
      BY <1>0, <1>1, <1>6 DEF RunnersKnown
    <2>2. \A a \in 1 .. MaxTurns, c \in Branches : a > loop'.attempts => Unopened(<<a, c>>)'
      BY <1>0, <1>8 DEF RunnersKnown, Unopened
    <2>3. ASSUME NEW c \in Branches
          PROVE  /\ views'[c] = "pending" \/ runner'[c] = "creating" => Unopened(Current(c))'
                 /\ runner'[c] \in {"sending", "polling"} =>
                      /\ sess'[Current(c)].bound
                      /\ sess'[Current(c)].turn = "none" => sess'[Current(c)].view = "none"
      <3>1. CASE c = b
        BY <1>6, <3>1
      <3>2. CASE c # b
        <4>1. /\ views'[c] = "pending" \/ runner'[c] = "creating" =>
                    views[c] = "pending" \/ runner[c] = "creating"
              /\ runner'[c] \in {"sending", "polling"} => runner'[c] = runner[c]
          BY <1>6, <3>2
        <4>2. views[c] = "pending" \/ runner[c] = "creating" => Unopened(Current(c))
          BY <1>0, <1>1 DEF RunnersKnown
        <4>3. Unopened(Current(c)) => Unopened(Current(c))'
          BY <1>3, <1>7, <3>2 DEF Unopened
        <4>4. QED
          BY <1>0, <1>7, <3>2, <4>1, <4>2, <4>3 DEF RunnersKnown
      <3>3. QED
        BY <3>1, <3>2
    <2>4. QED
      BY <1>3, <2>1, <2>2, <2>3 DEF RunnersKnown
  <1>10. \A c \in Active : c # b => c \in Active'
    BY <1>0, <1>6 DEF Active, RunnersKnown
  <1>11. \A s \in SessionIds : s # Current(b) /\ Waited(s) => Waited(s)'
    BY <1>3, <1>10 DEF Waited
  <1>12. TurnsKnown'
    <2> SUFFICES ASSUME NEW s \in SessionIds, sess'[s].turn # "none", ~sess'[s].fault
                 PROVE  /\ sess'[s].view = "none" => Waited(s)'
                        /\ sess'[s].turn = "running" =>
                              sess'[s].bound /\ (Aborted' \/ (sess'[s].view = "none" /\ Waited(s)'))
      BY DEF TurnsKnown
    <2>1. CASE s = Current(b)
      BY <1>3, <2>1
    <2>2. CASE s # Current(b)
      BY <1>0, <1>3, <1>11, <2>2 DEF TurnsKnown
    <2>3. QED
      BY <2>1, <2>2
  <1>13. Current(b) \in Occupied
    BY <1>1 DEF Occupied
  <1>14. PoolIsBounded'
    <2>1. CASE \A c \in Branches : c # b => runner'[c] = runner[c]
      <3>1. Active' \subseteq Active
        BY <1>6, <2>1 DEF Active
      <3>2. ASSUME NEW s \in Occupied' PROVE s \in Occupied
        <4>1. CASE s = Current(b)
          BY <1>13, <4>1
        <4>2. CASE s # Current(b)
          <5>1. s \in SessionIds /\ sess'[s] = sess[s]
            BY <4>2 DEF Occupied
          <5>2. Waited(s)' => Waited(s)
            BY <1>3, <3>1 DEF Waited
          <5>3. QED
            BY <5>1, <5>2 DEF Occupied
        <4>3. QED
          BY <4>1, <4>2
      <3>3. QED
        BY <1>0, <3>2, PoolShrinks
    <2>2. ASSUME ~Aborted, NEW n \in Branches, runner'[b] = "none", n # b,
                 \A c \in Branches \ {b, n} : runner'[c] = runner[c]
          PROVE  PoolIsBounded'
      <3>1. \A c \in Active' : c = n \/ (c \in Active /\ c # b)
        BY <2>2 DEF Active
      <3>2. ASSUME NEW s \in Occupied'
            PROVE  s \in (Occupied \ {Current(b)}) \union {Current(n)}
        <4>1. s \in SessionIds
          BY DEF Occupied
        <4>2. Waited(s)' => s = Current(n) \/ (Waited(s) /\ s # Current(b))
          <5>1. ASSUME Waited(s)' PROVE s = Current(n) \/ (Waited(s) /\ s # Current(b))
            <6>1. PICK c \in Active' : s = Current(c)
              BY <1>3, <5>1 DEF Waited
            <6>2. c \in Branches
              BY DEF Active
            <6>3. CASE c = n
              BY <6>1, <6>3
            <6>4. CASE c \in Active /\ c # b
              BY <1>1, <6>1, <6>2, <6>4 DEF Waited
            <6>5. QED
              BY <3>1, <6>3, <6>4
          <5>2. QED
            BY <5>1
        <4>3. sess'[s].turn = "running" /\ ~sess'[s].fault =>
                 s # Current(b) /\ sess[s].turn = "running" /\ ~sess[s].fault
          BY <2>2, <4>1
        <4>4. QED
          BY <4>1, <4>2, <4>3 DEF Occupied
      <3>3. Occupied' \subseteq (Occupied \ {Current(b)}) \union {Current(n)}
        BY <3>2
      <3>4. QED
        BY <1>0, <1>13, <3>3, PoolSwaps
    <2>3. QED
      BY <1>6, <2>1, <2>2
  <1>15. SuccessesAreReal' /\ HonestOutcome'
    <2>1. \A s \in SessionIds : sess[s].view = "completed" => sess'[s].view = "completed"
      OBVIOUS
    <2>2. ASSUME NEW c \in Branches, views'[c] = "completed"
          PROVE  sess'[Current(c)].view = "completed"
      <3>1. CASE c = b
        BY <1>6, <2>2, <3>1
      <3>2. CASE c # b
        <4>1. views[c] = "completed"
          BY <1>6, <2>2, <3>2
        <4>2. QED
          BY <1>0, <1>1, <1>7, <3>2, <4>1 DEF SuccessesAreReal
      <3>3. QED
        BY <3>1, <3>2
    <2>3. QED
      BY <1>0, <2>1, <2>2, SuccessesKept
  <1>16. QED
    BY <1>4, <1>5, <1>9, <1>12, <1>14, <1>15 DEF DispatchIInv


-----------------------------------------------------------------------------
(* The branch runners and the sessions.                                     *)

\* A session moves, and a runner at most from one await to the next.
LEMMA SessionMoves ==
    ASSUME DispatchIInv, NEW s \in SessionIds,
           loop' = loop, policy' = policy, views' = views,
           sess' \in [SessionIds -> Sessions],
           \A t \in SessionIds : t # s => sess'[t] = sess[t],
           sess[s].view = "completed" => sess'[s].view = "completed",
           runner' \in [Branches -> RunnerStates],
           \A b \in Branches : (runner'[b] = "none") <=> (runner[b] = "none"),
           \A b \in Branches : runner'[b] = "creating" => runner[b] = "creating",
           \A b \in Branches : Current(b) # s /\ runner'[b] # runner[b] => runner[b] # "creating",
           \* the session is opened already, or its runner has just opened it
           ~Unopened(s) \/ \E b \in Branches : /\ s = Current(b) /\ runner[b] = "creating"
                                               /\ runner'[b] = "sending",
           \A b \in Branches : s = Current(b) /\ runner'[b] \in {"sending", "polling"} =>
              /\ sess'[s].bound
              /\ sess'[s].turn = "none" => sess'[s].view = "none",
           sess'[s].turn # "none" /\ ~sess'[s].fault =>
              /\ sess'[s].view = "none" => Waited(s)
              /\ sess'[s].turn = "running" =>
                    sess'[s].bound /\ (Aborted \/ (sess'[s].view = "none" /\ Waited(s))),
           sess'[s].turn = "running" /\ ~sess'[s].fault => s \in Occupied
    PROVE  DispatchIInv'
  <1>0. /\ TypeOK /\ LoopInRange /\ RunnersKnown /\ TurnsKnown /\ PoolIsBounded
        /\ SuccessesAreReal /\ HonestOutcome
    BY DEF DispatchIInv
  <1>1. (Aborted' <=> Aborted) /\ \A c : Current(c)' = Current(c)
    BY DEF Aborted, Current
  <1>2. Active' = Active /\ \A t : Waited(t)' <=> Waited(t)
    BY <1>1 DEF Active, Waited
  <1>3. TypeOK'
    BY <1>0 DEF TypeOK, ViewStates, RunnerStates, Sessions
  <1>4. LoopInRange'
    BY <1>0, <1>1, <1>2 DEF LoopInRange
  <1>5. RunnersKnown'
    <2>1. \A c \in Branches : (runner'[c] # "none") <=> (views'[c] = "running")
      BY <1>0 DEF RunnersKnown
    <2>2. ASSUME NEW a \in 1 .. MaxTurns, NEW c \in Branches, a > loop'.attempts
          PROVE  Unopened(<<a, c>>)'
      <3>1. Unopened(<<a, c>>) /\ <<a, c>> \in SessionIds
        BY <1>0, <2>2 DEF RunnersKnown, SessionIds
      <3>2. \A b \in Branches : Current(b) # <<a, c>>
        BY <1>0, <2>2, LoopFields, TypeParts DEF Current
      <3>3. s # <<a, c>>
        BY <3>1, <3>2
      <3>4. QED
        BY <3>1, <3>3 DEF Unopened
    <2>3. ASSUME NEW c \in Branches
          PROVE  /\ loop'.at = "attempt" /\ (views'[c] = "pending" \/ runner'[c] = "creating") =>
                      Unopened(Current(c))'
                 /\ runner'[c] \in {"sending", "polling"} =>
                      /\ sess'[Current(c)].bound
                      /\ sess'[Current(c)].turn = "none" => sess'[Current(c)].view = "none"
      <3>0. runner[c] # "none" => loop.attempts > 0 /\ loop.at = "attempt"
        BY RunnerMeansAttempt
      <3>00. loop.at = "attempt" => loop.attempts > 0
        BY <1>0 DEF LoopInRange
      <3>01. loop.attempts > 0 => /\ Current(c) \in SessionIds
                                  /\ \A b \in Branches : Current(b) = Current(c) => b = c
        BY <1>0, CurrentIs, TypeParts
      <3>1. CASE s = Current(c)
        <4>1. ASSUME loop.at = "attempt", views[c] = "pending" \/ runner'[c] = "creating"
              PROVE  FALSE
          <5>1. Unopened(s)
            BY <1>0, <3>1, <4>1 DEF RunnersKnown
          <5>2. PICK b \in Branches : s = Current(b) /\ runner[b] = "creating" /\ runner'[b] = "sending"
            BY <5>1
          <5>3. b = c
            BY <3>00, <3>01, <3>1, <4>1, <5>2
          <5>4. views[c] = "running"
            BY <1>0, <5>2, <5>3 DEF RunnersKnown
          <5>5. QED
            BY <4>1, <5>2, <5>3, <5>4
        <4>2. QED
          BY <3>1, <4>1
      <3>2. CASE s # Current(c)
        <4>1. ASSUME loop.at = "attempt", views[c] = "pending" \/ runner'[c] = "creating"
              PROVE  Unopened(Current(c))'
          <5>1. Unopened(Current(c)) /\ sess'[Current(c)] = sess[Current(c)]
            BY <1>0, <3>00, <3>01, <3>2, <4>1 DEF RunnersKnown
          <5>2. QED
            BY <1>1, <5>1 DEF Unopened
        <4>2. ASSUME runner'[c] \in {"sending", "polling"}
              PROVE  /\ sess'[Current(c)].bound
                     /\ sess'[Current(c)].turn = "none" => sess'[Current(c)].view = "none"
          <5>1. runner[c] \in {"sending", "polling"}
            BY <1>0, <3>2, <4>2, TypeParts DEF RunnerStates
          <5>2. sess'[Current(c)] = sess[Current(c)]
            BY <3>0, <3>01, <3>2, <5>1
          <5>3. QED
            BY <1>0, <5>1, <5>2 DEF RunnersKnown
        <4>3. QED
          BY <4>1, <4>2
      <3>3. QED
        BY <3>1, <3>2
    <2>4. QED
      BY <1>1, <2>1, <2>2, <2>3 DEF RunnersKnown
  <1>6. TurnsKnown'
    <2> SUFFICES ASSUME NEW t \in SessionIds, sess'[t].turn # "none", ~sess'[t].fault
                 PROVE  /\ sess'[t].view = "none" => Waited(t)'
                        /\ sess'[t].turn = "running" =>
                              sess'[t].bound /\ (Aborted' \/ (sess'[t].view = "none" /\ Waited(t)'))
      BY DEF TurnsKnown
    <2>1. CASE t = s
      BY <1>1, <1>2, <2>1
    <2>2. CASE t # s
      BY <1>0, <1>1, <1>2, <2>2 DEF TurnsKnown
    <2>3. QED
      BY <2>1, <2>2
  <1>7. PoolIsBounded'
    <2>1. ASSUME NEW t \in Occupied' PROVE t \in Occupied
      <3>1. CASE t = s
        BY <1>2, <3>1 DEF Occupied
      <3>2. CASE t # s
        BY <1>2, <3>2 DEF Occupied
      <3>3. QED
        BY <3>1, <3>2
    <2>2. QED
      BY <1>0, <2>1, PoolShrinks
  <1>8. SuccessesAreReal' /\ HonestOutcome'
    <2>1. \A t \in SessionIds : sess[t].view = "completed" => sess'[t].view = "completed"
      OBVIOUS
    <2>2. loop.at = "attempt" =>
             \A c \in Branches : views'[c] = "completed" => sess'[Current(c)].view = "completed"
      <3>1. loop.at = "attempt" => \A c \in Branches : Current(c) \in SessionIds
        BY <1>0, CurrentIs, TypeParts DEF LoopInRange
      <3>2. QED
        BY <1>0, <2>1, <3>1 DEF SuccessesAreReal
    <2>3. QED
      BY <1>0, <2>1, <2>2, SuccessesKept
  <1>9. QED
    BY <1>3, <1>4, <1>5, <1>6, <1>7, <1>8 DEF DispatchIInv


\* The session of a branch that has a runner.
LEMMA BranchSession ==
    ASSUME DispatchIInv, NEW b \in Branches, runner[b] # "none"
    PROVE  /\ sess[Current(b)] \in Sessions
           /\ sess[Current(b)].view \in {"absent", "none", "completed", "errored", "cancelled", "denied"}
           /\ sess[Current(b)].turn \in {"none", "running", "over"}
           /\ sess[Current(b)].handle \in BOOLEAN /\ sess[Current(b)].told \in BOOLEAN
           /\ Current(b) \in Occupied
           /\ runner[b] = "creating" => Unopened(Current(b))
           /\ runner[b] \in {"sending", "polling"} =>
                 /\ sess[Current(b)].bound
                 /\ sess[Current(b)].turn = "none" => sess[Current(b)].view = "none"
           /\ sess[Current(b)].turn # "none" /\ ~sess[Current(b)].fault =>
                 /\ sess[Current(b)].turn = "running" =>
                       sess[Current(b)].bound /\ (Aborted \/ sess[Current(b)].view = "none")
  <1>1. /\ loop.at = "attempt" /\ Waited(Current(b)) /\ Current(b) \in SessionIds
    BY RunnerMeansAttempt
  <1>2. sess[Current(b)] \in Sessions
    BY <1>1, TypeParts DEF DispatchIInv
  <1>3. QED
    BY <1>1, <1>2 DEF DispatchIInv, RunnersKnown, TurnsKnown, Occupied, Sessions

LEMMA SettlingSteps ==
    ASSUME DispatchIInv, NEW b \in Branches,
           CreateFails(b) \/ SendFails(b) \/ PollAborted(b) \/ PollTerminal(b)
    PROVE  DispatchIInv'
  <1> DEFINE s == Current(b)
  <1>0. /\ runner[b] # "none" /\ loop' = loop /\ policy' = policy
    BY DEF CreateFails, SendFails, PollAborted, PollTerminal
  <1>1. /\ s \in SessionIds /\ sess[s] \in Sessions /\ sess \in [SessionIds -> Sessions]
    BY <1>0, RunnerMeansAttempt, BranchSession, TypeParts DEF DispatchIInv
  <1>2. /\ sess[s].view \in {"absent", "none", "completed", "errored", "cancelled", "denied"}
        /\ sess[s].turn \in {"none", "running", "over"}
        /\ sess[s].handle \in BOOLEAN /\ sess[s].told \in BOOLEAN
        /\ runner[b] = "creating" => Unopened(s)
        /\ runner[b] \in {"sending", "polling"} =>
              sess[s].bound /\ (sess[s].turn = "none" => sess[s].view = "none")
        /\ sess[s].turn = "running" /\ ~sess[s].fault =>
              sess[s].bound /\ (Aborted \/ sess[s].view = "none")
    BY <1>0, BranchSession
  <1>3. {"completed", "errored"} \subseteq ViewStates
    BY DEF ViewStates
  <1>4. CASE CreateFails(b)
    <2>1. Settle(b, "errored") /\ sess' = sess /\ Unopened(s)
      BY <1>2, <1>4 DEF CreateFails
    <2>2. sess[s].turn = "none"
      BY <2>1 DEF Unopened
    <2> HIDE DEF s
    <2>3. QED
      BY <1>0, <1>1, <1>3, <2>1, <2>2, SettleKeeps DEF s
  <1>5. CASE SendFails(b)
    <2> DEFINE r == [sess[s] EXCEPT !.fault = TRUE]
    <2>1. Settle(b, "errored") /\ sess' = [sess EXCEPT ![s] = r]
      BY <1>1, <1>5 DEF SendFails
    <2>2. r \in Sessions /\ r.fault = TRUE /\ r.view = sess[s].view /\ r.turn = sess[s].turn
      <3>1. r \in Sessions
        BY <1>1, SessionTypes
      <3>2. r.fault = TRUE /\ r.view = sess[s].view /\ r.turn = sess[s].turn
        BY <1>1 DEF Sessions
      <3>3. QED
        BY <3>1, <3>2
    <2> HIDE DEF r, s
    <2>3. /\ sess' \in [SessionIds -> Sessions] /\ sess'[s] = r
          /\ \A t \in SessionIds : t # s => sess'[t] = sess[t]
      BY <1>1, <2>1, <2>2, SessionEdit
    <2>4. QED
      BY <1>0, <1>3, <2>1, <2>2, <2>3, SettleKeeps DEF s
  <1>6. CASE PollAborted(b)
    <2> DEFINE told == sess[s].told \/ sess[s].handle
               view == IF sess[s].view = "none" THEN "cancelled" ELSE sess[s].view
               r == [sess[s] EXCEPT !.told = told, !.view = view]
    <2>0. told \in BOOLEAN
          /\ view \in {"absent", "none", "completed", "errored", "cancelled", "denied"}
          /\ view # "none" /\ (sess[s].view = "completed" => view = "completed")
      BY <1>2
    <2>1. Settle(b, "errored") /\ sess' = [sess EXCEPT ![s] = r] /\ Aborted /\ runner[b] = "polling"
      BY <1>1, <1>6 DEF PollAborted
    <2> HIDE DEF told, view
    <2>2. /\ r \in Sessions /\ r.view = view /\ r.turn = sess[s].turn /\ r.bound = sess[s].bound
          /\ r.fault = sess[s].fault
      <3>1. r \in Sessions
        BY <1>1, <2>0, SessionTypes
      <3>2. /\ r.view = view /\ r.turn = sess[s].turn /\ r.bound = sess[s].bound
            /\ r.fault = sess[s].fault
        BY <1>1 DEF Sessions
      <3>3. QED
        BY <3>1, <3>2
    <2> HIDE DEF r, s
    <2>3. /\ sess' \in [SessionIds -> Sessions] /\ sess'[s] = r
          /\ \A t \in SessionIds : t # s => sess'[t] = sess[t]
      BY <1>1, <2>1, <2>2, SessionEdit
    <2>4. sess'[s].bound
      BY <1>2, <2>1, <2>2, <2>3
    <2>5. QED
      BY <1>0, <1>3, <2>0, <2>1, <2>2, <2>3, <2>4, SettleKeeps DEF s
  <1>7. CASE PollTerminal(b)
    <2> DEFINE r == [sess[s] EXCEPT !.bound = FALSE]
               status == IF sess[s].view = "completed" THEN "completed" ELSE "errored"
    <2>1. /\ Settle(b, status) /\ sess' = [sess EXCEPT ![s] = r]
          /\ ~Aborted /\ sess[s].view # "none" /\ runner[b] = "polling"
      BY <1>1, <1>7 DEF PollTerminal
    <2>2. status \in {"completed", "errored"} /\ (status = "completed" => sess[s].view = "completed")
      OBVIOUS
    <2>3. /\ r \in Sessions /\ r.view = sess[s].view /\ r.turn = sess[s].turn
          /\ r.fault = sess[s].fault
      <3>1. r \in Sessions
        BY <1>1, SessionTypes
      <3>2. r.view = sess[s].view /\ r.turn = sess[s].turn /\ r.fault = sess[s].fault
        BY <1>1 DEF Sessions
      <3>3. QED
        BY <3>1, <3>2
    <2> HIDE DEF r, s, status
    <2>4. /\ sess' \in [SessionIds -> Sessions] /\ sess'[s] = r
          /\ \A t \in SessionIds : t # s => sess'[t] = sess[t]
      BY <1>1, <2>1, <2>3, SessionEdit
    <2>5. ~(r.turn = "running" /\ ~r.fault)
      BY <1>2, <2>1, <2>3
    <2>6. QED
      BY <1>0, <1>3, <2>1, <2>2, <2>3, <2>4, <2>5, SettleKeeps DEF s
  <1>8. QED
    BY <1>4, <1>5, <1>6, <1>7

LEMMA MovingSteps ==
    ASSUME DispatchIInv, NEW b \in Branches, CreateReturns(b) \/ PromptArrives(b) \/ SendReturns(b)
    PROVE  DispatchIInv'
  <1> DEFINE s == Current(b)
  <1>0. /\ runner[b] # "none" /\ loop' = loop /\ policy' = policy /\ views' = views
        /\ runner \in [Branches -> RunnerStates]
    BY TypeParts DEF DispatchIInv, CreateReturns, PromptArrives, SendReturns
  <1>1. /\ s \in SessionIds /\ sess[s] \in Sessions /\ sess \in [SessionIds -> Sessions]
        /\ \A c, d \in Branches : Current(c) = Current(d) => c = d
        /\ Waited(s) /\ s \in Occupied
    BY <1>0, RunnerMeansAttempt, BranchSession, TypeParts DEF DispatchIInv
  <1>2. /\ runner[b] = "creating" => Unopened(s)
        /\ runner[b] \in {"sending", "polling"} =>
              sess[s].bound /\ (sess[s].turn = "none" => sess[s].view = "none")
        /\ sess[s].turn = "running" /\ ~sess[s].fault =>
              sess[s].bound /\ (Aborted \/ sess[s].view = "none")
    BY <1>0, BranchSession
  <1>3. {"sending", "polling"} \subseteq RunnerStates
    BY DEF RunnerStates
  <1>4. CASE CreateReturns(b)
    <2> DEFINE r == [sess[s] EXCEPT !.view = "none", !.bound = TRUE]
    <2>1. /\ runner[b] = "creating" /\ runner' = [runner EXCEPT ![b] = "sending"]
          /\ sess' = [sess EXCEPT ![s] = r] /\ Unopened(s)
      BY <1>1, <1>2, <1>4 DEF CreateReturns
    <2>2. /\ r \in Sessions /\ r.view = "none" /\ r.turn = "none" /\ r.bound = TRUE
      <3>1. r \in Sessions
        BY <1>1, SessionTypes
      <3>2. r.view = "none" /\ r.turn = "none" /\ r.bound = TRUE
        BY <1>1, <2>1 DEF Sessions, Unopened
      <3>3. QED
        BY <3>1, <3>2
    <2>3. /\ runner' \in [Branches -> RunnerStates] /\ runner'[b] = "sending"
          /\ \A c \in Branches : c # b => runner'[c] = runner[c]
      BY <1>0, <1>3, <2>1
    <2>4. sess[s].view = "absent"
      BY <2>1 DEF Unopened
    <2> HIDE DEF r, s
    <2>5. /\ sess' \in [SessionIds -> Sessions] /\ sess'[s] = r
          /\ \A t \in SessionIds : t # s => sess'[t] = sess[t]
      BY <1>1, <2>1, <2>2, SessionEdit
    <2>6. \E c \in Branches : s = Current(c) /\ runner[c] = "creating" /\ runner'[c] = "sending"
      BY <2>1, <2>3 DEF s
    <2>7. \A c \in Branches : Current(c) # s /\ runner'[c] # runner[c] => runner[c] # "creating"
      BY <2>3 DEF s
    <2>8. /\ \A c \in Branches : (runner'[c] = "none") <=> (runner[c] = "none")
          /\ \A c \in Branches : runner'[c] = "creating" => runner[c] = "creating"
      BY <2>1, <2>3
    <2>9. QED
      BY <1>0, <1>1, <2>2, <2>3, <2>4, <2>5, <2>6, <2>7, <2>8, SessionMoves
  <1>5. CASE PromptArrives(b)
    <2> DEFINE r == [sess[s] EXCEPT !.turn = "running"]
    <2>1. /\ runner[b] = "sending" /\ runner' = runner /\ sess[s].turn = "none"
          /\ sess' = [sess EXCEPT ![s] = r]
      BY <1>1, <1>5 DEF PromptArrives
    <2>2. /\ r \in Sessions /\ r.view = "none" /\ r.turn = "running" /\ r.bound = sess[s].bound
          /\ sess[s].bound /\ sess[s].view = "none"
      <3>1. r \in Sessions
        BY <1>1, SessionTypes
      <3>2. /\ r.view = "none" /\ r.turn = "running" /\ r.bound = sess[s].bound
            /\ sess[s].bound /\ sess[s].view = "none"
        BY <1>1, <1>2, <2>1 DEF Sessions
      <3>3. QED
        BY <3>1, <3>2
    <2>3. ~Unopened(s)
      BY <2>2 DEF Unopened
    <2> HIDE DEF r, s
    <2>4. /\ sess' \in [SessionIds -> Sessions] /\ sess'[s] = r
          /\ \A t \in SessionIds : t # s => sess'[t] = sess[t]
      BY <1>1, <2>1, <2>2, SessionEdit
    <2>5. QED
      BY <1>0, <1>1, <2>1, <2>2, <2>3, <2>4, SessionMoves
  <1>6. CASE SendReturns(b)
    <2>1. /\ runner[b] = "sending" /\ runner' = [runner EXCEPT ![b] = "polling"]
          /\ sess[s].turn # "none" /\ sess' = sess
      BY <1>6 DEF SendReturns
    <2>2. /\ runner' \in [Branches -> RunnerStates] /\ runner'[b] = "polling"
          /\ \A c \in Branches : c # b => runner'[c] = runner[c]
      BY <1>0, <1>3, <2>1
    <2>3. ~Unopened(s) /\ sess[s].bound
      BY <1>2, <2>1 DEF Unopened
    <2>4. /\ \A c \in Branches : (runner'[c] = "none") <=> (runner[c] = "none")
          /\ \A c \in Branches : runner'[c] = "creating" => runner[c] = "creating"
          /\ \A c \in Branches : Current(c) # s /\ runner'[c] # runner[c] => runner[c] # "creating"
      BY <2>1, <2>2
    <2> HIDE DEF s
    <2>5. QED
      BY <1>0, <1>1, <1>2, <2>1, <2>2, <2>3, <2>4, SessionMoves
  <1>7. QED
    BY <1>4, <1>5, <1>6

LEMMA RuntimeSteps ==
    ASSUME DispatchIInv, NEW s \in SessionIds,
           \/ \E state \in {"completed", "errored"} : RuntimeEnds(s, state)
           \/ \E state \in {"denied", "cancelled"} : InterruptSession(s, state)
    PROVE  DispatchIInv'
  <1>0. /\ loop' = loop /\ policy' = policy /\ views' = views /\ runner' = runner
        /\ runner \in [Branches -> RunnerStates]
        /\ sess[s].turn = "running" /\ ~Unopened(s)
    BY TypeParts DEF DispatchIInv, RuntimeEnds, InterruptSession, Unopened
  <1>1. /\ sess[s] \in Sessions /\ sess \in [SessionIds -> Sessions]
        /\ sess[s].view \in {"absent", "none", "completed", "errored", "cancelled", "denied"}
    BY TypeParts DEF DispatchIInv, Sessions
  <1>2. /\ \A b \in Branches : s = Current(b) /\ runner[b] \in {"sending", "polling"} => sess[s].bound
    BY DEF DispatchIInv, RunnersKnown
  <1>3. sess[s].view = "none" /\ ~sess[s].fault => Waited(s)
    BY <1>0 DEF DispatchIInv, TurnsKnown
  <1>4. ASSUME NEW state \in {"completed", "errored"}, RuntimeEnds(s, state) PROVE DispatchIInv'
    <2> DEFINE v == IF sess[s].view = "none" THEN state ELSE sess[s].view
               r == [sess[s] EXCEPT !.turn = "over", !.view = v]
    <2>1. sess' = [sess EXCEPT ![s] = r]
      BY <1>1, <1>4 DEF RuntimeEnds
    <2>2. /\ v \in {"absent", "none", "completed", "errored", "cancelled", "denied"}
          /\ v # "none" /\ (sess[s].view = "completed" => v = "completed")
      BY <1>1
    <2> HIDE DEF v
    <2>3. r \in Sessions /\ r.view = v /\ r.turn = "over" /\ r.bound = sess[s].bound
      <3>1. r \in Sessions
        BY <1>1, <2>2, SessionTypes
      <3>2. r.view = v /\ r.turn = "over" /\ r.bound = sess[s].bound
        BY <1>1 DEF Sessions
      <3>3. QED
        BY <3>1, <3>2
    <2> HIDE DEF r
    <2>4. /\ sess' \in [SessionIds -> Sessions] /\ sess'[s] = r
          /\ \A t \in SessionIds : t # s => sess'[t] = sess[t]
      BY <1>1, <2>1, <2>3, SessionEdit
    <2>5. QED
      BY <1>0, <1>2, <2>2, <2>3, <2>4, SessionMoves
  <1>5. ASSUME NEW state \in {"denied", "cancelled"}, InterruptSession(s, state)
        PROVE  DispatchIInv'
    <2> DEFINE r == [sess[s] EXCEPT !.view = state, !.fault = TRUE]
    <2>1. sess' = [sess EXCEPT ![s] = r] /\ sess[s].view = "none"
      BY <1>1, <1>5 DEF InterruptSession
    <2>2. /\ r \in Sessions /\ r.view = state /\ r.fault = TRUE /\ r.bound = sess[s].bound
          /\ r.turn = "running"
      <3>1. r \in Sessions
        BY <1>1, SessionTypes
      <3>2. r.view = state /\ r.fault = TRUE /\ r.bound = sess[s].bound /\ r.turn = "running"
        BY <1>0, <1>1 DEF Sessions
      <3>3. QED
        BY <3>1, <3>2
    <2> HIDE DEF r
    <2>3. /\ sess' \in [SessionIds -> Sessions] /\ sess'[s] = r
          /\ \A t \in SessionIds : t # s => sess'[t] = sess[t]
      BY <1>1, <2>1, <2>2, SessionEdit
    <2>4. QED
      BY <1>0, <1>2, <2>1, <2>2, <2>3, SessionMoves
  <1>6. QED
    BY <1>4, <1>5


-----------------------------------------------------------------------------
(* The loop runner.                                                         *)

\* The loop moves and begins no attempt: the branches and the sessions stay as they are.
LEMMA LoopMoves ==
    ASSUME DispatchIInv, policy' = policy, views' = views, runner' = runner, sess' = sess,
           loop' \in Loops, loop'.attempts = loop.attempts, Aborted => Aborted',
           loop'.at = "attempt" => loop.at = "attempt",
           LoopInRange', SuccessesAreReal', HonestOutcome'
    PROVE  DispatchIInv'
  <1>0. /\ TypeOK /\ RunnersKnown /\ TurnsKnown /\ PoolIsBounded
    BY DEF DispatchIInv
  <1>1. \A c : Current(c)' = Current(c)
    BY DEF Current
  <1>2. Active' = Active /\ (\A t : Waited(t)' <=> Waited(t))
    BY <1>1 DEF Active, Waited
  <1>3. \A t : Unopened(t)' <=> Unopened(t)
    BY DEF Unopened
  <1>4. TypeOK'
    BY <1>0 DEF TypeOK, Loops
  <1>5. RunnersKnown'
    <2>1. \A c \in Branches : Unopened(Current(c)) => Unopened(Current(c))'
      BY <1>1 DEF Unopened
    <2>2. \A a \in 1 .. MaxTurns, b \in Branches : a > loop'.attempts => Unopened(<<a, b>>)'
      BY <1>0, <1>3 DEF RunnersKnown
    <2>3. QED
      BY <1>0, <1>1, <2>1, <2>2 DEF RunnersKnown
  <1>6. TurnsKnown'
    BY <1>0, <1>2 DEF TurnsKnown
  <1>7. PoolIsBounded'
    <2>1. Occupied' \subseteq Occupied
      BY <1>2 DEF Occupied
    <2>2. QED
      BY <1>0, <2>1, PoolShrinks
  <1>8. QED
    BY <1>4, <1>5, <1>6, <1>7 DEF DispatchIInv

\* No regular turn is under way when no runner is and nothing was aborted, so that a new
\* attempt has the whole pool.
LEMMA AttemptBegins ==
    ASSUME DispatchIInv, Active = {}, ~Aborted, loop.attempts < MaxTurns, loop.at # "ended",
           policy.mode # "scheduled" \/ loop.at # "attempt",
           BeginAttempt(loop), policy' = policy, sess' = sess
    PROVE  DispatchIInv'
  <1> DEFINE n == policy.concurrency
  <1>0. /\ TypeOK /\ LoopInRange /\ RunnersKnown /\ TurnsKnown /\ SuccessesAreReal
    BY DEF DispatchIInv
  <1>1. loop \in Loops /\ loop.attempts \in Nat /\ loop.successes \in Nat
        /\ n \in Nat /\ n > 0
    BY <1>0, TypeParts, LoopFields, Bounds DEF Policies
  <1>2. /\ loop' \in Loops /\ loop'.at = "attempt" /\ loop'.attempts = loop.attempts + 1
        /\ loop'.successes = loop.successes /\ loop'.state = loop.state
        /\ loop'.cancelled = loop.cancelled /\ loop'.deadline = loop.deadline
    <2>1. loop' = [loop EXCEPT !.at = "attempt", !.attempts = loop.attempts + 1]
      BY DEF BeginAttempt
    <2>2. loop.attempts + 1 \in 0 .. MaxTurns
      BY <1>1, Bounds
    <2>3. loop' \in Loops
      BY <1>1, <2>1, <2>2 DEF Loops
    <2>4. /\ loop'.at = "attempt" /\ loop'.attempts = loop.attempts + 1
          /\ loop'.successes = loop.successes /\ loop'.state = loop.state
          /\ loop'.cancelled = loop.cancelled /\ loop'.deadline = loop.deadline
      BY <1>1, <2>1 DEF Loops
    <2>5. QED
      BY <2>3, <2>4
  <1>3. /\ views' = [b \in Branches |-> IF b <= n THEN "running" ELSE "pending"]
        /\ runner' = [b \in Branches |-> IF b <= n THEN "creating" ELSE "none"]
    BY DEF BeginAttempt, StartGroup
  <1> HIDE DEF n
  <1>4. TypeOK'
    BY <1>0, <1>2, <1>3 DEF TypeOK, Loops
  <1>5. ~Aborted'
    BY <1>2 DEF Aborted
  <1>6. loop.state = "running"
    BY <1>0 DEF LoopInRange
  <1>7. LoopInRange'
    BY <1>1, <1>2, <1>6 DEF LoopInRange
  <1>8. \A b \in Branches : Unopened(Current(b))'
    BY <1>0, <1>1, <1>2, Bounds DEF RunnersKnown, Unopened, Current
  <1>9. RunnersKnown'
    <2>1. \A a \in 1 .. MaxTurns, b \in Branches : a > loop'.attempts => Unopened(<<a, b>>)'
      BY <1>0, <1>1, <1>2, Bounds DEF RunnersKnown, Unopened
    <2>2. \A b \in Branches : (runner'[b] # "none") <=> (views'[b] = "running")
      BY <1>3
    <2>3. \A b \in Branches : runner'[b] \notin {"sending", "polling"}
      BY <1>3
    <2>4. QED
      BY <1>8, <2>1, <2>2, <2>3 DEF RunnersKnown
  <1>10. ASSUME NEW s \in SessionIds, sess[s].turn # "none", ~sess[s].fault
         PROVE  sess[s].turn # "running" /\ sess[s].view # "none"
    <2>1. ~Waited(s)
      BY DEF Waited
    <2>2. QED
      BY <1>0, <1>10, <2>1 DEF TurnsKnown
  <1>11. TurnsKnown'
    BY <1>10 DEF TurnsKnown
  <1>12. PoolIsBounded'
    <2>1. ASSUME NEW s \in Occupied'
          PROVE  s \in SessionIds /\ s[1] = loop'.attempts /\ s[2] <= policy.concurrency
      <3>1. s \in SessionIds /\ Waited(s)'
        BY <1>10 DEF Occupied
      <3>2. PICK b \in Active' : s = Current(b)'
        BY <3>1 DEF Waited
      <3>3. b \in Branches /\ b <= n
        BY <1>3 DEF Active
      <3>4. QED
        BY <3>1, <3>2, <3>3 DEF Current, n
    <2>2. QED
      BY <1>0, <2>1, PoolStarts
  <1>13. SuccessesAreReal'
    <2>1. FullAttempts \subseteq FullAttempts'
      BY <1>0, <1>1, <1>2, FullGrows
    <2>2. Counted' = loop.attempts
      BY <1>1, <1>2 DEF Counted
    <2>3. loop.successes <= loop.attempts
      BY <1>0, <1>1 DEF SuccessesAreReal, Counted
    <2>4. loop.successes = loop.attempts /\ policy.mode = "scheduled" =>
             1 .. loop.attempts \subseteq FullAttempts
      BY <1>0 DEF SuccessesAreReal, Counted
    <2>5. \A b \in Branches : views'[b] # "completed"
      BY <1>3
    <2>6. QED
      BY <1>0, <1>2, <2>1, <2>2, <2>3, <2>4, <2>5 DEF SuccessesAreReal
  <1>14. HonestOutcome'
    BY <1>2, <1>6 DEF HonestOutcome
  <1>15. QED
    BY <1>4, <1>7, <1>9, <1>11, <1>12, <1>13, <1>14 DEF DispatchIInv


\* The loop ends.
LEMMA LoopEnds ==
    ASSUME DispatchIInv, Active = {}, policy' = policy, sess' = sess,
           NEW l \in Loops, l.attempts = loop.attempts,
           l.cancelled = loop.cancelled, l.deadline = loop.deadline,
           NEW status \in LoopTerminals, EndLoop(l, status),
           l.successes <= l.attempts,
           l.successes = l.attempts /\ policy.mode = "scheduled" => 1 .. l.attempts \subseteq FullAttempts,
           l.successes > 0 => FullAttempts # {},
           status = "completed" => IF policy.mode = "scheduled"
                                   THEN FullAttempts = 1 .. loop.attempts
                                   ELSE loop.attempts \in FullAttempts,
           status = "partial" => FullAttempts # {}
    PROVE  DispatchIInv'
  <1>1. /\ loop' = [l EXCEPT !.at = "ended", !.state = status]
        /\ views' = views /\ runner' = runner
    BY DEF EndLoop
  <1>2. loop' \in Loops
    BY <1>1 DEF Loops
  <1>3. /\ loop'.at = "ended" /\ loop'.state = status /\ loop'.attempts = loop.attempts
        /\ loop'.successes = l.successes
        /\ loop'.cancelled = loop.cancelled /\ loop'.deadline = loop.deadline
    BY <1>1 DEF Loops
  <1>4. FullAttempts' = FullAttempts
    BY <1>3 DEF FullAttempts
  <1>5. LoopInRange'
    BY <1>1, <1>3 DEF LoopInRange, Active
  <1>6. Aborted => Aborted'
    BY <1>3 DEF Aborted
  <1>7. Counted' = loop.attempts
    BY <1>3 DEF Counted
  <1>8. SuccessesAreReal'
    BY <1>3, <1>4, <1>7 DEF SuccessesAreReal
  <1>9. HonestOutcome'
    BY <1>3, <1>4 DEF HonestOutcome
  <1>10. QED
    BY <1>1, <1>2, <1>3, <1>5, <1>6, <1>8, <1>9, LoopMoves

\* What is known when an attempt is over.
LEMMA AttemptIsOver ==
    ASSUME DispatchIInv, loop.at = "attempt", Settled
    PROVE  /\ Active = {} /\ loop \in Loops /\ loop.attempts \in 1 .. MaxTurns
           /\ loop.state = "running" /\ loop.successes \in Nat
           /\ loop.successes <= loop.attempts - 1
           /\ loop.successes = loop.attempts - 1 /\ policy.mode = "scheduled" =>
                 1 .. (loop.attempts - 1) \subseteq FullAttempts
           /\ loop.successes > 0 => FullAttempts # {}
           /\ AggregateStatus = "completed" => loop.attempts \in FullAttempts
  <1>0. /\ TypeOK /\ LoopInRange /\ RunnersKnown /\ SuccessesAreReal
    BY DEF DispatchIInv
  <1>1. Active = {}
    BY <1>0 DEF Active, RunnersKnown, Settled
  <1>2. loop \in Loops /\ loop.attempts \in Nat /\ loop.successes \in Nat
        /\ loop.attempts \in 0 .. MaxTurns
    BY <1>0, TypeParts, LoopFields
  <1>3. loop.attempts \in 1 .. MaxTurns /\ loop.state = "running"
    BY <1>0, <1>2, Bounds DEF LoopInRange
  <1>4. ASSUME AggregateStatus = "completed" PROVE loop.attempts \in FullAttempts
    <2>1. \A b \in Branches : views[b] = "completed"
      BY <1>4 DEF AggregateStatus
    <2>2. \A b \in Branches : sess[<<loop.attempts, b>>].view = "completed"
      BY <1>0, <2>1 DEF SuccessesAreReal, Current
    <2>3. QED
      BY <1>3, <2>2, Bounds DEF FullAttempts
  <1>5. QED
    BY <1>0, <1>1, <1>2, <1>3, <1>4 DEF SuccessesAreReal, Counted

\* What is known when the loop is between two attempts.
LEMMA LoopIsBetween ==
    ASSUME DispatchIInv, loop.at \notin {"attempt", "ended"}
    PROVE  /\ Active = {} /\ loop \in Loops /\ loop.attempts \in 0 .. MaxTurns
           /\ loop.state = "running" /\ loop.successes \in Nat
           /\ loop.successes <= loop.attempts
           /\ loop.successes = loop.attempts /\ policy.mode = "scheduled" =>
                 1 .. loop.attempts \subseteq FullAttempts
           /\ loop.successes > 0 => FullAttempts # {}
  BY TypeParts, LoopFields DEF DispatchIInv, LoopInRange, SuccessesAreReal, Counted

\* The loop waits for the hook, or for the next attempt of the schedule.
LEMMA LoopWaits ==
    ASSUME DispatchIInv, Active = {}, UNCHANGED <<policy, views, runner, sess>>,
           loop.attempts > 0, loop.state = "running",
           NEW l \in Loops, l.attempts = loop.attempts, l.state = loop.state,
           l.cancelled = loop.cancelled, l.deadline = loop.deadline,
           NEW at \in {"verifying", "sleeping"}, loop' = [l EXCEPT !.at = at],
           at = "verifying" => policy.mode # "scheduled" /\ loop.attempts \in FullAttempts,
           at = "sleeping" => policy.mode = "scheduled" /\ loop.attempts < MaxTurns,
           l.successes <= l.attempts,
           l.successes = l.attempts /\ policy.mode = "scheduled" => 1 .. l.attempts \subseteq FullAttempts,
           l.successes > 0 => FullAttempts # {}
    PROVE  DispatchIInv'
  <1>2. loop' \in Loops
    BY DEF Loops
  <1>3. /\ loop'.at = at /\ loop'.state = loop.state /\ loop'.attempts = loop.attempts
        /\ loop'.successes = l.successes
        /\ loop'.cancelled = loop.cancelled /\ loop'.deadline = loop.deadline
    BY DEF Loops
  <1>4. FullAttempts' = FullAttempts
    BY <1>3 DEF FullAttempts
  <1>5. LoopInRange'
    BY <1>3 DEF LoopInRange, Active
  <1>6. Aborted => Aborted'
    BY <1>3 DEF Aborted
  <1>7. Counted' = loop.attempts
    BY <1>3 DEF Counted
  <1>8. SuccessesAreReal'
    BY <1>3, <1>4, <1>7 DEF SuccessesAreReal
  <1>9. HonestOutcome'
    BY <1>3 DEF HonestOutcome
  <1>10. QED
    BY <1>2, <1>3, <1>5, <1>6, <1>8, <1>9, LoopMoves


LEMMA Terminals ==
    /\ {"completed", "partial", "errored", "cancelled", "exhausted"} \subseteq LoopTerminals
    /\ StopStatus \in LoopTerminals /\ StopStatus \notin {"completed", "partial"}
  BY DEF LoopTerminals, StopStatus

\* The loop ends without a success.
LEMMA LoopFails ==
    ASSUME DispatchIInv, Active = {}, policy' = policy, sess' = sess,
           loop \in Loops, loop.at # "ended",
           NEW status \in LoopTerminals, status \notin {"completed", "partial"},
           EndLoop(loop, status)
    PROVE  DispatchIInv'
  <1>1. loop.attempts \in Nat /\ loop.successes \in Nat
    BY LoopFields
  <1>2. /\ loop.successes <= loop.attempts
        /\ loop.successes = loop.attempts /\ policy.mode = "scheduled" =>
              1 .. loop.attempts \subseteq FullAttempts
        /\ loop.successes > 0 => FullAttempts # {}
    BY <1>1 DEF DispatchIInv, SuccessesAreReal, Counted
  <1>3. QED
    BY <1>2, LoopEnds

LEMMA RetryStep ==
    ASSUME DispatchIInv, Active = {}, policy' = policy, sess' = sess,
           loop \in Loops, loop.at # "ended", policy.mode # "scheduled", RetryAgain
    PROVE  DispatchIInv'
  <1>1. \/ \E status \in LoopTerminals : status \notin {"completed", "partial"} /\ EndLoop(loop, status)
        \/ ~Aborted /\ ~(loop.attempts >= MaxTurns) /\ BeginAttempt(loop)
    BY Terminals DEF RetryAgain
  <1>2. loop.attempts \in Nat /\ MaxTurns \in Nat
    BY LoopFields, Bounds
  <1>3. CASE \E status \in LoopTerminals : status \notin {"completed", "partial"} /\ EndLoop(loop, status)
    BY <1>3, LoopFails
  <1>4. CASE ~Aborted /\ ~(loop.attempts >= MaxTurns) /\ BeginAttempt(loop)
    BY <1>2, <1>4, AttemptBegins
  <1>5. QED
    BY <1>1, <1>3, <1>4

LEMMA AttemptEndsStep ==
    ASSUME DispatchIInv, AttemptEnds
    PROVE  DispatchIInv'
  <1> DEFINE completed == AggregateStatus = "completed"
  <1>1. /\ loop.at = "attempt" /\ Settled /\ policy' = policy /\ sess' = sess
        /\ policy.mode \in {"run_once", "retry_until_verified", "scheduled"}
    BY TypeParts, DispatchAssumption DEF AttemptEnds, DispatchIInv, Policies
  <1>2. /\ policy.mode = "run_once" => AttemptOnce(completed)
        /\ policy.mode = "retry_until_verified" => AttemptRetried(completed)
        /\ policy.mode = "scheduled" => AttemptScheduled(completed)
    BY DEF AttemptEnds
  <1>3. /\ Active = {} /\ loop \in Loops /\ loop.attempts \in 1 .. MaxTurns
        /\ loop.state = "running" /\ loop.successes \in Nat
        /\ loop.successes <= loop.attempts - 1
        /\ loop.successes = loop.attempts - 1 /\ policy.mode = "scheduled" =>
              1 .. (loop.attempts - 1) \subseteq FullAttempts
        /\ loop.successes > 0 => FullAttempts # {}
        /\ completed => loop.attempts \in FullAttempts
    BY <1>1, AttemptIsOver
  <1>4. loop.attempts \in Nat /\ loop.attempts > 0 /\ MaxTurns \in Nat
    BY <1>3, Bounds
  <1> HIDE DEF completed
  <1>5. CASE \E status \in LoopTerminals : status \notin {"completed", "partial"} /\ EndLoop(loop, status)
    BY <1>1, <1>3, <1>5, LoopFails
  <1>6. ASSUME policy.mode # "scheduled", completed,
               loop' = [loop EXCEPT !.at = "verifying"], UNCHANGED <<views, runner>>
        PROVE  DispatchIInv'
    <2>1. loop.successes <= loop.attempts /\ loop.attempts \in FullAttempts
      BY <1>3, <1>4, <1>6
    <2>2. UNCHANGED <<policy, views, runner, sess>>
      BY <1>1, <1>6
    <2>3. PICK at \in {"verifying", "sleeping"} : at = "verifying" /\ loop' = [loop EXCEPT !.at = at]
      BY <1>6
    <2>4. QED
      BY <1>3, <1>4, <1>6, <2>1, <2>2, <2>3, LoopWaits
  <1>7. CASE policy.mode = "run_once"
    <2>1. \/ \E status \in LoopTerminals : status \notin {"completed", "partial"} /\ EndLoop(loop, status)
          \/ completed /\ loop' = [loop EXCEPT !.at = "verifying"] /\ UNCHANGED <<views, runner>>
          \/ completed /\ EndLoop(loop, "completed")
      BY <1>2, <1>7, Terminals DEF AttemptOnce
    <2>2. CASE completed /\ EndLoop(loop, "completed")
      BY <1>1, <1>3, <1>4, <1>7, <2>2, Terminals, LoopEnds
    <2>3. QED
      BY <1>5, <1>6, <1>7, <2>1, <2>2
  <1>8. CASE policy.mode = "retry_until_verified"
    <2>1. \/ \E status \in LoopTerminals : status \notin {"completed", "partial"} /\ EndLoop(loop, status)
          \/ completed /\ loop' = [loop EXCEPT !.at = "verifying"] /\ UNCHANGED <<views, runner>>
          \/ RetryAgain
      BY <1>2, <1>8, Terminals DEF AttemptRetried
    <2>2. CASE RetryAgain
      BY <1>1, <1>3, <1>8, <2>2, RetryStep
    <2>3. QED
      BY <1>5, <1>6, <1>8, <2>1, <2>2
  <1>9. CASE policy.mode = "scheduled"
    <2> DEFINE n == loop.successes + (IF completed THEN 1 ELSE 0)
               counted == [loop EXCEPT !.successes = n]
    <2>1. n \in 0 .. MaxTurns /\ n <= loop.attempts /\ n \in Nat
          /\ (n > 0 => FullAttempts # {})
          /\ (n = loop.attempts => 1 .. loop.attempts \subseteq FullAttempts)
      <3>1. CASE completed
        BY <1>3, <1>4, <1>9, <3>1
      <3>2. CASE ~completed
        BY <1>3, <1>4, <1>9, <3>2
      <3>3. QED
        BY <3>1, <3>2
    <2>2. \/ ScheduleEnds(counted)
          \/ /\ ~(loop.attempts >= MaxTurns)
             /\ loop' = [counted EXCEPT !.at = "sleeping"] /\ UNCHANGED <<views, runner>>
      BY <1>2, <1>9 DEF AttemptScheduled
    <2> HIDE DEF n
    <2>3. counted \in Loops
      BY <1>3, <2>1 DEF Loops
    <2>4. /\ counted.attempts = loop.attempts /\ counted.successes = n
          /\ counted.state = loop.state
          /\ counted.cancelled = loop.cancelled /\ counted.deadline = loop.deadline
      BY <1>3 DEF Loops
    <2> HIDE DEF counted
    <2>5. CASE ScheduleEnds(counted)
      <3>1. FullAttempts \subseteq 1 .. loop.attempts
        BY DEF FullAttempts
      <3>2. PICK status \in LoopTerminals :
               /\ EndLoop(counted, status)
               /\ status = "completed" => n = loop.attempts
               /\ status = "partial" => n # 0
        BY <2>4, <2>5, Terminals DEF ScheduleEnds
      <3>3. QED
        <4>1. /\ counted.successes <= counted.attempts
              /\ counted.successes = counted.attempts /\ policy.mode = "scheduled" =>
                    1 .. counted.attempts \subseteq FullAttempts
              /\ counted.successes > 0 => FullAttempts # {}
          BY <2>1, <2>4
        <4>2. /\ status = "completed" => FullAttempts = 1 .. loop.attempts
              /\ status = "partial" => FullAttempts # {}
          <5>1. n = loop.attempts => FullAttempts = 1 .. loop.attempts
            BY <2>1, <3>1
          <5>2. n # 0 => n > 0
            BY <2>1
          <5>3. QED
            BY <2>1, <3>2, <5>1, <5>2
        <4>3. status = "completed" => IF policy.mode = "scheduled"
                                      THEN FullAttempts = 1 .. loop.attempts
                                      ELSE loop.attempts \in FullAttempts
          BY <1>9, <4>2
        <4>4. Active = {} /\ policy' = policy /\ sess' = sess
          BY <1>1, <1>3
        <4>5. EndLoop(counted, status)
          BY <3>2
        <4>6. QED
          BY <2>3, <2>4, <4>1, <4>2, <4>3, <4>4, <4>5, LoopEnds
    <2>6. CASE /\ ~(loop.attempts >= MaxTurns)
               /\ loop' = [counted EXCEPT !.at = "sleeping"] /\ UNCHANGED <<views, runner>>
      BY <1>1, <1>3, <1>4, <1>9, <2>1, <2>3, <2>4, <2>6, LoopWaits
    <2>7. QED
      BY <2>2, <2>5, <2>6
  <1>10. QED
    BY <1>1, <1>7, <1>8, <1>9


LEMMA StartRunStep ==
    ASSUME DispatchIInv, StartRun
    PROVE  DispatchIInv'
  <1>1. /\ loop.at = "off" /\ policy' = policy /\ sess' = sess
        /\ EndLoop(loop, "errored") \/ BeginAttempt(loop)
    BY DEF StartRun
  <1>2. Active = {} /\ loop \in Loops
    BY <1>1, LoopIsBetween
  <1>3. loop.attempts < MaxTurns /\ ~Aborted
    BY <1>1, Bounds DEF DispatchIInv, LoopInRange
  <1>4. CASE EndLoop(loop, "errored")
    BY <1>1, <1>2, <1>4, Terminals, LoopFails
  <1>5. CASE BeginAttempt(loop)
    BY <1>1, <1>2, <1>3, <1>5, AttemptBegins
  <1>6. QED
    BY <1>1, <1>4, <1>5

LEMMA VerifyReturnsStep ==
    ASSUME DispatchIInv, NEW verified \in BOOLEAN, VerifyReturns(verified)
    PROVE  DispatchIInv'
  <1> DEFINE l == [loop EXCEPT !.verified = TRUE]
  <1>1. /\ loop.at = "verifying" /\ policy' = policy /\ sess' = sess
        /\ EndLoop(l, "completed") \/ EndLoop(loop, "exhausted") \/ RetryAgain
    BY DEF VerifyReturns
  <1>2. /\ Active = {} /\ loop \in Loops
        /\ loop.successes <= loop.attempts
        /\ loop.successes > 0 => FullAttempts # {}
        /\ policy.mode # "scheduled" /\ loop.attempts \in FullAttempts
    BY <1>1, LoopIsBetween DEF DispatchIInv, LoopInRange, SuccessesAreReal
  <1>3. CASE EndLoop(l, "completed")
    <2>1. l \in Loops
      BY <1>2 DEF Loops
    <2>2. /\ l.attempts = loop.attempts /\ l.successes = loop.successes
          /\ l.cancelled = loop.cancelled /\ l.deadline = loop.deadline
      BY <1>2 DEF Loops
    <2> HIDE DEF l
    <2>3. QED
      BY <1>1, <1>2, <1>3, <2>1, <2>2, Terminals, LoopEnds
  <1>4. CASE EndLoop(loop, "exhausted")
    BY <1>1, <1>2, <1>4, Terminals, LoopFails
  <1>5. CASE RetryAgain
    BY <1>1, <1>2, <1>5, RetryStep
  <1>6. QED
    BY <1>1, <1>3, <1>4, <1>5

LEMMA SleepEndsStep ==
    ASSUME DispatchIInv, SleepEnds
    PROVE  DispatchIInv'
  <1>1. /\ loop.at = "sleeping" /\ policy' = policy /\ sess' = sess
        /\ ScheduleEnds(loop) \/ (~Aborted /\ BeginAttempt(loop))
    BY DEF SleepEnds
  <1>2. /\ Active = {} /\ loop \in Loops /\ loop.successes \in Nat
        /\ loop.successes <= loop.attempts
        /\ loop.successes = loop.attempts /\ policy.mode = "scheduled" =>
              1 .. loop.attempts \subseteq FullAttempts
        /\ loop.successes > 0 => FullAttempts # {}
        /\ policy.mode = "scheduled" /\ loop.attempts < MaxTurns
    BY <1>1, LoopIsBetween DEF DispatchIInv, LoopInRange
  <1>3. CASE ScheduleEnds(loop)
    <2>1. PICK status \in LoopTerminals :
             /\ EndLoop(loop, status)
             /\ status = "completed" => loop.successes = loop.attempts
             /\ status = "partial" => loop.successes # 0
      BY <1>3, Terminals DEF ScheduleEnds
    <2>2. FullAttempts \subseteq 1 .. loop.attempts
      BY DEF FullAttempts
    <2>3. /\ loop.successes = loop.attempts => FullAttempts = 1 .. loop.attempts
          /\ loop.successes # 0 => FullAttempts # {}
      <3>1. loop.successes = loop.attempts => FullAttempts = 1 .. loop.attempts
        BY <1>2, <2>2
      <3>2. loop.successes # 0 => FullAttempts # {}
        BY <1>2
      <3>3. QED
        BY <3>1, <3>2
    <2>4. QED
      BY <1>1, <1>2, <2>1, <2>3, LoopEnds
  <1>4. CASE ~Aborted /\ BeginAttempt(loop)
    BY <1>1, <1>2, <1>4, AttemptBegins
  <1>5. QED
    BY <1>1, <1>3, <1>4

LEMMA AbortStep ==
    ASSUME DispatchIInv, CancelRun \/ DeadlineHits
    PROVE  DispatchIInv'
  <1>1. /\ loop.at \notin {"off", "ended"}
        /\ UNCHANGED <<policy, views, runner, sess>>
        /\ \/ loop' = [loop EXCEPT !.cancelled = TRUE]
           \/ loop' = [loop EXCEPT !.deadline = TRUE]
    BY DEF CancelRun, DeadlineHits, Interruptible
  <1>2. loop \in Loops
    BY TypeParts DEF DispatchIInv
  <1>3. loop' \in Loops
    BY <1>1, <1>2 DEF Loops
  <1>4. /\ loop'.at = loop.at /\ loop'.attempts = loop.attempts /\ loop'.state = loop.state
        /\ loop'.successes = loop.successes /\ (loop'.cancelled \/ loop'.deadline)
    BY <1>1, <1>2 DEF Loops
  <1>5. FullAttempts' = FullAttempts /\ Counted' = Counted /\ Active' = Active
        /\ \A c : Current(c)' = Current(c)
    BY <1>1, <1>4 DEF FullAttempts, Counted, Active, Current
  <1>6. LoopInRange'
    BY <1>1, <1>4, <1>5 DEF DispatchIInv, LoopInRange
  <1>7. SuccessesAreReal'
    BY <1>1, <1>4, <1>5 DEF DispatchIInv, SuccessesAreReal
  <1>8. HonestOutcome'
    BY <1>1, <1>4, <1>5 DEF DispatchIInv, HonestOutcome
  <1>9. QED
    BY <1>1, <1>3, <1>4, <1>6, <1>7, <1>8, LoopMoves DEF Aborted

-----------------------------------------------------------------------------
(* The theorems.                                                            *)

LEMMA DispatchStarts ==
    ASSUME Init
    PROVE  DispatchIInv
  <1>1. /\ policy \in Policies /\ loop.at = "off" /\ loop.attempts = 0 /\ loop.successes = 0
        /\ ~loop.cancelled /\ ~loop.deadline /\ loop.state = "running"
        /\ views = [b \in Branches |-> "pending"] /\ runner = [b \in Branches |-> "none"]
        /\ sess = [s \in SessionIds |-> NoSession]
    BY DEF Init
  <1>2. TypeOK
    BY Bounds DEF Init, TypeOK, NoSession
  <1>3. Active = {} /\ ~Aborted
    BY <1>1 DEF Active, Aborted
  <1>4. LoopInRange
    BY <1>1, <1>3 DEF LoopInRange
  <1>5. \A s \in SessionIds : /\ sess[s].view = "absent" /\ sess[s].turn = "none"
                              /\ ~sess[s].fault
    BY <1>1 DEF NoSession
  <1>6. RunnersKnown
    BY <1>1, <1>5 DEF RunnersKnown, Unopened, SessionIds
  <1>7. TurnsKnown
    BY <1>5 DEF TurnsKnown
  <1>8. PoolIsBounded
    <2>1. Occupied = {}
      BY <1>3, <1>5 DEF Occupied, Waited
    <2>2. policy.concurrency \in Nat /\ policy.concurrency > 0
      BY <1>1, Bounds DEF Policies
    <2>3. QED
      BY <2>1, <2>2, FS_EmptySet DEF PoolIsBounded
  <1>9. SuccessesAreReal /\ HonestOutcome
    BY <1>1 DEF SuccessesAreReal, HonestOutcome, Counted
  <1>10. QED
    BY <1>2, <1>4, <1>6, <1>7, <1>8, <1>9 DEF DispatchIInv

LEMMA DispatchStep ==
    ASSUME DispatchIInv, [Next]_vars
    PROVE  DispatchIInv'
  <1>1. CASE StartRun
    BY <1>1, StartRunStep
  <1>2. CASE LoopStep
    BY <1>2, AttemptEndsStep, VerifyReturnsStep, SleepEndsStep DEF LoopStep
  <1>3. CASE CancelRun \/ DeadlineHits
    BY <1>3, AbortStep
  <1>4. CASE \E b \in Branches : BranchStep(b)
    BY <1>4, SettlingSteps, MovingSteps DEF BranchStep
  <1>5. CASE \E s \in SessionIds :
                \/ \E state \in {"completed", "errored"} : RuntimeEnds(s, state)
                \/ \E state \in {"denied", "cancelled"} : InterruptSession(s, state)
    BY <1>5, RuntimeSteps
  <1>6. CASE UNCHANGED vars
    <2>1. /\ policy' = policy /\ loop' = loop /\ views' = views /\ runner' = runner /\ sess' = sess
      BY <1>6 DEF vars
    <2>2. loop' \in Loops /\ (Aborted => Aborted')
      BY <2>1, TypeParts DEF DispatchIInv, Aborted
    <2>3. LoopInRange' /\ SuccessesAreReal' /\ HonestOutcome'
      <3>1. /\ FullAttempts' = FullAttempts /\ Counted' = Counted /\ Active' = Active
            /\ \A c : Current(c)' = Current(c)
        BY <2>1 DEF FullAttempts, Counted, Active, Current
      <3>2. QED
        BY <2>1, <3>1 DEF DispatchIInv, LoopInRange, SuccessesAreReal, HonestOutcome, Aborted
    <2>4. QED
      BY <2>1, <2>2, <2>3, LoopMoves
  <1>7. QED
    BY <1>1, <1>2, <1>3, <1>4, <1>5, <1>6 DEF Next

\* The inductive invariant of a run: branch runners exist only within an attempt, a session
\* is opened by its runner and by nothing else, a regular turn is bound and waited for until
\* the group is aborted, turns and runners together fit the pool, and the successes counted
\* are those of the sessions.
THEOREM DispatchSafety == Spec => []DispatchIInv
  BY DispatchStarts, DispatchStep, PTL DEF Spec

\* However many branches, attempts and faults: the turns under way over all the attempts
\* never exceed the concurrency of the plan (runPool), a regular one is bound to its
\* preset, and the end of the run leaves no runner and no unaccounted turn.
THEOREM DispatchInvAlways == Spec => []DispatchInv
  <1>1. DispatchIInv => DispatchInv
    <2> SUFFICES ASSUME DispatchIInv PROVE DispatchInv
      OBVIOUS
    <2>0. TypeOK /\ LoopInRange /\ TurnsKnown /\ PoolIsBounded
      BY DEF DispatchIInv
    <2>1. \A s \in Turns \intersect Regular : sess[s].bound
      BY <2>0 DEF Turns, Regular, TurnsKnown
    <2>2. BoundedTurns
      <3>1. Turns \intersect Regular \in SUBSET Occupied
        BY DEF Turns, Regular, Occupied
      <3>2. /\ IsFiniteSet(Turns \intersect Regular)
            /\ Cardinality(Turns \intersect Regular) <= Cardinality(Occupied)
        BY <3>1, OccupiedIsFinite, FS_Subset
      <3>3. Cardinality(Turns \intersect Regular) \in Nat
        BY <3>2, FS_CardinalityType
      <3>4. policy.concurrency \in Nat
        BY <2>0, TypeParts, Bounds DEF Policies
      <3>5. QED
        BY <2>0, <3>2, <3>3, <3>4, OccupiedIsFinite DEF BoundedTurns, PoolIsBounded
    <2>3. EndIsAccountedFor
      <3> SUFFICES ASSUME loop.at = "ended"
                   PROVE  /\ \A b \in Branches : runner[b] = "none"
                          /\ \A s \in Regular : sess[s].turn # "none" => sess[s].view # "none"
        BY DEF EndIsAccountedFor
      <3>1. Active = {}
        BY <2>0 DEF LoopInRange
      <3>2. \A s : ~Waited(s)
        BY <3>1 DEF Waited
      <3>3. QED
        BY <2>0, <3>1, <3>2 DEF Active, Regular, TurnsKnown
    <2>4. QED
      BY <2>0, <2>1, <2>2, <2>3 DEF DispatchInv
  <1>2. QED
    BY <1>1, DispatchSafety, PTL

\* A success is never made up, in any loop mode: what the run reports as completed or
\* partial was completed by its sessions (aggregateStatus, scheduled).
THEOREM HonestOutcomeAlways == Spec => []HonestOutcome
  <1>1. DispatchIInv => HonestOutcome
    BY DEF DispatchIInv
  <1>2. QED
    BY <1>1, DispatchSafety, PTL

\* After a cancel or the deadline no worker takes a branch off the queue and no attempt is
\* begun: nothing more is opened in the runtime.
THEOREM AbortOpensNothingAlways == Spec => AbortOpensNothing
  <1>1. ASSUME DispatchIInv, [Next]_vars, Aborted, NEW b \in Branches, runner'[b] = "creating"
        PROVE  runner[b] = "creating"
    <2>1. CASE runner' = runner
      BY <1>1, <2>1
    <2>2. ASSUME NEW c \in Branches, NEW status, Settle(c, status) PROVE runner[b] = "creating"
      BY <1>1, <2>2 DEF Settle
    <2>3. CASE \E c \in Branches : BranchStep(c)
      <3>1. PICK c \in Branches : BranchStep(c)
        BY <2>3
      <3>2. runner \in [Branches -> RunnerStates]
        BY <1>1, TypeParts DEF DispatchIInv
      <3>3. CASE \E status : Settle(c, status)
        BY <2>2, <3>3
      <3>4. CASE CreateReturns(c) \/ PromptArrives(c) \/ SendReturns(c)
        BY <1>1, <3>2, <3>4 DEF CreateReturns, PromptArrives, SendReturns
      <3>5. QED
        BY <3>1, <3>3, <3>4
           DEF BranchStep, CreateFails, SendFails, PollAborted, PollTerminal
    <2>4. CASE StartRun
      BY <1>1, <2>4 DEF StartRun, DispatchIInv, LoopInRange
    <2>5. CASE LoopStep
      <3>1. runner' = runner
        <4>1. RetryAgain \/ (\E l, status : EndLoop(l, status)) => runner' = runner
          BY <1>1 DEF RetryAgain, EndLoop
        <4>2. CASE AttemptEnds
          <5>1. policy.mode \in {"run_once", "retry_until_verified", "scheduled"}
            BY <1>1, TypeParts, DispatchAssumption DEF DispatchIInv, Policies
          <5>2. QED
            BY <1>1, <4>2, <5>1
               DEF AttemptEnds, AttemptOnce, AttemptRetried, AttemptScheduled, ScheduleEnds, EndLoop
        <4>3. CASE \E verified \in BOOLEAN : VerifyReturns(verified)
          BY <4>1, <4>3 DEF VerifyReturns
        <4>4. CASE SleepEnds
          BY <1>1, <4>4 DEF SleepEnds, ScheduleEnds, EndLoop
        <4>5. QED
          BY <2>5, <4>2, <4>3, <4>4 DEF LoopStep
      <3>2. QED
        BY <1>1, <3>1
    <2>6. QED
      BY <1>1, <2>1, <2>3, <2>4, <2>5
         DEF Next, vars, CancelRun, DeadlineHits, RuntimeEnds, InterruptSession
  <1>2. DispatchIInv /\ [Next]_vars =>
           [Aborted => \A b \in Branches : runner'[b] = "creating" => runner[b] = "creating"]_vars
    BY <1>1
  <1>3. QED
    BY <1>2, DispatchSafety, PTL DEF Spec, AbortOpensNothing

=============================================================================
