-------------------------- MODULE SupervisionProofs --------------------------
(***************************************************************************)
(* The owners of child processes: what one supervisor does at a step, the  *)
(* order in which StackSupervisor starts and stops its processes, for any  *)
(* set of leaves, and who owns the launches of ServiceLifecycle, for any   *)
(* number of them.  The two are different systems over ChildSupervisor:    *)
(* each proof cites the assumption of its own module only.                 *)
(***************************************************************************)
EXTENDS StackSupervisor, ServiceLifecycle, FiniteSetTheorems, TLAPS

-----------------------------------------------------------------------------
(* One supervisor, which is started once.                                   *)

LEMMA OneCall == MaxStarts = 1 => Calls = {1}
  BY DEF Calls

\* A supervisor that was never started is started by its first call, and never again.
LEMMA FirstCall ==
    ASSUME MaxStarts = 1, NEW s \in Sups
    PROVE  /\ NextCall(s) \in Calls => starts[s][1].at = "none"
           /\ starts[s][1].at = "none" => NextCall(s) = 1
  <1> DEFINE called == {n \in Calls : starts[s][n].at # "none"}
  <1>1. starts[s][1].at = "none" => called = {}
    BY OneCall
  <1>2. starts[s][1].at # "none" => called = {1}
    BY OneCall
  <1>3. Cardinality({}) = 0 /\ Cardinality({1}) = 1
    BY FS_EmptySet, FS_Singleton
  <1>4. NextCall(s) = Cardinality(called) + 1
    BY DEF NextCall
  <1> HIDE DEF called
  <1>5. QED
    BY <1>1, <1>2, <1>3, <1>4, OneCall

-----------------------------------------------------------------------------
(* What the updates of the model do.                                        *)

Places == {"none", "checking", "polling", "identifying", "aborting", "ready", "failed"}
StartRecords == [at : Places, aborts : 0 .. MaxStarts]

\* A function of two arguments changed at one place.
LEMMA UpdateAt ==
    ASSUME NEW A, NEW B, NEW C, NEW f \in [A -> [B -> C]], NEW a \in A, NEW b \in B, NEW c \in C
    PROVE  /\ [f EXCEPT ![a][b] = c] \in [A -> [B -> C]]
           /\ [f EXCEPT ![a][b] = c][a][b] = c
           /\ \A x \in A \ {a} : [f EXCEPT ![a][b] = c][x] = f[x]
  OBVIOUS

\* The place of one start() changes.
LEMMA AtChanges ==
    ASSUME MaxStarts = 1, SupervisorTypeOK, NEW s \in Sups, NEW place \in Places, At(s, 1, place)
    PROVE  /\ starts' \in [Sups -> [Calls -> StartRecords]]
           /\ starts'[s][1].at = place
           /\ starts'[s][1].aborts = starts[s][1].aborts
           /\ \A t \in Sups \ {s} : starts'[t] = starts[t]
  <1> DEFINE new == [at |-> place, aborts |-> starts[s][1].aborts]
  <1>1. starts \in [Sups -> [Calls -> StartRecords]] /\ 1 \in Calls
    BY OneCall DEF SupervisorTypeOK, StartRecords, Places
  <1>2. starts[s][1] \in StartRecords
    BY <1>1
  <1>3. [starts[s][1] EXCEPT !.at = place] = new /\ new \in StartRecords
    BY <1>2 DEF StartRecords
  <1> HIDE DEF new
  <1>4. starts' = [starts EXCEPT ![s][1] = new]
    BY <1>3 DEF At
  <1>5. /\ starts' \in [Sups -> [Calls -> StartRecords]]
        /\ starts'[s][1] = new
        /\ \A t \in Sups \ {s} : starts'[t] = starts[t]
    BY <1>1, <1>3, <1>4, UpdateAt
  <1>6. QED
    BY <1>5 DEF new

\* A process changes its state.
LEMMA ProcChanges ==
    ASSUME MaxStarts = 1, SupervisorTypeOK, NEW s \in Sups, NEW p \in ProcessStates,
           procs' = [procs EXCEPT ![s][1] = p]
    PROVE  /\ procs' \in [Sups -> [Calls -> ProcessStates]]
           /\ procs'[s][1] = p
           /\ \A t \in Sups \ {s} : procs'[t] = procs[t]
  BY OneCall, UpdateAt DEF SupervisorTypeOK

-----------------------------------------------------------------------------
(* What a step of one supervisor does.                                      *)

\* The other supervisors are left alone.
Others(s) ==
    \A t \in Sups \ {s} : /\ sup'[t] = sup[t] /\ starts'[t] = starts[t]
                          /\ stops'[t] = stops[t] /\ procs'[t] = procs[t]

LEMMA SpawnDoes ==
    ASSUME MaxStarts = 1, SupervisorTypeOK, NEW s \in Sups, Spawn(s, 1)
    PROVE  /\ SupervisorTypeOK' /\ Others(s)
           /\ starts[s][1].at = "checking" /\ starts'[s][1].at = "polling"
           /\ sup'[s].state = sup[s].state /\ sup'[s].child = 1
           /\ procs'[s][1] = "running" /\ stops' = stops
  <1>1. procs' = [procs EXCEPT ![s][1] = "running"] /\ At(s, 1, "polling")
        /\ sup' = [sup EXCEPT ![s].child = 1] /\ stops' = stops /\ starts[s][1].at = "checking"
    BY DEF Spawn
  <1>2. /\ procs' \in [Sups -> [Calls -> ProcessStates]]
        /\ procs'[s][1] = "running" /\ \A t \in Sups \ {s} : procs'[t] = procs[t]
    BY <1>1, ProcChanges DEF ProcessStates
  <1>3. /\ starts' \in [Sups -> [Calls -> StartRecords]]
        /\ starts'[s][1].at = "polling" /\ \A t \in Sups \ {s} : starts'[t] = starts[t]
    BY <1>1, AtChanges DEF Places
  <1>4. /\ sup' \in [Sups -> [state : {"idle", "starting", "ready", "stopping"}, child : 0 .. MaxStarts]]
        /\ sup'[s].state = sup[s].state /\ sup'[s].child = 1
        /\ \A t \in Sups \ {s} : sup'[t] = sup[t]
    <2>1. sup[s] \in [state : {"idle", "starting", "ready", "stopping"}, child : 0 .. MaxStarts]
      BY DEF SupervisorTypeOK
    <2>2. /\ [sup[s] EXCEPT !.child = 1] = [state |-> sup[s].state, child |-> 1]
          /\ [state |-> sup[s].state, child |-> 1] \in
                [state : {"idle", "starting", "ready", "stopping"}, child : 0 .. MaxStarts]
      BY <2>1, OneCall
    <2>3. sup' = [sup EXCEPT ![s] = [state |-> sup[s].state, child |-> 1]]
      BY <1>1, <2>2
    <2>4. QED
      BY <2>2, <2>3 DEF SupervisorTypeOK
  <1>5. QED
    BY <1>1, <1>2, <1>3, <1>4 DEF SupervisorTypeOK, Others, StartRecords, Places

LEMMA HealthyDoes ==
    ASSUME MaxStarts = 1, SupervisorTypeOK, NEW s \in Sups, Healthy(s, 1)
    PROVE  /\ SupervisorTypeOK' /\ Others(s) /\ UNCHANGED <<sup, stops, procs>>
           /\ starts[s][1].at = "polling" /\ starts'[s][1].at = "identifying"
  <1>1. At(s, 1, "identifying") /\ UNCHANGED <<sup, stops, procs>> /\ starts[s][1].at = "polling"
    BY DEF Healthy
  <1>2. /\ starts' \in [Sups -> [Calls -> StartRecords]]
        /\ starts'[s][1].at = "identifying" /\ \A t \in Sups \ {s} : starts'[t] = starts[t]
    BY <1>1, AtChanges DEF Places
  <1>3. QED
    BY <1>1, <1>2 DEF SupervisorTypeOK, Others, StartRecords, Places

LEMMA IdentifiedDoes ==
    ASSUME MaxStarts = 1, SupervisorTypeOK, NEW s \in Sups, Identified(s, 1)
    PROVE  /\ SupervisorTypeOK' /\ Others(s) /\ UNCHANGED <<stops, procs>>
           /\ starts[s][1].at = "identifying" /\ starts'[s][1].at = "ready"
           /\ sup'[s].state = "ready" /\ sup'[s].child = sup[s].child
  <1>1. At(s, 1, "ready") /\ UNCHANGED <<stops, procs>> /\ starts[s][1].at = "identifying"
        /\ sup' = [sup EXCEPT ![s].state = "ready"]
    BY DEF Identified
  <1>2. /\ starts' \in [Sups -> [Calls -> StartRecords]]
        /\ starts'[s][1].at = "ready" /\ \A t \in Sups \ {s} : starts'[t] = starts[t]
    BY <1>1, AtChanges DEF Places
  <1>3. /\ sup' \in [Sups -> [state : {"idle", "starting", "ready", "stopping"}, child : 0 .. MaxStarts]]
        /\ sup'[s].state = "ready" /\ sup'[s].child = sup[s].child
        /\ \A t \in Sups \ {s} : sup'[t] = sup[t]
    <2>1. sup[s] \in [state : {"idle", "starting", "ready", "stopping"}, child : 0 .. MaxStarts]
      BY DEF SupervisorTypeOK
    <2>2. /\ [sup[s] EXCEPT !.state = "ready"] = [state |-> "ready", child |-> sup[s].child]
          /\ [state |-> "ready", child |-> sup[s].child] \in
                [state : {"idle", "starting", "ready", "stopping"}, child : 0 .. MaxStarts]
      BY <2>1
    <2>3. sup' = [sup EXCEPT ![s] = [state |-> "ready", child |-> sup[s].child]]
      BY <1>1, <2>2
    <2>4. QED
      BY <2>2, <2>3 DEF SupervisorTypeOK
  <1>4. QED
    BY <1>1, <1>2, <1>3 DEF SupervisorTypeOK, Others, StartRecords, Places

LEMMA StartFailsDoes ==
    ASSUME MaxStarts = 1, SupervisorTypeOK, NEW s \in Sups, StartFails(s, 1)
    PROVE  /\ SupervisorTypeOK' /\ Others(s) /\ stops' = stops
           /\ starts[s][1].at \in {"checking", "polling", "identifying"}
           /\ IF HasToWait(s)
              THEN /\ starts'[s][1].at = "aborting" /\ starts'[s][1].aborts = 1
                   /\ sup' = sup /\ procs[s][1] \notin {"signalled", "forced", "reaped"}
                   /\ procs'[s][1] = IF procs[s][1] = "running" THEN "signalled" ELSE procs[s][1]
              ELSE /\ starts'[s][1].at = "failed" /\ procs' = procs
                   /\ sup'[s].state = "idle" /\ sup'[s].child = 0
  <1>1. starts[s][1].at \in {"checking", "polling", "identifying"} /\ stops' = stops
    BY DEF StartFails
  <1>2. sup[s].child \in {0, 1}
    BY OneCall DEF SupervisorTypeOK
  <1>3. CASE HasToWait(s)
    <2> DEFINE new == [at |-> "aborting", aborts |-> 1]
    <2>1. sup[s].child = 1 /\ procs[s][1] \notin {"signalled", "forced", "reaped"}
      BY <1>2, <1>3 DEF HasToWait, Killed
    <2>2. starts' = [starts EXCEPT ![s][1] = new] /\ Signal(s, 1) /\ sup' = sup
      BY <1>3, <2>1 DEF StartFails, HasToWait
    <2>3. new \in StartRecords /\ starts \in [Sups -> [Calls -> StartRecords]] /\ 1 \in Calls
      BY OneCall DEF SupervisorTypeOK, StartRecords, Places
    <2>4. /\ starts' \in [Sups -> [Calls -> StartRecords]]
          /\ starts'[s][1] = new /\ \A t \in Sups \ {s} : starts'[t] = starts[t]
      BY <2>2, <2>3, UpdateAt
    <2>5. /\ procs' \in [Sups -> [Calls -> ProcessStates]]
          /\ procs'[s][1] = IF procs[s][1] = "running" THEN "signalled" ELSE procs[s][1]
          /\ \A t \in Sups \ {s} : procs'[t] = procs[t]
      <3>1. CASE procs[s][1] = "running"
        <4>1. procs' = [procs EXCEPT ![s][1] = "signalled"]
          BY <2>2, <3>1 DEF Signal
        <4>2. QED
          BY <3>1, <4>1, ProcChanges DEF ProcessStates
      <3>2. CASE procs[s][1] # "running"
        BY <2>2, <3>2 DEF Signal, SupervisorTypeOK
      <3>3. QED
        BY <3>1, <3>2
    <2>6. QED
      BY <1>1, <1>3, <2>1, <2>2, <2>4, <2>5
         DEF SupervisorTypeOK, Others, StartRecords, Places
  <1>4. CASE ~HasToWait(s)
    <2>1. Reset(s) /\ At(s, 1, "failed") /\ procs' = procs
      BY <1>4 DEF StartFails, HasToWait
    <2>2. /\ starts' \in [Sups -> [Calls -> StartRecords]]
          /\ starts'[s][1].at = "failed" /\ \A t \in Sups \ {s} : starts'[t] = starts[t]
      BY <2>1, AtChanges DEF Places
    <2>3. /\ sup' \in [Sups -> [state : {"idle", "starting", "ready", "stopping"}, child : 0 .. MaxStarts]]
          /\ sup'[s].state = "idle" /\ sup'[s].child = 0 /\ \A t \in Sups \ {s} : sup'[t] = sup[t]
      BY <2>1, OneCall DEF SupervisorTypeOK, Reset
    <2>4. QED
      BY <1>1, <1>4, <2>1, <2>2, <2>3 DEF SupervisorTypeOK, Others, StartRecords, Places
  <1>5. QED
    BY <1>3, <1>4

\* A process that the wait saw exit, or that a signal was delivered to, is not killed.
LEMMA EscalateDoes ==
    ASSUME MaxStarts = 1, SupervisorTypeOK, NEW s \in Sups, NEW n, Escalate(s, n)
    PROVE  /\ procs' \in [Sups -> [Calls -> ProcessStates]]
           /\ \A t \in Sups \ {s} : procs'[t] = procs[t]
           /\ n = 1 /\ WaitSettles(s, n) => procs'[s][1] \in Gone \/ Slow
           /\ n = 1 /\ (procs[s][1] \in Gone \/ Killed(s, 1)) => procs' = procs
           /\ procs[s][1] # "none" => procs'[s][1] # "none"
           /\ procs[s][1] = "running" => procs'[s][1] # "signalled"
  <1>1. procs \in [Sups -> [Calls -> ProcessStates]]
    BY DEF SupervisorTypeOK
  <1>2. CASE procs' = procs
    BY <1>1, <1>2 DEF WaitSettles
  <1>3. CASE procs' # procs
    <2>1. procs' = [procs EXCEPT ![s][n] = "forced"] /\ procs[s][n] \notin Gone /\ ~Killed(s, n)
      BY <1>3 DEF Escalate
    <2>2. [procs[s] EXCEPT ![n] = "forced"] \in [Calls -> ProcessStates]
      BY <1>1 DEF ProcessStates
    <2>3. procs' \in [Sups -> [Calls -> ProcessStates]]
      BY <1>1, <2>1, <2>2
    <2>4. \A t \in Sups \ {s} : procs'[t] = procs[t]
      BY <1>1, <2>1
    <2>5. procs'[s][1] \in {procs[s][1], "forced"}
      BY <1>1, <2>1, OneCall
    <2>6. QED
      BY <2>1, <2>3, <2>4, <2>5 DEF WaitSettles
  <1>4. QED
    BY <1>2, <1>3

LEMMA AbortSettlesDoes ==
    ASSUME MaxStarts = 1, SupervisorTypeOK, NEW s \in Sups, AbortSettles(s, 1)
    PROVE  /\ SupervisorTypeOK' /\ Others(s) /\ stops' = stops
           /\ starts[s][1].at = "aborting" /\ starts'[s][1].at = "failed"
           /\ sup'[s].state = "idle" /\ sup'[s].child = 0
           /\ starts[s][1].aborts = 1 => procs'[s][1] \in Gone \/ Slow
           /\ starts[s][1].aborts = 1 /\ (procs[s][1] \in Gone \/ Killed(s, 1)) => procs' = procs
           /\ procs[s][1] = "running" => procs'[s][1] # "signalled"
  <1>1. /\ starts[s][1].at = "aborting" /\ At(s, 1, "failed") /\ Reset(s) /\ stops' = stops
        /\ Escalate(s, starts[s][1].aborts) /\ WaitSettles(s, starts[s][1].aborts)
    BY DEF AbortSettles
  <1>2. /\ starts' \in [Sups -> [Calls -> StartRecords]]
        /\ starts'[s][1].at = "failed" /\ \A t \in Sups \ {s} : starts'[t] = starts[t]
    BY <1>1, AtChanges DEF Places
  <1>3. /\ procs' \in [Sups -> [Calls -> ProcessStates]]
        /\ \A t \in Sups \ {s} : procs'[t] = procs[t]
        /\ starts[s][1].aborts = 1 => procs'[s][1] \in Gone \/ Slow
        /\ starts[s][1].aborts = 1 /\ (procs[s][1] \in Gone \/ Killed(s, 1)) => procs' = procs
        /\ procs[s][1] = "running" => procs'[s][1] # "signalled"
    BY <1>1, EscalateDoes
  <1>4. /\ sup' \in [Sups -> [state : {"idle", "starting", "ready", "stopping"}, child : 0 .. MaxStarts]]
        /\ sup'[s].state = "idle" /\ sup'[s].child = 0 /\ \A t \in Sups \ {s} : sup'[t] = sup[t]
    BY <1>1, OneCall DEF SupervisorTypeOK, Reset
  <1>5. QED
    BY <1>1, <1>2, <1>3, <1>4 DEF SupervisorTypeOK, Others, StartRecords, Places

LEMMA StopSettlesDoes ==
    ASSUME MaxStarts = 1, SupervisorTypeOK, NEW s \in Sups, StopSettles(s)
    PROVE  /\ SupervisorTypeOK' /\ Others(s) /\ starts' = starts
           /\ stops[s].at = "waiting" /\ stops'[s].at = "done" /\ stops'[s].child = stops[s].child
           /\ sup'[s].state = "idle" /\ sup'[s].child = 0
           /\ stops[s].child = 1 => procs'[s][1] \in Gone \/ Slow
           /\ stops[s].child = 1 /\ (procs[s][1] \in Gone \/ Killed(s, 1)) => procs' = procs
           /\ procs[s][1] = "running" => procs'[s][1] # "signalled"
  <1>1. /\ stops[s].at = "waiting" /\ stops' = [stops EXCEPT ![s].at = "done"] /\ Reset(s)
        /\ Escalate(s, stops[s].child) /\ WaitSettles(s, stops[s].child) /\ starts' = starts
    BY DEF StopSettles
  <1>2. /\ stops' \in [Sups -> [at : {"none", "waiting", "done"}, child : 0 .. MaxStarts]]
        /\ stops'[s].at = "done" /\ stops'[s].child = stops[s].child
        /\ \A t \in Sups \ {s} : stops'[t] = stops[t]
    BY <1>1 DEF SupervisorTypeOK
  <1>3. /\ procs' \in [Sups -> [Calls -> ProcessStates]]
        /\ \A t \in Sups \ {s} : procs'[t] = procs[t]
        /\ stops[s].child = 1 => procs'[s][1] \in Gone \/ Slow
        /\ stops[s].child = 1 /\ (procs[s][1] \in Gone \/ Killed(s, 1)) => procs' = procs
        /\ procs[s][1] = "running" => procs'[s][1] # "signalled"
    BY <1>1, EscalateDoes
  <1>4. /\ sup' \in [Sups -> [state : {"idle", "starting", "ready", "stopping"}, child : 0 .. MaxStarts]]
        /\ sup'[s].state = "idle" /\ sup'[s].child = 0 /\ \A t \in Sups \ {s} : sup'[t] = sup[t]
    BY <1>1, OneCall DEF SupervisorTypeOK, Reset
  <1>5. QED
    BY <1>1, <1>2, <1>3, <1>4 DEF SupervisorTypeOK, Others

LEMMA ExitsDoes ==
    ASSUME MaxStarts = 1, SupervisorTypeOK, NEW s \in Sups, Exits(s, 1)
    PROVE  /\ SupervisorTypeOK' /\ Others(s) /\ UNCHANGED <<sup, starts, stops>>
           /\ procs[s][1] \notin Gone
           /\ procs'[s][1] = IF procs[s][1] = "running" THEN "exited" ELSE "reaped"
  <1>1. /\ procs' = [procs EXCEPT ![s][1] = IF procs[s][1] = "running" THEN "exited" ELSE "reaped"]
        /\ UNCHANGED <<sup, starts, stops>> /\ procs[s][1] \notin Gone
    BY DEF Exits
  <1>2. /\ procs' \in [Sups -> [Calls -> ProcessStates]]
        /\ procs'[s][1] = (IF procs[s][1] = "running" THEN "exited" ELSE "reaped")
        /\ \A t \in Sups \ {s} : procs'[t] = procs[t]
    BY <1>1, ProcChanges DEF ProcessStates
  <1>3. QED
    BY <1>1, <1>2 DEF SupervisorTypeOK, Others

\* start() of several supervisors.
LEMMA StartDoes ==
    ASSUME MaxStarts = 1, SupervisorTypeOK, NEW S \in SUBSET Sups, Start(S)
    PROVE  /\ SupervisorTypeOK' /\ UNCHANGED <<stops, procs>>
           /\ \A s \in S : /\ starts[s][1].at = "none" /\ starts'[s][1].at = "checking"
                           /\ sup'[s].state = "starting" /\ sup'[s].child = sup[s].child
           /\ \A s \in Sups \ S : starts'[s] = starts[s] /\ sup'[s] = sup[s]
  <1>1. \A s \in S : starts[s][1].at = "none" /\ NextCall(s) = 1
    BY FirstCall DEF Start
  <1>2. starts \in [Sups -> [Calls -> StartRecords]] /\ 1 \in Calls
    BY OneCall DEF SupervisorTypeOK, StartRecords, Places
  <1>3. ASSUME NEW s \in S
        PROVE  /\ starts'[s] \in [Calls -> StartRecords] /\ starts'[s][1].at = "checking"
               /\ sup'[s] \in [state : {"idle", "starting", "ready", "stopping"}, child : 0 .. MaxStarts]
               /\ sup'[s].state = "starting" /\ sup'[s].child = sup[s].child
    <2> DEFINE new == [at |-> "checking", aborts |-> starts[s][1].aborts]
    <2>1. starts[s] \in [Calls -> StartRecords] /\ starts[s][1] \in StartRecords
      BY <1>2
    <2>2. [starts[s][1] EXCEPT !.at = "checking"] = new /\ new \in StartRecords
      BY <2>1 DEF StartRecords, Places
    <2>3. starts'[s] = [starts[s] EXCEPT ![1].at = "checking"]
      BY <1>1, <1>3 DEF Start
    <2> HIDE DEF new
    <2>4. starts'[s] = [starts[s] EXCEPT ![1] = new]
      BY <2>2, <2>3
    <2>5. starts'[s] \in [Calls -> StartRecords] /\ starts'[s][1] = new
      BY <1>2, <2>1, <2>2, <2>4
    <2>6. sup[s] \in [state : {"idle", "starting", "ready", "stopping"}, child : 0 .. MaxStarts]
          /\ sup'[s] = [sup[s] EXCEPT !.state = "starting"]
      BY DEF SupervisorTypeOK, Start
    <2>7. QED
      BY <2>5, <2>6 DEF new
  <1>4. \A s \in Sups \ S : starts'[s] = starts[s] /\ sup'[s] = sup[s]
    BY DEF Start
  <1>5. /\ starts' = [s \in Sups |-> starts'[s]] /\ sup' = [s \in Sups |-> sup'[s]]
        /\ UNCHANGED <<stops, procs>>
    BY DEF Start
  <1>6. starts' \in [Sups -> [Calls -> StartRecords]]
    BY <1>2, <1>3, <1>4, <1>5
  <1>7. sup' \in [Sups -> [state : {"idle", "starting", "ready", "stopping"}, child : 0 .. MaxStarts]]
    BY <1>3, <1>4, <1>5 DEF SupervisorTypeOK
  <1>8. SupervisorTypeOK'
    BY <1>5, <1>6, <1>7 DEF SupervisorTypeOK, StartRecords, Places
  <1>9. QED
    BY <1>1, <1>3, <1>4, <1>5, <1>8

\* stop() of several supervisors.
LEMMA StopDoes ==
    ASSUME MaxStarts = 1, SupervisorTypeOK, NEW S \in SUBSET Sups, Stop(S)
    PROVE  /\ SupervisorTypeOK' /\ starts' = starts
           /\ \A s \in Sups \ S : /\ sup'[s] = sup[s] /\ stops'[s] = stops[s]
                                  /\ procs'[s][1] = procs[s][1]
           /\ \A s \in S :
                IF HasToWait(s)
                THEN /\ stops'[s].at = "waiting" /\ stops'[s].child = 1
                     /\ sup'[s].state = "stopping" /\ sup'[s].child = 1
                     /\ procs'[s][1] = IF procs[s][1] = "running" THEN "signalled" ELSE procs[s][1]
                ELSE stops'[s].at = "done" /\ sup'[s].child = 0 /\ procs'[s][1] = procs[s][1]
           /\ \A s \in S : sup'[s].child \in {0, sup[s].child}
  <1>1. \A s \in Sups : HasToWait(s) => sup[s].child = 1
    BY OneCall DEF SupervisorTypeOK, HasToWait
  <1>2. /\ sup' \in [Sups -> [state : {"idle", "starting", "ready", "stopping"}, child : 0 .. MaxStarts]]
        /\ \A s \in Sups \ S : sup'[s] = sup[s]
        /\ \A s \in S : IF HasToWait(s) THEN sup'[s].state = "stopping" /\ sup'[s].child = sup[s].child
                        ELSE sup'[s].state = "idle" /\ sup'[s].child = 0
    BY OneCall DEF SupervisorTypeOK, Stop
  <1>3. /\ stops' \in [Sups -> [at : {"none", "waiting", "done"}, child : 0 .. MaxStarts]]
        /\ \A s \in Sups \ S : stops'[s] = stops[s]
        /\ \A s \in S : stops'[s] = IF HasToWait(s) THEN [at |-> "waiting", child |-> sup[s].child]
                                    ELSE [at |-> "done", child |-> 0]
    BY OneCall DEF SupervisorTypeOK, Stop
  <1>4. /\ procs' \in [Sups -> [Calls -> ProcessStates]]
        /\ \A s \in Sups : procs'[s][1] = IF s \in S /\ HasToWait(s) /\ procs[s][1] = "running"
                                          THEN "signalled" ELSE procs[s][1]
    BY <1>1, OneCall DEF SupervisorTypeOK, Stop, ProcessStates
  <1>5. SupervisorTypeOK' /\ starts' = starts
    BY <1>2, <1>3, <1>4 DEF SupervisorTypeOK, Stop
  <1>6. ASSUME NEW s \in S
        PROVE  /\ IF HasToWait(s)
                  THEN /\ stops'[s].at = "waiting" /\ stops'[s].child = 1
                       /\ sup'[s].state = "stopping" /\ sup'[s].child = 1
                       /\ procs'[s][1] = IF procs[s][1] = "running" THEN "signalled" ELSE procs[s][1]
                  ELSE stops'[s].at = "done" /\ sup'[s].child = 0 /\ procs'[s][1] = procs[s][1]
               /\ sup'[s].child \in {0, sup[s].child}
    <2>1. CASE HasToWait(s)
      <3>1. stops'[s] = [at |-> "waiting", child |-> sup[s].child] /\ sup[s].child = 1
        BY <1>1, <1>3, <2>1
      <3>2. procs'[s][1] = IF procs[s][1] = "running" THEN "signalled" ELSE procs[s][1]
        BY <1>4, <2>1
      <3>3. sup'[s].state = "stopping" /\ sup'[s].child = 1
        BY <1>1, <1>2, <2>1
      <3>4. QED
        BY <2>1, <3>1, <3>2, <3>3
    <2>2. CASE ~HasToWait(s)
      <3>1. stops'[s] = [at |-> "done", child |-> 0]
        BY <1>3, <2>2
      <3>2. procs'[s][1] = procs[s][1]
        BY <1>4, <2>2
      <3>3. sup'[s].state = "idle" /\ sup'[s].child = 0
        BY <1>2, <2>2
      <3>4. sup'[s].child = 0
        BY <3>3
      <3>5. QED
        BY <2>2, <3>1, <3>2, <3>4
    <2>3. QED
      BY <2>1, <2>2
  <1>7. QED
    BY <1>2, <1>3, <1>4, <1>5, <1>6

-----------------------------------------------------------------------------
(* The stack.                                                               *)

\* The backend and the leaves are the supervisors, and each is started once.
LEMMA StackShape ==
    /\ Calls = {1} /\ MaxStarts = 1
    /\ Backend \in Sups /\ Leaves \subseteq Sups /\ Backend \notin Leaves
  BY StackAssumption DEF Calls

\* A step of a supervisor: the backend's own, or one of a leaf, which the backend and the
\* leaves that are ready do not notice.
LEMMA SupervisorStepInv ==
    ASSUME StackIInv, SupervisorStep, UNCHANGED stack
    PROVE  StackIInv'
  <1>1. TypeOK /\ SupervisorTypeOK /\ MaxStarts = 1
        /\ Backend \in Sups /\ Leaves \subseteq Sups /\ Backend \notin Leaves
    BY StackShape DEF StackIInv, TypeOK
  <1>2. PICK s \in Sups :
           \/ StopSettles(s) \/ Exits(s, 1)
           \/ Spawn(s, 1) \/ Healthy(s, 1) \/ Identified(s, 1) \/ StartFails(s, 1) \/ AbortSettles(s, 1)
    BY <1>1, OneCall DEF SupervisorStep, Settling
  <1>3. TypeOK'
    <2>1. SupervisorTypeOK'
      BY <1>1, <1>2, StopSettlesDoes, ExitsDoes, SpawnDoes, HealthyDoes, IdentifiedDoes,
         StartFailsDoes, AbortSettlesDoes
    <2>2. QED
      BY <1>1, <2>1 DEF TypeOK
  <1>4. Others(s)
    BY <1>1, <1>2, StopSettlesDoes, ExitsDoes, SpawnDoes, HealthyDoes, IdentifiedDoes,
       StartFailsDoes, AbortSettlesDoes
  <1>5. Place(s) \in {"none", "ready"} => starts'[s][1].at = Place(s)
    BY <1>1, <1>2, StopSettlesDoes, ExitsDoes, SpawnDoes, HealthyDoes, IdentifiedDoes,
       StartFailsDoes, AbortSettlesDoes DEF Place
  <1>6. \A l \in Leaves : Place(l) = "ready" => starts'[l][1].at = "ready"
    BY <1>1, <1>4, <1>5 DEF Others, Place
  <1>7. CASE s # Backend
    <2>1. /\ sup'[Backend] = sup[Backend] /\ starts'[Backend] = starts[Backend]
          /\ stops'[Backend] = stops[Backend] /\ procs'[Backend] = procs[Backend]
      BY <1>1, <1>4, <1>7 DEF Others
    <2>2. QED
      BY <1>3, <1>6, <2>1 DEF StackIInv, BackendChild, Place
  <1>8. CASE s = Backend
    <2>1. CASE StopSettles(Backend)
      <3>1. stops[Backend].child = 1
        BY <1>1, <2>1 DEF StopSettles, StackIInv, BackendChild
      <3>2. QED
        BY <3>1, <1>1, <1>3, <1>6, <2>1, StopSettlesDoes DEF StackIInv, BackendChild, Place, Gone
    <2>2. CASE Exits(Backend, 1)
      BY <1>1, <1>3, <1>6, <2>2, ExitsDoes DEF StackIInv, BackendChild, Place, Gone
    <2>3. CASE Spawn(Backend, 1)
      <3>1. /\ Place(Backend) = "checking" /\ starts'[Backend][1].at = "polling"
            /\ sup'[Backend].child = 1 /\ procs'[Backend][1] = "running" /\ stops' = stops
        BY <1>1, <2>3, SpawnDoes DEF Place
      <3>2. QED
        BY <1>1, <1>3, <1>6, <2>3, <3>1 DEF StackIInv, BackendChild, Place
    <2>4. CASE Healthy(Backend, 1)
      BY <1>1, <1>3, <1>6, <2>4, HealthyDoes DEF StackIInv, BackendChild, Place
    <2>5. CASE Identified(Backend, 1)
      BY <1>1, <1>3, <1>6, <2>5, IdentifiedDoes DEF StackIInv, BackendChild, Place
    <2>6. CASE StartFails(Backend, 1)
      BY <1>1, <1>3, <1>6, <2>6, StartFailsDoes
         DEF StackIInv, BackendChild, Place, Gone, HasToWait, Killed
    <2>7. CASE AbortSettles(Backend, 1)
      BY <1>1, <1>3, <1>6, <2>7, AbortSettlesDoes DEF StackIInv, BackendChild, Place
    <2>8. QED
      BY <1>2, <1>8, <2>1, <2>2, <2>3, <2>4, <2>5, <2>6, <2>7
  <1>9. QED
    BY <1>7, <1>8

\* A step of the stack itself.
LEMMA StackStepInv ==
    ASSUME StackIInv, StartLeaves \/ StackStep \/ StopBackend
    PROVE  StackIInv'
  <1>1. TypeOK /\ SupervisorTypeOK /\ MaxStarts = 1
        /\ Backend \in Sups /\ Leaves \in SUBSET Sups /\ {Backend} \in SUBSET Sups
        /\ Backend \notin Leaves
    BY StackShape DEF StackIInv, TypeOK
  <1>2. CASE StartLeaves
    <2>1. Start(Leaves) /\ stack = "off" /\ stack' = "leaves"
      BY <1>2 DEF StartLeaves
    <2>2. /\ SupervisorTypeOK' /\ UNCHANGED <<stops, procs>>
          /\ starts'[Backend] = starts[Backend] /\ sup'[Backend] = sup[Backend]
      BY <1>1, <2>1, StartDoes
    <2>3. QED
      BY <2>1, <2>2 DEF StackIInv, BackendChild, Place, TypeOK
  <1>3. CASE StartBackend
    <2>1. /\ Start({Backend}) /\ stack = "leaves" /\ stack' = "backend"
          /\ \A s \in Leaves : Place(s) = "ready"
      BY <1>3 DEF StartBackend
    <2>2. /\ SupervisorTypeOK' /\ UNCHANGED <<stops, procs>>
          /\ starts'[Backend][1].at = "checking" /\ sup'[Backend].child = sup[Backend].child
          /\ \A s \in Leaves : starts'[s] = starts[s]
      BY <1>1, <2>1, StartDoes
    <2>3. QED
      BY <2>1, <2>2 DEF StackIInv, BackendChild, Place, TypeOK
  <1>4. CASE Up \/ Down
    BY <1>4 DEF Up, Down, StackIInv, BackendChild, Place, TypeOK, SupervisorTypeOK, supervisorVars
  <1>5. CASE StopBackend
    <2>1. /\ Stop({Backend}) /\ stack \in {"leaves", "backend", "up"} /\ stack' = "stopping_backend"
          /\ stack = "backend" => Place(Backend) = "failed"
      BY <1>5 DEF StopBackend
    <2>2. /\ SupervisorTypeOK' /\ starts' = starts
          /\ IF HasToWait(Backend)
             THEN stops'[Backend].at = "waiting" /\ stops'[Backend].child = 1
             ELSE stops'[Backend].at = "done"
          /\ sup'[Backend].child \in {0, sup[Backend].child}
          /\ procs[Backend][1] # "running" => procs'[Backend][1] = procs[Backend][1]
          /\ ~HasToWait(Backend) => procs'[Backend][1] = procs[Backend][1]
      BY <1>1, <2>1, StopDoes
    <2>3. QED
      BY <2>1, <2>2 DEF StackIInv, BackendChild, Place, TypeOK, HasToWait, Killed, Gone
  <1>6. CASE StopLeaves
    <2>1. Stop(Leaves) /\ stack = "stopping_backend" /\ stack' = "stopping_leaves"
      BY <1>6 DEF StopLeaves
    <2>2. /\ SupervisorTypeOK' /\ starts' = starts /\ sup'[Backend] = sup[Backend]
          /\ stops'[Backend] = stops[Backend] /\ procs'[Backend][1] = procs[Backend][1]
      BY <1>1, <2>1, StopDoes
    <2>3. QED
      BY <2>1, <2>2 DEF StackIInv, BackendChild, Place, TypeOK
  <1>7. QED
    BY <1>2, <1>3, <1>4, <1>5, <1>6 DEF StackStep

LEMMA StackInitInv == Init => StackIInv
  BY StackShape DEF Init, SupervisorInit, StackIInv, BackendChild, Place, TypeOK, SupervisorTypeOK,
                 ProcessStates

LEMMA StackNextInv == StackIInv /\ [Next]_vars => StackIInv'
  <1> SUFFICES ASSUME StackIInv, [Next]_vars PROVE StackIInv'
    OBVIOUS
  <1>1. CASE UNCHANGED vars
    BY <1>1 DEF vars, StackIInv, BackendChild, Place, TypeOK, SupervisorTypeOK
  <1>2. CASE SupervisorStep /\ UNCHANGED stack
    BY <1>2, SupervisorStepInv
  <1>3. CASE StartLeaves \/ StackStep \/ StopBackend
    BY <1>3, StackStepInv
  <1>4. QED
    BY <1>1, <1>2, <1>3 DEF Next

-----------------------------------------------------------------------------
(* The theorems.                                                            *)

\* The inductive invariant holds of every behaviour.
THEOREM StackSafety == Spec => []StackIInv
  BY StackInitInv, StackNextInv, PTL DEF Spec

\* Whatever leaves there are and whichever of them fails, the backend is spawned only when
\* all of them have become ready.
THEOREM BackendComesLastAlways == Spec => []BackendComesLast
  <1>1. StackIInv => BackendComesLast
    BY DEF StackIInv, BackendChild, BackendComesLast, Place
  <1>2. QED
    BY <1>1, StackSafety, PTL

\* Children exit within the grace period: then no leaf is told to stop, neither by the
\* stack nor by a start of its own that fails, while the backend runs.
THEOREM BackendGoesFirstAlways == Slow = FALSE => (Spec => BackendGoesFirst)
  <1> SUFFICES ASSUME Slow = FALSE PROVE Spec => BackendGoesFirst
    OBVIOUS
  <1>1. ASSUME StackIInv, [Next]_vars
        PROVE  [\A s \in Leaves : procs[s][1] = "running" /\ procs'[s][1] = "signalled"
                   => procs'[Backend][1] \in Gone]_vars
    <2> SUFFICES ASSUME NEW l \in Leaves, procs[l][1] = "running", procs'[l][1] = "signalled"
                 PROVE  procs'[Backend][1] \in Gone
      OBVIOUS
    <2>1. TypeOK /\ SupervisorTypeOK /\ MaxStarts = 1
        /\ Backend \in Sups /\ Leaves \in SUBSET Sups /\ {Backend} \in SUBSET Sups
          /\ Backend \notin Leaves
      BY <1>1, StackShape DEF StackIInv, TypeOK
    <2>2. CASE UNCHANGED procs
      BY <2>2
    <2>3. ASSUME NEW s \in Sups,
                 \/ StopSettles(s) \/ Exits(s, 1) \/ Spawn(s, 1) \/ AbortSettles(s, 1)
                 \/ StartFails(s, 1)
          PROVE  procs'[Backend][1] \in Gone
      <3>1. s = l
        BY <2>1, <2>3, StopSettlesDoes, ExitsDoes, SpawnDoes, StartFailsDoes, AbortSettlesDoes DEF Others
      <3>2. StartFails(l, 1)
        BY <2>1, <2>3, <3>1, StopSettlesDoes, ExitsDoes, SpawnDoes, AbortSettlesDoes
      <3>3. Place(l) # "ready" /\ procs'[Backend] = procs[Backend]
        <4>1. Others(l) /\ starts[l][1].at # "ready"
          BY <2>1, <3>2, StartFailsDoes
        <4>2. QED
          BY <2>1, <4>1 DEF Others, Place
      <3>4. procs[Backend][1] = "none"
        BY <1>1, <3>3 DEF StackIInv, BackendChild
      <3>5. QED
        BY <3>3, <3>4 DEF Gone
    <2>4. CASE StopBackend
      BY <2>1, <2>4, StopDoes DEF StopBackend
    <2>5. CASE StopLeaves
      <3>1. stops[Backend].at = "done" /\ procs'[Backend][1] = procs[Backend][1]
        BY <2>1, <2>5, StopDoes DEF StopLeaves
      <3>2. QED
        BY <1>1, <3>1 DEF StackIInv, BackendChild
    <2>6. SupervisorStep => \E s \in Sups :
             \/ StopSettles(s) \/ Exits(s, 1) \/ Spawn(s, 1) \/ AbortSettles(s, 1) \/ StartFails(s, 1)
             \/ UNCHANGED procs
      BY StackShape DEF SupervisorStep, Settling, Healthy, Identified
    <2>7. StartLeaves \/ StartBackend \/ Up \/ Down \/ UNCHANGED vars => UNCHANGED procs
      BY DEF StartLeaves, StartBackend, Start, Up, Down, supervisorVars, vars
    <2>8. QED
      BY <1>1, <2>2, <2>3, <2>4, <2>5, <2>6, <2>7 DEF Next, StackStep
  <1>2. QED
    BY <1>1, StackSafety, PTL DEF Spec, BackendGoesFirst


-----------------------------------------------------------------------------
(* The life cycle of the service: the child of one launch.                  *)

\* A step that a child or its supervisor takes by itself.
ChildStep(s) ==
    \/ StopSettles(s) \/ Exits(s, 1)
    \/ Spawn(s, 1) \/ Healthy(s, 1) \/ Identified(s, 1) \/ StartFails(s, 1) \/ AbortSettles(s, 1)

LEMMA ChildStepDoes ==
    ASSUME MaxStarts = 1, SupervisorTypeOK, NEW s \in Sups, ChildStep(s)
    PROVE  /\ SupervisorTypeOK' /\ Others(s)
           /\ procs[s][1] = "running" /\ procs'[s][1] = "signalled" =>
                starts[s][1].at \in {"checking", "polling", "identifying"}
  <1>1. CASE StopSettles(s)
    BY <1>1, StopSettlesDoes
  <1>2. CASE Exits(s, 1)
    BY <1>2, ExitsDoes
  <1>3. CASE Spawn(s, 1)
    BY <1>3, SpawnDoes
  <1>4. CASE Healthy(s, 1)
    BY <1>4, HealthyDoes
  <1>5. CASE Identified(s, 1)
    BY <1>5, IdentifiedDoes
  <1>6. CASE StartFails(s, 1)
    BY <1>6, StartFailsDoes
  <1>7. CASE AbortSettles(s, 1)
    BY <1>7, AbortSettlesDoes
  <1>8. QED
    BY <1>1, <1>2, <1>3, <1>4, <1>5, <1>6, <1>7 DEF ChildStep

\* Nothing happens to a child that was not started.
LEMMA UntouchedRests ==
    ASSUME MaxStarts = 1, SupervisorTypeOK, NEW s \in Sups, ChildStep(s)
    PROVE  ~ChildUntouched(s)
  BY StopSettlesDoes, ExitsDoes, SpawnDoes, HealthyDoes, IdentifiedDoes, StartFailsDoes, AbortSettlesDoes
     DEF ChildStep, ChildUntouched, Gone

\* A start goes on, and what it ended in is not taken back.
LEMMA ComesOn ==
    ASSUME MaxStarts = 1, SupervisorTypeOK, NEW s \in Sups, ChildStep(s), ChildComes(s)
    PROVE  /\ ChildComes(s)'
           /\ starts[s][1].at \in {"ready", "failed"} => starts'[s][1].at = starts[s][1].at
  <1>1. CASE StopSettles(s)
    BY <1>1, StopSettlesDoes DEF ChildComes
  <1>2. CASE Exits(s, 1)
    BY <1>2, ExitsDoes DEF ChildComes, Gone
  <1>3. CASE Spawn(s, 1)
    BY <1>3, SpawnDoes DEF ChildComes
  <1>4. CASE Healthy(s, 1)
    BY <1>4, HealthyDoes DEF ChildComes
  <1>5. CASE Identified(s, 1)
    BY <1>5, IdentifiedDoes DEF ChildComes
  <1>6. CASE StartFails(s, 1)
    BY <1>6, StartFailsDoes DEF ChildComes, HasToWait, Killed, Gone
  <1>7. CASE AbortSettles(s, 1)
    <2>1. starts[s][1].aborts = 1 /\ procs[s][1] \in {"signalled", "exited", "reaped"}
          /\ starts[s][1].at = "aborting" /\ stops[s].at = "none"
      BY <1>7, AbortSettlesDoes DEF ChildComes
    <2>2. procs' = procs /\ (procs'[s][1] \in Gone \/ Slow)
      BY <1>7, <2>1, AbortSettlesDoes DEF Killed, Gone
    <2>3. /\ starts'[s][1].at = "failed" /\ sup'[s].state = "idle" /\ sup'[s].child = 0
          /\ stops'[s].at = "none"
      BY <1>7, <2>1, AbortSettlesDoes
    <2>4. QED
      BY <2>1, <2>2, <2>3 DEF ChildComes, Gone
  <1>8. QED
    BY <1>1, <1>2, <1>3, <1>4, <1>5, <1>6, <1>7 DEF ChildStep

\* A stop goes on, and ends with the exit of the child or with the wait for it.
LEMMA StopsOn ==
    ASSUME MaxStarts = 1, SupervisorTypeOK, NEW s \in Sups, ChildStep(s), ChildStops(s)
    PROVE  /\ ChildStops(s)'
           /\ stops[s].at = "done" => stops'[s].at = "done"
  <1>1. CASE StopSettles(s)
    <2>1. /\ stops[s].at = "waiting" /\ stops[s].child = 1 /\ starts[s][1].at = "ready"
          /\ procs[s][1] \in {"signalled", "exited", "reaped"}
      BY <1>1, StopSettlesDoes DEF ChildStops
    <2>2. procs' = procs /\ (procs'[s][1] \in Gone \/ Slow)
      BY <1>1, <2>1, StopSettlesDoes DEF Killed, Gone
    <2>3. /\ stops'[s].at = "done" /\ sup'[s].state = "idle" /\ sup'[s].child = 0 /\ starts' = starts
      BY <1>1, StopSettlesDoes
    <2>4. QED
      BY <2>1, <2>2, <2>3 DEF ChildStops, Gone
  <1>2. CASE Exits(s, 1)
    BY <1>2, ExitsDoes DEF ChildStops, Gone
  <1>3. CASE Spawn(s, 1)
    BY <1>3, SpawnDoes DEF ChildStops
  <1>4. CASE Healthy(s, 1)
    BY <1>4, HealthyDoes DEF ChildStops
  <1>5. CASE Identified(s, 1)
    BY <1>5, IdentifiedDoes DEF ChildStops
  <1>6. CASE StartFails(s, 1)
    BY <1>6, StartFailsDoes DEF ChildStops
  <1>7. CASE AbortSettles(s, 1)
    BY <1>7, AbortSettlesDoes DEF ChildStops
  <1>8. QED
    BY <1>1, <1>2, <1>3, <1>4, <1>5, <1>6, <1>7 DEF ChildStep

\* start() of a supervisor that was not started, and stop() of one whose child serves.
LEMMA ChildStarts ==
    ASSUME MaxStarts = 1, SupervisorTypeOK, NEW s \in Sups, Start({s}), ChildUntouched(s)
    PROVE  SupervisorTypeOK' /\ Others(s) /\ ChildComes(s)' /\ procs' = procs
  <1>1. {s} \in SUBSET Sups
    OBVIOUS
  <1>2. /\ SupervisorTypeOK' /\ UNCHANGED <<stops, procs>>
        /\ starts'[s][1].at = "checking"
        /\ sup'[s].state = "starting" /\ sup'[s].child = sup[s].child
        /\ \A t \in Sups \ {s} : starts'[t] = starts[t] /\ sup'[t] = sup[t]
    BY <1>1, StartDoes
  <1>3. Others(s)
    BY <1>2 DEF Others
  <1>4. ChildComes(s)'
    BY <1>2 DEF ChildComes, ChildUntouched
  <1>5. QED
    BY <1>2, <1>3, <1>4

LEMMA ChildIsStopped ==
    ASSUME MaxStarts = 1, SupervisorTypeOK, NEW s \in Sups, Stop({s}), ChildServes(s)
    PROVE  SupervisorTypeOK' /\ Others(s) /\ ChildStops(s)'
  <1>1. {s} \in SUBSET Sups
    OBVIOUS
  <1>2. /\ stops[s].at = "none" /\ starts[s][1].at = "ready"
        /\ sup[s].state = "ready" /\ sup[s].child = 1 /\ procs[s][1] \in {"running", "exited"}
    BY DEF ChildServes, ChildComes
  <1>3. HasToWait(s)
    BY <1>2 DEF HasToWait, Killed
  <1>4. /\ SupervisorTypeOK' /\ starts' = starts
        /\ \A t \in Sups \ {s} : /\ sup'[t] = sup[t] /\ stops'[t] = stops[t]
                                 /\ procs'[t][1] = procs[t][1]
        /\ stops'[s].at = "waiting" /\ stops'[s].child = 1
        /\ sup'[s].state = "stopping" /\ sup'[s].child = 1
        /\ procs'[s][1] = IF procs[s][1] = "running" THEN "signalled" ELSE procs[s][1]
    BY <1>1, <1>3, StopDoes
  <1>5. ASSUME NEW t \in Sups \ {s} PROVE procs'[t] = procs[t]
    <2>1. procs[t] \in [Calls -> ProcessStates]
      BY DEF SupervisorTypeOK
    <2>2. procs'[t] = [n \in Calls |-> procs[t][n]]
      BY DEF Stop
    <2>3. QED
      BY <2>1, <2>2
  <1>6. Others(s)
    BY <1>4, <1>5 DEF Others
  <1>7. ChildStops(s)'
    BY <1>2, <1>4 DEF ChildStops
  <1>8. QED
    BY <1>4, <1>6, <1>7


-----------------------------------------------------------------------------
(* What the operations of the controller do to its fields.                  *)

Controllers == [status : {"idle", "starting", "running", "failed", "stopped"},
                started : Launches \union {0}, tier : Tiers]
Flights == [at : {"none", "resolving", "launching", "checking"}, tier : Tiers,
            launch : Launches \union {0}, attempt : 1 .. MaxAttempts]
Stoppings == [at : {"none", "queued", "closing"}, handle : Launches \union {0}]
LaunchPlaces == {"none", "supervisor", "binding", "connecting", "unwinding", "failed", "up",
                 "lost", "closing", "draining", "reaping", "down"}
LaunchRecords == [tier : Tiers, socket : BOOLEAN, remote : BOOLEAN, at : LaunchPlaces]
Pumps == [running : BOOLEAN, loop : {"none", "reading", "waiting", "ended"},
          failures : 0 .. MaxReconnects]

LEMMA LaunchShape ==
    /\ Calls = {1} /\ MaxStarts = 1 /\ 0 \notin Launches
    /\ MaxAttempts \in Nat \ {0} /\ MaxReconnects \in Nat \ {0}
  BY LifecycleAssumption DEF Calls, Launches

LEMMA LifecycleTypes ==
    ASSUME LifecycleTypeOK
    PROVE  /\ SupervisorTypeOK /\ ctl \in Controllers /\ flight \in Flights /\ stopping \in Stoppings
           /\ launch \in [Launches -> LaunchRecords] /\ pump \in [Launches -> Pumps]
           /\ clients \in [Clients -> {"idle", "stopping", "starting", "done"}]
           /\ proxyPort \in Launches \union {0}
  BY DEF LifecycleTypeOK, Controllers, Flights, Stoppings, LaunchRecords, LaunchPlaces, Pumps

\* A function changed at one place.
LEMMA UpdateOne ==
    ASSUME NEW A, NEW B, NEW f \in [A -> B], NEW a \in A, NEW b \in B
    PROVE  /\ [f EXCEPT ![a] = b] \in [A -> B]
           /\ [f EXCEPT ![a] = b][a] = b
           /\ \A x \in A \ {a} : [f EXCEPT ![a] = b][x] = f[x]
  OBVIOUS

\* A function of which one value changed within its type.
LEMMA TypedUpdate ==
    ASSUME NEW A, NEW B, NEW f \in [A -> B], NEW g, NEW a \in A, g[a] \in B,
           \A x \in A \ {a} : g[x] = f[x], g = [x \in A |-> g[x]]
    PROVE  g \in [A -> B]
  <1>1. \A x \in A : g[x] \in B
    OBVIOUS
  <1>2. QED
    BY <1>1

\* The place of a launch changes, and nothing else of it.
LEMMA LaunchAtDoes ==
    ASSUME launch \in [Launches -> LaunchRecords], NEW l \in Launches, NEW place \in LaunchPlaces,
           LaunchAt(l, place)
    PROVE  /\ launch' \in [Launches -> LaunchRecords]
           /\ launch'[l].at = place /\ launch'[l].tier = launch[l].tier
           /\ launch'[l].socket = launch[l].socket /\ launch'[l].remote = launch[l].remote
           /\ \A k \in Launches \ {l} : launch'[k] = launch[k]
  <1> DEFINE new == [tier |-> launch[l].tier, socket |-> launch[l].socket,
                     remote |-> launch[l].remote, at |-> place]
  <1>1. launch[l] \in LaunchRecords
    OBVIOUS
  <1>2. [launch[l] EXCEPT !.at = place] = new /\ new \in LaunchRecords
    BY <1>1 DEF LaunchRecords
  <1> HIDE DEF new
  <1>3. launch' = [launch EXCEPT ![l] = new]
    BY <1>2 DEF LaunchAt
  <1>4. /\ launch' \in [Launches -> LaunchRecords] /\ launch'[l] = new
        /\ \A k \in Launches \ {l} : launch'[k] = launch[k]
    BY <1>2, <1>3, UpdateOne
  <1>5. QED
    BY <1>4 DEF new

LEMMA InvokeStartDoes ==
    ASSUME LifecycleTypeOK, NEW tier \in Tiers, InvokeStart(tier)
    PROVE  /\ ctl' \in Controllers /\ flight' \in Flights
           /\ ctl'.started = ctl.started /\ ctl'.tier = ctl.tier
           /\ IF flight.at # "none" \/ ctl.status = "running"
              THEN ctl' = ctl /\ flight' = flight
              ELSE /\ ctl'.status = "starting" /\ flight'.at = "resolving"
                   /\ flight'.launch = 0 /\ flight'.tier = tier
  <1>1. ctl \in Controllers /\ flight \in Flights
    BY LifecycleTypes
  <1>2. CASE flight.at # "none" \/ ctl.status = "running"
    BY <1>1, <1>2 DEF InvokeStart
  <1>3. CASE ~(flight.at # "none" \/ ctl.status = "running")
    <2>1. /\ ctl' = [ctl EXCEPT !.status = "starting"]
          /\ flight' = [at |-> "resolving", tier |-> tier, launch |-> 0, attempt |-> 1]
      BY <1>3 DEF InvokeStart
    <2>2. ctl' \in Controllers /\ ctl'.started = ctl.started /\ ctl'.tier = ctl.tier
          /\ ctl'.status = "starting"
      BY <1>1, <2>1 DEF Controllers
    <2>3. flight' \in Flights
      BY <2>1, LaunchShape DEF Flights
    <2>4. QED
      BY <1>3, <2>1, <2>2, <2>3
  <1>4. QED
    BY <1>2, <1>3

LEMMA StartSettlesDoes ==
    ASSUME LifecycleTypeOK, NEW ok \in BOOLEAN, StartSettles(ok)
    PROVE  /\ ctl' \in Controllers /\ flight' \in Flights
           /\ clients' \in [Clients -> {"idle", "stopping", "starting", "done"}]
           /\ flight'.at = "none" /\ flight'.launch = 0
           /\ IF ok THEN /\ ctl'.status = "running" /\ ctl'.started = flight.launch
                         /\ ctl'.tier = flight.tier
              ELSE ctl'.status = "failed" /\ ctl'.started = 0
  <1>1. ctl \in Controllers /\ flight \in Flights
        /\ clients \in [Clients -> {"idle", "stopping", "starting", "done"}]
    BY LifecycleTypes
  <1>2. /\ flight' = [flight EXCEPT !.at = "none", !.launch = 0] /\ clients' = Answered
        /\ ctl' = IF ok THEN [status |-> "running", started |-> flight.launch, tier |-> flight.tier]
                  ELSE [ctl EXCEPT !.status = "failed", !.started = 0]
    BY DEF StartSettles
  <1>3. flight' \in Flights /\ flight'.at = "none" /\ flight'.launch = 0
    BY <1>1, <1>2 DEF Flights
  <1>4. clients' \in [Clients -> {"idle", "stopping", "starting", "done"}]
    BY <1>1, <1>2 DEF Answered
  <1>5. CASE ok
    <2>1. ctl' = [status |-> "running", started |-> flight.launch, tier |-> flight.tier]
      BY <1>2, <1>5
    <2>2. flight.launch \in Launches \union {0} /\ flight.tier \in Tiers
      BY <1>1 DEF Flights
    <2>3. ctl' \in Controllers
      BY <2>1, <2>2 DEF Controllers
    <2>4. QED
      BY <1>3, <1>4, <1>5, <2>1, <2>3
  <1>6. CASE ~ok
    <2>1. ctl' = [ctl EXCEPT !.status = "failed", !.started = 0]
      BY <1>2, <1>6
    <2>2. ctl' \in Controllers /\ ctl'.status = "failed" /\ ctl'.started = 0
      BY <1>1, <2>1 DEF Controllers
    <2>3. QED
      BY <1>3, <1>4, <1>6, <2>2
  <1>7. QED
    BY <1>5, <1>6

LEMMA TakeHandleDoes ==
    ASSUME LifecycleTypeOK, TakeHandle, flight.at = "none"
    PROVE  /\ ctl' \in Controllers /\ stopping' \in Stoppings /\ launch' \in [Launches -> LaunchRecords]
           /\ stopping'.at = "closing" /\ stopping'.handle = ctl.started
           /\ ctl'.started = 0 /\ ctl'.status \in {"failed", "stopped"}
           /\ ctl.started = 0 => launch' = launch
           /\ ctl.started # 0 =>
                /\ launch'[ctl.started].at = "closing"
                /\ launch'[ctl.started].tier = launch[ctl.started].tier
                /\ launch'[ctl.started].socket = launch[ctl.started].socket
                /\ launch'[ctl.started].remote = launch[ctl.started].remote
                /\ \A k \in Launches \ {ctl.started} : launch'[k] = launch[k]
  <1>1. ctl \in Controllers /\ launch \in [Launches -> LaunchRecords]
    BY LifecycleTypes
  <1>2. /\ stopping' = [at |-> "closing", handle |-> ctl.started]
        /\ ctl' = [ctl EXCEPT !.started = 0,
                              !.status = IF ctl.status = "failed" THEN ctl.status ELSE "stopped"]
        /\ launch' = IF ctl.started = 0 THEN launch
                     ELSE [launch EXCEPT ![ctl.started].at = "closing"]
    BY <1>1 DEF TakeHandle, Controllers
  <1>3. ctl.started \in Launches \union {0}
    BY <1>1 DEF Controllers
  <1>4. ctl' \in Controllers /\ ctl'.started = 0 /\ ctl'.status \in {"failed", "stopped"}
    BY <1>1, <1>2 DEF Controllers
  <1>5. stopping' \in Stoppings /\ stopping'.at = "closing" /\ stopping'.handle = ctl.started
    BY <1>2, <1>3 DEF Stoppings
  <1>6. CASE ctl.started = 0
    BY <1>1, <1>2, <1>4, <1>5, <1>6
  <1>7. CASE ctl.started # 0
    <2>1. ctl.started \in Launches /\ "closing" \in LaunchPlaces /\ LaunchAt(ctl.started, "closing")
      BY <1>2, <1>3, <1>7 DEF LaunchAt, LaunchPlaces
    <2>2. QED
      BY <1>1, <1>4, <1>5, <1>7, <2>1, LaunchAtDoes
  <1>8. QED
    BY <1>6, <1>7


-----------------------------------------------------------------------------
(* What keeps the parts of the invariant.                                   *)

Starting == {"supervisor", "binding", "connecting", "unwinding"}
Ending == {"closing", "draining", "reaping"}

\* Nothing of the other launches changes.
OthersRest(l) ==
    Others(l) /\ \A k \in Launches \ {l} : launch'[k] = launch[k] /\ pump'[k] = pump[k]

LEMMA OthersFollow ==
    ASSUME LifecycleIInv, NEW l \in Launches, NEW k \in Launches \ {l}, OthersRest(l)
    PROVE  ChildFollows(k)' /\ PartsFollow(k)'
  <1>1. /\ launch'[k] = launch[k] /\ pump'[k] = pump[k]
        /\ sup'[k] = sup[k] /\ starts'[k] = starts[k] /\ stops'[k] = stops[k] /\ procs'[k] = procs[k]
    BY DEF OthersRest, Others, Launches
  <1>2. ChildFollows(k) /\ PartsFollow(k)
    BY DEF LifecycleIInv
  <1>3. PartsFollow(k)'
    BY <1>1, <1>2 DEF PartsFollow
  <1>4. ChildFollows(k)'
    BY <1>1, <1>2 DEF ChildFollows, ChildUntouched, ChildComes, ChildServes, ChildStops
  <1>5. QED
    BY <1>3, <1>4

LEMMA NothingFollows ==
    ASSUME LifecycleIInv, UNCHANGED <<launch, pump, supervisorVars>>
    PROVE  \A k \in Launches : ChildFollows(k)' /\ PartsFollow(k)'
  BY DEF LifecycleIInv, PartsFollow, ChildFollows, ChildUntouched, ChildComes, ChildServes, ChildStops,
         supervisorVars

\* The child of a launch is left alone, and the launch needs it where it is.
LEMMA ChildRests ==
    ASSUME NEW l \in Launches, UNCHANGED supervisorVars
    PROVE  /\ Others(l)
           /\ ChildUntouched(l) => ChildUntouched(l)'
           /\ ChildComes(l) => ChildComes(l)'
           /\ ChildServes(l) => ChildServes(l)'
           /\ ChildStops(l) => ChildStops(l)'
           /\ starts'[l][1].at = starts[l][1].at /\ stops'[l].at = stops[l].at
  BY DEF supervisorVars, Others, ChildUntouched, ChildComes, ChildServes, ChildStops

\* A launch goes from one place of its start to another, or from one of its teardown.
LEMMA ShellKeeps ==
    ASSUME LifecycleIInv, NEW l \in Launches, UNCHANGED shellVars,
           launch'[l].tier = launch[l].tier, \A k \in Launches \ {l} : launch'[k] = launch[k],
           \/ launch[l].at \in Starting /\ launch'[l].at \in Starting
           \/ launch[l].at \in Ending /\ launch'[l].at \in Ending \union {"down"}
    PROVE  ShellHolds' /\ \A k \in Launches : HeldByShell(k)'
  <1>1. /\ ctl \in Controllers /\ flight \in Flights /\ stopping \in Stoppings
        /\ ShellHolds /\ (\A k \in Launches : HeldByShell(k))
        /\ ctl' = ctl /\ flight' = flight /\ stopping' = stopping
    BY LifecycleTypes DEF LifecycleIInv, shellVars
  <1>2. /\ ctl.started \in Launches \union {0} /\ flight.launch \in Launches \union {0}
        /\ stopping.handle \in Launches \union {0}
    BY <1>1 DEF Controllers, Flights, Stoppings
  <1>3. ShellHolds'
    BY <1>1, <1>2 DEF ShellHolds, Starting, Ending
  <1>4. ASSUME NEW k \in Launches PROVE HeldByShell(k)'
    BY <1>1, <1>4 DEF HeldByShell, Starting, Ending
  <1>5. QED
    BY <1>3, <1>4

LEMMA ProxyKeeps ==
    ASSUME LifecycleIInv, NEW l \in Launches, proxyPort' = proxyPort,
           \A k \in Launches \ {l} : launch'[k] = launch[k],
           \/ /\ launch[l].at \in Starting \union {"up", "closing"}
              /\ launch'[l].at \in Starting \union {"up", "closing", "failed", "lost"}
           \/ launch[l].at \in {"draining", "reaping"} /\ launch'[l].at \in {"draining", "reaping", "down"}
    PROVE  ProxyFollows'
  <1>1. ProxyFollows /\ proxyPort \in Launches \union {0}
    BY LifecycleTypes DEF LifecycleIInv
  <1>2. QED
    BY <1>1 DEF ProxyFollows, Starting

\* A step on one launch keeps the invariant if it keeps it for that launch.
LEMMA LaunchKeeps ==
    ASSUME LifecycleIInv, NEW l \in Launches, OthersRest(l), LifecycleTypeOK',
           ChildFollows(l)', PartsFollow(l)', ShellHolds', ProxyFollows',
           \A k \in Launches : HeldByShell(k)'
    PROVE  LifecycleIInv'
  <1>1. \A k \in Launches : ChildFollows(k)' /\ PartsFollow(k)'
    BY OthersFollow
  <1>2. QED
    BY <1>1 DEF LifecycleIInv

-----------------------------------------------------------------------------
(* The steps of the controller.                                             *)

LEMMA BootInv ==
    ASSUME LifecycleIInv, Boot
    PROVE  LifecycleIInv'
  <1>1. /\ ctl.status = "idle" /\ InvokeStart("settings_only") /\ "settings_only" \in Tiers
        /\ UNCHANGED <<stopping, clients, app, launch, pump, proxyPort, supervisorVars>>
    BY DEF Boot, Tiers, launchVars
  <1>2. /\ LifecycleTypeOK /\ ShellHolds /\ ProxyFollows
        /\ \A k \in Launches : HeldByShell(k) /\ ChildFollows(k) /\ PartsFollow(k)
    BY DEF LifecycleIInv
  <1>3. /\ flight.at = "none" /\ flight.launch = 0 /\ ctl.started = 0
        /\ stopping.at = "none" /\ stopping.handle = 0
    BY <1>1, <1>2 DEF ShellHolds
  <1>4. /\ ctl' \in Controllers /\ flight' \in Flights
        /\ ctl'.started = 0 /\ ctl'.status = "starting"
        /\ flight'.at = "resolving" /\ flight'.launch = 0
    BY <1>1, <1>2, <1>3, InvokeStartDoes
  <1>5. LifecycleTypeOK'
    BY <1>1, <1>2, <1>4 DEF LifecycleTypeOK, Controllers, Flights, SupervisorTypeOK, supervisorVars
  <1>6. ShellHolds'
    BY <1>1, <1>2, <1>3, <1>4 DEF ShellHolds
  <1>7. \A k \in Launches : HeldByShell(k)'
    BY <1>1, <1>2, <1>3, LaunchShape DEF HeldByShell
  <1>8. ProxyFollows'
    BY <1>1, <1>2 DEF ProxyFollows
  <1>9. QED
    BY <1>1, <1>5, <1>6, <1>7, <1>8, NothingFollows DEF LifecycleIInv

\* A stop with no start in flight takes the handle there is.
LEMMA TakeHandleInv ==
    ASSUME LifecycleIInv, TakeHandle, stopping.at # "closing", ctl.status # "idle",
           UNCHANGED <<flight, pump, proxyPort, supervisorVars>>
    PROVE  /\ ctl' \in Controllers /\ stopping' \in Stoppings /\ launch' \in [Launches -> LaunchRecords]
           /\ ShellHolds' /\ ProxyFollows'
           /\ \A k \in Launches : HeldByShell(k)' /\ ChildFollows(k)' /\ PartsFollow(k)'
  <1>1. /\ LifecycleTypeOK /\ ShellHolds /\ ProxyFollows
        /\ \A k \in Launches : HeldByShell(k) /\ ChildFollows(k) /\ PartsFollow(k)
    BY DEF LifecycleIInv
  <1>2. ctl \in Controllers /\ stopping \in Stoppings /\ launch \in [Launches -> LaunchRecords]
        /\ ctl.started \in Launches \union {0} /\ flight.launch \in Launches \union {0}
    BY <1>1, LifecycleTypes DEF Controllers, Flights
  <1>3. stopping.handle = 0
    BY <1>1 DEF ShellHolds
  <1>4. CASE flight.at # "none"
    <2>1. stopping' = [at |-> "queued", handle |-> 0] /\ UNCHANGED <<ctl, launch>>
      BY <1>4 DEF TakeHandle
    <2>2. stopping' \in Stoppings /\ stopping'.at = "queued" /\ stopping'.handle = 0
      BY <2>1 DEF Stoppings
    <2>3. ShellHolds'
      BY <1>1, <2>1, <2>2 DEF ShellHolds
    <2>4. \A k \in Launches : HeldByShell(k)'
      BY <1>1, <1>3, <2>1, <2>2 DEF HeldByShell
    <2>5. ProxyFollows'
      BY <1>1, <2>1 DEF ProxyFollows
    <2>6. QED
      BY <1>2, <2>1, <2>2, <2>3, <2>4, <2>5, NothingFollows
  <1>5. CASE flight.at = "none" /\ ctl.started = 0
    <2>1. /\ ctl' \in Controllers /\ stopping' \in Stoppings /\ launch' = launch
          /\ stopping'.at = "closing" /\ stopping'.handle = 0
          /\ ctl'.started = 0 /\ ctl'.status \in {"failed", "stopped"}
      BY <1>1, <1>5, TakeHandleDoes
    <2>2. ShellHolds'
      BY <1>1, <1>5, <2>1 DEF ShellHolds
    <2>3. \A k \in Launches : HeldByShell(k)'
      BY <1>1, <1>3, <1>5, <2>1 DEF HeldByShell
    <2>4. ProxyFollows'
      BY <1>1, <2>1 DEF ProxyFollows
    <2>5. QED
      BY <1>2, <2>1, <2>2, <2>3, <2>4, NothingFollows
  <1>6. CASE flight.at = "none" /\ ctl.started # 0
    <2>0. PICK l \in Launches : l = ctl.started
      BY <1>2, <1>6
    <2>1. /\ ctl' \in Controllers /\ stopping' \in Stoppings /\ launch' \in [Launches -> LaunchRecords]
          /\ stopping'.at = "closing" /\ stopping'.handle = l
          /\ ctl'.started = 0 /\ ctl'.status \in {"failed", "stopped"}
          /\ launch'[l].at = "closing" /\ launch'[l].tier = launch[l].tier
          /\ launch'[l].socket = launch[l].socket /\ launch'[l].remote = launch[l].remote
          /\ \A k \in Launches \ {l} : launch'[k] = launch[k]
      BY <1>1, <1>6, <2>0, TakeHandleDoes
    <2>2. launch[l].at = "up" /\ flight.launch = 0
      BY <1>1, <1>2, <1>6, <2>0 DEF ShellHolds
    <2>3. OthersRest(l)
      BY <2>1, <2>2, ChildRests DEF OthersRest
    <2>4. ShellHolds'
      BY <1>1, <1>6, <2>1, <2>2 DEF ShellHolds
    <2>5. \A k \in Launches : HeldByShell(k)'
      BY <1>1, <1>3, <1>6, <2>0, <2>1, <2>2, LaunchShape DEF HeldByShell
    <2>6. ProxyFollows'
      BY <2>1, <2>2, ProxyKeeps
    <2>7. ChildFollows(l)'
      BY <1>1, <2>1, <2>2, ChildRests DEF ChildFollows
    <2>8. PartsFollow(l)'
      BY <1>1, <2>1, <2>2 DEF PartsFollow
    <2>9. QED
      BY <2>1, <2>2, <2>3, <2>4, <2>5, <2>6, <2>7, <2>8, OthersFollow
  <1>7. QED
    BY <1>2, <1>4, <1>5, <1>6


\* What else changes when a stop takes the handle has only to keep its type.
LEMMA StopTakesInv ==
    ASSUME LifecycleIInv, TakeHandle, stopping.at # "closing", ctl.status # "idle",
           UNCHANGED <<flight, pump, proxyPort, supervisorVars>>,
           clients' \in [Clients -> {"idle", "stopping", "starting", "done"}],
           app' \in {"open", "stopping", "quitting", "gone"}
    PROVE  LifecycleIInv'
  <1>1. /\ ctl' \in Controllers /\ stopping' \in Stoppings /\ launch' \in [Launches -> LaunchRecords]
        /\ ShellHolds' /\ ProxyFollows'
        /\ \A k \in Launches : HeldByShell(k)' /\ ChildFollows(k)' /\ PartsFollow(k)'
    BY TakeHandleInv
  <1>2. LifecycleTypeOK'
    BY <1>1 DEF LifecycleIInv, LifecycleTypeOK, Controllers, Stoppings, LaunchRecords, LaunchPlaces,
                SupervisorTypeOK, supervisorVars
  <1>3. QED
    BY <1>1, <1>2 DEF LifecycleIInv

\* Calls and the app change, and nothing else.
LEMMA CallersInv ==
    ASSUME LifecycleIInv, UNCHANGED <<ctl, flight, stopping, launchVars, supervisorVars>>,
           clients' \in [Clients -> {"idle", "stopping", "starting", "done"}],
           app' \in {"open", "stopping", "quitting", "gone"}
    PROVE  LifecycleIInv'
  <1>1. UNCHANGED <<ctl, flight, stopping, launch, pump, proxyPort, supervisorVars>>
    BY DEF launchVars
  <1>2. LifecycleTypeOK'
    BY <1>1 DEF LifecycleIInv, LifecycleTypeOK, SupervisorTypeOK, supervisorVars
  <1>3. ShellHolds' /\ \A k \in Launches : HeldByShell(k)'
    BY <1>1 DEF LifecycleIInv, ShellHolds, HeldByShell
  <1>4. ProxyFollows'
    BY <1>1 DEF LifecycleIInv, ProxyFollows
  <1>5. QED
    BY <1>1, <1>2, <1>3, <1>4, NothingFollows DEF LifecycleIInv

\* stop() is called: it takes the handle, or joins the stop under way.
LEMMA CallStopInv ==
    ASSUME LifecycleIInv, CallStop, ctl.status # "idle",
           UNCHANGED <<flight, pump, proxyPort, supervisorVars>>,
           clients' \in [Clients -> {"idle", "stopping", "starting", "done"}],
           app' \in {"open", "stopping", "quitting", "gone"}
    PROVE  LifecycleIInv'
  <1>1. CASE stopping.at = "none"
    BY <1>1, StopTakesInv DEF CallStop
  <1>2. CASE stopping.at # "none"
    <2>1. UNCHANGED <<ctl, flight, stopping, launchVars, supervisorVars>>
      BY <1>2 DEF CallStop, launchVars
    <2>2. QED
      BY <2>1, CallersInv
  <1>3. QED
    BY <1>1, <1>2

LEMMA StopProceedsInv ==
    ASSUME LifecycleIInv, StopProceeds
    PROVE  LifecycleIInv'
  <1>1. /\ stopping.at = "queued" /\ TakeHandle
        /\ UNCHANGED <<flight, pump, proxyPort, supervisorVars>> /\ clients' = clients /\ app' = app
    BY DEF StopProceeds
  <1>2. /\ ctl.status # "idle"
        /\ clients' \in [Clients -> {"idle", "stopping", "starting", "done"}]
        /\ app' \in {"open", "stopping", "quitting", "gone"}
    BY <1>1 DEF LifecycleIInv, LifecycleTypeOK, ShellHolds
  <1>3. QED
    BY <1>1, <1>2, StopTakesInv

LEMMA ConnectLiveInv ==
    ASSUME LifecycleIInv, NEW c \in Clients, NEW force \in BOOLEAN, ConnectLive(c, force)
    PROVE  LifecycleIInv'
  <1>1. /\ clients \in [Clients -> {"idle", "stopping", "starting", "done"}]
        /\ app \in {"open", "stopping", "quitting", "gone"}
    BY DEF LifecycleIInv, LifecycleTypeOK
  <1>2. /\ ctl.status # "idle" /\ UNCHANGED <<flight, app, pump, proxyPort, supervisorVars>>
        /\ \/ clients' = [clients EXCEPT ![c] = "done"] /\ UNCHANGED <<ctl, stopping, launch>>
           \/ clients' = [clients EXCEPT ![c] = "stopping"] /\ CallStop
    BY DEF ConnectLive
  <1>3. /\ clients' \in [Clients -> {"idle", "stopping", "starting", "done"}]
        /\ app' \in {"open", "stopping", "quitting", "gone"}
    BY <1>1, <1>2
  <1>4. CASE UNCHANGED <<ctl, stopping, launch>>
    BY <1>2, <1>3, <1>4, CallersInv DEF launchVars
  <1>5. CASE CallStop
    BY <1>2, <1>3, <1>5, CallStopInv
  <1>6. QED
    BY <1>2, <1>4, <1>5

LEMMA QuitsInv ==
    ASSUME LifecycleIInv, BeforeQuit \/ Quit
    PROVE  LifecycleIInv'
  <1>1. clients \in [Clients -> {"idle", "stopping", "starting", "done"}]
    BY DEF LifecycleIInv, LifecycleTypeOK
  <1>2. CASE BeforeQuit
    BY <1>1, <1>2, CallStopInv DEF BeforeQuit
  <1>3. CASE Quit
    BY <1>1, <1>3, CallersInv DEF Quit
  <1>4. QED
    BY <1>2, <1>3

LEMMA StopReturnsInv ==
    ASSUME LifecycleIInv, StopReturns
    PROVE  LifecycleIInv'
  <1>1. /\ stopping.at = "closing" /\ (stopping.handle # 0 => launch[stopping.handle].at = "down")
        /\ stopping' = [at |-> "none", handle |-> 0]
        /\ UNCHANGED <<launch, pump, proxyPort, supervisorVars>>
        /\ clients' = [c \in Clients |-> IF clients[c] = "stopping" THEN "starting" ELSE clients[c]]
        /\ app' = IF app = "stopping" THEN "quitting" ELSE app
        /\ InvokeStart("live") \/ UNCHANGED <<ctl, flight>>
    BY DEF StopReturns, launchVars
  <1>2. /\ LifecycleTypeOK /\ ShellHolds /\ ProxyFollows
        /\ \A k \in Launches : HeldByShell(k) /\ ChildFollows(k) /\ PartsFollow(k)
    BY DEF LifecycleIInv
  <1>3. /\ flight.at = "none" /\ ctl.started = 0 /\ flight.launch = 0 /\ ctl.status # "running"
        /\ ctl.status # "idle"
    BY <1>1, <1>2 DEF ShellHolds
  <1>4. stopping' \in Stoppings /\ stopping'.at = "none" /\ stopping'.handle = 0
    BY <1>1 DEF Stoppings
  <1>5. /\ clients' \in [Clients -> {"idle", "stopping", "starting", "done"}]
        /\ app' \in {"open", "stopping", "quitting", "gone"}
    BY <1>1, <1>2 DEF LifecycleTypeOK
  <1>6. /\ ctl' \in Controllers /\ flight' \in Flights /\ ctl'.started = 0 /\ flight'.launch = 0
        /\ \/ flight'.at = "resolving" /\ ctl'.status = "starting"
           \/ flight'.at = "none" /\ ctl'.status = ctl.status
    <2>1. CASE InvokeStart("live")
      <3>1. "live" \in Tiers
        BY DEF Tiers
      <3>2. QED
        BY <1>2, <1>3, <2>1, <3>1, InvokeStartDoes
    <2>2. CASE UNCHANGED <<ctl, flight>>
      BY <1>2, <1>3, <2>2, LifecycleTypes
    <2>3. QED
      BY <1>1, <2>1, <2>2
  <1>7. LifecycleTypeOK'
    BY <1>1, <1>2, <1>4, <1>5, <1>6
       DEF LifecycleTypeOK, Controllers, Flights, Stoppings, SupervisorTypeOK, supervisorVars
  <1>8. ShellHolds'
    BY <1>2, <1>3, <1>4, <1>6 DEF ShellHolds
  <1>9. ASSUME NEW k \in Launches PROVE HeldByShell(k)'
    <2>1. launch[k].at \notin {"supervisor", "binding", "connecting", "unwinding", "up"}
      BY <1>2, <1>3, LaunchShape DEF HeldByShell
    <2>2. launch[k].at \notin {"closing", "draining", "reaping"}
      BY <1>1, <1>2, LaunchShape DEF HeldByShell
    <2>3. QED
      BY <1>1, <2>1, <2>2 DEF HeldByShell
  <1>10. ProxyFollows'
    BY <1>1, <1>2 DEF ProxyFollows
  <1>11. QED
    BY <1>1, <1>7, <1>8, <1>9, <1>10, NothingFollows DEF LifecycleIInv


-----------------------------------------------------------------------------
(* The steps of a start.                                                    *)

\* A start that settles on a failure holds nothing any more.
LEMMA NotConfiguredInv ==
    ASSUME LifecycleIInv, NotConfigured
    PROVE  LifecycleIInv'
  <1>1. /\ flight.at = "resolving" /\ StartSettles(FALSE) /\ FALSE \in BOOLEAN
        /\ UNCHANGED <<stopping, app, launch, pump, proxyPort, supervisorVars>>
    BY DEF NotConfigured, launchVars
  <1>2. /\ LifecycleTypeOK /\ ShellHolds /\ ProxyFollows
        /\ \A k \in Launches : HeldByShell(k) /\ ChildFollows(k) /\ PartsFollow(k)
    BY DEF LifecycleIInv
  <1>3. ctl.started = 0 /\ stopping.at # "closing" /\ stopping.handle = 0
    BY <1>1, <1>2 DEF ShellHolds
  <1>4. /\ ctl' \in Controllers /\ flight' \in Flights
        /\ clients' \in [Clients -> {"idle", "stopping", "starting", "done"}]
        /\ flight'.at = "none" /\ flight'.launch = 0 /\ ctl'.status = "failed" /\ ctl'.started = 0
    BY <1>1, <1>2, StartSettlesDoes
  <1>5. LifecycleTypeOK'
    BY <1>1, <1>2, <1>4 DEF LifecycleTypeOK, Controllers, Flights, SupervisorTypeOK, supervisorVars
  <1>6. ShellHolds'
    BY <1>1, <1>2, <1>3, <1>4 DEF ShellHolds
  <1>7. \A k \in Launches : HeldByShell(k)'
    BY <1>1, <1>2, <1>3, LaunchShape DEF HeldByShell
  <1>8. ProxyFollows'
    BY <1>1, <1>2 DEF ProxyFollows
  <1>9. QED
    BY <1>1, <1>5, <1>6, <1>7, <1>8, NothingFollows DEF LifecycleIInv

\* A launch fails when its child is not there, or not any more.
LEMMA LaunchFailsInv ==
    ASSUME LifecycleIInv, NEW l \in Launches, NEW retry \in BOOLEAN, LaunchFails(l, retry),
           launch[l].at \in {"supervisor", "binding", "unwinding"},
           \/ launch[l].tier = "settings_only"
           \/ ChildComes(l) /\ starts[l][1].at = "failed"
           \/ ChildStops(l) /\ stops[l].at = "done",
           UNCHANGED <<stopping, app, pump, proxyPort, supervisorVars>>
    PROVE  LifecycleIInv'
  <1>1. /\ LifecycleTypeOK /\ ShellHolds /\ ProxyFollows
        /\ \A k \in Launches : HeldByShell(k) /\ ChildFollows(k) /\ PartsFollow(k)
    BY DEF LifecycleIInv
  <1>2. /\ flight.at = "launching" /\ flight.launch = l
        /\ ctl.status = "starting" /\ ctl.started = 0 /\ stopping.at # "closing" /\ stopping.handle = 0
    BY <1>1 DEF ShellHolds, HeldByShell
  <1>3. /\ ctl \in Controllers /\ flight \in Flights /\ launch \in [Launches -> LaunchRecords]
        /\ clients \in [Clients -> {"idle", "stopping", "starting", "done"}]
    BY <1>1, LifecycleTypes
  <1>4. /\ launch' \in [Launches -> LaunchRecords]
        /\ launch'[l].at = "failed" /\ launch'[l].tier = launch[l].tier
        /\ launch'[l].socket = launch[l].socket /\ launch'[l].remote = launch[l].remote
        /\ \A k \in Launches \ {l} : launch'[k] = launch[k]
    <2>1. LaunchAt(l, "failed") /\ "failed" \in LaunchPlaces
      BY DEF LaunchFails, LaunchPlaces
    <2>2. QED
      BY <1>3, <2>1, LaunchAtDoes
  <1>5. /\ ctl' \in Controllers /\ flight' \in Flights
        /\ clients' \in [Clients -> {"idle", "stopping", "starting", "done"}]
        /\ ctl'.started = 0 /\ flight'.launch = 0
        /\ \/ flight'.at = "resolving" /\ ctl'.status = "starting"
           \/ flight'.at = "none" /\ ctl'.status = "failed"
    <2>1. CASE StartSettles(FALSE)
      BY <1>1, <2>1, StartSettlesDoes
    <2>2. CASE /\ flight.attempt < MaxAttempts /\ UNCHANGED <<ctl, clients>>
               /\ flight' = [flight EXCEPT !.at = "resolving", !.launch = 0, !.attempt = flight.attempt + 1]
      <3>1. flight.attempt \in 1 .. MaxAttempts /\ flight.attempt + 1 \in 1 .. MaxAttempts
        BY <1>3, <2>2, LaunchShape DEF Flights
      <3>2. flight' \in Flights /\ flight'.at = "resolving" /\ flight'.launch = 0
        BY <1>3, <2>2, <3>1 DEF Flights
      <3>3. QED
        BY <1>2, <1>3, <2>2, <3>2
    <2>3. QED
      BY <1>3, <2>1, <2>2 DEF LaunchFails, Flights
  <1>6. LifecycleTypeOK'
    BY <1>1, <1>4, <1>5 DEF LifecycleTypeOK, Controllers, Flights, LaunchRecords, LaunchPlaces,
                            SupervisorTypeOK, supervisorVars
  <1>7. ShellHolds'
    BY <1>1, <1>2, <1>5 DEF ShellHolds
  <1>8. ASSUME NEW k \in Launches PROVE HeldByShell(k)'
    BY <1>1, <1>2, <1>4, LaunchShape DEF HeldByShell
  <1>9. ProxyFollows'
    BY <1>4, ProxyKeeps DEF Starting
  <1>10. OthersRest(l)
    BY <1>4, ChildRests DEF OthersRest
  <1>11. ChildFollows(l)'
    <2>1. launch[l].tier = "settings_only" => ChildUntouched(l)
      BY <1>1 DEF ChildFollows
    <2>2. QED
      BY <1>4, <2>1, ChildRests DEF ChildFollows
  <1>12. PartsFollow(l)'
    BY <1>1, <1>4 DEF PartsFollow
  <1>13. QED
    BY <1>6, <1>7, <1>8, <1>9, <1>10, <1>11, <1>12, LaunchKeeps

LEMMA ComposeInv ==
    ASSUME LifecycleIInv, Compose
    PROVE  LifecycleIInv'
  <1>1. /\ LifecycleTypeOK /\ ShellHolds /\ ProxyFollows
        /\ \A k \in Launches : HeldByShell(k) /\ ChildFollows(k) /\ PartsFollow(k)
    BY DEF LifecycleIInv
  <1>2. PICK l \in Launches : l = NextLaunch /\ launch[l].at = "none"
    BY DEF Compose, NoneLeft, NextLaunch
  <1> DEFINE new == [tier |-> flight.tier, socket |-> FALSE, remote |-> FALSE,
                     at |-> IF flight.tier = "live" THEN "supervisor" ELSE "binding"]
  <1>3. /\ flight.at = "resolving" /\ flight' = [flight EXCEPT !.at = "launching", !.launch = l]
        /\ proxyPort' = IF proxyPort = 0 THEN l ELSE proxyPort
        /\ launch' = [launch EXCEPT ![l] = new]
        /\ IF flight.tier = "live" THEN Start({l}) ELSE UNCHANGED supervisorVars
        /\ UNCHANGED <<ctl, stopping, clients, app, pump>>
    BY <1>2 DEF Compose
  <1>4. /\ ctl.status = "starting" /\ ctl.started = 0 /\ flight.launch = 0
        /\ stopping.at # "closing" /\ stopping.handle = 0
    BY <1>1, <1>3 DEF ShellHolds
  <1>5. /\ flight \in Flights /\ launch \in [Launches -> LaunchRecords] /\ proxyPort \in Launches \union {0}
        /\ SupervisorTypeOK /\ MaxStarts = 1 /\ l \in Sups
    BY <1>1, LifecycleTypes, LaunchShape DEF Launches
  <1>6. flight.tier \in Tiers
    BY <1>5 DEF Flights
  <1>7. new \in LaunchRecords
    BY <1>6 DEF LaunchRecords, LaunchPlaces
  <1>8. /\ launch' \in [Launches -> LaunchRecords] /\ \A k \in Launches \ {l} : launch'[k] = launch[k]
        /\ launch'[l].tier = flight.tier /\ launch'[l].socket = FALSE /\ launch'[l].remote = FALSE
        /\ launch'[l].at = IF flight.tier = "live" THEN "supervisor" ELSE "binding"
    <2>1. launch'[l] = new /\ launch' \in [Launches -> LaunchRecords]
          /\ \A k \in Launches \ {l} : launch'[k] = launch[k]
      BY <1>3, <1>5, <1>7, UpdateOne
    <2>2. QED
      BY <2>1
  <1> HIDE DEF new
  <1>9. /\ flight' \in Flights /\ flight'.at = "launching" /\ flight'.launch = l
        /\ flight'.tier = flight.tier
    BY <1>3, <1>5 DEF Flights
  <1>10. ChildUntouched(l)
    BY <1>1, <1>2 DEF ChildFollows
  <1>11. SupervisorTypeOK' /\ Others(l) /\ IF flight.tier = "live" THEN ChildComes(l)' ELSE ChildUntouched(l)'
    <2>1. CASE flight.tier = "live"
      BY <1>3, <1>5, <1>10, <2>1, ChildStarts
    <2>2. CASE flight.tier # "live"
      <3>1. UNCHANGED supervisorVars
        BY <1>3, <2>2
      <3>2. SupervisorTypeOK'
        BY <1>5, <3>1 DEF SupervisorTypeOK, supervisorVars
      <3>3. QED
        BY <1>10, <2>2, <3>1, <3>2, ChildRests
    <2>3. QED
      BY <2>1, <2>2
  <1>12. LifecycleTypeOK'
    BY <1>1, <1>3, <1>5, <1>8, <1>9, <1>11
       DEF LifecycleTypeOK, Flights, LaunchRecords, LaunchPlaces
  <1>13. ShellHolds'
    BY <1>1, <1>3, <1>4, <1>8, <1>9, LaunchShape DEF ShellHolds
  <1>14. ASSUME NEW k \in Launches PROVE HeldByShell(k)'
    BY <1>1, <1>3, <1>4, <1>8, <1>9, LaunchShape DEF HeldByShell
  <1>15. ProxyFollows'
    <2>1. CASE \E k \in Launches : launch[k].at \in {"failed", "lost"}
      <3>1. \E k \in Launches : launch'[k].at \in {"failed", "lost"}
        BY <1>2, <1>8, <2>1
      <3>2. proxyPort' # 0 => launch'[proxyPort'].at \in Starting \union {"up", "closing", "failed", "lost"}
        BY <1>1, <1>2, <1>3, <1>5, <1>8 DEF ProxyFollows, Starting
      <3>3. QED
        BY <3>1, <3>2 DEF ProxyFollows, Starting
    <2>2. CASE \A k \in Launches : launch[k].at \notin {"failed", "lost"}
      <3>1. ASSUME NEW k \in Launches
            PROVE  launch[k].at \notin {"supervisor", "binding", "connecting", "unwinding", "up", "closing"}
        BY <1>1, <1>3, <1>4, LaunchShape DEF HeldByShell
      <3>2. proxyPort = 0
        BY <1>1, <1>5, <2>2, <3>1 DEF ProxyFollows
      <3>3. QED
        BY <1>3, <1>8, <3>1, <3>2 DEF ProxyFollows
    <2>3. QED
      BY <2>1, <2>2
  <1>16. OthersRest(l)
    BY <1>3, <1>8, <1>11 DEF OthersRest
  <1>17. ChildFollows(l)'
    BY <1>6, <1>8, <1>11 DEF ChildFollows, Tiers
  <1>18. PartsFollow(l)'
    <2>1. pump'[l] = pump[l] /\ pump[l].loop = "none" /\ pump[l].running = FALSE
      <3>1. pump[l] \in Pumps
        BY <1>1, LifecycleTypes
      <3>2. QED
        BY <1>1, <1>2, <1>3, <3>1 DEF PartsFollow, Pumps
    <2>2. QED
      BY <1>6, <1>8, <2>1 DEF PartsFollow, Tiers
  <1>19. QED
    BY <1>12, <1>13, <1>14, <1>15, <1>16, <1>17, <1>18, LaunchKeeps


LEMMA ChildReadyInv ==
    ASSUME LifecycleIInv, NEW l \in Launches, ChildReady(l)
    PROVE  LifecycleIInv'
  <1>1. /\ LifecycleTypeOK /\ ChildFollows(l) /\ PartsFollow(l)
        /\ launch \in [Launches -> LaunchRecords]
    BY LifecycleTypes DEF LifecycleIInv
  <1>2. /\ launch[l].at = "supervisor" /\ starts[l][1].at = "ready" /\ LaunchAt(l, "binding")
        /\ "binding" \in LaunchPlaces /\ UNCHANGED <<shellVars, pump, proxyPort, supervisorVars>>
    BY DEF ChildReady, LaunchPlaces
  <1>3. /\ launch' \in [Launches -> LaunchRecords]
        /\ launch'[l].at = "binding" /\ launch'[l].tier = launch[l].tier
        /\ launch'[l].socket = launch[l].socket /\ launch'[l].remote = launch[l].remote
        /\ \A k \in Launches \ {l} : launch'[k] = launch[k]
    BY <1>1, <1>2, LaunchAtDoes
  <1>4. LifecycleTypeOK'
    BY <1>1, <1>2, <1>3 DEF LifecycleTypeOK, LaunchRecords, LaunchPlaces, SupervisorTypeOK,
                            supervisorVars, shellVars
  <1>5. ShellHolds' /\ \A k \in Launches : HeldByShell(k)'
    BY <1>2, <1>3, ShellKeeps DEF Starting
  <1>6. ProxyFollows'
    BY <1>2, <1>3, ProxyKeeps DEF Starting
  <1>7. OthersRest(l)
    BY <1>2, <1>3, ChildRests DEF OthersRest
  <1>8. ChildFollows(l)'
    <2>1. ChildServes(l)
      BY <1>1, <1>2 DEF ChildFollows, PartsFollow, ChildServes
    <2>2. launch[l].tier = "live"
      BY <1>1, <1>2 DEF PartsFollow
    <2>3. QED
      BY <1>2, <1>3, <2>1, <2>2, ChildRests DEF ChildFollows
  <1>9. PartsFollow(l)'
    BY <1>1, <1>2, <1>3 DEF PartsFollow
  <1>10. QED
    BY <1>4, <1>5, <1>6, <1>7, <1>8, <1>9, LaunchKeeps

LEMMA ChildFailedInv ==
    ASSUME LifecycleIInv, NEW l \in Launches, NEW retry \in BOOLEAN, ChildFailed(l, retry)
    PROVE  LifecycleIInv'
  <1>1. /\ launch[l].at = "supervisor" /\ starts[l][1].at = "failed" /\ LaunchFails(l, retry)
        /\ UNCHANGED <<stopping, app, pump, proxyPort, supervisorVars>>
    BY DEF ChildFailed
  <1>2. ChildComes(l)
    BY <1>1 DEF LifecycleIInv, ChildFollows, PartsFollow
  <1>3. QED
    BY <1>1, <1>2, LaunchFailsInv

LEMMA UnwoundInv ==
    ASSUME LifecycleIInv, NEW l \in Launches, NEW retry \in BOOLEAN, Unwound(l, retry)
    PROVE  LifecycleIInv'
  <1>1. /\ launch[l].at = "unwinding" /\ stops[l].at = "done" /\ LaunchFails(l, retry)
        /\ UNCHANGED <<stopping, app, pump, proxyPort, supervisorVars>>
    BY DEF Unwound
  <1>2. ChildStops(l)
    BY <1>1 DEF LifecycleIInv, ChildFollows, PartsFollow
  <1>3. QED
    BY <1>1, <1>2, LaunchFailsInv

\* The socket could not be opened: a child that was started is stopped.
LEMMA BindFailsInv ==
    ASSUME LifecycleIInv, NEW l \in Launches, BindFails(l)
    PROVE  LifecycleIInv'
  <1>1. /\ LifecycleTypeOK /\ SupervisorTypeOK /\ ChildFollows(l) /\ PartsFollow(l)
        /\ launch \in [Launches -> LaunchRecords]
    BY LifecycleTypes DEF LifecycleIInv
  <1>2. launch[l].at = "binding" /\ UNCHANGED <<stopping, app, pump, proxyPort>>
    BY DEF BindFails
  <1>3. CASE launch[l].tier # "live"
    <2>1. launch[l].tier = "settings_only"
      BY <1>1, <1>3 DEF LaunchRecords, Tiers
    <2>2. LaunchFails(l, FALSE) /\ UNCHANGED supervisorVars
      BY <1>3 DEF BindFails
    <2>3. QED
      BY <1>2, <2>1, <2>2, LaunchFailsInv
  <1>4. CASE launch[l].tier = "live"
    <2>1. /\ LaunchAt(l, "unwinding") /\ "unwinding" \in LaunchPlaces
          /\ Stop({l}) /\ UNCHANGED <<ctl, flight, clients>>
      BY <1>4 DEF BindFails, LaunchPlaces
    <2>2. /\ launch' \in [Launches -> LaunchRecords]
          /\ launch'[l].at = "unwinding" /\ launch'[l].tier = launch[l].tier
          /\ launch'[l].socket = launch[l].socket /\ launch'[l].remote = launch[l].remote
          /\ \A k \in Launches \ {l} : launch'[k] = launch[k]
      BY <1>1, <2>1, LaunchAtDoes
    <2>3. ChildServes(l) /\ l \in Sups /\ MaxStarts = 1
      BY <1>1, <1>2, <1>4, LaunchShape DEF ChildFollows, Launches
    <2>4. SupervisorTypeOK' /\ Others(l) /\ ChildStops(l)'
      BY <1>1, <2>1, <2>3, ChildIsStopped
    <2>5. LifecycleTypeOK'
      BY <1>1, <1>2, <2>1, <2>2, <2>4 DEF LifecycleTypeOK, LaunchRecords, LaunchPlaces
    <2>6. UNCHANGED shellVars
      BY <1>2, <2>1 DEF shellVars
    <2>7. ShellHolds' /\ \A k \in Launches : HeldByShell(k)'
      BY <1>2, <2>2, <2>6, ShellKeeps DEF Starting
    <2>8. ProxyFollows'
      BY <1>2, <2>2, ProxyKeeps DEF Starting
    <2>9. OthersRest(l)
      BY <1>2, <2>2, <2>4 DEF OthersRest
    <2>10. ChildFollows(l)'
      BY <1>4, <2>2, <2>4 DEF ChildFollows
    <2>11. PartsFollow(l)'
      BY <1>1, <1>2, <1>4, <2>2 DEF PartsFollow
    <2>12. QED
      BY <2>5, <2>7, <2>8, <2>9, <2>10, <2>11, LaunchKeeps
  <1>5. QED
    BY <1>3, <1>4

\* The start goes on with the launch that is up now, or waits for its remote gateway.
LEMMA FlightGoesOn ==
    ASSUME LifecycleIInv, NEW l \in Launches, NEW remote \in BOOLEAN,
           launch[l].at \in {"binding", "connecting"},
           launch'[l].at = IF remote THEN "connecting" ELSE "up", launch'[l].tier = launch[l].tier,
           \A k \in Launches \ {l} : launch'[k] = launch[k],
           flight' = [flight EXCEPT !.at = IF remote THEN flight.at ELSE "checking"],
           UNCHANGED <<ctl, stopping>>
    PROVE  flight' \in Flights /\ ShellHolds' /\ \A k \in Launches : HeldByShell(k)'
  <1>1. /\ LifecycleTypeOK /\ ShellHolds /\ (\A k \in Launches : HeldByShell(k)) /\ flight \in Flights
    BY LifecycleTypes DEF LifecycleIInv
  <1>2. /\ flight.at = "launching" /\ flight.launch = l
        /\ ctl.status = "starting" /\ ctl.started = 0 /\ stopping.at # "closing" /\ stopping.handle = 0
    BY <1>1 DEF ShellHolds, HeldByShell
  <1>3. /\ flight' \in Flights /\ flight'.launch = l /\ flight'.tier = flight.tier
        /\ flight'.at = IF remote THEN "launching" ELSE "checking"
    BY <1>1, <1>2 DEF Flights
  <1>4. ShellHolds'
    BY <1>1, <1>2, <1>3, LaunchShape DEF ShellHolds
  <1>5. ASSUME NEW k \in Launches PROVE HeldByShell(k)'
    BY <1>1, <1>2, <1>3 DEF HeldByShell
  <1>6. QED
    BY <1>3, <1>4, <1>5

LEMMA BoundInv ==
    ASSUME LifecycleIInv, NEW l \in Launches, NEW remote \in BOOLEAN, Bound(l, remote)
    PROVE  LifecycleIInv'
  <1>1. /\ LifecycleTypeOK /\ ChildFollows(l) /\ PartsFollow(l)
        /\ launch \in [Launches -> LaunchRecords] /\ pump \in [Launches -> Pumps]
        /\ launch[l] \in LaunchRecords
    BY LifecycleTypes DEF LifecycleIInv
  <1> DEFINE place == IF remote THEN "connecting" ELSE "up"
             new == [tier : {launch[l].tier}, socket : {TRUE}, remote : {launch[l].remote}, at : {place}]
             reader == [running |-> TRUE, loop |-> "reading", failures |-> 0]
  <1>2. /\ launch[l].at = "binding" /\ (remote => launch[l].tier = "live")
        /\ launch' = [launch EXCEPT ![l].at = place, ![l].socket = TRUE]
        /\ pump' = IF launch[l].tier = "settings_only" THEN pump ELSE [pump EXCEPT ![l] = reader]
        /\ flight' = [flight EXCEPT !.at = IF remote THEN flight.at ELSE "checking"]
        /\ UNCHANGED <<ctl, stopping, clients, app, proxyPort, supervisorVars>>
    BY DEF Bound
  <1>3. launch'[l] \in new /\ \A k \in Launches \ {l} : launch'[k] = launch[k]
    BY <1>1, <1>2 DEF LaunchRecords
  <1>4. new \subseteq LaunchRecords
    BY <1>1 DEF LaunchRecords, LaunchPlaces
  <1>5. launch' \in [Launches -> LaunchRecords]
    BY <1>1, <1>2, <1>3, <1>4, TypedUpdate
  <1>6. \A k \in Launches \ {l} : launch'[k] = launch[k]
    BY <1>3
  <1>7. /\ launch'[l].at = place /\ launch'[l].tier = launch[l].tier
        /\ launch'[l].socket = TRUE /\ launch'[l].remote = launch[l].remote
    BY <1>3
  <1>8. reader \in Pumps
    BY LaunchShape DEF Pumps
  <1>9. /\ pump' \in [Launches -> Pumps] /\ \A k \in Launches \ {l} : pump'[k] = pump[k]
        /\ launch[l].tier # "settings_only" => pump'[l] = reader
        /\ launch[l].tier = "settings_only" => pump'[l] = pump[l]
    BY <1>1, <1>2, <1>8, UpdateOne
  <1> HIDE DEF new, reader
  <1>10. flight' \in Flights /\ ShellHolds' /\ \A k \in Launches : HeldByShell(k)'
    BY <1>2, <1>6, <1>7, FlightGoesOn
  <1>11. LifecycleTypeOK'
    BY <1>1, <1>2, <1>5, <1>9, <1>10 DEF LifecycleTypeOK, LaunchRecords, LaunchPlaces, Pumps, Flights,
                                         SupervisorTypeOK, supervisorVars
  <1>12. ProxyFollows'
    BY <1>2, <1>6, <1>7, ProxyKeeps DEF Starting
  <1>13. OthersRest(l)
    BY <1>2, <1>6, <1>9, ChildRests DEF OthersRest
  <1>14. ChildFollows(l)'
    BY <1>1, <1>2, <1>7, ChildRests DEF ChildFollows
  <1>15. PartsFollow(l)'
    <2>1. CASE launch[l].tier = "settings_only"
      BY <1>1, <1>2, <1>7, <1>9, <2>1 DEF PartsFollow
    <2>2. CASE launch[l].tier # "settings_only"
      <3>1. launch[l].tier = "live"
        BY <1>1, <2>2 DEF LaunchRecords, Tiers
      <3>2. pump'[l].running = TRUE /\ pump'[l].loop = "reading" /\ pump'[l].failures = 0
        BY <1>9, <2>2 DEF reader
      <3>3. QED
        BY <1>1, <1>2, <1>7, <3>1, <3>2, LaunchShape DEF PartsFollow
    <2>3. QED
      BY <2>1, <2>2
  <1>16. QED
    BY <1>10, <1>11, <1>12, <1>13, <1>14, <1>15, LaunchKeeps

LEMMA RemoteStartsInv ==
    ASSUME LifecycleIInv, NEW l \in Launches, NEW ok \in BOOLEAN, RemoteStarts(l, ok)
    PROVE  LifecycleIInv'
  <1>1. /\ LifecycleTypeOK /\ ChildFollows(l) /\ PartsFollow(l)
        /\ launch \in [Launches -> LaunchRecords] /\ launch[l] \in LaunchRecords /\ flight \in Flights
    BY LifecycleTypes DEF LifecycleIInv
  <1> DEFINE new == [tier : {launch[l].tier}, socket : {launch[l].socket}, remote : {ok}, at : {"up"}]
  <1>2. /\ launch[l].at = "connecting" /\ launch' = [launch EXCEPT ![l].at = "up", ![l].remote = ok]
        /\ flight' = [flight EXCEPT !.at = "checking"]
        /\ UNCHANGED <<ctl, stopping, clients, app, pump, proxyPort, supervisorVars>>
    BY DEF RemoteStarts
  <1>3. launch'[l] \in new /\ \A k \in Launches \ {l} : launch'[k] = launch[k]
    BY <1>1, <1>2 DEF LaunchRecords
  <1>4. new \subseteq LaunchRecords
    BY <1>1 DEF LaunchRecords, LaunchPlaces
  <1>5. launch' \in [Launches -> LaunchRecords]
    BY <1>1, <1>2, <1>3, <1>4, TypedUpdate
  <1>6. \A k \in Launches \ {l} : launch'[k] = launch[k]
    BY <1>3
  <1>7. /\ launch'[l].at = "up" /\ launch'[l].tier = launch[l].tier
        /\ launch'[l].socket = launch[l].socket
    BY <1>3
  <1> HIDE DEF new
  <1>8. flight' \in Flights /\ ShellHolds' /\ \A k \in Launches : HeldByShell(k)'
    BY <1>2, <1>6, <1>7, FlightGoesOn
  <1>9. LifecycleTypeOK'
    BY <1>1, <1>2, <1>5, <1>8 DEF LifecycleTypeOK, LaunchRecords, LaunchPlaces, Flights,
                                  SupervisorTypeOK, supervisorVars
  <1>10. ProxyFollows'
    BY <1>2, <1>6, <1>7, ProxyKeeps DEF Starting
  <1>11. OthersRest(l)
    BY <1>2, <1>6, ChildRests DEF OthersRest
  <1>12. ChildFollows(l)'
    BY <1>1, <1>2, <1>7, ChildRests DEF ChildFollows
  <1>13. PartsFollow(l)'
    BY <1>1, <1>2, <1>7 DEF PartsFollow
  <1>14. QED
    BY <1>8, <1>9, <1>10, <1>11, <1>12, <1>13, LaunchKeeps


\* The health check ends the start: the launch has an owner in the handle, or none.
LEMMA HealthVerifiedInv ==
    ASSUME LifecycleIInv, HealthVerified
    PROVE  LifecycleIInv'
  <1>1. /\ flight.at = "checking" /\ StartSettles(TRUE) /\ TRUE \in BOOLEAN
        /\ UNCHANGED <<stopping, app, launch, pump, proxyPort, supervisorVars>>
    BY DEF HealthVerified, launchVars
  <1>2. /\ LifecycleTypeOK /\ ShellHolds /\ ProxyFollows
        /\ \A k \in Launches : HeldByShell(k) /\ ChildFollows(k) /\ PartsFollow(k)
    BY DEF LifecycleIInv
  <1>3. /\ flight.launch # 0 /\ launch[flight.launch].at = "up"
        /\ launch[flight.launch].tier = flight.tier
        /\ ctl.started = 0 /\ stopping.at # "closing" /\ stopping.handle = 0
    BY <1>1, <1>2 DEF ShellHolds
  <1>4. /\ ctl' \in Controllers /\ flight' \in Flights
        /\ clients' \in [Clients -> {"idle", "stopping", "starting", "done"}]
        /\ flight'.at = "none" /\ flight'.launch = 0
        /\ ctl'.status = "running" /\ ctl'.started = flight.launch /\ ctl'.tier = flight.tier
    BY <1>1, <1>2, StartSettlesDoes
  <1>5. LifecycleTypeOK'
    BY <1>1, <1>2, <1>4 DEF LifecycleTypeOK, Controllers, Flights, SupervisorTypeOK, supervisorVars
  <1>6. ShellHolds'
    BY <1>1, <1>2, <1>3, <1>4 DEF ShellHolds
  <1>7. ASSUME NEW k \in Launches PROVE HeldByShell(k)'
    BY <1>1, <1>2, <1>3, <1>4, LaunchShape DEF HeldByShell
  <1>8. ProxyFollows'
    BY <1>1, <1>2 DEF ProxyFollows
  <1>9. QED
    BY <1>1, <1>5, <1>6, <1>7, <1>8, NothingFollows DEF LifecycleIInv

LEMMA HealthGivesUpInv ==
    ASSUME LifecycleIInv, HealthGivesUp
    PROVE  LifecycleIInv'
  <1>1. /\ flight.at = "checking" /\ StartSettles(FALSE) /\ FALSE \in BOOLEAN
        /\ LaunchAt(flight.launch, "lost") /\ "lost" \in LaunchPlaces
        /\ UNCHANGED <<stopping, app, pump, proxyPort, supervisorVars>>
    BY DEF HealthGivesUp, LaunchPlaces
  <1>2. /\ LifecycleTypeOK /\ ShellHolds /\ ProxyFollows
        /\ \A k \in Launches : HeldByShell(k) /\ ChildFollows(k) /\ PartsFollow(k)
        /\ launch \in [Launches -> LaunchRecords] /\ flight \in Flights
    BY LifecycleTypes DEF LifecycleIInv
  <1>3. /\ flight.launch # 0 /\ launch[flight.launch].at = "up"
        /\ ctl.started = 0 /\ stopping.at # "closing" /\ stopping.handle = 0
    BY <1>1, <1>2 DEF ShellHolds
  <1>4. PICK l \in Launches : l = flight.launch
    BY <1>2, <1>3 DEF Flights
  <1>5. /\ launch' \in [Launches -> LaunchRecords]
        /\ launch'[l].at = "lost" /\ launch'[l].tier = launch[l].tier
        /\ launch'[l].socket = launch[l].socket /\ launch'[l].remote = launch[l].remote
        /\ \A k \in Launches \ {l} : launch'[k] = launch[k]
    BY <1>1, <1>2, <1>4, LaunchAtDoes
  <1>6. /\ ctl' \in Controllers /\ flight' \in Flights
        /\ clients' \in [Clients -> {"idle", "stopping", "starting", "done"}]
        /\ flight'.at = "none" /\ flight'.launch = 0 /\ ctl'.status = "failed" /\ ctl'.started = 0
    BY <1>1, <1>2, StartSettlesDoes
  <1>7. LifecycleTypeOK'
    BY <1>1, <1>2, <1>5, <1>6 DEF LifecycleTypeOK, Controllers, Flights, LaunchRecords, LaunchPlaces,
                                  SupervisorTypeOK, supervisorVars
  <1>8. ShellHolds'
    BY <1>1, <1>2, <1>3, <1>6 DEF ShellHolds
  <1>9. ASSUME NEW k \in Launches PROVE HeldByShell(k)'
    BY <1>1, <1>2, <1>3, <1>4, <1>5, <1>6, LaunchShape DEF HeldByShell
  <1>10. launch[l].at = "up"
    BY <1>3, <1>4
  <1>11. ProxyFollows'
    BY <1>1, <1>5, <1>10, ProxyKeeps
  <1>12. OthersRest(l)
    BY <1>1, <1>5, ChildRests DEF OthersRest
  <1>13. ChildFollows(l)'
    BY <1>1, <1>2, <1>5, <1>10, ChildRests DEF ChildFollows
  <1>14. PartsFollow(l)'
    BY <1>1, <1>2, <1>5, <1>10 DEF PartsFollow
  <1>15. QED
    BY <1>7, <1>8, <1>9, <1>11, <1>12, <1>13, <1>14, LaunchKeeps

-----------------------------------------------------------------------------
(* The steps of a teardown.                                                 *)

LEMMA RemoteStopsInv ==
    ASSUME LifecycleIInv, NEW l \in Launches, RemoteStops(l)
    PROVE  LifecycleIInv'
  <1>1. /\ LifecycleTypeOK /\ ChildFollows(l) /\ PartsFollow(l)
        /\ launch \in [Launches -> LaunchRecords] /\ launch[l] \in LaunchRecords
    BY LifecycleTypes DEF LifecycleIInv
  <1> DEFINE new == [tier : {launch[l].tier}, socket : {launch[l].socket}, remote : {FALSE},
                     at : {"closing"}]
  <1>2. /\ launch[l].at = "closing" /\ launch' = [launch EXCEPT ![l].remote = FALSE]
        /\ UNCHANGED <<shellVars, pump, proxyPort, supervisorVars>>
    BY DEF RemoteStops
  <1>3. launch'[l] \in new /\ \A k \in Launches \ {l} : launch'[k] = launch[k]
    BY <1>1, <1>2 DEF LaunchRecords
  <1>4. new \subseteq LaunchRecords
    BY <1>1 DEF LaunchRecords, LaunchPlaces
  <1>5. launch' \in [Launches -> LaunchRecords]
    BY <1>1, <1>2, <1>3, <1>4, TypedUpdate
  <1>6. \A k \in Launches \ {l} : launch'[k] = launch[k]
    BY <1>3
  <1>7. /\ launch'[l].at = "closing" /\ launch'[l].tier = launch[l].tier
        /\ launch'[l].socket = launch[l].socket /\ launch'[l].remote = FALSE
    BY <1>3
  <1> HIDE DEF new
  <1>8. LifecycleTypeOK'
    BY <1>1, <1>2, <1>5 DEF LifecycleTypeOK, LaunchRecords, LaunchPlaces, SupervisorTypeOK,
                            supervisorVars, shellVars
  <1>9. ShellHolds' /\ \A k \in Launches : HeldByShell(k)'
    BY <1>2, <1>6, <1>7, ShellKeeps DEF Ending
  <1>10. ProxyFollows'
    BY <1>2, <1>6, <1>7, ProxyKeeps
  <1>11. OthersRest(l)
    BY <1>2, <1>6, ChildRests DEF OthersRest
  <1>12. ChildFollows(l)'
    BY <1>1, <1>2, <1>7, ChildRests DEF ChildFollows
  <1>13. PartsFollow(l)'
    BY <1>1, <1>2, <1>7 DEF PartsFollow
  <1>14. QED
    BY <1>8, <1>9, <1>10, <1>11, <1>12, <1>13, LaunchKeeps

\* The socket is closed and the proxy's port free, if it was this launch that held it.
LEMMA SocketClosedInv ==
    ASSUME LifecycleIInv, NEW l \in Launches, SocketClosed(l)
    PROVE  LifecycleIInv'
  <1>1. /\ LifecycleTypeOK /\ ChildFollows(l) /\ PartsFollow(l) /\ ProxyFollows
        /\ launch \in [Launches -> LaunchRecords] /\ launch[l] \in LaunchRecords
        /\ pump \in [Launches -> Pumps] /\ pump[l] \in Pumps /\ proxyPort \in Launches \union {0}
    BY LifecycleTypes DEF LifecycleIInv
  <1> DEFINE place == IF launch[l].tier = "live" THEN "draining" ELSE "down"
             new == [tier : {launch[l].tier}, socket : {FALSE}, remote : {launch[l].remote},
                     at : {place}]
             still == [running : {FALSE}, loop : {pump[l].loop}, failures : {pump[l].failures}]
  <1>2. /\ launch[l].at = "closing" /\ ~launch[l].remote
        /\ launch' = [launch EXCEPT ![l].socket = FALSE, ![l].at = place]
        /\ proxyPort' = IF proxyPort = l THEN 0 ELSE proxyPort
        /\ pump' = [pump EXCEPT ![l].running = FALSE]
        /\ UNCHANGED <<shellVars, supervisorVars>>
    BY DEF SocketClosed
  <1>3. launch'[l] \in new /\ \A k \in Launches \ {l} : launch'[k] = launch[k]
    BY <1>1, <1>2 DEF LaunchRecords
  <1>4. new \subseteq LaunchRecords
    BY <1>1 DEF LaunchRecords, LaunchPlaces
  <1>5. launch' \in [Launches -> LaunchRecords]
    BY <1>1, <1>2, <1>3, <1>4, TypedUpdate
  <1>6. pump'[l] \in still /\ \A k \in Launches \ {l} : pump'[k] = pump[k]
    BY <1>1, <1>2 DEF Pumps
  <1>7. still \subseteq Pumps
    BY <1>1 DEF Pumps
  <1>8. pump' \in [Launches -> Pumps]
    BY <1>1, <1>2, <1>6, <1>7, TypedUpdate
  <1>9. /\ \A k \in Launches \ {l} : launch'[k] = launch[k] /\ pump'[k] = pump[k]
        /\ launch'[l].at = place /\ launch'[l].tier = launch[l].tier
        /\ launch'[l].socket = FALSE /\ launch'[l].remote = launch[l].remote
        /\ pump'[l].running = FALSE /\ pump'[l].loop = pump[l].loop
        /\ pump'[l].failures = pump[l].failures
    BY <1>3, <1>6
  <1> HIDE DEF new, still
  <1>10. LifecycleTypeOK'
    BY <1>1, <1>2, <1>5, <1>8 DEF LifecycleTypeOK, LaunchRecords, LaunchPlaces, Pumps,
                                  SupervisorTypeOK, supervisorVars, shellVars
  <1>11. ShellHolds' /\ \A k \in Launches : HeldByShell(k)'
    BY <1>2, <1>9, ShellKeeps DEF Ending
  <1>12. ProxyFollows'
    <2>1. proxyPort' # 0 => proxyPort' = proxyPort /\ proxyPort \in Launches \ {l}
      BY <1>1, <1>2
    <2>2. ASSUME NEW k \in Launches, \A j \in Launches : launch'[j].at \notin {"failed", "lost"},
                 launch'[k].at \in {"supervisor", "binding", "connecting", "unwinding", "up", "closing"}
          PROVE  proxyPort' = k
      <3>1. k # l /\ launch'[k] = launch[k]
        BY <1>9, <2>2
      <3>2. \A j \in Launches : launch[j].at \notin {"failed", "lost"}
        BY <1>2, <1>9, <2>2
      <3>3. proxyPort = k /\ proxyPort = l
        BY <1>1, <1>2, <2>2, <3>1, <3>2 DEF ProxyFollows
      <3>4. QED
        BY <3>1, <3>3
    <2>3. proxyPort' # 0 => launch'[proxyPort'].at = launch[proxyPort].at
      BY <1>9, <2>1
    <2>4. QED
      BY <1>1, <2>1, <2>2, <2>3 DEF ProxyFollows
  <1>13. OthersRest(l)
    BY <1>2, <1>9, ChildRests DEF OthersRest
  <1>14. ChildFollows(l)'
    BY <1>1, <1>2, <1>9, ChildRests DEF ChildFollows, LaunchRecords, Tiers
  <1>15. PartsFollow(l)'
    BY <1>1, <1>2, <1>9 DEF PartsFollow
  <1>16. QED
    BY <1>10, <1>11, <1>12, <1>13, <1>14, <1>15, LaunchKeeps


\* The pump has ended: the child is stopped.
LEMMA PumpStoppedInv ==
    ASSUME LifecycleIInv, NEW l \in Launches, PumpStopped(l)
    PROVE  LifecycleIInv'
  <1>1. /\ LifecycleTypeOK /\ SupervisorTypeOK /\ ChildFollows(l) /\ PartsFollow(l)
        /\ launch \in [Launches -> LaunchRecords] /\ pump \in [Launches -> Pumps] /\ pump[l] \in Pumps
    BY LifecycleTypes DEF LifecycleIInv
  <1> DEFINE still == [running : {pump[l].running}, loop : {"none"}, failures : {pump[l].failures}]
  <1>2. /\ launch[l].at = "draining" /\ LaunchAt(l, "reaping") /\ "reaping" \in LaunchPlaces
        /\ pump' = [pump EXCEPT ![l].loop = "none"] /\ Stop({l})
        /\ UNCHANGED <<shellVars, proxyPort>>
    BY DEF PumpStopped, LaunchPlaces
  <1>3. /\ launch' \in [Launches -> LaunchRecords]
        /\ launch'[l].at = "reaping" /\ launch'[l].tier = launch[l].tier
        /\ launch'[l].socket = launch[l].socket /\ launch'[l].remote = launch[l].remote
        /\ \A k \in Launches \ {l} : launch'[k] = launch[k]
    BY <1>1, <1>2, LaunchAtDoes
  <1>4. pump'[l] \in still /\ \A k \in Launches \ {l} : pump'[k] = pump[k]
    BY <1>1, <1>2 DEF Pumps
  <1>5. still \subseteq Pumps
    BY <1>1 DEF Pumps
  <1>6. pump' \in [Launches -> Pumps]
    BY <1>1, <1>2, <1>4, <1>5, TypedUpdate
  <1>7. pump'[l].running = pump[l].running /\ pump'[l].loop = "none"
        /\ \A k \in Launches \ {l} : pump'[k] = pump[k]
    BY <1>4
  <1> HIDE DEF still
  <1>8. launch[l].tier = "live"
    BY <1>1, <1>2 DEF PartsFollow
  <1>9. ChildServes(l) /\ l \in Sups /\ MaxStarts = 1
    BY <1>1, <1>2, <1>8, LaunchShape DEF ChildFollows, Launches
  <1>10. SupervisorTypeOK' /\ Others(l) /\ ChildStops(l)'
    BY <1>1, <1>2, <1>9, ChildIsStopped
  <1>11. LifecycleTypeOK'
    BY <1>1, <1>2, <1>3, <1>6, <1>10 DEF LifecycleTypeOK, LaunchRecords, LaunchPlaces, Pumps, shellVars
  <1>12. ShellHolds' /\ \A k \in Launches : HeldByShell(k)'
    BY <1>2, <1>3, ShellKeeps DEF Ending
  <1>13. ProxyFollows'
    BY <1>2, <1>3, ProxyKeeps
  <1>14. OthersRest(l)
    BY <1>3, <1>7, <1>10 DEF OthersRest
  <1>15. ChildFollows(l)'
    BY <1>3, <1>8, <1>10 DEF ChildFollows
  <1>16. PartsFollow(l)'
    BY <1>1, <1>2, <1>3, <1>7, <1>8 DEF PartsFollow
  <1>17. QED
    BY <1>11, <1>12, <1>13, <1>14, <1>15, <1>16, LaunchKeeps

LEMMA ChildReapedInv ==
    ASSUME LifecycleIInv, NEW l \in Launches, ChildReaped(l)
    PROVE  LifecycleIInv'
  <1>1. /\ LifecycleTypeOK /\ ChildFollows(l) /\ PartsFollow(l)
        /\ launch \in [Launches -> LaunchRecords]
    BY LifecycleTypes DEF LifecycleIInv
  <1>2. /\ launch[l].at = "reaping" /\ stops[l].at = "done" /\ LaunchAt(l, "down")
        /\ "down" \in LaunchPlaces /\ UNCHANGED <<shellVars, pump, proxyPort, supervisorVars>>
    BY DEF ChildReaped, LaunchPlaces
  <1>3. /\ launch' \in [Launches -> LaunchRecords]
        /\ launch'[l].at = "down" /\ launch'[l].tier = launch[l].tier
        /\ launch'[l].socket = launch[l].socket /\ launch'[l].remote = launch[l].remote
        /\ \A k \in Launches \ {l} : launch'[k] = launch[k]
    BY <1>1, <1>2, LaunchAtDoes
  <1>4. LifecycleTypeOK'
    BY <1>1, <1>2, <1>3 DEF LifecycleTypeOK, LaunchRecords, LaunchPlaces, SupervisorTypeOK,
                            supervisorVars, shellVars
  <1>5. ShellHolds' /\ \A k \in Launches : HeldByShell(k)'
    BY <1>2, <1>3, ShellKeeps DEF Ending
  <1>6. ProxyFollows'
    BY <1>2, <1>3, ProxyKeeps
  <1>7. OthersRest(l)
    BY <1>2, <1>3, ChildRests DEF OthersRest
  <1>8. ChildFollows(l)'
    BY <1>1, <1>2, <1>3, ChildRests DEF ChildFollows
  <1>9. PartsFollow(l)'
    BY <1>1, <1>2, <1>3 DEF PartsFollow
  <1>10. QED
    BY <1>4, <1>5, <1>6, <1>7, <1>8, <1>9, LaunchKeeps

-----------------------------------------------------------------------------
(* The steps of the pumps and of the children.                              *)

\* A pump changes where its loop is, and is not started or stopped.
LEMMA LoopInv ==
    ASSUME LifecycleIInv, NEW l \in Launches,
           UNCHANGED <<shellVars, launch, proxyPort, supervisorVars>>,
           NEW loop \in {"reading", "waiting", "ended"}, NEW n \in 0 .. MaxReconnects,
           pump' = [pump EXCEPT ![l].failures = n, ![l].loop = loop],
           pump[l].loop # "none", loop # "ended" => n < MaxReconnects
    PROVE  LifecycleIInv'
  <1>1. /\ LifecycleTypeOK /\ ShellHolds /\ ProxyFollows
        /\ \A k \in Launches : HeldByShell(k) /\ ChildFollows(k) /\ PartsFollow(k)
        /\ pump \in [Launches -> Pumps] /\ pump[l] \in Pumps
    BY LifecycleTypes DEF LifecycleIInv
  <1> DEFINE new == [running : {pump[l].running}, loop : {loop}, failures : {n}]
  <1>2. pump'[l] \in new /\ \A k \in Launches \ {l} : pump'[k] = pump[k]
    BY <1>1 DEF Pumps
  <1>3. new \subseteq Pumps
    BY <1>1 DEF Pumps
  <1>4. pump' \in [Launches -> Pumps]
    BY <1>1, <1>2, <1>3, TypedUpdate
  <1>5. pump'[l].running = pump[l].running /\ pump'[l].loop = loop /\ pump'[l].failures = n
    BY <1>2
  <1> HIDE DEF new
  <1>6. LifecycleTypeOK'
    BY <1>1, <1>4 DEF LifecycleTypeOK, Pumps, SupervisorTypeOK, supervisorVars, shellVars
  <1>7. ShellHolds' /\ \A k \in Launches : HeldByShell(k)'
    BY <1>1 DEF ShellHolds, HeldByShell, shellVars
  <1>8. ProxyFollows'
    BY <1>1 DEF ProxyFollows
  <1>9. OthersRest(l)
    BY <1>2, ChildRests DEF OthersRest
  <1>10. ChildFollows(l)'
    BY <1>1, ChildRests DEF ChildFollows
  <1>11. PartsFollow(l)'
    BY <1>1, <1>5 DEF PartsFollow
  <1>12. QED
    BY <1>6, <1>7, <1>8, <1>9, <1>10, <1>11, LaunchKeeps

LEMMA PumpInv ==
    ASSUME LifecycleIInv, NEW l \in Launches, NEW failed \in BOOLEAN,
           LoopReturns(l) \/ ConnectionEnds(l, failed) \/ Reconnects(l)
    PROVE  LifecycleIInv'
  <1>1. PartsFollow(l) /\ pump \in [Launches -> Pumps] /\ pump[l] \in Pumps
    BY LifecycleTypes DEF LifecycleIInv
  <1>2. pump[l].failures \in 0 .. MaxReconnects /\ [pump EXCEPT ![l].failures = pump[l].failures] = pump
    BY <1>1 DEF Pumps
  <1>3. UNCHANGED <<shellVars, launch, proxyPort, supervisorVars>>
    BY DEF LoopReturns, ConnectionEnds, Reconnects
  <1>4. CASE LoopReturns(l)
    <2>1. /\ pump' = [pump EXCEPT ![l].failures = pump[l].failures, ![l].loop = "ended"]
          /\ pump[l].loop # "none"
      BY <1>2, <1>4 DEF LoopReturns
    <2>2. QED
      BY <1>2, <1>3, <2>1, LoopInv
  <1>5. CASE Reconnects(l)
    <2>1. /\ pump' = [pump EXCEPT ![l].failures = pump[l].failures, ![l].loop = "reading"]
          /\ pump[l].loop = "waiting"
      BY <1>2, <1>5 DEF Reconnects
    <2>2. pump[l].failures < MaxReconnects
      BY <1>1, <2>1 DEF PartsFollow
    <2>3. QED
      BY <1>2, <1>3, <2>1, <2>2, LoopInv
  <1>6. CASE ConnectionEnds(l, failed)
    <2> DEFINE n == IF failed THEN pump[l].failures + 1 ELSE 0
               loop == IF n >= MaxReconnects THEN "ended" ELSE "waiting"
    <2>1. pump' = [pump EXCEPT ![l].failures = n, ![l].loop = loop] /\ pump[l].loop = "reading"
      BY <1>6 DEF ConnectionEnds
    <2>2. pump[l].failures < MaxReconnects
      BY <1>1, <2>1 DEF PartsFollow
    <2>3. n \in 0 .. MaxReconnects /\ (loop # "ended" => n < MaxReconnects)
      BY <1>2, <2>2, LaunchShape
    <2>4. loop \in {"reading", "waiting", "ended"}
      OBVIOUS
    <2> HIDE DEF n, loop
    <2>5. QED
      BY <1>3, <2>1, <2>3, <2>4, LoopInv
  <1>7. QED
    BY <1>4, <1>5, <1>6

\* A child, or the supervisor of one, goes on.
LEMMA ChildrenInv ==
    ASSUME LifecycleIInv, Supervising(SupervisorStep)
    PROVE  LifecycleIInv'
  <1>1. /\ LifecycleTypeOK /\ ShellHolds /\ ProxyFollows /\ SupervisorTypeOK /\ MaxStarts = 1
        /\ \A k \in Launches : HeldByShell(k) /\ ChildFollows(k) /\ PartsFollow(k)
    BY LifecycleTypes, LaunchShape DEF LifecycleIInv
  <1>2. UNCHANGED <<shellVars, launch, pump, proxyPort>> /\ SupervisorStep
    BY DEF Supervising, launchVars
  <1>3. PICK l \in Launches : ChildStep(l)
    BY <1>2, LaunchShape DEF SupervisorStep, Settling, ChildStep, Launches
  <1>4. SupervisorTypeOK' /\ Others(l) /\ l \in Sups
    BY <1>1, <1>3, ChildStepDoes DEF Launches
  <1>5. LifecycleTypeOK'
    BY <1>1, <1>2, <1>4 DEF LifecycleTypeOK, shellVars
  <1>6. ShellHolds' /\ \A k \in Launches : HeldByShell(k)'
    BY <1>1, <1>2 DEF ShellHolds, HeldByShell, shellVars
  <1>7. ProxyFollows'
    BY <1>1, <1>2 DEF ProxyFollows
  <1>8. OthersRest(l)
    BY <1>2, <1>4 DEF OthersRest
  <1>9. /\ ~ChildUntouched(l)
        /\ ChildComes(l) => /\ ChildComes(l)'
                            /\ starts[l][1].at \in {"ready", "failed"} => starts'[l][1].at = starts[l][1].at
        /\ ChildStops(l) => ChildStops(l)' /\ (stops[l].at = "done" => stops'[l].at = "done")
    BY <1>1, <1>3, <1>4, UntouchedRests, ComesOn, StopsOn
  <1>10. ChildServes(l) => ChildServes(l)'
    BY <1>9 DEF ChildServes
  <1>11. ChildFollows(l)'
    BY <1>1, <1>2, <1>9, <1>10 DEF ChildFollows
  <1>12. PartsFollow(l)'
    BY <1>1, <1>2 DEF PartsFollow
  <1>13. QED
    BY <1>5, <1>6, <1>7, <1>8, <1>11, <1>12, LaunchKeeps


-----------------------------------------------------------------------------
(* The theorems on the life cycle.                                          *)

LEMMA LifecycleInitInv == LifecycleInit => LifecycleIInv
  <1> SUFFICES ASSUME LifecycleInit PROVE LifecycleIInv
    OBVIOUS
  <1>1. SupervisorTypeOK
    BY LaunchShape DEF LifecycleInit, SupervisorInit, SupervisorTypeOK, ProcessStates
  <1>2. LifecycleTypeOK
    BY <1>1, LaunchShape DEF LifecycleInit, LifecycleTypeOK, Tiers
  <1>3. \A l \in Launches : ChildFollows(l) /\ PartsFollow(l) /\ HeldByShell(l)
    BY LaunchShape DEF LifecycleInit, SupervisorInit, ChildFollows, PartsFollow, HeldByShell,
                       ChildUntouched, Launches
  <1>4. ShellHolds /\ ProxyFollows
    BY DEF LifecycleInit, ShellHolds, ProxyFollows
  <1>5. QED
    BY <1>2, <1>3, <1>4 DEF LifecycleIInv

LEMMA LifecycleNextInv == LifecycleIInv /\ [LifecycleNext]_lifecycleVars => LifecycleIInv'
  <1> SUFFICES ASSUME LifecycleIInv, [LifecycleNext]_lifecycleVars PROVE LifecycleIInv'
    OBVIOUS
  <1>1. CASE UNCHANGED lifecycleVars
    <2>1. /\ UNCHANGED <<ctl, flight, stopping, launchVars, supervisorVars>>
          /\ clients' = clients /\ app' = app
      BY <1>1 DEF lifecycleVars, shellVars
    <2>2. /\ clients' \in [Clients -> {"idle", "stopping", "starting", "done"}]
          /\ app' \in {"open", "stopping", "quitting", "gone"}
      BY <2>1 DEF LifecycleIInv, LifecycleTypeOK
    <2>3. QED
      BY <2>1, <2>2, CallersInv
  <1>2. CASE Boot \/ StopProceeds \/ StopReturns \/ BeforeQuit \/ Quit
    BY <1>2, BootInv, StopProceedsInv, StopReturnsInv, QuitsInv
  <1>3. ASSUME NEW c \in Clients, NEW force \in BOOLEAN, ConnectLive(c, force) PROVE LifecycleIInv'
    BY <1>3, ConnectLiveInv
  <1>4. CASE Resolving \/ Checking
    BY <1>4, ComposeInv, NotConfiguredInv, HealthVerifiedInv, HealthGivesUpInv DEF Resolving, Checking
  <1>5. ASSUME NEW l \in Launches, Launching(l) PROVE LifecycleIInv'
    BY <1>5, ChildReadyInv, ChildFailedInv, UnwoundInv, BoundInv, RemoteStartsInv, BindFailsInv
       DEF Launching
  <1>6. ASSUME NEW l \in Launches, Closing(l) PROVE LifecycleIInv'
    <2>1. CASE LoopReturns(l)
      <3>1. TRUE \in BOOLEAN
        OBVIOUS
      <3>2. QED
        BY <2>1, <3>1, PumpInv
    <2>2. CASE RemoteStops(l) \/ SocketClosed(l) \/ PumpStopped(l) \/ ChildReaped(l)
      BY <2>2, RemoteStopsInv, SocketClosedInv, PumpStoppedInv, ChildReapedInv
    <2>3. QED
      BY <1>6, <2>1, <2>2 DEF Closing
  <1>7. ASSUME NEW l \in Launches, NEW failed \in BOOLEAN, ConnectionEnds(l, failed) \/ Reconnects(l)
        PROVE  LifecycleIInv'
    BY <1>7, PumpInv
  <1>8. CASE Supervising(SupervisorStep)
    BY <1>8, ChildrenInv
  <1>9. ASSUME NEW l \in Launches, Reconnects(l) PROVE LifecycleIInv'
    <2>1. TRUE \in BOOLEAN
      OBVIOUS
    <2>2. QED
      BY <1>7, <1>9, <2>1
  <1>10. QED
    BY <1>1, <1>2, <1>3, <1>4, <1>5, <1>6, <1>7, <1>8, <1>9 DEF LifecycleNext, ShellStep

\* The inductive invariant holds of every behaviour, with children that ignore a signal too.
THEOREM LifecycleSafety == LifecycleSpec => []LifecycleIInv
  BY LifecycleInitInv, LifecycleNextInv, PTL DEF LifecycleSpec

\* Children exit within the grace period: then whatever is up has one owner, and every
\* supervisor knows its child.  Any number of launches, calls of connectLive and retries.
THEOREM LifecycleInvAlways == Slow = FALSE => (LifecycleSpec => []LifecycleInv)
  <1> SUFFICES ASSUME Slow = FALSE PROVE LifecycleSpec => []LifecycleInv
    OBVIOUS
  <1>1. ASSUME LifecycleIInv PROVE LifecycleInv
    <2>1. /\ LifecycleTypeOK /\ ShellHolds /\ Calls = {1} /\ 0 \notin Launches /\ Launches = Sups
          /\ \A l \in Launches : HeldByShell(l) /\ ChildFollows(l) /\ PartsFollow(l)
          /\ launch \in [Launches -> LaunchRecords]
      BY <1>1, LifecycleTypes, LaunchShape DEF LifecycleIInv, Launches
    <2>2. \A l \in Launches : \/ ChildUntouched(l) \/ ChildComes(l) \/ ChildStops(l)
      <3>1. ASSUME NEW l \in Launches
            PROVE  launch[l].at \in LaunchPlaces /\ launch[l].tier \in Tiers
        BY <2>1 DEF LaunchRecords
      <3>2. ASSUME NEW l \in Launches PROVE ChildUntouched(l) \/ ChildComes(l) \/ ChildStops(l)
        BY <2>1, <3>1 DEF ChildFollows, ChildServes, LaunchPlaces, Tiers
      <3>3. QED
        BY <3>2
    <2>3. ASSUME NEW l \in Launches
          PROVE  /\ procs[l][1] = "running" => sup[l].child = 1
                 /\ sup[l].state = "idle" => procs[l][1] \in Gone
      <3>1. procs[l][1] \in ProcessStates /\ starts[l][1].at \in
              {"none", "checking", "polling", "identifying", "aborting", "ready", "failed"}
        BY <2>1 DEF LifecycleTypeOK, SupervisorTypeOK
      <3>2. CASE ChildUntouched(l)
        BY <3>2 DEF ChildUntouched, Gone
      <3>3. CASE ChildComes(l)
        BY <3>1, <3>3 DEF ChildComes, Gone
      <3>4. CASE ChildStops(l)
        BY <3>4 DEF ChildStops, Gone
      <3>5. QED
        BY <2>2, <3>2, <3>3, <3>4
    <2>4. NoOrphan /\ IdleIsDown
      BY <2>1, <2>3 DEF NoOrphan, IdleIsDown
    <2> DEFINE kept == {l \in Launches : Alive(l) /\ launch[l].at # "lost"}
    <2>5. ASSUME NEW l \in kept PROVE l \in Owned
      <3>1. launch[l].at \in Starting \union Ending \union {"up"}
        <4>1. launch[l] \in LaunchRecords /\ l \in Launches
          BY <2>1
        <4>2. launch[l].at \notin {"none", "failed", "down"}
          <5>1. ASSUME launch[l].at \in {"none", "failed", "down"} PROVE procs[l][1] \in Gone
            BY <2>1, <5>1 DEF ChildFollows, ChildUntouched, ChildComes, ChildStops, Gone
          <5>2. QED
            BY <2>1, <5>1 DEF Alive, PartsFollow
        <4>3. QED
          BY <4>1, <4>2 DEF LaunchRecords, LaunchPlaces, Starting, Ending
      <3>2. QED
        BY <2>1, <3>1 DEF HeldByShell, Owned, Starting, Ending
    <2>6. PICK x : Owned \subseteq {x}
      BY <2>1 DEF ShellHolds, Owned
    <2>7. Cardinality(kept) <= 1
      <3> HIDE DEF kept
      <3>1. kept = {} \/ kept = {x}
        BY <2>5, <2>6
      <3>2. CASE kept = {}
        BY <3>2, FS_EmptySet
      <3>3. CASE kept = {x}
        <4>1. Cardinality({x}) = 1
          BY FS_Singleton
        <4>2. QED
          BY <3>3, <4>1
      <3>4. QED
        BY <3>1, <3>2, <3>3
    <2>8. QED
      BY <2>1, <2>4, <2>5, <2>7 DEF LifecycleInv, OneOwner
  <1>2. QED
    BY <1>1, LifecycleSafety, PTL

\* The address that the renderer gets is that of a launch that is up, whose runtime was started
\* and was not told to exit, and whose proxy is bound unless a launch failed or was lost.
THEOREM BootstrapIsHonestAlways == LifecycleSpec => []BootstrapIsHonest
  <1>1. ASSUME LifecycleIInv, ctl.status = "running" PROVE BootstrapIsHonest
    <2>1. /\ ctl.started # 0 /\ launch[ctl.started].at = "up" /\ launch[ctl.started].tier = ctl.tier
          /\ ctl.started \in Launches /\ ProxyFollows
          /\ ChildFollows(ctl.started) /\ PartsFollow(ctl.started)
      BY <1>1, LifecycleTypes DEF LifecycleIInv, ShellHolds, Controllers
    <2>2. launch[ctl.started].socket
      BY <2>1 DEF PartsFollow
    <2>3. ctl.tier = "live" => sup[ctl.started].state = "ready" /\ ~Killed(ctl.started, 1)
      BY <2>1 DEF ChildFollows, ChildServes, ChildComes, Killed
    <2>4. (\A l \in Launches : launch[l].at \notin {"failed", "lost"}) => proxyPort = ctl.started
      BY <2>1 DEF ProxyFollows
    <2>5. QED
      BY <2>1, <2>2, <2>3, <2>4 DEF BootstrapIsHonest
  <1>2. LifecycleIInv => BootstrapIsHonest
    BY <1>1 DEF BootstrapIsHonest
  <1>3. QED
    BY <1>2, LifecycleSafety, PTL


-----------------------------------------------------------------------------
(* The order of a teardown.                                                 *)

\* A launch that goes from place to place keeps its socket.
LEMMA MovesKeepSocket ==
    ASSUME LifecycleIInv, NEW l \in Launches, NEW k \in Launches, NEW place, LaunchAt(k, place)
    PROVE  launch'[l].socket = launch[l].socket
  <1>1. launch \in [Launches -> LaunchRecords]
    BY LifecycleTypes DEF LifecycleIInv
  <1>2. QED
    BY <1>1 DEF LaunchAt, LaunchRecords

\* A start that fails moves its launch, and no launch but its own.
LEMMA FailuresKeepSocket ==
    ASSUME LifecycleIInv, NEW l \in Launches, NEW k \in Launches, NEW retry \in BOOLEAN,
           LaunchFails(k, retry)
    PROVE  launch'[l].socket = launch[l].socket
  BY MovesKeepSocket DEF LaunchFails

\* What stop() does first moves the launch that it takes.
LEMMA HandlesKeepSocket ==
    ASSUME LifecycleIInv, NEW l \in Launches, CallStop \/ TakeHandle
    PROVE  launch'[l].socket = launch[l].socket
  <1>1. launch \in [Launches -> LaunchRecords] /\ ctl.started \in Launches \union {0}
    BY LifecycleTypes DEF LifecycleIInv, Controllers
  <1>2. CASE UNCHANGED launch
    BY <1>2
  <1>3. CASE ctl.started # 0 /\ launch' = [launch EXCEPT ![ctl.started].at = "closing"]
    BY <1>1, <1>3 DEF LaunchRecords
  <1>4. QED
    BY <1>2, <1>3 DEF CallStop, TakeHandle

\* The remote gateway is closed when a socket is.
LEMMA GatewayClosesFirst ==
    ASSUME LifecycleIInv, ShellStep, NEW l \in Launches, launch[l].socket, ~launch'[l].socket
    PROVE  ~launch[l].remote
  <1>1. launch \in [Launches -> LaunchRecords] /\ PartsFollow(l) /\ flight \in Flights /\ ShellHolds
        /\ 0 \notin Launches
    BY LifecycleTypes, LaunchShape DEF LifecycleIInv
  <1>2. launch' # launch
    OBVIOUS
  <1>3. CASE Boot \/ StopReturns \/ Quit \/ NotConfigured \/ HealthVerified \/ Supervising(SupervisorStep)
    BY <1>2, <1>3 DEF Boot, StopReturns, Quit, NotConfigured, HealthVerified, Supervising, launchVars
  <1>4. CASE StopProceeds \/ BeforeQuit \/ \E c \in Clients, force \in BOOLEAN : ConnectLive(c, force)
    BY <1>2, <1>4, HandlesKeepSocket DEF StopProceeds, BeforeQuit, ConnectLive
  <1>5. CASE Compose
    <2>1. PICK k \in Launches : k = NextLaunch /\ launch[k].at = "none"
      BY <1>5 DEF Compose, NoneLeft, NextLaunch
    <2>2. k # l
      BY <1>1, <2>1 DEF PartsFollow
    <2>3. QED
      BY <1>1, <1>5, <2>1, <2>2 DEF Compose
  <1>6. CASE HealthGivesUp
    <2>1. flight.launch \in Launches
      BY <1>1, <1>6 DEF HealthGivesUp, ShellHolds, Flights
    <2>2. QED
      BY <1>6, <2>1, MovesKeepSocket DEF HealthGivesUp
  <1>7. ASSUME NEW k \in Launches, Launching(k) PROVE ~launch[l].remote
    <2>1. CASE ChildReady(k) \/ \E retry \in BOOLEAN : ChildFailed(k, retry) \/ Unwound(k, retry)
      BY <2>1, MovesKeepSocket, FailuresKeepSocket DEF ChildReady, ChildFailed, Unwound
    <2>2. CASE BindFails(k)
      <3>1. FALSE \in BOOLEAN
        OBVIOUS
      <3>2. QED
        BY <2>2, <3>1, MovesKeepSocket, FailuresKeepSocket DEF BindFails
    <2>3. CASE \E remote \in BOOLEAN : Bound(k, remote)
      BY <1>1, <2>3 DEF Bound, LaunchRecords
    <2>4. CASE \E remote \in BOOLEAN : RemoteStarts(k, remote)
      BY <1>1, <2>4 DEF RemoteStarts, LaunchRecords
    <2>5. QED
      BY <1>7, <2>1, <2>2, <2>3, <2>4 DEF Launching
  <1>8. ASSUME NEW k \in Launches, Closing(k) PROVE ~launch[l].remote
    <2>1. CASE LoopReturns(k)
      BY <1>2, <2>1 DEF LoopReturns
    <2>2. CASE PumpStopped(k) \/ ChildReaped(k)
      BY <2>2, MovesKeepSocket DEF PumpStopped, ChildReaped
    <2>3. CASE RemoteStops(k)
      BY <1>1, <2>3 DEF RemoteStops, LaunchRecords
    <2>4. CASE SocketClosed(k)
      BY <1>1, <2>4 DEF SocketClosed, LaunchRecords
    <2>5. QED
      BY <1>8, <2>1, <2>2, <2>3, <2>4 DEF Closing
  <1>9. ASSUME NEW k \in Launches, NEW failed \in BOOLEAN, ConnectionEnds(k, failed) \/ Reconnects(k)
        PROVE  ~launch[l].remote
    BY <1>2, <1>9 DEF ConnectionEnds, Reconnects
  <1>10. QED
    <2>1. TRUE \in BOOLEAN
      OBVIOUS
    <2>2. ASSUME NEW k \in Launches, Reconnects(k) PROVE ~launch[l].remote
      BY <2>1, <2>2, <1>9
    <2>3. QED
      BY <1>3, <1>4, <1>5, <1>6, <1>7, <1>8, <1>9, <2>2 DEF ShellStep, Resolving, Checking

\* How the shell uses the supervisors.
LEMMA SupervisorUse ==
    ASSUME ShellStep
    PROVE  \/ UNCHANGED supervisorVars
           \/ \E k \in Launches : Start({k})
           \/ \E k \in Launches : ((BindFails(k) /\ launch[k].tier = "live") \/ PumpStopped(k)) /\ Stop({k})
           \/ SupervisorStep
  <1>1. Boot \/ StopProceeds \/ StopReturns \/ BeforeQuit \/ Quit => UNCHANGED supervisorVars
    BY DEF Boot, StopProceeds, StopReturns, BeforeQuit, Quit
  <1>2. \A c \in Clients, force \in BOOLEAN : ConnectLive(c, force) => UNCHANGED supervisorVars
    BY DEF ConnectLive
  <1>3. NotConfigured \/ Checking => UNCHANGED supervisorVars
    BY DEF Checking, NotConfigured, HealthVerified, HealthGivesUp
  <1>4. ASSUME Compose PROVE UNCHANGED supervisorVars \/ \E k \in Launches : Start({k})
    <2>1. PICK k \in Launches : k = NextLaunch
      BY <1>4 DEF Compose, NoneLeft, NextLaunch
    <2>2. QED
      BY <1>4, <2>1 DEF Compose
  <1>5. ASSUME NEW k \in Launches, Launching(k)
        PROVE  UNCHANGED supervisorVars \/ (BindFails(k) /\ launch[k].tier = "live" /\ Stop({k}))
    BY <1>5 DEF Launching, ChildReady, ChildFailed, Unwound, Bound, RemoteStarts, BindFails
  <1>6. ASSUME NEW k \in Launches, Closing(k)
        PROVE  UNCHANGED supervisorVars \/ (PumpStopped(k) /\ Stop({k}))
    BY <1>6 DEF Closing, RemoteStops, SocketClosed, ChildReaped, LoopReturns, PumpStopped
  <1>7. ASSUME NEW k \in Launches,
               Reconnects(k) \/ \E failed \in BOOLEAN : ConnectionEnds(k, failed)
        PROVE  UNCHANGED supervisorVars
    BY <1>7 DEF Reconnects, ConnectionEnds
  <1>8. QED
    BY <1>1, <1>2, <1>3, <1>4, <1>5, <1>6, <1>7 DEF ShellStep, Resolving, Supervising

\* A child is signalled when nothing is open that reads from it.
LEMMA ChildIsSignalledLast ==
    ASSUME LifecycleIInv, ShellStep, NEW l \in Launches,
           procs[l][1] = "running", procs'[l][1] = "signalled"
    PROVE  ~launch[l].socket /\ pump[l].loop \in {"none", "ended"}
  <1>1. /\ SupervisorTypeOK /\ MaxStarts = 1 /\ ChildFollows(l) /\ PartsFollow(l)
        /\ launch \in [Launches -> LaunchRecords] /\ pump \in [Launches -> Pumps]
    BY LifecycleTypes, LaunchShape DEF LifecycleIInv
  <1>2. launch[l] \in LaunchRecords /\ pump[l].loop \in {"none", "reading", "waiting", "ended"}
    BY <1>1 DEF Pumps
  <1>3. CASE \E k \in Launches : (BindFails(k) \/ PumpStopped(k)) /\ Stop({k})
    <2>1. PICK k \in Launches : (BindFails(k) \/ PumpStopped(k)) /\ Stop({k})
      BY <1>3
    <2>2. {k} \in SUBSET Sups
      BY DEF Launches
    <2>3. k = l
      BY <1>1, <2>1, <2>2, StopDoes DEF Launches
    <2>4. \/ launch[l].at = "binding"
          \/ launch[l].at = "draining" /\ pump[l].loop \in {"none", "ended"}
      BY <2>1, <2>3 DEF BindFails, PumpStopped
    <2>5. QED
      BY <1>1, <1>2, <2>4 DEF PartsFollow
  <1>4. CASE UNCHANGED supervisorVars \/ \E k \in Launches : Start({k})
    BY <1>4 DEF Start, supervisorVars
  <1>5. CASE SupervisorStep
    <2>1. PICK k \in Launches : ChildStep(k)
      BY <1>5, LaunchShape DEF SupervisorStep, Settling, ChildStep, Launches
    <2>2. Others(k) /\ (procs[k][1] = "running" /\ procs'[k][1] = "signalled" =>
             starts[k][1].at \in {"checking", "polling", "identifying"})
      BY <1>1, <2>1, ChildStepDoes DEF Launches
    <2>3. k = l
      BY <2>2 DEF Others, Launches
    <2>4. starts[l][1].at \in {"checking", "polling", "identifying"}
      BY <2>2, <2>3
    <2>5. launch[l].at \in {"none", "supervisor"} \/ launch[l].tier = "settings_only"
      BY <1>1, <1>2, <2>4 DEF ChildFollows, ChildServes, ChildStops, LaunchRecords, LaunchPlaces
    <2>6. launch[l].at = "supervisor"
      BY <1>1, <2>4, <2>5 DEF ChildFollows, ChildUntouched
    <2>7. QED
      BY <1>1, <1>2, <2>6 DEF PartsFollow
  <1>6. QED
    BY <1>3, <1>4, <1>5, SupervisorUse

\* The remote gateway, the socket, the pump's loop and the child are closed in this order, with
\* children that ignore a signal too.
THEOREM TeardownOrderAlways == LifecycleSpec => TeardownOrder
  <1>1. ASSUME LifecycleIInv, [LifecycleNext]_lifecycleVars, NEW l \in Launches
        PROVE  /\ procs[l][1] = "running" /\ procs'[l][1] = "signalled" =>
                    ~launch[l].socket /\ pump[l].loop \in {"none", "ended"}
               /\ launch[l].socket /\ ~launch'[l].socket => ~launch[l].remote
    <2>1. CASE ShellStep
      BY <1>1, <2>1, ChildIsSignalledLast, GatewayClosesFirst
    <2>2. CASE UNCHANGED lifecycleVars
      BY <2>2 DEF lifecycleVars, launchVars, supervisorVars
    <2>3. QED
      BY <1>1, <2>1, <2>2 DEF LifecycleNext
  <1>2. LifecycleIInv /\ [LifecycleNext]_lifecycleVars =>
           \A l \in Launches :
              /\ procs[l][1] = "running" /\ procs'[l][1] = "signalled" =>
                    ~launch[l].socket /\ pump[l].loop \in {"none", "ended"}
              /\ launch[l].socket /\ ~launch'[l].socket => ~launch[l].remote
    BY <1>1
  <1>3. QED
    BY <1>2, LifecycleSafety, PTL DEF LifecycleSpec, TeardownOrder

\* The shell uses its supervisors as a caller that never overlaps its calls: it stops one only
\* when the start() on it has settled, and starts one only when it is idle.
THEOREM ShellIsACaller == LifecycleSpec => SupervisorInit /\ [][CallerNext]_supervisorVars
  <1>1. ASSUME LifecycleIInv, NEW k \in Launches,
               (BindFails(k) /\ launch[k].tier = "live") \/ PumpStopped(k)
        PROVE  Unsettled(k) = {}
    <2>1. ChildFollows(k) /\ PartsFollow(k) /\ Calls = {1}
      BY <1>1, LaunchShape DEF LifecycleIInv
    <2>2. launch[k].tier = "live" /\ launch[k].at \in {"binding", "draining"}
      BY <1>1, <2>1 DEF BindFails, PumpStopped, PartsFollow
    <2>3. ChildServes(k)
      BY <2>1, <2>2 DEF ChildFollows
    <2>4. QED
      BY <2>1, <2>3 DEF ChildServes, Unsettled
  <1>2. LifecycleIInv /\ [LifecycleNext]_lifecycleVars => [CallerNext]_supervisorVars
    <2>1. CASE UNCHANGED lifecycleVars
      BY <2>1 DEF lifecycleVars
    <2>2. ASSUME LifecycleIInv, ShellStep PROVE CallerNext \/ UNCHANGED supervisorVars
      <3>1. CASE UNCHANGED supervisorVars \/ SupervisorStep \/ \E k \in Launches : Start({k})
        BY <3>1 DEF CallerNext, Launches
      <3>2. CASE \E k \in Launches :
                    ((BindFails(k) /\ launch[k].tier = "live") \/ PumpStopped(k)) /\ Stop({k})
        <4>1. PICK k \in Launches :
                    ((BindFails(k) /\ launch[k].tier = "live") \/ PumpStopped(k)) /\ Stop({k})
          BY <3>2
        <4>2. Unsettled(k) = {}
          BY <1>1, <2>2, <4>1
        <4>3. QED
          BY <4>1, <4>2 DEF CallerNext, Launches
      <3>3. QED
        BY <2>2, <3>1, <3>2, SupervisorUse
    <2>3. QED
      BY <2>1, <2>2 DEF LifecycleNext
  <1>3. LifecycleInit => SupervisorInit
    BY DEF LifecycleInit
  <1>4. QED
    BY <1>2, <1>3, LifecycleSafety, PTL DEF LifecycleSpec

=============================================================================
