--------------------------- MODULE StackSupervisor ---------------------------
(***************************************************************************)
(* The owner of the bundled knowledge-graph processes, M365KGStackSuper-   *)
(* visor (service/src/knowledge/stack/stack-supervisor.ts): Postgres,      *)
(* Neo4j and llm-svc (the leaves) are started together, the backend when   *)
(* all of them are ready.  If one of them fails, or the caller stops the   *)
(* stack, the backend is stopped and then the leaves.                      *)
(***************************************************************************)
EXTENDS ChildSupervisor

CONSTANTS Leaves, Backend

ASSUME StackAssumption ==
    /\ Sups = Leaves \union {Backend}
    /\ Backend \notin Leaves
    /\ MaxStarts = 1

\* Where start() or stop() of the stack is.
VARIABLE stack

vars == <<sup, starts, stops, procs, stack>>

TypeOK ==
    /\ SupervisorTypeOK
    /\ stack \in {"off", "leaves", "backend", "up", "stopping_backend", "stopping_leaves", "down"}

Init == SupervisorInit /\ stack = "off"

Place(s) == starts[s][1].at

\* start(): the leaves, at the same time.
StartLeaves ==
    /\ stack = "off"
    /\ stack' = "leaves"
    /\ Start(Leaves)

\* Mutant: the backend is started when the first leaf is ready.
StartBackendEarly ==
    /\ stack = "leaves"
    /\ \E s \in Leaves : Place(s) = "ready"
    /\ stack' = "backend"
    /\ Start({Backend})

\* Promise.all resolves: the backend.
StartBackend ==
    /\ stack = "leaves"
    /\ \A s \in Leaves : Place(s) = "ready"
    /\ stack' = "backend"
    /\ Start({Backend})

Up ==
    /\ stack = "backend"
    /\ Place(Backend) = "ready"
    /\ stack' = "up"
    /\ UNCHANGED supervisorVars

\* Mutant: only the start of the backend is inside the try block.
StopBackendAlone ==
    /\ \/ stack = "backend" /\ Place(Backend) = "failed"
       \/ stack = "up"
    /\ stack' = "stopping_backend"
    /\ Stop({Backend})

\* Promise.all rejects with the first leaf that fails, or the backend fails: the
\* catch block calls stop().  A caller stops a stack that is up.
StopBackend ==
    /\ \/ stack = "leaves" /\ \E s \in Leaves : Place(s) = "failed"
       \/ stack = "backend" /\ Place(Backend) = "failed"
       \/ stack = "up"
    /\ stack' = "stopping_backend"
    /\ Stop({Backend})

\* Mutant: the leaves are stopped without waiting for the backend.
StopLeavesAtOnce ==
    /\ stack = "stopping_backend"
    /\ stack' = "stopping_leaves"
    /\ Stop(Leaves)

StopLeaves ==
    /\ stack = "stopping_backend"
    /\ stops[Backend].at = "done"
    /\ stack' = "stopping_leaves"
    /\ Stop(Leaves)

\* All have stopped: the stack forgets its supervisors.
Down ==
    /\ stack = "stopping_leaves"
    /\ \A s \in Leaves : stops[s].at = "done"
    /\ stack' = "down"
    /\ UNCHANGED supervisorVars

StackStep == StartBackend \/ Up \/ StopLeaves \/ Down

Next ==
    \/ StartLeaves
    \/ StackStep
    \/ StopBackend
    \/ SupervisorStep /\ UNCHANGED stack

Fairness ==
    /\ WF_vars(StackStep)
    /\ WF_vars(stack # "up" /\ StopBackend)
    /\ \A s \in Sups :
         /\ WF_vars(StopSettles(s) /\ UNCHANGED stack)
         /\ WF_vars(Settling(s, 1) /\ UNCHANGED stack)
         /\ WF_vars(Obeys(s, 1) /\ UNCHANGED stack)

Spec == Init /\ [][Next]_vars /\ Fairness

-----------------------------------------------------------------------------
(* Properties.                                                              *)

\* The backend is spawned only when every leaf it depends on has become ready.
BackendComesLast ==
    procs[Backend][1] # "none" => \A s \in Leaves : Place(s) = "ready"

\* Reverse order: while the backend runs, no leaf has been told to stop.
BackendGoesFirst ==
    [][\A s \in Leaves : procs[s][1] = "running" /\ procs'[s][1] = "signalled"
          => procs'[Backend][1] \in Gone]_vars

\* The child of the backend follows its start(): none before the spawn, the one child of
\* the supervisor, signalled by nobody, until the start aborts or a stop begins; and it is
\* gone when the start has failed or the stop has returned, unless it outlived the wait.
BackendChild ==
    LET place == Place(Backend)
        proc == procs[Backend][1]
        stop == stops[Backend]
    IN  /\ place \in {"none", "checking"} => sup[Backend].child = 0 /\ proc = "none"
        /\ place \in {"polling", "identifying"} \/ (place = "ready" /\ stop.at = "none") =>
              sup[Backend].child = 1 /\ proc \in {"running", "exited"}
        /\ place = "aborting" => starts[Backend][1].aborts = 1
        /\ stop.at = "waiting" => stop.child = 1
        /\ place = "failed" \/ stop.at = "done" => proc \in Gone \/ Slow

\* The inductive invariant: where the stack is says where the backend is, and a backend
\* that was started found its leaves ready.
StackIInv ==
    /\ TypeOK
    /\ stack \in {"off", "leaves"} => Place(Backend) = "none"
    /\ stack \notin {"off", "leaves", "backend"} => Place(Backend) \in {"none", "ready", "failed"}
    /\ stack \in {"off", "leaves", "backend", "up"} => stops[Backend].at = "none"
    /\ Place(Backend) # "none" => \A s \in Leaves : Place(s) = "ready"
    /\ BackendChild

\* A start of the stack ends, up or down, whatever child fails and when.
StackSettles == stack = "leaves" ~> stack \in {"up", "down"}

\* "Partial failure -- never leave orphaned siblings running": a stack that is
\* down has no child running.
DownLeavesNothing ==
    stack = "down" => \A s \in Sups : procs[s][1] # "running"

=============================================================================
