---------------------------- MODULE ToolContract ----------------------------
(***************************************************************************)
(* What the permission gate (service/src/permission/permission-gate.ts,    *)
(* interface PermissionGate) promises whoever acts behind it, without its  *)
(* timers, audit and replies: a request is decided once, and the effect it *)
(* guards happens only behind an Allow, once if the Allow was for once.    *)
(* PermissionGate and PermissionBoundary implement it; PreviewRuntime is   *)
(* built on it.                                                            *)
(***************************************************************************)
EXTENDS Naturals

CONSTANT Requests

VARIABLES
    decision,   \* per request, where it stands
    effects     \* per request, how often its effect happened

contractVars == <<decision, effects>>

Allows == {"once", "always"}
Verdicts == Allows \union {"deny"}

ContractTypeOK ==
    /\ decision \in [Requests -> {"none", "pending"} \union Verdicts]
    /\ effects \in [Requests -> Nat]

ContractInit ==
    /\ decision = [r \in Requests |-> "none"]
    /\ effects = [r \in Requests |-> 0]

\* submit()
Raise(r) ==
    /\ decision[r] = "none"
    /\ decision' = [decision EXCEPT ![r] = "pending"]
    /\ UNCHANGED effects

\* resolve(), or the end of the time the user has.
Decide(r, verdict) ==
    /\ decision[r] = "pending"
    /\ decision' = [decision EXCEPT ![r] = verdict]
    /\ UNCHANGED effects

\* denyByPolicy()
Refuse(r) ==
    /\ decision[r] = "none"
    /\ decision' = [decision EXCEPT ![r] = "deny"]
    /\ UNCHANGED effects

\* proceed(), or the tool of a runtime that was told to go on.
Perform(r) ==
    /\ decision[r] \in Allows
    /\ decision[r] = "once" => effects[r] = 0
    /\ effects' = [effects EXCEPT ![r] = @ + 1]
    /\ UNCHANGED decision

ContractNext ==
    \E r \in Requests :
        \/ Raise(r)
        \/ \E verdict \in Verdicts : Decide(r, verdict)
        \/ Refuse(r)
        \/ Perform(r)

ContractSpec == ContractInit /\ [][ContractNext]_contractVars

=============================================================================
