-------------------------- MODULE MCPermissionGate --------------------------
(* A small instance of PermissionGate: two requests of one session, and    *)
(* a session without any.                                                   *)
EXTENDS PermissionGate, TLC

CONSTANTS r1, r2, s1, s2

MCRequests == {r1, r2}
MCSessions == {s1, s2}
MCSessionOfOne == r1 :> s1
MCSessionOf == r1 :> s1 @@ r2 :> s1

=============================================================================
