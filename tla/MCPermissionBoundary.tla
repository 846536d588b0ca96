------------------------ MODULE MCPermissionBoundary ------------------------
(* Small instances of PermissionBoundary: two tool calls of the runtime, in  *)
(* one session or in two, and one tool call of the service.                  *)
EXTENDS PermissionBoundary, TLC

CONSTANTS r1, r2, r3, s1, s2

OneCall == r1 :> s1
TwoCallsTwoSessions == r1 :> s1 @@ r2 :> s2
CallAndServiceTool == r1 :> s1 @@ r3 :> s1

Call(tool, target) == [tool |-> tool, target |-> target]

\* One call for each path through handle().
EveryCall ==
    {Call("unmapped", "none"), Call("command", "none"),
     Call("websearch", "none"), Call("websearch", "inside"),
     Call("webfetch", "inside"), Call("webfetch", "outside"),
     Call("file", "none"), Call("file", "inside"), Call("file", "outside"),
     Call("move", "inside")}

\* One call for each way handleFrame can end.
RepresentativeCalls ==
    {Call("unmapped", "none"), Call("command", "none"), Call("file", "inside")}

=============================================================================
