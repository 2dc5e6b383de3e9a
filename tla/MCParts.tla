------------------------------ MODULE MCParts ------------------------------
(***************************************************************************)
(* The small instances of Parts that TLC checks. The tree of a session,    *)
(* where any of several things may happen, is checked in scenarios of a    *)
(* few of them each.                                                       *)
(***************************************************************************)
EXTENDS Parts

\* What may happen in Refresh is drawn from its scenarios.
Quiet == [open |-> NodeGroups, observes |-> 0, changes |-> 0, streams |-> 0,
          failures |-> 0, sheds |-> 0, actions |-> 0, ends |-> 0]
OneGroup == [Quiet EXCEPT !.open = {Containers}, !.streams = 1]
Scenarios ==
  { \* the user opens or closes branches while the daemon changes
    [Quiet EXCEPT !.observes = 1, !.changes = 1],
    \* two events, whose flushes can overlap
    [OneGroup EXCEPT !.changes = 2],
    \* a call fails
    [OneGroup EXCEPT !.changes = 1, !.failures = 1],
    \* the host sheds a group whose parent comes later, and the user may reopen it
    [OneGroup EXCEPT !.changes = 1, !.sheds = 1],
    [OneGroup EXCEPT !.streams = 0, !.observes = 1, !.sheds = 1],
    \* the user acts on a row while the daemon changes, and no stream opens
    [OneGroup EXCEPT !.streams = 0, !.changes = 1, !.actions = 1],
    \* the event stream ends and opens again, or the session ends
    [OneGroup EXCEPT !.changes = 1, !.streams = 2, !.ends = 1] }
=============================================================================
