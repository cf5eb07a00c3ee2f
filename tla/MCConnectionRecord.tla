------------------------ MODULE MCConnectionRecord ------------------------
(* ConnectionRecord for TLC: the behaviours up to a start that overlaps, and *)
(* while that start is all that is queued, so that it can be cancelled; with *)
(* one new service process, those of which something is still claimed.       *)
EXTENDS ConnectionRecord

OverlapNotTaken ==
  "overlap" \in disturbed =>
    /\ Len(tasks) = 1 /\ tasks[1].kind \in {"connect", "cancelled"}
    /\ running = "none" /\ reports = <<>>

RestartUndivided ==
  "restart" \in disturbed => disturbed \cap {"overlap", "recreation", "lag"} = {}

OneRestart == "restart" \in disturbed => ~ServiceProcessDies
=============================================================================
