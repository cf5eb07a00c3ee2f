----------------------------- MODULE AtomicSetup -----------------------------
(***************************************************************************)
(* What the set-up of the tunnel promises, as one step: a connecting       *)
(* process is given a reply, and then either has a tunnel that provides    *)
(* all the reply asks for, or is gone together with its tunnel.  The       *)
(* tunnel of a process is not touched in between.  TunnelSetup implements  *)
(* this with a query for each part of the reply.                           *)
(***************************************************************************)
CONSTANTS
  Reply, NoReply,
  Provides(_, _)    \* the configuration provides what the reply asks for

VARIABLES
  process, requested,
  device            \* {} or the configuration of the device the process holds

vars == <<process, requested, device>>

Init == process = "none" /\ requested = NoReply /\ device = {}

Start == process = "none" /\ process' = "connecting" /\ UNCHANGED <<requested, device>>

Push ==
  /\ process = "connecting" /\ process' = "setup"
  /\ requested' \in Reply
  /\ UNCHANGED device

Up ==
  /\ process = "setup" /\ process' = "connected"
  /\ \E cfg \in device' : device' = {cfg} /\ Provides(cfg, requested)
  /\ UNCHANGED requested

Fail == process = "setup" /\ process' = "none" /\ device' = {} /\ UNCHANGED requested

(* With persist-tun the device survives a restart. *)
Restart ==
  /\ process = "connected" /\ process' = "connecting"
  /\ device' \in {device, {}}
  /\ UNCHANGED requested

Exit ==
  /\ process \in {"connecting", "connected"} /\ process' = "none"
  /\ device' = {}
  /\ UNCHANGED requested

Next == Start \/ Push \/ Up \/ Fail \/ Restart \/ Exit

Spec == Init /\ [][Next]_vars

(* A set-up under way ends one way or the other. *)
SetupProgress == process = "setup" ~> process # "setup"
=============================================================================
