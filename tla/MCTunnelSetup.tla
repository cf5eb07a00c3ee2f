---------------------------- MODULE MCTunnelSetup ----------------------------
(* Instances of TunnelSetup for TLC: addresses of three bits. *)
EXTENDS TunnelSetup, FiniteSetsExt

MCAddress == [ip : {0, 3}, mask : {2}] \cup {[ip |-> 5, mask |-> 3]}
MCDns == {"d1", "d2"}
MCDomain == {"m1", "m2"}
MCRejectedIps == {0}
MCMulticastRange == [first |-> 7, mask |-> 3]
MCLocalNetworks == {{}, {[ip |-> 5, mask |-> 2], [ip |-> 3, mask |-> 2]}}

Route(first, mask, included) == [first |-> first, mask |-> mask, included |-> included]
Prefixes == {n \in Network : n.included}
Excluded(nets) == {[n EXCEPT !.included = FALSE] : n \in nets}

(* A reply per choice of up to two included networks and one excluded. *)
Pairs(nets) == kSubset(0, nets) \cup kSubset(1, nets) \cup kSubset(2, nets)
Ordered(nets) ==
  CHOOSE seq \in [1 .. Cardinality(nets) -> nets] : {seq[i] : i \in DOMAIN seq} = nets
RouteReplies ==
  {<<[NoReply EXCEPT !.local = <<[ip |-> 5, mask |-> 3]>>, !.routes = Ordered(nets)]>> :
     nets \in {incl \cup excl : incl \in Pairs(Prefixes),
                                excl \in kSubset(0, Excluded(Prefixes))
                                           \cup kSubset(1, Excluded(Prefixes))}}

(* Replies that differ in every part, one without and one with an address  *)
(* Android rejects, in every order.                                        *)
Everything == Route(0, 0, TRUE)
FewReplies ==
  {[local |-> <<[ip |-> 3, mask |-> 2]>>, routes |-> <<Everything>>,
    dns |-> <<"d1">>, domain |-> <<"m1">>],
   [local |-> <<[ip |-> 3, mask |-> 2]>>, routes |-> <<Route(4, 1, FALSE), Everything>>,
    dns |-> <<"d2", "d1">>, domain |-> <<"m2">>],
   [local |-> <<[ip |-> 5, mask |-> 3]>>, routes |-> <<Route(4, 1, TRUE)>>,
    dns |-> <<>>, domain |-> <<>>],
   [local |-> <<>>, routes |-> <<Everything>>, dns |-> <<"d1">>, domain |-> <<>>],
   [local |-> <<[ip |-> 0, mask |-> 2]>>, routes |-> <<>>, dns |-> <<>>, domain |-> <<>>]}

MCReplies == RouteReplies \cup [1 .. 3 -> FewReplies]

(* A server that pushes a route at first and another to the next process. *)
StaleReplies ==
  LET reply(route) == [NoReply EXCEPT !.local = <<[ip |-> 5, mask |-> 3]>>,
                                      !.routes = <<route>>]
  IN  {<<reply(Route(0, 1, TRUE)), reply(Route(4, 1, TRUE))>>}
=============================================================================
