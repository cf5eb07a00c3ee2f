---------------------------- MODULE NetworkSpace ----------------------------
(***************************************************************************)
(* net.rroadvpn.openvpn.core.NetworkSpace: the networks a tunnel includes  *)
(* and excludes, and generateIPList, which turns them into networks that   *)
(* do not overlap.                                                         *)
(*                                                                         *)
(* The loop of generateIPList is a step per iteration, an action per       *)
(* branch.  PriorityQueue.poll takes any of several equal smallest         *)
(* elements, as Java leaves it open which.  A network is its first         *)
(* address, its mask and its type; null is the empty set.                  *)
(***************************************************************************)
EXTENDS Integers, Bags

CONSTANT Width  \* bits of an address: 32 in the code

ASSUME WidthAssumption == Width \in Nat

VARIABLES
  networks,    \* the priority queue, a bag: equal networks may be in it twice
  currentNet,  \* {} or the network the loop is at
  ipsDone

spaceVars == <<networks, currentNet, ipsDone>>

-----------------------------------------------------------------------------
PowerOfTwo[n \in 0 .. Width] == IF n = 0 THEN 1 ELSE 2 * PowerOfTwo[n - 1]

Addresses == 0 .. PowerOfTwo[Width] - 1

(* A mask beyond Width, which split produces of a single address, is one address. *)
Size(net) == IF net.mask < Width THEN PowerOfTwo[Width - net.mask] ELSE 1

Last(net) == net.first + Size(net) - 1

SameNet(a, b) == a.first = b.first /\ a.mask = b.mask

(* compareTo: by first address, smaller networks first. *)
Before(a, b) == a.first < b.first \/ (a.first = b.first /\ a.mask > b.mask)

containsNet(a, b) == a.first <= b.first /\ Last(b) <= Last(a)

LowerHalf(net) == [net EXCEPT !.mask = @ + 1]

UpperHalf(net) == [LowerHalf(net) EXCEPT !.first = Last(LowerHalf(net)) + 1]

(* TreeSet.add: a network equal up to its type is already there. *)
addIP(nets, net) ==
  nets \cup {n \in {net} : \A other \in nets : ~SameNet(other, net)}

Add(queue, net) == queue (+) SetToBag({net})

AddIfMissing(queue, net) ==
  IF \E n \in BagToSet(queue) : SameNet(n, net) THEN queue ELSE Add(queue, net)

Smallest(queue) ==
  {n \in BagToSet(queue) : \A other \in BagToSet(queue) : ~Before(other, n)}

-----------------------------------------------------------------------------
NothingGenerated ==
  /\ networks = EmptyBag
  /\ currentNet = {}
  /\ ipsDone = {}

generateIPList(nets) ==
  /\ ipsDone' = {}
  /\ IF nets = {}
     THEN currentNet' = {} /\ networks' = EmptyBag
     ELSE \E n \in Smallest(SetToBag(nets)) :
            /\ currentNet' = {n}
            /\ networks' = SetToBag(nets \ {n})

(* Faulty variant: off by one. *)
OverlapsStrictly(current, next) == Last(current) > next.first

Overlaps(current, next) == Last(current) >= next.first

WithinNext(current, next) == current.first = next.first /\ current.mask >= next.mask

LastOne(current) ==
  /\ networks = EmptyBag
  /\ ipsDone' = addIP(ipsDone, current)
  /\ currentNet' = {}
  /\ UNCHANGED networks

NoOverlap(current, next, rest) ==
  /\ ~Overlaps(current, next)
  /\ ipsDone' = addIP(ipsDone, current)
  /\ currentNet' = {next}
  /\ networks' = rest

ForgetCurrent(current, next, rest) ==
  /\ Overlaps(current, next) /\ WithinNext(current, next)
  /\ current.included = next.included
  /\ currentNet' = {next}
  /\ networks' = rest
  /\ UNCHANGED ipsDone

SplitNext(current, next, rest) ==
  /\ Overlaps(current, next) /\ WithinNext(current, next)
  /\ current.included # next.included
  /\ LET withUpper == AddIfMissing(rest, UpperHalf(next))
     IN  networks' = IF Last(LowerHalf(next)) = Last(current)
                     THEN withUpper
                     ELSE AddIfMissing(withUpper, LowerHalf(next))
  /\ UNCHANGED <<currentNet, ipsDone>>

(* Faulty variant: the network looked at stays in the queue. *)
IgnoreNextStays(current, next, rest) ==
  /\ Overlaps(current, next) /\ ~WithinNext(current, next)
  /\ current.included = next.included
  /\ UNCHANGED <<networks, currentNet, ipsDone>>

IgnoreNext(current, next, rest) ==
  /\ Overlaps(current, next) /\ ~WithinNext(current, next)
  /\ current.included = next.included
  /\ networks' = rest
  /\ UNCHANGED <<currentNet, ipsDone>>

(* Faulty variant: only the lower half is kept of the network that is split. *)
SplitCurrentLosesUpper(current, next, rest) ==
  /\ Overlaps(current, next) /\ ~WithinNext(current, next)
  /\ current.included # next.included
  /\ currentNet' = {LowerHalf(current)}
  /\ networks' = Add(rest, next)
  /\ UNCHANGED ipsDone

SplitCurrent(current, next, rest) ==
  /\ Overlaps(current, next) /\ ~WithinNext(current, next)
  /\ current.included # next.included
  /\ currentNet' = {LowerHalf(current)}
  /\ networks' = IF UpperHalf(current).mask = next.mask
                 THEN Add(rest, next)
                 ELSE Add(Add(rest, UpperHalf(current)), next)
  /\ UNCHANGED ipsDone

(* One iteration of the loop; it ends when there is no current network. *)
GenerateStep ==
  \E current \in currentNet :
    \/ LastOne(current)
    \/ \E next \in Smallest(networks) :
         LET rest == networks (-) SetToBag({next})
         IN  \/ NoOverlap(current, next, rest)
             \/ ForgetCurrent(current, next, rest)
             \/ SplitNext(current, next, rest)
             \/ IgnoreNext(current, next, rest)
             \/ SplitCurrent(current, next, rest)

Generated == currentNet = {}

(* getPositiveIPList, on Android 4.4 and later. *)
PositiveIPs == {n \in ipsDone : n.included}

=============================================================================
