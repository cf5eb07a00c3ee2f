------------------------- MODULE TunnelRoutes_proofs -------------------------
(***************************************************************************)
(* Proofs about the routes a tunnel gets in TunnelSetup, for addresses of  *)
(* any width, any replies and any local networks: every variable keeps to  *)
(* its values, the routes of a device never overlap, and, where at most    *)
(* one network is excluded, they are the addresses asked for.              *)
(***************************************************************************)
EXTENDS TunnelSetup_proofs, NetworkSpace_proofs

-----------------------------------------------------------------------------
(* The networks of replies and routes are blocks, and blocks are networks. *)

LEMMA NetworkBlocks ==
  ASSUME NEW net \in Network
  PROVE  Shaped(net) /\ Block(net) /\ net.mask <= Width
<1>1. PICK ip \in Addresses, mask \in 0 .. Width, included \in BOOLEAN :
        net = NetworkOf(ip, mask, included)
  BY DEF Network
<1>2. Width \in Nat /\ mask \in Nat /\ mask <= Width /\ Width - mask \in 0 .. Width
  BY WidthAssumption
<1>3. PICK s \in Nat, p \in Nat, w \in Nat :
        s = PowerOfTwo[Width - mask] /\ p = PowerOfTwo[mask] /\ w = PowerOfTwo[Width]
  BY <1>2, PowerFacts
<1>4. s > 0 /\ w = p * s
  BY <1>2, <1>3, PowerFacts, PowerProduct
<1>5. ip \in Nat /\ ip < w
  BY <1>3 DEF Addresses
<1>6. PICK k \in Nat : ip - (ip % s) = k * s /\ k * s <= ip
  BY <1>4, <1>5, Division
<1>7. net = [first |-> k * s, mask |-> mask, included |-> included]
  BY <1>1, <1>3, <1>6 DEF NetworkOf
<1>8. Shaped(net)
  BY <1>7, <1>2 DEF Shaped
<1>9. Size(net) = s
  BY <1>7, <1>8, <1>2, <1>3, SizeOf
<1>10. k < p
  <2> SUFFICES ASSUME p <= k
               PROVE  FALSE
    BY <1>3, <1>6
  <2>1. p * s <= k * s
    BY TimesMonotone
  <2>2. PICK ks \in Nat : ks = k * s
    OBVIOUS
  <2> QED BY <2>1, <2>2, <1>4, <1>5, <1>6
<1> QED BY <1>2, <1>3, <1>7, <1>8, <1>9, <1>10 DEF Block

LEMMA MultipleMasked ==
  ASSUME NEW k \in Nat, NEW s \in Nat, s > 0
  PROVE  k * s - ((k * s) % s) = k * s
<1>1. PICK a \in Nat : a = k * s
  OBVIOUS
<1>2. PICK j \in Nat : a - (a % s) = j * s /\ j * s <= a /\ a < j * s + s
  BY Division
<1>3. PICK b \in Nat : b = j * s
  OBVIOUS
<1>4. ~(j < k)
  <2> SUFFICES ASSUME j < k
               PROVE  FALSE
    OBVIOUS
  <2>1. j + 1 \in Nat /\ j + 1 <= k
    OBVIOUS
  <2>2. (j + 1) * s <= k * s
    BY <2>1, TimesMonotone
  <2>3. (j + 1) * s = j * s + s
    OBVIOUS
  <2> QED BY <1>1, <1>2, <1>3, <2>2, <2>3
<1>5. ~(k < j)
  <2> SUFFICES ASSUME k < j
               PROVE  FALSE
    OBVIOUS
  <2>1. k + 1 \in Nat /\ k + 1 <= j
    OBVIOUS
  <2>2. (k + 1) * s <= j * s
    BY <2>1, TimesMonotone
  <2>3. (k + 1) * s = k * s + s
    OBVIOUS
  <2> QED BY <1>1, <1>2, <1>3, <2>2, <2>3
<1>6. j = k
  BY <1>4, <1>5
<1> QED BY <1>1, <1>2, <1>6

LEMMA BlocksAreNetworks ==
  ASSUME NEW net, Shaped(net), Block(net), net.mask <= Width
  PROVE  net \in Network
<1>1. net.mask \in 0 .. Width /\ net.included \in BOOLEAN /\ Width - net.mask \in 0 .. Width
  BY WidthAssumption DEF Shaped
<1>2. net.first \in Addresses
  BY BlockWithin
<1>3. PICK k \in Nat : net.first = k * Size(net)
  BY DEF Block
<1>4. PICK s \in Nat : s = Size(net) /\ s > 0 /\ s = PowerOfTwo[Width - net.mask]
  BY SizePositive, SizeOf
<1>5. net.first - (net.first % PowerOfTwo[Width - net.mask]) = net.first
  BY <1>3, <1>4, MultipleMasked
<1>6. net = NetworkOf(net.first, net.mask, net.included)
  BY <1>5 DEF NetworkOf, Shaped
<1> QED BY <1>1, <1>2, <1>6 DEF Network

-----------------------------------------------------------------------------
(* The values of the fields. *)

Tunnels == established \cup tun

RoutesTyped ==
  /\ Optional(mLocalIP, Address) /\ mRoutes \subseteq Network /\ Optional(mDomain, Domain)
  /\ Optional(mLastTunCfg, Config)
  /\ answer \in {"none", "ok", "cancel", "NOACTION", "OPEN_BEFORE_CLOSE"}
  /\ fresh \in BOOLEAN
  /\ Optional(established, Tunnel) /\ Optional(tun, Tunnel)

TunnelsApart == \A t \in Tunnels : Apart(t.routes)

RoutesInv == RoutesTyped /\ LoopInv /\ TunnelsApart

LEMMA InitRoutes == Init => RoutesInv
<1> SUFFICES ASSUME Init
             PROVE  RoutesInv
  OBVIOUS
<1>1. RoutesTyped /\ TunnelsApart
  BY DEF Init, RoutesTyped, TunnelsApart, Tunnels, Optional
<1>2. LoopInv
  BY EmptyQueue
     DEF Init, NothingGenerated, LoopInv, SpaceTyped, DoneApart, Apart, Queued
<1> QED BY <1>1, <1>2 DEF RoutesInv

LEMMA NetworkMade ==
  ASSUME NEW ip \in Addresses, NEW mask \in 0 .. Width, NEW included \in BOOLEAN
  PROVE  NetworkOf(ip, mask, included) \in Network
BY DEF Network

LEMMA InterfaceTyped ==
  ASSUME NEW address \in Address
  PROVE  InterfaceRoutes(address) \subseteq Network
<1>1. address.ip \in Addresses /\ address.mask \in 0 .. Width
  BY SetupAssumption
<1>2. NetworkOf(address.ip, address.mask, TRUE) \in Network
  BY <1>1, NetworkMade
<1> QED BY <1>2 DEF InterfaceRoutes

LEMMA LocalRoutes ==
  ASSUME NEW lan \in LocalNetworks, NEW address \in Address
  PROVE  LanRoutes(lan, address) \subseteq Network
<1>1. \A l \in lan : l.ip \in Addresses /\ l.mask \in 0 .. Width
  BY SetupAssumption
<1>2. \A l \in lan : NetworkOf(l.ip, l.mask, FALSE) \in Network
  BY <1>1, NetworkMade
<1> QED BY <1>2 DEF LanRoutes

LEMMA ArgumentTyped ==
  ASSUME Typed, Counted, NEW kind, ToHandle(kind)
  PROVE  /\ kind = "IFCONFIG" => Argument \in Address
         /\ kind = "ROUTE" => Argument \in Network
         /\ kind = "DNSDOMAIN" => Argument \in Domain
<1>1. /\ requested \in Reply /\ handled + 1 \in 1 .. OpenTunQuery(requested)
      /\ Script(requested)[handled + 1].kind = kind
  BY Handling DEF Typed
<1>2. /\ requested.local \in Seq(Address) /\ requested.routes \in Seq(Network)
      /\ requested.domain \in Seq(Domain)
  BY <1>1, ReplyParts
<1>3. ASSUME kind = "IFCONFIG"
      PROVE  Argument \in Address
  <2>1. Routes(requested) = 1 /\ Argument = requested.local[1]
    BY <1>1, <1>3, KindAt DEF Argument
  <2> QED BY <2>1, <1>2 DEF Routes
<1>4. ASSUME kind = "ROUTE"
      PROVE  Argument \in Network
  <2>1. PICK j \in 1 .. Len(requested.routes) : Argument = requested.routes[j]
    BY <1>1, <1>4, KindAt DEF Argument
  <2> QED BY <2>1, <1>2
<1>5. ASSUME kind = "DNSDOMAIN"
      PROVE  Argument \in Domain
  <2>1. Len(requested.domain) = 1 /\ Argument = requested.domain[1]
    BY <1>1, <1>5, KindAt DEF Argument
  <2> QED BY <2>1, <1>2
<1> QED BY <1>3, <1>4, <1>5

LEMMA ConfigTyped ==
  ASSUME Typed, RoutesTyped
  PROVE  getTunConfig \in Config
BY DEF Typed, RoutesTyped, Optional, getTunConfig, Config

(* What openTun hands to the process. *)
LEMMA OpenedTyped ==
  ASSUME Typed, RoutesInv
  PROVE  /\ [cfg |-> getTunConfig, routes |-> RoutesToAdd] \in Tunnel
         /\ Apart(RoutesToAdd)
<1>1. \A net \in ipsDone : Shaped(net) /\ Block(net)
  BY DEF RoutesInv, LoopInv, SpaceTyped
<1>2. RoutesToAdd \subseteq ipsDone /\ \A net \in RoutesToAdd : net.mask <= Width
  BY DEF RoutesToAdd, PositiveIPs
<1>3. RoutesToAdd \subseteq Network
  BY <1>1, <1>2, BlocksAreNetworks
<1>4. getTunConfig \in Config
  BY ConfigTyped DEF RoutesInv
<1>5. Apart(RoutesToAdd)
  BY <1>2 DEF RoutesInv, LoopInv, DoneApart, Apart
<1> QED BY <1>3, <1>4, <1>5 DEF Tunnel

(* The networks collected, with those of the local networks, are generated. *)
LEMMA BeginsRoutes ==
  ASSUME RoutesTyped, OpenTunBegins \/ OpenTunAddressRejected
  PROVE  mRoutes' \subseteq Network
<1>1. PICK local \in mLocalIP, lan \in LocalNetworks :
        mRoutes' = AddAll(mRoutes, LanRoutes(lan, local))
  BY DEF OpenTunBegins, OpenTunAddressRejected
<1>2. local \in Address
  BY DEF RoutesTyped, Optional
<1>3. LanRoutes(lan, local) \subseteq Network
  BY <1>2, LocalRoutes
<1> QED BY <1>1, <1>3 DEF AddAll, RoutesTyped

LEMMA NextRoutes == Typed /\ Counted /\ RoutesInv /\ [Next]_vars => RoutesInv'
<1> SUFFICES ASSUME Typed, Counted, RoutesInv, [Next]_vars
             PROVE  RoutesInv'
  OBVIOUS
<1>0. RoutesTyped /\ LoopInv /\ TunnelsApart
  BY DEF RoutesInv
<1>1. ASSUME UNCHANGED spaceVars
      PROVE  LoopInv'
  BY <1>0, <1>1 DEF spaceVars, LoopInv, SpaceTyped, DoneApart, Queued
<1>2. ASSUME \A t \in Tunnels' : t \in Tunnels
      PROVE  TunnelsApart'
  BY <1>0, <1>2 DEF TunnelsApart
<1>3. CASE StartProcess \/ Ask \/ KeepTun \/ AskOpenTun \/ getTunReopenStatus
           \/ OpenTunWithoutAddress \/ UNCHANGED vars
  <2>1. UNCHANGED <<fieldVars, fresh, established, tun, spaceVars>>
    BY <1>3 DEF StartProcess, Ask, KeepTun, AskOpenTun, getTunReopenStatus,
       OpenTunWithoutAddress, vars, processVars
  <2>2. answer' \in {answer, "none", "cancel", "NOACTION", "OPEN_BEFORE_CLOSE"}
    BY <1>3 DEF StartProcess, Ask, KeepTun, AskOpenTun, getTunReopenStatus,
       OpenTunWithoutAddress, vars, processVars, Answered
  <2>3. RoutesTyped'
    BY <1>0, <2>1, <2>2 DEF RoutesTyped, fieldVars
  <2>4. Tunnels' = Tunnels
    BY <2>1 DEF Tunnels
  <2> QED BY <1>1, <1>2, <2>1, <2>3, <2>4 DEF RoutesInv
<1>4. CASE ServiceRecreated
  <2>1. RoutesTyped'
    BY <1>0, <1>4 DEF ServiceRecreated, FieldsCleared, processVars, RoutesTyped, Optional
  <2>2. UNCHANGED spaceVars /\ Tunnels' = Tunnels
    BY <1>4 DEF ServiceRecreated, processVars, Tunnels
  <2> QED BY <1>1, <1>2, <2>1, <2>2 DEF RoutesInv
<1>5. CASE PushReply
  <2>1. UNCHANGED spaceVars /\ UNCHANGED fieldVars /\ established' = {} /\ tun' = tun
        /\ answer' = "none" /\ fresh' = FieldsEmpty
    BY <1>5 DEF PushReply
  <2>2. FieldsEmpty \in BOOLEAN
    BY DEF FieldsEmpty
  <2>3. RoutesTyped'
    BY <1>0, <2>1, <2>2 DEF RoutesTyped, fieldVars, Optional
  <2>4. \A t \in Tunnels' : t \in Tunnels
    BY <2>1 DEF Tunnels
  <2> QED BY <1>1, <1>2, <2>1, <2>3, <2>4 DEF RoutesInv
<1>6. CASE OpenTunAnswered \/ OpenTunRefused \/ InterruptedSetup \/ Restart \/ Exit
  <2>1. /\ UNCHANGED <<fieldVars, fresh, answer, spaceVars>>
        /\ tun' \in {tun, {}, established} /\ established' \in {established, {}}
    BY <1>6 DEF OpenTunAnswered, OpenTunRefused, InterruptedSetup, Restart, Exit,
       ProcessGone
  <2>2. RoutesTyped'
    BY <1>0, <2>1 DEF RoutesTyped, fieldVars, Optional
  <2>3. \A t \in Tunnels' : t \in Tunnels
    BY <2>1 DEF Tunnels
  <2> QED BY <1>1, <1>2, <2>1, <2>2, <2>3 DEF RoutesInv
<1>7. CASE setLocalIP
  <2>1. /\ ToHandle("IFCONFIG") /\ mLocalIP' = {Argument} /\ answer' = "ok"
        /\ mRoutes' = AddAll(mRoutes, InterfaceRoutes(Argument))
        /\ UNCHANGED <<mDomain, mLastTunCfg, fresh, established, tun, spaceVars>>
    BY <1>7 DEF setLocalIP, Answered, processVars
  <2>2. Argument \in Address
    BY <2>1, ArgumentTyped
  <2>3. InterfaceRoutes(Argument) \subseteq Network
    BY <2>2, InterfaceTyped
  <2>4. mRoutes' \subseteq Network
    BY <1>0, <2>1, <2>3 DEF AddAll, RoutesTyped
  <2>5. Optional(mLocalIP', Address)
    BY <2>1, <2>2 DEF Optional
  <2>6. RoutesTyped'
    BY <1>0, <2>1, <2>4, <2>5 DEF RoutesTyped
  <2>7. Tunnels' = Tunnels
    BY <2>1 DEF Tunnels
  <2> QED BY <1>1, <1>2, <2>1, <2>6, <2>7 DEF RoutesInv
<1>8. CASE addRoute
  <2>1. /\ ToHandle("ROUTE") /\ answer' = "ok"
        /\ mRoutes' = IF mLocalIP = {} THEN mRoutes ELSE addIP(mRoutes, Argument)
        /\ UNCHANGED <<mLocalIP, mDomain, mLastTunCfg, fresh, established, tun, spaceVars>>
    BY <1>8 DEF addRoute, Answered, processVars
  <2>2. Argument \in Network
    BY <2>1, ArgumentTyped
  <2>3. mRoutes' \subseteq Network
    BY <1>0, <2>1, <2>2 DEF addIP, RoutesTyped
  <2>4. RoutesTyped'
    BY <1>0, <2>1, <2>3 DEF RoutesTyped
  <2>5. Tunnels' = Tunnels
    BY <2>1 DEF Tunnels
  <2> QED BY <1>1, <1>2, <2>1, <2>4, <2>5 DEF RoutesInv
<1>9. CASE addDNS
  <2>1. /\ answer' = "ok"
        /\ UNCHANGED <<mLocalIP, mRoutes, mDomain, mLastTunCfg, fresh, established, tun,
                       spaceVars>>
    BY <1>9 DEF addDNS, Answered, processVars
  <2>2. RoutesTyped' /\ Tunnels' = Tunnels
    BY <1>0, <2>1 DEF RoutesTyped, Tunnels
  <2> QED BY <1>1, <1>2, <2>1, <2>2 DEF RoutesInv
<1>10. CASE setDomain
  <2>1. /\ ToHandle("DNSDOMAIN") /\ answer' = "ok"
        /\ mDomain' \in {mDomain, {Argument}}
        /\ UNCHANGED <<mLocalIP, mRoutes, mLastTunCfg, fresh, established, tun, spaceVars>>
    BY <1>10 DEF setDomain, Answered, processVars
  <2>2. Argument \in Domain
    BY <2>1, ArgumentTyped
  <2>3. Optional(mDomain', Domain)
    BY <1>0, <2>1, <2>2 DEF Optional, RoutesTyped
  <2>4. RoutesTyped' /\ Tunnels' = Tunnels
    BY <1>0, <2>1, <2>3 DEF RoutesTyped, Tunnels
  <2> QED BY <1>1, <1>2, <2>1, <2>4 DEF RoutesInv
<1>11. CASE OpenTunAddressRejected
  <2>1. /\ answer' = "cancel"
        /\ UNCHANGED <<mLocalIP, mDomain, mLastTunCfg, fresh, established, tun, spaceVars>>
    BY <1>11 DEF OpenTunAddressRejected, Answered, processVars
  <2>2. mRoutes' \subseteq Network
    BY <1>0, <1>11, BeginsRoutes
  <2>3. RoutesTyped' /\ Tunnels' = Tunnels
    BY <1>0, <2>1, <2>2 DEF RoutesTyped, Tunnels
  <2> QED BY <1>1, <1>2, <2>1, <2>3 DEF RoutesInv
<1>12. CASE OpenTunBegins
  <2>1. /\ generateIPList(mRoutes')
        /\ UNCHANGED <<mLocalIP, mDomain, mLastTunCfg, fresh, answer, established, tun>>
    BY <1>12 DEF OpenTunBegins, processVars
  <2>2. mRoutes' \subseteq Network
    BY <1>0, <1>12, BeginsRoutes
  <2>3. RoutesTyped' /\ Tunnels' = Tunnels
    BY <1>0, <2>1, <2>2 DEF RoutesTyped, Tunnels
  <2>4. PICK nets : nets = mRoutes'
    OBVIOUS
  <2>5. generateIPList(nets) /\ \A n \in nets : Shaped(n) /\ Block(n)
    BY <2>1, <2>2, <2>4, NetworkBlocks
  <2>6. LoopInv'
    BY <2>5, StartsSound
  <2> QED BY <1>2, <2>3, <2>6 DEF RoutesInv
<1>13. CASE Generate
  <2>1. GenerateStep /\ UNCHANGED <<fieldVars, fresh, answer, established, tun>>
    BY <1>13 DEF Generate, processVars
  <2>2. LoopInv'
    BY <1>0, <2>1, LoopStep
  <2>3. RoutesTyped' /\ Tunnels' = Tunnels
    BY <1>0, <2>1 DEF RoutesTyped, fieldVars, Tunnels
  <2> QED BY <1>2, <2>2, <2>3 DEF RoutesInv
<1>14. CASE OpenTunEnds
  <2>1. PICK t : t = [cfg |-> getTunConfig, routes |-> RoutesToAdd]
    OBVIOUS
  <2>2. t \in Tunnel /\ Apart(t.routes) /\ getTunConfig \in Config
    BY <2>1, <1>0, OpenedTyped, ConfigTyped
  <2>3. /\ mLocalIP' = {} /\ mRoutes' = {} /\ mDomain' = {} /\ mLastTunCfg' = {getTunConfig}
        /\ networks' = EmptyBag /\ currentNet' = {} /\ ipsDone' = {}
        /\ UNCHANGED <<fresh, tun>>
        /\ answer' \in {"ok", "cancel"} /\ established' \in {established, {t}}
    BY <1>14, <2>1 DEF OpenTunEnds, FieldsCleared, processVars, Answered
  <2>4. RoutesTyped'
    BY <1>0, <2>2, <2>3 DEF RoutesTyped, Optional
  <2>5. LoopInv'
    BY <2>3, EmptyQueue DEF LoopInv, SpaceTyped, DoneApart, Apart, Queued
  <2>6. \A u \in Tunnels' : u \in Tunnels \/ u = t
    BY <2>3 DEF Tunnels
  <2>7. TunnelsApart'
    BY <1>0, <2>2, <2>6 DEF TunnelsApart
  <2> QED BY <2>4, <2>5, <2>7 DEF RoutesInv
<1> QED
  BY <1>3, <1>4, <1>5, <1>6, <1>7, <1>8, <1>9, <1>10, <1>11, <1>12, <1>13, <1>14
     DEF Next, SetupStep, ManagementThread

-----------------------------------------------------------------------------
(* Which addresses are routed, where Simple says that the loop is exact.   *)

FollowsNetworks(t) ==
  \A address \in Addresses :
    address \notin AddressesOf(MulticastRange) =>
      ((\E r \in t.routes : address \in AddressesOf(r))
         <=> Includes(t.cfg.routes, address))

CarvingInv ==
  /\ IsQueue(networks) /\ LoopEnds
  /\ opening /\ Simple(mRoutes) => Carving(mRoutes)
  /\ \A t \in Tunnels : Simple(t.cfg.routes) => FollowsNetworks(t)

LEMMA HoldsAddress ==
  ASSUME NEW net, Shaped(net), NEW a \in Int
  PROVE  a \in AddressesOf(net) <=> Holds(net, a)
BY LastAddress DEF AddressesOf, Holds

(* Of the included networks an address is in there is one with the largest *)
(* mask; an excluded one with a larger mask is within it.                  *)
LEMMA IncludesSimple ==
  ASSUME NEW nets, nets \subseteq Network, Simple(nets), NEW a \in Int
  PROVE  Includes(nets, a) <=> InIncluded(nets, a) /\ ~InExcluded(nets, a)
<1>1. \A n \in nets : /\ Shaped(n) /\ Block(n) /\ n.mask <= Width /\ n.mask \in Nat
                      /\ (a \in AddressesOf(n) <=> Holds(n, a))
  <2> SUFFICES ASSUME NEW n \in nets
               PROVE  /\ Shaped(n) /\ Block(n) /\ n.mask <= Width /\ n.mask \in Nat
                      /\ (a \in AddressesOf(n) <=> Holds(n, a))
    OBVIOUS
  <2>1. Shaped(n) /\ Block(n) /\ n.mask <= Width
    BY NetworkBlocks
  <2> QED BY <2>1, HoldsAddress DEF Shaped
<1>2. ASSUME Includes(nets, a)
      PROVE  InIncluded(nets, a) /\ ~InExcluded(nets, a)
  <2>1. PICK n \in nets :
          /\ n.included /\ Holds(n, a)
          /\ \A other \in nets : Holds(other, a) => other.mask <= n.mask
    BY <1>1, <1>2 DEF Includes
  <2>2. ASSUME NEW e \in nets, ~e.included, Holds(e, a)
        PROVE  FALSE
    <3>1. e.mask <= n.mask /\ n.mask <= Width
      BY <1>1, <2>1, <2>2
    <3>2. /\ Shaped(e) /\ Block(e) /\ Shaped(n) /\ Block(n)
          /\ e.first <= a /\ a <= Last(e) /\ n.first <= a /\ a <= Last(n)
      BY <1>1, <2>1, <2>2 DEF Holds
    <3>3. containsNet(e, n)
      BY <3>1, <3>2, Nested
    <3>4. n # e
      BY <2>1, <2>2
    <3> QED BY <2>2, <3>3, <3>4 DEF Simple
  <2> QED BY <2>1, <2>2 DEF InIncluded, InExcluded
<1>3. ASSUME InIncluded(nets, a), ~InExcluded(nets, a)
      PROVE  Includes(nets, a)
  <2> DEFINE T == {k \in Nat : \E n \in nets : Holds(n, a) /\ k = Width - n.mask}
  <2>1. T # {}
    <3>1. PICK n \in nets : Holds(n, a)
      BY <1>3 DEF InIncluded
    <3>2. Width - n.mask \in Nat
      BY <1>1, WidthAssumption
    <3> QED BY <3>1, <3>2
  <2>2. T \subseteq Nat
    OBVIOUS
  <2>3. PICK k \in T : \A j \in T : k <= j
    <3> HIDE DEF T
    <3> QED BY <2>1, <2>2, LeastNumber
  <2>4. PICK n \in nets : Holds(n, a) /\ k = Width - n.mask
    BY <2>3
  <2>5. ASSUME NEW other \in nets, Holds(other, a)
        PROVE  other.mask <= n.mask
    <3>1. Width - other.mask \in T
      BY <1>1, <2>5, WidthAssumption
    <3>2. Width - n.mask <= Width - other.mask
      BY <2>3, <2>4, <3>1
    <3>3. n.mask \in Nat /\ other.mask \in Nat
      BY <1>1
    <3> QED BY <3>2, <3>3, WidthAssumption
  <2>6. n.included
    BY <1>3, <2>4 DEF InExcluded
  <2> QED BY <1>1, <2>4, <2>5, <2>6 DEF Includes
<1> QED BY <1>2, <1>3

(* Multicast apart, RoutesToAdd leaves out nothing of what is included.    *)
LEMMA RoutesCarved ==
  ASSUME LoopInv, CarvingInv, mRoutes \subseteq Network, opening, Simple(mRoutes), Generated,
         NEW a \in Addresses, a \notin AddressesOf(MulticastRange)
  PROVE  (\E r \in RoutesToAdd : a \in AddressesOf(r)) <=> Includes(mRoutes, a)
<1>0. a \in Int
  BY DEF Addresses
<1>1. \A n \in ipsDone : Shaped(n) /\ n.mask <= Width /\ (a \in AddressesOf(n) <=> Holds(n, a))
  <2> SUFFICES ASSUME NEW n \in ipsDone
               PROVE  Shaped(n) /\ n.mask <= Width /\ (a \in AddressesOf(n) <=> Holds(n, a))
    OBVIOUS
  <2>1. Shaped(n)
    BY DEF LoopInv, SpaceTyped
  <2>2. n.mask <= Width
    BY DEF CarvingInv, Carving, Live
  <2> QED BY <1>0, <2>1, <2>2, HoldsAddress
<1>2. ASSUME NEW n \in ipsDone, Holds(n, a)
      PROVE  ~containsNet(MulticastRange, n)
  <2> SUFFICES ASSUME containsNet(MulticastRange, n)
               PROVE  FALSE
    OBVIOUS
  <2>1. MulticastRange.first \in Nat /\ MulticastRange.mask \in Nat
    BY SetupAssumption
  <2>2. Last(MulticastRange) \in Int
    BY <2>1, SizeNumber DEF Last
  <2>3. n.first \in Int /\ Last(n) \in Int
    BY <1>1, LastAddress
  <2>4. MulticastRange.first <= a /\ a <= Last(MulticastRange)
    BY <1>0, <1>2, <2>1, <2>2, <2>3 DEF containsNet, Holds
  <2> QED BY <1>0, <2>1, <2>2, <2>4 DEF AddressesOf
<1>3. (\E r \in RoutesToAdd : a \in AddressesOf(r)) <=> InIncluded(ipsDone, a)
  BY <1>1, <1>2 DEF RoutesToAdd, PositiveIPs, InIncluded
<1>4. InIncluded(ipsDone, a) <=> InIncluded(mRoutes, a) /\ ~InExcluded(mRoutes, a)
  <2>1. Carving(mRoutes) /\ LoopEnds
    BY DEF CarvingInv
  <2>2. PICK nets : nets = mRoutes
    OBVIOUS
  <2>3. Carving(nets)
    BY <2>1, <2>2
  <2> QED BY <1>0, <2>1, <2>2, <2>3, Carved
<1>5. Includes(mRoutes, a) <=> InIncluded(mRoutes, a) /\ ~InExcluded(mRoutes, a)
  BY <1>0, IncludesSimple
<1> QED BY <1>3, <1>4, <1>5

LEMMA InitCarving == Init => CarvingInv
BY EmptyQueue DEF Init, NothingGenerated, CarvingInv, IsQueue, LoopEnds, Queued, Tunnels

LEMMA NextCarving == Typed /\ Counted /\ RoutesInv /\ CarvingInv /\ [Next]_vars => CarvingInv'
<1> SUFFICES ASSUME Typed, Counted, RoutesInv, CarvingInv, [Next]_vars
             PROVE  CarvingInv'
  OBVIOUS
<1>0. RoutesTyped /\ LoopInv
  BY DEF RoutesInv
<1> DEFINE Queue == IsQueue(networks) /\ LoopEnds
           Loop == opening /\ Simple(mRoutes) => Carving(mRoutes)
           Routed == \A t \in Tunnels : Simple(t.cfg.routes) => FollowsNetworks(t)
<1>1. Queue /\ Loop /\ Routed
  BY DEF CarvingInv
<1>2. ASSUME UNCHANGED spaceVars
      PROVE  Queue'
  BY <1>1, <1>2 DEF spaceVars, IsQueue, LoopEnds, Queued
<1>3. ASSUME UNCHANGED spaceVars, opening' => opening /\ mRoutes' = mRoutes
      PROVE  Loop'
  <2> SUFFICES ASSUME opening', Simple(mRoutes')
               PROVE  Carving(mRoutes)'
    OBVIOUS
  <2>1. PICK nets : nets = mRoutes
    OBVIOUS
  <2>2. Carving(nets) /\ nets = mRoutes'
    BY <1>1, <1>3, <2>1
  <2>3. Carving(nets)'
    BY <2>2, <1>3 DEF spaceVars, Carving, LoopInOrder, Live, Queued
  <2> QED BY <2>2, <2>3
<1>4. ASSUME \A t \in Tunnels' : t \in Tunnels
      PROVE  Routed'
  BY <1>1, <1>4 DEF FollowsNetworks
<1>5. CASE OpenTunBegins
  <2>1. generateIPList(mRoutes') /\ UNCHANGED <<established, tun>>
    BY <1>5 DEF OpenTunBegins, processVars
  <2>2. mRoutes' \subseteq Network
    BY <1>0, <1>5, BeginsRoutes
  <2>3. PICK nets : nets = mRoutes'
    OBVIOUS
  <2>4. generateIPList(nets) /\ \A n \in nets : Shaped(n) /\ n.mask <= Width
    BY <2>1, <2>2, <2>3, NetworkBlocks
  <2>5. Queue'
    <3>1. CASE nets = {}
      <4>1. networks' = EmptyBag
        BY <2>4, <3>1 DEF generateIPList
      <4> QED BY <4>1, EmptyQueue DEF IsQueue, LoopEnds, Queued
    <3>2. CASE nets # {}
      <4>1. \E n \in nets \cup Smallest(SetToBag(nets)) :
              networks' = SetToBag(nets \ {n}) /\ currentNet' # {}
        BY <2>4, <3>2 DEF generateIPList
      <4> QED BY <4>1, QueueMade DEF LoopEnds
    <3> QED BY <3>1, <3>2
  <2>6. Loop'
    <3> SUFFICES ASSUME Simple(mRoutes')
                 PROVE  Carving(mRoutes)'
      OBVIOUS
    <3>1. OneException(nets)
      BY <2>3 DEF Simple, OneException
    <3>2. Carving(nets)'
      BY <3>1, <2>4, StartsCarving
    <3> QED BY <3>2, <2>3
  <2>7. Tunnels' = Tunnels
    BY <2>1 DEF Tunnels
  <2> QED BY <1>4, <2>5, <2>6, <2>7 DEF CarvingInv
<1>6. CASE Generate
  <2>1. opening /\ GenerateStep /\ UNCHANGED <<mRoutes, established, tun>>
    BY <1>6 DEF Generate, fieldVars, processVars
  <2>2. Queue'
    BY <1>1, <2>1, QueueStep
  <2>3. Loop'
    <3> SUFFICES ASSUME Simple(mRoutes')
                 PROVE  Carving(mRoutes)'
      OBVIOUS
    <3>1. PICK nets : nets = mRoutes
      OBVIOUS
    <3>2. OneException(nets) /\ nets = mRoutes' /\ Carving(nets)
      BY <1>1, <2>1, <3>1 DEF Simple, OneException
    <3>3. Carving(nets)'
      BY <3>2, <1>0, <1>1, <2>1, CarvingStep
    <3> QED BY <3>2, <3>3
  <2>4. Tunnels' = Tunnels
    BY <2>1 DEF Tunnels
  <2> QED BY <1>4, <2>2, <2>3, <2>4 DEF CarvingInv
<1>7. CASE OpenTunEnds
  <2>1. PICK t : t = [cfg |-> getTunConfig, routes |-> RoutesToAdd]
    OBVIOUS
  <2>2. /\ opening /\ Generated /\ opening' = FALSE /\ networks' = EmptyBag
        /\ UNCHANGED tun /\ established' \in {established, {t}}
    BY <1>7, <2>1 DEF OpenTunEnds, processVars
  <2>3. Simple(t.cfg.routes) => FollowsNetworks(t)
    <3>1. t.cfg.routes = mRoutes /\ t.routes = RoutesToAdd
      BY <2>1 DEF getTunConfig
    <3>2. mRoutes \subseteq Network
      BY <1>0 DEF RoutesTyped
    <3> QED BY <3>1, <3>2, <1>0, <2>2, RoutesCarved DEF FollowsNetworks
  <2>4. Queue'
    BY <2>2, EmptyQueue DEF IsQueue, LoopEnds, Queued
  <2>5. \A u \in Tunnels' : u \in Tunnels \/ u = t
    BY <2>2 DEF Tunnels
  <2>6. Routed'
    BY <1>1, <2>3, <2>5 DEF FollowsNetworks
  <2> QED BY <2>2, <2>4, <2>6 DEF CarvingInv
<1>8. ASSUME ~OpenTunBegins, ~Generate, ~OpenTunEnds
      PROVE  /\ UNCHANGED spaceVars
             /\ opening' => opening /\ mRoutes' = mRoutes
             /\ \A t \in Tunnels' : t \in Tunnels
  <2>1. CASE ManagementThread
    <3>1. UNCHANGED <<spaceVars, opening, established, tun>> /\ ~opening
      BY <1>8, <2>1 DEF ManagementThread, setLocalIP, addRoute, addDNS, setDomain,
         getTunReopenStatus, OpenTunWithoutAddress, OpenTunAddressRejected, processVars,
         ToHandle
    <3> QED BY <3>1 DEF Tunnels
  <2>2. CASE ServiceRecreated
    BY <2>2 DEF ServiceRecreated, Quiet, processVars, Tunnels
  <2>3. CASE ~ManagementThread /\ ~ServiceRecreated
    <3>1. /\ UNCHANGED <<spaceVars, opening, mRoutes>>
          /\ established' \in {established, {}} /\ tun' \in {tun, {}, established}
      BY <2>3 DEF Next, vars, fieldVars, StartProcess, PushReply, SetupStep,
         Ask, KeepTun, AskOpenTun, OpenTunAnswered, OpenTunRefused, InterruptedSetup,
         ProcessGone, Restart, Exit, processVars
    <3> QED BY <3>1 DEF Tunnels
  <2> QED BY <2>1, <2>2, <2>3
<1> QED BY <1>2, <1>3, <1>4, <1>5, <1>6, <1>7, <1>8 DEF CarvingInv

-----------------------------------------------------------------------------
(* Every variable of the set-up keeps to its values: setLocalIP and        *)
(* setDomain leave one at most, openTun makes one device at a time, and    *)
(* the routes split off by generateIPList are networks of the address      *)
(* space that start where their mask lets them.                            *)
THEOREM TunnelTypes == Spec => []TypeOK
<1>1. IInv /\ RoutesInv /\ [Next]_vars => (IInv /\ RoutesInv)'
  BY NextIInv, NextRoutes DEF IInv
<1>2. IInv /\ RoutesInv => TypeOK
  <2> SUFFICES ASSUME Typed, Counted, RoutesTyped
               PROVE  TypeOK
    BY DEF IInv, RoutesInv
  <2>1. OpenTunQuery(requested) \in Nat
    BY Numbers
  <2>2. sent \in 0 .. OpenTunQuery(requested) /\ handled \in 0 .. sent
    BY <2>1 DEF Typed, Counted
  <2> QED BY <2>2 DEF Typed, Counted, RoutesTyped, TypeOK
<1> QED BY InitIInv, InitRoutes, <1>1, <1>2, PTL DEF Spec

(* The routes given to Builder.addRoute never overlap, whatever networks   *)
(* the replies and the local networks include and exclude: what the loop   *)
(* of generateIPList has done ends before the network it is at.            *)
THEOREM RoutesNeverOverlap == Spec => []RoutesDisjoint
<1>1. IInv /\ RoutesInv /\ [Next]_vars => (IInv /\ RoutesInv)'
  BY NextIInv, NextRoutes DEF IInv
<1>2. RoutesInv => RoutesDisjoint
  <2> SUFFICES ASSUME RoutesInv, NEW t \in tun, NEW a \in t.routes, NEW b \in t.routes, a # b
               PROVE  ~Overlap(a, b)
    BY DEF RoutesDisjoint
  <2>1. t.routes \subseteq Network
    BY DEF RoutesInv, RoutesTyped, Optional, Tunnel
  <2>2. /\ a.first \in Int /\ Last(a) \in Int /\ b.first \in Int /\ Last(b) \in Int
    BY <2>1, NetworkBlocks, LastAddress
  <2>3. Separate(a, b)
    BY DEF RoutesInv, TunnelsApart, Tunnels, Apart
  <2> QED BY <2>2, <2>3 DEF Separate, Overlap
<1> QED BY InitIInv, InitRoutes, <1>1, <1>2, PTL DEF Spec

(* Where a configuration excludes at most one network and includes none    *)
(* within it, an address outside the multicast range goes through the      *)
(* tunnel exactly when the most specific network it is in is included:     *)
(* generateIPList and the filter of openTun add and lose no address.  (The *)
(* route to the first DNS server that openTun adds on Samsung devices is   *)
(* not in the model.)                                                      *)
THEOREM RoutesFollowNetworks == Spec => []RoutesMostSpecific
<1>1. IInv /\ RoutesInv /\ CarvingInv /\ [Next]_vars => (IInv /\ RoutesInv /\ CarvingInv)'
  BY NextIInv, NextRoutes, NextCarving DEF IInv
<1>2. CarvingInv => RoutesMostSpecific
  BY DEF CarvingInv, Tunnels, FollowsNetworks, RoutesMostSpecific
<1> QED BY InitIInv, InitRoutes, InitCarving, <1>1, <1>2, PTL DEF Spec

=============================================================================
