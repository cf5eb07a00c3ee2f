----------------------------- MODULE TunnelSetup -----------------------------
(***************************************************************************)
(* The set-up of the tunnel device.  After each PUSH_REPLY the OpenVPN     *)
(* process describes the tunnel it wants with NEED-OK queries, one at a    *)
(* time (do_open_tun, open_tun); the management thread collects them in    *)
(* the fields of OpenVPNService and opens the device with openTun.         *)
(*                                                                         *)
(* Whether a pushed route is included (its device and gateway) is part of  *)
(* the reply; the MTU is the same in every reply, only IPv4 is used, and   *)
(* Android is 5.0 or later.  null is the empty set.                        *)
(***************************************************************************)
EXTENDS NetworkSpace, Sequences

CONSTANTS
  Address,            \* what IFCONFIG can say: the address and its mask
  Dns, Domain,
  Replies,            \* the replies a server may give in turn, a bound on set-ups
  LocalNetworks,      \* the sets of local networks the device may be in
  RejectedIps,        \* addresses Builder.addAddress refuses
  MulticastRange,
  AllowLocalLAN, PersistTun

NetworkOf(ip, mask, included) ==
  [first |-> ip - (ip % PowerOfTwo[Width - mask]), mask |-> mask, included |-> included]

(* addRoute normalises: a network starts where its mask lets it. *)
Network == {NetworkOf(ip, mask, included) :
              ip \in Addresses, mask \in 0 .. Width, included \in BOOLEAN}

AtMostOne(S) == {<<>>} \cup {<<x>> : x \in S}

Reply == [local : AtMostOne(Address), routes : Seq(Network),
          dns : Seq(Dns), domain : AtMostOne(Domain)]

NoReply == [local |-> <<>>, routes |-> <<>>, dns |-> <<>>, domain |-> <<>>]

ASSUME SetupAssumption ==
  /\ Address \subseteq [ip : Addresses, mask : 0 .. Width]
  /\ Replies \subseteq Seq(Reply)
  /\ LocalNetworks \subseteq SUBSET [ip : Addresses, mask : 0 .. Width]
  /\ MulticastRange \in [first : Nat, mask : Nat]
  /\ AllowLocalLAN \in BOOLEAN /\ PersistTun \in BOOLEAN

VARIABLES
  mLocalIP, mDnslist, mRoutes, mDomain,   \* the tunnel collected so far
  mLastTunCfg,
  process,      \* "none", "connecting", "setup" or "connected"
  replies,      \* those still to come
  requested,    \* the reply the last set-up is for
  sent,         \* how many of its queries the process has written
  handled,      \* how many of those the management thread has handled
  answer,       \* the answer the process has not yet read, or "none"
  opening,      \* the management thread is in openTun
  established,  \* the device openTun got, until the process has it
  tun,          \* the device the process holds
  fresh         \* history: no field was set when the set-up began

fieldVars == <<mLocalIP, mDnslist, mRoutes, mDomain, mLastTunCfg>>
processVars == <<process, replies, requested, sent, tun, fresh>>
vars == <<fieldVars, processVars, handled, answer, opening, established, spaceVars>>

-----------------------------------------------------------------------------
(* What the process asks for *)

Queries(kind, args) == [i \in 1 .. Len(args) |-> [kind |-> kind, arg |-> args[i]]]

Script(reply) ==
  Queries("IFCONFIG", reply.local) \o Queries("ROUTE", reply.routes)
    \o Queries("DNSSERVER", reply.dns) \o Queries("DNSDOMAIN", reply.domain)
    \o <<[kind |-> "PERSIST_TUN_ACTION"], [kind |-> "OPENTUN"]>>

OpenTunQuery(reply) == Len(Script(reply))
PersistTunQuery(reply) == OpenTunQuery(reply) - 1

-----------------------------------------------------------------------------
(* The fields of the service *)

FieldsEmpty == mLocalIP = {} /\ mDnslist = <<>> /\ mRoutes = {} /\ mDomain = {}

FieldsCleared ==
  mLocalIP' = {} /\ mDnslist' = <<>> /\ mRoutes' = {} /\ mDomain' = {}

getTunConfig ==
  [local |-> mLocalIP, routes |-> mRoutes, dns |-> mDnslist, domain |-> mDomain]

(* setLocalIP adds the interface's own network, unless it is one address. *)
InterfaceRoutes(address) ==
  IF address.mask < Width THEN {NetworkOf(address.ip, address.mask, TRUE)} ELSE {}

AddAll(nets, more) == nets \cup {n \in more : \A other \in nets : ~SameNet(other, n)}

LanRoutes(lan, address) ==
  IF AllowLocalLAN
  THEN {NetworkOf(l.ip, l.mask, FALSE) : l \in {l \in lan : l.ip # address.ip}}
  ELSE {}

-----------------------------------------------------------------------------
(* The OpenVPN process *)

Init ==
  /\ mLocalIP = {} /\ mDnslist = <<>> /\ mRoutes = {} /\ mDomain = {}
  /\ mLastTunCfg = {}
  /\ process = "none" /\ replies \in Replies /\ requested = NoReply
  /\ sent = 0 /\ handled = 0 /\ answer = "none"
  /\ opening = FALSE /\ established = {} /\ tun = {} /\ fresh = TRUE
  /\ NothingGenerated

(* The management thread of the process before has read all it left.  The  *)
(* code waits a second for that, which makes it likely.                    *)
Quiet == handled = sent /\ ~opening

StartProcess ==
  /\ process = "none" /\ Quiet
  /\ process' = "connecting"
  /\ UNCHANGED <<fieldVars, replies, requested, sent, handled, answer, opening,
                 established, tun, fresh, spaceVars>>

(* Without a process the service may be destroyed and created anew. *)
ServiceRecreated ==
  /\ process = "none" /\ Quiet
  /\ FieldsCleared
  /\ mLastTunCfg' = {}
  /\ UNCHANGED <<processVars, handled, answer, opening, established, spaceVars>>

PushReply ==
  /\ process = "connecting" /\ replies # <<>>
  /\ process' = "setup"
  /\ requested' = Head(replies) /\ replies' = Tail(replies)
  /\ sent' = 0 /\ handled' = 0 /\ answer' = "none" /\ established' = {}
  /\ fresh' = FieldsEmpty
  /\ UNCHANGED <<fieldVars, opening, tun, spaceVars>>

(* Each query waits for the answer to the one before; only those to the    *)
(* last two are looked at.                                                 *)
Ask ==
  /\ process = "setup"
  /\ sent < PersistTunQuery(requested)
  /\ sent > 0 => answer # "none"
  /\ sent' = sent + 1 /\ answer' = "none"
  /\ UNCHANGED <<fieldVars, process, replies, requested, tun, fresh, handled,
                 opening, established, spaceVars>>

PersistTunAnswered ==
  /\ process = "setup"
  /\ sent = PersistTunQuery(requested)
  /\ answer # "none"

(* Faulty variant: the process keeps whatever device it has. *)
KeepAnyTun ==
  /\ PersistTunAnswered /\ tun # {}
  /\ process' = "connected"
  /\ UNCHANGED <<fieldVars, replies, requested, sent, tun, fresh, handled, answer,
                 opening, established, spaceVars>>

KeepTun ==
  /\ PersistTunAnswered /\ answer = "NOACTION" /\ tun # {}
  /\ process' = "connected"
  /\ UNCHANGED <<fieldVars, replies, requested, sent, tun, fresh, handled, answer,
                 opening, established, spaceVars>>

AskOpenTun ==
  /\ PersistTunAnswered /\ (answer = "NOACTION" => tun = {})
  /\ sent' = sent + 1 /\ answer' = "none"
  /\ UNCHANGED <<fieldVars, process, replies, requested, tun, fresh, handled,
                 opening, established, spaceVars>>

(* Faulty variant: the answer is not looked at. *)
OpenTunAnsweredAnyhow ==
  /\ process = "setup" /\ sent = OpenTunQuery(requested) /\ answer # "none"
  /\ process' = "connected"
  /\ tun' = established
  /\ established' = {}
  /\ UNCHANGED <<fieldVars, replies, requested, sent, fresh, handled, answer,
                 opening, spaceVars>>

(* The device it held before is closed. *)
OpenTunAnswered ==
  /\ process = "setup" /\ sent = OpenTunQuery(requested) /\ answer = "ok"
  /\ process' = "connected"
  /\ tun' = established
  /\ established' = {}
  /\ UNCHANGED <<fieldVars, replies, requested, sent, fresh, handled, answer,
                 opening, spaceVars>>

ProcessGone == process' = "none" /\ tun' = {}

(* "Cannot open TUN" is fatal. *)
OpenTunRefused ==
  /\ process = "setup" /\ sent = OpenTunQuery(requested) /\ answer = "cancel"
  /\ ProcessGone
  /\ UNCHANGED <<fieldVars, replies, requested, sent, fresh, handled, answer,
                 opening, established, spaceVars>>

(* A signal during a query ends the wait, and that of every query that     *)
(* follows; PERSIST_TUN_ACTION and OPENTUN without an answer are fatal.    *)
InterruptedSetup ==
  /\ process = "setup" /\ sent > 0
  /\ sent' = IF sent < PersistTunQuery(requested)
             THEN PersistTunQuery(requested)
             ELSE sent
  /\ ProcessGone
  /\ UNCHANGED <<fieldVars, replies, requested, fresh, handled, answer,
                 opening, established, spaceVars>>

(* SIGUSR1 keeps the device only with persist-tun. *)
Restart ==
  /\ process = "connected"
  /\ process' = "connecting"
  /\ tun' = IF PersistTun THEN tun ELSE {}
  /\ UNCHANGED <<fieldVars, replies, requested, sent, fresh, handled, answer,
                 opening, established, spaceVars>>

Exit ==
  /\ process \in {"connecting", "connected"}
  /\ ProcessGone
  /\ UNCHANGED <<fieldVars, replies, requested, sent, fresh, handled, answer,
                 opening, established, spaceVars>>

-----------------------------------------------------------------------------
(* The management thread: processNeedCommand *)

ToHandle(kind) ==
  /\ handled < sent /\ ~opening
  /\ Script(requested)[handled + 1].kind = kind

Argument == Script(requested)[handled + 1].arg

Answered(status) == handled' = handled + 1 /\ answer' = status

setLocalIP ==
  /\ ToHandle("IFCONFIG")
  /\ mLocalIP' = {Argument}
  /\ mRoutes' = AddAll(mRoutes, InterfaceRoutes(Argument))
  /\ Answered("ok")
  /\ UNCHANGED <<mDnslist, mDomain, mLastTunCfg, processVars, opening, established,
                 spaceVars>>

(* Faulty variant: every route is included. *)
addRouteIncluded ==
  /\ ToHandle("ROUTE")
  /\ mRoutes' = IF mLocalIP = {}
                THEN mRoutes
                ELSE addIP(mRoutes, [Argument EXCEPT !.included = TRUE])
  /\ Answered("ok")
  /\ UNCHANGED <<mLocalIP, mDnslist, mDomain, mLastTunCfg, processVars, opening,
                 established, spaceVars>>

(* Without an address the route is dropped. *)
addRoute ==
  /\ ToHandle("ROUTE")
  /\ mRoutes' = IF mLocalIP = {} THEN mRoutes ELSE addIP(mRoutes, Argument)
  /\ Answered("ok")
  /\ UNCHANGED <<mLocalIP, mDnslist, mDomain, mLastTunCfg, processVars, opening,
                 established, spaceVars>>

addDNS ==
  /\ ToHandle("DNSSERVER")
  /\ mDnslist' = Append(mDnslist, Argument)
  /\ Answered("ok")
  /\ UNCHANGED <<mLocalIP, mRoutes, mDomain, mLastTunCfg, processVars, opening,
                 established, spaceVars>>

(* Faulty variant: both domains stay. *)
setDomainTwice ==
  /\ ToHandle("DNSDOMAIN")
  /\ mDomain' = mDomain \cup {Argument}
  /\ Answered("ok")
  /\ UNCHANGED <<mLocalIP, mDnslist, mRoutes, mLastTunCfg, processVars, opening,
                 established, spaceVars>>

(* The first domain stays. *)
setDomain ==
  /\ ToHandle("DNSDOMAIN")
  /\ mDomain' = IF mDomain = {} THEN {Argument} ELSE mDomain
  /\ Answered("ok")
  /\ UNCHANGED <<mLocalIP, mDnslist, mRoutes, mLastTunCfg, processVars, opening,
                 established, spaceVars>>

(* Faulty variant: only the address and the routes are compared. *)
getTunReopenStatusLoose ==
  /\ ToHandle("PERSIST_TUN_ACTION")
  /\ Answered(IF \E last \in mLastTunCfg : last.local = mLocalIP /\ last.routes = mRoutes
              THEN "NOACTION"
              ELSE "OPEN_BEFORE_CLOSE")
  /\ UNCHANGED <<fieldVars, processVars, opening, established, spaceVars>>

getTunReopenStatus ==
  /\ ToHandle("PERSIST_TUN_ACTION")
  /\ Answered(IF mLastTunCfg = {getTunConfig} THEN "NOACTION" ELSE "OPEN_BEFORE_CLOSE")
  /\ UNCHANGED <<fieldVars, processVars, opening, established, spaceVars>>

OpenTunWithoutAddress ==
  /\ ToHandle("OPENTUN") /\ mLocalIP = {}
  /\ Answered("cancel")
  /\ UNCHANGED <<fieldVars, processVars, opening, established, spaceVars>>

(* addLocalNetworksToRoutes, then addAddress throws: nothing is cleared. *)
OpenTunAddressRejected ==
  /\ ToHandle("OPENTUN")
  /\ \E local \in mLocalIP, lan \in LocalNetworks :
       /\ local.ip \in RejectedIps
       /\ mRoutes' = AddAll(mRoutes, LanRoutes(lan, local))
  /\ Answered("cancel")
  /\ UNCHANGED <<mLocalIP, mDnslist, mDomain, mLastTunCfg, processVars, opening,
                 established, spaceVars>>

OpenTunBegins ==
  /\ ToHandle("OPENTUN")
  /\ \E local \in mLocalIP, lan \in LocalNetworks :
       /\ local.ip \notin RejectedIps
       /\ mRoutes' = AddAll(mRoutes, LanRoutes(lan, local))
  /\ generateIPList(mRoutes')
  /\ opening' = TRUE
  /\ UNCHANGED <<mLocalIP, mDnslist, mDomain, mLastTunCfg, processVars, handled,
                 answer, established>>

Generate ==
  /\ opening /\ GenerateStep
  /\ UNCHANGED <<fieldVars, processVars, handled, answer, opening, established>>

(* Builder.addRoute refuses what split makes of a single address.  On a    *)
(* Samsung device with Android 5 or later openTun adds the first DNS       *)
(* server as a route of its own when no other route has it; that           *)
(* workaround is left out.                                                 *)
RoutesToAdd ==
  {net \in PositiveIPs : ~containsNet(MulticastRange, net) /\ net.mask <= Width}

(* establish() gives a device, or null or an exception. *)
OpenTunEnds ==
  /\ opening /\ Generated
  /\ mLastTunCfg' = {getTunConfig}
  /\ FieldsCleared
  /\ \/ /\ established' = {[cfg |-> getTunConfig, routes |-> RoutesToAdd]}
        /\ Answered("ok")
     \/ Answered("cancel") /\ UNCHANGED established
  /\ opening' = FALSE
  /\ networks' = EmptyBag /\ currentNet' = {} /\ ipsDone' = {}
  /\ UNCHANGED processVars

-----------------------------------------------------------------------------
SetupStep == Ask \/ KeepTun \/ AskOpenTun \/ OpenTunAnswered \/ OpenTunRefused

ManagementThread ==
  \/ setLocalIP \/ addRoute \/ addDNS \/ setDomain \/ getTunReopenStatus
  \/ OpenTunWithoutAddress \/ OpenTunAddressRejected
  \/ OpenTunBegins \/ Generate \/ OpenTunEnds

Next ==
  \/ StartProcess \/ ServiceRecreated \/ PushReply \/ SetupStep
  \/ InterruptedSetup \/ Restart \/ Exit
  \/ ManagementThread

(* Neither the process nor the management thread waits for anything else. *)
Spec == Init /\ [][Next]_vars /\ WF_vars(SetupStep) /\ WF_vars(ManagementThread)

-----------------------------------------------------------------------------
(* Properties *)

Config == [local : SUBSET Address, routes : SUBSET Network,
           dns : Seq(Dns), domain : SUBSET Domain]

Tunnel == [cfg : Config, routes : SUBSET Network]

Optional(S, T) == S \subseteq T /\ \A x, y \in S : x = y

(* Every variable keeps to its values: one address, one domain, one device *)
(* at most, and never more answers than queries.                           *)
TypeOK ==
  /\ Optional(mLocalIP, Address) /\ mDnslist \in Seq(Dns)
  /\ mRoutes \subseteq Network /\ Optional(mDomain, Domain)
  /\ Optional(mLastTunCfg, Config)
  /\ process \in {"none", "connecting", "setup", "connected"}
  /\ replies \in Seq(Reply) /\ requested \in Reply
  /\ sent \in 0 .. OpenTunQuery(requested) /\ handled \in 0 .. sent
  /\ answer \in {"none", "ok", "cancel", "NOACTION", "OPEN_BEFORE_CLOSE"}
  /\ opening \in BOOLEAN /\ fresh \in BOOLEAN
  /\ Optional(established, Tunnel) /\ Optional(tun, Tunnel)

RangeOf(seq) == {seq[i] : i \in 1 .. Len(seq)}

WantedRoutes(reply) ==
  RangeOf(reply.routes) \cup UNION {InterfaceRoutes(a) : a \in RangeOf(reply.local)}

HasPrefixes(nets, wanted) == \A w \in wanted : \E n \in nets : SameNet(n, w)

(* The configuration is what the reply says, and the networks left out for *)
(* the local networks lan.                                                 *)
Describes(cfg, reply, lan) ==
  LET wanted == WantedRoutes(reply)
                  \cup UNION {LanRoutes(lan, a) : a \in RangeOf(reply.local)}
  IN  /\ cfg.local = RangeOf(reply.local)
      /\ cfg.routes \subseteq wanted /\ HasPrefixes(cfg.routes, wanted)
      /\ cfg.dns = reply.dns
      /\ cfg.domain = RangeOf(reply.domain)

(* "a tun fd with the requested configuration": a connected process has a  *)
(* device configured as the reply says, nothing missing and nothing more.  *)
TunnelAsRequested ==
  process = "connected" =>
    \E t \in tun, lan \in LocalNetworks : Describes(t.cfg, requested, lan)

(* It has, however the queries, restarts and signals fall, when no field   *)
(* was left set by an earlier set-up.                                      *)
ExactWhenFresh == fresh => TunnelAsRequested

(* Nothing the reply asks for is missing: the address is the one it names, *)
(* every DNS server is there, and the prefix of every route.               *)
Provides(cfg, reply) ==
  /\ RangeOf(reply.local) \subseteq cfg.local
  /\ HasPrefixes(cfg.routes, WantedRoutes(reply))
  /\ RangeOf(reply.dns) \subseteq RangeOf(cfg.dns)
  /\ reply.domain # <<>> => cfg.domain # {}

(* Stale fields or not, the device of a connected process provides what    *)
(* the reply asks for: openTun gathers all of it, and a device is never    *)
(* kept across a restart whose reply asks for more.                        *)
NothingRequestedMissing ==
  process = "connected" => \E t \in tun : Provides(t.cfg, requested)

(* NOACTION keeps a device only if it was opened with the very             *)
(* configuration collected now, the one the service compares.              *)
KeptTunIsCurrent ==
  (process = "setup" /\ answer = "NOACTION") =>
    \A t \in tun : t.cfg = getTunConfig

AddressesOf(net) == net.first .. Last(net)

Overlap(a, b) == a.first <= Last(b) /\ b.first <= Last(a)

(* The routes given to Builder.addRoute never overlap, whatever networks   *)
(* the replies include and exclude (generateIPList).                       *)
RoutesDisjoint ==
  \A t \in tun : \A a, b \in t.routes : a # b => ~Overlap(a, b)

(* At most one network is excluded, and no network within it included. *)
Simple(nets) ==
  \A e \in nets : ~e.included =>
    \A n \in nets \ {e} : n.included /\ ~containsNet(e, n)

Includes(nets, address) ==
  \E n \in nets :
    /\ n.included /\ address \in AddressesOf(n)
    /\ \A other \in nets : address \in AddressesOf(other) => other.mask <= n.mask

(* An address goes through the tunnel exactly when the most specific       *)
(* network it is in is included, multicast apart (and, on Samsung devices, *)
(* the first DNS server, which openTun routes anyhow); checked where at    *)
(* most one network is excluded (see README for generateIPList beyond it). *)
RoutesMostSpecific ==
  \A t \in tun : Simple(t.cfg.routes) =>
    \A address \in Addresses :
      address \notin AddressesOf(MulticastRange) =>
        ((\E r \in t.routes : address \in AddressesOf(r))
           <=> Includes(t.cfg.routes, address))

-----------------------------------------------------------------------------
(* The queries of a set-up, however signals, refusals and stale fields     *)
(* fall between them, amount to one step: the tunnel the process has after *)
(* it provides what the reply asks for, or the process is gone.            *)
Atomic == INSTANCE AtomicSetup WITH device <- {t.cfg : t \in tun}

ImplementsAtomicSetup == Atomic!Spec

(* And a set-up ends: no query stays unanswered, and the loop of           *)
(* generateIPList terminates.                                              *)
SetupEnds == Atomic!SetupProgress

=============================================================================
