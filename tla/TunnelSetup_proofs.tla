------------------------- MODULE TunnelSetup_proofs -------------------------
(***************************************************************************)
(* Proofs about TunnelSetup for any replies, local networks, width of      *)
(* addresses and preferences: what a connected process holds, when a       *)
(* device is kept, and that the queries implement one atomic set-up.       *)
(***************************************************************************)
EXTENDS TunnelSetup, SequenceTheorems, TLAPS

-----------------------------------------------------------------------------
(* The script of a reply: which query is where. *)

LEMMA AtMostOneParts ==
  ASSUME NEW S, NEW s \in AtMostOne(S)
  PROVE  s \in Seq(S) /\ Len(s) <= 1
<1>1. CASE s = <<>>
  BY <1>1
<1>2. CASE \E x \in S : s = <<x>>
  BY <1>2
<1> QED BY <1>1, <1>2 DEF AtMostOne

LEMMA ReplyParts ==
  ASSUME NEW r \in Reply
  PROVE  /\ r.local \in Seq(Address) /\ Len(r.local) <= 1
         /\ r.routes \in Seq(Network) /\ r.dns \in Seq(Dns)
         /\ r.domain \in Seq(Domain) /\ Len(r.domain) <= 1
<1>1. /\ r.local \in AtMostOne(Address) /\ r.domain \in AtMostOne(Domain)
      /\ r.routes \in Seq(Network) /\ r.dns \in Seq(Dns)
  BY DEF Reply
<1> QED BY <1>1, AtMostOneParts

(* The queries of one kind. *)
KindOf(kind, S) == {[kind |-> kind, arg |-> x] : x \in S}

LEMMA QueriesFacts ==
  ASSUME NEW S, NEW args \in Seq(S), NEW kind
  PROVE  /\ Queries(kind, args) \in Seq(KindOf(kind, S))
         /\ Len(Queries(kind, args)) = Len(args)
         /\ \A i \in 1 .. Len(args) : Queries(kind, args)[i] = [kind |-> kind, arg |-> args[i]]
<1>1. \A i \in 1 .. Len(args) : [kind |-> kind, arg |-> args[i]] \in KindOf(kind, S)
  BY DEF KindOf
<1>2. Len(args) \in Nat
  OBVIOUS
<1> QED BY <1>1, <1>2 DEF Queries

(* Where the elements of a concatenation are. *)
LEMMA Concat ==
  ASSUME NEW S, NEW s \in Seq(S), NEW t \in Seq(S), NEW st, st = s \o t
  PROVE  /\ st \in Seq(S)
         /\ Len(st) = Len(s) + Len(t)
         /\ \A i \in 1 .. Len(s) : st[i] = s[i]
         /\ \A i \in 1 .. Len(t) : st[Len(s) + i] = t[i]
OBVIOUS

Routes(r) == Len(r.local)
Servers(r) == Routes(r) + Len(r.routes)
Domains(r) == Servers(r) + Len(r.dns)

LEMMA ScriptFacts ==
  ASSUME NEW r \in Reply
  PROVE  /\ Routes(r) \in Nat /\ Routes(r) <= 1 /\ Servers(r) \in Nat /\ Domains(r) \in Nat
         /\ PersistTunQuery(r) \in Nat
         /\ Routes(r) <= Servers(r) /\ Servers(r) <= Domains(r)
         /\ Domains(r) < PersistTunQuery(r) /\ PersistTunQuery(r) <= Domains(r) + 2
         /\ OpenTunQuery(r) = PersistTunQuery(r) + 1
         /\ \A i \in 1 .. Routes(r) :
              Script(r)[i] = [kind |-> "IFCONFIG", arg |-> r.local[i]]
         /\ \A i \in Routes(r) + 1 .. Servers(r) :
              Script(r)[i] = [kind |-> "ROUTE", arg |-> r.routes[i - Routes(r)]]
         /\ \A i \in Servers(r) + 1 .. Domains(r) :
              Script(r)[i] = [kind |-> "DNSSERVER", arg |-> r.dns[i - Servers(r)]]
         /\ \A i \in Domains(r) + 1 .. PersistTunQuery(r) - 1 :
              Script(r)[i] = [kind |-> "DNSDOMAIN", arg |-> r.domain[i - Domains(r)]]
         /\ Domains(r) + Len(r.domain) = PersistTunQuery(r) - 1
         /\ Script(r)[PersistTunQuery(r)].kind = "PERSIST_TUN_ACTION"
         /\ Script(r)[OpenTunQuery(r)].kind = "OPENTUN"
<1>p. PICK a, b, c, d, e :
        /\ a = Queries("IFCONFIG", r.local) /\ b = Queries("ROUTE", r.routes)
        /\ c = Queries("DNSSERVER", r.dns) /\ d = Queries("DNSDOMAIN", r.domain)
        /\ e = <<[kind |-> "PERSIST_TUN_ACTION"], [kind |-> "OPENTUN"]>>
  OBVIOUS
<1>t. PICK ab, abc, abcd : ab = a \o b /\ abc = ab \o c /\ abcd = abc \o d
  OBVIOUS
<1> DEFINE Q == KindOf("IFCONFIG", Address) \cup KindOf("ROUTE", Network)
                  \cup KindOf("DNSSERVER", Dns) \cup KindOf("DNSDOMAIN", Domain)
                  \cup {[kind |-> "PERSIST_TUN_ACTION"], [kind |-> "OPENTUN"]}
<1>0. /\ r.local \in Seq(Address) /\ Len(r.local) <= 1
      /\ r.routes \in Seq(Network) /\ r.dns \in Seq(Dns)
      /\ r.domain \in Seq(Domain) /\ Len(r.domain) <= 1
  BY ReplyParts
<1>a. /\ a \in Seq(Q) /\ Len(a) = Len(r.local)
      /\ \A i \in 1 .. Len(r.local) : a[i] = [kind |-> "IFCONFIG", arg |-> r.local[i]]
  <2>1. /\ a \in Seq(KindOf("IFCONFIG", Address)) /\ Len(a) = Len(r.local)
        /\ \A i \in 1 .. Len(r.local) : a[i] = [kind |-> "IFCONFIG", arg |-> r.local[i]]
    BY <1>0, <1>p, QueriesFacts
  <2>2. KindOf("IFCONFIG", Address) \subseteq Q
    OBVIOUS
  <2> HIDE DEF Q
  <2> QED BY <2>1, <2>2, SeqMonotonic
<1>b. /\ b \in Seq(Q) /\ Len(b) = Len(r.routes)
      /\ \A i \in 1 .. Len(r.routes) : b[i] = [kind |-> "ROUTE", arg |-> r.routes[i]]
  <2>1. /\ b \in Seq(KindOf("ROUTE", Network)) /\ Len(b) = Len(r.routes)
        /\ \A i \in 1 .. Len(r.routes) : b[i] = [kind |-> "ROUTE", arg |-> r.routes[i]]
    BY <1>0, <1>p, QueriesFacts
  <2>2. KindOf("ROUTE", Network) \subseteq Q
    OBVIOUS
  <2> HIDE DEF Q
  <2> QED BY <2>1, <2>2, SeqMonotonic
<1>c. /\ c \in Seq(Q) /\ Len(c) = Len(r.dns)
      /\ \A i \in 1 .. Len(r.dns) : c[i] = [kind |-> "DNSSERVER", arg |-> r.dns[i]]
  <2>1. /\ c \in Seq(KindOf("DNSSERVER", Dns)) /\ Len(c) = Len(r.dns)
        /\ \A i \in 1 .. Len(r.dns) : c[i] = [kind |-> "DNSSERVER", arg |-> r.dns[i]]
    BY <1>0, <1>p, QueriesFacts
  <2>2. KindOf("DNSSERVER", Dns) \subseteq Q
    OBVIOUS
  <2> HIDE DEF Q
  <2> QED BY <2>1, <2>2, SeqMonotonic
<1>d. /\ d \in Seq(Q) /\ Len(d) = Len(r.domain)
      /\ \A i \in 1 .. Len(r.domain) : d[i] = [kind |-> "DNSDOMAIN", arg |-> r.domain[i]]
  <2>1. /\ d \in Seq(KindOf("DNSDOMAIN", Domain)) /\ Len(d) = Len(r.domain)
        /\ \A i \in 1 .. Len(r.domain) : d[i] = [kind |-> "DNSDOMAIN", arg |-> r.domain[i]]
    BY <1>0, <1>p, QueriesFacts
  <2>2. KindOf("DNSDOMAIN", Domain) \subseteq Q
    OBVIOUS
  <2> HIDE DEF Q
  <2> QED BY <2>1, <2>2, SeqMonotonic
<1>e. /\ e \in Seq(Q) /\ Len(e) = 2
      /\ e[1].kind = "PERSIST_TUN_ACTION" /\ e[2].kind = "OPENTUN"
  <2>1. [kind |-> "PERSIST_TUN_ACTION"] \in Q /\ [kind |-> "OPENTUN"] \in Q
    OBVIOUS
  <2> HIDE DEF Q
  <2> QED BY <1>p, <2>1
<1>s. Script(r) = abcd \o e
  BY <1>p, <1>t DEF Script
<1> HIDE DEF Q
<1>1. /\ Len(Script(r)) = Len(a) + Len(b) + Len(c) + Len(d) + Len(e)
      /\ \A i \in 1 .. Len(a) : Script(r)[i] = a[i]
      /\ \A i \in 1 .. Len(b) : Script(r)[Len(a) + i] = b[i]
      /\ \A i \in 1 .. Len(c) : Script(r)[Len(a) + Len(b) + i] = c[i]
      /\ \A i \in 1 .. Len(d) : Script(r)[Len(a) + Len(b) + Len(c) + i] = d[i]
      /\ \A i \in 1 .. Len(e) : Script(r)[Len(a) + Len(b) + Len(c) + Len(d) + i] = e[i]
  <2>0. /\ a \in Seq(Q) /\ b \in Seq(Q) /\ c \in Seq(Q) /\ d \in Seq(Q) /\ e \in Seq(Q)
    BY <1>a, <1>b, <1>c, <1>d, <1>e
  <2>s. PICK script : script = abcd \o e
    OBVIOUS
  <2>r. script = Script(r)
    BY <1>s, <2>s
  <2>1. /\ ab \in Seq(Q)
        /\ Len(ab) = Len(a) + Len(b)
        /\ \A i \in 1 .. Len(a) : ab[i] = a[i]
        /\ \A i \in 1 .. Len(b) : ab[Len(a) + i] = b[i]
    BY <2>0, <1>t, Concat
  <2>2. /\ abc \in Seq(Q)
        /\ Len(abc) = Len(ab) + Len(c)
        /\ \A i \in 1 .. Len(ab) : abc[i] = ab[i]
        /\ \A i \in 1 .. Len(c) : abc[Len(ab) + i] = c[i]
    BY <2>0, <2>1, <1>t, Concat
  <2>3. /\ abcd \in Seq(Q)
        /\ Len(abcd) = Len(abc) + Len(d)
        /\ \A i \in 1 .. Len(abc) : abcd[i] = abc[i]
        /\ \A i \in 1 .. Len(d) : abcd[Len(abc) + i] = d[i]
    BY <2>0, <2>2, <1>t, Concat
  <2>4. /\ script \in Seq(Q)
        /\ Len(script) = Len(abcd) + Len(e)
        /\ \A i \in 1 .. Len(abcd) : script[i] = abcd[i]
        /\ \A i \in 1 .. Len(e) : script[Len(abcd) + i] = e[i]
    <3>1. abcd \in Seq(Q) /\ e \in Seq(Q)
      BY <2>0, <2>3
    <3> QED BY ONLY <3>1, <2>s, Concat
  <2>5. /\ Len(a) \in Nat /\ Len(b) \in Nat /\ Len(c) \in Nat /\ Len(d) \in Nat
        /\ Len(e) \in Nat
    BY <2>0
  <2>12. \A i \in 1 .. Len(abc) : script[i] = abc[i]
    BY ONLY <2>1, <2>2, <2>3, <2>4, <2>5
  <2>13. \A i \in 1 .. Len(ab) : script[i] = ab[i]
    BY ONLY <2>1, <2>2, <2>12, <2>5
  <2>6. \A i \in 1 .. Len(a) : script[i] = a[i]
    BY ONLY <2>1, <2>13, <2>5
  <2>7. \A i \in 1 .. Len(b) : script[Len(a) + i] = b[i]
    BY ONLY <2>1, <2>13, <2>5
  <2>8. \A i \in 1 .. Len(c) : script[Len(a) + Len(b) + i] = c[i]
    BY ONLY <2>1, <2>2, <2>12, <2>5
  <2>9. \A i \in 1 .. Len(d) : script[Len(a) + Len(b) + Len(c) + i] = d[i]
    BY ONLY <2>1, <2>2, <2>3, <2>4, <2>5
  <2>10. \A i \in 1 .. Len(e) : script[Len(a) + Len(b) + Len(c) + Len(d) + i] = e[i]
    BY ONLY <2>1, <2>2, <2>3, <2>4, <2>5
  <2>11. Len(script) = Len(a) + Len(b) + Len(c) + Len(d) + Len(e)
    BY ONLY <2>1, <2>2, <2>3, <2>4, <2>5
  <2> QED BY <2>6, <2>7, <2>8, <2>9, <2>10, <2>11, <2>r
<1>5. /\ Len(r.local) \in Nat /\ Len(r.routes) \in Nat /\ Len(r.dns) \in Nat
      /\ Len(r.domain) \in Nat /\ Len(r.local) <= 1 /\ Len(r.domain) <= 1
  BY <1>0
<1>6. /\ Len(a) = Routes(r) /\ Len(a) + Len(b) = Servers(r)
      /\ Len(a) + Len(b) + Len(c) = Domains(r)
      /\ Len(d) = Len(r.domain) /\ Len(e) = 2
  BY <1>a, <1>b, <1>c, <1>d, <1>e DEF Servers, Domains, Routes
<1>8. /\ Routes(r) \in Nat /\ Routes(r) <= 1 /\ Servers(r) \in Nat /\ Domains(r) \in Nat
      /\ Routes(r) <= Servers(r) /\ Servers(r) <= Domains(r)
  <2>1. Routes(r) \in Nat /\ Routes(r) <= 1
    BY <1>0 DEF Routes
  <2>2. Servers(r) \in Nat /\ Routes(r) <= Servers(r)
    BY <1>0, <2>1 DEF Servers
  <2>3. Domains(r) \in Nat /\ Servers(r) <= Domains(r)
    BY <1>0, <2>2 DEF Domains
  <2> QED BY <2>1, <2>2, <2>3
<1>7. /\ OpenTunQuery(r) = Domains(r) + Len(r.domain) + 2
      /\ PersistTunQuery(r) = Domains(r) + Len(r.domain) + 1
  <2>1. Len(Script(r)) = Domains(r) + Len(r.domain) + 2
    BY <1>1, <1>6
  <2>2. Domains(r) \in Nat
    BY <1>8
  <2> QED BY <2>1, <2>2, <1>5 DEF OpenTunQuery, PersistTunQuery
<1>12. \A i \in 1 .. Routes(r) : Script(r)[i] = [kind |-> "IFCONFIG", arg |-> r.local[i]]
  BY <1>1, <1>6, <1>a DEF Routes
<1>13. \A i \in Routes(r) + 1 .. Servers(r) :
         Script(r)[i] = [kind |-> "ROUTE", arg |-> r.routes[i - Routes(r)]]
  <2>1. \A j \in 1 .. Len(r.routes) :
          Script(r)[Routes(r) + j] = [kind |-> "ROUTE", arg |-> r.routes[j]]
    BY <1>1, <1>6, <1>b
  <2> QED BY <2>1, <1>5, <1>8 DEF Servers
<1>14. \A i \in Servers(r) + 1 .. Domains(r) :
         Script(r)[i] = [kind |-> "DNSSERVER", arg |-> r.dns[i - Servers(r)]]
  <2>1. \A j \in 1 .. Len(r.dns) :
          Script(r)[Servers(r) + j] = [kind |-> "DNSSERVER", arg |-> r.dns[j]]
    BY <1>1, <1>6, <1>c
  <2> QED BY <2>1, <1>5, <1>8 DEF Domains
<1>15. \A i \in Domains(r) + 1 .. PersistTunQuery(r) - 1 :
         Script(r)[i] = [kind |-> "DNSDOMAIN", arg |-> r.domain[i - Domains(r)]]
  <2>1. \A j \in 1 .. Len(r.domain) :
          Script(r)[Domains(r) + j] = [kind |-> "DNSDOMAIN", arg |-> r.domain[j]]
    BY <1>1, <1>6, <1>d
  <2>2. ASSUME NEW i \in Domains(r) + 1 .. PersistTunQuery(r) - 1
        PROVE  i - Domains(r) \in 1 .. Len(r.domain) /\ i = Domains(r) + (i - Domains(r))
    BY <1>5, <1>7, <1>8
  <2> QED BY <2>1, <2>2
<1>16. /\ Script(r)[PersistTunQuery(r)].kind = "PERSIST_TUN_ACTION"
       /\ Script(r)[OpenTunQuery(r)].kind = "OPENTUN"
  <2>1. /\ Script(r)[Domains(r) + Len(r.domain) + 1] = e[1]
        /\ Script(r)[Domains(r) + Len(r.domain) + 2] = e[2]
    BY <1>1, <1>6
  <2> QED BY <2>1, <1>7, <1>e
<1>17. /\ PersistTunQuery(r) \in Nat
       /\ Domains(r) < PersistTunQuery(r) /\ PersistTunQuery(r) <= Domains(r) + 2
       /\ OpenTunQuery(r) = PersistTunQuery(r) + 1
       /\ Domains(r) + Len(r.domain) = PersistTunQuery(r) - 1
  BY <1>5, <1>7, <1>8
<1> QED
  BY <1>17, <1>8, <1>12, <1>13, <1>14, <1>15, <1>16

(* Which query a number is, by its kind. *)
LEMMA KindAt ==
  ASSUME NEW r \in Reply, NEW k \in 1 .. OpenTunQuery(r)
  PROVE  /\ Script(r)[k].kind = "IFCONFIG" =>
              k = 1 /\ Routes(r) = 1 /\ Script(r)[k].arg = r.local[1]
         /\ Script(r)[k].kind = "ROUTE" =>
              /\ k - Routes(r) \in 1 .. Len(r.routes)
              /\ Script(r)[k].arg = r.routes[k - Routes(r)]
         /\ Script(r)[k].kind = "DNSSERVER" =>
              /\ k - Servers(r) \in 1 .. Len(r.dns)
              /\ Script(r)[k].arg = r.dns[k - Servers(r)]
         /\ Script(r)[k].kind = "DNSDOMAIN" =>
              /\ k = PersistTunQuery(r) - 1 /\ k = Domains(r) + 1
              /\ Len(r.domain) = 1 /\ Script(r)[k].arg = r.domain[1]
         /\ Script(r)[k].kind = "PERSIST_TUN_ACTION" => k = PersistTunQuery(r)
         /\ Script(r)[k].kind = "OPENTUN" => k = OpenTunQuery(r)
<1> DEFINE P == PersistTunQuery(r)
<1>0. /\ Routes(r) \in Nat /\ Routes(r) <= 1 /\ Servers(r) \in Nat /\ Domains(r) \in Nat
      /\ P \in Nat /\ Routes(r) <= Servers(r) /\ Servers(r) <= Domains(r)
      /\ Domains(r) < P /\ P <= Domains(r) + 2 /\ OpenTunQuery(r) = P + 1
      /\ Domains(r) + Len(r.domain) = P - 1
  BY ScriptFacts
<1>1. /\ r.local \in Seq(Address) /\ r.routes \in Seq(Network) /\ r.dns \in Seq(Dns)
      /\ r.domain \in Seq(Domain)
  BY ReplyParts
<1>2. CASE k <= Routes(r)
  <2>1. k \in 1 .. Routes(r) /\ k = 1 /\ Routes(r) = 1
    BY <1>0, <1>2
  <2>2. Script(r)[k] = [kind |-> "IFCONFIG", arg |-> r.local[k]]
    BY <2>1, ScriptFacts
  <2> QED BY <2>1, <2>2
<1>3. CASE Routes(r) < k /\ k <= Servers(r)
  <2>1. k \in Routes(r) + 1 .. Servers(r)
    BY <1>0, <1>3
  <2>2. Script(r)[k] = [kind |-> "ROUTE", arg |-> r.routes[k - Routes(r)]]
    BY <2>1, ScriptFacts
  <2>3. k - Routes(r) \in 1 .. Len(r.routes)
    BY <1>0, <1>1, <1>3 DEF Servers
  <2> QED BY <2>2, <2>3
<1>4. CASE Servers(r) < k /\ k <= Domains(r)
  <2>1. k \in Servers(r) + 1 .. Domains(r)
    BY <1>0, <1>4
  <2>2. Script(r)[k] = [kind |-> "DNSSERVER", arg |-> r.dns[k - Servers(r)]]
    BY <2>1, ScriptFacts
  <2>3. k - Servers(r) \in 1 .. Len(r.dns)
    BY <1>0, <1>1, <1>4 DEF Domains
  <2> QED BY <2>2, <2>3
<1>5. CASE Domains(r) < k /\ k < P
  <2>1. k \in Domains(r) + 1 .. P - 1 /\ k = Domains(r) + 1 /\ k = P - 1
    BY <1>0, <1>5
  <2>2. Script(r)[k] = [kind |-> "DNSDOMAIN", arg |-> r.domain[k - Domains(r)]]
    BY <2>1, ScriptFacts
  <2>3. k - Domains(r) = 1
    BY <1>0, <2>1
  <2>4. PICK n \in Nat : n = Len(r.domain)
    BY <1>1
  <2>5. n = 1
    <3>1. Domains(r) + n = P - 1
      BY <1>0, <2>4
    <3>2. Domains(r) \in Nat /\ P \in Nat /\ k \in Nat
      BY <1>0, <2>1
    <3> HIDE DEF P
    <3> QED BY ONLY <2>1, <3>1, <3>2
  <2> QED BY <2>1, <2>2, <2>3, <2>4, <2>5
<1>6. CASE k = P
  <2>1. Script(r)[k].kind = "PERSIST_TUN_ACTION"
    BY <1>6, ScriptFacts
  <2> QED BY <1>6, <2>1
<1>7. CASE k = P + 1
  <2>1. Script(r)[k].kind = "OPENTUN"
    BY <1>0, <1>7, ScriptFacts
  <2> QED BY <1>0, <1>7, <2>1
<1>8. \/ k <= Routes(r) \/ (Routes(r) < k /\ k <= Servers(r))
      \/ (Servers(r) < k /\ k <= Domains(r)) \/ (Domains(r) < k /\ k < P)
      \/ k = P \/ k = P + 1
  BY <1>0
<1> QED BY <1>2, <1>3, <1>4, <1>5, <1>6, <1>7, <1>8

-----------------------------------------------------------------------------
(* The queries and their answers. *)

Typed ==
  /\ requested \in Reply /\ replies \in Seq(Reply)
  /\ mDnslist \in Seq(Dns)
  /\ sent \in Nat /\ handled \in Nat
  /\ opening \in BOOLEAN

(* The process waits for the answer to its last query; what a process that *)
(* is gone has left is handled before the next process exists.             *)
Counted ==
  /\ handled <= sent /\ sent <= OpenTunQuery(requested)
  /\ process = "setup" /\ answer = "none" =>
       (sent = 0 /\ handled = 0) \/ handled + 1 = sent
  /\ process = "setup" /\ answer # "none" => handled = sent /\ sent > 0
  /\ process \in {"connecting", "connected"} => Quiet
  /\ process \in {"none", "connecting", "setup", "connected"}

(* openTun is under way only for the last query, with an address. *)
OpeningLast ==
  opening =>
    /\ handled = PersistTunQuery(requested) /\ sent = OpenTunQuery(requested)
    /\ mLocalIP # {}

LEMMA Numbers ==
  ASSUME Typed
  PROVE  /\ PersistTunQuery(requested) \in Nat /\ PersistTunQuery(requested) >= 1
         /\ OpenTunQuery(requested) = PersistTunQuery(requested) + 1
<1>1. requested \in Reply
  BY DEF Typed
<1>2. /\ Domains(requested) \in Nat /\ Domains(requested) < PersistTunQuery(requested)
      /\ PersistTunQuery(requested) \in Nat
      /\ OpenTunQuery(requested) = PersistTunQuery(requested) + 1
  BY <1>1, ScriptFacts
<1> QED BY <1>2

(* A query being handled: the process, if it is still there, waits for it. *)
LEMMA Handling ==
  ASSUME Typed, Counted, NEW kind, ToHandle(kind)
  PROVE  /\ handled + 1 \in 1 .. OpenTunQuery(requested)
         /\ handled + 1 <= sent
         /\ Script(requested)[handled + 1].kind = kind
         /\ process \in {"none", "setup"}
         /\ process = "setup" => answer = "none" /\ handled + 1 = sent
<1>1. handled < sent /\ ~opening /\ Script(requested)[handled + 1].kind = kind
  BY DEF ToHandle
<1>2. handled \in Nat /\ sent \in Nat /\ OpenTunQuery(requested) \in Nat
  BY Numbers DEF Typed
<1>3. ~Quiet
  BY <1>1, <1>2 DEF Quiet
<1>4. /\ sent <= OpenTunQuery(requested)
      /\ process = "setup" /\ answer = "none" =>
           (sent = 0 /\ handled = 0) \/ handled + 1 = sent
      /\ process = "setup" /\ answer # "none" => handled = sent
      /\ process \notin {"connecting", "connected"}
      /\ process \in {"none", "connecting", "setup", "connected"}
  BY <1>3 DEF Counted
<1> QED BY <1>1, <1>2, <1>4

(* A handler that answers a query before the last. *)
LEMMA HandlesEarlier ==
  ASSUME Typed, Counted, NEW kind, ToHandle(kind), kind # "OPENTUN"
  PROVE  handled + 1 <= PersistTunQuery(requested)
<1>1. requested \in Reply
  BY DEF Typed
<1> DEFINE k == handled + 1
<1>2. k \in 1 .. OpenTunQuery(requested) /\ Script(requested)[k].kind = kind
  BY Handling
<1>3. Script(requested)[OpenTunQuery(requested)].kind = "OPENTUN"
  BY <1>1, ScriptFacts
<1>4. k # OpenTunQuery(requested)
  BY <1>2, <1>3
<1> HIDE DEF k
<1>5. k <= PersistTunQuery(requested)
  BY <1>2, <1>4, Numbers
<1> QED BY <1>5 DEF k

LEMMA HandlesOpenTun ==
  ASSUME Typed, Counted, ToHandle("OPENTUN")
  PROVE  handled = PersistTunQuery(requested) /\ sent = OpenTunQuery(requested)
<1>1. requested \in Reply
  BY DEF Typed
<1>2. /\ handled + 1 \in 1 .. OpenTunQuery(requested) /\ handled + 1 <= sent
      /\ Script(requested)[handled + 1].kind = "OPENTUN"
  BY Handling
<1>3. handled + 1 = OpenTunQuery(requested)
  BY <1>1, <1>2, KindAt
<1> QED BY <1>2, <1>3, Numbers DEF Typed, Counted

LEMMA InitQueries == Init => Typed /\ Counted /\ OpeningLast
<1> SUFFICES ASSUME Init
             PROVE  Typed /\ Counted /\ OpeningLast
  OBVIOUS
<1>1. NoReply \in Reply
  BY DEF NoReply, Reply, AtMostOne
<1>2. Typed
  <2>1. replies \in Seq(Reply)
    BY SetupAssumption DEF Init
  <2>2. mDnslist = <<>> /\ requested = NoReply
    BY DEF Init
  <2>3. mDnslist \in Seq(Dns) /\ requested \in Reply
    BY <1>1, <2>2
  <2>4. sent \in Nat /\ handled \in Nat /\ opening \in BOOLEAN
    BY DEF Init
  <2> QED BY <2>1, <2>3, <2>4 DEF Typed
<1>3. OpenTunQuery(requested) \in Nat
  BY <1>2, Numbers
<1>4. Counted
  BY <1>3 DEF Init, Counted, Quiet
<1> QED BY <1>2, <1>4 DEF Init, OpeningLast

LEMMA TypedNext == Typed /\ Counted /\ [Next]_vars => Typed'
<1> SUFFICES ASSUME Typed, Counted, [Next]_vars
             PROVE  Typed'
  OBVIOUS
<1> USE DEF Typed
<1>0. PersistTunQuery(requested) \in Nat
  BY Numbers
<1>1. CASE StartProcess
  BY <1>1 DEF StartProcess, fieldVars
<1>2. CASE ServiceRecreated
  BY <1>2 DEF ServiceRecreated, FieldsCleared, processVars
<1>3. CASE PushReply
  <2>1. replies # <<>> /\ requested' = Head(replies) /\ replies' = Tail(replies)
    BY <1>3 DEF PushReply
  <2>2. requested' \in Reply /\ replies' \in Seq(Reply)
    BY <2>1
  <2> QED BY <1>3, <2>2 DEF PushReply, fieldVars
<1>4. CASE Ask \/ AskOpenTun
  BY <1>4 DEF Ask, AskOpenTun, fieldVars
<1>5. CASE KeepTun \/ OpenTunAnswered \/ OpenTunRefused \/ Restart \/ Exit
  BY <1>5 DEF KeepTun, OpenTunAnswered, OpenTunRefused, Restart, Exit, fieldVars
<1>6. CASE InterruptedSetup
  BY <1>0, <1>6 DEF InterruptedSetup, fieldVars
<1>7. CASE setLocalIP \/ addRoute \/ setDomain \/ OpenTunAddressRejected
  BY <1>7 DEF setLocalIP, addRoute, setDomain, OpenTunAddressRejected, Answered,
     processVars
<1>8. CASE addDNS
  <2>1. ToHandle("DNSSERVER") /\ mDnslist' = Append(mDnslist, Argument)
    BY <1>8 DEF addDNS
  <2>2. requested \in Reply /\ requested.dns \in Seq(Dns)
    BY ReplyParts
  <2>3. /\ handled + 1 \in 1 .. OpenTunQuery(requested)
        /\ Script(requested)[handled + 1].kind = "DNSSERVER"
    BY <2>1, Handling
  <2>4. PICK j \in 1 .. Len(requested.dns) : Argument = requested.dns[j]
    BY <2>2, <2>3, KindAt DEF Argument
  <2>5. Argument \in Dns
    BY <2>2, <2>4
  <2> QED BY <1>8, <2>5 DEF addDNS, Answered, processVars
<1>9. CASE getTunReopenStatus \/ OpenTunWithoutAddress
  BY <1>9 DEF getTunReopenStatus, OpenTunWithoutAddress, Answered, fieldVars, processVars
<1>10. CASE OpenTunBegins
  BY <1>10 DEF OpenTunBegins, processVars
<1>11. CASE Generate
  BY <1>11 DEF Generate, fieldVars, processVars
<1>12. CASE OpenTunEnds
  <2>1. mDnslist' \in Seq(Dns)
    BY <1>12 DEF OpenTunEnds, FieldsCleared
  <2>2. handled' \in Nat
    BY <1>12 DEF OpenTunEnds, Answered
  <2>3. opening' \in BOOLEAN /\ UNCHANGED <<requested, replies, sent>>
    BY <1>12 DEF OpenTunEnds, processVars
  <2> QED BY <2>1, <2>2, <2>3
<1>13. CASE UNCHANGED vars
  BY <1>13 DEF vars, fieldVars, processVars
<1> QED
  BY <1>1, <1>2, <1>3, <1>4, <1>5, <1>6, <1>7, <1>8, <1>9, <1>10, <1>11, <1>12, <1>13
     DEF Next, SetupStep, ManagementThread

(* What a step of the management thread does to the counters. *)
LEMMA AnsweredCounts ==
  ASSUME Typed, Counted, NEW kind, ToHandle(kind), NEW status, Answered(status),
         status # "none", UNCHANGED <<processVars, opening>>
  PROVE  Counted'
<1>1. /\ handled + 1 <= sent /\ process \in {"none", "setup"}
      /\ process = "setup" => answer = "none" /\ handled + 1 = sent
  BY Handling
<1>2. handled' = handled + 1 /\ answer' = status /\ sent' = sent /\ process' = process
      /\ OpenTunQuery(requested)' = OpenTunQuery(requested) /\ opening' = FALSE
  BY DEF Answered, OpenTunQuery, Script, processVars, ToHandle
<1>3. sent \in Nat /\ handled \in Nat
  BY DEF Typed
<1> QED BY <1>1, <1>2, <1>3 DEF Counted, Quiet

LEMMA CountedNext == Typed /\ Counted /\ OpeningLast /\ [Next]_vars => Counted'
<1> SUFFICES ASSUME Typed, Counted, OpeningLast, [Next]_vars
             PROVE  Counted'
  OBVIOUS
<1>0. /\ PersistTunQuery(requested) \in Nat /\ PersistTunQuery(requested) >= 1
      /\ OpenTunQuery(requested) = PersistTunQuery(requested) + 1
      /\ sent \in Nat /\ handled \in Nat /\ opening \in BOOLEAN
  BY Numbers DEF Typed
<1>a. requested' = requested =>
        /\ PersistTunQuery(requested)' = PersistTunQuery(requested)
        /\ OpenTunQuery(requested)' = OpenTunQuery(requested)
  BY DEF PersistTunQuery, OpenTunQuery, Script
<1>1. CASE StartProcess
  BY <1>a, <1>1 DEF StartProcess, Counted, Quiet
<1>2. CASE ServiceRecreated
  BY <1>a, <1>2 DEF ServiceRecreated, processVars, Counted, Quiet
<1>3. CASE PushReply
  <2>1. Typed'
    BY TypedNext
  <2>2. requested' \in Reply
    BY <2>1 DEF Typed
  <2>3. OpenTunQuery(requested') \in Nat
    BY <2>2, ScriptFacts
  <2>4. OpenTunQuery(requested)' \in Nat
    BY <2>3 DEF OpenTunQuery, Script
  <2> QED BY <2>4, <1>3 DEF PushReply, Counted, Quiet
<1>4. CASE Ask
  <2>1. handled = sent
    BY <1>4, <1>0 DEF Ask, Counted
  <2> QED BY <1>0, <1>a, <1>4, <2>1 DEF Ask, Counted, Quiet
<1>5. CASE AskOpenTun
  <2>1. handled = sent
    BY <1>5, <1>0 DEF AskOpenTun, PersistTunAnswered, Counted
  <2> QED BY <1>0, <1>a, <1>5, <2>1 DEF AskOpenTun, PersistTunAnswered, Counted, Quiet
<1>6. CASE KeepTun \/ OpenTunAnswered
  <2>1. process = "setup" /\ answer # "none" /\ process' = "connected"
    BY <1>6 DEF KeepTun, PersistTunAnswered, OpenTunAnswered
  <2>2. UNCHANGED <<requested, sent, handled, opening>>
    BY <1>6 DEF KeepTun, OpenTunAnswered
  <2>3. handled = sent /\ handled <= sent /\ sent <= OpenTunQuery(requested)
    BY <2>1 DEF Counted
  <2>5. ~opening
    BY <2>3, <1>0 DEF OpeningLast
  <2> QED BY <1>0, <1>a, <2>1, <2>2, <2>3, <2>5 DEF Counted, Quiet
<1>7. CASE OpenTunRefused \/ Exit
  BY <1>a, <1>7 DEF OpenTunRefused, Exit, ProcessGone, Counted, Quiet
<1>8. CASE Restart
  BY <1>a, <1>8 DEF Restart, Counted, Quiet
<1>9. CASE InterruptedSetup
  BY <1>0, <1>a, <1>9 DEF InterruptedSetup, ProcessGone, Counted, Quiet
<1>10. CASE setLocalIP
  <2>1. ToHandle("IFCONFIG") /\ Answered("ok") /\ UNCHANGED <<processVars, opening>>
    BY <1>10 DEF setLocalIP
  <2> QED BY <2>1, AnsweredCounts
<1>11. CASE addRoute
  <2>1. ToHandle("ROUTE") /\ Answered("ok") /\ UNCHANGED <<processVars, opening>>
    BY <1>11 DEF addRoute
  <2> QED BY <2>1, AnsweredCounts
<1>12. CASE addDNS
  <2>1. ToHandle("DNSSERVER") /\ Answered("ok") /\ UNCHANGED <<processVars, opening>>
    BY <1>12 DEF addDNS
  <2> QED BY <2>1, AnsweredCounts
<1>13. CASE setDomain
  <2>1. ToHandle("DNSDOMAIN") /\ Answered("ok") /\ UNCHANGED <<processVars, opening>>
    BY <1>13 DEF setDomain
  <2> QED BY <2>1, AnsweredCounts
<1>14. CASE getTunReopenStatus
  <2>1. /\ ToHandle("PERSIST_TUN_ACTION") /\ UNCHANGED <<processVars, opening>>
        /\ Answered("NOACTION") \/ Answered("OPEN_BEFORE_CLOSE")
    BY <1>14 DEF getTunReopenStatus
  <2> QED BY <2>1, AnsweredCounts
<1>15. CASE OpenTunWithoutAddress
  <2>1. ToHandle("OPENTUN") /\ Answered("cancel") /\ UNCHANGED <<processVars, opening>>
    BY <1>15 DEF OpenTunWithoutAddress
  <2> QED BY <2>1, AnsweredCounts
<1>16. CASE OpenTunAddressRejected
  <2>1. ToHandle("OPENTUN") /\ Answered("cancel") /\ UNCHANGED <<processVars, opening>>
    BY <1>16 DEF OpenTunAddressRejected
  <2> QED BY <2>1, AnsweredCounts
<1>17. CASE OpenTunBegins
  <2>1. process \in {"none", "setup"}
    BY <1>17, Handling DEF OpenTunBegins
  <2> QED BY <1>a, <1>17, <2>1 DEF OpenTunBegins, processVars, Counted, Quiet
<1>18. CASE Generate
  BY <1>a, <1>18 DEF Generate, fieldVars, processVars, Counted, Quiet
<1>19. CASE OpenTunEnds
  <2>1. /\ opening /\ opening' = FALSE /\ handled' = handled + 1
        /\ answer' \in {"ok", "cancel"} /\ UNCHANGED <<process, requested, sent>>
    BY <1>19 DEF OpenTunEnds, Answered, processVars
  <2>2. handled = PersistTunQuery(requested) /\ sent = OpenTunQuery(requested)
    BY <2>1 DEF OpeningLast
  <2> QED BY <1>0, <1>a, <2>1, <2>2 DEF Counted, Quiet
<1>20. CASE UNCHANGED vars
  BY <1>a, <1>20 DEF vars, fieldVars, processVars, Counted, Quiet
<1> QED
  BY <1>1, <1>2, <1>3, <1>4, <1>5, <1>6, <1>7, <1>8, <1>9, <1>10, <1>11, <1>12, <1>13,
     <1>14, <1>15, <1>16, <1>17, <1>18, <1>19, <1>20
     DEF Next, SetupStep, ManagementThread

LEMMA OpeningLastNext == Typed /\ Counted /\ OpeningLast /\ [Next]_vars => OpeningLast'
<1> SUFFICES ASSUME Typed, Counted, OpeningLast, [Next]_vars, opening'
             PROVE  /\ handled' = PersistTunQuery(requested)'
                    /\ sent' = OpenTunQuery(requested)'
                    /\ mLocalIP' # {}
  BY DEF OpeningLast
<1>0. /\ PersistTunQuery(requested) \in Nat
      /\ OpenTunQuery(requested) = PersistTunQuery(requested) + 1
      /\ sent \in Nat /\ handled \in Nat /\ opening \in BOOLEAN
  BY Numbers DEF Typed
<1>a. requested' = requested =>
        /\ PersistTunQuery(requested)' = PersistTunQuery(requested)
        /\ OpenTunQuery(requested)' = OpenTunQuery(requested)
  BY DEF PersistTunQuery, OpenTunQuery, Script
<1>1. CASE OpenTunBegins
  <2>1. handled = PersistTunQuery(requested) /\ sent = OpenTunQuery(requested)
    BY <1>1, HandlesOpenTun DEF OpenTunBegins
  <2>2. mLocalIP # {} /\ UNCHANGED <<mLocalIP, handled, sent, requested>>
    BY <1>1 DEF OpenTunBegins, processVars
  <2> QED BY <2>1, <2>2, <1>a
<1>2. CASE opening /\ UNCHANGED <<mLocalIP, handled, sent, requested>>
  BY <1>2, <1>a DEF OpeningLast
<1>3. CASE opening /\ (Ask \/ AskOpenTun)
  <2>1. sent <= PersistTunQuery(requested)
    BY <1>0, <1>3 DEF Ask, AskOpenTun, PersistTunAnswered
  <2> QED BY <1>0, <1>3, <2>1 DEF OpeningLast
<1>4. CASE opening /\ InterruptedSetup
  BY <1>0, <1>a, <1>4 DEF OpeningLast, InterruptedSetup, fieldVars
<1>5. CASE opening /\ PushReply
  <2>1. handled = sent
    BY <1>5 DEF PushReply, Counted, Quiet
  <2> QED BY <1>0, <1>5, <2>1 DEF OpeningLast
<1>6. opening \/ OpenTunBegins
  BY DEF Next, vars, fieldVars, StartProcess, ServiceRecreated, PushReply, SetupStep,
     Ask, KeepTun, AskOpenTun, OpenTunAnswered, OpenTunRefused, InterruptedSetup,
     Restart, Exit, ManagementThread, setLocalIP, addRoute, addDNS, setDomain,
     getTunReopenStatus, OpenTunWithoutAddress, OpenTunAddressRejected, Generate,
     OpenTunEnds, processVars
<1>7. ASSUME opening, ~(Ask \/ AskOpenTun), ~InterruptedSetup, ~PushReply, ~OpenTunBegins
      PROVE  UNCHANGED <<mLocalIP, handled, sent, requested>>
  BY <1>7 DEF Next, vars, fieldVars, StartProcess, ServiceRecreated, Quiet, SetupStep,
     KeepTun, OpenTunAnswered, OpenTunRefused,
     Restart, Exit, ManagementThread, setLocalIP, addRoute, addDNS, setDomain,
     getTunReopenStatus, OpenTunWithoutAddress, OpenTunAddressRejected, Generate,
     OpenTunEnds, processVars, ToHandle
<1> QED BY <1>1, <1>2, <1>3, <1>4, <1>5, <1>6, <1>7

-----------------------------------------------------------------------------
(* What the fields gather of a reply. *)

(* The i-th query of the reply is in the fields. *)
Gathered(i) ==
  LET query == Script(requested)[i]
  IN  /\ query.kind = "IFCONFIG" =>
           mLocalIP = {query.arg} /\ HasPrefixes(mRoutes, InterfaceRoutes(query.arg))
      /\ query.kind = "ROUTE" =>
           mLocalIP = {} \/ \E n \in mRoutes : SameNet(n, query.arg)
      /\ query.kind = "DNSSERVER" => query.arg \in RangeOf(mDnslist)
      /\ query.kind = "DNSDOMAIN" => mDomain # {}

Collected ==
  process = "setup" /\ handled <= PersistTunQuery(requested) =>
    \A i \in 1 .. handled : Gathered(i)

LEMMA AddKeeps ==
  ASSUME NEW nets, NEW net
  PROVE  nets \subseteq addIP(nets, net) /\ \E n \in addIP(nets, net) : SameNet(n, net)
BY DEF addIP, SameNet

LEMMA AddAllKeeps ==
  ASSUME NEW nets, NEW more
  PROVE  nets \subseteq AddAll(nets, more) /\ HasPrefixes(AddAll(nets, more), more)
<1>1. nets \subseteq AddAll(nets, more)
  BY DEF AddAll
<1>2. ASSUME NEW w \in more
      PROVE  \E n \in AddAll(nets, more) : SameNet(n, w)
  <2>1. CASE \E n \in nets : SameNet(n, w)
    BY <1>1, <2>1
  <2>2. CASE \A n \in nets : ~SameNet(n, w)
    <3>1. w \in AddAll(nets, more)
      BY <1>2, <2>2 DEF AddAll
    <3> QED BY <3>1 DEF SameNet
  <2> QED BY <2>1, <2>2
<1> QED BY <1>1, <1>2 DEF HasPrefixes

LEMMA AppendRange ==
  ASSUME NEW S, NEW s \in Seq(S), NEW x \in S
  PROVE  RangeOf(s) \subseteq RangeOf(Append(s, x)) /\ x \in RangeOf(Append(s, x))
<1>1. /\ Len(s) \in Nat /\ Len(Append(s, x)) = Len(s) + 1
      /\ Append(s, x)[Len(s) + 1] = x
      /\ \A i \in 1 .. Len(s) : Append(s, x)[i] = s[i]
  OBVIOUS
<1> QED BY <1>1 DEF RangeOf

(* A query stays gathered while the fields only grow. *)
LEMMA StaysGathered ==
  ASSUME NEW i, Gathered(i), requested' = requested, mLocalIP' = mLocalIP,
         mRoutes \subseteq mRoutes', RangeOf(mDnslist) \subseteq RangeOf(mDnslist'),
         mDomain # {} => mDomain' # {}
  PROVE  Gathered(i)'
<1>1. Script(requested)' = Script(requested)
  BY DEF Script, Queries
<1> DEFINE query == Script(requested)[i]
<1>2. query' = query
  BY <1>1
<1>3. ASSUME query.kind = "IFCONFIG"
      PROVE  mLocalIP' = {query.arg} /\ HasPrefixes(mRoutes', InterfaceRoutes(query.arg))
  BY <1>3 DEF Gathered, HasPrefixes
<1>4. ASSUME query.kind = "ROUTE"
      PROVE  mLocalIP' = {} \/ \E n \in mRoutes' : SameNet(n, query.arg)
  BY <1>4 DEF Gathered
<1>5. ASSUME query.kind = "DNSSERVER"
      PROVE  query.arg \in RangeOf(mDnslist')
  BY <1>5 DEF Gathered
<1>6. ASSUME query.kind = "DNSDOMAIN"
      PROVE  mDomain' # {}
  BY <1>6 DEF Gathered
<1> HIDE DEF query
<1> QED BY <1>2, <1>3, <1>4, <1>5, <1>6 DEF Gathered, query, RangeOf

(* A handler gathers its own query and keeps those before it. *)
LEMMA HandlerGathers ==
  ASSUME Typed, Counted, Collected, NEW kind, ToHandle(kind), kind # "OPENTUN",
         NEW status, Answered(status), UNCHANGED processVars,
         \A i \in 1 .. handled : Gathered(i) => Gathered(i)',
         NEW k, k = handled + 1, Gathered(k)'
  PROVE  Collected'
<1>1. handled' = handled + 1 /\ process' = process /\ requested' = requested
  BY DEF Answered, processVars
<1>2. handled \in Nat /\ handled + 1 <= PersistTunQuery(requested)
  BY HandlesEarlier DEF Typed
<1>3. PersistTunQuery(requested) \in Nat
  BY Numbers
<1> SUFFICES ASSUME process = "setup", NEW i \in 1 .. handled + 1
             PROVE  Gathered(i)'
  BY <1>1 DEF Collected
<1>4. \A j \in 1 .. handled : Gathered(j)
  BY <1>2, <1>3 DEF Collected
<1>5. i \in 1 .. handled \/ i = k
  BY <1>2
<1>6. CASE i \in 1 .. handled
  BY <1>4, <1>6
<1>7. CASE i = k
  BY <1>7
<1> QED BY <1>5, <1>6, <1>7

LEMMA CollectedNext ==
  Typed /\ Counted /\ OpeningLast /\ Collected /\ [Next]_vars => Collected'
<1> SUFFICES ASSUME Typed, Counted, OpeningLast, Collected, [Next]_vars
             PROVE  Collected'
  OBVIOUS
<1>k. PICK k : k = handled + 1
  OBVIOUS
<1> DEFINE query == Script(requested)[k]
<1>0. /\ requested \in Reply /\ handled \in Nat /\ mDnslist \in Seq(Dns)
      /\ PersistTunQuery(requested) \in Nat
      /\ OpenTunQuery(requested) = PersistTunQuery(requested) + 1
  BY Numbers DEF Typed
<1>a. requested' = requested =>
        /\ PersistTunQuery(requested)' = PersistTunQuery(requested)
        /\ Script(requested)' = Script(requested)
  BY DEF PersistTunQuery, OpenTunQuery, Script
<1>b. ASSUME NEW kind, ToHandle(kind)
      PROVE  k \in 1 .. OpenTunQuery(requested) /\ query.kind = kind /\ Argument = query.arg
  BY <1>b, <1>k, Handling DEF Argument
<1>1. CASE process' # "setup"
  BY <1>1 DEF Collected
<1>2. CASE PushReply
  <2>1. handled' = 0
    BY <1>2 DEF PushReply
  <2> QED BY <2>1 DEF Collected
<1>3. CASE /\ UNCHANGED <<process, requested, handled, mLocalIP, mDnslist, mDomain>>
           /\ mRoutes \subseteq mRoutes'
  <2> SUFFICES ASSUME process = "setup", handled <= PersistTunQuery(requested),
                      NEW i \in 1 .. handled
               PROVE  Gathered(i)'
    BY <1>3, <1>a DEF Collected
  <2>1. Gathered(i)
    BY DEF Collected
  <2> QED BY <2>1, <1>3, StaysGathered
<1>4. CASE setLocalIP
  <2>1. /\ ToHandle("IFCONFIG") /\ Answered("ok") /\ UNCHANGED processVars
        /\ mLocalIP' = {Argument} /\ requested' = requested
        /\ mRoutes' = AddAll(mRoutes, InterfaceRoutes(Argument))
    BY <1>4 DEF setLocalIP, processVars
  <2>2. k = 1 /\ query.kind = "IFCONFIG"
    BY <1>0, <1>b, <2>1, KindAt
  <2>3. handled = 0
    BY <1>0, <1>k, <2>2
  <2>4. HasPrefixes(mRoutes', InterfaceRoutes(query.arg)) /\ mLocalIP' = {query.arg}
    BY <1>b, <2>1, AddAllKeeps
  <2>5. Gathered(k)'
    <3>1. Script(requested)' = Script(requested)
      BY <1>a, <2>1
    <3>2. Script(requested)'[k] = query
      BY <3>1
    <3> HIDE DEF query
    <3> QED BY <2>2, <2>4, <3>2 DEF Gathered, HasPrefixes
  <2> QED BY <2>1, <2>3, <2>5, <1>k, HandlerGathers
<1>5. CASE addRoute
  <2>1. /\ ToHandle("ROUTE") /\ Answered("ok") /\ UNCHANGED processVars
        /\ mRoutes' = IF mLocalIP = {} THEN mRoutes ELSE addIP(mRoutes, Argument)
        /\ UNCHANGED <<mLocalIP, mDnslist, mDomain, requested>>
    BY <1>5 DEF addRoute, processVars
  <2>2. query.kind = "ROUTE" /\ Argument = query.arg
    BY <1>b, <2>1
  <2>3. /\ mRoutes \subseteq mRoutes'
        /\ mLocalIP' = {} \/ \E n \in mRoutes' : SameNet(n, query.arg)
    BY <2>1, <2>2, AddKeeps
  <2>4. \A i \in 1 .. handled : Gathered(i) => Gathered(i)'
    BY <2>1, <2>3, StaysGathered
  <2>5. Gathered(k)'
    <3>1. Script(requested)' = Script(requested)
      BY <1>a, <2>1
    <3>2. Script(requested)'[k] = query
      BY <3>1
    <3> HIDE DEF query
    <3> QED BY <2>2, <2>3, <3>2 DEF Gathered
  <2> QED BY <2>1, <2>4, <2>5, <1>k, HandlerGathers
<1>6. CASE addDNS
  <2>1. /\ ToHandle("DNSSERVER") /\ Answered("ok") /\ UNCHANGED processVars
        /\ mDnslist' = Append(mDnslist, Argument)
        /\ UNCHANGED <<mLocalIP, mRoutes, mDomain, requested>>
    BY <1>6 DEF addDNS, processVars
  <2>2. query.kind = "DNSSERVER" /\ Argument = query.arg
    BY <1>b, <2>1
  <2>3. requested.dns \in Seq(Dns)
    BY <1>0, ReplyParts
  <2>4. PICK j \in 1 .. Len(requested.dns) : query.arg = requested.dns[j]
    BY <1>0, <1>b, <2>1, <2>2, KindAt
  <2>5. query.arg \in Dns
    BY <2>3, <2>4
  <2>6. /\ RangeOf(mDnslist) \subseteq RangeOf(mDnslist')
        /\ query.arg \in RangeOf(mDnslist')
    BY <1>0, <2>1, <2>2, <2>5, AppendRange
  <2>7. \A i \in 1 .. handled : Gathered(i) => Gathered(i)'
    BY <2>1, <2>6, StaysGathered
  <2>8. Gathered(k)'
    <3>1. Script(requested)' = Script(requested)
      BY <1>a, <2>1
    <3>2. Script(requested)'[k] = query
      BY <3>1
    <3> HIDE DEF query
    <3> QED BY <2>2, <2>6, <3>2 DEF Gathered, RangeOf
  <2> QED BY <2>1, <2>7, <2>8, <1>k, HandlerGathers
<1>7. CASE setDomain
  <2>1. /\ ToHandle("DNSDOMAIN") /\ Answered("ok") /\ UNCHANGED processVars
        /\ mDomain' = IF mDomain = {} THEN {Argument} ELSE mDomain
        /\ UNCHANGED <<mLocalIP, mDnslist, mRoutes, requested>>
    BY <1>7 DEF setDomain, processVars
  <2>2. query.kind = "DNSDOMAIN" /\ mDomain' # {}
    BY <1>b, <2>1
  <2>3. \A i \in 1 .. handled : Gathered(i) => Gathered(i)'
    BY <2>1, <2>2, StaysGathered
  <2>4. Gathered(k)'
    <3>1. Script(requested)' = Script(requested)
      BY <1>a, <2>1
    <3>2. Script(requested)'[k] = query
      BY <3>1
    <3> HIDE DEF query
    <3> QED BY <2>2, <3>2 DEF Gathered
  <2> QED BY <2>1, <2>3, <2>4, <1>k, HandlerGathers
<1>8. CASE getTunReopenStatus
  <2>1. /\ ToHandle("PERSIST_TUN_ACTION") /\ UNCHANGED processVars
        /\ Answered("NOACTION") \/ Answered("OPEN_BEFORE_CLOSE")
        /\ UNCHANGED <<mLocalIP, mDnslist, mRoutes, mDomain, requested>>
    BY <1>8 DEF getTunReopenStatus, fieldVars, processVars
  <2>2. query.kind = "PERSIST_TUN_ACTION"
    BY <1>b, <2>1
  <2>3. \A i \in 1 .. handled : Gathered(i) => Gathered(i)'
    BY <2>1, StaysGathered
  <2>4. Gathered(k)'
    <3>1. Script(requested)' = Script(requested)
      BY <1>a, <2>1
    <3>2. Script(requested)'[k] = query
      BY <3>1
    <3> HIDE DEF query
    <3> QED BY <2>2, <3>2 DEF Gathered
  <2> QED BY <2>1, <2>3, <2>4, <1>k, HandlerGathers
<1>9. CASE OpenTunWithoutAddress \/ OpenTunAddressRejected
  <2>1. ToHandle("OPENTUN") /\ handled' = handled + 1 /\ requested' = requested
    BY <1>9 DEF OpenTunWithoutAddress, OpenTunAddressRejected, Answered, processVars
  <2>2. handled = PersistTunQuery(requested)
    BY <2>1, HandlesOpenTun
  <2> QED BY <1>0, <1>a, <2>1, <2>2 DEF Collected
<1>10. CASE OpenTunEnds
  <2>1. opening /\ handled' = handled + 1 /\ requested' = requested
    BY <1>10 DEF OpenTunEnds, Answered, processVars
  <2>2. handled = PersistTunQuery(requested)
    BY <2>1 DEF OpeningLast
  <2> QED BY <1>0, <1>a, <2>1, <2>2 DEF Collected
<1>11. CASE OpenTunBegins
  <2>1. /\ UNCHANGED <<process, requested, handled, mLocalIP, mDnslist, mDomain>>
        /\ mRoutes \subseteq mRoutes'
    BY <1>11, AddAllKeeps DEF OpenTunBegins, processVars
  <2> QED BY <2>1, <1>3
<1>12. CASE Ask \/ AskOpenTun \/ Generate \/ UNCHANGED vars
  <2>1. /\ UNCHANGED <<process, requested, handled, mLocalIP, mDnslist, mDomain>>
        /\ mRoutes \subseteq mRoutes'
    BY <1>12 DEF Ask, AskOpenTun, Generate, vars, fieldVars, processVars
  <2> QED BY <2>1, <1>3
<1>13. CASE \/ StartProcess \/ ServiceRecreated \/ KeepTun \/ OpenTunAnswered
            \/ OpenTunRefused \/ InterruptedSetup \/ Restart \/ Exit
  <2>1. process' # "setup"
    BY <1>13 DEF StartProcess, ServiceRecreated, KeepTun, OpenTunAnswered,
       OpenTunRefused, InterruptedSetup, Restart, Exit, ProcessGone, processVars
  <2> QED BY <2>1, <1>1
<1> QED
  BY <1>2, <1>4, <1>5, <1>6, <1>7, <1>8, <1>9, <1>10, <1>11, <1>12, <1>13
     DEF Next, SetupStep, ManagementThread

(* Once all but OPENTUN is handled the fields provide what the reply asks  *)
(* for, if there is an address at all.                                     *)
LEMMA GatheredProvides ==
  ASSUME Typed, mLocalIP # {},
         \A i \in 1 .. PersistTunQuery(requested) : Gathered(i)
  PROVE  Provides(getTunConfig, requested)
<1> DEFINE r == requested
           P == PersistTunQuery(r)
<1>0. r \in Reply
  BY DEF Typed
<1>1. /\ Routes(r) \in Nat /\ Servers(r) \in Nat /\ Domains(r) \in Nat /\ P \in Nat
      /\ Routes(r) <= 1 /\ Routes(r) <= Servers(r) /\ Servers(r) <= Domains(r)
      /\ Domains(r) < P
  BY <1>0, ScriptFacts
<1>2. /\ r.local \in Seq(Address) /\ r.routes \in Seq(Network) /\ r.dns \in Seq(Dns)
      /\ r.domain \in Seq(Domain)
  BY <1>0, ReplyParts
<1>3. ASSUME NEW i \in 1 .. Routes(r)
      PROVE  mLocalIP = {r.local[i]} /\ HasPrefixes(mRoutes, InterfaceRoutes(r.local[i]))
  <2>1. i \in 1 .. P
    BY <1>1
  <2>2. Script(r)[i] = [kind |-> "IFCONFIG", arg |-> r.local[i]]
    BY <1>0, ScriptFacts
  <2> QED BY <2>1, <2>2 DEF Gathered
<1>4. ASSUME NEW i \in Routes(r) + 1 .. Servers(r)
      PROVE  \E n \in mRoutes : SameNet(n, r.routes[i - Routes(r)])
  <2>1. i \in 1 .. P
    BY <1>1
  <2>2. Script(r)[i] = [kind |-> "ROUTE", arg |-> r.routes[i - Routes(r)]]
    BY <1>0, ScriptFacts
  <2> QED BY <2>1, <2>2 DEF Gathered
<1>5. ASSUME NEW i \in Servers(r) + 1 .. Domains(r)
      PROVE  r.dns[i - Servers(r)] \in RangeOf(mDnslist)
  <2>1. i \in 1 .. P
    BY <1>1
  <2>2. Script(r)[i] = [kind |-> "DNSSERVER", arg |-> r.dns[i - Servers(r)]]
    BY <1>0, ScriptFacts
  <2> QED BY <2>1, <2>2 DEF Gathered
<1>6. ASSUME NEW i \in Domains(r) + 1 .. P - 1
      PROVE  mDomain # {}
  <2>1. i \in 1 .. P
    BY <1>1
  <2>2. Script(r)[i] = [kind |-> "DNSDOMAIN", arg |-> r.domain[i - Domains(r)]]
    BY <1>0, ScriptFacts
  <2> QED BY <2>1, <2>2 DEF Gathered
<1>7. ASSUME NEW a \in RangeOf(r.local)
      PROVE  a \in mLocalIP /\ HasPrefixes(mRoutes, InterfaceRoutes(a))
  <2>1. PICK i \in 1 .. Len(r.local) : a = r.local[i]
    BY DEF RangeOf
  <2>2. i \in 1 .. Routes(r)
    BY DEF Routes
  <2> QED BY <1>3, <2>1, <2>2
<1>8. ASSUME NEW w \in RangeOf(r.routes)
      PROVE  \E n \in mRoutes : SameNet(n, w)
  <2>1. PICK j \in 1 .. Len(r.routes) : w = r.routes[j]
    BY DEF RangeOf
  <2>2. Routes(r) + j \in Routes(r) + 1 .. Servers(r) /\ (Routes(r) + j) - Routes(r) = j
    BY <1>1, <1>2 DEF Servers
  <2>3. \E n \in mRoutes : SameNet(n, r.routes[(Routes(r) + j) - Routes(r)])
    BY <1>4, <2>2
  <2> QED BY <2>1, <2>2, <2>3
<1>9. ASSUME NEW d \in RangeOf(r.dns)
      PROVE  d \in RangeOf(mDnslist)
  <2>1. PICK j \in 1 .. Len(r.dns) : d = r.dns[j]
    BY DEF RangeOf
  <2>2. Servers(r) + j \in Servers(r) + 1 .. Domains(r) /\ (Servers(r) + j) - Servers(r) = j
    BY <1>1, <1>2 DEF Domains
  <2>3. r.dns[(Servers(r) + j) - Servers(r)] \in RangeOf(mDnslist)
    BY <1>5, <2>2
  <2> QED BY <2>1, <2>2, <2>3
<1>10. ASSUME r.domain # <<>>
       PROVE  mDomain # {}
  <2>1. Len(r.domain) # 0 /\ Len(r.domain) \in Nat
    BY <1>2, <1>10
  <2>2. PICK n \in Nat : n = Len(r.domain)
    BY <2>1
  <2>3. Domains(r) + n = P - 1 /\ n >= 1
    BY <1>0, <2>1, <2>2, ScriptFacts
  <2>4. Domains(r) + 1 \in Domains(r) + 1 .. P - 1
    <3> HIDE DEF P
    <3> QED BY ONLY <1>1, <2>3
  <2> QED BY <1>6, <2>4
<1>11. HasPrefixes(mRoutes, WantedRoutes(r))
  BY <1>7, <1>8 DEF HasPrefixes, WantedRoutes
<1>12. /\ getTunConfig.local = mLocalIP /\ getTunConfig.routes = mRoutes
       /\ getTunConfig.dns = mDnslist /\ getTunConfig.domain = mDomain
  BY DEF getTunConfig
<1> HIDE DEF r
<1>13. Provides(getTunConfig, r)
  BY <1>7, <1>9, <1>10, <1>11, <1>12 DEF Provides
<1> QED BY <1>13 DEF r

-----------------------------------------------------------------------------
(* The device and the configuration it was opened with. *)

Devices ==
  /\ process = "none" => tun = {}
  /\ \A c \in mLastTunCfg : c.local # {}

(* Until the next device is opened, mLastTunCfg is about the one it holds. *)
Kept ==
  \/ process \in {"connecting", "connected"}
  \/ process = "setup" /\ handled <= PersistTunQuery(requested)
  => \A t \in tun : mLastTunCfg = {t.cfg}

Reopen ==
  process = "setup" /\ answer = "NOACTION" =>
    handled = PersistTunQuery(requested) /\ mLastTunCfg = {getTunConfig}

Opened ==
  process = "setup" /\ handled = OpenTunQuery(requested) /\ answer = "ok" =>
    \E t : /\ established = {t} /\ mLastTunCfg = {t.cfg}
           /\ Provides(t.cfg, requested)

Held == Devices /\ Kept /\ Reopen /\ Opened

LEMMA InitHeld == Init => Held /\ Collected
BY DEF Init, Held, Devices, Kept, Reopen, Opened, Collected

(* Neither the device, nor what it is compared with, nor an answer. *)
LEMMA HeldStays ==
  ASSUME Held,
         UNCHANGED <<process, requested, tun, mLastTunCfg, established>>,
         process = "setup" => handled' >= handled /\ handled \in Nat /\ handled' \in Nat
                              /\ PersistTunQuery(requested) \in Nat,
         process = "setup" => answer' \notin {"ok", "NOACTION"}
  PROVE  Held'
<1>1. /\ PersistTunQuery(requested)' = PersistTunQuery(requested)
      /\ OpenTunQuery(requested)' = OpenTunQuery(requested)
  BY DEF PersistTunQuery, OpenTunQuery, Script, Queries
<1>2. Devices'
  BY DEF Held, Devices
<1>3. Kept'
  BY <1>1 DEF Held, Kept
<1>4. Reopen' /\ Opened'
  BY DEF Reopen, Opened
<1> QED BY <1>2, <1>3, <1>4 DEF Held

(* A handler of a query before PERSIST_TUN_ACTION says "ok". *)
LEMMA HeldOnOk ==
  ASSUME Typed, Counted, Held, NEW kind, ToHandle(kind), kind # "OPENTUN",
         Answered("ok"), UNCHANGED <<processVars, mLastTunCfg, established>>
  PROVE  Held'
<1>0. /\ handled \in Nat /\ PersistTunQuery(requested) \in Nat
      /\ OpenTunQuery(requested) = PersistTunQuery(requested) + 1
      /\ handled + 1 <= PersistTunQuery(requested)
  BY Numbers, HandlesEarlier DEF Typed
<1>1. /\ PersistTunQuery(requested)' = PersistTunQuery(requested)
      /\ OpenTunQuery(requested)' = OpenTunQuery(requested)
  BY DEF PersistTunQuery, OpenTunQuery, Script, Queries, processVars
<1>2. handled' = handled + 1 /\ answer' = "ok" /\ process' = process /\ tun' = tun
  BY DEF Answered, processVars
<1>3. Devices'
  BY <1>2 DEF Held, Devices
<1>4. Kept'
  BY <1>0, <1>1, <1>2 DEF Held, Kept
<1>5. Reopen' /\ Opened'
  BY <1>0, <1>1, <1>2 DEF Reopen, Opened
<1> QED BY <1>3, <1>4, <1>5 DEF Held

LEMMA HeldNext ==
  /\ Typed /\ Counted /\ OpeningLast /\ Collected /\ Held /\ [Next]_vars
  => Held'
<1> SUFFICES ASSUME Typed, Counted, OpeningLast, Collected, Held, [Next]_vars
             PROVE  Held'
  OBVIOUS
<1>0. /\ requested \in Reply /\ handled \in Nat /\ sent \in Nat
      /\ PersistTunQuery(requested) \in Nat
      /\ OpenTunQuery(requested) = PersistTunQuery(requested) + 1
  BY Numbers DEF Typed
<1>a. requested' = requested =>
        /\ PersistTunQuery(requested)' = PersistTunQuery(requested)
        /\ OpenTunQuery(requested)' = OpenTunQuery(requested)
  BY DEF PersistTunQuery, OpenTunQuery, Script, Queries
<1>1. CASE StartProcess
  <2>1. process = "none" /\ process' = "connecting" /\ UNCHANGED <<tun, mLastTunCfg>>
    BY <1>1 DEF StartProcess, fieldVars
  <2>2. Devices' /\ Kept'
    BY <2>1 DEF Held, Devices, Kept
  <2> QED BY <2>1, <2>2 DEF Held, Reopen, Opened
<1>2. CASE ServiceRecreated
  <2>1. process = "none" /\ process' = "none" /\ tun' = tun /\ mLastTunCfg' = {}
    BY <1>2 DEF ServiceRecreated, processVars
  <2> QED BY <2>1 DEF Held, Devices, Kept, Reopen, Opened
<1>3. CASE PushReply
  <2>1. /\ process = "connecting" /\ process' = "setup" /\ handled' = 0
        /\ answer' = "none" /\ UNCHANGED <<tun, mLastTunCfg>>
    BY <1>3 DEF PushReply, fieldVars
  <2>2. Kept' /\ Devices'
    BY <2>1 DEF Held, Kept, Devices
  <2> QED BY <2>1, <2>2 DEF Held, Reopen, Opened
<1>4. CASE Ask \/ AskOpenTun
  <2>1. /\ UNCHANGED <<process, requested, tun, mLastTunCfg, established, handled>>
        /\ answer' = "none"
    BY <1>4 DEF Ask, AskOpenTun, fieldVars
  <2> QED BY <1>0, <2>1, HeldStays
<1>5. CASE KeepTun
  <2>1. /\ process = "setup" /\ process' = "connected" /\ answer = "NOACTION"
        /\ UNCHANGED <<tun, mLastTunCfg>>
    BY <1>5 DEF KeepTun, PersistTunAnswered, fieldVars
  <2>2. handled = PersistTunQuery(requested)
    BY <2>1 DEF Held, Reopen
  <2>3. \A t \in tun : mLastTunCfg = {t.cfg}
    BY <1>0, <2>1, <2>2 DEF Held, Kept
  <2> QED BY <2>1, <2>3 DEF Held, Devices, Kept, Reopen, Opened
<1>6. CASE OpenTunAnswered
  <2>1. /\ process = "setup" /\ process' = "connected" /\ answer = "ok"
        /\ sent = OpenTunQuery(requested) /\ tun' = established
        /\ UNCHANGED mLastTunCfg
    BY <1>6 DEF OpenTunAnswered, fieldVars
  <2>2. handled = OpenTunQuery(requested)
    BY <2>1 DEF Counted
  <2>3. \A t \in established : mLastTunCfg = {t.cfg}
    BY <2>1, <2>2 DEF Held, Opened
  <2> QED BY <2>1, <2>3 DEF Held, Devices, Kept, Reopen, Opened
<1>7. CASE OpenTunRefused \/ InterruptedSetup \/ Exit
  <2>1. process' = "none" /\ tun' = {} /\ UNCHANGED mLastTunCfg
    BY <1>7 DEF OpenTunRefused, InterruptedSetup, Exit, ProcessGone, fieldVars
  <2> QED BY <2>1 DEF Held, Devices, Kept, Reopen, Opened
<1>8. CASE Restart
  <2>1. /\ process = "connected" /\ process' = "connecting" /\ tun' \subseteq tun
        /\ UNCHANGED mLastTunCfg
    BY <1>8 DEF Restart, fieldVars
  <2>2. \A t \in tun : mLastTunCfg = {t.cfg}
    BY <2>1 DEF Held, Kept
  <2> QED BY <2>1, <2>2 DEF Held, Devices, Kept, Reopen, Opened
<1>9. CASE setLocalIP
  <2>1. ToHandle("IFCONFIG") /\ Answered("ok")
        /\ UNCHANGED <<processVars, mLastTunCfg, established>>
    BY <1>9 DEF setLocalIP
  <2> QED BY <2>1, HeldOnOk
<1>10. CASE addRoute
  <2>1. ToHandle("ROUTE") /\ Answered("ok")
        /\ UNCHANGED <<processVars, mLastTunCfg, established>>
    BY <1>10 DEF addRoute
  <2> QED BY <2>1, HeldOnOk
<1>11. CASE addDNS
  <2>1. ToHandle("DNSSERVER") /\ Answered("ok")
        /\ UNCHANGED <<processVars, mLastTunCfg, established>>
    BY <1>11 DEF addDNS
  <2> QED BY <2>1, HeldOnOk
<1>12. CASE setDomain
  <2>1. ToHandle("DNSDOMAIN") /\ Answered("ok")
        /\ UNCHANGED <<processVars, mLastTunCfg, established>>
    BY <1>12 DEF setDomain
  <2> QED BY <2>1, HeldOnOk
<1>13. CASE getTunReopenStatus
  <2>1. /\ ToHandle("PERSIST_TUN_ACTION") /\ handled' = handled + 1
        /\ UNCHANGED <<process, requested, tun, established>> /\ UNCHANGED fieldVars
        /\ answer' = (IF mLastTunCfg = {getTunConfig} THEN "NOACTION" ELSE "OPEN_BEFORE_CLOSE")
    BY <1>13 DEF getTunReopenStatus, Answered, processVars
  <2>2. handled + 1 = PersistTunQuery(requested)
    BY <1>0, <2>1, Handling, KindAt
  <2>3. mLastTunCfg' = mLastTunCfg /\ getTunConfig' = getTunConfig
    BY <2>1 DEF fieldVars, getTunConfig
  <2>4. Kept'
    BY <1>0, <1>a, <2>1, <2>2, <2>3 DEF Held, Kept
  <2>5. Reopen' /\ Opened'
    BY <1>a, <2>1, <2>2, <2>3 DEF Reopen, Opened
  <2> QED BY <2>1, <2>3, <2>4, <2>5 DEF Held, Devices
<1>14. CASE OpenTunWithoutAddress \/ OpenTunAddressRejected
  <2>1. /\ UNCHANGED <<process, requested, tun, mLastTunCfg, established>>
        /\ answer' = "cancel" /\ handled' = handled + 1
    BY <1>14 DEF OpenTunWithoutAddress, OpenTunAddressRejected, Answered, fieldVars,
       processVars
  <2> QED BY <1>0, <2>1, HeldStays
<1>15. CASE OpenTunBegins
  <2>1. /\ UNCHANGED <<process, requested, tun, mLastTunCfg, established, handled, answer>>
        /\ ToHandle("OPENTUN")
    BY <1>15 DEF OpenTunBegins, processVars
  <2>2. process = "setup" => answer = "none"
    BY <2>1, Handling
  <2> QED BY <1>0, <2>1, <2>2, HeldStays
<1>16. CASE Generate
  <2>1. UNCHANGED <<process, requested, tun, mLastTunCfg, established, handled, answer>>
        /\ opening
    BY <1>16 DEF Generate, fieldVars, processVars
  <2>2. process = "setup" => answer = "none"
    BY <1>0, <2>1 DEF OpeningLast, Counted
  <2> QED BY <1>0, <2>1, <2>2, HeldStays
<1>17. CASE OpenTunEnds
  <2>1. /\ opening /\ handled' = handled + 1 /\ UNCHANGED <<process, requested, tun>>
        /\ mLastTunCfg' = {getTunConfig} /\ answer' \in {"ok", "cancel"}
        /\ answer' = "ok" =>
             established' = {[cfg |-> getTunConfig, routes |-> RoutesToAdd]}
    BY <1>17 DEF OpenTunEnds, Answered, processVars
  <2>2. handled = PersistTunQuery(requested) /\ mLocalIP # {}
        /\ sent = OpenTunQuery(requested)
    BY <2>1 DEF OpeningLast
  <2>3. process \in {"none", "setup"}
    BY <1>0, <2>1, <2>2 DEF Counted, Quiet
  <2>4. Devices'
    BY <2>1, <2>2 DEF Held, Devices, getTunConfig
  <2>5. Kept'
    BY <1>0, <1>a, <2>1, <2>2, <2>3 DEF Kept
  <2>6. Reopen'
    BY <2>1 DEF Reopen
  <2>7. process = "setup" => Provides(getTunConfig, requested)
    BY <1>0, <2>2, GatheredProvides DEF Collected
  <2>8. ASSUME process' = "setup", answer' = "ok"
        PROVE  \E t : /\ established' = {t} /\ mLastTunCfg' = {t.cfg}
                      /\ Provides(t.cfg, requested')
    <3> DEFINE u == [cfg |-> getTunConfig, routes |-> RoutesToAdd]
    <3>1. u.cfg = getTunConfig
      OBVIOUS
    <3>2. established' = {u} /\ mLastTunCfg' = {u.cfg} /\ Provides(u.cfg, requested')
      BY <2>1, <2>7, <2>8, <3>1
    <3> QED BY <3>2
  <2>9. Opened'
    BY <2>8 DEF Opened
  <2> QED BY <2>4, <2>5, <2>6, <2>9 DEF Held
<1>18. CASE UNCHANGED vars
  BY <1>a, <1>18 DEF vars, fieldVars, processVars, Held, Devices, Kept, Reopen, Opened,
     getTunConfig
<1> QED
  BY <1>1, <1>2, <1>3, <1>4, <1>5, <1>6, <1>7, <1>8, <1>9, <1>10, <1>11, <1>12, <1>13,
     <1>14, <1>15, <1>16, <1>17, <1>18
     DEF Next, SetupStep, ManagementThread

-----------------------------------------------------------------------------
(* The inductive invariant and what follows from it. *)

Provided ==
  process = "connected" => \E t \in tun : Provides(t.cfg, requested)

IInv == Typed /\ Counted /\ OpeningLast /\ Collected /\ Held

LEMMA InitIInv == Init => IInv /\ Provided
<1>1. Init => Provided
  BY DEF Init, Provided
<1> QED BY <1>1, InitQueries, InitHeld DEF IInv

LEMMA NextIInv == IInv /\ [Next]_vars => IInv'
BY TypedNext, CountedNext, OpeningLastNext, CollectedNext, HeldNext DEF IInv

(* When a device is kept, there is one, and the fields describe it. *)
LEMMA KeptProvides ==
  ASSUME IInv, KeepTun
  PROVE  \E t : tun # {} /\ (\A u \in tun : u.cfg = t.cfg) /\ t \in tun
                /\ Provides(t.cfg, requested)
<1>1. process = "setup" /\ answer = "NOACTION" /\ tun # {}
  BY DEF KeepTun, PersistTunAnswered
<1>2. Typed /\ Collected /\ Devices /\ Kept /\ Reopen
  BY DEF IInv, Held
<1>3. handled = PersistTunQuery(requested) /\ mLastTunCfg = {getTunConfig}
  BY <1>1, <1>2 DEF Reopen
<1>4. PersistTunQuery(requested) \in Nat
  BY <1>2, Numbers
<1>5. \A u \in tun : mLastTunCfg = {u.cfg}
  BY <1>1, <1>2, <1>3, <1>4 DEF Kept
<1>6. \A u \in tun : u.cfg = getTunConfig
  BY <1>3, <1>5
<1>7. mLocalIP # {}
  BY <1>2, <1>3 DEF Devices, getTunConfig
<1>8. Provides(getTunConfig, requested)
  BY <1>1, <1>2, <1>3, <1>4, <1>7, GatheredProvides DEF Collected
<1> QED BY <1>1, <1>6, <1>8

(* When the process is given a new device, it is the one asked for. *)
LEMMA OpenedProvides ==
  ASSUME IInv, OpenTunAnswered
  PROVE  \E t : tun' = {t} /\ Provides(t.cfg, requested)
<1>1. /\ process = "setup" /\ answer = "ok" /\ sent = OpenTunQuery(requested)
      /\ tun' = established
  BY DEF OpenTunAnswered
<1>2. handled = OpenTunQuery(requested)
  BY <1>1 DEF IInv, Counted
<1> QED BY <1>1, <1>2 DEF IInv, Held, Opened

LEMMA NextProvided == IInv /\ Provided /\ [Next]_vars => Provided'
<1> SUFFICES ASSUME IInv, Provided, [Next]_vars, process' = "connected"
             PROVE  \E t \in tun' : Provides(t.cfg, requested')
  BY DEF Provided
<1>1. CASE KeepTun
  <2>1. tun' = tun /\ requested' = requested
    BY <1>1 DEF KeepTun
  <2> QED BY <1>1, <2>1, KeptProvides
<1>2. CASE OpenTunAnswered
  <2>1. requested' = requested
    BY <1>2 DEF OpenTunAnswered
  <2> QED BY <1>2, <2>1, OpenedProvides
<1>3. CASE process = "connected" /\ UNCHANGED <<tun, requested>>
  BY <1>3 DEF Provided
<1>4. ASSUME ~KeepTun, ~OpenTunAnswered
      PROVE  process = "connected" /\ UNCHANGED <<tun, requested>>
  BY <1>4 DEF Next, vars, fieldVars, StartProcess, ServiceRecreated, PushReply, SetupStep,
     Ask, AskOpenTun, PersistTunAnswered, OpenTunRefused, InterruptedSetup, ProcessGone,
     Restart, Exit, ManagementThread, setLocalIP, addRoute, addDNS, setDomain,
     getTunReopenStatus, OpenTunWithoutAddress, OpenTunAddressRejected, OpenTunBegins,
     Generate, OpenTunEnds, processVars
<1> QED BY <1>1, <1>2, <1>3, <1>4

(* The device of a connected process has every address, route, server and  *)
(* domain of the reply the process was given last: addRoute and the other  *)
(* handlers lose none, and getTunReopenStatus keeps no device that lacks   *)
(* one.                                                                    *)
THEOREM ConnectedProvides == Spec => []NothingRequestedMissing
<1>1. IInv /\ Provided /\ [Next]_vars => (IInv /\ Provided)'
  BY NextIInv, NextProvided
<1>2. Provided => NothingRequestedMissing
  BY DEF Provided, NothingRequestedMissing
<1> QED BY InitIInv, <1>1, <1>2, PTL DEF Spec

(* NOACTION (getTunReopenStatus) is said only of a device opened with the  *)
(* configuration collected now.                                            *)
THEOREM NoActionIsCurrent == Spec => []KeptTunIsCurrent
<1>1. IInv => KeptTunIsCurrent
  <2> SUFFICES ASSUME IInv, process = "setup", answer = "NOACTION", NEW t \in tun
               PROVE  t.cfg = getTunConfig
    BY DEF KeptTunIsCurrent
  <2>1. handled = PersistTunQuery(requested) /\ mLastTunCfg = {getTunConfig}
    BY DEF IInv, Held, Reopen
  <2>2. PersistTunQuery(requested) \in Nat
    BY Numbers DEF IInv
  <2>3. mLastTunCfg = {t.cfg}
    BY <2>1, <2>2 DEF IInv, Held, Kept
  <2> QED BY <2>1, <2>3
<1> QED BY InitIInv, NextIInv, <1>1, PTL DEF Spec

-----------------------------------------------------------------------------
(* The refinement *)

Device == {t.cfg : t \in tun}

LEMMA InitAtomic == Init => Atomic!Init
BY DEF Init, Atomic!Init

LEMMA NextAtomic == IInv /\ [Next]_vars => [Atomic!Next]_(Atomic!vars)
<1> SUFFICES ASSUME IInv, [Next]_vars
             PROVE  Atomic!Next \/ UNCHANGED Atomic!vars
  OBVIOUS
<1>a. tun' = tun => Device' = Device
  BY DEF Device
<1>b. tun' = {} => Device' = {}
  BY DEF Device
<1>1. CASE StartProcess
  <2>1. process = "none" /\ process' = "connecting" /\ UNCHANGED <<requested, tun>>
    BY <1>1 DEF StartProcess
  <2> QED BY <2>1, <1>a DEF Atomic!Next, Atomic!Start, Device
<1>2. CASE PushReply
  <2>1. /\ process = "connecting" /\ process' = "setup" /\ tun' = tun
        /\ replies # <<>> /\ requested' = Head(replies)
    BY <1>2 DEF PushReply
  <2>2. requested' \in Reply
    BY <2>1 DEF IInv, Typed
  <2> QED BY <2>1, <2>2, <1>a DEF Atomic!Next, Atomic!Push, Device
<1>3. CASE KeepTun
  <2>1. process = "setup" /\ process' = "connected" /\ UNCHANGED <<requested, tun>>
    BY <1>3 DEF KeepTun, PersistTunAnswered
  <2>2. PICK t \in tun : (\A u \in tun : u.cfg = t.cfg) /\ Provides(t.cfg, requested)
    BY <1>3, KeptProvides
  <2>3. Device' = {t.cfg}
    BY <2>1, <2>2, <1>a DEF Device
  <2> QED BY <2>1, <2>2, <2>3 DEF Atomic!Next, Atomic!Up, Device
<1>4. CASE OpenTunAnswered
  <2>1. process = "setup" /\ process' = "connected" /\ requested' = requested
    BY <1>4 DEF OpenTunAnswered
  <2>2. PICK t : tun' = {t} /\ Provides(t.cfg, requested)
    BY <1>4, OpenedProvides
  <2>3. Device' = {t.cfg}
    BY <2>2 DEF Device
  <2> QED BY <2>1, <2>2, <2>3 DEF Atomic!Next, Atomic!Up, Device
<1>5. CASE OpenTunRefused \/ InterruptedSetup
  <2>1. process = "setup" /\ process' = "none" /\ tun' = {} /\ requested' = requested
    BY <1>5 DEF OpenTunRefused, InterruptedSetup, ProcessGone
  <2> QED BY <2>1, <1>b DEF Atomic!Next, Atomic!Fail, Device
<1>6. CASE Restart
  <2>1. /\ process = "connected" /\ process' = "connecting" /\ requested' = requested
        /\ tun' = tun \/ tun' = {}
    BY <1>6 DEF Restart
  <2>2. Device' \in {Device, {}}
    BY <2>1, <1>a, <1>b
  <2> QED BY <2>1, <2>2 DEF Atomic!Next, Atomic!Restart, Device
<1>7. CASE Exit
  <2>1. /\ process \in {"connecting", "connected"} /\ process' = "none" /\ tun' = {}
        /\ requested' = requested
    BY <1>7 DEF Exit, ProcessGone
  <2> QED BY <2>1, <1>b DEF Atomic!Next, Atomic!Exit, Device
<1>8. CASE \/ ServiceRecreated \/ Ask \/ AskOpenTun \/ ManagementThread
           \/ UNCHANGED vars
  <2>1. UNCHANGED <<process, requested, tun>>
    BY <1>8 DEF ServiceRecreated, Ask, AskOpenTun, ManagementThread, setLocalIP, addRoute,
       addDNS, setDomain, getTunReopenStatus, OpenTunWithoutAddress,
       OpenTunAddressRejected, OpenTunBegins, Generate, OpenTunEnds, vars, processVars
  <2> QED BY <2>1, <1>a DEF Atomic!vars, Device
<1> QED
  BY <1>1, <1>2, <1>3, <1>4, <1>5, <1>6, <1>7, <1>8 DEF Next, SetupStep

(* The queries, their answers and the interruptions between them implement *)
(* a set-up that is one step: a tunnel that provides what the reply asks   *)
(* for, or no process and no tunnel.                                       *)
THEOREM SetupIsAtomic == Spec => ImplementsAtomicSetup
<1>1. Spec => Atomic!Spec
  BY InitIInv, NextIInv, InitAtomic, NextAtomic, PTL DEF Spec, Atomic!Spec
<1> QED BY <1>1 DEF ImplementsAtomicSetup

-----------------------------------------------------------------------------
(* A set-up that began with no field set. *)

LanOf(lan, addresses) == UNION {LanRoutes(lan, a) : a \in addresses}

(* The servers of the first handled queries, in their order. *)
DnsSoFar ==
  /\ handled <= Servers(requested) => Len(mDnslist) = 0
  /\ Servers(requested) <= handled /\ handled <= Domains(requested) =>
       Len(mDnslist) = handled - Servers(requested)
  /\ Domains(requested) <= handled =>
       Len(mDnslist) = Domains(requested) - Servers(requested)
  /\ \A i \in 1 .. Len(mDnslist) : mDnslist[i] = requested.dns[i]

NothingElse ==
  fresh /\ process = "setup" /\ handled <= PersistTunQuery(requested) =>
    /\ mLocalIP \subseteq RangeOf(requested.local)
    /\ ~opening => mRoutes \subseteq WantedRoutes(requested)
    /\ mDomain \subseteq RangeOf(requested.domain)
    /\ DnsSoFar

(* openTun has added the networks of one set of local networks. *)
OpeningLan ==
  opening =>
    \E lan \in LocalNetworks :
      /\ HasPrefixes(mRoutes, LanOf(lan, mLocalIP))
      /\ fresh /\ process = "setup" =>
           mRoutes \subseteq WantedRoutes(requested) \cup LanOf(lan, mLocalIP)

WithLan ==
  \A t \in tun \cup established :
    \E lan \in LocalNetworks : HasPrefixes(t.cfg.routes, LanOf(lan, t.cfg.local))

OpenedExact ==
  /\ fresh /\ process = "setup" /\ answer = "ok"
  /\ handled = OpenTunQuery(requested)
  => \A t \in established : \E lan \in LocalNetworks : Describes(t.cfg, requested, lan)

OneAddress == \A x, y \in mLocalIP : x = y

FreshInv == NothingElse /\ OpeningLan /\ WithLan /\ OpenedExact /\ OneAddress

Exact ==
  fresh /\ process = "connected" =>
    \E t \in tun, lan \in LocalNetworks : Describes(t.cfg, requested, lan)

LEMMA RangeOne ==
  ASSUME NEW S, NEW s \in Seq(S), Len(s) <= 1, NEW T, T \subseteq RangeOf(s), T # {}
  PROVE  T = RangeOf(s)
<1>1. \A x, y \in RangeOf(s) : x = y
  BY DEF RangeOf
<1> QED BY <1>1

(* What the fields describe once all but OPENTUN is handled. *)
LEMMA FreshDescribes ==
  ASSUME IInv, NothingElse, fresh, process = "setup", mLocalIP # {},
         handled = PersistTunQuery(requested), NEW lan,
         HasPrefixes(mRoutes, LanOf(lan, mLocalIP)),
         mRoutes \subseteq WantedRoutes(requested) \cup LanOf(lan, mLocalIP)
  PROVE  Describes(getTunConfig, requested, lan)
<1> DEFINE r == requested
<1>0. /\ Typed /\ Collected /\ r \in Reply /\ mDnslist \in Seq(Dns)
  BY DEF IInv, Typed
<1>1. /\ Routes(r) \in Nat /\ Servers(r) \in Nat /\ Domains(r) \in Nat
      /\ Servers(r) <= Domains(r) /\ Domains(r) < handled /\ handled \in Nat
  BY <1>0, ScriptFacts
<1>2. /\ r.local \in Seq(Address) /\ Len(r.local) <= 1 /\ r.dns \in Seq(Dns)
      /\ r.domain \in Seq(Domain) /\ Len(r.domain) <= 1
  BY <1>0, ReplyParts
<1>3. /\ mLocalIP \subseteq RangeOf(r.local) /\ mDomain \subseteq RangeOf(r.domain)
      /\ DnsSoFar
  BY <1>1 DEF NothingElse
<1>4. Provides(getTunConfig, r)
  BY <1>0, <1>1, GatheredProvides DEF Collected
<1>5. /\ getTunConfig.local = mLocalIP /\ getTunConfig.routes = mRoutes
      /\ getTunConfig.dns = mDnslist /\ getTunConfig.domain = mDomain
  BY DEF getTunConfig
<1>6. mLocalIP = RangeOf(r.local)
  BY <1>2, <1>3, RangeOne
<1>7. mDnslist = r.dns
  <2>1. Len(mDnslist) = Domains(r) - Servers(r)
    BY <1>1, <1>3 DEF DnsSoFar
  <2>2. Domains(r) - Servers(r) = Len(r.dns)
    <3>1. PICK n \in Nat : n = Len(r.dns)
      BY <1>2
    <3>2. Domains(r) = Servers(r) + n
      BY <3>1 DEF Domains
    <3>3. Domains(r) - Servers(r) = n
      BY ONLY <1>1, <3>2
    <3> QED BY <3>1, <3>3
  <2>3. \A i \in 1 .. Len(mDnslist) : mDnslist[i] = r.dns[i]
    BY <1>3 DEF DnsSoFar
  <2> QED BY <1>0, <1>2, <2>1, <2>2, <2>3, SeqEqual
<1>8. mDomain = RangeOf(r.domain)
  <2>1. CASE r.domain = <<>>
    BY <1>3, <2>1 DEF RangeOf
  <2>2. CASE r.domain # <<>>
    <3>1. mDomain # {}
      BY <1>4, <1>5, <2>2 DEF Provides
    <3> QED BY <1>2, <1>3, <3>1, RangeOne
  <2> QED BY <2>1, <2>2
<1>9. HasPrefixes(mRoutes, WantedRoutes(r) \cup LanOf(lan, mLocalIP))
  BY <1>4, <1>5 DEF Provides, HasPrefixes
<1> HIDE DEF r
<1>10. mRoutes \subseteq WantedRoutes(r) \cup LanOf(lan, RangeOf(r.local))
  BY <1>6 DEF r
<1>11. LanOf(lan, RangeOf(r.local)) = UNION {LanRoutes(lan, a) : a \in RangeOf(r.local)}
  BY DEF LanOf
<1>12. Describes(getTunConfig, r, lan)
  BY <1>5, <1>6, <1>7, <1>8, <1>9, <1>10, <1>11 DEF Describes
<1> QED BY <1>12 DEF r

LEMMA DnsKept ==
  ASSUME Typed, DnsSoFar, requested' = requested, mDnslist' = mDnslist,
         handled' = handled + 1,
         handled + 1 <= Servers(requested) \/ Domains(requested) <= handled
  PROVE  DnsSoFar'
<1>1. /\ Servers(requested) \in Nat /\ Domains(requested) \in Nat /\ handled \in Nat
      /\ Servers(requested) <= Domains(requested)
  BY ScriptFacts DEF Typed
<1>2. /\ Servers(requested)' = Servers(requested)
      /\ Domains(requested)' = Domains(requested)
  BY DEF Servers, Domains, Routes
<1>3. Len(mDnslist') = Len(mDnslist)
  OBVIOUS
<1>4. PICK n : n = Len(mDnslist)
  OBVIOUS
<1>5. /\ handled + 1 <= Servers(requested) => n = 0
      /\ Servers(requested) <= handled + 1 /\ handled + 1 <= Domains(requested) =>
           n = (handled + 1) - Servers(requested)
      /\ Domains(requested) <= handled + 1 => n = Domains(requested) - Servers(requested)
  <2>1. /\ handled <= Servers(requested) => n = 0
        /\ Domains(requested) <= handled => n = Domains(requested) - Servers(requested)
    BY <1>4 DEF DnsSoFar
  <2> QED BY <1>1, <2>1
<1>6. \A i \in 1 .. Len(mDnslist') : mDnslist'[i] = requested'.dns[i]
  BY DEF DnsSoFar
<1> QED BY <1>2, <1>3, <1>4, <1>5, <1>6 DEF DnsSoFar

LEMMA DnsGrows ==
  ASSUME Typed, DnsSoFar, requested' = requested, handled' = handled + 1,
         NEW j \in 1 .. Len(requested.dns), handled + 1 = Servers(requested) + j,
         mDnslist' = Append(mDnslist, requested.dns[j])
  PROVE  DnsSoFar'
<1>1. /\ requested \in Reply /\ mDnslist \in Seq(Dns) /\ handled \in Nat
      /\ Servers(requested) \in Nat /\ Domains(requested) \in Nat
  BY ScriptFacts DEF Typed
<1>2. /\ Servers(requested)' = Servers(requested)
      /\ Domains(requested)' = Domains(requested)
  BY DEF Servers, Domains, Routes
<1>3. requested.dns \in Seq(Dns)
  BY <1>1, ReplyParts
<1>4. PICK m \in Nat : m = Len(requested.dns)
  BY <1>3
<1>5. PICK n \in Nat : n = Len(mDnslist)
  BY <1>1
<1>6. Domains(requested) = Servers(requested) + m /\ j \in 1 .. m
  BY <1>4 DEF Domains
<1>7. n = j - 1
  <2>1. /\ Servers(requested) <= handled /\ handled <= Domains(requested) =>
             n = handled - Servers(requested)
    BY <1>5 DEF DnsSoFar
  <2> QED BY ONLY <1>1, <1>6, <2>1, handled + 1 = Servers(requested) + j
<1>8. Len(mDnslist') = n + 1 /\ n + 1 = j
  <2>1. Len(mDnslist') = Len(mDnslist) + 1
    BY <1>1, <1>3
  <2> QED BY <1>5, <1>6, <1>7, <2>1
<1>9. /\ handled + 1 <= Servers(requested) => j = 0
      /\ Servers(requested) <= handled + 1 /\ handled + 1 <= Domains(requested) =>
           j = (handled + 1) - Servers(requested)
      /\ Domains(requested) <= handled + 1 => j = Domains(requested) - Servers(requested)
  BY ONLY <1>1, <1>6, handled + 1 = Servers(requested) + j
<1>10. ASSUME NEW i \in 1 .. j
       PROVE  mDnslist'[i] = requested.dns[i]
  <2>1. requested.dns[j] \in Dns
    BY <1>3
  <2>2. CASE i = j
    <3>1. mDnslist'[n + 1] = requested.dns[j]
      BY <1>1, <1>5, <2>1
    <3> QED BY <1>8, <2>2, <3>1
  <2>3. CASE i # j
    <3>1. i \in 1 .. n
      BY <1>6, <1>7, <2>3
    <3>2. mDnslist'[i] = mDnslist[i]
      BY <1>1, <1>5, <2>1, <3>1
    <3> QED BY <1>5, <3>1, <3>2 DEF DnsSoFar
  <2> QED BY <2>2, <2>3
<1> QED BY <1>2, <1>8, <1>9, <1>10 DEF DnsSoFar

LEMMA InitFresh == Init => FreshInv /\ Exact
<1> SUFFICES ASSUME Init
             PROVE  FreshInv /\ Exact
  OBVIOUS
<1>1. process = "none" /\ opening = FALSE /\ tun = {} /\ established = {} /\ mLocalIP = {}
  BY DEF Init
<1> QED BY <1>1 DEF FreshInv, NothingElse, OpeningLan, WithLan, OpenedExact, OneAddress, Exact

LEMMA OneAddressNext == OneAddress /\ [Next]_vars => OneAddress'
<1> SUFFICES ASSUME OneAddress, [Next]_vars
             PROVE  mLocalIP' = mLocalIP \/ mLocalIP' = {} \/ \E a : mLocalIP' = {a}
  BY DEF OneAddress
<1> QED
  BY DEF Next, vars, fieldVars, StartProcess, ServiceRecreated, PushReply, SetupStep,
     Ask, KeepTun, AskOpenTun, OpenTunAnswered, OpenTunRefused, InterruptedSetup,
     Restart, Exit, ManagementThread, setLocalIP, addRoute, addDNS, setDomain,
     getTunReopenStatus, OpenTunWithoutAddress, OpenTunAddressRejected, OpenTunBegins,
     Generate, OpenTunEnds, FieldsCleared

LEMMA NothingElseNext ==
  Typed /\ Counted /\ OpeningLast /\ NothingElse /\ [Next]_vars => NothingElse'
<1> SUFFICES ASSUME Typed, Counted, OpeningLast, NothingElse, [Next]_vars
             PROVE  NothingElse'
  OBVIOUS
<1>k. PICK k : k = handled + 1
  OBVIOUS
<1> DEFINE query == Script(requested)[k]
           Former == /\ mLocalIP \subseteq RangeOf(requested.local)
                     /\ mRoutes \subseteq WantedRoutes(requested)
                     /\ mDomain \subseteq RangeOf(requested.domain)
                     /\ DnsSoFar
<1>0. /\ requested \in Reply /\ handled \in Nat /\ sent \in Nat
      /\ PersistTunQuery(requested) \in Nat
      /\ OpenTunQuery(requested) = PersistTunQuery(requested) + 1
      /\ Routes(requested) \in Nat /\ Servers(requested) \in Nat /\ Domains(requested) \in Nat
      /\ Routes(requested) <= Servers(requested) /\ Servers(requested) <= Domains(requested)
      /\ Domains(requested) < PersistTunQuery(requested)
  BY Numbers, ScriptFacts DEF Typed
<1>a. requested' = requested =>
        PersistTunQuery(requested)' = PersistTunQuery(requested)
  BY DEF PersistTunQuery, OpenTunQuery, Script, Queries
<1>b. ASSUME NEW kind, ToHandle(kind)
      PROVE  k \in 1 .. OpenTunQuery(requested) /\ query.kind = kind /\ Argument = query.arg
  BY <1>b, <1>k, Handling DEF Argument
<1>c. ASSUME NEW kind, ToHandle(kind), kind # "OPENTUN", fresh, process = "setup"
      PROVE  Former /\ handled + 1 <= PersistTunQuery(requested) /\ ~opening
  <2>1. ~opening
    BY <1>c DEF ToHandle
  <2>2. handled + 1 <= PersistTunQuery(requested)
    BY <1>c, HandlesEarlier
  <2> QED BY <1>0, <1>c, <2>1, <2>2 DEF NothingElse
<1>1. CASE process' # "setup"
  BY <1>1 DEF NothingElse
<1>2. CASE PushReply
  <2>1. /\ fresh' = FieldsEmpty /\ handled' = 0 /\ opening' = opening
        /\ UNCHANGED <<mLocalIP, mDnslist, mRoutes, mDomain>> /\ handled = sent
    BY <1>2 DEF PushReply, fieldVars, Counted, Quiet
  <2>2. ~opening
    BY <1>0, <2>1 DEF OpeningLast
  <2>3. requested' \in Reply
    BY TypedNext DEF Typed
  <2>4. /\ Servers(requested') \in Nat /\ Domains(requested') \in Nat
        /\ Servers(requested') <= Domains(requested')
    BY <2>3, ScriptFacts
  <2>5. ASSUME FieldsEmpty
        PROVE  DnsSoFar'
    <3>1. Len(mDnslist') = 0
      BY <2>1, <2>5 DEF FieldsEmpty
    <3>2. Servers(requested)' = Servers(requested') /\ Domains(requested)' = Domains(requested')
      BY DEF Servers, Domains, Routes
    <3> QED BY <2>1, <2>4, <3>1, <3>2 DEF DnsSoFar
  <2> QED BY <2>1, <2>2, <2>5 DEF NothingElse, FieldsEmpty
<1>3. CASE /\ UNCHANGED <<process, requested, fresh, handled>>
           /\ UNCHANGED <<mLocalIP, mDnslist, mRoutes, mDomain>>
           /\ opening' = opening
  <2>1. /\ process' = process /\ requested' = requested /\ fresh' = fresh /\ handled' = handled
        /\ mLocalIP' = mLocalIP /\ mDnslist' = mDnslist /\ mRoutes' = mRoutes
        /\ mDomain' = mDomain /\ opening' = opening
    BY <1>3
  <2>2. DnsSoFar' = DnsSoFar
    BY <2>1 DEF DnsSoFar, Servers, Domains, Routes
  <2>3. /\ WantedRoutes(requested)' = WantedRoutes(requested)
        /\ PersistTunQuery(requested)' = PersistTunQuery(requested)
    BY <2>1, <1>a DEF WantedRoutes, RangeOf
  <2> QED BY <2>1, <2>2, <2>3 DEF NothingElse
<1>4. CASE setLocalIP
  <2>1. /\ ToHandle("IFCONFIG") /\ handled' = handled + 1
        /\ mLocalIP' = {Argument} /\ mRoutes' = AddAll(mRoutes, InterfaceRoutes(Argument))
        /\ UNCHANGED <<mDnslist, mDomain, process, fresh, requested>>
    BY <1>4 DEF setLocalIP, processVars, Answered
  <2> SUFFICES ASSUME fresh, process = "setup"
               PROVE  /\ mLocalIP' \subseteq RangeOf(requested.local)
                      /\ mRoutes' \subseteq WantedRoutes(requested)
                      /\ mDomain' \subseteq RangeOf(requested.domain)
                      /\ DnsSoFar'
    BY <2>1 DEF NothingElse
  <2>2. Former
    BY <1>c, <2>1
  <2>3. k = 1 /\ Routes(requested) = 1 /\ query.arg = requested.local[1]
    BY <1>0, <1>b, <2>1, KindAt
  <2>4. requested.local \in Seq(Address) /\ Len(requested.local) = 1
    BY <1>0, <2>3, ReplyParts DEF Routes
  <2>5. query.arg \in RangeOf(requested.local)
    BY <2>3, <2>4 DEF RangeOf
  <2>6. mRoutes' \subseteq mRoutes \cup InterfaceRoutes(query.arg)
    BY <1>b, <2>1 DEF AddAll
  <2>7. InterfaceRoutes(query.arg) \subseteq WantedRoutes(requested)
    BY <2>5 DEF WantedRoutes
  <2>8. DnsSoFar'
    <3>1. handled + 1 <= Servers(requested)
      BY <1>0, <1>k, <2>3
    <3> QED BY <2>1, <2>2, <3>1, DnsKept
  <2> QED BY <1>b, <2>1, <2>2, <2>5, <2>6, <2>7, <2>8
<1>5. CASE addRoute
  <2>1. /\ ToHandle("ROUTE") /\ handled' = handled + 1
        /\ mRoutes' = IF mLocalIP = {} THEN mRoutes ELSE addIP(mRoutes, Argument)
        /\ UNCHANGED <<mLocalIP, mDnslist, mDomain, process, fresh, requested>>
    BY <1>5 DEF addRoute, processVars, Answered
  <2> SUFFICES ASSUME fresh, process = "setup"
               PROVE  /\ mLocalIP' \subseteq RangeOf(requested.local)
                      /\ mRoutes' \subseteq WantedRoutes(requested)
                      /\ mDomain' \subseteq RangeOf(requested.domain)
                      /\ DnsSoFar'
    BY <2>1 DEF NothingElse
  <2>2. Former
    BY <1>c, <2>1
  <2>3. PICK j \in 1 .. Len(requested.routes) :
          query.arg = requested.routes[j] /\ j = k - Routes(requested)
    BY <1>0, <1>b, <2>1, KindAt
  <2>4. query.arg \in WantedRoutes(requested)
    BY <2>3 DEF WantedRoutes, RangeOf
  <2>5. mRoutes' \subseteq mRoutes \cup {query.arg}
    BY <1>b, <2>1 DEF addIP
  <2>6. DnsSoFar'
    <3>1. requested.routes \in Seq(Network)
      BY <1>0, ReplyParts
    <3>2. PICK n \in Nat : n = Len(requested.routes)
      BY <3>1
    <3>3. Servers(requested) = Routes(requested) + n /\ j \in 1 .. n
      BY <3>2 DEF Servers
    <3>4. j = k - Routes(requested)
      BY <2>3
    <3>5. handled + 1 <= Servers(requested)
      BY ONLY <1>0, <1>k, <3>3, <3>4
    <3> QED BY <2>1, <2>2, <3>5, DnsKept
  <2> QED BY <2>1, <2>2, <2>4, <2>5, <2>6
<1>6. CASE addDNS
  <2>1. /\ ToHandle("DNSSERVER") /\ handled' = handled + 1
        /\ mDnslist' = Append(mDnslist, Argument)
        /\ UNCHANGED <<mLocalIP, mRoutes, mDomain, process, fresh, requested>>
    BY <1>6 DEF addDNS, processVars, Answered
  <2> SUFFICES ASSUME fresh, process = "setup"
               PROVE  /\ mLocalIP' \subseteq RangeOf(requested.local)
                      /\ mRoutes' \subseteq WantedRoutes(requested)
                      /\ mDomain' \subseteq RangeOf(requested.domain)
                      /\ DnsSoFar'
    BY <2>1 DEF NothingElse
  <2>2. Former
    BY <1>c, <2>1
  <2>3. PICK j \in 1 .. Len(requested.dns) :
          query.arg = requested.dns[j] /\ j = k - Servers(requested)
    BY <1>0, <1>b, <2>1, KindAt
  <2>4. handled + 1 = Servers(requested) + j
    <3>1. j = k - Servers(requested) /\ j \in Int
      BY <1>0, <1>k, <2>3
    <3> QED BY ONLY <1>0, <1>k, <3>1
  <2>5. DnsSoFar'
    BY <1>b, <2>1, <2>2, <2>3, <2>4, DnsGrows
  <2> QED BY <2>1, <2>2, <2>5
<1>7. CASE setDomain
  <2>1. /\ ToHandle("DNSDOMAIN") /\ handled' = handled + 1
        /\ mDomain' = IF mDomain = {} THEN {Argument} ELSE mDomain
        /\ UNCHANGED <<mLocalIP, mRoutes, mDnslist, process, fresh, requested>>
    BY <1>7 DEF setDomain, processVars, Answered
  <2> SUFFICES ASSUME fresh, process = "setup"
               PROVE  /\ mLocalIP' \subseteq RangeOf(requested.local)
                      /\ mRoutes' \subseteq WantedRoutes(requested)
                      /\ mDomain' \subseteq RangeOf(requested.domain)
                      /\ DnsSoFar'
    BY <2>1 DEF NothingElse
  <2>2. Former
    BY <1>c, <2>1
  <2>3. /\ k = Domains(requested) + 1 /\ Len(requested.domain) = 1
        /\ query.arg = requested.domain[1]
    BY <1>0, <1>b, <2>1, KindAt
  <2>4. query.arg \in RangeOf(requested.domain)
    BY <2>3 DEF RangeOf
  <2>5. DnsSoFar'
    <3>1. k = Domains(requested) + 1
      BY <2>3
    <3>2. Domains(requested) <= handled
      BY ONLY <1>0, <1>k, <3>1
    <3> QED BY <2>1, <2>2, <3>2, DnsKept
  <2> QED BY <1>b, <2>1, <2>2, <2>4, <2>5
<1>8. CASE getTunReopenStatus
  <2>1. /\ ToHandle("PERSIST_TUN_ACTION") /\ handled' = handled + 1
        /\ UNCHANGED <<mLocalIP, mRoutes, mDnslist, mDomain, process, fresh, requested>>
    BY <1>8 DEF getTunReopenStatus, processVars, fieldVars, Answered
  <2> SUFFICES ASSUME fresh, process = "setup"
               PROVE  /\ mLocalIP' \subseteq RangeOf(requested.local)
                      /\ mRoutes' \subseteq WantedRoutes(requested)
                      /\ mDomain' \subseteq RangeOf(requested.domain)
                      /\ DnsSoFar'
    BY <2>1 DEF NothingElse
  <2>2. Former
    BY <1>c, <2>1
  <2>3. k = PersistTunQuery(requested)
    BY <1>0, <1>b, <2>1, KindAt
  <2>4. Domains(requested) <= handled
    BY <1>0, <1>k, <2>3
  <2> QED BY <2>1, <2>2, <2>4, DnsKept
<1>9. CASE OpenTunWithoutAddress \/ OpenTunAddressRejected
  <2>1. ToHandle("OPENTUN") /\ handled' = handled + 1 /\ requested' = requested
    BY <1>9 DEF OpenTunWithoutAddress, OpenTunAddressRejected, Answered, processVars
  <2>2. handled = PersistTunQuery(requested)
    BY <2>1, HandlesOpenTun
  <2> QED BY <1>0, <1>a, <2>1, <2>2 DEF NothingElse
<1>10. CASE OpenTunEnds
  <2>1. opening /\ handled' = handled + 1 /\ requested' = requested
    BY <1>10 DEF OpenTunEnds, Answered, processVars
  <2>2. handled = PersistTunQuery(requested)
    BY <2>1 DEF OpeningLast
  <2> QED BY <1>0, <1>a, <2>1, <2>2 DEF NothingElse
<1>11. CASE OpenTunBegins
  <2>1. /\ UNCHANGED <<process, requested, fresh, handled, mLocalIP, mDnslist, mDomain>>
        /\ opening'
    BY <1>11 DEF OpenTunBegins, processVars
  <2> QED BY <2>1, <1>a DEF NothingElse, DnsSoFar, Servers, Domains, Routes, RangeOf
<1>12. CASE Ask \/ AskOpenTun \/ Generate \/ UNCHANGED vars
  <2>1. /\ UNCHANGED <<process, requested, fresh, handled>>
        /\ UNCHANGED <<mLocalIP, mDnslist, mRoutes, mDomain>>
        /\ opening' = opening
    BY <1>12 DEF Ask, AskOpenTun, Generate, vars, fieldVars, processVars
  <2> QED BY <2>1, <1>3
<1>13. CASE \/ StartProcess \/ ServiceRecreated \/ KeepTun \/ OpenTunAnswered
            \/ OpenTunRefused \/ InterruptedSetup \/ Restart \/ Exit
  <2>1. process' # "setup"
    BY <1>13 DEF StartProcess, ServiceRecreated, KeepTun, OpenTunAnswered,
       OpenTunRefused, InterruptedSetup, Restart, Exit, ProcessGone, processVars
  <2> QED BY <2>1, <1>1
<1> QED
  BY <1>2, <1>4, <1>5, <1>6, <1>7, <1>8, <1>9, <1>10, <1>11, <1>12, <1>13
     DEF Next, SetupStep, ManagementThread

LEMMA OpeningLanNext ==
  IInv /\ NothingElse /\ OpeningLan /\ OneAddress /\ [Next]_vars => OpeningLan'
<1> SUFFICES ASSUME IInv, NothingElse, OpeningLan, OneAddress, [Next]_vars, opening'
             PROVE  \E lan \in LocalNetworks :
                      /\ HasPrefixes(mRoutes', LanOf(lan, mLocalIP'))
                      /\ fresh' /\ process' = "setup" =>
                           mRoutes' \subseteq WantedRoutes(requested')
                                                \cup LanOf(lan, mLocalIP')
  BY DEF OpeningLan, LanOf, LanRoutes, HasPrefixes, WantedRoutes, RangeOf
<1>0. /\ Typed /\ Counted /\ OpeningLast /\ handled \in Nat /\ sent \in Nat
      /\ PersistTunQuery(requested) \in Nat
      /\ OpenTunQuery(requested) = PersistTunQuery(requested) + 1
  BY Numbers DEF IInv, Typed
<1>1. CASE OpenTunBegins
  <2>1. /\ ToHandle("OPENTUN") /\ ~opening
        /\ UNCHANGED <<mLocalIP, process, requested, fresh>>
    BY <1>1 DEF OpenTunBegins, ToHandle, processVars
  <2>2. PICK local \in mLocalIP, lan \in LocalNetworks :
          mRoutes' = AddAll(mRoutes, LanRoutes(lan, local))
    BY <1>1 DEF OpenTunBegins
  <2>3. mLocalIP = {local}
    BY <2>2 DEF OneAddress
  <2>4. LanOf(lan, mLocalIP') = LanRoutes(lan, local)
    BY <2>1, <2>3 DEF LanOf
  <2>5. HasPrefixes(mRoutes', LanOf(lan, mLocalIP'))
    BY <2>2, <2>4, AddAllKeeps
  <2>6. ASSUME fresh, process = "setup"
        PROVE  mRoutes' \subseteq WantedRoutes(requested) \cup LanOf(lan, mLocalIP')
    <3>1. handled = PersistTunQuery(requested)
      BY <1>0, <2>1, HandlesOpenTun
    <3>2. mRoutes \subseteq WantedRoutes(requested)
      BY <1>0, <2>1, <2>6, <3>1 DEF NothingElse
    <3>3. mRoutes' \subseteq mRoutes \cup LanRoutes(lan, local)
      BY <2>2 DEF AddAll
    <3> QED BY <2>4, <3>2, <3>3
  <2> QED BY <2>1, <2>5, <2>6
<1>2. ASSUME ~OpenTunBegins
      PROVE  opening /\ UNCHANGED <<mLocalIP, mRoutes>>
  BY <1>2 DEF Next, vars, fieldVars, StartProcess, ServiceRecreated, Quiet, PushReply,
     SetupStep, Ask, KeepTun, AskOpenTun, OpenTunAnswered, OpenTunRefused,
     InterruptedSetup, Restart, Exit, ManagementThread, setLocalIP, addRoute, addDNS,
     setDomain, getTunReopenStatus, OpenTunWithoutAddress, OpenTunAddressRejected,
     Generate, OpenTunEnds, processVars, ToHandle
<1>3. ASSUME ~OpenTunBegins, process' = "setup"
      PROVE  UNCHANGED <<process, requested, fresh>>
  <2>1. opening /\ ~Quiet
    BY <1>2, <1>3 DEF Quiet
  <2> QED
    BY <1>3, <2>1 DEF Next, vars, StartProcess, ServiceRecreated, PushReply, Counted,
     SetupStep, Ask, KeepTun, AskOpenTun, OpenTunAnswered, OpenTunRefused, ProcessGone,
     InterruptedSetup, Restart, Exit, ManagementThread, setLocalIP, addRoute, addDNS,
     setDomain, getTunReopenStatus, OpenTunWithoutAddress, OpenTunAddressRejected,
     Generate, OpenTunEnds, processVars, IInv
<1>4. CASE ~OpenTunBegins
  <2>1. PICK lan \in LocalNetworks :
          /\ HasPrefixes(mRoutes, LanOf(lan, mLocalIP))
          /\ fresh /\ process = "setup" =>
               mRoutes \subseteq WantedRoutes(requested) \cup LanOf(lan, mLocalIP)
    BY <1>2, <1>4 DEF OpeningLan
  <2>2. HasPrefixes(mRoutes', LanOf(lan, mLocalIP'))
    BY <1>2, <1>4, <2>1
  <2>3. ASSUME fresh', process' = "setup"
        PROVE  mRoutes' \subseteq WantedRoutes(requested') \cup LanOf(lan, mLocalIP')
    BY <1>2, <1>3, <1>4, <2>1, <2>3
  <2> QED BY <2>2, <2>3
<1> QED BY <1>1, <1>4

LEMMA WithLanNext == OpeningLan /\ WithLan /\ [Next]_vars => WithLan'
<1> SUFFICES ASSUME OpeningLan, WithLan, [Next]_vars, NEW t \in tun' \cup established'
             PROVE  \E lan \in LocalNetworks :
                      HasPrefixes(t.cfg.routes, LanOf(lan, t.cfg.local))
  BY DEF WithLan, HasPrefixes, LanOf, LanRoutes
<1>1. CASE t \in tun \cup established
  BY <1>1 DEF WithLan
<1>2. CASE OpenTunEnds
  <2>1. opening /\ tun' = tun
    BY <1>2 DEF OpenTunEnds, processVars
  <2>2. CASE t = [cfg |-> getTunConfig, routes |-> RoutesToAdd]
    <3>1. t.cfg.routes = mRoutes /\ t.cfg.local = mLocalIP
      BY <2>2 DEF getTunConfig
    <3> QED BY <2>1, <3>1 DEF OpeningLan
  <2>3. t \in tun \cup established \/ t = [cfg |-> getTunConfig, routes |-> RoutesToAdd]
    BY <1>2, <2>1 DEF OpenTunEnds
  <2> QED BY <1>1, <2>2, <2>3
<1>3. ASSUME ~OpenTunEnds
      PROVE  tun' \subseteq tun \cup established /\ established' \subseteq established
  BY <1>3 DEF Next, vars, StartProcess, ServiceRecreated, PushReply,
     SetupStep, Ask, KeepTun, AskOpenTun, OpenTunAnswered, OpenTunRefused,
     InterruptedSetup, ProcessGone, Restart, Exit, ManagementThread, setLocalIP, addRoute,
     addDNS, setDomain, getTunReopenStatus, OpenTunWithoutAddress,
     OpenTunAddressRejected, OpenTunBegins, Generate, processVars
<1> QED BY <1>1, <1>2, <1>3

LEMMA OpenedExactNext ==
  IInv /\ FreshInv /\ [Next]_vars => OpenedExact'
<1> SUFFICES ASSUME IInv, FreshInv, [Next]_vars, fresh', process' = "setup",
                    answer' = "ok", handled' = OpenTunQuery(requested)',
                    NEW t \in established'
             PROVE  \E lan \in LocalNetworks : Describes(t.cfg, requested', lan)
  BY DEF OpenedExact, Describes, HasPrefixes, LanRoutes, WantedRoutes, RangeOf
<1>0. /\ Typed /\ Counted /\ OpeningLast /\ requested \in Reply
      /\ handled \in Nat /\ sent \in Nat /\ PersistTunQuery(requested) \in Nat
      /\ OpenTunQuery(requested) = PersistTunQuery(requested) + 1
  BY Numbers DEF IInv, Typed
<1>a. requested' = requested => OpenTunQuery(requested)' = OpenTunQuery(requested)
  BY DEF OpenTunQuery, Script, Queries
<1>1. CASE OpenTunEnds
  <2>1. /\ opening /\ UNCHANGED <<requested, fresh, process>>
        /\ established' = {[cfg |-> getTunConfig, routes |-> RoutesToAdd]}
    BY <1>1 DEF OpenTunEnds, Answered, processVars
  <2>2. handled = PersistTunQuery(requested) /\ mLocalIP # {}
    BY <1>0, <2>1 DEF OpeningLast
  <2>3. PICK lan \in LocalNetworks :
          /\ HasPrefixes(mRoutes, LanOf(lan, mLocalIP))
          /\ mRoutes \subseteq WantedRoutes(requested) \cup LanOf(lan, mLocalIP)
    BY <2>1 DEF FreshInv, OpeningLan
  <2>4. Describes(getTunConfig, requested, lan)
    BY <2>1, <2>2, <2>3, FreshDescribes DEF FreshInv
  <2>5. t.cfg = getTunConfig
    BY <2>1
  <2> QED BY <2>1, <2>4, <2>5
<1>2. CASE UNCHANGED <<requested, fresh, process, answer, handled, established>>
  BY <1>2, <1>a DEF FreshInv, OpenedExact
<1>3. CASE PushReply \/ Ask \/ AskOpenTun
  BY <1>3 DEF PushReply, Ask, AskOpenTun
<1>4. CASE \/ StartProcess \/ ServiceRecreated \/ KeepTun \/ OpenTunAnswered
           \/ OpenTunRefused \/ InterruptedSetup \/ Restart \/ Exit
  BY <1>4 DEF StartProcess, ServiceRecreated, KeepTun, OpenTunAnswered,
     OpenTunRefused, InterruptedSetup, Restart, Exit, ProcessGone, processVars
<1>5. CASE setLocalIP \/ addRoute \/ addDNS \/ setDomain \/ getTunReopenStatus
  <2>1. PICK kind : ToHandle(kind) /\ kind # "OPENTUN"
    BY <1>5 DEF setLocalIP, addRoute, addDNS, setDomain, getTunReopenStatus
  <2>2. handled' = handled + 1 /\ requested' = requested
    BY <1>5 DEF setLocalIP, addRoute, addDNS, setDomain, getTunReopenStatus, Answered,
       processVars
  <2>3. handled + 1 <= PersistTunQuery(requested)
    BY <1>0, <2>1, HandlesEarlier
  <2> QED BY <1>0, <1>a, <2>2, <2>3
<1>6. CASE OpenTunWithoutAddress \/ OpenTunAddressRejected
  BY <1>6 DEF OpenTunWithoutAddress, OpenTunAddressRejected, Answered
<1>7. CASE OpenTunBegins \/ Generate \/ UNCHANGED vars
  BY <1>2, <1>7 DEF OpenTunBegins, Generate, vars, processVars
<1> QED
  BY <1>1, <1>3, <1>4, <1>5, <1>6, <1>7 DEF Next, SetupStep, ManagementThread

LEMMA ExactNext == IInv /\ FreshInv /\ Exact /\ [Next]_vars => Exact'
<1> SUFFICES ASSUME IInv, FreshInv, Exact, [Next]_vars, fresh', process' = "connected"
             PROVE  \E t \in tun', lan \in LocalNetworks : Describes(t.cfg, requested', lan)
  BY DEF Exact, Describes, HasPrefixes, LanRoutes, WantedRoutes, RangeOf
<1>0. /\ Typed /\ Counted /\ OpeningLast /\ handled \in Nat /\ sent \in Nat
      /\ PersistTunQuery(requested) \in Nat
      /\ OpenTunQuery(requested) = PersistTunQuery(requested) + 1
  BY Numbers DEF IInv, Typed
<1>1. CASE KeepTun
  <2>1. /\ process = "setup" /\ answer = "NOACTION" /\ tun # {}
        /\ sent = PersistTunQuery(requested) /\ UNCHANGED <<tun, requested, fresh>>
    BY <1>1 DEF KeepTun, PersistTunAnswered
  <2>2. handled = PersistTunQuery(requested) /\ mLastTunCfg = {getTunConfig}
    BY <2>1 DEF IInv, Held, Reopen
  <2>3. PICK t \in tun : t.cfg = getTunConfig
    BY <1>0, <2>1, <2>2 DEF IInv, Held, Kept
  <2>4. PICK lan \in LocalNetworks : HasPrefixes(t.cfg.routes, LanOf(lan, t.cfg.local))
    BY DEF FreshInv, WithLan
  <2>5. getTunConfig.routes = mRoutes /\ getTunConfig.local = mLocalIP
    BY DEF getTunConfig
  <2>6. mLocalIP # {}
    BY <2>2, <2>5 DEF IInv, Held, Devices
  <2>7. ~opening
    BY <1>0, <2>1, <2>2 DEF OpeningLast
  <2>8. mRoutes \subseteq WantedRoutes(requested)
    BY <1>0, <2>1, <2>2, <2>7 DEF FreshInv, NothingElse
  <2>9. HasPrefixes(mRoutes, LanOf(lan, mLocalIP))
    BY <2>3, <2>4, <2>5
  <2>10. Describes(getTunConfig, requested, lan)
    BY <2>1, <2>2, <2>6, <2>8, <2>9, FreshDescribes DEF FreshInv
  <2> QED BY <2>1, <2>3, <2>10
<1>2. CASE OpenTunAnswered
  <2>1. /\ process = "setup" /\ answer = "ok" /\ sent = OpenTunQuery(requested)
        /\ tun' = established /\ UNCHANGED <<requested, fresh>>
    BY <1>2 DEF OpenTunAnswered
  <2>2. handled = OpenTunQuery(requested)
    BY <1>0, <2>1 DEF Counted
  <2>3. PICK t : established = {t}
    BY <2>1, <2>2 DEF IInv, Held, Opened
  <2> QED BY <2>1, <2>2, <2>3 DEF FreshInv, OpenedExact
<1>3. CASE process = "connected" /\ UNCHANGED <<tun, requested, fresh>>
  BY <1>3 DEF Exact
<1>4. ASSUME ~KeepTun, ~OpenTunAnswered
      PROVE  process = "connected" /\ UNCHANGED <<tun, requested, fresh>>
  BY <1>4 DEF Next, vars, fieldVars, StartProcess, ServiceRecreated, PushReply, SetupStep,
     Ask, AskOpenTun, PersistTunAnswered, OpenTunRefused, InterruptedSetup, ProcessGone,
     Restart, Exit, ManagementThread, setLocalIP, addRoute, addDNS, setDomain,
     getTunReopenStatus, OpenTunWithoutAddress, OpenTunAddressRejected, OpenTunBegins,
     Generate, OpenTunEnds, processVars
<1> QED BY <1>1, <1>2, <1>3, <1>4

(* A set-up that began with no field set gives the process exactly what    *)
(* the reply asks for, through restarts, signals and kept devices: what    *)
(* can be wrong is only what an earlier set-up left.                       *)
THEOREM FreshSetupIsExact == Spec => []ExactWhenFresh
<1>1. IInv /\ FreshInv /\ [Next]_vars => FreshInv'
  BY NothingElseNext, OpeningLanNext, WithLanNext, OpenedExactNext, OneAddressNext
     DEF FreshInv, IInv
<1>2. Exact => ExactWhenFresh
  BY DEF Exact, ExactWhenFresh, TunnelAsRequested
<1> QED BY InitIInv, InitFresh, NextIInv, ExactNext, <1>1, <1>2, PTL DEF Spec

=============================================================================
