----------------------- MODULE ConnectionRecord_proofs -----------------------
(***************************************************************************)
(* Proofs about ConnectionRecord, for any sessions, records and bounds: a  *)
(* live record is not closed, a session has one record, requests reach the *)
(* record of their session, and none is left open.                         *)
(***************************************************************************)
EXTENDS ConnectionRecord, SequenceTheorems, TLAPS

(* An interval from one has one length. *)
LEMMA SameInterval ==
  ASSUME NEW m \in Nat, NEW n \in Nat, 1..m = 1..n
  PROVE  m = n
<1>1. CASE m < n
  <2>1. n \in 1..n /\ n \notin 1..m
    BY <1>1
  <2> QED
    BY <2>1
<1>2. CASE n < m
  <2>1. m \in 1..m /\ m \notin 1..n
    BY <1>2
  <2> QED
    BY <2>1
<1> QED
  BY <1>1, <1>2

(* Cancelling changes the kind of some queued connect tasks and nothing else. *)
LEMMA CancelledProperties ==
  ASSUME TypeOK
  PROVE  /\ Cancelled \in Seq(Task)
         /\ Len(Cancelled) = Len(tasks)
         /\ \A i \in 1..Len(tasks) :
              \/ Cancelled[i] = tasks[i]
              \/ tasks[i].kind = "connect" /\ Cancelled[i].kind = "cancelled"
<1>1. Len(tasks) \in Nat /\ DOMAIN tasks = 1..Len(tasks)
  BY LenProperties DEF TypeOK
<1>2. \A i \in 1..Len(tasks) : tasks[i] \in Task
  BY ElementOfSeq DEF TypeOK
<1>3. ASSUME NEW i \in 1..Len(tasks)
      PROVE  /\ Cancelled[i] \in Task
             /\ \/ Cancelled[i] = tasks[i]
                \/ tasks[i].kind = "connect" /\ Cancelled[i].kind = "cancelled"
  <2>1. Cancelled[i] = IF tasks[i] = [kind |-> "connect", by |-> activity]
                       THEN [tasks[i] EXCEPT !.kind = "cancelled"] ELSE tasks[i]
    BY <1>1 DEF Cancelled
  <2>2. tasks[i] \in Task
    BY <1>2
  <2> QED
    BY <2>1, <2>2 DEF Task
<1>4. Cancelled \in [1..Len(tasks) -> Task]
  BY <1>1, <1>3 DEF Cancelled
<1>5. Cancelled \in Seq(Task)
  BY <1>1, <1>4, SeqDef
<1>6. Len(Cancelled) = Len(tasks)
  <2>1. DOMAIN Cancelled = 1..Len(Cancelled) /\ Len(Cancelled) \in Nat
    BY <1>5, LenProperties
  <2>2. DOMAIN Cancelled = 1..Len(tasks)
    BY <1>4
  <2> QED
    BY <2>1, <2>2, <1>1, SameInterval
<1> QED
  BY <1>3, <1>5, <1>6

LEMMA InitType == Init => TypeOK
<1> SUFFICES ASSUME Init PROVE TypeOK
  OBVIOUS
<1>1. reports \in Seq(Report) /\ unsent \in Seq(Report) /\ tasks \in Seq(Task)
  <2>1. <<>> \in Seq(Report) /\ <<>> \in Seq(Task)
    BY EmptySeq
  <2> QED
    BY <2>1 DEF Init
<1>2. 1 \in Activities
  BY BoundsAssumption DEF Activities
<1> QED
  BY <1>1, <1>2 DEF Init, TypeOK, Session, Record, Report, Level, NoRequest, NotConnected

(* A message goes into the queue to the client, or waits for one to register. *)
LEMMA SendsType ==
  ASSUME TypeOK, NEW kind \in Level \cup {"retry"}, NEW s \in Session, Sends(kind, s)
  PROVE  /\ reports' \in Seq(Report) /\ unsent' \in Seq(Report) /\ lastSent' \in Report
         /\ lastSent'.kind = kind /\ lastSent'.of = (IF kind = "connected" THEN s ELSE None)
         /\ unsent = <<>> => reports' = Append(reports, lastSent') /\ unsent' = <<>>
         /\ unsent # <<>> => unsent' = Append(unsent, lastSent') /\ reports' = reports
<1>1. [kind |-> kind, of |-> IF kind = "connected" THEN s ELSE None] \in Report
  BY DEF Report, Session
<1>2. lastSent' = [kind |-> kind, of |-> IF kind = "connected" THEN s ELSE None]
  BY DEF Sends
<1>3. lastSent' \in Report
  BY <1>1, <1>2
<1>4. /\ unsent = <<>> => reports' = Append(reports, lastSent') /\ unsent' = <<>>
      /\ unsent # <<>> => unsent' = Append(unsent, lastSent') /\ reports' = reports
  BY <1>2 DEF Sends
<1>5. CASE unsent = <<>>
  <2>1. Append(reports, lastSent') \in Seq(Report)
    BY <1>3, AppendProperties DEF TypeOK
  <2> QED
    BY <1>2, <1>3, <1>4, <1>5, <2>1, EmptySeq
<1>6. CASE unsent # <<>>
  <2>1. Append(unsent, lastSent') \in Seq(Report) /\ reports \in Seq(Report)
    BY <1>3, AppendProperties DEF TypeOK
  <2> QED
    BY <1>2, <1>3, <1>4, <1>6, <2>1
<1> QED
  BY <1>5, <1>6

(* What is left in a queue is part of it. *)
LEMMA PartOf ==
  ASSUME NEW S, NEW q \in Seq(S), NEW i \in 1..(Len(q) + 1), NEW k \in 0..Len(q),
         i = 1 \/ k = Len(q)
  PROVE  /\ SubSeq(q, i, k) \in Seq(S)
         /\ Len(SubSeq(q, i, k)) = k - i + 1
         /\ \A j \in 1..Len(SubSeq(q, i, k)) :
              i + j - 1 \in 1..Len(q) /\ SubSeq(q, i, k)[j] = q[i + j - 1]
<1>1. Len(q) \in Nat /\ \A j \in 1..Len(q) : q[j] \in S
  BY LenProperties, ElementOfSeq
<1>2. \A j \in i..k : q[j] \in S
  BY <1>1
<1>3. /\ SubSeq(q, i, k) \in Seq(S)
      /\ Len(SubSeq(q, i, k)) = k - i + 1
      /\ \A j \in 1..(k - i + 1) : SubSeq(q, i, k)[j] = q[i + j - 1]
  <2>1. i \in Int /\ k \in Int /\ i <= k + 1
    BY <1>1
  <2>2. SubSeq(q, i, k) \in Seq(S) /\ Len(SubSeq(q, i, k)) = (IF i <= k THEN k - i + 1 ELSE 0)
        /\ \A j \in 1..(k - i + 1) : SubSeq(q, i, k)[j] = q[i + j - 1]
    BY <1>2, <2>1, SubSeqProperties
  <2> QED
    BY <2>1, <2>2
<1>4. ASSUME NEW j \in 1..(k - i + 1) PROVE i + j - 1 \in 1..Len(q)
  BY <1>1
<1>5. 1..Len(SubSeq(q, i, k)) = 1..(k - i + 1)
  BY <1>3
<1> QED
  BY <1>3, <1>4, <1>5

(* One message before a queue. *)
LEMMA Prepended ==
  ASSUME NEW S, NEW t \in S, NEW q \in Seq(S)
  PROVE  /\ <<t>> \o q \in Seq(S)
         /\ Len(<<t>> \o q) = Len(q) + 1
         /\ (<<t>> \o q)[1] = t
         /\ \A j \in 1..Len(<<t>> \o q) : j # 1 => j - 1 \in 1..Len(q) /\ (<<t>> \o q)[j] = q[j - 1]
<1>1. <<t>> \in Seq(S) /\ Len(<<t>>) = 1 /\ <<t>>[1] = t
  <2>1. <<t>> \in [1..1 -> S]
    OBVIOUS
  <2> QED
    BY <2>1, SeqDef
<1>2. /\ <<t>> \o q \in Seq(S) /\ Len(q) \in Nat /\ Len(<<t>> \o q) = 1 + Len(q)
      /\ \A j \in 1..Len(<<t>> \o q) :
           (<<t>> \o q)[j] = IF j <= 1 THEN <<t>>[j] ELSE q[j - 1]
  BY <1>1, ConcatProperties, LenProperties
<1> QED
  BY <1>1, <1>2

LEMMA ServiceType == TypeOK /\ Service => TypeOK'
<1> SUFFICES ASSUME TypeOK, Service PROVE TypeOK'
  OBVIOUS
<1> USE DEF TypeOK, sessionVars, serviceVars, hubVars, uiVars, taskVars, prefVars, recordVars,
            history
<1>1. ASSUME NEW kind \in {"connected", "connecting", "retry", "waiting"}, Reports(kind)
      PROVE  TypeOK'
  <2>1. reports' \in Seq(Report) /\ unsent' \in Seq(Report) /\ lastSent' \in Report
    BY <1>1, SendsType DEF Reports, Level
  <2> QED
    BY <1>1, <2>1 DEF Reports
<1>2. CASE ReportsBytes
  <2>1. [kind |-> "bytes", of |-> session] \in Report
    BY DEF Report
  <2>2. reports' \in Seq(Report)
    BY <1>2, <2>1, AppendProperties DEF ReportsBytes
  <2> QED
    BY <1>2, <2>2 DEF ReportsBytes
<1>3. CASE SessionEnds
  <2>1. reports' \in Seq(Report) /\ unsent' \in Seq(Report) /\ lastSent' \in Report
    BY <1>3, SendsType DEF SessionEnds, Level
  <2> QED
    BY <1>3, <2>1 DEF SessionEnds, Session
<1>4. ASSUME NEW s \in Sessions, ProcessExits(s)
      PROVE  TypeOK'
  <2>1. reports' \in Seq(Report) /\ unsent' \in Seq(Report) /\ lastSent' \in Report
    BY <1>4, SendsType DEF ProcessExits, Level, Session
  <2> QED
    BY <1>4, <2>1 DEF ProcessExits
<1>5. CASE ServiceProcessDies
  <2>1. NotConnected \in Report
    BY DEF NotConnected, Report, Level, Session
  <2>2. unsent' \in Seq(Report)
    <3>1. <<NotConnected>> \in [1..1 -> Report]
      BY <2>1
    <3> QED
      BY <1>5, <3>1, SeqDef DEF ServiceProcessDies
  <2>3. reports' \in Seq(Report)
    <3>1. PICK i \in 0..Len(reports) : reports' = SubSeq(reports, 1, i)
      BY <1>5 DEF ServiceProcessDies
    <3>2. 1 \in 1..(Len(reports) + 1)
      BY LenProperties
    <3> QED
      BY <3>1, <3>2, PartOf
  <2> QED
    BY <1>5, <2>1, <2>2, <2>3 DEF ServiceProcessDies, Session, Disturbance
<1>6. CASE StickyStart
  <2>1. reports' \in Seq(Report) /\ unsent' \in Seq(Report) /\ lastSent' \in Report
    BY <1>6, SendsType DEF StickyStart, Level, Session
  <2>2. session' \in Session /\ used' \subseteq Sessions
    BY <1>6 DEF StickyStart, NewSession, Session
  <2> QED
    BY <1>6, <2>1, <2>2 DEF StickyStart
<1>7. CASE ServiceConnected
  <2>1. PICK i \in 1..(Len(unsent) + 1) :
          reports' = reports \o <<lastSent>> \o SubSeq(unsent, i, Len(unsent))
    BY <1>7 DEF ServiceConnected
  <2>2. SubSeq(unsent, i, Len(unsent)) \in Seq(Report)
    <3>1. Len(unsent) \in 0..Len(unsent)
      BY LenProperties
    <3> QED
      BY <3>1, PartOf
  <2>3. reports \o <<lastSent>> \in Seq(Report)
    <3>1. <<lastSent>> \in [1..1 -> Report]
      OBVIOUS
    <3>2. <<lastSent>> \in Seq(Report)
      BY <3>1, SeqDef
    <3> QED
      BY <3>2, ConcatProperties
  <2>4. reports' \in Seq(Report)
    BY <2>1, <2>2, <2>3, ConcatProperties
  <2>5. unsent' \in Seq(Report) /\ disturbed' \subseteq Disturbance
    BY <1>7, EmptySeq DEF ServiceConnected, Disturbance
  <2> QED
    BY <1>7, <2>4, <2>5 DEF ServiceConnected
<1> QED
  BY <1>1, <1>2, <1>3, <1>4, <1>5, <1>6, <1>7 DEF Service

LEMMA ReceivesType ==
  ASSUME TypeOK, NEW kind, Receives(kind)
  PROVE  reports' \in Seq(Report) /\ Head(reports) \in Report
BY HeadTailProperties DEF TypeOK, Receives

LEMMA OnDisconnectType ==
  ASSUME TypeOK, onDisconnect
  PROVE  /\ mLastLevel' \in Level /\ posting' = posting
         /\ tasks' \in Seq(Task)
         /\ wasConnected' \in [Activities -> BOOLEAN]
<1>1. [kind |-> "close", by |-> activity] \in Task
  BY DEF TypeOK, Task
<1> QED
  BY <1>1, AppendProperties DEF TypeOK, onDisconnect, Level

LEMMA CreateType ==
  ASSUME TypeOK, posting # NoPost, CreateRecord
  PROVE  /\ NewRecord \in Records /\ recordState[NewRecord] = "none"
         /\ recordState' \in [Records -> {"none", "open", "closed"}]
         /\ recordOf' \in [Records -> Session] /\ recordServer' \in [Records -> Session]
<1>1. NewRecord \in Records /\ recordState[NewRecord] = "none"
  BY DEF CreateRecord, NewRecord
<1>2. posting.of \in Session /\ posting.server \in Session
  BY DEF TypeOK, Post
<1> QED
  BY <1>1, <1>2 DEF TypeOK, CreateRecord

LEMMA HubType == TypeOK /\ Hub => TypeOK'
<1> SUFFICES ASSUME TypeOK, Hub PROVE TypeOK'
  OBVIOUS
<1> USE DEF TypeOK, sessionVars, serviceVars, hubVars, uiVars, taskVars, prefVars, recordVars, history
<1>1. CASE onConnect
  <2>1. reports' \in Seq(Report) /\ Head(reports).of \in Session
    BY <1>1, ReceivesType DEF onConnect, Report
  <2>2. [by |-> activity, of |-> Head(reports).of, server |-> serverUuid] \in Post
    BY <2>1 DEF Post
  <2>3. posting' \in Post \cup {NoPost}
    BY <1>1, <2>2 DEF onConnect
  <2> QED
    BY <1>1, <2>1, <2>3 DEF onConnect, Level
<1>2. ASSUME ConnectedDone
      PROVE  wasConnected' \in [Activities -> BOOLEAN]
  BY <1>2 DEF ConnectedDone, Post
<1>3. CASE createConnection
  BY <1>2, <1>3, CreateType DEF createConnection, ConnectedDone, Record
<1>4. CASE createConnectionFails
  BY <1>2, <1>4, CreateType DEF createConnectionFails, ConnectedDone, Disturbance
<1>5. CASE Disconnected
  BY <1>5, ReceivesType, OnDisconnectType DEF Disconnected
<1>6. CASE onChangeStatus
  <2>1. reports' \in Seq(Report)
    BY <1>6, ReceivesType DEF onChangeStatus
  <2> QED
    BY <1>6, <2>1 DEF onChangeStatus, Level
<1>7. CASE updateByteCount
  <2>1. reports' \in Seq(Report)
    BY <1>7, ReceivesType DEF updateByteCount
  <2>2. misdirected' \subseteq Records
    BY <1>7 DEF updateByteCount, Misdirects, Record
  <2> QED
    BY <1>7, <2>1, <2>2 DEF updateByteCount
<1> QED
  BY <1>1, <1>3, <1>4, <1>5, <1>6, <1>7 DEF Hub

LEMMA ConnectType ==
  ASSUME TypeOK, connectToVPN
  PROVE  /\ tasks' \in Seq(Task)
         /\ disturbed' \subseteq Disturbance
<1>1. [kind |-> "connect", by |-> activity] \in Task
  BY DEF TypeOK, Task
<1> QED
  BY <1>1, CancelledProperties, AppendProperties DEF TypeOK, connectToVPN, Disturbance

LEMMA UIType == TypeOK /\ UI => TypeOK'
<1> SUFFICES ASSUME TypeOK, UI PROVE TypeOK'
  OBVIOUS
<1> USE DEF TypeOK, sessionVars, serviceVars, hubVars, uiVars, taskVars, prefVars, recordVars, history
<1>1. CASE ClickConnect
  BY <1>1, ConnectType DEF ClickConnect, Level
<1>2. CASE showDisconnectDialogVPN
  BY <1>2, CancelledProperties DEF showDisconnectDialogVPN
<1>3. CASE RetriesUsedUp
  BY <1>3, ConnectType DEF RetriesUsedUp
<1>4. CASE logoutUser
  <2>1. [kind |-> "logout", by |-> activity] \in Task
    BY DEF Task
  <2>2. tasks' \in Seq(Task)
    BY <1>4, <2>1, AppendProperties DEF logoutUser
  <2> QED
    BY <1>4, <2>2 DEF logoutUser, Disturbance
<1>5. ASSUME NewActivity
      PROVE  activity' \in Activities /\ disturbed' \subseteq Disturbance
  BY <1>5, BoundsAssumption DEF NewActivity, Activities, Disturbance
<1>6. CASE onCreate
  BY <1>5, <1>6 DEF onCreate, NewActivity
<1>7. CASE UIProcessRestarts
  <2>1. reports' \in Seq(Report)
    <3>1. CASE reports' = <<>>
      BY <3>1, EmptySeq
    <3>2. CASE \E i \in 1..(Len(reports) + 1) :
                 \/ reports' = SubSeq(reports, i, Len(reports))
                 \/ reports' = <<lastSent>> \o SubSeq(reports, i, Len(reports))
      <4>1. Len(reports) \in 0..Len(reports)
        BY LenProperties
      <4>2. PICK i \in 1..(Len(reports) + 1) :
                 \/ reports' = SubSeq(reports, i, Len(reports))
                 \/ reports' = <<lastSent>> \o SubSeq(reports, i, Len(reports))
        BY <3>2
      <4>3. SubSeq(reports, i, Len(reports)) \in Seq(Report)
        BY <4>1, PartOf
      <4>4. lastSent \in Report
        OBVIOUS
      <4>5. <<lastSent>> \o SubSeq(reports, i, Len(reports)) \in Seq(Report)
        BY <4>3, <4>4, Prepended
      <4> QED
        BY <4>2, <4>3, <4>5
    <3> QED
      BY <1>7, <3>1, <3>2 DEF UIProcessRestarts
  <2>2. tasks' \in Seq(Task)
    BY <1>7, EmptySeq DEF UIProcessRestarts
  <2> QED
    BY <1>5, <1>7, <2>1, <2>2
       DEF UIProcessRestarts, NewActivity, Level, NoRequest, Record, Session
<1> QED
  BY <1>1, <1>2, <1>3, <1>4, <1>6, <1>7 DEF UI

LEMMA TakesType ==
  ASSUME TypeOK, NEW kind, Takes(kind)
  PROVE  tasks' \in Seq(Task)
BY HeadTailProperties DEF TypeOK, Takes

LEMMA CloseType ==
  ASSUME TypeOK, CloseRecord
  PROVE  /\ request.uuid \in Records
         /\ recordState' \in [Records -> {"none", "open", "closed"}]
         /\ misdirected' \subseteq Records
BY DEF TypeOK, CloseRecord, Record, Misdirects

LEMMA ExecutorType == TypeOK /\ Executor => TypeOK'
<1> SUFFICES ASSUME TypeOK, Executor PROVE TypeOK'
  OBVIOUS
<1> USE DEF TypeOK, sessionVars, serviceVars, hubVars, uiVars, taskVars, prefVars, recordVars, history
<1>1. CASE ConnectTask
  BY <1>1, TakesType DEF ConnectTask, Takes
<1>2. CASE SkipTask
  BY <1>2, TakesType DEF SkipTask, Takes
<1>3. CASE ChooseServer
  <2>1. NewSession \in Sessions
    BY <1>3 DEF ChooseServer, NewSession
  <2> QED
    BY <1>3, <2>1 DEF ChooseServer, Session
<1>4. CASE ConnectRefused
  BY <1>4 DEF ConnectRefused
<1>5. CASE ConnectFails
  BY <1>5, OnDisconnectType DEF ConnectFails
<1>6. CASE StartSession
  <2>1. reports' \in Seq(Report) /\ unsent' \in Seq(Report) /\ lastSent' \in Report
    BY <1>6, SendsType DEF StartSession, Level
  <2>2. exiting' \subseteq Sessions
    BY <1>6 DEF StartSession, Session
  <2> QED
    BY <1>6, <2>1, <2>2 DEF StartSession
<1>7. CASE AfterDisconnectVPNTask
  BY <1>7, TakesType DEF AfterDisconnectVPNTask, Takes
<1>8. CASE afterDisconnectVPN
  BY <1>8, CloseType DEF afterDisconnectVPN, CloseDone, NoRequest, Record, Session
<1>9. CASE afterDisconnectVPNFails
  BY <1>9, CloseType
     DEF afterDisconnectVPNFails, CloseDone, NoRequest, Record, Session, Disturbance
<1>10. CASE LogoutTask
  BY <1>10, TakesType DEF LogoutTask, Takes
<1>11. CASE deleteUserSettings
  BY <1>11 DEF deleteUserSettings, Record, Session
<1> QED
  BY <1>1, <1>2, <1>3, <1>4, <1>5, <1>6, <1>7, <1>8, <1>9, <1>10, <1>11 DEF Executor

LEMMA TypeStep == TypeOK /\ [Next]_vars => TypeOK'
<1>1. ASSUME TypeOK, UNCHANGED vars PROVE TypeOK'
  BY <1>1 DEF TypeOK, vars, sessionVars, serviceVars, hubVars, uiVars, taskVars, prefVars, recordVars,
              history
<1> QED
  BY <1>1, ServiceType, HubType, UIType, ExecutorType DEF Next

(* The hub, the tasks, the preferences and the records stay well-formed whatever *)
(* requests fail and however starts, ends and restarts of the activity overlap.  *)
THEOREM TypeCorrect == Spec => []TypeOK
<1> QED
  BY InitType, TypeStep, PTL DEF Spec

-----------------------------------------------------------------------------
(* Why a live record stays open: a start is the last thing under way.  Until *)
(* it is done nothing reports, no request is out and no record is closed,    *)
(* and what it starts is a session that no record is of.                     *)
Has(q, kind) == \E i \in 1..Len(q) : q[i].kind = kind

(* After a connect in the queue comes neither another nor a close. *)
ConnectLast(q) ==
  \A i, j \in 1..Len(q) :
    q[i].kind = "connect" /\ q[j].kind \in {"connect", "close"} => j <= i

Starting == running \in {"connect", "chosen"}

Seen == used \cup {None}

SeenUsed ==
  /\ session \in Seen /\ serverUuid \in Seen /\ lastSent.of \in Seen /\ posting.of \in Seen
  /\ \A i \in 1..Len(reports) : reports[i].of \in Seen
  /\ \A i \in 1..Len(unsent) : unsent[i].of \in Seen
  /\ \A r \in Records : recordOf[r] \in Seen

StartsAlone ==
  Starting \/ Has(tasks, "connect") =>
    session = None /\ exiting = {} /\ reports = <<>> /\ HubFree

StartIsLast ==
  /\ ConnectLast(tasks)
  /\ Starting => ~Has(tasks, "connect") /\ ~Has(tasks, "close")

EndMeansOver ==
  \/ exiting # {} \/ lastSent.kind = "notconnected" \/ Has(reports, "notconnected")
  \/ running = "close" \/ Has(tasks, "close")
  => session = None

ChosenIsNew ==
  running = "chosen" =>
    serverUuid \in Sessions /\ \A r \in Records : Created(r) => recordOf[r] # serverUuid

LiveOpen ==
  \A r \in Records :
    session # None /\ Created(r) /\ recordOf[r] = session => recordState[r] = "open"

Bookkeeping == StartsAlone /\ StartIsLast /\ EndMeansOver /\ ChosenIsNew /\ LiveOpen

(* Nothing of a service that is started again, before its process has died. *)
FirstProcess == unsent = <<>> /\ ~sticky

InOrder == disturbed \cap {"overlap", "restart"} = {}

LiveInv ==
  /\ TypeOK /\ SeenUsed
  /\ "restart" \notin disturbed => FirstProcess
  /\ InOrder => Bookkeeping

(* What the queues' operations keep: taking the head, *)
LEMMA TailHas ==
  ASSUME NEW S, NEW q \in Seq(S), q # <<>>
  PROVE  /\ Tail(q) \in Seq(S)
         /\ \E i \in 1..Len(q) : Head(q) = q[i]
         /\ \A i \in 1..Len(Tail(q)) : i + 1 \in 1..Len(q) /\ Tail(q)[i] = q[i + 1]
         /\ \A kind : Has(Tail(q), kind) => Has(q, kind)
         /\ Has(q, Head(q).kind)
<1>1. /\ Tail(q) \in Seq(S) /\ Head(q) = q[1]
      /\ Len(Tail(q)) = Len(q) - 1 /\ Len(q) \in Nat /\ Len(q) # 0
      /\ \A i \in 1..Len(Tail(q)) : Tail(q)[i] = q[i + 1]
  BY HeadTailProperties, LenProperties, EmptySeq
<1>2. \A i \in 1..Len(Tail(q)) : i + 1 \in 1..Len(q)
  BY <1>1
<1>3. 1 \in 1..Len(q)
  BY <1>1
<1>4. Has(q, Head(q).kind)
  BY <1>1, <1>3 DEF Has
<1>5. ASSUME NEW kind, Has(Tail(q), kind) PROVE Has(q, kind)
  BY <1>1, <1>2, <1>5 DEF Has
<1> QED
  BY <1>1, <1>2, <1>3, <1>4, <1>5

LEMMA TailConnectLast ==
  ASSUME NEW S, NEW q \in Seq(S), q # <<>>, ConnectLast(q)
  PROVE  /\ ConnectLast(Tail(q))
         /\ Head(q).kind = "connect" => ~Has(Tail(q), "connect") /\ ~Has(Tail(q), "close")
<1>1. /\ Head(q) = q[1] /\ 1 \in 1..Len(q)
      /\ Len(Tail(q)) \in Nat
      /\ \A i \in 1..Len(Tail(q)) :
           i \in Nat /\ i # 0 /\ i + 1 \in 1..Len(q) /\ Tail(q)[i] = q[i + 1]
  <2>1. Head(q) = q[1] /\ Len(q) \in Nat /\ Len(q) # 0 /\ Len(Tail(q)) = Len(q) - 1
    BY HeadTailProperties, LenProperties, EmptySeq
  <2> QED
    BY <2>1, TailHas
<1>2. ASSUME NEW i \in 1..Len(Tail(q)), NEW j \in 1..Len(Tail(q)),
             Tail(q)[i].kind = "connect", Tail(q)[j].kind \in {"connect", "close"}
      PROVE  j <= i
  <2>1. j + 1 <= i + 1
    BY <1>1, <1>2 DEF ConnectLast
  <2> QED
    BY <2>1, <1>1
<1>3. ASSUME Head(q).kind = "connect", NEW i \in 1..Len(Tail(q))
      PROVE  Tail(q)[i].kind \notin {"connect", "close"}
  <2>1. SUFFICES ASSUME Tail(q)[i].kind \in {"connect", "close"} PROVE FALSE
    OBVIOUS
  <2>2. i + 1 <= 1
    BY <1>1, <1>3, <2>1 DEF ConnectLast
  <2> QED
    BY <2>2, <1>1
<1> QED
  BY <1>2, <1>3 DEF ConnectLast, Has

(* appending one, *)
LEMMA AppendHas ==
  ASSUME NEW S, NEW q \in Seq(S), NEW t \in S
  PROVE  /\ \A kind : Has(Append(q, t), kind) => Has(q, kind) \/ t.kind = kind
         /\ \A i \in 1..Len(Append(q, t)) :
              Append(q, t)[i] = t \/ (i \in 1..Len(q) /\ Append(q, t)[i] = q[i])
<1>1. /\ Len(q) \in Nat /\ Len(Append(q, t)) = Len(q) + 1
      /\ Append(q, t)[Len(q) + 1] = t
      /\ \A i \in 1..Len(q) : Append(q, t)[i] = q[i]
  BY AppendProperties, LenProperties
<1>2. \A i \in 1..Len(Append(q, t)) : i \in 1..Len(q) \/ i = Len(q) + 1
  BY <1>1
<1> QED
  BY <1>1, <1>2 DEF Has

LEMMA AppendConnectLast ==
  ASSUME NEW S, NEW q \in Seq(S), NEW t \in S, ConnectLast(q),
         t.kind \in {"connect", "close"} => ~Has(q, "connect")
  PROVE  ConnectLast(Append(q, t))
<1>1. /\ Len(q) \in Nat /\ Len(Append(q, t)) = Len(q) + 1
      /\ Append(q, t)[Len(q) + 1] = t
      /\ \A i \in 1..Len(q) : Append(q, t)[i] = q[i]
  BY AppendProperties, LenProperties
<1> SUFFICES ASSUME NEW i \in 1..(Len(q) + 1), NEW j \in 1..(Len(q) + 1),
                    Append(q, t)[i].kind = "connect",
                    Append(q, t)[j].kind \in {"connect", "close"}
             PROVE  j <= i
  BY <1>1 DEF ConnectLast
<1>2. CASE i = Len(q) + 1
  BY <1>1, <1>2
<1>3. CASE i \in 1..Len(q)
  <2>1. Has(q, "connect")
    BY <1>1, <1>3 DEF Has
  <2>2. j \in 1..Len(q)
    BY <1>1, <2>1
  <2> QED
    BY <1>1, <1>3, <2>2 DEF ConnectLast
<1> QED
  BY <1>1, <1>2, <1>3

(* cancelling. *)
LEMMA CancelledConnectLast ==
  ASSUME TypeOK, ConnectLast(tasks)
  PROVE  /\ ConnectLast(Cancelled)
         /\ \A kind \in {"connect", "close"} : Has(Cancelled, kind) => Has(tasks, kind)
<1>1. Len(Cancelled) = Len(tasks)
  BY CancelledProperties
<1>2. \A i \in 1..Len(tasks) :
        Cancelled[i].kind \in {"connect", "close"} => Cancelled[i] = tasks[i]
  BY CancelledProperties
<1> QED
  BY <1>1, <1>2 DEF ConnectLast, Has


(* What a new UI process is told has been on its way or is the last state. *)
LEMMA RestartReports ==
  ASSUME TypeOK, UIProcessRestarts
  PROVE  \A i \in 1..Len(reports') :
           reports'[i] = lastSent \/ \E j \in 1..Len(reports) : reports'[i] = reports[j]
<1>1. CASE reports' = <<>>
  <2>1. 1..Len(reports') = {}
    BY <1>1, EmptySeq, LenProperties
  <2> QED
    BY <2>1
<1>2. CASE \E k \in 1..(Len(reports) + 1) :
             LET rest == SubSeq(reports, k, Len(reports))
             IN  reports' = rest \/ reports' = <<lastSent>> \o rest
  <2>1. PICK k \in 1..(Len(reports) + 1) :
          LET rest == SubSeq(reports, k, Len(reports))
          IN  reports' = rest \/ reports' = <<lastSent>> \o rest
    BY <1>2
  <2> DEFINE rest == SubSeq(reports, k, Len(reports))
  <2>2. reports \in Seq(Report) /\ lastSent \in Report /\ Len(reports) \in 0..Len(reports)
    BY LenProperties DEF TypeOK
  <2>3. /\ rest \in Seq(Report)
        /\ \A i \in 1..Len(rest) : \E j \in 1..Len(reports) : rest[i] = reports[j]
    BY <2>2, PartOf
  <2> HIDE DEF rest
  <2>4. CASE reports' = rest
    BY <2>3, <2>4
  <2>5. CASE reports' = <<lastSent>> \o rest
    <3>1. /\ (<<lastSent>> \o rest)[1] = lastSent
          /\ \A j \in 1..Len(<<lastSent>> \o rest) :
               j # 1 => j - 1 \in 1..Len(rest) /\ (<<lastSent>> \o rest)[j] = rest[j - 1]
      BY <2>2, <2>3, Prepended
    <3> QED
      BY <2>3, <2>5, <3>1
  <2> QED
    BY <2>1, <2>4, <2>5 DEF rest
<1> QED
  BY <1>1, <1>2 DEF UIProcessRestarts

(* What a client is told has been on its way to it, or comes from the new process. *)
LEMMA DiesReports ==
  ASSUME TypeOK, ServiceProcessDies
  PROVE  /\ \A i \in 1..Len(reports') : \E j \in 1..Len(reports) : reports'[i] = reports[j]
         /\ \A i \in 1..Len(unsent') : unsent'[i] = NotConnected
<1>1. PICK k \in 0..Len(reports) : reports' = SubSeq(reports, 1, k)
  BY DEF ServiceProcessDies
<1>2. reports \in Seq(Report) /\ 1 \in 1..(Len(reports) + 1)
  BY LenProperties DEF TypeOK
<1>3. \A i \in 1..Len(reports') : \E j \in 1..Len(reports) : reports'[i] = reports[j]
  BY <1>1, <1>2, PartOf
<1>4. unsent' = <<NotConnected>> /\ Len(<<NotConnected>>) = 1 /\ <<NotConnected>>[1] = NotConnected
  BY DEF ServiceProcessDies
<1> QED
  BY <1>3, <1>4

LEMMA ConnectedReports ==
  ASSUME TypeOK, ServiceConnected
  PROVE  \A i \in 1..Len(reports') : \/ \E j \in 1..Len(reports) : reports'[i] = reports[j]
                                    \/ reports'[i] = lastSent
                                    \/ \E j \in 1..Len(unsent) : reports'[i] = unsent[j]
<1>1. PICK k \in 1..(Len(unsent) + 1) :
        reports' = reports \o <<lastSent>> \o SubSeq(unsent, k, Len(unsent))
  BY DEF ServiceConnected
<1> DEFINE rest == SubSeq(unsent, k, Len(unsent))
           new == <<lastSent>> \o rest
<1>2. /\ reports \in Seq(Report) /\ unsent \in Seq(Report) /\ lastSent \in Report
      /\ Len(unsent) \in 0..Len(unsent)
  BY LenProperties DEF TypeOK
<1>3. /\ rest \in Seq(Report)
      /\ \A i \in 1..Len(rest) : \E j \in 1..Len(unsent) : rest[i] = unsent[j]
  BY <1>2, PartOf
<1>4. reports' = reports \o new
  <2>1. <<lastSent>> \in Seq(Report)
    <3>1. <<lastSent>> \in [1..1 -> Report]
      BY <1>2
    <3> QED
      BY <3>1, SeqDef
  <2>2. (reports \o <<lastSent>>) \o rest = reports \o (<<lastSent>> \o rest)
    <3> HIDE DEF rest
    <3>1. reports \in Seq(Report) /\ <<lastSent>> \in Seq(Report) /\ rest \in Seq(Report)
      BY <1>2, <1>3, <2>1
    <3> QED
      BY <3>1, ConcatAssociative
  <2> QED
    BY <1>1, <2>2
<1> HIDE DEF rest
<1>5. /\ new \in Seq(Report)
      /\ new[1] = lastSent
      /\ \A j \in 1..Len(new) : j # 1 => j - 1 \in 1..Len(rest) /\ new[j] = rest[j - 1]
  BY <1>2, <1>3, Prepended
<1>6. \A i \in 1..Len(new) : new[i] = lastSent \/ \E j \in 1..Len(unsent) : new[i] = unsent[j]
  BY <1>3, <1>5
<1> HIDE DEF new
<1>7. /\ Len(reports) \in Nat /\ Len(new) \in Nat /\ Len(reports') = Len(reports) + Len(new)
      /\ \A i \in 1..Len(reports') :
           reports'[i] = IF i <= Len(reports) THEN reports[i] ELSE new[i - Len(reports)]
  BY <1>2, <1>4, <1>5, ConcatProperties, LenProperties
<1>8. ASSUME NEW i \in 1..Len(reports'), ~(i <= Len(reports))
      PROVE  i - Len(reports) \in 1..Len(new)
  BY <1>7, <1>8
<1>9. ASSUME NEW i \in 1..Len(reports'), i <= Len(reports)
      PROVE  i \in 1..Len(reports)
  BY <1>7, <1>9
<1> QED
  BY <1>6, <1>7, <1>8, <1>9

(* Every session anything speaks of has been picked by a task. *)
LEMMA SeenStep == TypeOK /\ SeenUsed /\ [Next]_vars => SeenUsed'
<1> SUFFICES ASSUME TypeOK, SeenUsed, [Next]_vars PROVE SeenUsed'
  OBVIOUS
<1> USE DEF SeenUsed, Seen, sessionVars, serviceVars, hubVars, uiVars, taskVars, prefVars, recordVars,
            history
<1>1. ASSUME NEW q \in Seq(Report), NEW t \in Report, t.of \in Seen,
             \A i \in 1..Len(q) : q[i].of \in Seen
      PROVE  \A i \in 1..Len(Append(q, t)) : Append(q, t)[i].of \in Seen
  BY <1>1, AppendHas
<1>2. ASSUME NEW kind \in Level \cup {"retry"}, NEW s \in Session,
             s \in Seen \/ kind # "connected", Sends(kind, s)
      PROVE  /\ lastSent'.of \in Seen
             /\ \A i \in 1..Len(reports') : reports'[i].of \in Seen
             /\ \A i \in 1..Len(unsent') : unsent'[i].of \in Seen
  <2>1. lastSent' \in Report /\ lastSent'.of \in Seen
    BY <1>2, SendsType
  <2>2. CASE unsent = <<>>
    <3>1. reports' = Append(reports, lastSent') /\ unsent' = unsent /\ reports \in Seq(Report)
      BY <1>2, <2>2, SendsType DEF TypeOK
    <3> QED
      BY <1>1, <2>1, <3>1
  <2>3. CASE unsent # <<>>
    <3>1. unsent' = Append(unsent, lastSent') /\ reports' = reports /\ unsent \in Seq(Report)
      BY <1>2, <2>3, SendsType DEF TypeOK
    <3> QED
      BY <1>1, <2>1, <3>1
  <2> QED
    BY <2>2, <2>3
<1>3. ASSUME NEW kind, Receives(kind)
      PROVE  /\ \A i \in 1..Len(reports') : reports'[i].of \in Seen
             /\ Head(reports).of \in Seen
  <2>1. reports \in Seq(Report) /\ reports # <<>> /\ reports' = Tail(reports)
    BY <1>3 DEF Receives, TypeOK
  <2>2. /\ \E i \in 1..Len(reports) : Head(reports) = reports[i]
        /\ \A i \in 1..Len(Tail(reports)) :
             i + 1 \in 1..Len(reports) /\ Tail(reports)[i] = reports[i + 1]
    BY <2>1, TailHas
  <2> QED
    BY <2>1, <2>2
<1>4. ASSUME NEW kind, Receives(kind), UNCHANGED <<session, serverUuid, lastSent, unsent, used, recordOf>>,
             posting' = posting \/ posting'.of = Head(reports).of
      PROVE  SeenUsed'
  BY <1>3, <1>4
<1>5. CASE Service
  <2>1. ASSUME NEW kind \in {"connected", "connecting", "retry", "waiting"}, Reports(kind)
        PROVE  SeenUsed'
    BY <1>2, <2>1 DEF Reports, Level, TypeOK
  <2>2. CASE ReportsBytes
    <3>1. [kind |-> "bytes", of |-> session] \in Report
      BY DEF Report, TypeOK
    <3>2. \A i \in 1..Len(reports') : reports'[i].of \in Seen
      BY <1>1, <2>2, <3>1 DEF ReportsBytes, TypeOK
    <3> QED
      BY <2>2, <3>2 DEF ReportsBytes
  <2>3. CASE SessionEnds
    BY <1>2, <2>3 DEF SessionEnds, Level, TypeOK
  <2>4. ASSUME NEW s \in Sessions, ProcessExits(s) PROVE SeenUsed'
    BY <1>2, <2>4 DEF ProcessExits, Level, Session
  <2>5. CASE ServiceProcessDies
    <3>1. \A i \in 1..Len(reports') : \E j \in 1..Len(reports) : reports'[i] = reports[j]
      BY <2>5, DiesReports
    <3>2. \A i \in 1..Len(unsent') : unsent'[i] = NotConnected
      BY <2>5, DiesReports
    <3> QED
      BY <2>5, <3>1, <3>2 DEF ServiceProcessDies, NotConnected
  <2>6. CASE StickyStart
    <3>1. /\ lastSent'.of \in Seen
          /\ \A i \in 1..Len(reports') : reports'[i].of \in Seen
          /\ \A i \in 1..Len(unsent') : unsent'[i].of \in Seen
      BY <1>2, <2>6 DEF StickyStart, Level, Session
    <3> QED
      BY <2>6, <3>1 DEF StickyStart
  <2>7. CASE ServiceConnected
    <3>1. \A i \in 1..Len(reports') : \/ \E j \in 1..Len(reports) : reports'[i] = reports[j]
                                     \/ reports'[i] = lastSent
                                     \/ \E j \in 1..Len(unsent) : reports'[i] = unsent[j]
      BY <2>7, ConnectedReports
    <3>2. 1..Len(unsent') = {}
      BY <2>7, EmptySeq, LenProperties DEF ServiceConnected
    <3> QED
      BY <2>7, <3>1, <3>2 DEF ServiceConnected
  <2> QED
    BY <1>5, <2>1, <2>2, <2>3, <2>4, <2>5, <2>6, <2>7 DEF Service
<1>6. CASE Hub
  <2>1. CASE onConnect
    BY <1>4, <2>1 DEF onConnect
  <2>2. ASSUME ConnectedDone, CreateRecord \/ UNCHANGED recordOf PROVE SeenUsed'
    <3>1. posting'.of = None
      BY <2>2 DEF ConnectedDone, NoPost
    <3>2. ASSUME NEW r \in Records PROVE recordOf'[r] \in Seen
      BY <2>2 DEF CreateRecord, TypeOK
    <3> QED
      BY <2>2, <3>1, <3>2 DEF ConnectedDone
  <2>3. CASE createConnection \/ createConnectionFails
    BY <2>2, <2>3 DEF createConnection, createConnectionFails
  <2>4. CASE Disconnected
    BY <1>4, <2>4 DEF Disconnected, onDisconnect
  <2>5. CASE onChangeStatus
    BY <1>4, <2>5 DEF onChangeStatus
  <2>6. CASE updateByteCount
    BY <1>4, <2>6 DEF updateByteCount
  <2> QED
    BY <1>6, <2>1, <2>3, <2>4, <2>5, <2>6 DEF Hub
<1>7. CASE UI
  <2>1. CASE ClickConnect \/ showDisconnectDialogVPN \/ RetriesUsedUp \/ logoutUser \/ onCreate
    BY <2>1 DEF ClickConnect, showDisconnectDialogVPN, RetriesUsedUp, logoutUser, onCreate,
                NewActivity
  <2>2. CASE UIProcessRestarts
    <3>1. \A i \in 1..Len(reports') : reports'[i].of \in Seen
      BY <2>2, RestartReports
    <3> QED
      BY <2>2, <3>1 DEF UIProcessRestarts, NewActivity, NoPost
  <2> QED
    BY <1>7, <2>1, <2>2 DEF UI
<1>8. CASE Executor
  <2>1. CASE ConnectTask \/ SkipTask \/ AfterDisconnectVPNTask \/ LogoutTask
    BY <2>1 DEF ConnectTask, SkipTask, AfterDisconnectVPNTask, LogoutTask, Takes
  <2>2. CASE ChooseServer
    BY <2>2 DEF ChooseServer
  <2>3. CASE ConnectRefused \/ ConnectFails
    BY <2>3 DEF ConnectRefused, ConnectFails, onDisconnect
  <2>4. CASE StartSession
    BY <1>2, <2>4 DEF StartSession, Level, TypeOK
  <2>5. CASE afterDisconnectVPN \/ afterDisconnectVPNFails
    BY <2>5 DEF afterDisconnectVPN, afterDisconnectVPNFails, CloseDone
  <2>6. CASE deleteUserSettings
    BY <2>6 DEF deleteUserSettings
  <2> QED
    BY <1>8, <2>1, <2>2, <2>3, <2>4, <2>5, <2>6 DEF Executor
<1>9. CASE UNCHANGED vars
  BY <1>9 DEF vars
<1> QED
  BY <1>5, <1>6, <1>7, <1>8, <1>9 DEF Next


(* The service process speaks of a session that is up, or of one that is over. *)
LEMMA BookkeepingService ==
  ASSUME TypeOK, FirstProcess, Bookkeeping, Service, "restart" \notin disturbed'
  PROVE  Bookkeeping'
<1> USE DEF Bookkeeping, StartsAlone, StartIsLast, ChosenIsNew, LiveOpen, Starting, HubFree,
            Created, hubVars, uiVars, taskVars, prefVars, recordVars, history, sessionVars, serviceVars
<1>1. ASSUME NEW t \in Report, reports' = Append(reports, t), Has(reports', "notconnected")
      PROVE  Has(reports, "notconnected") \/ t.kind = "notconnected"
  BY <1>1, AppendHas DEF TypeOK
<1>2. ASSUME NEW kind \in Level \cup {"retry"}, NEW s \in Session, Sends(kind, s)
      PROVE  /\ lastSent'.kind = kind
             /\ Has(reports', "notconnected") => Has(reports, "notconnected") \/ kind = "notconnected"
  <2>1. lastSent' \in Report /\ lastSent'.kind = kind /\ reports' = Append(reports, lastSent')
    BY <1>2, SendsType DEF FirstProcess
  <2> QED
    BY <1>1, <2>1
<1>3. ASSUME UNCHANGED <<tasks, running>>
      PROVE  \A kind : Has(tasks, kind)' = Has(tasks, kind)
  BY <1>3 DEF Has
<1>4. ASSUME NEW kind \in {"connected", "connecting", "retry", "waiting"}, Reports(kind)
      PROVE  Bookkeeping'
  <2>1. session # None /\ UNCHANGED <<session, exiting, tasks, running>>
    BY <1>4 DEF Reports
  <2>2. EndMeansOver'
    BY <1>2, <1>3, <1>4, <2>1 DEF Reports, EndMeansOver, Level, TypeOK
  <2>3. StartsAlone' /\ StartIsLast'
    BY <1>3, <1>4, <2>1 DEF Reports, ConnectLast
  <2> QED
    BY <1>4, <2>2, <2>3 DEF Reports
<1>5. CASE ReportsBytes
  <2>1. session # None /\ UNCHANGED <<session, exiting, lastSent, tasks, running>>
    BY <1>5 DEF ReportsBytes
  <2>2. [kind |-> "bytes", of |-> session] \in Report
    BY DEF Report, TypeOK
  <2>3. Has(reports', "notconnected") => Has(reports, "notconnected")
    BY <1>1, <1>5, <2>2 DEF ReportsBytes
  <2>4. EndMeansOver'
    BY <1>3, <2>1, <2>3 DEF EndMeansOver
  <2>5. StartsAlone' /\ StartIsLast'
    BY <1>3, <1>5, <2>1 DEF ReportsBytes, ConnectLast
  <2> QED
    BY <1>5, <2>4, <2>5 DEF ReportsBytes
<1>6. CASE SessionEnds
  <2>1. session # None /\ session' = None /\ UNCHANGED <<tasks, running>>
    BY <1>6 DEF SessionEnds
  <2>2. StartsAlone' /\ StartIsLast'
    BY <1>3, <1>6, <2>1 DEF SessionEnds, ConnectLast
  <2> QED
    BY <1>6, <2>1, <2>2 DEF SessionEnds, EndMeansOver
<1>7. ASSUME NEW s \in Sessions, ProcessExits(s)
      PROVE  Bookkeeping'
  <2>1. exiting # {} /\ session = None /\ session' = None /\ UNCHANGED <<tasks, running>>
    BY <1>7 DEF ProcessExits, EndMeansOver
  <2>2. StartsAlone' /\ StartIsLast'
    BY <1>3, <1>7, <2>1 DEF ProcessExits, ConnectLast
  <2> QED
    BY <1>7, <2>1, <2>2 DEF ProcessExits, EndMeansOver
<1>8. ~ServiceProcessDies /\ ~StickyStart /\ ~ServiceConnected
  BY DEF ServiceProcessDies, StickyStart, ServiceConnected, FirstProcess
<1> QED
  BY <1>4, <1>5, <1>6, <1>7, <1>8 DEF Service

(* The hub hears of it later; what it queues comes before the next start. *)
LEMMA BookkeepingHub ==
  ASSUME TypeOK, SeenUsed, Bookkeeping, Hub
  PROVE  Bookkeeping'
<1> USE DEF Bookkeeping, StartsAlone, StartIsLast, EndMeansOver, ChosenIsNew, LiveOpen,
            Starting, HubFree, Created, hubVars, uiVars, taskVars, prefVars, recordVars,
            history, sessionVars, serviceVars
<1>1. ASSUME NEW kind, Receives(kind)
      PROVE  /\ ~Starting /\ ~Has(tasks, "connect")
             /\ \A k : Has(reports', k) => Has(reports, k)
             /\ Has(reports, kind)
  BY <1>1, TailHas DEF Receives, TypeOK
<1>2. ASSUME NEW kind, Receives(kind), UNCHANGED <<sessionVars, serviceVars, taskVars, prefVars, recordVars>>
      PROVE  Bookkeeping'
  <2>1. \A k : Has(tasks, k)' = Has(tasks, k)
    BY <1>2 DEF Has
  <2> QED
    BY <1>1, <1>2, <2>1 DEF ConnectLast
<1>3. CASE onConnect
  BY <1>2, <1>3 DEF onConnect
<1>4. ASSUME ConnectedDone, CreateRecord \/ UNCHANGED recordVars
      PROVE  Bookkeeping'
  <2>1. \A k : Has(tasks, k)' = Has(tasks, k) /\ Has(reports, k)' = Has(reports, k)
    BY <1>4 DEF ConnectedDone, Has
  <2>2. StartsAlone' /\ StartIsLast' /\ EndMeansOver'
    BY <1>4, <2>1 DEF ConnectedDone, ConnectLast
  <2>3. ~Starting
    BY <1>4 DEF ConnectedDone
  <2>4. LiveOpen'
    BY <1>4 DEF ConnectedDone, CreateRecord, NewRecord, TypeOK
  <2> QED
    BY <1>4, <2>2, <2>3, <2>4 DEF ConnectedDone
<1>5. CASE createConnection \/ createConnectionFails
  BY <1>4, <1>5 DEF createConnection, createConnectionFails
<1>6. CASE Disconnected
  <2>1. session = None /\ ~Starting /\ ~Has(tasks, "connect")
    BY <1>1, <1>6 DEF Disconnected
  <2>2. [kind |-> "close", by |-> activity] \in Task
    BY DEF TypeOK, Task
  <2>3. ConnectLast(tasks') /\ ~Has(tasks', "connect")
    <3>1. CASE tasks' = tasks
      BY <2>1, <3>1 DEF Has, ConnectLast
    <3>2. CASE tasks' = Append(tasks, [kind |-> "close", by |-> activity])
      BY <2>1, <2>2, <3>2, AppendHas, AppendConnectLast DEF TypeOK
    <3> QED
      BY <1>6, <3>1, <3>2 DEF Disconnected, onDisconnect
  <2> QED
    BY <1>6, <2>1, <2>3 DEF Disconnected
<1>7. CASE onChangeStatus
  BY <1>2, <1>7 DEF onChangeStatus
<1>8. CASE updateByteCount
  BY <1>2, <1>8 DEF updateByteCount
<1> QED
  BY <1>3, <1>5, <1>6, <1>7, <1>8 DEF Hub


(* Clicks cancel starts or, with nothing else under way, add one. *)
LEMMA BookkeepingConnect ==
  ASSUME TypeOK, Bookkeeping, connectToVPN, "overlap" \notin disturbed',
         UNCHANGED <<session, exiting, reports, lastSent, posting, running, serverUuid,
                     recordVars>>
  PROVE  Bookkeeping'
<1> USE DEF Bookkeeping, StartsAlone, StartIsLast, EndMeansOver, ChosenIsNew, LiveOpen,
            Starting, HubFree, Created, recordVars
<1>1. Quiet
  BY DEF connectToVPN
<1>2. ~Has(Cancelled, "connect")
  <2>1. DOMAIN tasks = 1..Len(tasks)
    BY LenProperties DEF TypeOK
  <2> QED
    BY <1>1, <2>1, CancelledProperties DEF Quiet, Has
<1>3. ConnectLast(Cancelled) /\ Cancelled \in Seq(Task)
  BY CancelledProperties, CancelledConnectLast
<1>4. [kind |-> "connect", by |-> activity] \in Task
  BY DEF TypeOK, Task
<1>5. ConnectLast(tasks')
  BY <1>2, <1>3, <1>4, AppendConnectLast DEF connectToVPN
<1>6. session = None /\ exiting = {} /\ reports = <<>> /\ HubFree /\ ~Starting
  BY <1>1 DEF Quiet
<1> QED
  BY <1>5, <1>6

LEMMA BookkeepingUI ==
  ASSUME TypeOK, Bookkeeping, UI, "overlap" \notin disturbed'
  PROVE  Bookkeeping'
<1> USE DEF Bookkeeping, StartsAlone, StartIsLast, EndMeansOver, ChosenIsNew, LiveOpen,
            Starting, HubFree, Created, hubVars, uiVars, taskVars, prefVars, recordVars,
            history, sessionVars, serviceVars
<1>1. CASE ClickConnect \/ RetriesUsedUp
  BY <1>1, BookkeepingConnect DEF ClickConnect, RetriesUsedUp
<1>2. CASE showDisconnectDialogVPN
  <2>1. /\ ConnectLast(tasks')
        /\ \A kind \in {"connect", "close"} : Has(tasks', kind) => Has(tasks, kind)
    BY <1>2, CancelledConnectLast DEF showDisconnectDialogVPN
  <2>2. \A k : Has(reports, k)' = Has(reports, k)
    BY <1>2 DEF showDisconnectDialogVPN, Has
  <2> QED
    BY <1>2, <2>1, <2>2 DEF showDisconnectDialogVPN
<1>3. CASE logoutUser
  <2>1. [kind |-> "logout", by |-> activity] \in Task
    BY DEF TypeOK, Task
  <2>2. /\ ConnectLast(tasks')
        /\ \A kind \in {"connect", "close"} : Has(tasks', kind) => Has(tasks, kind)
    BY <1>3, <2>1, AppendHas, AppendConnectLast DEF TypeOK, logoutUser
  <2>3. \A k : Has(reports, k)' = Has(reports, k)
    BY <1>3 DEF logoutUser, Has
  <2> QED
    BY <1>3, <2>2, <2>3 DEF logoutUser
<1>4. CASE onCreate
  BY <1>4 DEF onCreate, NewActivity, ConnectLast, Has
<1>5. CASE UIProcessRestarts
  <2>1. Has(reports', "notconnected") =>
          Has(reports, "notconnected") \/ lastSent.kind = "notconnected"
    BY <1>5, RestartReports DEF Has
  <2>2. tasks' = <<>> /\ running' = "none"
    BY <1>5 DEF UIProcessRestarts
  <2>3. ConnectLast(tasks') /\ ~Has(tasks', "connect") /\ ~Has(tasks', "close")
    <3>1. 1..Len(tasks') = {}
      BY <2>2, EmptySeq, LenProperties
    <3> QED
      BY <3>1 DEF ConnectLast, Has
  <2> QED
    BY <1>5, <2>1, <2>2, <2>3 DEF UIProcessRestarts, NewActivity
<1> QED
  BY <1>1, <1>2, <1>3, <1>4, <1>5 DEF UI

(* A start is taken last, picks a session of no record, and ends with nothing *)
(* else under way; a close is taken only when no session is up.               *)
LEMMA BookkeepingExecutor ==
  ASSUME TypeOK, SeenUsed, FirstProcess, Bookkeeping, Executor
  PROVE  Bookkeeping'
<1> USE DEF Bookkeeping, StartsAlone, StartIsLast, EndMeansOver, ChosenIsNew, LiveOpen,
            Starting, HubFree, Created, hubVars, uiVars, taskVars, prefVars, recordVars,
            history, sessionVars, serviceVars
<1>1. ASSUME NEW kind, Takes(kind)
      PROVE  /\ ConnectLast(tasks')
             /\ \A k : Has(tasks', k) => Has(tasks, k)
             /\ Has(tasks, kind)
             /\ kind = "connect" => ~Has(tasks', "connect") /\ ~Has(tasks', "close")
  BY <1>1, TailHas, TailConnectLast DEF Takes, TypeOK
<1>2. ASSUME UNCHANGED <<tasks, reports>>
      PROVE  /\ ConnectLast(tasks)' = ConnectLast(tasks)
             /\ \A k : Has(tasks, k)' = Has(tasks, k) /\ Has(reports, k)' = Has(reports, k)
  BY <1>2 DEF ConnectLast, Has
<1>3. ASSUME UNCHANGED reports
      PROVE  \A k : Has(reports, k)' = Has(reports, k)
  BY <1>3 DEF Has
<1>4. CASE ConnectTask
  <2>1. Takes("connect")
    BY <1>4 DEF ConnectTask
  <2> QED
    BY <1>1, <1>3, <1>4, <2>1 DEF ConnectTask, Takes
<1>5. CASE SkipTask
  <2>1. Takes("cancelled")
    BY <1>5 DEF SkipTask
  <2> QED
    BY <1>1, <1>3, <1>5, <2>1 DEF SkipTask, Takes
<1>6. CASE ChooseServer
  <2>1. NewSession \in Sessions /\ NewSession \notin used
    BY <1>6 DEF ChooseServer, NewSession
  <2>2. \A r \in Records : recordOf[r] # NewSession
    BY <2>1, NoneAssumption DEF SeenUsed, Seen
  <2> QED
    BY <1>2, <1>6, <2>1, <2>2 DEF ChooseServer
<1>7. CASE ConnectRefused
  BY <1>2, <1>7 DEF ConnectRefused
<1>8. CASE ConnectFails
  <2>1. session = None /\ ~Has(tasks, "connect")
    BY <1>8 DEF ConnectFails
  <2>2. [kind |-> "close", by |-> activity] \in Task
    BY DEF TypeOK, Task
  <2>3. ConnectLast(tasks') /\ ~Has(tasks', "connect")
    <3>1. CASE tasks' = tasks
      BY <2>1, <3>1 DEF Has, ConnectLast
    <3>2. CASE tasks' = Append(tasks, [kind |-> "close", by |-> activity])
      BY <2>1, <2>2, <3>2, AppendHas, AppendConnectLast DEF TypeOK
    <3> QED
      BY <1>8, <3>1, <3>2 DEF ConnectFails, onDisconnect
  <2> QED
    BY <1>8, <2>1, <2>3 DEF ConnectFails
<1>9. CASE StartSession
  <2>1. Starting /\ session = None /\ exiting = {} /\ reports = <<>>
    BY <1>9 DEF StartSession
  <2>2. exiting' = {}
    BY <1>9, <2>1 DEF StartSession
  <2>3. lastSent' \in Report /\ lastSent'.kind = "connecting" /\ reports' = Append(reports, lastSent')
    BY <1>9, SendsType DEF StartSession, FirstProcess, Level, TypeOK
  <2>4. ~Has(reports', "notconnected")
    <3>1. ~Has(reports, "notconnected")
      BY <2>1, EmptySeq DEF Has
    <3> QED
      BY <2>3, <3>1, AppendHas DEF TypeOK
  <2>5. UNCHANGED tasks /\ ~Has(tasks, "connect") /\ ~Has(tasks, "close")
    BY <1>9, <2>1 DEF StartSession
  <2>6. ConnectLast(tasks') /\ ~Has(tasks', "connect") /\ ~Has(tasks', "close")
    BY <2>5 DEF ConnectLast, Has
  <2> QED
    BY <1>9, <2>2, <2>3, <2>4, <2>6 DEF StartSession
<1>10. CASE AfterDisconnectVPNTask
  <2>1. Takes("close")
    BY <1>10 DEF AfterDisconnectVPNTask
  <2> QED
    BY <1>1, <1>3, <1>10, <2>1 DEF AfterDisconnectVPNTask, Takes
<1>11. CASE afterDisconnectVPN \/ afterDisconnectVPNFails
  <2>1. session' = None
    BY <1>11 DEF afterDisconnectVPN, afterDisconnectVPNFails, CloseDone
  <2> QED
    BY <1>2, <1>11, <2>1 DEF afterDisconnectVPN, afterDisconnectVPNFails, CloseDone
<1>12. CASE LogoutTask
  <2>1. Takes("logout")
    BY <1>12 DEF LogoutTask
  <2> QED
    BY <1>1, <1>3, <1>12, <2>1 DEF LogoutTask, Takes
<1>13. CASE deleteUserSettings
  BY <1>2, <1>13 DEF deleteUserSettings
<1> QED
  BY <1>4, <1>5, <1>6, <1>7, <1>8, <1>9, <1>10, <1>11, <1>12, <1>13 DEF Executor


LEMMA LiveInit == Init => LiveInv
<1> SUFFICES ASSUME Init PROVE LiveInv
  OBVIOUS
<1>1. TypeOK
  BY InitType
<1>2. 1..Len(<<>>) = {}
  BY EmptySeq, LenProperties
<1>3. SeenUsed /\ FirstProcess
  BY <1>2 DEF Init, SeenUsed, Seen, NoPost, NotConnected, FirstProcess
<1>4. ~Has(tasks, "connect") /\ ~Has(tasks, "close") /\ ConnectLast(tasks)
  BY <1>2 DEF Init, Has, ConnectLast
<1>5. Bookkeeping
  BY <1>4 DEF Init, Bookkeeping, StartsAlone, StartIsLast, EndMeansOver, ChosenIsNew,
              LiveOpen, Starting, Created, NotConnected
<1> QED
  BY <1>1, <1>3, <1>5 DEF LiveInv

(* What has disturbed the bookkeeping is not forgotten. *)
LEMMA DisturbedGrows == [Next]_vars => disturbed \subseteq disturbed'
<1> SUFFICES ASSUME [Next]_vars PROVE disturbed \subseteq disturbed'
  OBVIOUS
<1> USE DEF sessionVars, serviceVars, hubVars, uiVars, taskVars, prefVars, recordVars, history
<1>1. CASE Service
  BY <1>1 DEF Service, Reports, ReportsBytes, SessionEnds, ProcessExits, ServiceProcessDies,
              StickyStart, ServiceConnected
<1>2. CASE Hub
  BY <1>2 DEF Hub, onConnect, createConnection, createConnectionFails, Disconnected,
              onChangeStatus, updateByteCount
<1>3. CASE UI
  BY <1>3 DEF UI, ClickConnect, showDisconnectDialogVPN, RetriesUsedUp, logoutUser, onCreate,
              UIProcessRestarts, NewActivity, connectToVPN
<1>4. CASE Executor
  BY <1>4 DEF Executor, ConnectTask, SkipTask, ChooseServer, ConnectRefused, ConnectFails,
              StartSession, AfterDisconnectVPNTask, afterDisconnectVPN,
              afterDisconnectVPNFails, LogoutTask, deleteUserSettings, Takes
<1>5. CASE UNCHANGED vars
  BY <1>5 DEF vars
<1> QED
  BY <1>1, <1>2, <1>3, <1>4, <1>5 DEF Next

LEMMA FirstProcessStep ==
  ASSUME FirstProcess, [Next]_vars, "restart" \notin disturbed'
  PROVE  FirstProcess'
<1> USE DEF FirstProcess, sessionVars, serviceVars
<1>1. CASE Service
  BY <1>1 DEF Service, Reports, ReportsBytes, SessionEnds, ProcessExits, ServiceProcessDies,
              StickyStart, ServiceConnected, Sends
<1>2. CASE Hub
  BY <1>2 DEF Hub, onConnect, createConnection, createConnectionFails, ConnectedDone, Disconnected,
              onChangeStatus, updateByteCount
<1>3. CASE UI
  BY <1>3 DEF UI, ClickConnect, showDisconnectDialogVPN, RetriesUsedUp, logoutUser, onCreate,
              UIProcessRestarts, NewActivity
<1>4. CASE Executor
  BY <1>4 DEF Executor, ConnectTask, SkipTask, ChooseServer, ConnectRefused, ConnectFails,
              StartSession, AfterDisconnectVPNTask, afterDisconnectVPN, CloseDone,
              afterDisconnectVPNFails, LogoutTask, deleteUserSettings, Takes, Sends
<1>5. CASE UNCHANGED vars
  BY <1>5 DEF vars
<1> QED
  BY <1>1, <1>2, <1>3, <1>4, <1>5 DEF Next

LEMMA LiveStep == LiveInv /\ [Next]_vars => LiveInv'
<1> SUFFICES ASSUME LiveInv, [Next]_vars PROVE LiveInv'
  OBVIOUS
<1>1. TypeOK' /\ SeenUsed'
  BY TypeStep, SeenStep DEF LiveInv
<1>2. ASSUME "restart" \notin disturbed' PROVE FirstProcess'
  BY <1>2, DisturbedGrows, FirstProcessStep DEF LiveInv
<1>3. ASSUME InOrder' PROVE Bookkeeping'
  <2>1. /\ TypeOK /\ SeenUsed /\ FirstProcess /\ Bookkeeping
        /\ "overlap" \notin disturbed' /\ "restart" \notin disturbed'
    BY <1>3, DisturbedGrows DEF LiveInv, InOrder
  <2>2. CASE UNCHANGED vars
    <3>1. /\ ConnectLast(tasks)' = ConnectLast(tasks)
          /\ \A k : Has(tasks, k)' = Has(tasks, k) /\ Has(reports, k)' = Has(reports, k)
      BY <2>2 DEF vars, taskVars, ConnectLast, Has
    <3> QED
      BY <2>1, <2>2, <3>1
         DEF vars, sessionVars, serviceVars, hubVars, uiVars, taskVars, prefVars, recordVars, history,
             Bookkeeping, StartsAlone, StartIsLast, EndMeansOver, ChosenIsNew, LiveOpen,
             Starting, HubFree, Created
  <2> QED
    BY <2>1, <2>2, BookkeepingService, BookkeepingHub, BookkeepingUI,
       BookkeepingExecutor DEF Next
<1> QED
  BY <1>1, <1>2, <1>3 DEF LiveInv

(* The record of the session that is up is not closed under it, whatever requests  *)
(* fail or take effect without an answer, whichever activities are created again,   *)
(* and whenever the UI process restarts or the user logs out, as long as starts do  *)
(* not overlap and the service process is not killed.                               *)
THEOREM LiveRecordNotClosed == Spec => []LiveRecordStaysOpen
<1>1. LiveInv => LiveRecordStaysOpen
  BY DEF LiveInv, InOrder, Bookkeeping, LiveOpen, LiveRecordStaysOpen
<1> QED
  BY <1>1, LiveInit, LiveStep, PTL DEF Spec


-----------------------------------------------------------------------------
(* Why a session gets one record: WAS_CONNECTED is set as long as a recorded    *)
(* session may still be reported as connected, since what resets it is the end  *)
(* of the session or a start, and no such report comes after either.  So it is  *)
(* with a new service process too: what it says is about sessions it starts.    *)
Undivided == disturbed \cap {"overlap", "recreation", "lag"} = {}

Recorded(s) == \E r \in Records : Created(r) /\ recordOf[r] = s

(* The sessions that have a record or are getting one, and the one that is up. *)
Kept == {s \in Session : Recorded(s) \/ (posting # NoPost /\ posting.of = s)}
Up   == {session} \ {None}

Says(m, s) == m.kind = "connected" /\ m.of = s
Said(q, s) == \E i \in 1..Len(q) : Says(q[i], s)

(* No session is reported, or up, both before an end in the queue and after it. *)
EndsPart(q, kept, up) ==
  \A j \in 1..Len(q) : q[j].kind = "notconnected" =>
    \A s \in Session :
      s \in kept \/ (\E i \in 1..Len(q) : i < j /\ Says(q[i], s)) =>
        s \notin up /\ ~\E k \in 1..Len(q) : j < k /\ Says(q[k], s)

Remembered ==
  /\ session # None /\ Recorded(session) => wasConnected[activity]
  /\ \A i \in 1..Len(reports) :
       reports[i].kind = "connected" /\ Recorded(reports[i].of) => wasConnected[activity]

PostingNew == posting # NoPost => posting.by = activity /\ ~Recorded(posting.of)

UnsentNew ==
  unsent # <<>> =>
    \A s \in Session : s \in Kept \/ Said(reports, s) => s \notin Up /\ ~Said(unsent, s)

Once ==
  /\ Remembered /\ PostingNew /\ UnsentNew /\ ReconnectCreatesNoRecord
  /\ EndsPart(reports, Kept, Up) /\ EndsPart(unsent, {}, Up)

(* A start is the last thing under way, of whichever process. *)
OneUp ==
  /\ exiting # {} \/ sticky => session = None
  /\ sticky => exiting = {}
  /\ lastSent.kind = "connected" => session # None /\ lastSent.of = session

OneConnect(q) ==
  \A i, j \in 1..Len(q) : q[i].kind = "connect" /\ q[j].kind = "connect" => i = j

StartsUntold ==
  Starting \/ Has(tasks, "connect") =>
    /\ session = None /\ exiting = {} /\ ~sticky /\ HubFree
    /\ ~Has(reports, "connected") /\ ~Has(unsent, "connected")

OneStart == OneConnect(tasks) /\ (Starting => ~Has(tasks, "connect"))

Apart == OneUp /\ OneStart /\ StartsUntold /\ ChosenIsNew

UuidsCreated ==
  /\ connectionUuid # None => Created(connectionUuid)
  /\ request.uuid # None => Created(request.uuid)

OnceInv == LiveInv /\ UuidsCreated /\ (Undivided => Apart /\ Once)

(* A UUID that is stored, or in a request, is that of a record. *)
LEMMA UuidsStep == TypeOK /\ UuidsCreated /\ [Next]_vars => UuidsCreated'
<1> SUFFICES ASSUME TypeOK, UuidsCreated, [Next]_vars PROVE UuidsCreated'
  OBVIOUS
<1> USE DEF UuidsCreated, Created, sessionVars, serviceVars, hubVars, uiVars, taskVars, prefVars, recordVars,
            history
<1>1. CASE UNCHANGED <<connectionUuid, request, recordState>>
  BY <1>1
<1>2. CASE Service
  BY <1>1, <1>2 DEF Service, Reports, ReportsBytes, SessionEnds, ProcessExits,
                    ServiceProcessDies, StickyStart, ServiceConnected
<1>3. CASE Hub
  <2>1. CASE onConnect \/ Disconnected \/ onChangeStatus \/ updateByteCount
    BY <1>1, <2>1 DEF onConnect, Disconnected, onChangeStatus, updateByteCount
  <2>2. CASE createConnection
    <3>1. posting # NoPost /\ CreateRecord /\ request' = request /\ connectionUuid' = NewRecord
      BY <2>2 DEF createConnection, ConnectedDone
    <3>2. /\ NewRecord \in Records
          /\ recordState' = [recordState EXCEPT ![NewRecord] = "open"]
      BY <3>1, CreateType DEF CreateRecord
    <3> QED
      BY <3>1, <3>2 DEF TypeOK, Record
  <2>3. CASE createConnectionFails
    <3>1. posting # NoPost /\ UNCHANGED <<request, connectionUuid>>
      BY <2>3 DEF createConnectionFails, ConnectedDone
    <3>2. CASE CreateRecord
      <4>1. /\ NewRecord \in Records
            /\ recordState' = [recordState EXCEPT ![NewRecord] = "open"]
        BY <3>1, <3>2, CreateType DEF CreateRecord
      <4> QED
        BY <3>1, <4>1 DEF TypeOK, Record
    <3> QED
      BY <1>1, <2>3, <3>1, <3>2 DEF createConnectionFails
  <2> QED
    BY <1>3, <2>1, <2>2, <2>3 DEF Hub
<1>4. CASE UI
  BY <1>1, <1>4 DEF UI, ClickConnect, showDisconnectDialogVPN, RetriesUsedUp, logoutUser, onCreate,
                    UIProcessRestarts, NewActivity, connectToVPN, NoRequest
<1>5. CASE Executor
  <2>1. CASE AfterDisconnectVPNTask
    BY <2>1 DEF AfterDisconnectVPNTask, Takes
  <2>2. CASE afterDisconnectVPN \/ afterDisconnectVPNFails
    <3>1. /\ request' = NoRequest /\ connectionUuid' \in {None, connectionUuid}
          /\ recordState' = recordState \/ CloseRecord
      BY <2>2 DEF afterDisconnectVPN, afterDisconnectVPNFails, CloseDone
    <3> QED
      BY <3>1 DEF CloseRecord, NoRequest, TypeOK, Record
  <2>3. CASE ConnectTask \/ SkipTask \/ ChooseServer \/ ConnectRefused \/ ConnectFails
               \/ StartSession \/ LogoutTask
    BY <1>1, <2>3 DEF ConnectTask, SkipTask, ChooseServer, ConnectRefused, ConnectFails,
                      StartSession, LogoutTask, Takes
  <2>4. CASE deleteUserSettings
    BY <2>4 DEF deleteUserSettings
  <2> QED
    BY <1>5, <2>1, <2>2, <2>3, <2>4 DEF Executor
<1>6. CASE UNCHANGED vars
  BY <1>1, <1>6 DEF vars
<1> QED
  BY <1>2, <1>3, <1>4, <1>5, <1>6 DEF Next

(* Closing a record makes no other one. *)
LEMMA SameRecords ==
  ASSUME UNCHANGED recordOf, \A r \in Records : Created(r)' = Created(r)
  PROVE  /\ \A s : Recorded(s)' = Recorded(s)
         /\ ReconnectCreatesNoRecord' = ReconnectCreatesNoRecord
<1>1. ASSUME NEW s PROVE Recorded(s)' = Recorded(s)
  BY DEF Recorded
<1>2. ReconnectCreatesNoRecord' = ReconnectCreatesNoRecord
  BY DEF ReconnectCreatesNoRecord
<1> QED
  BY <1>1, <1>2

(* What the service does leaves the queue of tasks alone. *)
LEMMA ApartService ==
  ASSUME TypeOK, Apart, Service
  PROVE  Apart'
<1> USE DEF Apart, OneUp, OneStart, StartsUntold, ChosenIsNew, Starting, HubFree, Created,
            sessionVars, serviceVars, hubVars, uiVars, taskVars, prefVars, recordVars, history
<1>1. UNCHANGED <<tasks, running, posting, serverUuid, recordState, recordOf>>
  BY DEF Service, Reports, ReportsBytes, SessionEnds, ProcessExits, ServiceProcessDies,
         StickyStart, ServiceConnected
<1>2. (\A k : Has(tasks, k)' = Has(tasks, k)) /\ OneConnect(tasks)'
  BY <1>1 DEF Has, OneConnect
<1>3. ASSUME OneUp', StartsUntold' PROVE Apart'
  BY <1>1, <1>2, <1>3
<1>4. ASSUME ~Starting, ~Has(tasks, "connect") PROVE StartsUntold'
  BY <1>1, <1>2, <1>4
<1>5. ASSUME NEW kind \in {"connected", "connecting", "retry", "waiting"}, Reports(kind)
      PROVE  Apart'
  <2>1. /\ session # None /\ UNCHANGED <<session, exiting, sticky>>
        /\ lastSent'.kind = kind /\ lastSent'.of = (IF kind = "connected" THEN session ELSE None)
    BY <1>5, SendsType DEF Reports, Level, TypeOK
  <2> QED
    BY <1>3, <1>4, <2>1
<1>6. CASE ReportsBytes
  BY <1>3, <1>4, <1>6 DEF ReportsBytes
<1>7. CASE SessionEnds
  <2>1. session # None /\ session' = None /\ ~sticky' /\ lastSent'.kind = "notconnected"
    BY <1>7, SendsType DEF SessionEnds, Level, TypeOK
  <2> QED
    BY <1>3, <1>4, <2>1
<1>8. ASSUME NEW s \in Sessions, ProcessExits(s) PROVE Apart'
  <2>1. /\ exiting # {} /\ UNCHANGED <<session, sticky>> /\ lastSent'.kind = "notconnected"
    BY <1>8, SendsType DEF ProcessExits, Level, Session, TypeOK
  <2> QED
    BY <1>3, <1>4, <2>1
<1>9. CASE ServiceProcessDies
  <2>1. Has(reports', "connected") => Has(reports, "connected")
    BY <1>9, DiesReports DEF Has
  <2>2. ~Has(unsent', "connected")
    BY <1>9, DiesReports DEF Has, NotConnected
  <2>3. Has(reports, "connected")' = Has(reports', "connected")
        /\ Has(unsent, "connected")' = Has(unsent', "connected")
    BY DEF Has
  <2>4. OneUp'
    BY <1>9 DEF ServiceProcessDies, NotConnected
  <2>5. StartsUntold'
    BY <1>1, <1>2, <1>9, <2>1, <2>2, <2>3 DEF ServiceProcessDies
  <2> QED
    BY <1>3, <2>4, <2>5
<1>10. CASE StickyStart
  <2>1. /\ sticky /\ ~sticky' /\ exiting' = {} /\ lastSent'.kind = "connecting"
    BY <1>10, SendsType DEF StickyStart, Level, Session, TypeOK
  <2> QED
    BY <1>3, <1>4, <2>1
<1>11. CASE ServiceConnected
  <2>1. UNCHANGED <<session, exiting, sticky, lastSent>> /\ unsent' = <<>>
    BY <1>11 DEF ServiceConnected
  <2>2. Has(reports', "connected") =>
          Has(reports, "connected") \/ lastSent.kind = "connected" \/ Has(unsent, "connected")
    BY <1>11, ConnectedReports DEF Has
  <2>3. ~Has(unsent', "connected")
    BY <2>1, EmptySeq, LenProperties DEF Has
  <2>4. Has(reports, "connected")' = Has(reports', "connected")
        /\ Has(unsent, "connected")' = Has(unsent', "connected")
    BY DEF Has
  <2>5. StartsUntold'
    BY <1>1, <1>2, <2>1, <2>2, <2>3, <2>4
  <2> QED
    BY <1>3, <2>1, <2>5
<1> QED
  BY <1>5, <1>6, <1>7, <1>8, <1>9, <1>10, <1>11 DEF Service

(* What is queued and is no connect leaves the one connect there may be. *)
LEMMA OneConnectAppend ==
  ASSUME NEW q \in Seq(Task), NEW t \in Task, OneConnect(q),
         t.kind = "connect" => ~Has(q, "connect")
  PROVE  OneConnect(Append(q, t))
<1>1. /\ Len(q) \in Nat /\ Len(Append(q, t)) = Len(q) + 1
      /\ Append(q, t)[Len(q) + 1] = t
      /\ \A i \in 1..Len(q) : Append(q, t)[i] = q[i]
  BY AppendProperties, LenProperties
<1>2. \A i \in 1..Len(Append(q, t)) : i \in 1..Len(q) \/ i = Len(q) + 1
  BY <1>1
<1>3. ASSUME NEW i \in 1..Len(Append(q, t)), NEW j \in 1..Len(Append(q, t)),
             Append(q, t)[i].kind = "connect", Append(q, t)[j].kind = "connect"
      PROVE  i = j
  BY <1>1, <1>2, <1>3 DEF OneConnect, Has
<1> QED
  BY <1>3 DEF OneConnect

LEMMA OneConnectTail ==
  ASSUME NEW q \in Seq(Task), q # <<>>, OneConnect(q)
  PROVE  /\ OneConnect(Tail(q))
         /\ Head(q).kind = "connect" => ~Has(Tail(q), "connect")
<1>1. /\ Head(q) = q[1] /\ 1 \in 1..Len(q) /\ Len(Tail(q)) \in Nat
      /\ \A i \in 1..Len(Tail(q)) :
           i \in Nat /\ i # 0 /\ i + 1 \in 1..Len(q) /\ Tail(q)[i] = q[i + 1]
  <2>1. Head(q) = q[1] /\ Len(q) \in Nat /\ Len(q) # 0 /\ Len(Tail(q)) = Len(q) - 1
    BY HeadTailProperties, LenProperties, EmptySeq
  <2> QED
    BY <2>1, TailHas
<1>2. ASSUME NEW i \in 1..Len(Tail(q)), NEW j \in 1..Len(Tail(q)),
             Tail(q)[i].kind = "connect", Tail(q)[j].kind = "connect"
      PROVE  i = j
  <2>1. i + 1 = j + 1
    BY <1>1, <1>2 DEF OneConnect
  <2> QED
    BY <1>1, <2>1
<1>3. ASSUME Head(q).kind = "connect", NEW i \in 1..Len(Tail(q)), Tail(q)[i].kind = "connect"
      PROVE  FALSE
  <2>1. i + 1 = 1
    BY <1>1, <1>3 DEF OneConnect
  <2> QED
    BY <1>1, <2>1
<1> QED
  BY <1>2, <1>3 DEF OneConnect, Has

(* onDisconnect queues a close at most. *)
LEMMA OneConnectClose ==
  ASSUME TypeOK, OneConnect(tasks), onDisconnect
  PROVE  /\ OneConnect(tasks') /\ (Has(tasks', "connect") => Has(tasks, "connect"))
<1>1. CASE tasks' = tasks
  BY <1>1
<1>2. CASE tasks' = Append(tasks, [kind |-> "close", by |-> activity])
  <2>1. [kind |-> "close", by |-> activity] \in Task
    BY DEF TypeOK, Task
  <2>2. PICK t \in Task : t.kind = "close" /\ tasks' = Append(tasks, t)
    BY <1>2, <2>1
  <2>3. tasks \in Seq(Task)
    BY DEF TypeOK
  <2> QED
    BY <2>2, <2>3, OneConnectAppend, AppendHas
<1> QED
  BY <1>1, <1>2 DEF onDisconnect

LEMMA ApartHub ==
  ASSUME TypeOK, Apart, Hub
  PROVE  Apart'
<1> USE DEF Apart, OneUp, OneStart, StartsUntold, ChosenIsNew, Starting, HubFree, Created,
            sessionVars, serviceVars, hubVars, uiVars, taskVars, prefVars, recordVars, history
<1>1. UNCHANGED <<session, exiting, sticky, lastSent, unsent, running, serverUuid>>
  BY DEF Hub, onConnect, createConnection, createConnectionFails, ConnectedDone, Disconnected,
         onChangeStatus, updateByteCount
<1>2. Has(unsent, "connected")' = Has(unsent, "connected")
  BY <1>1 DEF Has
<1>3. ASSUME NEW kind, Receives(kind)
      PROVE  /\ Has(reports', "connected") => Has(reports, "connected")
             /\ Has(reports, kind) /\ posting = NoPost
             /\ Has(reports, "connected")' = Has(reports', "connected")
  <2>1. reports \in Seq(Report) /\ reports # <<>> /\ reports' = Tail(reports)
        /\ Head(reports).kind = kind /\ posting = NoPost
    BY <1>3 DEF Receives, TypeOK
  <2> QED
    BY <2>1, TailHas DEF Has
<1>4. ASSUME NEW kind, Receives(kind), OneConnect(tasks'), UNCHANGED <<recordState, recordOf>>,
             Has(tasks', "connect") => Has(tasks, "connect"),
             kind = "connected" \/ UNCHANGED posting
      PROVE  Apart'
  <2>1. OneConnect(tasks)' /\ (Has(tasks, "connect")' => Has(tasks, "connect"))
    BY <1>4 DEF OneConnect, Has
  <2> QED
    BY <1>1, <1>2, <1>3, <1>4, <2>1
<1>5. CASE onConnect \/ onChangeStatus \/ updateByteCount
  BY <1>4, <1>5 DEF onConnect, onChangeStatus, updateByteCount
<1>6. CASE Disconnected
  BY <1>4, <1>6, OneConnectClose DEF Disconnected, onDisconnect
<1>7. CASE createConnection \/ createConnectionFails
  <2>1. posting # NoPost /\ UNCHANGED <<tasks, reports>>
    BY <1>7 DEF createConnection, createConnectionFails, ConnectedDone
  <2>2. OneConnect(tasks)' /\ Has(tasks, "connect")' = Has(tasks, "connect")
    BY <2>1 DEF OneConnect, Has
  <2>3. ~Starting /\ ~Has(tasks, "connect")
    BY <2>1
  <2> QED
    BY <1>1, <2>2, <2>3
<1> QED
  BY <1>5, <1>6, <1>7 DEF Hub

LEMMA ApartUI ==
  ASSUME TypeOK, Apart, UI, "overlap" \notin disturbed', "recreation" \notin disturbed'
  PROVE  Apart'
<1> USE DEF Apart, OneUp, OneStart, StartsUntold, ChosenIsNew, Starting, HubFree, Created,
            sessionVars, serviceVars, hubVars, uiVars, taskVars, prefVars, recordVars, history
<1>1. ~onCreate /\ ~UIProcessRestarts
  BY DEF onCreate, UIProcessRestarts, NewActivity
<1>2. /\ UNCHANGED <<session, exiting, sticky, lastSent, unsent, reports, posting, running>>
      /\ UNCHANGED <<serverUuid, recordState, recordOf>>
  BY <1>1 DEF UI, ClickConnect, showDisconnectDialogVPN, RetriesUsedUp, logoutUser
<1>3. Has(unsent, "connected")' = Has(unsent, "connected")
      /\ Has(reports, "connected")' = Has(reports, "connected")
  BY <1>2 DEF Has
<1>4. /\ Cancelled \in Seq(Task) /\ OneConnect(Cancelled)
      /\ Has(Cancelled, "connect") => Has(tasks, "connect")
  <2>1. /\ Len(Cancelled) = Len(tasks)
        /\ \A i \in 1..Len(tasks) : Cancelled[i].kind = "connect" => tasks[i].kind = "connect"
    BY CancelledProperties
  <2> QED
    BY <2>1, CancelledProperties DEF OneConnect, Has
<1>5. ASSUME OneConnect(tasks'), Has(tasks', "connect") => Has(tasks, "connect")
      PROVE  Apart'
  <2>1. OneConnect(tasks)' /\ (Has(tasks, "connect")' => Has(tasks, "connect"))
    BY <1>5 DEF OneConnect, Has
  <2> QED
    BY <1>2, <1>3, <2>1
<1>6. CASE ClickConnect \/ RetriesUsedUp
  <2>1. Quiet /\ tasks' = Append(Cancelled, [kind |-> "connect", by |-> activity])
    BY <1>6 DEF ClickConnect, RetriesUsedUp, connectToVPN
  <2>2. ~Has(Cancelled, "connect")
    <3>1. DOMAIN tasks = 1..Len(tasks)
      BY LenProperties DEF TypeOK
    <3> QED
      BY <2>1, <3>1, CancelledProperties DEF Quiet, Has
  <2>3. [kind |-> "connect", by |-> activity] \in Task
    BY DEF TypeOK, Task
  <2>4. OneConnect(tasks')
    BY <1>4, <2>1, <2>2, <2>3, OneConnectAppend
  <2>5. OneConnect(tasks)'
    BY <2>4 DEF OneConnect
  <2>6. ~Has(reports, "connected") /\ ~Has(unsent, "connected")
    <3>1. 1..Len(reports) = {} /\ 1..Len(unsent) = {}
      BY <2>1, EmptySeq, LenProperties DEF Quiet
    <3> QED
      BY <3>1 DEF Has
  <2> QED
    BY <1>2, <1>3, <2>1, <2>5, <2>6 DEF Quiet
<1>7. CASE showDisconnectDialogVPN
  BY <1>4, <1>5, <1>7 DEF showDisconnectDialogVPN
<1>8. CASE logoutUser
  <2>1. [kind |-> "logout", by |-> activity] \in Task /\ tasks \in Seq(Task)
    BY DEF TypeOK, Task
  <2>2. PICK t \in Task : t.kind = "logout" /\ tasks' = Append(tasks, t)
    BY <1>8, <2>1 DEF logoutUser
  <2>3. OneConnect(tasks') /\ (Has(tasks', "connect") => Has(tasks, "connect"))
    BY <2>1, <2>2, OneConnectAppend, AppendHas
  <2> QED
    BY <1>5, <2>3
<1> QED
  BY <1>1, <1>6, <1>7, <1>8 DEF UI

LEMMA ApartExecutor ==
  ASSUME TypeOK, SeenUsed, Apart, Executor
  PROVE  Apart'
<1> USE DEF Apart, OneUp, OneStart, StartsUntold, ChosenIsNew, Starting, HubFree, Created,
            sessionVars, serviceVars, hubVars, uiVars, taskVars, prefVars, recordVars, history
<1>1. ASSUME UNCHANGED <<reports, unsent>>
      PROVE  Has(unsent, "connected")' = Has(unsent, "connected")
             /\ Has(reports, "connected")' = Has(reports, "connected")
  BY <1>1 DEF Has
<1>2. ASSUME UNCHANGED tasks
      PROVE  OneConnect(tasks)' /\ Has(tasks, "connect")' = Has(tasks, "connect")
  BY <1>2 DEF OneConnect, Has
<1>3. ASSUME NEW kind, Takes(kind)
      PROVE  /\ OneConnect(tasks)' /\ (Has(tasks, "connect")' => Has(tasks, "connect"))
             /\ kind = "connect" => Has(tasks, "connect") /\ ~Has(tasks, "connect")'
             /\ running = "none"
             /\ UNCHANGED <<session, exiting, sticky, lastSent, unsent, reports, posting>>
             /\ UNCHANGED <<serverUuid, recordState, recordOf>>
  <2>1. /\ tasks \in Seq(Task) /\ tasks # <<>> /\ tasks' = Tail(tasks)
        /\ Head(tasks).kind = kind
    BY <1>3 DEF Takes, TypeOK
  <2>2. /\ OneConnect(Tail(tasks)) /\ (kind = "connect" => ~Has(Tail(tasks), "connect"))
        /\ Has(Tail(tasks), "connect") => Has(tasks, "connect")
        /\ Has(tasks, kind)
    BY <2>1, TailHas, OneConnectTail
  <2>3. /\ OneConnect(tasks)' = OneConnect(tasks') /\ Has(tasks, "connect")' = Has(tasks', "connect")
    BY DEF OneConnect, Has
  <2> QED
    BY <1>3, <2>1, <2>2, <2>3 DEF Takes
<1>4. CASE ConnectTask \/ SkipTask \/ AfterDisconnectVPNTask \/ LogoutTask
  BY <1>1, <1>3, <1>4 DEF ConnectTask, SkipTask, AfterDisconnectVPNTask, LogoutTask
<1>5. CASE ChooseServer
  <2>1. NewSession \in Sessions /\ NewSession \notin used
    BY <1>5 DEF ChooseServer, NewSession
  <2>2. \A r \in Records : recordOf[r] # NewSession
    BY <2>1, NoneAssumption DEF SeenUsed, Seen
  <2> QED
    BY <1>1, <1>2, <1>5, <2>1, <2>2 DEF ChooseServer
<1>6. CASE ConnectRefused \/ deleteUserSettings
  BY <1>1, <1>2, <1>6 DEF ConnectRefused, deleteUserSettings
<1>7. CASE ConnectFails
  <2>1. OneConnect(tasks') /\ (Has(tasks', "connect") => Has(tasks, "connect"))
    BY <1>7, OneConnectClose DEF ConnectFails
  <2>2. OneConnect(tasks)' /\ (Has(tasks, "connect")' => Has(tasks, "connect"))
    BY <2>1 DEF OneConnect, Has
  <2> QED
    BY <1>1, <1>7, <2>2 DEF ConnectFails
<1>8. CASE StartSession
  <2>1. /\ Starting /\ session = None /\ exiting' = {} /\ ~sticky' /\ running' = "none"
        /\ UNCHANGED <<tasks, posting>> /\ ~Has(tasks, "connect")
    BY <1>8 DEF StartSession
  <2>2. lastSent'.kind = "connecting"
    BY <1>8, SendsType DEF StartSession, Level, TypeOK
  <2> QED
    BY <1>2, <2>1, <2>2
<1>9. CASE afterDisconnectVPN \/ afterDisconnectVPNFails
  BY <1>1, <1>2, <1>9 DEF afterDisconnectVPN, afterDisconnectVPNFails, CloseDone
<1> QED
  BY <1>4, <1>5, <1>6, <1>7, <1>8, <1>9 DEF Executor

(* What the queues' operations keep of it: fewer sessions or a new one, *)
LEMMA EndsOthers ==
  ASSUME NEW q, NEW kept, NEW up, NEW fewer, NEW now, EndsPart(q, kept, up),
         \A s \in fewer : s \in kept,
         \A s \in now : s \in up \/ (s \notin fewer /\ ~Said(q, s))
  PROVE  EndsPart(q, fewer, now)
BY DEF EndsPart, Said

(* a message that is added, *)
LEMMA EndsAppend ==
  ASSUME NEW q \in Seq(Report), NEW t \in Report, NEW kept, NEW up, NEW now,
         EndsPart(q, kept, up),
         t.kind = "connected" => t.of \in up,
         t.kind = "notconnected" => now = {},
         \A s \in now : s \in up \/ (s \notin kept /\ ~Said(q, s))
  PROVE  EndsPart(Append(q, t), kept, now)
<1> DEFINE n == Append(q, t)
<1>1. /\ Len(q) \in Nat /\ Len(n) = Len(q) + 1 /\ n[Len(q) + 1] = t
      /\ \A i \in 1..Len(q) : n[i] = q[i]
  BY AppendProperties, LenProperties
<1> HIDE DEF n
<1> SUFFICES ASSUME NEW j \in 1..Len(n), n[j].kind = "notconnected", NEW s \in Session,
                    s \in kept \/ \E i \in 1..Len(n) : i < j /\ Says(n[i], s)
             PROVE  s \notin now /\ ~\E k \in 1..Len(n) : j < k /\ Says(n[k], s)
  BY DEF EndsPart, n
<1>2. CASE j = Len(q) + 1
  <2>1. now = {}
    BY <1>1, <1>2
  <2>2. \A k \in 1..Len(n) : ~(j < k)
    BY <1>1, <1>2
  <2> QED
    BY <2>1, <2>2
<1>3. CASE j \in 1..Len(q)
  <2>1. s \in kept \/ \E i \in 1..Len(q) : i < j /\ Says(q[i], s)
    <3>1. ASSUME NEW i \in 1..Len(n), i < j PROVE i \in 1..Len(q) /\ n[i] = q[i]
      BY <1>1, <1>3, <3>1
    <3> QED
      BY <3>1
  <2>2. s \notin up /\ ~\E k \in 1..Len(q) : j < k /\ Says(q[k], s)
    BY <1>1, <1>3, <2>1 DEF EndsPart
  <2>3. s \notin now
    BY <2>1, <2>2 DEF Said
  <2>4. ASSUME NEW k \in 1..Len(n), j < k, Says(n[k], s) PROVE FALSE
    <3>1. CASE k = Len(q) + 1
      BY <1>1, <2>2, <2>4, <3>1 DEF Says
    <3>2. CASE k \in 1..Len(q)
      BY <1>1, <2>2, <2>4, <3>2
    <3> QED
      BY <1>1, <3>1, <3>2
  <2> QED
    BY <2>3, <2>4
<1> QED
  BY <1>1, <1>2, <1>3

(* one that is taken, *)
LEMMA EndsTail ==
  ASSUME NEW q \in Seq(Report), q # <<>>, NEW kept, NEW up, NEW now, EndsPart(q, kept, up),
         \A s \in now : s \in kept \/ Says(Head(q), s)
  PROVE  /\ EndsPart(Tail(q), now, up)
         /\ Head(q).kind = "notconnected" =>
              \A s \in Session : s \in kept => s \notin up /\ ~Said(Tail(q), s)
<1>1. /\ Head(q) = q[1] /\ 1 \in 1..Len(q) /\ Len(Tail(q)) \in Nat
      /\ \A i \in 1..Len(Tail(q)) :
           i \in Nat /\ i # 0 /\ i + 1 \in 1..Len(q) /\ Tail(q)[i] = q[i + 1]
  <2>1. Head(q) = q[1] /\ Len(q) \in Nat /\ Len(q) # 0 /\ Len(Tail(q)) = Len(q) - 1
    BY HeadTailProperties, LenProperties, EmptySeq
  <2> QED
    BY <2>1, TailHas
<1>2. ASSUME NEW j \in 1..Len(Tail(q)), Tail(q)[j].kind = "notconnected", NEW s \in Session,
             s \in now \/ \E i \in 1..Len(Tail(q)) : i < j /\ Says(Tail(q)[i], s)
      PROVE  s \notin up /\ ~\E k \in 1..Len(Tail(q)) : j < k /\ Says(Tail(q)[k], s)
  <2>1. j + 1 \in 1..Len(q) /\ q[j + 1].kind = "notconnected"
    BY <1>1, <1>2
  <2>2. s \in kept \/ \E i \in 1..Len(q) : i < j + 1 /\ Says(q[i], s)
    <3>1. CASE s \in now
      <4>1. 1 < j + 1
        BY <1>1
      <4> QED
        BY <1>1, <3>1, <4>1
    <3>2. ASSUME NEW i \in 1..Len(Tail(q)), i < j, Says(Tail(q)[i], s)
          PROVE  i + 1 \in 1..Len(q) /\ i + 1 < j + 1 /\ Says(q[i + 1], s)
      BY <1>1, <3>2
    <3> QED
      BY <1>2, <3>1, <3>2
  <2>3. s \notin up /\ ~\E k \in 1..Len(q) : j + 1 < k /\ Says(q[k], s)
    BY <2>1, <2>2 DEF EndsPart
  <2>4. ASSUME NEW k \in 1..Len(Tail(q)), j < k, Says(Tail(q)[k], s) PROVE FALSE
    <3>1. k + 1 \in 1..Len(q) /\ j + 1 < k + 1 /\ Says(q[k + 1], s)
      BY <1>1, <2>4
    <3> QED
      BY <2>3, <3>1
  <2> QED
    BY <2>3, <2>4
<1>3. ASSUME Head(q).kind = "notconnected", NEW s \in Session, s \in kept
      PROVE  s \notin up /\ ~Said(Tail(q), s)
  <2>1. s \notin up /\ ~\E k \in 1..Len(q) : 1 < k /\ Says(q[k], s)
    BY <1>1, <1>3 DEF EndsPart
  <2>2. ASSUME NEW k \in 1..Len(Tail(q)), Says(Tail(q)[k], s) PROVE FALSE
    <3>1. k + 1 \in 1..Len(q) /\ 1 < k + 1 /\ Says(q[k + 1], s)
      BY <1>1, <2>2
    <3> QED
      BY <2>1, <3>1
  <2> QED
    BY <2>1, <2>2 DEF Said
<1> QED
  BY <1>2, <1>3 DEF EndsPart

(* a queue of which only a part is left, *)
LEMMA EndsPartOf ==
  ASSUME NEW q \in Seq(Report), NEW i \in 1..(Len(q) + 1), NEW k \in 0..Len(q),
         i = 1 \/ k = Len(q), NEW kept, NEW up, EndsPart(q, kept, up)
  PROVE  EndsPart(SubSeq(q, i, k), kept, up)
<1> DEFINE p == SubSeq(q, i, k)
<1>1. /\ p \in Seq(Report) /\ Len(p) = k - i + 1 /\ Len(q) \in Nat
      /\ \A j \in 1..Len(p) : i + j - 1 \in 1..Len(q) /\ p[j] = q[i + j - 1]
  BY PartOf, LenProperties
<1> HIDE DEF p
<1>2. ASSUME NEW j \in 1..Len(p), p[j].kind = "notconnected", NEW s \in Session,
             s \in kept \/ \E h \in 1..Len(p) : h < j /\ Says(p[h], s)
      PROVE  s \notin up /\ ~\E l \in 1..Len(p) : j < l /\ Says(p[l], s)
  <2>1. i + j - 1 \in 1..Len(q) /\ q[i + j - 1].kind = "notconnected"
    BY <1>1, <1>2
  <2>2. ASSUME NEW h \in 1..Len(p), h < j, Says(p[h], s)
        PROVE  i + h - 1 \in 1..Len(q) /\ i + h - 1 < i + j - 1 /\ Says(q[i + h - 1], s)
    BY <1>1, <2>2
  <2>3. s \notin up /\ ~\E l \in 1..Len(q) : i + j - 1 < l /\ Says(q[l], s)
    BY <1>2, <2>1, <2>2 DEF EndsPart
  <2>4. ASSUME NEW l \in 1..Len(p), j < l, Says(p[l], s) PROVE FALSE
    <3>1. i + l - 1 \in 1..Len(q) /\ i + j - 1 < i + l - 1 /\ Says(q[i + l - 1], s)
      BY <1>1, <2>4
    <3> QED
      BY <2>3, <3>1
  <2> QED
    BY <2>3, <2>4
<1> QED
  BY <1>2 DEF EndsPart, p

(* and a message put before what is left, unless it is about a session that ends there. *)
LEMMA EndsPrepend ==
  ASSUME NEW q \in Seq(Report), NEW t \in Report, NEW up, EndsPart(q, {}, up),
         t.kind = "connected" => ~Has(q, "notconnected")
  PROVE  /\ EndsPart(<<t>> \o q, {}, up)
         /\ \A s : Said(<<t>> \o q, s) => Says(t, s) \/ Said(q, s)
<1> DEFINE p == <<t>> \o q
<1>1. /\ p \in Seq(Report) /\ Len(p) = Len(q) + 1 /\ p[1] = t /\ Len(q) \in Nat
      /\ \A j \in 1..Len(p) : j # 1 => j - 1 \in 1..Len(q) /\ p[j] = q[j - 1]
  BY Prepended, LenProperties
<1> HIDE DEF p
<1>2. ASSUME NEW s, Said(p, s) PROVE Says(t, s) \/ Said(q, s)
  BY <1>1, <1>2 DEF Said
<1>3. ASSUME NEW j \in 1..Len(p), p[j].kind = "notconnected", NEW s \in Session,
             NEW i \in 1..Len(p), i < j, Says(p[i], s)
      PROVE  s \notin up /\ ~\E k \in 1..Len(p) : j < k /\ Says(p[k], s)
  <2>1. j # 1 /\ j - 1 \in 1..Len(q) /\ q[j - 1].kind = "notconnected"
    BY <1>1, <1>3
  <2>2. i # 1
    <3>1. Has(q, "notconnected")
      BY <2>1 DEF Has
    <3> QED
      BY <1>1, <1>3, <3>1 DEF Says
  <2>3. i - 1 \in 1..Len(q) /\ i - 1 < j - 1 /\ Says(q[i - 1], s)
    BY <1>1, <1>3, <2>2
  <2>4. s \notin up /\ ~\E k \in 1..Len(q) : j - 1 < k /\ Says(q[k], s)
    BY <2>1, <2>3 DEF EndsPart
  <2>5. ASSUME NEW k \in 1..Len(p), j < k, Says(p[k], s) PROVE FALSE
    <3>1. k # 1
      BY <2>5
    <3>2. k - 1 \in 1..Len(q) /\ j - 1 < k - 1 /\ Says(q[k - 1], s)
      BY <1>1, <2>5, <3>1
    <3> QED
      BY <2>4, <3>2
  <2> QED
    BY <2>4, <2>5
<1>4. EndsPart(p, {}, up)
  BY <1>3 DEF EndsPart
<1> QED
  BY <1>2, <1>4 DEF p

(* Two queues, of which the second tells of other sessions than the first. *)
LEMMA EndsJoin ==
  ASSUME NEW q \in Seq(Report), NEW p \in Seq(Report), NEW kept, NEW up,
         EndsPart(q, kept, up), EndsPart(p, {}, up),
         \A s \in Session : s \in kept \/ Said(q, s) => s \notin up /\ ~Said(p, s)
  PROVE  EndsPart(q \o p, kept, up)
<1> DEFINE n == q \o p
<1>1. /\ Len(q) \in Nat /\ Len(p) \in Nat /\ Len(n) = Len(q) + Len(p)
      /\ \A i \in 1..Len(n) : n[i] = IF i <= Len(q) THEN q[i] ELSE p[i - Len(q)]
  BY ConcatProperties, LenProperties
<1> HIDE DEF n
<1>2. ASSUME NEW i \in 1..Len(n)
      PROVE  /\ i <= Len(q) => i \in 1..Len(q) /\ n[i] = q[i]
             /\ ~(i <= Len(q)) => i - Len(q) \in 1..Len(p) /\ n[i] = p[i - Len(q)]
  BY <1>1, <1>2
<1>3. ASSUME NEW j \in 1..Len(n), n[j].kind = "notconnected", NEW s \in Session,
             s \in kept \/ \E i \in 1..Len(n) : i < j /\ Says(n[i], s)
      PROVE  s \notin up /\ ~\E k \in 1..Len(n) : j < k /\ Says(n[k], s)
  <2>1. CASE j <= Len(q)
    <3>1. s \in kept \/ \E i \in 1..Len(q) : i < j /\ Says(q[i], s)
      <4>1. ASSUME NEW i \in 1..Len(n), i < j PROVE i <= Len(q)
        BY <1>1, <2>1, <4>1
      <4> QED
        BY <1>2, <1>3, <4>1
    <3>2. s \notin up /\ (~\E k \in 1..Len(q) : j < k /\ Says(q[k], s)) /\ ~Said(p, s)
      BY <1>2, <1>3, <2>1, <3>1 DEF EndsPart, Said
    <3> QED
      BY <1>2, <3>2 DEF Said
  <2>2. CASE ~(j <= Len(q))
    <3>1. ASSUME NEW k \in 1..Len(n), j < k PROVE ~(k <= Len(q)) /\ j - Len(q) < k - Len(q)
      BY <1>1, <2>2, <3>1
    <3>2. CASE s \in kept \/ Said(q, s)
      <4>1. s \notin up /\ ~Said(p, s)
        BY <3>2
      <4> QED
        BY <1>2, <3>1, <4>1 DEF Said
    <3>3. CASE s \notin kept /\ ~Said(q, s)
      <4>1. PICK i \in 1..Len(n) : i < j /\ Says(n[i], s)
        BY <1>3, <3>3
      <4>2. ~(i <= Len(q))
        BY <1>2, <3>3, <4>1 DEF Said
      <4>3. i - Len(q) \in 1..Len(p) /\ i - Len(q) < j - Len(q) /\ Says(p[i - Len(q)], s)
        BY <1>1, <1>2, <4>1, <4>2
      <4>4. j - Len(q) \in 1..Len(p) /\ p[j - Len(q)].kind = "notconnected"
        BY <1>2, <1>3, <2>2
      <4>5. s \notin up /\ ~\E k \in 1..Len(p) : j - Len(q) < k /\ Says(p[k], s)
        BY <4>3, <4>4 DEF EndsPart
      <4> QED
        BY <1>2, <3>1, <4>5
    <3> QED
      BY <3>2, <3>3
  <2> QED
    BY <2>1, <2>2
<1> QED
  BY <1>3 DEF EndsPart, n

(* Steps that make no record leave what is kept. *)
LEMMA KeptSame ==
  ASSUME UNCHANGED <<recordOf, posting>>, \A r \in Records : Created(r)' = Created(r)
  PROVE  Kept' = Kept
<1>1. \A s : Recorded(s)' = Recorded(s)
  BY SameRecords
<1> QED
  BY <1>1 DEF Kept

Newly(s) == s \notin Kept /\ ~Said(reports, s) /\ ~Said(unsent, s)

(* Once, from its parts in the next state. *)
LEMMA OnceNext ==
  ASSUME Remembered', PostingNew', ReconnectCreatesNoRecord',
         EndsPart(reports', Kept', Up'), EndsPart(unsent', {}, Up'),
         unsent' # <<>> =>
           \A s \in Session : s \in Kept' \/ Said(reports', s) => s \notin Up' /\ ~Said(unsent', s)
  PROVE  Once'
<1>1. EndsPart(reports, Kept, Up)' /\ EndsPart(unsent, {}, Up)'
  BY DEF EndsPart, Says
<1>2. UnsentNew'
  BY DEF UnsentNew, Said, Says
<1> QED
  BY <1>1, <1>2 DEF Once

LEMMA EmptyParts ==
  ASSUME NEW kept, NEW up
  PROVE  EndsPart(<<>>, kept, up) /\ \A s : ~Said(<<>>, s)
<1>1. 1..Len(<<>>) = {}
  BY EmptySeq, LenProperties
<1> QED
  BY <1>1 DEF EndsPart, Said

(* A message about the session that is up, at the end of the queue it belongs to. *)
LEMMA OnceSaid ==
  ASSUME TypeOK, Once, NEW t \in Report,
         \/ unsent = <<>> /\ reports' = Append(reports, t) /\ unsent' = <<>>
         \/ unsent # <<>> /\ unsent' = Append(unsent, t) /\ reports' = reports,
         UNCHANGED <<posting, wasConnected, activity, recordState, recordOf>>,
         t.kind = "connected" => session # None /\ t.of = session,
         t.kind = "notconnected" => session' = None,
         session' \in {session, None} \/ Newly(session')
  PROVE  Once'
<1>1. /\ \A s : Recorded(s)' = Recorded(s)
      /\ ReconnectCreatesNoRecord'
  BY SameRecords DEF Once, Created
<1>2. Kept' = Kept
  BY KeptSame DEF Created
<1>3. PostingNew'
  BY <1>1 DEF Once, PostingNew
<1>4. /\ t.kind = "connected" => t.of \in Up
      /\ t.kind = "notconnected" => Up' = {}
      /\ \A s \in Up' : s \in Up \/ (s \notin Kept /\ ~Said(reports, s) /\ ~Said(unsent, s))
  BY DEF Up, Newly
<1>5. reports \in Seq(Report) /\ unsent \in Seq(Report)
  BY DEF TypeOK
<1>6. EndsPart(reports', Kept', Up')
  <2>1. EndsPart(reports, Kept, Up)
    BY DEF Once
  <2>2. EndsPart(reports, Kept, Up')
    BY <1>4, <2>1, EndsOthers
  <2>3. EndsPart(Append(reports, t), Kept, Up')
    BY <1>4, <1>5, <2>1, EndsAppend
  <2> QED
    BY <1>2, <2>2, <2>3
<1>7. EndsPart(unsent', {}, Up')
  <2>1. EndsPart(unsent, {}, Up)
    BY DEF Once
  <2>2. CASE unsent' = <<>>
    BY <2>2, EmptyParts
  <2>3. CASE unsent' = Append(unsent, t)
    BY <1>4, <1>5, <2>1, <2>3, EndsAppend
  <2> QED
    BY <2>2, <2>3
<1>8. ASSUME NEW q \in Seq(Report), NEW s, Said(Append(q, t), s) PROVE Said(q, s) \/ Says(t, s)
  BY <1>8, AppendHas DEF Said
<1>9. ASSUME unsent' # <<>>, NEW s \in Session, s \in Kept' \/ Said(reports', s)
      PROVE  s \notin Up' /\ ~Said(unsent', s)
  <2>1. unsent # <<>> /\ unsent' = Append(unsent, t) /\ reports' = reports
    BY <1>9
  <2>2. s \notin Up /\ ~Said(unsent, s)
    BY <1>2, <1>9, <2>1 DEF Once, UnsentNew
  <2>3. s \notin Up'
    BY <1>2, <1>4, <1>9, <2>1, <2>2
  <2>4. ~Says(t, s)
    BY <1>4, <2>2 DEF Says
  <2> QED
    BY <1>5, <1>8, <2>1, <2>2, <2>3, <2>4
<1>10. ASSUME session' # None, NEW r \in Records, Created(r)', recordOf'[r] = session'
       PROVE  wasConnected'[activity']
  <2>1. Recorded(session')
    BY <1>10 DEF Recorded, Created
  <2>2. session' \in Session
    BY <1>10 DEF TypeOK
  <2>3. session' = session
    BY <1>10, <2>1, <2>2 DEF Newly, Kept
  <2> QED
    BY <1>10, <2>1, <2>3 DEF Once, Remembered
<1>11. ASSUME NEW i \in 1..Len(reports'), reports'[i].kind = "connected",
              NEW r \in Records, Created(r)', recordOf'[r] = reports'[i].of
       PROVE  wasConnected'[activity']
  <2>1. Recorded(reports'[i].of)
    BY <1>11 DEF Recorded, Created
  <2>2. CASE reports'[i] = t
    BY <1>11, <2>1, <2>2 DEF Once, Remembered
  <2>3. CASE i \in 1..Len(reports) /\ reports'[i] = reports[i]
    BY <1>11, <2>1, <2>3 DEF Once, Remembered
  <2> QED
    BY <1>5, <2>2, <2>3, AppendHas
<1>12. Remembered'
  BY <1>10, <1>11 DEF Remembered, Recorded
<1> QED
  BY <1>1, <1>3, <1>6, <1>7, <1>9, <1>12, OnceNext

LEMMA OnceSends ==
  ASSUME TypeOK, Once, NEW kind \in Level \cup {"retry"}, NEW s \in Session, Sends(kind, s),
         UNCHANGED <<posting, wasConnected, activity, recordState, recordOf>>,
         kind = "connected" => session # None /\ s = session,
         kind = "notconnected" => session' = None,
         session' \in {session, None} \/ Newly(session')
  PROVE  Once'
<1>1. /\ lastSent' \in Report /\ lastSent'.kind = kind
      /\ kind = "connected" => lastSent'.of = session
      /\ \/ unsent = <<>> /\ reports' = Append(reports, lastSent') /\ unsent' = <<>>
         \/ unsent # <<>> /\ unsent' = Append(unsent, lastSent') /\ reports' = reports
  BY SendsType
<1> QED
  BY <1>1, OnceSaid

(* A session that is over is not reported as connected; one that a new process *)
(* starts has not been before.                                                 *)
LEMMA OnceService ==
  ASSUME TypeOK, SeenUsed, Apart, Once, Service, "lag" \notin disturbed'
  PROVE  Once'
<1> USE DEF sessionVars, serviceVars, hubVars, uiVars, taskVars, prefVars, recordVars, history
<1>1. UNCHANGED <<posting, wasConnected, activity, recordState, recordOf>>
  BY DEF Service, Reports, ReportsBytes, SessionEnds, ProcessExits, ServiceProcessDies,
         StickyStart, ServiceConnected
<1>2. /\ \A s : Recorded(s)' = Recorded(s)
      /\ ReconnectCreatesNoRecord' /\ PostingNew'
      /\ Kept' = Kept
  <2>1. /\ \A s : Recorded(s)' = Recorded(s)
        /\ ReconnectCreatesNoRecord'
    BY <1>1, SameRecords DEF Once, Created
  <2>2. Kept' = Kept
    BY <1>1, KeptSame DEF Created
  <2> QED
    BY <1>1, <2>1, <2>2 DEF Once, PostingNew
<1>3. ASSUME NEW kind \in {"connected", "connecting", "retry", "waiting"}, Reports(kind)
      PROVE  Once'
  BY <1>1, <1>3, OnceSends DEF Reports, Level, TypeOK
<1>4. CASE ReportsBytes
  <2>1. [kind |-> "bytes", of |-> session] \in Report
    BY DEF Report, TypeOK
  <2>2. PICK t \in Report : t.kind = "bytes" /\ reports' = Append(reports, t)
    BY <1>4, <2>1 DEF ReportsBytes
  <2> QED
    BY <1>1, <1>4, <2>2, OnceSaid DEF ReportsBytes
<1>5. CASE SessionEnds
  BY <1>1, <1>5, OnceSends DEF SessionEnds, Level, TypeOK
<1>6. ASSUME NEW s \in Sessions, ProcessExits(s)
      PROVE  Once'
  <2>1. session = None /\ session' = None
    BY <1>6 DEF ProcessExits, Apart, OneUp
  <2> QED
    BY <1>1, <1>6, <2>1, OnceSends DEF ProcessExits, Level, Session
<1>7. CASE ServiceProcessDies
  <2>1. session' = None /\ Up' = {}
    BY <1>7 DEF ServiceProcessDies, Up
  <2>2. PICK k \in 0..Len(reports) : reports' = SubSeq(reports, 1, k)
    BY <1>7 DEF ServiceProcessDies
  <2>3. reports \in Seq(Report) /\ 1 \in 1..(Len(reports) + 1)
    BY LenProperties DEF TypeOK
  <2>4. EndsPart(reports, Kept, {})
    BY EndsOthers DEF Once
  <2>5. EndsPart(reports', Kept', Up')
    BY <1>2, <2>1, <2>2, <2>3, <2>4, EndsPartOf
  <2>6. \A i \in 1..Len(reports') : \E j \in 1..Len(reports) : reports'[i] = reports[j]
    BY <1>7, DiesReports
  <2>7. \A s : ~Said(unsent', s)
    BY <1>7, DiesReports DEF Said, Says, NotConnected
  <2>8. EndsPart(unsent', {}, Up')
    BY <2>1, <2>7 DEF EndsPart, Said
  <2>9. ASSUME NEW i \in 1..Len(reports'), reports'[i].kind = "connected",
               NEW r \in Records, Created(r)', recordOf'[r] = reports'[i].of
        PROVE  wasConnected'[activity']
    <3>1. Recorded(reports'[i].of)
      BY <1>1, <2>9 DEF Recorded, Created
    <3> QED
      BY <1>1, <2>6, <2>9, <3>1 DEF Once, Remembered
  <2>10. Remembered'
    BY <2>1, <2>9 DEF Remembered, Recorded
  <2> QED
    BY <1>2, <2>1, <2>5, <2>7, <2>8, <2>10, OnceNext
<1>8. CASE StickyStart
  <2>1. session' \in {session, None} \/ Newly(session')
    <3>1. CASE session' = NewSession /\ ~(Sessions \subseteq used)
      <4>1. NewSession \in Sessions /\ NewSession \notin Seen
        BY <3>1, NoneAssumption DEF NewSession, Seen
      <4>2. \A s \in Kept : s \in Seen
        BY DEF SeenUsed, Kept, Recorded
      <4>3. \A s : Said(reports, s) \/ Said(unsent, s) => s \in Seen
        BY DEF SeenUsed, Said, Says
      <4> QED
        BY <3>1, <4>1, <4>2, <4>3 DEF Newly
    <3> QED
      BY <1>8, <3>1 DEF StickyStart
  <2>2. None \in Session /\ Sends("connecting", None)
    BY <1>8 DEF StickyStart, Session
  <2> QED
    BY <1>1, <2>1, <2>2, OnceSends DEF Level
<1>9. CASE ServiceConnected
  <2>1. PICK k \in 1..(Len(unsent) + 1) :
          LET rest == SubSeq(unsent, k, Len(unsent))
              lags == /\ lastSent.kind = "connected"
                      /\ \E j \in 1..Len(rest) : rest[j].kind = "notconnected"
          IN  /\ reports' = reports \o <<lastSent>> \o rest
              /\ disturbed' = IF lags THEN disturbed \cup {"lag"} ELSE disturbed
    BY <1>9 DEF ServiceConnected
  <2> DEFINE rest == SubSeq(unsent, k, Len(unsent))
             new == <<lastSent>> \o rest
  <2>2. lastSent.kind = "connected" => ~Has(rest, "notconnected")
    BY <2>1 DEF Has
  <2>3. /\ reports \in Seq(Report) /\ unsent \in Seq(Report) /\ lastSent \in Report
        /\ Len(unsent) \in 0..Len(unsent) /\ Len(unsent) \in Nat
    BY LenProperties DEF TypeOK
  <2>4. /\ rest \in Seq(Report) /\ EndsPart(rest, {}, Up)
        /\ \A s : Said(rest, s) => Said(unsent, s)
    <3>1. /\ rest \in Seq(Report)
          /\ \A j \in 1..Len(rest) : k + j - 1 \in 1..Len(unsent) /\ rest[j] = unsent[k + j - 1]
      BY <2>3, PartOf
    <3>2. EndsPart(rest, {}, Up)
      BY <2>3, EndsPartOf DEF Once
    <3>3. \A s : Said(rest, s) => Said(unsent, s)
      <4> HIDE DEF rest
      <4> QED
        BY <3>1 DEF Said
    <3> QED
      BY <3>1, <3>2, <3>3
  <2>5. reports' = reports \o new
    <3>1. reports' = (reports \o <<lastSent>>) \o rest
      BY <2>1
    <3>2. <<lastSent>> \in Seq(Report)
      <4>1. <<lastSent>> \in [1..1 -> Report]
        BY <2>3
      <4> QED
        BY <4>1, SeqDef
    <3> HIDE DEF rest
    <3>3. (reports \o <<lastSent>>) \o rest = reports \o (<<lastSent>> \o rest)
      BY <2>3, <2>4, <3>2, ConcatAssociative
    <3> QED
      BY <3>1, <3>3
  <2> HIDE DEF rest
  <2>6. /\ new \in Seq(Report) /\ EndsPart(new, {}, Up)
        /\ \A s : Said(new, s) => Says(lastSent, s) \/ Said(unsent, s)
    <3>1. new \in Seq(Report)
      BY <2>3, <2>4, Prepended
    <3>2. EndsPart(new, {}, Up) /\ \A s : Said(new, s) => Says(lastSent, s) \/ Said(rest, s)
      BY <2>2, <2>3, <2>4, EndsPrepend
    <3> QED
      BY <2>4, <3>1, <3>2
  <2> HIDE DEF new
  <2>7. unsent # <<>> /\ unsent' = <<>> /\ UNCHANGED session /\ Up' = Up
    BY <1>9 DEF ServiceConnected, Up
  <2>8. \A s \in Session : Says(lastSent, s) => s \in Up
    BY DEF Apart, OneUp, Says, Up
  <2>9. \A s \in Session : s \in Kept \/ Said(reports, s) => s \notin Up /\ ~Said(new, s)
    BY <2>6, <2>7, <2>8 DEF Once, UnsentNew
  <2>10. EndsPart(reports', Kept', Up')
    <3>1. EndsPart(reports \o new, Kept, Up)
      BY <2>3, <2>6, <2>9, EndsJoin DEF Once
    <3> QED
      BY <1>2, <2>5, <2>7, <3>1
  <2>11. EndsPart(unsent', {}, Up')
    BY <2>7, EmptyParts
  <2>12. ASSUME session' # None, NEW r \in Records, Created(r)', recordOf'[r] = session'
         PROVE  wasConnected'[activity']
    <3>1. session # None /\ Recorded(session)
      BY <1>1, <2>7, <2>12 DEF Recorded, Created
    <3> QED
      BY <1>1, <3>1 DEF Once, Remembered
  <2>13. ASSUME NEW i \in 1..Len(reports'), reports'[i].kind = "connected",
                NEW r \in Records, Created(r)', recordOf'[r] = reports'[i].of
         PROVE  wasConnected'[activity']
    <3>1. Recorded(reports'[i].of)
      BY <1>1, <2>13 DEF Recorded, Created
    <3>2. CASE \E j \in 1..Len(reports) : reports'[i] = reports[j]
      BY <1>1, <2>13, <3>1, <3>2 DEF Once, Remembered
    <3>3. CASE reports'[i] = lastSent \/ \E j \in 1..Len(unsent) : reports'[i] = unsent[j]
      <4>1. reports'[i].of \in Session
        <5>1. reports'[i] \in Report
          BY <2>3, <3>3, ElementOfSeq
        <5> QED
          BY <5>1 DEF Report
      <4>2. reports'[i].of \in Kept
        BY <3>1, <4>1 DEF Kept
      <4>3. reports'[i].of \in Up \/ Said(unsent, reports'[i].of)
        BY <2>8, <2>13, <3>3, <4>1 DEF Said, Says
      <4> QED
        BY <2>7, <4>1, <4>2, <4>3 DEF Once, UnsentNew
    <3> QED
      BY <1>9, <3>2, <3>3, ConnectedReports
  <2>14. Remembered'
    BY <2>12, <2>13 DEF Remembered, Recorded
  <2> QED
    BY <1>2, <2>7, <2>10, <2>11, <2>14, OnceNext
<1> QED
  BY <1>3, <1>4, <1>5, <1>6, <1>7, <1>8, <1>9 DEF Service

(* Steps that touch neither the reports nor the listener, and make no record. *)
LEMMA OnceElsewhere ==
  ASSUME Once,
         UNCHANGED <<session, reports, unsent, posting, wasConnected, activity, recordOf>>,
         \A r \in Records : Created(r)' = Created(r)
  PROVE  Once'
<1>1. /\ \A s : Recorded(s)' = Recorded(s)
      /\ ReconnectCreatesNoRecord'
  BY SameRecords DEF Once
<1>2. Kept' = Kept /\ Up' = Up
  BY KeptSame DEF Up
<1>3. Remembered' /\ PostingNew'
  <2>1. \A r \in Records : recordOf'[r] = recordOf[r]
    OBVIOUS
  <2> QED
    BY <2>1 DEF Once, Remembered, PostingNew, Recorded
<1> QED
  BY <1>1, <1>2, <1>3, OnceNext DEF Once, UnsentNew

(* The listener creates a record for a session that has none, and remembers it. *)
LEMMA OnceHub ==
  ASSUME TypeOK, Once, Hub
  PROVE  Once'
<1> USE DEF sessionVars, serviceVars, hubVars, uiVars, taskVars, prefVars, recordVars, history
<1>1. UNCHANGED <<session, unsent, activity>> /\ Up' = Up
  BY DEF Hub, onConnect, createConnection, createConnectionFails, ConnectedDone, Disconnected,
         onChangeStatus, updateByteCount, Up
<1>2. EndsPart(unsent', {}, Up')
  BY <1>1 DEF Once
<1>3. ASSUME NEW kind, Receives(kind)
      PROVE  /\ reports \in Seq(Report) /\ reports # <<>> /\ reports' = Tail(reports)
             /\ Head(reports).kind = kind /\ posting = NoPost /\ Head(reports) \in Report
             /\ \A i \in 1..Len(reports') : \E j \in 1..Len(reports) : reports'[i] = reports[j]
             /\ \E j \in 1..Len(reports) : Head(reports) = reports[j]
             /\ \A s : Said(reports', s) => Said(reports, s)
             /\ kind = "notconnected" =>
                  \A s \in Session : s \in Kept => s \notin Up /\ ~Said(reports', s)
  <2>1. reports \in Seq(Report) /\ reports # <<>> /\ reports' = Tail(reports)
        /\ Head(reports).kind = kind /\ posting = NoPost
    BY <1>3 DEF Receives, HubFree, TypeOK
  <2>2. /\ Head(reports) \in Report
        /\ \A i \in 1..Len(reports') : \E j \in 1..Len(reports) : reports'[i] = reports[j]
        /\ \E j \in 1..Len(reports) : Head(reports) = reports[j]
    BY <2>1, TailHas, HeadTailProperties
  <2>3. \A s : Said(reports', s) => Said(reports, s)
    BY <2>2 DEF Said
  <2>4. kind = "notconnected" =>
          \A s \in Session : s \in Kept => s \notin Up /\ ~Said(reports', s)
    BY <2>1, EndsTail DEF Once
  <2> QED
    BY <2>1, <2>2, <2>3, <2>4
<1>4. ASSUME NEW kind, Receives(kind), UNCHANGED <<recordState, recordOf>>,
             kind = "notconnected" \/ UNCHANGED wasConnected
      PROVE  /\ Remembered' /\ ReconnectCreatesNoRecord'
             /\ \A s : Recorded(s)' = Recorded(s)
  <2>1. /\ \A s : Recorded(s)' = Recorded(s)
        /\ ReconnectCreatesNoRecord'
    BY <1>4, SameRecords DEF Once, Created
  <2>2. ASSUME session' # None, NEW r \in Records, Created(r)', recordOf'[r] = session'
        PROVE  wasConnected'[activity']
    <3>1. session # None /\ Recorded(session)
      BY <1>1, <1>4, <2>2 DEF Recorded, Created
    <3>2. session \in Kept /\ session \in Up /\ session \in Session
      BY <3>1 DEF Kept, Up, TypeOK
    <3>3. kind # "notconnected"
      BY <1>3, <1>4, <3>2
    <3> QED
      BY <1>1, <1>4, <3>1, <3>3 DEF Once, Remembered
  <2>3. ASSUME NEW i \in 1..Len(reports'), reports'[i].kind = "connected",
               NEW r \in Records, Created(r)', recordOf'[r] = reports'[i].of
        PROVE  wasConnected'[activity']
    <3>1. PICK j \in 1..Len(reports) : reports'[i] = reports[j]
      BY <1>3, <1>4
    <3>2. reports[j].kind = "connected" /\ Recorded(reports[j].of)
      BY <1>4, <2>3, <3>1 DEF Recorded, Created
    <3>3. reports[j].of \in Session
      <4>1. reports[j] \in Report
        BY <1>3, <1>4, ElementOfSeq
      <4> QED
        BY <4>1 DEF Report
    <3>4. reports[j].of \in Kept /\ Said(reports', reports[j].of)
      BY <2>3, <3>1, <3>2, <3>3 DEF Kept, Said, Says
    <3>5. kind # "notconnected"
      BY <1>3, <1>4, <3>3, <3>4
    <3> QED
      BY <1>1, <1>4, <3>2, <3>5 DEF Once, Remembered
  <2> QED
    BY <2>1, <2>2, <2>3 DEF Remembered, Recorded
<1>5. ASSUME NEW kind, Receives(kind), PostingNew', Remembered', ReconnectCreatesNoRecord',
             \A s \in Kept' : s \in Kept \/ Says(Head(reports), s)
      PROVE  Once'
  <2>1. EndsPart(reports', Kept', Up')
    <3>1. /\ reports \in Seq(Report) /\ reports # <<>> /\ reports' = Tail(reports)
          /\ EndsPart(reports, Kept, Up)
      BY <1>3, <1>5 DEF Once
    <3>2. EndsPart(Tail(reports), Kept', Up)
      BY <1>5, <3>1, EndsTail
    <3> QED
      BY <1>1, <3>1, <3>2
  <2>2. \A s \in Kept' : s \in Kept \/ Said(reports, s)
    BY <1>3, <1>5 DEF Said
  <2>3. unsent' # <<>> =>
          \A s \in Session : s \in Kept' \/ Said(reports', s) => s \notin Up' /\ ~Said(unsent', s)
    BY <1>1, <1>3, <1>5, <2>2 DEF Once, UnsentNew
  <2> QED
    BY <1>2, <1>5, <2>1, <2>3, OnceNext
<1>6. CASE onConnect
  <2>1. Receives("connected") /\ UNCHANGED <<recordState, recordOf, wasConnected>>
    BY <1>6 DEF onConnect
  <2>2. CASE UNCHANGED posting
    <3>1. posting' = NoPost /\ Kept' = Kept
      BY <1>3, <2>1, <2>2, KeptSame DEF Created
    <3>2. PostingNew'
      BY <3>1 DEF PostingNew
    <3> QED
      BY <1>4, <1>5, <2>1, <3>1, <3>2
  <2>3. CASE /\ ~wasConnected[activity]
             /\ posting' = [by |-> activity, of |-> Head(reports).of, server |-> serverUuid]
    <3>1. ~Recorded(Head(reports).of)
      BY <1>3, <2>1, <2>3 DEF Once, Remembered
    <3>2. posting'.by = activity' /\ posting'.of = Head(reports).of
      BY <1>1, <2>3
    <3>3. \A r \in Records : Created(r)' => recordOf'[r] # posting'.of
      BY <2>1, <3>1, <3>2 DEF Recorded, Created
    <3>4. PostingNew'
      BY <3>2, <3>3 DEF PostingNew, Recorded
    <3>5. \A s \in Kept' : s \in Kept \/ Says(Head(reports), s)
      BY <1>3, <1>4, <2>1, <3>2 DEF Kept, Says
    <3> QED
      BY <1>4, <1>5, <2>1, <3>4, <3>5
  <2> QED
    BY <1>6, <2>2, <2>3 DEF onConnect
<1>7. ASSUME posting # NoPost, ConnectedDone, CreateRecord \/ UNCHANGED recordVars
      PROVE  Once'
  <2>1. posting' = NoPost /\ UNCHANGED reports
    BY <1>7 DEF ConnectedDone
  <2>2. wasConnected'[activity']
    <3>1. posting.by = activity /\ activity \in Activities
      BY <1>7 DEF Once, PostingNew, TypeOK
    <3> QED
      BY <1>1, <1>7, <3>1 DEF ConnectedDone, TypeOK
  <2>3. PostingNew' /\ Remembered'
    BY <2>1, <2>2 DEF PostingNew, Remembered
  <2>4. ReconnectCreatesNoRecord' /\ \A s \in Kept' : s \in Kept
    <3>1. CASE CreateRecord
      <4>1. /\ NewRecord \in Records
            /\ recordState' = [recordState EXCEPT ![NewRecord] = "open"]
            /\ recordOf' = [recordOf EXCEPT ![NewRecord] = posting.of]
        BY <1>7, <3>1, CreateType DEF CreateRecord
      <4>2. \A r \in Records : Created(r) => recordOf[r] # posting.of
        BY <1>7 DEF Once, PostingNew, Recorded
      <4>3. \A r \in Records : /\ r # NewRecord /\ recordState'[r] # "none" => Created(r)
                               /\ r # NewRecord => recordOf'[r] = recordOf[r]
        BY <4>1 DEF TypeOK, Created
      <4>4. recordOf'[NewRecord] = posting.of
        BY <4>1 DEF TypeOK
      <4>5. \A q, r \in Records :
              recordState'[q] # "none" /\ recordState'[r] # "none" /\ recordOf'[q] = recordOf'[r]
                => q = r
        BY <4>2, <4>3, <4>4 DEF Once, ReconnectCreatesNoRecord
      <4>6. \A s : Recorded(s)' => Recorded(s) \/ s = posting.of
        BY <4>3, <4>4 DEF Recorded, Created
      <4> QED
        BY <1>7, <2>1, <4>5, <4>6 DEF ReconnectCreatesNoRecord, Created, Kept
    <3>2. CASE UNCHANGED recordVars
      <4>1. \A s : Recorded(s)' = Recorded(s)
        BY <3>2, SameRecords DEF Created
      <4> QED
        BY <2>1, <3>2, <4>1 DEF Once, ReconnectCreatesNoRecord, Created, Kept
    <3> QED
      BY <1>7, <3>1, <3>2
  <2>5. EndsPart(reports', Kept', Up')
    BY <1>1, <2>1, <2>4, EndsOthers DEF Once
  <2>6. unsent' # <<>> =>
          \A s \in Session : s \in Kept' \/ Said(reports', s) => s \notin Up' /\ ~Said(unsent', s)
    BY <1>1, <2>1, <2>4 DEF Once, UnsentNew
  <2> QED
    BY <1>2, <2>3, <2>4, <2>5, <2>6, OnceNext
<1>8. CASE createConnection \/ createConnectionFails
  BY <1>7, <1>8 DEF createConnection, createConnectionFails, ConnectedDone
<1>9. ASSUME NEW kind, Receives(kind), UNCHANGED <<recordState, recordOf, posting>>,
             kind = "notconnected" \/ UNCHANGED wasConnected
      PROVE  Once'
  <2>1. posting' = NoPost /\ Kept' = Kept
    BY <1>3, <1>9, KeptSame DEF Created
  <2>2. PostingNew'
    BY <2>1 DEF PostingNew
  <2> QED
    BY <1>4, <1>5, <1>9, <2>1, <2>2
<1>10. CASE Disconnected
  BY <1>9, <1>10 DEF Disconnected, onDisconnect
<1>11. CASE onChangeStatus \/ updateByteCount
  BY <1>9, <1>11 DEF onChangeStatus, updateByteCount
<1> QED
  BY <1>6, <1>8, <1>10, <1>11 DEF Hub

(* A start resets WAS_CONNECTED only while no session is up or reported. *)
LEMMA OnceExecutor ==
  ASSUME TypeOK, UuidsCreated, Apart, Once, Executor
  PROVE  Once'
<1> USE DEF sessionVars, serviceVars, hubVars, uiVars, taskVars, prefVars, recordVars, history
<1>1. CASE ConnectTask \/ SkipTask \/ ChooseServer \/ ConnectRefused \/ AfterDisconnectVPNTask
             \/ LogoutTask \/ deleteUserSettings
  BY <1>1, OnceElsewhere
     DEF ConnectTask, SkipTask, ChooseServer, ConnectRefused, AfterDisconnectVPNTask, LogoutTask,
         deleteUserSettings, Takes, Created
<1>2. CASE ConnectFails
  <2>1. /\ session = None /\ ~Has(reports, "connected")
        /\ UNCHANGED <<session, reports, unsent, posting, activity, recordState, recordOf>>
    BY <1>2 DEF ConnectFails, onDisconnect, Apart, StartsUntold, Starting
  <2>2. /\ \A s : Recorded(s)' = Recorded(s)
        /\ ReconnectCreatesNoRecord'
    BY <2>1, SameRecords DEF Once, Created
  <2>3. Kept' = Kept /\ Up' = Up
    BY <2>1, KeptSame DEF Created, Up
  <2>4. Remembered'
    BY <2>1 DEF Remembered, Has
  <2>5. PostingNew'
    BY <2>1, <2>2 DEF Once, PostingNew
  <2> QED
    BY <2>1, <2>2, <2>3, <2>4, <2>5, OnceNext DEF Once, UnsentNew
<1>3. CASE StartSession
  <2>1. /\ ~Has(reports, "connected") /\ ~Has(unsent, "connected") /\ posting = NoPost
        /\ session' = serverUuid
        /\ UNCHANGED <<posting, wasConnected, activity, recordState, recordOf>>
    BY <1>3 DEF StartSession, Apart, StartsUntold, Starting, HubFree
  <2>2. ~Recorded(serverUuid)
    BY <1>3 DEF StartSession, Apart, ChosenIsNew, Recorded
  <2>3. Newly(session')
    BY <2>1, <2>2 DEF Newly, Kept, Said, Says, Has
  <2>4. serverUuid \in Session /\ Sends("connecting", serverUuid)
    BY <1>3 DEF StartSession, TypeOK
  <2> QED
    BY <2>1, <2>3, <2>4, OnceSends DEF Level
<1>4. CASE afterDisconnectVPN \/ afterDisconnectVPNFails
  <2>1. /\ UNCHANGED <<session, reports, unsent, posting, wasConnected, activity, recordOf>>
        /\ recordState' = recordState \/ CloseRecord
    BY <1>4 DEF afterDisconnectVPN, afterDisconnectVPNFails, CloseDone
  <2>2. \A r \in Records : Created(r)' = Created(r)
    <3>1. CASE recordState' = recordState
      BY <3>1 DEF Created
    <3>2. CASE CloseRecord
      <4>1. request.uuid \in Records /\ Created(request.uuid)
        BY <3>2 DEF CloseRecord, UuidsCreated, TypeOK, Record
      <4> QED
        BY <3>2, <4>1 DEF CloseRecord, Created, TypeOK
    <3> QED
      BY <2>1, <3>1, <3>2
  <2> QED
    BY <2>1, <2>2, OnceElsewhere
<1> QED
  BY <1>1, <1>2, <1>3, <1>4 DEF Executor

LEMMA OnceStep == OnceInv /\ [Next]_vars => OnceInv'
<1> SUFFICES ASSUME OnceInv, [Next]_vars PROVE OnceInv'
  OBVIOUS
<1>1. LiveInv' /\ UuidsCreated'
  BY LiveStep, UuidsStep DEF OnceInv, LiveInv
<1>2. ASSUME Undivided' PROVE (Apart /\ Once)'
  <2>1. /\ TypeOK /\ SeenUsed /\ UuidsCreated /\ Apart /\ Once
        /\ "overlap" \notin disturbed' /\ "recreation" \notin disturbed' /\ "lag" \notin disturbed'
    BY <1>2, DisturbedGrows DEF OnceInv, LiveInv, Undivided
  <2>2. CASE UI
    <3>1. ~onCreate /\ ~UIProcessRestarts
      BY <2>1 DEF onCreate, UIProcessRestarts, NewActivity
    <3>2. Once'
      BY <2>1, <2>2, <3>1, OnceElsewhere
         DEF UI, ClickConnect, showDisconnectDialogVPN, RetriesUsedUp, logoutUser, connectToVPN,
             sessionVars, serviceVars, hubVars, uiVars, taskVars, prefVars, recordVars, Created
    <3> QED
      BY <2>1, <2>2, <3>2, ApartUI
  <2>3. CASE UNCHANGED vars
    <3>1. Once'
      BY <2>1, <2>3, OnceElsewhere
         DEF vars, sessionVars, serviceVars, hubVars, uiVars, recordVars, Created
    <3>2. /\ OneConnect(tasks)' = OneConnect(tasks)
          /\ \A k : /\ Has(tasks, k)' = Has(tasks, k) /\ Has(reports, k)' = Has(reports, k)
                    /\ Has(unsent, k)' = Has(unsent, k)
      BY <2>3 DEF vars, sessionVars, serviceVars, taskVars, OneConnect, Has
    <3> QED
      BY <2>1, <2>3, <3>1, <3>2
         DEF vars, sessionVars, serviceVars, hubVars, uiVars, taskVars, prefVars, recordVars,
             Apart, OneUp, OneStart, StartsUntold, ChosenIsNew, Starting, HubFree, Created
  <2> QED
    BY <2>1, <2>2, <2>3, ApartService, ApartHub, ApartExecutor, OnceService, OnceHub,
       OnceExecutor DEF Next
<1> QED
  BY <1>1, <1>2 DEF OnceInv

LEMMA OnceInit == Init => OnceInv
<1> SUFFICES ASSUME Init PROVE OnceInv
  OBVIOUS
<1>1. LiveInv /\ UuidsCreated
  BY LiveInit DEF Init, UuidsCreated, NoRequest
<1>2. reports = <<>> /\ unsent = <<>> /\ 1..Len(reports) = {} /\ 1..Len(tasks) = {}
  BY EmptySeq, LenProperties DEF Init
<1>3. Once
  BY <1>2, EmptyParts
     DEF Init, Once, Remembered, PostingNew, UnsentNew, ReconnectCreatesNoRecord, Created
<1>4. Apart
  BY <1>2 DEF Init, Apart, OneUp, OneStart, OneConnect, StartsUntold, ChosenIsNew, Starting, Has,
              NotConnected
<1> QED
  BY <1>1, <1>3, <1>4 DEF OnceInv

(* Until an activity is created again or a start overlaps with an earlier one, a   *)
(* session has one record however often it reconnects, also when a request fails   *)
(* before or after it took effect, whatever is left of sessions before it, and when *)
(* the service process is killed and the service started again, unless a client is  *)
(* sent CONNECTED before the NOPROCESS that is older.                               *)
THEOREM SessionHasOneRecord == Spec => []OneRecordPerSession
<1>1. OnceInv => OneRecordPerSession
  BY DEF OnceInv, Once, Undivided, OneRecordPerSession
<1> QED
  BY <1>1, OnceInit, OnceStep, PTL DEF Spec

-----------------------------------------------------------------------------
(* Why requests reach their record when nothing disturbs: whatever reports, is *)
(* to be recorded or is recorded belongs to the server stored last, the record *)
(* that is open is the stored one, and the session that ends is closed before  *)
(* the next one is chosen.                                                     *)
ToldOf == Has(reports, "connected") \/ posting # NoPost

EndToCome ==
  ToldOf \/ wasConnected[activity] => session # None \/ Has(reports, "notconnected")

ClosesLater == ToldOf => ~Has(tasks, "close") /\ running # "close"

OfTheServer ==
  /\ session \in {None, serverUuid}
  /\ \A i \in 1..Len(reports) :
       reports[i].kind \in {"connected", "bytes"} => reports[i].of = serverUuid
  /\ posting # NoPost =>
       posting.of = serverUuid /\ posting.server = serverUuid /\ connectionUuid = None

ClosePending ==
  connectionUuid # None => wasConnected[activity] \/ Has(tasks, "close") \/ running = "close"

StoredIsOpen ==
  /\ \A r \in Records : recordState[r] = "open" => r = connectionUuid
  /\ connectionUuid # None =>
       recordOf[connectionUuid] = serverUuid /\ recordServer[connectionUuid] = serverUuid
  /\ running = "close" => request = [uuid |-> connectionUuid, server |-> serverUuid]

EndIsLast(q) ==
  \A i, j \in 1..Len(q) : q[i].kind = "connected" /\ q[j].kind = "notconnected" => i <= j

Ledger ==
  /\ EndToCome /\ ClosesLater /\ OfTheServer /\ ClosePending /\ StoredIsOpen
  /\ misdirected = {} /\ EndIsLast(reports)

NoLogout == running # "logout" /\ ~Has(tasks, "logout")

LedgerInv == OnceInv /\ (disturbed = {} => Ledger /\ NoLogout)

LEMMA EndAppended ==
  ASSUME NEW q \in Seq(Report), NEW t \in Report, EndIsLast(q),
         t.kind = "connected" => ~Has(q, "notconnected")
  PROVE  EndIsLast(Append(q, t))
<1>1. /\ Len(q) \in Nat /\ Len(Append(q, t)) = Len(q) + 1
      /\ Append(q, t)[Len(q) + 1] = t
      /\ \A i \in 1..Len(q) : Append(q, t)[i] = q[i]
  BY AppendProperties, LenProperties
<1> SUFFICES ASSUME NEW i \in 1..(Len(q) + 1), NEW j \in 1..(Len(q) + 1),
                    Append(q, t)[i].kind = "connected",
                    Append(q, t)[j].kind = "notconnected"
             PROVE  i <= j
  BY <1>1 DEF EndIsLast
<1>2. CASE j = Len(q) + 1
  BY <1>1, <1>2
<1>3. CASE j \in 1..Len(q)
  <2>1. Has(q, "notconnected")
    BY <1>1, <1>3 DEF Has
  <2>2. i \in 1..Len(q)
    BY <1>1, <2>1
  <2> QED
    BY <1>1, <1>3, <2>2 DEF EndIsLast
<1> QED
  BY <1>1, <1>2, <1>3

LEMMA EndTaken ==
  ASSUME NEW q \in Seq(Report), q # <<>>, EndIsLast(q)
  PROVE  /\ EndIsLast(Tail(q))
         /\ Head(q).kind = "notconnected" => ~Has(Tail(q), "connected")
<1>1. /\ Head(q) = q[1] /\ 1 \in 1..Len(q)
      /\ Len(Tail(q)) \in Nat
      /\ \A i \in 1..Len(Tail(q)) :
           i \in Nat /\ i # 0 /\ i + 1 \in 1..Len(q) /\ Tail(q)[i] = q[i + 1]
  <2>1. Head(q) = q[1] /\ Len(q) \in Nat /\ Len(q) # 0 /\ Len(Tail(q)) = Len(q) - 1
    BY HeadTailProperties, LenProperties, EmptySeq
  <2> QED
    BY <2>1, TailHas
<1>2. ASSUME NEW i \in 1..Len(Tail(q)), NEW j \in 1..Len(Tail(q)),
             Tail(q)[i].kind = "connected", Tail(q)[j].kind = "notconnected"
      PROVE  i <= j
  <2>1. i + 1 <= j + 1
    BY <1>1, <1>2 DEF EndIsLast
  <2> QED
    BY <2>1, <1>1
<1>3. ASSUME Head(q).kind = "notconnected", NEW i \in 1..Len(Tail(q)),
             Tail(q)[i].kind = "connected"
      PROVE  FALSE
  <2>1. i + 1 <= 1
    BY <1>1, <1>3 DEF EndIsLast
  <2> QED
    BY <2>1, <1>1
<1> QED
  BY <1>2, <1>3 DEF EndIsLast, Has

LEMMA AppendKeeps ==
  ASSUME NEW S, NEW q \in Seq(S), NEW t \in S
  PROVE  \A kind : Has(Append(q, t), kind) = (Has(q, kind) \/ t.kind = kind)
<1>1. /\ Len(q) \in Nat /\ Len(Append(q, t)) = Len(q) + 1
      /\ Append(q, t)[Len(q) + 1] = t
      /\ \A i \in 1..Len(q) : Append(q, t)[i] = q[i]
  BY AppendProperties, LenProperties
<1>2. /\ Len(q) + 1 \in 1..Len(Append(q, t))
      /\ \A i \in 1..Len(q) : i \in 1..Len(Append(q, t))
  BY <1>1
<1>3. ASSUME NEW kind, Has(q, kind) \/ t.kind = kind PROVE Has(Append(q, t), kind)
  BY <1>1, <1>2, <1>3 DEF Has
<1>4. ASSUME NEW kind, Has(Append(q, t), kind) PROVE Has(q, kind) \/ t.kind = kind
  BY <1>4, AppendHas
<1>5. ASSUME NEW kind PROVE Has(Append(q, t), kind) \in BOOLEAN /\ Has(q, kind) \in BOOLEAN
  BY DEF Has
<1> QED
  BY <1>3, <1>4, <1>5

LEMMA TailKeeps ==
  ASSUME NEW S, NEW q \in Seq(S), q # <<>>, NEW kind, Has(q, kind), Head(q).kind # kind
  PROVE  Has(Tail(q), kind)
<1>1. Head(q) = q[1] /\ Len(q) \in Nat /\ Len(Tail(q)) = Len(q) - 1
  BY HeadTailProperties, LenProperties, EmptySeq
<1>2. PICK i \in 1..Len(q) : q[i].kind = kind
  BY DEF Has
<1>3. i - 1 \in 1..Len(Tail(q)) /\ (i - 1) + 1 = i
  BY <1>1, <1>2
<1>4. Tail(q)[i - 1] = q[i]
  BY <1>3, TailHas
<1> QED
  BY <1>2, <1>3, <1>4 DEF Has

LEMMA CancelledKeeps ==
  ASSUME TypeOK, Has(tasks, "close")
  PROVE  Has(Cancelled, "close")
BY CancelledProperties DEF Has

(* What the service says is about the session of the server, and its end is said. *)
LEMMA LedgerService ==
  ASSUME TypeOK, FirstProcess, Bookkeeping, Ledger, Service, disturbed' = {}
  PROVE  Ledger'
<1> USE DEF sessionVars, serviceVars, hubVars, uiVars, taskVars, prefVars, recordVars, history
<1>10. ~ServiceProcessDies /\ ~StickyStart /\ ~ServiceConnected
  BY DEF ServiceProcessDies, StickyStart, ServiceConnected, FirstProcess
<1>1. UNCHANGED <<hubVars, posting, activity, taskVars, prefVars, recordVars, misdirected>>
  BY <1>10 DEF Service, Reports, ReportsBytes, SessionEnds, ProcessExits
<1>2. \A kind : Has(tasks, kind)' = Has(tasks, kind)
  BY <1>1 DEF Has
<1>3. ClosePending' /\ StoredIsOpen' /\ misdirected' = {}
  BY <1>1, <1>2 DEF Ledger, ClosePending, StoredIsOpen
<1>4. ASSUME NEW t \in Report, reports' = Append(reports, t),
             t.kind \in {"connected", "bytes"} => session # None /\ t.of = session,
             session' = session \/ (session' = None /\ t.kind = "notconnected")
      PROVE  Ledger'
  <2>1. \A kind : Has(reports', kind) = (Has(reports, kind) \/ t.kind = kind)
    BY <1>4, AppendKeeps DEF TypeOK
  <2>2. \A kind : Has(reports, kind)' = (Has(reports, kind) \/ t.kind = kind)
    BY <2>1 DEF Has
  <2>3. ToldOf' => ToldOf \/ (t.kind = "connected" /\ session # None /\ session' = session)
    BY <1>1, <1>4, <2>2 DEF ToldOf
  <2>4. EndToCome'
    BY <1>1, <1>4, <2>2, <2>3 DEF Ledger, EndToCome
  <2>5. ClosesLater'
    BY <1>1, <1>2, <2>3 DEF Ledger, ClosesLater, Bookkeeping, EndMeansOver
  <2>6. ASSUME NEW i \in 1..Len(reports'), reports'[i].kind \in {"connected", "bytes"}
        PROVE  reports'[i].of = serverUuid
    <3>1. reports'[i] = t \/ (i \in 1..Len(reports) /\ reports'[i] = reports[i])
      BY <1>4, AppendHas DEF TypeOK
    <3> QED
      BY <1>4, <2>6, <3>1 DEF Ledger, OfTheServer
  <2>7. OfTheServer'
    BY <1>1, <1>4, <2>6 DEF Ledger, OfTheServer
  <2>8. EndIsLast(reports)'
    <3>1. EndIsLast(Append(reports, t))
      BY <1>4, EndAppended DEF Ledger, Bookkeeping, EndMeansOver, TypeOK
    <3> QED
      BY <1>4, <3>1 DEF EndIsLast
  <2> QED
    BY <1>3, <2>4, <2>5, <2>7, <2>8 DEF Ledger
<1>5. ASSUME NEW kind \in Level \cup {"retry"}, NEW s \in Session, Sends(kind, s),
             kind = "connected" => session # None /\ s = session,
             session' = session \/ (session' = None /\ kind = "notconnected")
      PROVE  Ledger'
  <2>1. /\ lastSent' \in Report /\ reports' = Append(reports, lastSent')
        /\ lastSent'.kind = kind
        /\ kind = "connected" => lastSent'.of = s
    BY <1>5, SendsType DEF FirstProcess
  <2>2. kind # "bytes"
    BY DEF Level
  <2> QED
    BY <1>4, <1>5, <2>1, <2>2
<1>6. ASSUME NEW kind \in {"connected", "connecting", "retry", "waiting"}, Reports(kind)
      PROVE  Ledger'
  BY <1>5, <1>6 DEF Reports, Level, TypeOK
<1>7. CASE ReportsBytes
  <2>1. [kind |-> "bytes", of |-> session] \in Report
    BY DEF Report, TypeOK
  <2> QED
    BY <1>4, <1>7, <2>1 DEF ReportsBytes
<1>8. CASE SessionEnds
  BY <1>5, <1>8 DEF SessionEnds, Level, TypeOK
<1>9. ASSUME NEW s \in Sessions, ProcessExits(s)
      PROVE  Ledger'
  BY <1>5, <1>9 DEF ProcessExits, Level, Session
<1> QED
  BY <1>6, <1>7, <1>8, <1>9, <1>10 DEF Service

(* The listener hears of the session of the server; nothing is stored until it *)
(* has created the record, and the end it hears of is closed.                  *)
LEMMA LedgerHub ==
  ASSUME TypeOK, UuidsCreated, Bookkeeping, Once, Ledger, Hub, disturbed' = {}, disturbed = {}
  PROVE  Ledger'
<1> USE DEF sessionVars, serviceVars, hubVars, uiVars, taskVars, prefVars, recordVars, history
<1>1. UNCHANGED <<session, activity, running, request, serverUuid>>
  BY DEF Hub, onConnect, createConnection, createConnectionFails, ConnectedDone, Disconnected,
         onChangeStatus, updateByteCount
<1>2. ASSUME NEW kind, Receives(kind)
      PROVE  /\ reports \in Seq(Report) /\ reports # <<>> /\ reports' = Tail(reports)
             /\ Head(reports).kind = kind /\ Has(reports, kind)
             /\ \A k : Has(reports', k) => Has(reports, k)
             /\ \A k : Has(reports, k) /\ k # kind => Has(reports', k)
             /\ \A i \in 1..Len(reports') : \E j \in 1..Len(reports) : reports'[i] = reports[j]
             /\ \E j \in 1..Len(reports) : Head(reports) = reports[j]
             /\ posting = NoPost /\ EndIsLast(reports)'
             /\ kind = "notconnected" => ~Has(reports', "connected")
  <2>1. reports \in Seq(Report) /\ reports # <<>> /\ reports' = Tail(reports)
        /\ Head(reports).kind = kind /\ posting = NoPost
    BY <1>2 DEF Receives, HubFree, TypeOK
  <2>2. \A k : Has(reports, k) /\ k # kind => Has(reports', k)
    BY <2>1, TailKeeps
  <2>3. EndIsLast(Tail(reports)) /\ (kind = "notconnected" => ~Has(Tail(reports), "connected"))
    BY <2>1, EndTaken DEF Ledger
  <2>4. EndIsLast(reports)' /\ (kind = "notconnected" => ~Has(reports', "connected"))
    BY <2>1, <2>3 DEF EndIsLast
  <2> QED
    BY <2>1, <2>2, <2>4, TailHas
<1>3. ASSUME NEW kind, Receives(kind)
      PROVE  \A i \in 1..Len(reports') :
               reports'[i].kind \in {"connected", "bytes"} => reports'[i].of = serverUuid
  BY <1>2, <1>3 DEF Ledger, OfTheServer
<1>4. ASSUME UNCHANGED tasks PROVE \A k : Has(tasks, k)' = Has(tasks, k)
  BY <1>4 DEF Has
<1>5. \A k : Has(reports, k)' = Has(reports', k)
  BY DEF Has
<1>6. CASE onConnect
  <2>1. /\ Receives("connected") /\ UNCHANGED <<tasks, wasConnected, connectionUuid, recordVars>>
        /\ misdirected' = misdirected
    BY <1>6 DEF onConnect
  <2>2. ToldOf /\ (session # None \/ Has(reports, "notconnected")) /\ ~Has(tasks, "close")
        /\ running # "close"
    BY <1>2, <2>1 DEF ToldOf, Ledger, EndToCome, ClosesLater
  <2>3. EndToCome' /\ ClosesLater'
    BY <1>1, <1>2, <1>4, <1>5, <2>1, <2>2 DEF EndToCome, ClosesLater
  <2>4. ClosePending' /\ StoredIsOpen' /\ misdirected' = {}
    BY <1>1, <1>4, <2>1 DEF Ledger, ClosePending, StoredIsOpen
  <2>5. posting' # NoPost =>
          posting'.of = serverUuid /\ posting'.server = serverUuid /\ connectionUuid = None
    <3>1. CASE UNCHANGED posting
      BY <1>2, <2>1, <3>1
    <3>2. CASE /\ ~wasConnected[activity]
               /\ posting' = [by |-> activity, of |-> Head(reports).of, server |-> serverUuid]
      <4>1. Head(reports).of = serverUuid
        BY <1>2, <2>1 DEF Ledger, OfTheServer
      <4>2. connectionUuid = None
        BY <2>2, <3>2 DEF Ledger, ClosePending
      <4> QED
        BY <3>2, <4>1, <4>2
    <3> QED
      BY <1>6, <3>1, <3>2 DEF onConnect
  <2>6. OfTheServer'
    BY <1>1, <1>3, <2>1, <2>5 DEF Ledger, OfTheServer
  <2> QED
    BY <1>2, <2>1, <2>3, <2>4, <2>6 DEF Ledger
<1>7. CASE createConnection
  <2>1. /\ posting # NoPost /\ posting' = NoPost /\ CreateRecord
        /\ wasConnected' = [wasConnected EXCEPT ![posting.by] = TRUE]
        /\ connectionUuid' = NewRecord /\ UNCHANGED <<reports, tasks, misdirected>>
    BY <1>7 DEF createConnection, ConnectedDone
  <2>2. wasConnected'[activity']
    <3>1. posting.by = activity /\ activity \in Activities
      BY <2>1 DEF Once, PostingNew, TypeOK
    <3> QED
      BY <1>1, <2>1, <3>1 DEF TypeOK
  <2>3. /\ ToldOf /\ (session # None \/ Has(reports, "notconnected"))
        /\ ~Has(tasks, "close") /\ running # "close" /\ connectionUuid = None
        /\ posting.of = serverUuid /\ posting.server = serverUuid
    BY <2>1 DEF ToldOf, Ledger, EndToCome, ClosesLater, OfTheServer
  <2>4. EndToCome' /\ ClosesLater'
    BY <1>1, <1>4, <1>5, <2>1, <2>3 DEF EndToCome, ClosesLater
  <2>5. OfTheServer' /\ ClosePending'
    BY <1>1, <2>1, <2>2 DEF Ledger, OfTheServer, ClosePending
  <2>6. /\ NewRecord \in Records
        /\ recordState' = [recordState EXCEPT ![NewRecord] = "open"]
        /\ recordOf' = [recordOf EXCEPT ![NewRecord] = posting.of]
        /\ recordServer' = [recordServer EXCEPT ![NewRecord] = posting.server]
    BY <2>1, CreateType DEF CreateRecord
  <2>7. recordOf'[NewRecord] = serverUuid /\ recordServer'[NewRecord] = serverUuid
    BY <2>3, <2>6 DEF TypeOK
  <2>8. \A r \in Records : recordState'[r] = "open" => r = NewRecord
    <3>1. \A r \in Records : recordState[r] # "open"
      BY <2>3, NoneAssumption DEF Ledger, StoredIsOpen
    <3> QED
      BY <2>6, <3>1 DEF TypeOK
  <2>9. StoredIsOpen'
    BY <1>1, <2>1, <2>3, <2>7, <2>8 DEF StoredIsOpen
  <2>10. EndIsLast(reports)'
    BY <2>1 DEF Ledger, EndIsLast
  <2> QED
    BY <2>1, <2>4, <2>5, <2>9, <2>10 DEF Ledger
<1>8. CASE createConnectionFails
  <2>1. "failure" \in disturbed'
    BY <1>8 DEF createConnectionFails
  <2> QED
    BY <2>1
<1>9. CASE Disconnected
  <2>1. /\ Receives("notconnected") /\ onDisconnect
        /\ UNCHANGED <<connectionUuid, recordVars, misdirected, posting>>
    BY <1>9 DEF Disconnected, onDisconnect
  <2>2. ~ToldOf'
    <3>1. ~Has(reports', "connected")
      BY <1>2, <2>1
    <3> QED
      BY <1>2, <1>5, <2>1, <3>1 DEF ToldOf
  <2>3. ~wasConnected'[activity']
    BY <1>1, <2>1 DEF onDisconnect, TypeOK
  <2>4. EndToCome' /\ ClosesLater'
    BY <2>2, <2>3 DEF EndToCome, ClosesLater
  <2>5. OfTheServer' /\ StoredIsOpen' /\ misdirected' = {}
    BY <1>1, <1>2, <1>3, <2>1 DEF Ledger, OfTheServer, StoredIsOpen
  <2>6. [kind |-> "close", by |-> activity] \in Task /\ tasks \in Seq(Task)
    BY DEF TypeOK, Task
  <2>7. wasConnected[activity] \/ Has(tasks, "close") => Has(tasks, "close")'
    <3>1. CASE wasConnected[activity]
      <4>1. PICK t \in Task : t.kind = "close" /\ tasks' = Append(tasks, t)
        BY <2>1, <2>6, <3>1 DEF onDisconnect
      <4>2. Has(Append(tasks, t), "close")
        BY <2>6, <4>1, AppendKeeps
      <4> QED
        BY <4>1, <4>2 DEF Has
    <3>2. CASE ~wasConnected[activity]
      BY <1>4, <2>1, <3>2 DEF onDisconnect
    <3> QED
      BY <3>1, <3>2
  <2>8. ClosePending'
    BY <1>1, <2>1, <2>7 DEF Ledger, ClosePending
  <2> QED
    BY <1>2, <2>1, <2>4, <2>5, <2>8 DEF Ledger
<1>10. ASSUME NEW kind, Receives(kind), kind # "notconnected", misdirected' = {},
              UNCHANGED <<posting, tasks, wasConnected, connectionUuid, recordVars>>
       PROVE  Ledger'
  <2>1. ToldOf' => ToldOf
    BY <1>2, <1>5, <1>10 DEF ToldOf
  <2>2. Has(reports, "notconnected") => Has(reports, "notconnected")'
    BY <1>2, <1>5, <1>10
  <2>3. EndToCome' /\ ClosesLater'
    BY <1>1, <1>4, <1>10, <2>1, <2>2 DEF Ledger, EndToCome, ClosesLater
  <2>4. OfTheServer' /\ ClosePending' /\ StoredIsOpen'
    BY <1>1, <1>3, <1>4, <1>10 DEF Ledger, OfTheServer, ClosePending, StoredIsOpen
  <2> QED
    BY <1>2, <1>10, <2>3, <2>4 DEF Ledger
<1>11. CASE onChangeStatus
  BY <1>10, <1>11 DEF onChangeStatus, Ledger
<1>12. CASE updateByteCount
  <2>1. Receives("bytes") /\ Head(reports).of = serverUuid
    BY <1>2, <1>12 DEF updateByteCount, Ledger, OfTheServer
  <2>2. connectionUuid # None => Misdirects(connectionUuid, Head(reports).of, serverUuid) = {}
    BY <2>1 DEF Ledger, StoredIsOpen, Misdirects
  <2>3. misdirected' = {}
    BY <1>12, <2>2 DEF updateByteCount, Ledger
  <2> QED
    BY <1>10, <1>12, <2>1, <2>3 DEF updateByteCount
<1> QED
  BY <1>6, <1>7, <1>8, <1>9, <1>11, <1>12 DEF Hub

(* Nothing is left to close when a start is asked for or begins. *)
LEMMA LedgerStart ==
  ASSUME Bookkeeping, Ledger, Starting \/ Has(tasks, "connect")
  PROVE  ~ToldOf /\ ~wasConnected[activity]
<1>1. session = None /\ reports = <<>> /\ posting = NoPost
  BY DEF Bookkeeping, StartsAlone, HubFree
<1>2. \A k : ~Has(reports, k)
  <2>1. 1..Len(reports) = {}
    BY <1>1, EmptySeq, LenProperties
  <2> QED
    BY <2>1 DEF Has
<1> QED
  BY <1>1, <1>2 DEF Ledger, EndToCome, ToldOf

(* Clicks queue starts and cancel them, but leave what closes in the queue. *)
LEMMA LedgerUI ==
  ASSUME TypeOK, Ledger, UI, disturbed' = {}
  PROVE  Ledger'
<1> USE DEF sessionVars, serviceVars, hubVars, uiVars, taskVars, prefVars, recordVars, history
<1>1. ~onCreate /\ ~UIProcessRestarts /\ ~logoutUser
  BY DEF onCreate, UIProcessRestarts, NewActivity, logoutUser
<1>2. /\ UNCHANGED <<session, reports, posting, wasConnected, activity, running, request>>
      /\ UNCHANGED <<prefVars, recordVars, misdirected>>
  BY <1>1 DEF UI, ClickConnect, showDisconnectDialogVPN, RetriesUsedUp
<1>3. tasks' = Append(Cancelled, [kind |-> "connect", by |-> activity]) \/ tasks' = Cancelled
  BY <1>1 DEF UI, ClickConnect, showDisconnectDialogVPN, RetriesUsedUp, connectToVPN
<1>4. Has(Cancelled, "close") <=> Has(tasks, "close")
  BY CancelledKeeps, CancelledProperties DEF Has
<1>5. Has(tasks', "close") <=> Has(tasks, "close")
  <2>1. CASE tasks' = Append(Cancelled, [kind |-> "connect", by |-> activity])
    <3>1. [kind |-> "connect", by |-> activity] \in Task /\ Cancelled \in Seq(Task)
      BY CancelledProperties DEF TypeOK, Task
    <3>2. PICK t \in Task : t.kind = "connect" /\ tasks' = Append(Cancelled, t)
      BY <2>1, <3>1
    <3>3. Has(Append(Cancelled, t), "close") = (Has(Cancelled, "close") \/ t.kind = "close")
      BY <3>1, AppendKeeps
    <3> QED
      BY <1>4, <3>2, <3>3
  <2>2. CASE tasks' = Cancelled
    BY <1>4, <2>2
  <2> QED
    BY <1>3, <2>1, <2>2
<1>6. Has(tasks, "close")' <=> Has(tasks, "close")
  BY <1>5 DEF Has
<1>7. \A k : Has(reports, k)' = Has(reports, k)
  BY <1>2 DEF Has
<1>8. EndToCome' /\ ClosesLater'
  BY <1>2, <1>6, <1>7 DEF Ledger, EndToCome, ClosesLater, ToldOf
<1>9. OfTheServer' /\ ClosePending' /\ StoredIsOpen'
  BY <1>2, <1>6 DEF Ledger, OfTheServer, ClosePending, StoredIsOpen
<1>10. EndIsLast(reports)'
  BY <1>2 DEF Ledger, EndIsLast
<1> QED
  BY <1>2, <1>8, <1>9, <1>10 DEF Ledger

LEMMA NoLogoutStep ==
  ASSUME TypeOK, NoLogout, Next, disturbed' = {}
  PROVE  NoLogout'
<1> USE DEF sessionVars, serviceVars, hubVars, uiVars, taskVars, prefVars, recordVars, history
<1>1. ASSUME UNCHANGED tasks, running' # "logout" PROVE NoLogout'
  BY <1>1 DEF NoLogout, Has
<1>2. ASSUME tasks' \in Seq(Task), \A i \in 1..Len(tasks') : tasks'[i].kind # "logout",
             running' # "logout"
      PROVE  NoLogout'
  BY <1>2 DEF NoLogout, Has
<1>3. \A i \in 1..Len(tasks) : tasks[i].kind # "logout"
  BY DEF NoLogout, Has
<1>4. ASSUME NEW q \in Seq(Task), \A i \in 1..Len(q) : q[i].kind # "logout",
             NEW t \in Task, t.kind # "logout", tasks' = Append(q, t), running' = running
      PROVE  NoLogout'
  <2>1. \A i \in 1..Len(tasks') : tasks'[i].kind # "logout"
    BY <1>4, AppendHas
  <2>2. tasks' \in Seq(Task)
    BY <1>4, AppendProperties
  <2> QED
    BY <1>2, <1>4, <2>1, <2>2 DEF NoLogout
<1>5. ASSUME onDisconnect, running' # "logout" PROVE NoLogout'
  <2>1. CASE UNCHANGED tasks
    BY <1>1, <1>5, <2>1
  <2>2. CASE tasks' = Append(tasks, [kind |-> "close", by |-> activity])
    <3>1. [kind |-> "close", by |-> activity] \in Task
      BY DEF TypeOK, Task
    <3>2. PICK t \in Task : t.kind = "close" /\ tasks' = Append(tasks, t)
      BY <2>2, <3>1
    <3>3. \A i \in 1..Len(tasks') : tasks'[i].kind # "logout"
      BY <1>3, <3>2, AppendHas DEF TypeOK
    <3>4. tasks' \in Seq(Task)
      BY <3>2, AppendProperties DEF TypeOK
    <3> QED
      BY <1>2, <1>5, <3>3, <3>4
  <2> QED
    BY <1>5, <2>1, <2>2 DEF onDisconnect
<1>6. CASE Service
  BY <1>1, <1>6 DEF Service, Reports, ReportsBytes, SessionEnds, ProcessExits,
                    ServiceProcessDies, StickyStart, ServiceConnected, NoLogout
<1>7. CASE Hub
  BY <1>1, <1>5, <1>7 DEF Hub, onConnect, createConnection, createConnectionFails, ConnectedDone,
                          Disconnected, onChangeStatus, updateByteCount, NoLogout
<1>8. CASE UI
  <2>1. ~onCreate /\ ~UIProcessRestarts /\ ~logoutUser
    BY DEF onCreate, UIProcessRestarts, NewActivity, logoutUser
  <2>2. /\ tasks' = Append(Cancelled, [kind |-> "connect", by |-> activity]) \/ tasks' = Cancelled
        /\ running' = running
    BY <1>8, <2>1 DEF UI, ClickConnect, showDisconnectDialogVPN, RetriesUsedUp, connectToVPN
  <2>3. Cancelled \in Seq(Task) /\ \A i \in 1..Len(Cancelled) : Cancelled[i].kind # "logout"
    BY <1>3, CancelledProperties
  <2>4. CASE tasks' = Append(Cancelled, [kind |-> "connect", by |-> activity])
    <3>1. [kind |-> "connect", by |-> activity] \in Task
      BY DEF TypeOK, Task
    <3>2. PICK t \in Task : t.kind = "connect" /\ tasks' = Append(Cancelled, t)
      BY <2>4, <3>1
    <3> QED
      BY <1>4, <2>2, <2>3, <3>2
  <2>5. CASE tasks' = Cancelled
    BY <1>2, <2>2, <2>3, <2>5 DEF NoLogout
  <2> QED
    BY <2>2, <2>4, <2>5
<1>9. CASE Executor
  <2>1. ASSUME NEW kind, Takes(kind)
        PROVE  tasks' \in Seq(Task) /\ kind # "logout"
               /\ \A i \in 1..Len(tasks') : tasks'[i].kind # "logout"
    BY <1>3, <2>1, TailHas DEF Takes, TypeOK
  <2>2. CASE ConnectTask \/ SkipTask \/ AfterDisconnectVPNTask \/ LogoutTask
    BY <1>2, <2>1, <2>2 DEF ConnectTask, SkipTask, AfterDisconnectVPNTask, LogoutTask, NoLogout
  <2>3. CASE ConnectFails
    BY <1>5, <2>3 DEF ConnectFails
  <2>4. CASE \/ ChooseServer \/ ConnectRefused \/ StartSession \/ afterDisconnectVPN
             \/ afterDisconnectVPNFails \/ deleteUserSettings
    BY <1>1, <2>4 DEF ChooseServer, ConnectRefused, StartSession, afterDisconnectVPN,
                      afterDisconnectVPNFails, CloseDone, deleteUserSettings, NoLogout
  <2> QED
    BY <1>9, <2>2, <2>3, <2>4 DEF Executor
<1> QED
  BY <1>6, <1>7, <1>8, <1>9 DEF Next

(* A server is chosen when nothing is stored, and a close closes what is. *)
LEMMA LedgerExecutor ==
  ASSUME TypeOK, FirstProcess, Bookkeeping, Ledger, NoLogout, Executor, disturbed' = {},
         disturbed = {}
  PROVE  Ledger'
<1> USE DEF sessionVars, serviceVars, hubVars, uiVars, taskVars, prefVars, recordVars, history
<1>1. UNCHANGED <<activity, posting>>
  BY DEF Executor, ConnectTask, SkipTask, ChooseServer, ConnectRefused, ConnectFails, StartSession,
         AfterDisconnectVPNTask, afterDisconnectVPN, afterDisconnectVPNFails, CloseDone, LogoutTask,
         deleteUserSettings, Takes, onDisconnect
<1>2. ASSUME UNCHANGED reports
      PROVE  EndIsLast(reports)' /\ \A k : Has(reports, k)' = Has(reports, k)
  BY <1>2 DEF Ledger, EndIsLast, Has
<1>3. ASSUME UNCHANGED tasks PROVE \A k : Has(tasks, k)' = Has(tasks, k)
  BY <1>3 DEF Has
<1>4. ASSUME NEW kind, Takes(kind)
      PROVE  /\ Has(tasks, "close")' => Has(tasks, "close")
             /\ Has(tasks, "close") => kind = "close" \/ Has(tasks, "close")'
             /\ Has(tasks, kind)
  <2>1. /\ tasks \in Seq(Task) /\ tasks # <<>> /\ Head(tasks).kind = kind /\ tasks' = Tail(tasks)
    BY <1>4 DEF Takes, TypeOK
  <2>2. Has(tasks', "close") => Has(tasks, "close")
    BY <2>1, TailHas
  <2>3. Has(tasks, "close") => kind = "close" \/ Has(tasks', "close")
    BY <2>1, TailKeeps
  <2>4. Has(tasks, kind)
    BY <2>1, TailHas
  <2> QED
    BY <2>2, <2>3, <2>4 DEF Has
<1>5. ASSUME UNCHANGED <<session, reports, wasConnected, prefVars, recordVars, misdirected>>,
             Has(tasks, "close")' = Has(tasks, "close"), running # "close", running' # "close"
      PROVE  Ledger'
  <2>1. EndToCome' /\ ClosesLater'
    BY <1>1, <1>2, <1>5 DEF Ledger, EndToCome, ClosesLater, ToldOf
  <2>2. OfTheServer' /\ ClosePending' /\ StoredIsOpen'
    BY <1>1, <1>5 DEF Ledger, OfTheServer, ClosePending, StoredIsOpen
  <2> QED
    BY <1>2, <1>5, <2>1, <2>2 DEF Ledger
<1>6. ASSUME NEW kind \in {"connect", "cancelled", "logout"}, Takes(kind), running' # "close",
             UNCHANGED request
      PROVE  Ledger'
  <2>1. Has(tasks, "close")' <=> Has(tasks, "close")
    BY <1>4, <1>6
  <2>2. Has(tasks, "close")' = Has(tasks, "close")
    BY <2>1 DEF Has
  <2> QED
    BY <1>5, <1>6, <2>2 DEF Takes
<1>7. CASE ConnectTask \/ SkipTask \/ LogoutTask
  BY <1>6, <1>7 DEF ConnectTask, SkipTask, LogoutTask, Takes
<1>8. CASE ChooseServer
  <2>1. /\ Starting /\ running' = "chosen"
        /\ UNCHANGED <<session, reports, wasConnected, tasks, connectionUuid, recordVars, misdirected>>
    BY <1>8 DEF ChooseServer, Starting
  <2>2. session = None /\ reports = <<>> /\ posting = NoPost /\ ~Has(tasks, "close")
    BY <2>1 DEF Bookkeeping, StartsAlone, StartIsLast, HubFree
  <2>3. ~ToldOf /\ ~wasConnected[activity]
    BY <2>1, LedgerStart
  <2>4. connectionUuid = None
    BY <2>1, <2>2, <2>3 DEF Ledger, ClosePending, Starting
  <2>5. 1..Len(reports') = {}
    BY <2>1, <2>2, EmptySeq, LenProperties
  <2>6. OfTheServer'
    BY <1>1, <2>1, <2>2, <2>5 DEF OfTheServer
  <2>7. EndToCome' /\ ClosesLater' /\ ClosePending'
    BY <1>1, <1>2, <2>1, <2>3, <2>4 DEF EndToCome, ClosesLater, ClosePending, ToldOf
  <2>8. StoredIsOpen'
    BY <2>1, <2>4 DEF Ledger, StoredIsOpen
  <2> QED
    BY <1>2, <2>1, <2>6, <2>7, <2>8 DEF Ledger
<1>9. CASE ConnectRefused
  BY <1>3, <1>5, <1>9 DEF ConnectRefused
<1>10. CASE ConnectFails
  <2>1. ~wasConnected[activity] /\ wasConnected \in [Activities -> BOOLEAN]
    BY <1>10, LedgerStart DEF ConnectFails, Starting, TypeOK
  <2>2. UNCHANGED <<tasks, wasConnected>>
    BY <1>10, <2>1 DEF ConnectFails, onDisconnect
  <2> QED
    BY <1>3, <1>5, <1>10, <2>2 DEF ConnectFails
<1>11. CASE StartSession
  <2>1. /\ Starting /\ running' = "none" /\ session' = serverUuid
        /\ UNCHANGED <<wasConnected, tasks, request, prefVars, recordVars, misdirected>>
    BY <1>11 DEF StartSession, Starting
  <2>2. reports = <<>> /\ posting = NoPost
    BY <2>1 DEF Bookkeeping, StartsAlone, HubFree
  <2>3. ~ToldOf /\ ~wasConnected[activity]
    BY <2>1, LedgerStart
  <2>4. lastSent' \in Report /\ lastSent'.kind = "connecting" /\ reports' = Append(reports, lastSent')
    BY <1>11, SendsType DEF StartSession, FirstProcess, Level, TypeOK
  <2>5. \A i \in 1..Len(reports') : reports'[i].kind = "connecting"
    <3>1. 1..Len(reports) = {}
      BY <2>2, EmptySeq, LenProperties
    <3> QED
      BY <2>4, <3>1, AppendHas DEF TypeOK
  <2>6. ~ToldOf'
    BY <1>1, <2>2, <2>5 DEF ToldOf, Has
  <2>7. EndToCome' /\ ClosesLater'
    BY <1>1, <2>1, <2>3, <2>6 DEF EndToCome, ClosesLater
  <2>8. OfTheServer'
    BY <1>1, <2>1, <2>2, <2>5 DEF OfTheServer
  <2>9. ClosePending' /\ StoredIsOpen'
    BY <1>1, <1>3, <2>1 DEF Ledger, ClosePending, StoredIsOpen, Starting
  <2>10. EndIsLast(reports)'
    BY <2>5 DEF EndIsLast
  <2> QED
    BY <2>1, <2>7, <2>8, <2>9, <2>10 DEF Ledger
<1>12. CASE AfterDisconnectVPNTask
  <2>1. /\ Takes("close") /\ running' = "close"
        /\ request' = [uuid |-> connectionUuid, server |-> serverUuid]
        /\ UNCHANGED <<session, reports, wasConnected, prefVars, recordVars, misdirected>>
    BY <1>12 DEF AfterDisconnectVPNTask, Takes
  <2>2. ~ToldOf
    BY <1>4, <2>1 DEF Ledger, ClosesLater
  <2>3. EndToCome' /\ ClosesLater'
    BY <1>1, <1>2, <2>1, <2>2 DEF Ledger, EndToCome, ClosesLater, ToldOf
  <2>4. OfTheServer' /\ ClosePending' /\ StoredIsOpen'
    BY <1>1, <2>1 DEF Ledger, OfTheServer, ClosePending, StoredIsOpen
  <2> QED
    BY <1>2, <2>1, <2>3, <2>4 DEF Ledger
<1>13. ASSUME CloseDone, connectionUuid' = None, UNCHANGED misdirected \/ misdirected' = {},
              \A r \in Records : recordState'[r] # "open"
       PROVE  Ledger'
  <2>1. /\ running' = "none"
        /\ UNCHANGED <<session, reports, wasConnected, tasks, serverUuid, recordOf, recordServer>>
    BY <1>13 DEF CloseDone
  <2>2. EndToCome' /\ ClosesLater' /\ ClosePending'
    BY <1>1, <1>2, <1>3, <1>13, <2>1 DEF Ledger, EndToCome, ClosesLater, ClosePending, ToldOf
  <2>3. OfTheServer' /\ StoredIsOpen'
    BY <1>1, <1>13, <2>1 DEF Ledger, OfTheServer, StoredIsOpen
  <2> QED
    BY <1>2, <1>13, <2>1, <2>2, <2>3 DEF Ledger
<1>14. CASE afterDisconnectVPN
  <2>1. /\ CloseDone /\ CloseRecord /\ connectionUuid' = None
        /\ request.uuid = connectionUuid /\ request.server = serverUuid
    BY <1>14 DEF afterDisconnectVPN, CloseDone, Ledger, StoredIsOpen
  <2>2. /\ connectionUuid \in Records
        /\ recordState' = [recordState EXCEPT ![connectionUuid] = "closed"]
        /\ recordOf[connectionUuid] = serverUuid /\ recordServer[connectionUuid] = serverUuid
    BY <2>1 DEF CloseRecord, Ledger, StoredIsOpen, TypeOK, Record
  <2>3. misdirected' = {}
    BY <2>1, <2>2 DEF CloseRecord, Misdirects, Ledger
  <2>4. \A r \in Records : recordState'[r] # "open"
    BY <2>2 DEF Ledger, StoredIsOpen, TypeOK
  <2> QED
    BY <1>13, <2>1, <2>3, <2>4
<1>15. CASE afterDisconnectVPNFails
  <2>1. CloseDone /\ request.uuid = None /\ UNCHANGED <<connectionUuid, recordState, misdirected>>
    BY <1>15 DEF afterDisconnectVPNFails, CloseRecord
  <2>2. connectionUuid = None
    BY <2>1 DEF CloseDone, Ledger, StoredIsOpen
  <2>3. \A r \in Records : recordState'[r] # "open"
    BY <2>1, <2>2, NoneAssumption DEF Ledger, StoredIsOpen
  <2> QED
    BY <1>13, <2>1, <2>2, <2>3
<1>16. ~deleteUserSettings
  BY DEF deleteUserSettings, NoLogout
<1> QED
  BY <1>7, <1>8, <1>9, <1>10, <1>11, <1>12, <1>14, <1>15, <1>16 DEF Executor

LEMMA LedgerStep == LedgerInv /\ [Next]_vars => LedgerInv'
<1> SUFFICES ASSUME LedgerInv, [Next]_vars PROVE LedgerInv'
  OBVIOUS
<1>1. OnceInv'
  BY OnceStep DEF LedgerInv
<1>2. ASSUME disturbed' = {} PROVE (Ledger /\ NoLogout)'
  <2>1. disturbed = {}
    BY <1>2, DisturbedGrows
  <2>2. TypeOK /\ FirstProcess /\ UuidsCreated /\ Bookkeeping /\ Once /\ Ledger /\ NoLogout
    BY <2>1 DEF LedgerInv, OnceInv, LiveInv, InOrder, Undivided
  <2>3. CASE UNCHANGED vars
    <3>1. \A k : Has(tasks, k)' = Has(tasks, k) /\ Has(reports, k)' = Has(reports, k)
      BY <2>3 DEF vars, taskVars, Has
    <3> QED
      BY <2>2, <2>3, <3>1
         DEF vars, sessionVars, serviceVars, hubVars, uiVars, taskVars, prefVars, recordVars, history,
             Ledger, NoLogout, EndToCome, ClosesLater, OfTheServer, ClosePending, StoredIsOpen, ToldOf,
             EndIsLast
  <2>4. CASE Next
    <3>1. NoLogout'
      BY <1>2, <2>2, <2>4, NoLogoutStep
    <3>2. Ledger'
      BY <1>2, <2>1, <2>2, <2>4, LedgerService, LedgerHub, LedgerUI, LedgerExecutor DEF Next
    <3> QED
      BY <3>1, <3>2
  <2> QED
    BY <2>3, <2>4
<1> QED
  BY <1>1, <1>2 DEF LedgerInv

LEMMA LedgerHolds == Spec => []LedgerInv
<1>1. Init => LedgerInv
  <2> SUFFICES ASSUME Init PROVE LedgerInv
    OBVIOUS
  <2>1. OnceInv
    BY OnceInit
  <2>2. 1..Len(reports) = {} /\ 1..Len(tasks) = {}
    BY EmptySeq, LenProperties DEF Init
  <2>3. ~Has(reports, "connected") /\ ~Has(tasks, "close") /\ ~Has(tasks, "logout")
    BY <2>2 DEF Has
  <2>4. ~wasConnected[activity]
    BY InitType DEF Init, TypeOK
  <2>5. StoredIsOpen
    BY NoneAssumption DEF Init, StoredIsOpen
  <2>6. Ledger /\ NoLogout
    BY <2>2, <2>3, <2>4, <2>5 DEF Init, Ledger, NoLogout, EndToCome, ClosesLater, OfTheServer, ClosePending,
                      ToldOf, EndIsLast
  <2> QED
    BY <2>1, <2>6 DEF LedgerInv
<1> QED
  BY <1>1, LedgerStep, PTL DEF Spec

(* While nothing disturbs, no request built from the two preferences reaches the *)
(* record of another session or the wrong server, although the preferences are   *)
(* overwritten by the hub's thread and the tasks without a lock.                 *)
THEOREM RequestsReachTheirRecord == Spec => []UpdatesReachTheirRecord
<1>1. LedgerInv => UpdatesReachTheirRecord
  BY DEF LedgerInv, Ledger, UpdatesReachTheirRecord
<1> QED
  BY <1>1, LedgerHolds, PTL

(* While nothing disturbs, a record is left open only as long as something is *)
(* still to be handled that closes it.                                        *)
THEOREM NoRecordLeftOpen == Spec => []IdleRecordsClosed
<1>1. LedgerInv => IdleRecordsClosed
  <2> SUFFICES ASSUME LedgerInv, disturbed = {}, Idle
               PROVE  connectionUuid = None /\ \A r \in Records : recordState[r] # "open"
    BY DEF IdleRecordsClosed
  <2>1. session = None /\ reports = <<>> /\ tasks = <<>> /\ running = "none"
    BY DEF Idle
  <2>2. ~Has(reports, "notconnected") /\ ~Has(tasks, "close")
    <3>1. 1..Len(<<>>) = {}
      BY EmptySeq, LenProperties
    <3> QED
      BY <2>1, <3>1 DEF Has
  <2>3. connectionUuid = None
    BY <2>1, <2>2 DEF LedgerInv, Ledger, EndToCome, ClosePending
  <2> QED
    BY <2>3, NoneAssumption DEF LedgerInv, Ledger, StoredIsOpen
<1> QED
  BY <1>1, LedgerHolds, PTL

=============================================================================
