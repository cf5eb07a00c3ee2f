-------------------------- MODULE ConnectionRecord --------------------------
(***************************************************************************)
(* The records the RailRoad service keeps of VPN connections.  The hub of  *)
(* the UI process (VpnStatus) is told of every change of the VPN by the    *)
(* service process; its listener, VPNActivity, opens a record when the VPN *)
(* is connected and queues a background task that closes it when the VPN   *)
(* is disconnected.  Requests may fail, and fail after they took effect.   *)
(*                                                                         *)
(* The preferences CONNECTION_UUID and SERVER_UUID are shared by the hub's *)
(* thread and the AsyncTasks, which run one at a time in their order.      *)
(* Either process may be killed and started again.                         *)
(***************************************************************************)
EXTENDS Naturals, Sequences

CONSTANTS
  Sessions, Records,
  None,           \* no session, no record, an empty preference
  MaxActivities,  \* bounds: activities created,
  MaxReports,     \* reports under way,
  MaxTasks        \* tasks queued by clicks

ASSUME NoneAssumption == None \notin Sessions /\ None \notin Records
ASSUME BoundsAssumption ==
  MaxActivities \in Nat \ {0} /\ MaxReports \in Nat /\ MaxTasks \in Nat

VARIABLES
  session, exiting, used,  \* service process: the session that is up, those whose
                           \* process has still to exit, those a task has picked
  reports, lastSent,       \* status messages on their way, and the last state of them
  unsent,                  \* those of a new service process no client has registered with
  sticky,                  \* Android is to start OpenVPNService again
  mLastLevel, posting,     \* the hub, and the createConnection its thread is in
  activity, wasConnected,  \* the listener and each activity's WAS_CONNECTED
  retriesUsedUp,           \* onChangeStatus has counted to its limit
  tasks, running, request, \* the AsyncTasks queued, the one running, its request
  connectionUuid, serverUuid,               \* preferences
  recordState, recordOf, recordServer,      \* the RailRoad service
  misdirected, disturbed                    \* history

sessionVars == <<session, exiting, used, sticky>>
serviceVars == <<sessionVars, lastSent, unsent>>
hubVars     == <<mLastLevel, posting, wasConnected>>
uiVars      == <<activity, retriesUsedUp>>
taskVars    == <<tasks, running, request>>
prefVars    == <<connectionUuid, serverUuid>>
recordVars  == <<recordState, recordOf, recordServer>>
history     == <<misdirected, disturbed>>
vars == <<serviceVars, reports, hubVars, uiVars, taskVars, prefVars, recordVars, history>>

Session    == Sessions \cup {None}
Record     == Records \cup {None}
Activities == 1..MaxActivities

(* "waiting" stands for the other two levels at which isVPNActive is false,  *)
(* "retry" for the CONNECTRETRY that exceeds the limit, "connecting" for the *)
(* rest.                                                                     *)
Level  == {"connected", "notconnected", "waiting", "connecting"}
Report == [kind : Level \cup {"retry", "bytes"}, of : Session]
Task   == [kind : {"connect", "cancelled", "close", "logout"}, by : Activities]
NoPost == [by |-> 0, of |-> None, server |-> None]
Post   == [by : Activities, of : Session, server : Session]

(* What can upset the bookkeeping: a start that is asked for before an earlier  *)
(* one is over, a request that fails, a new activity, a log-out, a new service  *)
(* process, a client that registers with it and is sent the last state first.   *)
Disturbance == {"overlap", "failure", "recreation", "logout", "restart", "lag"}

TypeOK ==
  /\ session \in Session /\ exiting \subseteq Sessions /\ used \subseteq Sessions
  /\ reports \in Seq(Report) /\ unsent \in Seq(Report) /\ lastSent \in Report
  /\ sticky \in BOOLEAN
  /\ mLastLevel \in Level /\ posting \in Post \cup {NoPost}
  /\ activity \in Activities /\ wasConnected \in [Activities -> BOOLEAN]
  /\ retriesUsedUp \in BOOLEAN
  /\ tasks \in Seq(Task)
  /\ running \in {"none", "connect", "chosen", "close", "logout"}
  /\ request \in [uuid : Record, server : Session]
  /\ connectionUuid \in Record /\ serverUuid \in Session
  /\ recordState \in [Records -> {"none", "open", "closed"}]
  /\ recordOf \in [Records -> Session] /\ recordServer \in [Records -> Session]
  /\ misdirected \subseteq Records /\ disturbed \subseteq Disturbance

NotConnected == [kind |-> "notconnected", of |-> None]

NoRequest == [uuid |-> None, server |-> None]

Init ==
  /\ session = None /\ exiting = {} /\ used = {}
  /\ reports = <<>> /\ lastSent = NotConnected /\ unsent = <<>> /\ sticky = FALSE
  /\ mLastLevel = "notconnected" /\ posting = NoPost
  /\ activity = 1 /\ wasConnected = [a \in Activities |-> FALSE]
  /\ retriesUsedUp = FALSE
  /\ tasks = <<>> /\ running = "none" /\ request = NoRequest
  /\ connectionUuid = None /\ serverUuid = None
  /\ recordState = [r \in Records |-> "none"]
  /\ recordOf = [r \in Records |-> None] /\ recordServer = [r \in Records |-> None]
  /\ misdirected = {} /\ disturbed = {}

-----------------------------------------------------------------------------
(* The service process.  Its messages go one way, through one handler, in order. *)
(* They do not say which session they are about; of is there for the history.    *)
Room == IF unsent = <<>> THEN Len(reports) < MaxReports ELSE Len(unsent) <= MaxReports

Sends(kind, s) ==
  LET message == [kind |-> kind, of |-> IF kind = "connected" THEN s ELSE None]
  IN  /\ lastSent' = message
      /\ \/ unsent = <<>> /\ reports' = Append(reports, message) /\ UNCHANGED unsent
         \/ unsent # <<>> /\ unsent' = Append(unsent, message) /\ UNCHANGED reports

(* The session that is up is connected, for the first time or again; has retried *)
(* too often; or waits for the user.                                             *)
Reports(kind) ==
  /\ session # None /\ Room
  /\ Sends(kind, session)
  /\ UNCHANGED <<sessionVars, hubVars, uiVars, taskVars, prefVars, recordVars, history>>

(* At least 1 MB since the last report; updateByteCount ignores less. *)
ReportsBytes ==
  /\ session # None /\ lastSent.kind = "connected" /\ unsent = <<>> /\ Room
  /\ reports' = Append(reports, [kind |-> "bytes", of |-> session])
  /\ UNCHANGED <<serviceVars, hubVars, uiVars, taskVars, prefVars, recordVars, history>>

(* EXITING, as the process stops; NOPROCESS, once it is gone. *)
SessionEnds ==
  /\ session # None /\ Room
  /\ Sends("notconnected", session)
  /\ session' = None /\ exiting' = exiting \cup {session}
  /\ UNCHANGED <<used, sticky, hubVars, uiVars, taskVars, prefVars, recordVars, history>>

ProcessExits(s) ==
  /\ s \in exiting /\ Room
  /\ exiting' = exiting \ {s}
  /\ Sends("notconnected", s)
  /\ UNCHANGED <<session, used, sticky, hubVars, uiVars, taskVars, prefVars, recordVars,
                 history>>

(* getRandomVPNServerUuid; the server stands for the session to be. *)
NewSession == CHOOSE s \in Sessions : s \notin used

(* The service process is killed, with the messages its handler has not sent, and     *)
(* created again for the client that is bound to it.  The state it begins with is     *)
(* NOPROCESS.  A service that was started is to be started again.                     *)
ServiceProcessDies ==
  /\ session' = None /\ exiting' = {} /\ sticky' = (session # None \/ exiting # {})
  /\ \E i \in 0..Len(reports) : reports' = SubSeq(reports, 1, i)
  /\ lastSent' = NotConnected /\ unsent' = <<NotConnected>>
  /\ disturbed' = disturbed \cup {"restart"}
  /\ UNCHANGED <<used, hubVars, uiVars, taskVars, prefVars, recordVars, misdirected>>

(* onStartCommand with a null intent: the profile connected last, where one is stored, *)
(* is connected again.  No task is involved and no preference is written.              *)
StickyStart ==
  /\ sticky /\ Room
  /\ sticky' = FALSE
  /\ Sends("connecting", None)
  /\ \/ UNCHANGED <<session, used>>
     \/ ~(Sessions \subseteq used) /\ session' = NewSession /\ used' = used \cup {NewSession}
  /\ UNCHANGED <<exiting, hubVars, uiVars, taskVars, prefVars, recordVars, history>>

(* The client binds to the new process.  registerStatusCallback sends it the last state *)
(* at once; what is then still in the handler comes after it, although it is older.     *)
ServiceConnected ==
  /\ unsent # <<>>
  /\ \E i \in 1..(Len(unsent) + 1) :
       LET rest == SubSeq(unsent, i, Len(unsent))
           lags == /\ lastSent.kind = "connected"
                   /\ \E j \in 1..Len(rest) : rest[j].kind = "notconnected"
       IN  /\ reports' = reports \o <<lastSent>> \o rest
           /\ disturbed' = IF lags THEN disturbed \cup {"lag"} ELSE disturbed
  /\ unsent' = <<>>
  /\ UNCHANGED <<sessionVars, lastSent, hubVars, uiVars, taskVars, prefVars, recordVars,
                 misdirected>>

-----------------------------------------------------------------------------
(* VpnStatus in the UI process.  updateStateString and updateByteCount hold its *)
(* lock while the listener runs, also through the listener's requests.          *)
HubFree == posting = NoPost

Receives(kind) ==
  /\ HubFree /\ reports # <<>> /\ Head(reports).kind = kind
  /\ reports' = Tail(reports)

(* onConnect.  The virtual address is the second of the fields separated by    *)
(* commas; where an IPv6 address is among them they are reduced to two without *)
(* a comma, and the exception ends the handler.                                *)
onConnect ==
  /\ Receives("connected")
  /\ mLastLevel' = "connected"
  /\ \/ /\ ~wasConnected[activity]
        /\ posting' = [by |-> activity, of |-> Head(reports).of, server |-> serverUuid]
     \/ UNCHANGED posting
  /\ UNCHANGED <<serviceVars, wasConnected, uiVars, taskVars, prefVars, recordVars, history>>

(* createConnection: refused, its answer lost, or done.  WAS_CONNECTED is set *)
(* whatever the outcome.                                                      *)
ConnectedDone ==
  /\ posting # NoPost
  /\ posting' = NoPost
  /\ wasConnected' = [wasConnected EXCEPT ![posting.by] = TRUE]
  /\ UNCHANGED <<serviceVars, reports, mLastLevel, uiVars, taskVars, serverUuid>>

NewRecord == CHOOSE r \in Records : recordState[r] = "none"

CreateRecord ==
  /\ \E r \in Records : recordState[r] = "none"
  /\ recordState' = [recordState EXCEPT ![NewRecord] = "open"]
  /\ recordOf' = [recordOf EXCEPT ![NewRecord] = posting.of]
  /\ recordServer' = [recordServer EXCEPT ![NewRecord] = posting.server]

(* Faulty: the arguments are swapped. *)
createConnectionSwapped ==
  /\ ConnectedDone /\ CreateRecord
  /\ connectionUuid' = posting.server
  /\ UNCHANGED history

createConnection ==
  /\ ConnectedDone /\ CreateRecord
  /\ connectionUuid' = NewRecord
  /\ UNCHANGED history

(* Faulty: WAS_CONNECTED is set after a success only. *)
FailsUnconnected ==
  /\ posting # NoPost /\ posting' = NoPost
  /\ disturbed' = disturbed \cup {"failure"}
  /\ UNCHANGED recordVars \/ CreateRecord
  /\ UNCHANGED <<serviceVars, reports, mLastLevel, wasConnected, uiVars, taskVars,
                 prefVars, misdirected>>

createConnectionFails ==
  /\ ConnectedDone
  /\ disturbed' = disturbed \cup {"failure"}
  /\ \/ UNCHANGED recordVars
     \/ CreateRecord
  /\ UNCHANGED <<connectionUuid, misdirected>>

(* Faulty: WAS_CONNECTED is reset before it is tested. *)
onDisconnectReset ==
  /\ mLastLevel' = "notconnected"
  /\ wasConnected' = [wasConnected EXCEPT ![activity] = FALSE]
  /\ UNCHANGED <<posting, tasks>>

(* updateStateString at LEVEL_NOTCONNECTED, with onDisconnect. *)
onDisconnect ==
  /\ mLastLevel' = "notconnected"
  /\ tasks' = IF wasConnected[activity]
              THEN Append(tasks, [kind |-> "close", by |-> activity]) ELSE tasks
  /\ wasConnected' = [wasConnected EXCEPT ![activity] = FALSE]
  /\ UNCHANGED posting

Disconnected ==
  /\ Receives("notconnected")
  /\ onDisconnect
  /\ UNCHANGED <<serviceVars, uiVars, running, request, prefVars, recordVars, history>>

(* onChangeStatus: the count is taken in a job of the UI thread.  (WAIT and AUTH are *)
(* dropped while connected, which is as active as connecting.)                       *)
onChangeStatus ==
  /\ \/ Receives("waiting") /\ mLastLevel' = "waiting" /\ UNCHANGED retriesUsedUp
     \/ Receives("connecting") /\ mLastLevel' = "connecting" /\ UNCHANGED retriesUsedUp
     \/ Receives("retry") /\ mLastLevel' = "connecting" /\ retriesUsedUp' = TRUE
  /\ UNCHANGED <<serviceVars, posting, wasConnected, activity, taskVars, prefVars,
                 recordVars, history>>

(* A request about record r through server s reaches the wrong one. *)
Misdirects(r, of, server) ==
  IF recordOf[r] = of /\ recordServer[r] = server THEN {} ELSE {r}

(* updateByteCount of the listener, unless a preference is empty. *)
updateByteCount ==
  /\ Receives("bytes")
  /\ misdirected' = misdirected \cup
       (IF connectionUuid # None /\ serverUuid # None
        THEN Misdirects(connectionUuid, Head(reports).of, serverUuid) ELSE {})
  /\ UNCHANGED <<serviceVars, hubVars, uiVars, taskVars, prefVars, recordVars, disturbed>>

-----------------------------------------------------------------------------
(* The activity. *)
Cancelled ==
  [i \in DOMAIN tasks |-> IF tasks[i] = [kind |-> "connect", by |-> activity]
                          THEN [tasks[i] EXCEPT !.kind = "cancelled"] ELSE tasks[i]]

(* The sessions before are over, and no start of another is under way. *)
Quiet ==
  /\ session = None /\ exiting = {} /\ ~sticky
  /\ reports = <<>> /\ unsent = <<>> /\ HubFree
  /\ running \notin {"connect", "chosen"}
  /\ \A i \in DOMAIN tasks : Cancelled[i].kind # "connect"

connectToVPN ==
  /\ tasks' = Append(Cancelled, [kind |-> "connect", by |-> activity])
  /\ disturbed' = IF Quiet THEN disturbed ELSE disturbed \cup {"overlap"}

isVPNActive == mLastLevel \notin {"notconnected", "waiting"}

(* vpnPreparePermissionIntent takes the hub's lock and sets USER_VPN_PERMISSION; where *)
(* Android asks for the permission the user grants it at once.                         *)
ClickConnect ==
  /\ HubFree /\ ~isVPNActive /\ Len(tasks) < MaxTasks
  /\ mLastLevel' = "waiting"
  /\ connectToVPN
  /\ UNCHANGED <<serviceVars, reports, posting, wasConnected, uiVars, running, request,
                 prefVars, recordVars, misdirected>>

(* The dialog stops the VPN: SessionEnds, at any time. *)
showDisconnectDialogVPN ==
  /\ isVPNActive /\ Cancelled # tasks
  /\ tasks' = Cancelled
  /\ UNCHANGED <<serviceVars, reports, hubVars, uiVars, running, request, prefVars,
                 recordVars, history>>

(* Stops the VPN and connects to another server. *)
RetriesUsedUp ==
  /\ retriesUsedUp /\ Len(tasks) < MaxTasks
  /\ retriesUsedUp' = FALSE
  /\ connectToVPN
  /\ UNCHANGED <<serviceVars, reports, hubVars, activity, running, request, prefVars,
                 recordVars, misdirected>>

logoutUser ==
  /\ Len(tasks) < MaxTasks
  /\ tasks' = Append(tasks, [kind |-> "logout", by |-> activity])
  /\ disturbed' = disturbed \cup {"logout"}
  /\ UNCHANGED <<serviceVars, reports, hubVars, uiVars, running, request, prefVars,
                 recordVars, misdirected>>

(* Another instance becomes the listener; its WAS_CONNECTED is FALSE. *)
NewActivity ==
  /\ activity < MaxActivities
  /\ activity' = activity + 1
  /\ disturbed' = disturbed \cup {"recreation"}
  /\ UNCHANGED <<serviceVars, prefVars, recordVars, misdirected>>

onCreate ==
  /\ NewActivity
  /\ UNCHANGED <<reports, hubVars, retriesUsedUp, taskVars>>

(* The UI process is killed and started again.  registerStatusCallback sends the *)
(* last state, before the activity is there to listen or after; messages still   *)
(* in the service's handler follow, unless that process is gone.                 *)
UIProcessRestarts ==
  /\ NewActivity
  /\ posting' = NoPost /\ retriesUsedUp' = FALSE
  /\ tasks' = <<>> /\ running' = "none" /\ request' = NoRequest
  /\ \/ unsent = <<>> /\ \E i \in 1..(Len(reports) + 1) :
          LET rest == SubSeq(reports, i, Len(reports))
          IN  \/ reports' = rest
              \/ reports' = <<lastSent>> \o rest
     \/ unsent # <<>> /\ reports' = <<>>
  /\ mLastLevel' = "notconnected"
  /\ UNCHANGED wasConnected

-----------------------------------------------------------------------------
(* The AsyncTasks, on the executor that runs one after the other. *)
(* Faulty: the executor does not keep the order of the tasks. *)
TakesNewest(kind) ==
  /\ running = "none" /\ tasks # <<>> /\ tasks[Len(tasks)].kind = kind
  /\ tasks' = SubSeq(tasks, 1, Len(tasks) - 1)
  /\ UNCHANGED <<serviceVars, reports, hubVars, uiVars, prefVars, recordVars, history>>

Takes(kind) ==
  /\ running = "none" /\ tasks # <<>> /\ Head(tasks).kind = kind
  /\ tasks' = Tail(tasks)
  /\ UNCHANGED <<serviceVars, reports, hubVars, uiVars, prefVars, recordVars, history>>

ConnectTask == Takes("connect") /\ running' = "connect" /\ UNCHANGED request

SkipTask == Takes("cancelled") /\ UNCHANGED <<running, request>>

ChooseServer ==
  /\ running = "connect" /\ ~(Sessions \subseteq used)
  /\ running' = "chosen"
  /\ used' = used \cup {NewSession} /\ serverUuid' = NewSession
  /\ UNCHANGED <<session, exiting, sticky, lastSent, unsent, reports, hubVars, uiVars, tasks,
                 request, connectionUuid, recordVars, history>>

(* The device is not active, or the profile is not usable. *)
ConnectRefused ==
  /\ running \in {"connect", "chosen"}
  /\ running' = "none"
  /\ UNCHANGED <<serviceVars, reports, hubVars, uiVars, tasks, request, prefVars,
                 recordVars, history>>

(* An exception of a request: the task itself reports NOPROCESS to the hub. *)
ConnectFails ==
  /\ running \in {"connect", "chosen"} /\ HubFree
  /\ running' = "none"
  /\ onDisconnect
  /\ UNCHANGED <<serviceVars, reports, uiVars, request, prefVars, recordVars, history>>

(* The service reports that it builds the configuration, and replaces a session *)
(* that is still up, which may still report its end or not.                     *)
StartSession ==
  /\ running = "chosen"
  /\ running' = "none"
  /\ session' = serverUuid
  /\ exiting' \in {exiting, exiting \cup ({session} \ {None})}
  /\ sticky' = FALSE
  /\ Sends("connecting", serverUuid)
  /\ UNCHANGED <<used, hubVars, uiVars, tasks, request, prefVars, recordVars, history>>

(* afterDisconnectVPN reads the preferences when the task runs. *)
AfterDisconnectVPNTask ==
  /\ Takes("close")
  /\ running' = "close"
  /\ request' = [uuid |-> connectionUuid, server |-> serverUuid]

CloseDone ==
  /\ running = "close"
  /\ running' = "none" /\ request' = NoRequest
  /\ UNCHANGED <<serviceVars, reports, hubVars, uiVars, tasks, serverUuid, recordOf,
                 recordServer>>

CloseRecord ==
  /\ request.uuid # None
  /\ recordState' = [recordState EXCEPT ![request.uuid] = "closed"]
  /\ misdirected' = misdirected \cup
                      Misdirects(request.uuid, recordOf[request.uuid], request.server)

(* Faulty: the UUID stays stored. *)
afterDisconnectKeepsUuid ==
  /\ CloseDone /\ CloseRecord
  /\ UNCHANGED <<connectionUuid, disturbed>>

(* updateConnection with is_connected false. *)
afterDisconnectVPN ==
  /\ CloseDone /\ CloseRecord
  /\ connectionUuid' = None
  /\ UNCHANGED disturbed

(* Refused (always, without a UUID), or its answer is lost. *)
afterDisconnectVPNFails ==
  /\ CloseDone
  /\ \/ UNCHANGED <<recordState, misdirected>>
     \/ CloseRecord
  /\ disturbed' = IF request.uuid = None THEN disturbed ELSE disturbed \cup {"failure"}
  /\ UNCHANGED connectionUuid

LogoutTask == Takes("logout") /\ running' = "logout" /\ UNCHANGED request

(* The preferences are cleared whatever the request's outcome. *)
deleteUserSettings ==
  /\ running = "logout"
  /\ running' = "none"
  /\ connectionUuid' = None /\ serverUuid' = None
  /\ UNCHANGED <<serviceVars, reports, hubVars, uiVars, tasks, request, recordVars, history>>

-----------------------------------------------------------------------------
Service ==
  \/ \E kind \in {"connected", "connecting", "retry", "waiting"} : Reports(kind)
  \/ ReportsBytes
  \/ SessionEnds
  \/ \E s \in Sessions : ProcessExits(s)
  \/ ServiceProcessDies
  \/ StickyStart
  \/ ServiceConnected

Hub ==
  \/ onConnect
  \/ createConnection
  \/ createConnectionFails
  \/ Disconnected
  \/ onChangeStatus
  \/ updateByteCount

UI ==
  \/ ClickConnect
  \/ showDisconnectDialogVPN
  \/ RetriesUsedUp
  \/ logoutUser
  \/ onCreate
  \/ UIProcessRestarts

Executor ==
  \/ ConnectTask
  \/ SkipTask
  \/ ChooseServer
  \/ ConnectRefused
  \/ ConnectFails
  \/ StartSession
  \/ AfterDisconnectVPNTask
  \/ afterDisconnectVPN
  \/ afterDisconnectVPNFails
  \/ LogoutTask
  \/ deleteUserSettings

Next == Service \/ Hub \/ UI \/ Executor

Spec == Init /\ [][Next]_vars

-----------------------------------------------------------------------------
Created(r) == recordState[r] # "none"

(* Whatever requests fail, activities are created again or the UI process restarts:  *)
(* the record of the session that is up is never closed, unless starts have          *)
(* overlapped.  It rests on the order of the hub's and the executor's queues: the    *)
(* task that closes one record and the listener that opens the next use one          *)
(* CONNECTION_UUID.  A service that Android starts again is out of that order: the   *)
(* NOPROCESS of its new process queues a close, and the CONNECTED of the session it  *)
(* starts may store the next record's UUID before the task reads it.                 *)
LiveRecordStaysOpen ==
  disturbed \cap {"overlap", "restart"} = {} =>
    \A r \in Records :
      session # None /\ Created(r) /\ recordOf[r] = session => recordState[r] = "open"

(* "VPN was connected, but reconnected, don't create new connection". *)
ReconnectCreatesNoRecord ==
  \A q, r \in Records : Created(q) /\ Created(r) /\ recordOf[q] = recordOf[r] => q = r

(* So it is, while the activity lives and starts do not overlap, also when requests *)
(* fail or their answers are lost and the service is killed and started again, but  *)
(* for a client that is told CONNECTED, and then the NOPROCESS from before it.      *)
OneRecordPerSession ==
  disturbed \cap {"overlap", "recreation", "lag"} = {} => ReconnectCreatesNoRecord

(* Undisturbed, traffic is added to the record of the session it belongs to, and    *)
(* every request names the server the record was created under, although it is built *)
(* from preferences that tasks and hub overwrite.                                    *)
UpdatesReachTheirRecord == disturbed = {} => misdirected = {}

(* Undisturbed, no record is left open when no session is up and nothing is left to *)
(* handle, and the stored UUID is gone with the last.                               *)
Idle ==
  /\ session = None /\ reports = <<>> /\ unsent = <<>> /\ HubFree
  /\ tasks = <<>> /\ running = "none"

IdleRecordsClosed ==
  disturbed = {} /\ Idle =>
    connectionUuid = None /\ \A r \in Records : recordState[r] # "open"

=============================================================================
