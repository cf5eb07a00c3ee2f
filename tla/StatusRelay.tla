----------------------------- MODULE StatusRelay -----------------------------
(***************************************************************************)
(* How the status and the log of the VPN reach the process of the user     *)
(* interface: VpnStatus in the process of the VPN service, the             *)
(* OpenVPNStatusService there, and the StatusListener of one client.       *)
(*                                                                         *)
(* newLogItem and updateStateString are synchronized; what the listeners   *)
(* hear is posted to the handler of the main thread, which calls the       *)
(* registered client back (one-way calls, received in order).  A client    *)
(* registers on a binder thread and gets the log so far through a pipe.    *)
(* The client writes its own VpnStatus as well, when it is to connect.     *)
(* Lines are numbered; the order in the client's buffer, the trimming of   *)
(* buffers, the lines the client logs itself, byte counts and the          *)
(* connected profile are left out.                                         *)
(***************************************************************************)
EXTENDS Integers, Sequences

CONSTANTS
  States,                             \* what the OpenVPN process reports
  MaxLines, MaxUpdates, MaxCrashes,   \* bounds on what the service does
  MaxConnects                         \* bound on what the user does

Ignorable == {"WAIT", "AUTH"}

(* Those isVPNActive() does not count as active. *)
Inactive ==
  {"NOPROCESS", "DISCONNECTED", "EXITING", "AUTH_FAILED", "NEED", "USER_VPN_PERMISSION"}

ASSUME RelayAssumption ==
  /\ MaxLines \in Nat /\ MaxUpdates \in Nat /\ MaxCrashes \in Nat /\ MaxConnects \in Nat

VARIABLES
  (* the process of the VPN service *)
  mLaststate, logbuffer,
  readFileLog,          \* the log cache on disk has been read
  created,              \* OpenVPNStatusService listens to VpnStatus
  mLastUpdateMessage,   \* {} or the state of the last update
  queue,                \* messages of mHandler
  registering,          \* the binder thread in registerStatusCallback, or "no"
  copied,               \* its copy of the log, then what pushLogs has to write
  registered,           \* mCallbacks has the client
  pushLogs,             \* the thread that fills the pipe runs
  (* on the way to the client *)
  calls, pipe,
  (* the client *)
  onServiceConnected,   \* "unbound", "register", "read" or "done"
  shown, clientLog,     \* its own VpnStatus
  tasks,                \* ConnectVPNTasks that may still write
  (* history and bounds *)
  connects, lines, updates, crashes,
  missed,               \* lines handled between the copy and the registration,
                        \* and those the client had when it cleared its log
  astray                \* the client may follow no update of the present service

statusVars == <<mLaststate, logbuffer, readFileLog>>
serviceVars == <<created, mLastUpdateMessage, queue>>
registerVars == <<registering, copied, registered, pushLogs>>
channelVars == <<calls, pipe>>
clientVars == <<onServiceConnected, shown, clientLog, tasks, connects>>
historyVars == <<lines, updates, crashes, missed, astray>>
vars == <<statusVars, serviceVars, registerVars, channelVars, clientVars, historyVars>>

-----------------------------------------------------------------------------
LogMessage(line) == [what |-> "log", line |-> line]
StateMessage(state) == [what |-> "state", state |-> state]

(* Workaround of updateStateString: ignored while connected. *)
Ignores(state, new) == state = "CONNECTED" /\ new \in Ignorable

ProcessStarted ==
  /\ mLaststate = "NOPROCESS" /\ logbuffer = {} /\ readFileLog = FALSE
  /\ created = FALSE /\ mLastUpdateMessage = {} /\ queue = <<>>
  /\ registering = "no" /\ copied = {} /\ registered = FALSE /\ pushLogs = FALSE

Init ==
  /\ ProcessStarted
  /\ calls = <<>> /\ pipe = <<>>
  /\ onServiceConnected = "unbound" /\ shown = "NOPROCESS" /\ clientLog = {}
  /\ tasks = 0 /\ connects = 0
  /\ lines = 0 /\ updates = 0 /\ crashes = 0 /\ missed = {} /\ astray = FALSE

(* Listeners are told within the call; the service's posts a message. *)
Post(message) == queue' = IF created THEN Append(queue, message) ELSE queue

(* Faulty variant: the line is posted under the number of the one before. *)
AddLineMisnumbered ==
  /\ lines < MaxLines
  /\ lines' = lines + 1
  /\ logbuffer' = logbuffer \cup {lines'}
  /\ Post(LogMessage(lines))
  /\ UNCHANGED <<mLaststate, mLastUpdateMessage>>

AddLine ==
  /\ lines < MaxLines
  /\ lines' = lines + 1
  /\ logbuffer' = logbuffer \cup {lines'}
  /\ Post(LogMessage(lines'))
  /\ UNCHANGED <<mLaststate, mLastUpdateMessage>>

newLogItem ==
  /\ AddLine
  /\ UNCHANGED <<readFileLog, created, registerVars, channelVars, clientVars,
                 updates, crashes, missed, astray>>

updateStateString ==
  /\ updates < MaxUpdates
  /\ updates' = updates + 1
  /\ \E state \in States :
       \/ Ignores(mLaststate, state) /\ AddLine
       \/ /\ ~Ignores(mLaststate, state)
          /\ mLaststate' = state
          /\ mLastUpdateMessage' = IF created THEN {state} ELSE mLastUpdateMessage
          /\ Post(StateMessage(state))
          /\ UNCHANGED <<logbuffer, lines>>
  /\ UNCHANGED <<readFileLog, created, registerVars, channelVars, clientVars,
                 crashes, missed, astray>>

(* LogFileHandler wakes the threads that wait for the cache. *)
LogCacheRead ==
  /\ ~readFileLog
  /\ readFileLog' = TRUE
  /\ UNCHANGED <<mLaststate, logbuffer, serviceVars, registerVars, channelVars,
                 clientVars, historyVars>>

(* onCreate: addStateListener tells the new listener the last state. *)
onCreate ==
  /\ ~created
  /\ created' = TRUE
  /\ mLastUpdateMessage' = {mLaststate}
  /\ queue' = Append(queue, StateMessage(mLaststate))
  /\ UNCHANGED <<statusVars, registerVars, channelVars, clientVars, historyVars>>

-----------------------------------------------------------------------------
(* registerStatusCallback, a step at a time *)

CopyLog ==
  /\ onServiceConnected = "register" /\ registering = "no"
  /\ registering' = "copied"
  /\ copied' = logbuffer
  /\ missed' = {}
  /\ UNCHANGED <<statusVars, serviceVars, registered, pushLogs, channelVars, clientVars,
                 lines, updates, crashes, astray>>

(* The update brings the client back on course, unless it may ignore it. *)
OnCourse(state) == IF state \in Ignorable THEN astray ELSE FALSE

(* Faulty variant: the last update is not sent. *)
SendNothing ==
  /\ registering = "copied"
  /\ registering' = "sent"
  /\ UNCHANGED <<statusVars, serviceVars, copied, registered, pushLogs, channelVars,
                 clientVars, historyVars>>

SendLastUpdate ==
  /\ registering = "copied"
  /\ registering' = "sent"
  /\ \E state \in mLastUpdateMessage :
       /\ calls' = Append(calls, StateMessage(state))
       /\ astray' = OnCourse(state)
  /\ UNCHANGED <<statusVars, serviceVars, copied, registered, pushLogs, pipe, clientVars,
                 lines, updates, crashes, missed>>

Register ==
  /\ registering = "sent"
  /\ registering' = "registered"
  /\ registered' = TRUE
  /\ UNCHANGED <<statusVars, serviceVars, copied, pushLogs, channelVars, clientVars,
                 historyVars>>

(* createPipe, the thread is started, and the call returns. *)
ReturnPipe ==
  /\ registering = "registered"
  /\ registering' = "no"
  /\ pushLogs' = TRUE
  /\ onServiceConnected' = "read"
  /\ UNCHANGED <<statusVars, serviceVars, copied, registered, channelVars, shown, clientLog,
                 tasks, connects, historyVars>>

(* Without a pipe the client has no log, but the registration stands. *)
PipeFails ==
  /\ registering = "registered"
  /\ registering' = "no"
  /\ copied' = {} /\ missed' = missed \cup copied
  /\ onServiceConnected' = "done"
  /\ UNCHANGED <<statusVars, serviceVars, registered, pushLogs, channelVars, shown,
                 clientLog, tasks, connects, lines, updates, crashes, astray>>

PushLine ==
  /\ pushLogs /\ readFileLog
  /\ \E line \in copied :
       /\ \A other \in copied : line <= other
       /\ pipe' = Append(pipe, line)
       /\ copied' = copied \ {line}
  /\ UNCHANGED <<statusVars, serviceVars, registering, registered, pushLogs, calls,
                 clientVars, historyVars>>

(* The end mark, which is no line. *)
EndMark == 0

(* Faulty variant: interrupted, the thread ends the log at once. *)
PushEndEarly ==
  /\ pushLogs
  /\ copied' = {}
  /\ pipe' = Append(pipe, EndMark)
  /\ pushLogs' = FALSE
  /\ UNCHANGED <<statusVars, serviceVars, registering, registered, calls, clientVars,
                 historyVars>>

PushEnd ==
  /\ pushLogs /\ readFileLog /\ copied = {}
  /\ pipe' = Append(pipe, EndMark)
  /\ pushLogs' = FALSE
  /\ UNCHANGED <<statusVars, serviceVars, registering, copied, registered, calls,
                 clientVars, historyVars>>

-----------------------------------------------------------------------------
(* mHandler, on the main thread *)

Message == Head(queue)

Broadcast ==
  /\ queue # <<>> /\ registered
  /\ queue' = Tail(queue)
  /\ calls' = Append(calls, Message)
  /\ astray' = IF Message.what = "state" THEN OnCourse(Message.state) ELSE astray
  /\ UNCHANGED <<statusVars, created, mLastUpdateMessage, registerVars, pipe, clientVars,
                 lines, updates, crashes, missed>>

(* With nobody registered the message is gone; a line the client's copy    *)
(* does not have, and an update after the last one sent, are lost to it.   *)
BroadcastToNobody ==
  /\ queue # <<>> /\ ~registered
  /\ queue' = Tail(queue)
  /\ missed' = IF Message.what = "log" /\ registering # "no" /\ Message.line \notin copied
               THEN missed \cup {Message.line}
               ELSE missed
  /\ astray' = (astray \/ (Message.what = "state" /\ registering = "sent"))
  /\ UNCHANGED <<statusVars, created, mLastUpdateMessage, registerVars, channelVars,
                 clientVars, lines, updates, crashes>>

-----------------------------------------------------------------------------
(* The client *)

(* bindService creates the service; the main thread then registers. *)
Bound ==
  /\ onServiceConnected = "unbound" /\ created
  /\ onServiceConnected' = "register"
  /\ UNCHANGED <<statusVars, serviceVars, registerVars, channelVars, shown, clientLog,
                 tasks, connects, historyVars>>

(* Faulty variant: the client reads the first line for ever. *)
ReadLineAgain ==
  /\ onServiceConnected = "read" /\ pipe # <<>> /\ Head(pipe) # EndMark
  /\ clientLog' = clientLog \cup {Head(pipe)}
  /\ UNCHANGED <<statusVars, serviceVars, registerVars, channelVars, onServiceConnected,
                 shown, tasks, connects, historyVars>>

ReadLine ==
  /\ onServiceConnected = "read" /\ pipe # <<>> /\ Head(pipe) # EndMark
  /\ clientLog' = clientLog \cup {Head(pipe)}
  /\ pipe' = Tail(pipe)
  /\ UNCHANGED <<statusVars, serviceVars, registerVars, calls, onServiceConnected, shown,
                 tasks, connects, historyVars>>

ReadEnd ==
  /\ onServiceConnected = "read" /\ pipe # <<>> /\ Head(pipe) = EndMark
  /\ onServiceConnected' = "done"
  /\ pipe' = Tail(pipe)
  /\ UNCHANGED <<statusVars, serviceVars, registerVars, calls, shown, clientLog, tasks, connects,
                 historyVars>>

(* mCallback, on a binder thread: the client's VpnStatus has the workaround *)
(* as well.                                                                *)
CallReceived ==
  /\ calls # <<>>
  /\ calls' = Tail(calls)
  /\ LET call == Head(calls)
     IN  /\ shown' = IF call.what = "state" /\ ~Ignores(shown, call.state)
                     THEN call.state
                     ELSE shown
         /\ clientLog' = IF call.what = "log" THEN clientLog \cup {call.line} ELSE clientLog
  /\ UNCHANGED <<statusVars, serviceVars, registerVars, pipe, onServiceConnected,
                 tasks, connects, historyVars>>

-----------------------------------------------------------------------------
(* The client's own writes *)

NoStateIn(seq) == \A i \in 1 .. Len(seq) : seq[i].what # "state"

(* The last update the service has for the client was received. *)
HeardAll ==
  /\ registered \/ registering \in {"sent", "registered"}
  /\ NoStateIn(queue) /\ NoStateIn(calls)

(* A state of the client's own replaces what it was told. *)
Shows(state) ==
  /\ shown' = state
  /\ astray' = (astray \/ HeardAll)

(* A click on the button while the VPN is not active executes a task; if   *)
(* the user has to give the permission and refuses it, if the task is      *)
(* cancelled or the device refused, nothing more is written: the task is   *)
(* left where it is.                                                       *)
vpnPreparePermissionIntent ==
  /\ connects < MaxConnects
  /\ connects' = connects + 1
  /\ shown \in Inactive
  /\ Shows("USER_VPN_PERMISSION")
  /\ tasks' = tasks + 1
  /\ UNCHANGED <<statusVars, serviceVars, registerVars, channelVars, onServiceConnected,
                 clientLog, lines, updates, crashes, missed>>

(* The client gives up after some CONNECTRETRYs, which are not counted     *)
(* here, and connects again.                                               *)
connectAgain ==
  /\ connects < MaxConnects
  /\ connects' = connects + 1
  /\ tasks' = tasks + 1
  /\ UNCHANGED <<statusVars, serviceVars, registerVars, channelVars, onServiceConnected,
                 shown, clientLog, historyVars>>

(* ConnectVPNTask has no server or no profile. *)
ConnectFails ==
  /\ tasks > 0
  /\ tasks' = tasks - 1
  /\ Shows("NOPROCESS")
  /\ UNCHANGED <<statusVars, serviceVars, registerVars, channelVars, onServiceConnected,
                 clientLog, connects, lines, updates, crashes, missed>>

(* clearLog, before the service is started. *)
prepareToConnectVPN ==
  /\ tasks > 0
  /\ tasks' = tasks - 1
  /\ clientLog' = {} /\ missed' = missed \cup clientLog
  /\ UNCHANGED <<statusVars, serviceVars, registerVars, channelVars, onServiceConnected,
                 shown, connects, lines, updates, crashes, astray>>

-----------------------------------------------------------------------------
(* The process of the service dies and Android starts and binds it again.  *)
(* Calls sent are still received; the pipe ends without its mark, so what  *)
(* the client still reads of it is lost with it.                           *)
Crash ==
  /\ crashes < MaxCrashes
  /\ crashes' = crashes + 1
  /\ mLaststate' = "NOPROCESS" /\ logbuffer' = {} /\ readFileLog' = FALSE
  /\ created' = FALSE /\ mLastUpdateMessage' = {} /\ queue' = <<>>
  /\ registering' = "no" /\ copied' = {} /\ registered' = FALSE /\ pushLogs' = FALSE
  /\ pipe' = <<>>
  /\ onServiceConnected' = "unbound"
  /\ astray' = TRUE /\ missed' = {}
  /\ UNCHANGED <<calls, shown, clientLog, tasks, connects, lines, updates>>

-----------------------------------------------------------------------------
Binder == CopyLog \/ SendLastUpdate \/ Register \/ ReturnPipe \/ PipeFails
PushThread == PushLine \/ PushEnd
Handler == Broadcast \/ BroadcastToNobody
MainThread == Bound \/ ReadLine \/ ReadEnd
Connecting ==
  \/ vpnPreparePermissionIntent \/ connectAgain
  \/ ConnectFails \/ prepareToConnectVPN

Next ==
  \/ newLogItem \/ updateStateString \/ LogCacheRead \/ onCreate
  \/ Binder \/ PushThread \/ Handler
  \/ MainThread \/ CallReceived \/ Connecting \/ Crash

(* Every thread gets to run; nothing makes the VPN report or log, or the   *)
(* user connect.                                                           *)
Spec ==
  /\ Init /\ [][Next]_vars
  /\ WF_vars(LogCacheRead) /\ WF_vars(onCreate)
  /\ WF_vars(Binder) /\ WF_vars(PushThread) /\ WF_vars(Handler)
  /\ WF_vars(MainThread) /\ WF_vars(CallReceived)

-----------------------------------------------------------------------------
(* Properties *)

RangeOf(seq) == {seq[i] : i \in 1 .. Len(seq)}

LinesIn(seq) == {seq[i].line : i \in {i \in 1 .. Len(seq) : seq[i].what = "log"}}

IsMessage(m) ==
  \/ \E line \in 1 .. lines : m = LogMessage(line)
  \/ \E state \in States \cup {"NOPROCESS"} : m = StateMessage(state)

(* The variables keep to their values; no line reaches any place before it *)
(* is logged.                                                              *)
TypeOK ==
  /\ mLaststate \in States \cup {"NOPROCESS"}
  /\ shown \in States \cup {"NOPROCESS", "USER_VPN_PERMISSION"}
  /\ logbuffer \subseteq 1 .. lines /\ copied \subseteq logbuffer
  /\ clientLog \subseteq 1 .. lines /\ missed \subseteq 1 .. lines
  /\ mLastUpdateMessage \subseteq States \cup {"NOPROCESS"}
  /\ \A m \in RangeOf(queue) \cup RangeOf(calls) : IsMessage(m)
  /\ RangeOf(pipe) \subseteq 0 .. lines
  /\ registering \in {"no", "copied", "sent", "registered"}
  /\ onServiceConnected \in {"unbound", "register", "read", "done"}
  /\ {readFileLog, created, registered, pushLogs, astray} \subseteq BOOLEAN
  /\ lines \in 0 .. MaxLines /\ updates \in 0 .. MaxUpdates /\ crashes \in 0 .. MaxCrashes
  /\ connects \in 0 .. MaxConnects /\ tasks \in 0 .. connects

OnTheWay == LinesIn(queue) \cup LinesIn(calls) \cup copied \cup RangeOf(pipe)

(* Once the client is registered every line of the service's buffer has    *)
(* reached it or is on its way, by the pipe or by a call: only lines the   *)
(* main thread handles between the copy and the registration are lost, and *)
(* only those that had reached it go when it clears its log to connect.    *)
LinesLostOnlyInGap ==
  registered => logbuffer \subseteq clientLog \cup OnTheWay \cup missed

(* A registered client that has no update to come shows the state of the   *)
(* service, whatever it has written itself while one was on the way; but   *)
(* not where it went astray: an update was handled between the last one    *)
(* sent and the registration, the service is a new process, or the client  *)
(* has asked for the permission or failed to connect after the last update *)
(* was received, and nothing but WAIT or AUTH was sent to it since.        *)
AgreesWhenSettled ==
  (registered /\ ~astray /\ NoStateIn(queue) /\ NoStateIn(calls)) => shown = mLaststate

(* A client that is registered and ends not astray ends with the state of  *)
(* the service and its whole log, but for the lines missed or cleared.     *)
EventuallyUpToDate ==
  <>[](registered /\ ~astray) =>
    <>[](shown = mLaststate /\ logbuffer \subseteq clientLog \cup missed)

=============================================================================
