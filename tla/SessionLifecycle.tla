-------------------------- MODULE SessionLifecycle --------------------------
(***************************************************************************)
(* The life of a VPN session in net.rroadvpn.openvpn.core.OpenVPNService:  *)
(* a start command starts a thread that replaces the previous session by a *)
(* new management thread and a new OpenVPN process; the end of a process,  *)
(* a revocation or a failed start ends the service.                        *)
(*                                                                         *)
(* Main looper, starters, process threads, management threads and the      *)
(* processes run concurrently and share the service's fields.  Time is not *)
(* modelled: a wait of one second for a process to exit guarantees nothing.*)
(***************************************************************************)

CONSTANTS
  Sessions,  \* the start commands; each names its starter, threads and process
  NoSession  \* null

ASSUME SessionsAssumption == NoSession \notin Sessions

VARIABLES
  startRequested, destroyed,  \* Android's view of the service
  mStarting, mManagement, mOpenVPNThread, mProcessThread,
  mDeviceStateReceiver, registered, drives,
                 \* the receiver of a register job, the receivers Android knows,
                 \* and the management object each was made for
  looper,        \* the endVpnService of the main looper
  posted,        \* the register jobs posted on the main looper
  starter,       \* where each session's startOpenVPN is
  thread,        \* where each session's OpenVPNThread is
  replaced,      \* the OpenVPNThreads with mNoProcessExitStatus
  process,
  manager, peer, \* the management threads and the processes they accepted
  path,          \* the management thread whose server socket is on the path
  active

serviceVars  == <<startRequested, destroyed, mStarting>>
sessionVars  == <<mManagement, mOpenVPNThread, mProcessThread>>
receiverVars == <<mDeviceStateReceiver, registered, drives, posted>>
threadVars   == <<looper, starter, thread, replaced>>
socketVars   == <<process, manager, peer, path, active>>
vars == <<serviceVars, sessionVars, receiverVars, threadVars, socketVars>>

Session == Sessions \cup {NoSession}

Ending == {"clear", "unregister", "forget", "stopSelf"}

Starting == {"replace", "stopOld", "open", "create", "spawn"}

TypeOK ==
  /\ startRequested \in BOOLEAN /\ destroyed \in BOOLEAN /\ mStarting \in BOOLEAN
  /\ mManagement \in Session
  /\ mOpenVPNThread \in Session /\ mProcessThread \in Session
  /\ mDeviceStateReceiver \in Session
  /\ registered \subseteq Sessions /\ posted \subseteq Sessions
  /\ drives \in [Sessions -> Session]
  /\ looper \in Ending \cup {"done"}
  /\ starter \in [Sessions -> Starting \cup Ending \cup {"none", "config", "post", "done"}]
  /\ thread \in [Sessions -> Ending \cup {"none", "running", "done"}]
  /\ replaced \subseteq Sessions
  /\ process \in [Sessions -> {"none", "started", "connected", "told", "exited"}]
  /\ manager \in [Sessions -> {"none", "accepting", "reading", "closed", "ended"}]
  /\ peer \in [Sessions -> Session]
  /\ path \in Session
  /\ active \subseteq Sessions

(* Created by a client that bound to it, and not started yet. *)
Init ==
  /\ startRequested = FALSE /\ destroyed = FALSE /\ mStarting = FALSE
  /\ mManagement = NoSession
  /\ mOpenVPNThread = NoSession /\ mProcessThread = NoSession
  /\ mDeviceStateReceiver = NoSession /\ registered = {} /\ posted = {}
  /\ drives = [s \in Sessions |-> NoSession]
  /\ looper = "done"
  /\ starter = [s \in Sessions |-> "none"]
  /\ thread = [s \in Sessions |-> "none"]
  /\ replaced = {}
  /\ process = [s \in Sessions |-> "none"]
  /\ manager = [s \in Sessions |-> "none"]
  /\ peer = [s \in Sessions |-> NoSession]
  /\ path = NoSession
  /\ active = {}

-----------------------------------------------------------------------------
(* OpenVpnManagementThread.stopOpenVPN: a SIGINT for the process of each active *)
(* management thread that has a socket, which is then closed.                   *)
stopOpenVPN ==
  LET stopped == {m \in active : manager[m] = "reading"}
  IN  /\ manager' = [m \in Sessions |-> IF m \in stopped THEN "closed" ELSE manager[m]]
      /\ process' = [s \in Sessions |->
                       IF process[s] = "connected" /\ \E m \in stopped : peer[m] = s
                       THEN "told" ELSE process[s]]
      /\ UNCHANGED <<peer, path, active>>

unregisterDeviceStateReceiver ==
  /\ registered' = registered \ {mDeviceStateReceiver}
  /\ mDeviceStateReceiver' = NoSession

(* endVpnService, from one of its steps to the next: the looper, starters and      *)
(* process threads may be in it at once.  mNotificationAlwaysVisible stays false.  *)
endVpnService(from, to) ==
  \/ /\ from = "clear" /\ to = "unregister"
     /\ mProcessThread' = NoSession
     /\ UNCHANGED <<serviceVars, mManagement, mOpenVPNThread, receiverVars>>
  \/ /\ from = "unregister" /\ to = "forget"
     /\ unregisterDeviceStateReceiver
     /\ UNCHANGED <<serviceVars, sessionVars, drives, posted>>
  \/ /\ from = "forget" /\ to = "stopSelf"
     /\ mOpenVPNThread' = NoSession
     /\ UNCHANGED <<serviceVars, mManagement, mProcessThread, receiverVars>>
  \/ /\ from = "stopSelf" /\ to = "done"
     /\ startRequested' = (startRequested /\ mStarting)
     /\ UNCHANGED <<destroyed, mStarting, sessionVars, receiverVars>>

-----------------------------------------------------------------------------
(* The main looper.  The commands that return before anything is started    *)
(* (PAUSE_VPN, RESUME_VPN, START_SERVICE, START_SERVICE_STICKY) are left     *)
(* out: they leave an idle service started, or the request as it is, and     *)
(* nothing in the repository sends them (START_SERVICE is what clients bind  *)
(* with).                                                                    *)
onStartCommand(s) ==
  /\ looper = "done" /\ ~destroyed
  /\ starter[s] = "none"
  /\ starter' = [starter EXCEPT ![s] = "config"]
  /\ startRequested' = TRUE
  /\ UNCHANGED <<destroyed, mStarting, sessionVars, receiverVars, looper, thread,
                 replaced, socketVars>>

(* No profile to start: stopSelf(startId), whatever is running. *)
StartWithoutProfile ==
  /\ looper = "done" /\ ~destroyed
  /\ startRequested' = FALSE
  /\ UNCHANGED <<destroyed, mStarting, sessionVars, receiverVars, threadVars, socketVars>>

(* Faulty variant: a receiver that is there is taken for the one that is needed. *)
RegisterOnce(s) ==
  /\ looper = "done"
  /\ s \in posted /\ posted' = posted \ {s}
  /\ IF mDeviceStateReceiver = NoSession
     THEN /\ mDeviceStateReceiver' = s
          /\ registered' = registered \cup {s}
          /\ drives' = [drives EXCEPT ![s] = mManagement]
     ELSE UNCHANGED <<mDeviceStateReceiver, registered, drives>>
  /\ UNCHANGED <<serviceVars, sessionVars, threadVars, socketVars>>

(* Faulty variant: the receiver of the previous session is not unregistered. *)
RegisterAnother(s) ==
  /\ looper = "done"
  /\ s \in posted /\ posted' = posted \ {s}
  /\ mDeviceStateReceiver' = s
  /\ registered' = registered \cup {s}
  /\ drives' = [drives EXCEPT ![s] = mManagement]
  /\ UNCHANGED <<serviceVars, sessionVars, threadVars, socketVars>>

(* The posted job: mManagement is read when the job runs. *)
registerDeviceStateReceiver(s) ==
  /\ looper = "done"
  /\ s \in posted /\ posted' = posted \ {s}
  /\ mDeviceStateReceiver' = s
  /\ registered' = (registered \ {mDeviceStateReceiver}) \cup {s}
  /\ drives' = [drives EXCEPT ![s] = mManagement]
  /\ UNCHANGED <<serviceVars, sessionVars, threadVars, socketVars>>

(* Another VPN takes over while this one's tunnel is up. *)
onRevoke ==
  /\ looper = "done" /\ ~destroyed
  /\ \E s \in Sessions : process[s] \in {"connected", "told"}
  /\ stopOpenVPN
  /\ looper' = "clear"
  /\ UNCHANGED <<serviceVars, sessionVars, receiverVars, starter, thread, replaced>>

LooperEnds ==
  /\ looper # "done"
  /\ endVpnService(looper, looper')
  /\ UNCHANGED <<starter, thread, replaced, socketVars>>

(* mDeviceStateReceiver is unregistered and kept. *)
onDestroy ==
  /\ looper = "done" /\ ~startRequested /\ ~destroyed
  /\ destroyed' = TRUE
  /\ IF mProcessThread # NoSession
     THEN stopOpenVPN
     ELSE UNCHANGED socketVars
  /\ registered' = registered \ {mDeviceStateReceiver}
  /\ UNCHANGED <<startRequested, mStarting, sessionVars, mDeviceStateReceiver, drives,
                 posted, threadVars>>

(* stopVPN of the binder: the user disconnects. *)
stopVPN ==
  /\ ~destroyed /\ mManagement # NoSession
  /\ stopOpenVPN
  /\ UNCHANGED <<serviceVars, sessionVars, receiverVars, threadVars>>

-----------------------------------------------------------------------------
(* startOpenVPN, on a thread of its own for every start command. *)
At(s, here, next) ==
  /\ starter[s] = here
  /\ starter' = [starter EXCEPT ![s] = next]
  /\ UNCHANGED <<looper, thread>>

ConfigFails(s) ==
  /\ At(s, "config", "clear")
  /\ UNCHANGED <<serviceVars, sessionVars, receiverVars, replaced, socketVars>>

ConfigWritten(s) ==
  /\ At(s, "config", "replace")
  /\ mStarting' = TRUE
  /\ UNCHANGED <<startRequested, destroyed, sessionVars, receiverVars, replaced, socketVars>>

(* stopOldOpenVPNProcess when nothing has been started yet. *)
NothingToReplace(s) ==
  /\ At(s, "replace", "open")
  /\ mManagement = NoSession
  /\ UNCHANGED <<serviceVars, sessionVars, receiverVars, replaced, socketVars>>

(* Faulty variant: the null check of mOpenVPNThread is missing. *)
setReplaceUnchecked(s) ==
  /\ At(s, "replace", "stopOld")
  /\ mManagement # NoSession
  /\ replaced' = replaced \cup {mOpenVPNThread}
  /\ UNCHANGED <<serviceVars, sessionVars, receiverVars, socketVars>>

(* The old thread, if there is one, shall end silently ... *)
setReplaceConnection(s) ==
  /\ At(s, "replace", "stopOld")
  /\ mManagement # NoSession
  /\ replaced' = replaced \cup ({mOpenVPNThread} \ {NoSession})
  /\ UNCHANGED <<serviceVars, sessionVars, receiverVars, socketVars>>

(* ... and its process is told to.  forceStopOpenVpnProcess interrupts the old *)
(* thread, which can only make its process exit: ProcessExits allows that.     *)
stopOldOpenVPNProcess(s) ==
  /\ At(s, "stopOld", "open")
  /\ stopOpenVPN
  /\ UNCHANGED <<serviceVars, sessionVars, receiverVars, replaced>>

ManagementFails(s) ==
  /\ At(s, "open", "clear")
  /\ mStarting' = FALSE
  /\ UNCHANGED <<startRequested, destroyed, sessionVars, receiverVars, replaced, socketVars>>

(* Faulty variant: mStarting is never reset. *)
StartingForever(s) ==
  /\ At(s, "open", "create")
  /\ path' = s
  /\ manager' = [manager EXCEPT ![s] = "accepting"]
  /\ active' = active \cup {s}
  /\ mManagement' = s
  /\ UNCHANGED <<serviceVars, mOpenVPNThread, mProcessThread, receiverVars, replaced,
                 process, peer>>

(* Faulty variant: the management thread does not enter itself in the active list. *)
ManagementInactive(s) ==
  /\ At(s, "open", "create")
  /\ mStarting' = FALSE
  /\ path' = s
  /\ manager' = [manager EXCEPT ![s] = "accepting"]
  /\ mManagement' = s
  /\ UNCHANGED <<startRequested, destroyed, mOpenVPNThread, mProcessThread, receiverVars,
                 replaced, process, peer, active>>

(* openManagementInterface binds the path anew, the management thread starts. *)
openManagementInterface(s) ==
  /\ At(s, "open", "create")
  /\ mStarting' = FALSE
  /\ path' = s
  /\ manager' = [manager EXCEPT ![s] = "accepting"]
  /\ active' = active \cup {s}
  /\ mManagement' = s
  /\ UNCHANGED <<startRequested, destroyed, mOpenVPNThread, mProcessThread, receiverVars,
                 replaced, process, peer>>

CreateThread(s) ==
  /\ At(s, "create", "spawn")
  /\ mOpenVPNThread' = s
  /\ UNCHANGED <<serviceVars, mManagement, mProcessThread, receiverVars, replaced, socketVars>>

StartThread(s) ==
  /\ starter[s] = "spawn"
  /\ starter' = [starter EXCEPT ![s] = "post"]
  /\ mProcessThread' = s
  /\ thread' = [thread EXCEPT ![s] = "running"]
  /\ process' = [process EXCEPT ![s] = "started"]
  /\ UNCHANGED <<serviceVars, mManagement, mOpenVPNThread, receiverVars, looper, replaced,
                 manager, peer, path, active>>

PostRegister(s) ==
  /\ At(s, "post", "done")
  /\ posted' = posted \cup {s}
  /\ UNCHANGED <<serviceVars, sessionVars, mDeviceStateReceiver, registered, drives,
                 replaced, socketVars>>

StarterEnds(s) ==
  /\ starter[s] \in Ending
  /\ \E next \in Ending \cup {"done"} :
       /\ endVpnService(starter[s], next)
       /\ starter' = [starter EXCEPT ![s] = next]
  /\ UNCHANGED <<looper, thread, replaced, socketVars>>

Starter(s) ==
  \/ ConfigFails(s)
  \/ ConfigWritten(s)
  \/ NothingToReplace(s)
  \/ setReplaceConnection(s)
  \/ stopOldOpenVPNProcess(s)
  \/ ManagementFails(s)
  \/ openManagementInterface(s)
  \/ CreateThread(s)
  \/ StartThread(s)
  \/ PostRegister(s)
  \/ StarterEnds(s)

-----------------------------------------------------------------------------
(* The process takes the management socket that is on the path, or gives up. *)
ProcessConnects(s) ==
  /\ process[s] = "started" /\ path # NoSession
  /\ process' = [process EXCEPT ![s] = "connected"]
  /\ manager' = [manager EXCEPT ![path] = "reading"]
  /\ peer' = [peer EXCEPT ![path] = s]
  /\ path' = NoSession
  /\ UNCHANGED <<serviceVars, sessionVars, receiverVars, threadVars, active>>

(* Of itself, on a signal, or killed by its interrupted thread. *)
ProcessExits(s) ==
  /\ process[s] \in {"started", "connected", "told"}
  /\ process' = [process EXCEPT ![s] = "exited"]
  /\ UNCHANGED <<serviceVars, sessionVars, receiverVars, threadVars, manager, peer, path,
                 active>>

(* The end of the stream leaves the thread in the list, an exception does not. *)
ManagerEnds(m) ==
  /\ \/ manager[m] = "reading" /\ process[peer[m]] = "exited"
     \/ manager[m] = "closed"
  /\ manager' = [manager EXCEPT ![m] = "ended"]
  /\ active' \in {active, active \ {m}}
  /\ UNCHANGED <<serviceVars, sessionVars, receiverVars, threadVars, process, peer, path>>

(* OpenVPNThread.run, when its process has exited.  The retry without PIE is never *)
(* taken: replacePieWithNoPie returns the very array it is compared with.          *)
ProcessEnded(s) ==
  /\ thread[s] = "running" /\ process[s] = "exited"
  /\ thread' = [thread EXCEPT ![s] = IF s \in replaced THEN "done" ELSE "clear"]
  /\ UNCHANGED <<serviceVars, sessionVars, receiverVars, looper, starter, replaced,
                 socketVars>>

openvpnStopped(s) ==
  /\ thread[s] \in Ending
  /\ \E next \in Ending \cup {"done"} :
       /\ endVpnService(thread[s], next)
       /\ thread' = [thread EXCEPT ![s] = next]
  /\ UNCHANGED <<looper, starter, replaced, socketVars>>

-----------------------------------------------------------------------------
MainLooper ==
  \/ \E s \in Sessions : onStartCommand(s)
  \/ StartWithoutProfile
  \/ \E s \in Sessions : registerDeviceStateReceiver(s)
  \/ onRevoke
  \/ LooperEnds
  \/ onDestroy

Next ==
  \/ MainLooper
  \/ stopVPN
  \/ \E s \in Sessions :
       \/ Starter(s)
       \/ ProcessConnects(s)
       \/ ProcessExits(s)
       \/ ManagerEnds(s)
       \/ ProcessEnded(s)
       \/ openvpnStopped(s)

Spec == Init /\ [][Next]_vars

-----------------------------------------------------------------------------
(* No start and no end of a session is under way. *)
Settled ==
  /\ looper = "done" /\ posted = {}
  /\ \A s \in Sessions : starter[s] \in {"none", "done"} /\ thread[s] \in {"none", "done"}

(* Android never holds a receiver the service has forgotten: whatever starts    *)
(* and ends overlap, at most the current mDeviceStateReceiver is registered.    *)
OneReceiver == registered \subseteq {mDeviceStateReceiver}

(* Between a starter's new mManagement and its register job. *)
Registering(s) == starter[s] \in {"create", "spawn", "post"} \/ s \in posted

(* Once the register jobs have run, the receiver pauses and resumes the current *)
(* management object, even if two starts have overlapped.                       *)
ReceiverDrivesCurrent ==
  /\ mDeviceStateReceiver # NoSession
  /\ \A s \in Sessions : ~Registering(s)
  => drives[mDeviceStateReceiver] = mManagement

(* A stop reaches every process that has a management connection, its own or    *)
(* another session's: the thread that accepted it is in the list stopOpenVPN    *)
(* walks, and its socket is open.                                               *)
StopReaches ==
  \A s \in Sessions : process[s] = "connected" =>
    \E m \in active : manager[m] = "reading" /\ peer[m] = s

(* The service does not stay started without a session: of the ends that        *)
(* mStarting or setReplaceConnection suppresses, one is always made up for.     *)
IdleServiceStops == Settled => ~startRequested

(* "Set a flag that we are starting a new VPN": while one is starting, the end  *)
(* of another's process does not stop the service.                              *)
StartKeepsService ==
  [][\A s, t \in Sessions :
       /\ starter[s] \in Starting
       /\ thread[t] = "stopSelf" /\ thread'[t] = "done"
       => startRequested' = startRequested]_vars

=============================================================================
