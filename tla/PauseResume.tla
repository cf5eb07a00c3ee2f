--------------------------- MODULE PauseResume -----------------------------
(***************************************************************************)
(* Pausing and resuming a VPN session: the device state receiver, the      *)
(* management thread and the OpenVPN process it controls over the          *)
(* management socket, with the interleavings of the main looper, the       *)
(* management thread and the process.                                      *)
(***************************************************************************)
EXTENDS DeviceStateReceiver, ManagementHold, FiniteSets

CONSTANT
  RepeatedResume  \* whether RESUME_VPN may arrive when the user has not paused

ASSUME RepeatedResumeAssumption == RepeatedResume \in BOOLEAN

VARIABLES
  process,     \* "hold" or "running"
  screenIsOn,  \* the screen, at the last broadcast
  overtaken    \* history: see Overtakes

vars == <<receiverVars, managementVars, process, screenIsOn, overtaken>>

TypeOK ==
  /\ ReceiverTypeOK
  /\ ManagementTypeOK
  /\ process \in {"hold", "running"}
  /\ screenIsOn \in BOOLEAN /\ overtaken \in BOOLEAN

(* The process is started with --management-hold: it announces a hold first. *)
Init ==
  /\ ReceiverInit
  /\ ManagementInit
  /\ toManagement = <<"HOLD">>
  /\ process = "hold"
  /\ screenIsOn = TRUE /\ overtaken = FALSE

InFlight(channel, m) == \E i \in 1..Len(channel) : channel[i] = m

-----------------------------------------------------------------------------
(* The main looper: one job at a time, started when the last has made its call. *)
LooperIdle == mainCall = "none"

MainJob ==
  /\ LooperIdle
  /\ UNCHANGED <<managementVars, process, overtaken>>

(* The runnable startOpenVPN posts: new DeviceStateReceiver, then its first state. *)
CreateReceiver ==
  /\ MainJob
  /\ Create
  /\ UNCHANGED screenIsOn

RegisterReceiver ==
  /\ MainJob
  /\ registered = "created" /\ registered' = "yes"
  /\ \E n \in Networks \cup {NoNetwork} : networkStateChange(n)
  /\ UNCHANGED screenIsOn

Connectivity(n) ==
  /\ MainJob
  /\ registered = "yes"
  /\ networkStateChange(n)
  /\ UNCHANGED <<registered, screenIsOn, overtaken>>

ScreenTurnsOff ==
  /\ MainJob
  /\ registered = "yes" /\ screenIsOn
  /\ screenIsOn' = FALSE
  /\ ScreenOff

ScreenTurnsOn ==
  /\ MainJob
  /\ registered = "yes" /\ ~screenIsOn
  /\ screenIsOn' = TRUE
  /\ ScreenOn

UserPauses ==
  /\ MainJob
  /\ registered = "yes" /\ userpause # "DISCONNECTED"
  /\ userPause(TRUE)
  /\ UNCHANGED screenIsOn

UserResumes ==
  /\ MainJob
  /\ registered = "yes" /\ (RepeatedResume \/ userpause = "DISCONNECTED")
  /\ userPause(FALSE)
  /\ UNCHANGED screenIsOn

NetworkTimerFires ==
  /\ MainJob
  /\ mDelayDisconnectRunnable
  /\ UNCHANGED screenIsOn

(* Faulty variant: a hold is released when its wait is over, wanted or not. *)
ResumeTimerFiresUnchecked ==
  /\ LooperIdle
  /\ resumePosts > 0
  /\ resumePosts' = resumePosts - 1
  /\ mainCall' = "mResumeHoldRunnable"
  /\ UNCHANGED <<network, screen, userpause, lastConnectedNetwork, timers, registered,
                 mWaitingForRelease, lastPauseReason, status, mgmtStep, mgmtReason,
                 toProcess, toManagement, process, screenIsOn, overtaken>>

(* mResumeHoldRunnable: reads the receiver, then releases the hold. *)
ResumeTimerFires ==
  /\ LooperIdle
  /\ resumePosts > 0
  /\ resumePosts' = resumePosts - 1
  /\ mainCall' = IF shouldBeRunning THEN "mResumeHoldRunnable" ELSE "none"
  /\ UNCHANGED <<network, screen, userpause, lastConnectedNetwork, timers, registered,
                 mWaitingForRelease, lastPauseReason, status, mgmtStep, mgmtReason,
                 toProcess, toManagement, process, screenIsOn, overtaken>>

(* A release with no announcement unread: from then on the app is right about the hold. *)
ReleasesKnown ==
  toProcess' = Append(toProcess, "hold release") /\ ~InFlight(toManagement, "HOLD")

(* The OpenVPNManagement call a main-looper job ends with. *)
ManagementCall ==
  /\ ~LooperIdle
  /\ mainCall' = "none"
  /\ \/ mainCall \in PauseReason /\ pause(mainCall)
     \/ mainCall = "resume" /\ resume
     \/ mainCall = "networkChangeSame" /\ networkChange(TRUE)
     \/ mainCall = "networkChangeNew" /\ networkChange(FALSE)
     \/ /\ mainCall = "mResumeHoldRunnable"
        /\ releaseHoldCmd
        /\ UNCHANGED <<lastPauseReason, status>>
  /\ overtaken' = (overtaken /\ ~ReleasesKnown)
  /\ UNCHANGED <<network, screen, userpause, lastConnectedNetwork, timers, registered,
                 mgmtStep, mgmtReason, toManagement, process, screenIsOn>>

(* MaxCommands bounds what the device and the user do, never the system's own steps. *)
MainLooperEnv ==
  /\ Len(toProcess) < MaxCommands
  /\ \/ \E n \in Networks \cup {NoNetwork} : Connectivity(n)
     \/ ScreenTurnsOff
     \/ ScreenTurnsOn
     \/ UserPauses
     \/ UserResumes

MainLooperSys ==
  \/ CreateReceiver
  \/ RegisterReceiver
  \/ NetworkTimerFires
  \/ ResumeTimerFires
  \/ ManagementCall

-----------------------------------------------------------------------------
(* The management thread. *)
ManagementRead ==
  /\ \/ processState
     \/ HoldReceived
     \/ \E little \in BOOLEAN :
          ByteCountReceived(registered = "yes" /\ screen = "PENDINGDISCONNECT" /\ little)
  /\ UNCHANGED <<receiverVars, process, screenIsOn, overtaken>>

HandleHold ==
  /\ \/ HoldChecked(shouldBeRunning)
     \/ \E waits \in BOOLEAN : HoldScheduled(waits)
     \/ HoldPaused
  /\ UNCHANGED <<receiverVars, process, screenIsOn, overtaken>>

UpdateByteCount ==
  /\ ByteCountPause(getPauseReason(network, "DISCONNECTED", userpause))
  /\ PauseForScreen
  /\ UNCHANGED <<process, screenIsOn, overtaken>>

PauseFromByteCount ==
  /\ ManagementThreadPause
  /\ UNCHANGED <<receiverVars, process, screenIsOn, overtaken>>

ManagementThread ==
  \/ ManagementRead
  \/ HandleHold
  \/ UpdateByteCount
  \/ PauseFromByteCount

-----------------------------------------------------------------------------
(* The OpenVPN process. *)
Says(msg) ==
  /\ Len(toManagement) < MaxMessages
  /\ toManagement' = Append(toManagement, msg)

(* A restart ends in management_hold, which announces the hold. *)
EnterHold ==
  /\ process' = "hold"
  /\ Says("HOLD")

(* In the loop of management_hold SIGUSR1 is ignored: each one announces the hold *)
(* again, also one that is in the same read as the release (man_signal and        *)
(* special_state_msg); the loop looks at hold_release once the read is dispatched. *)
(* network-change finds no socket.                                                *)
Announced(read) ==
  [i \in 1..Cardinality({k \in 1..Len(read) : read[k] = "signal SIGUSR1"}) |-> "HOLD"]

SaysAll(msgs) ==
  /\ Len(toManagement) + Len(msgs) <= MaxMessages
  /\ toManagement' = toManagement \o msgs

HoldingReads(read) ==
  /\ process = "hold"
  /\ IF InFlight(read, "hold release")
     THEN process' = "running" /\ SaysAll(Append(Announced(read), "STATE"))
     ELSE UNCHANGED process /\ SaysAll(Announced(read))

(* A running process restarts once the read is dispatched: for SIGUSR1, and for a  *)
(* network-change when the socket cannot be kept.  The restart clears hold_release, *)
(* so that a release means nothing.                                                 *)
RunningReads(read) ==
  /\ process = "running"
  /\ \/ /\ InFlight(read, "signal SIGUSR1") \/ InFlight(read, "network-change")
        /\ EnterHold
     \/ /\ ~InFlight(read, "signal SIGUSR1")
        /\ UNCHANGED <<process, toManagement>>

(* The process leaves a hold that the app takes, or will take, for a waiting one. *)
Overtakes ==
  /\ process = "hold" /\ process' = "running"
  /\ mWaitingForRelease \/ InFlight(toManagement', "HOLD")

(* man_read: one recv() takes some of what has been sent, and all of that is dispatched. *)
ProcessReads ==
  /\ \E n \in 1..Len(toProcess) :
       LET read == SubSeq(toProcess, 1, n)
       IN  /\ toProcess' = SubSeq(toProcess, n + 1, Len(toProcess))
           /\ HoldingReads(read) \/ RunningReads(read)
  /\ overtaken' = (overtaken \/ Overtakes)
  /\ UNCHANGED <<receiverVars, mWaitingForRelease, lastPauseReason, resumePosts, status,
                 mgmtStep, mgmtReason, screenIsOn>>

(* A lost connection: ping-restart or a connect timeout raises SIGUSR1 inside. *)
ProcessRestarts ==
  /\ process = "running"
  /\ EnterHold
  /\ UNCHANGED <<receiverVars, mWaitingForRelease, lastPauseReason, resumePosts, status,
                 mgmtStep, mgmtReason, toProcess, screenIsOn, overtaken>>

ProcessReportsBytes ==
  /\ process = "running"
  /\ Len(toProcess) < MaxCommands
  /\ Says("BYTECOUNT")
  /\ UNCHANGED <<receiverVars, mWaitingForRelease, lastPauseReason, resumePosts, status,
                 mgmtStep, mgmtReason, toProcess, process, screenIsOn, overtaken>>

-----------------------------------------------------------------------------
Next ==
  \/ MainLooperEnv
  \/ MainLooperSys
  \/ ManagementThread
  \/ ProcessReads
  \/ ProcessRestarts
  \/ ProcessReportsBytes

Spec == Init /\ [][Next]_vars

(* Both threads and the process keep running.  A posted resume runnable whose *)
(* time has come is run even if other jobs keep arriving at the looper, since *)
(* its message queue is ordered by time.  Nothing makes the device, the user  *)
(* or the remote server act.                                                  *)
Fairness ==
  /\ WF_vars(CreateReceiver)
  /\ WF_vars(RegisterReceiver)
  /\ WF_vars(ManagementCall)
  /\ SF_vars(ResumeTimerFires)
  /\ WF_vars(ManagementThread)
  /\ WF_vars(ProcessReads)

FairSpec == Spec /\ Fairness

-----------------------------------------------------------------------------
(* No handler is running and nothing is under way between app and process. *)
Settled ==
  /\ registered = "yes" /\ mainCall = "none" /\ mgmtStep = "read"
  /\ toProcess = << >> /\ toManagement = << >> /\ resumePosts = 0

(* The step in which releaseHoldCmd answers a hold the app knows of. *)
Releases == mWaitingForRelease /\ ~mWaitingForRelease'

(* A process in a hold is never forgotten: the app knows that it waits, or is  *)
(* about to be told, or has already answered.  handleHold raises the flag      *)
(* before it consults the receiver, and a command sent too early makes the     *)
(* process announce its hold again.                                            *)
NoLostHold ==
  process = "hold" =>
    \/ mWaitingForRelease
    \/ InFlight(toManagement, "HOLD")
    \/ InFlight(toProcess, "hold release")

(* When everything has settled and the receiver wants the VPN up, the process  *)
(* runs: no interleaving of a hold, a pause and a resume loses the release.    *)
RunsWhenWanted == Settled /\ shouldBeConnected => process = "running"

(* When everything has settled after the network was given up on, the process   *)
(* waits in a hold: the pause of mDelayDisconnectRunnable reaches it whether it *)
(* was running, restarting or already waiting.  Only a release that overtook    *)
(* the announcement of a hold can have left the app wrong about it; then pause  *)
(* finds mWaitingForRelease set for a process that runs, and sends nothing.     *)
PausedWithoutNetwork ==
  Settled /\ network = "DISCONNECTED" /\ ~overtaken => process = "hold"

(* A hold is released only while the user and the network allow it, by every   *)
(* path but one: the same network back within the grace period.                *)
ReleaseAllowed ==
  [][Releases => \/ mainCall = "networkChangeSame"
                 \/ userpause = "SHOULDBECONNECTED" /\ network = "SHOULDBECONNECTED"]_vars

(* If from some time on the receiver wants the VPN up, the process gets to run *)
(* again and again, however often it restarts: each hold is answered.          *)
EventuallyRuns == <>[]shouldBeConnected => []<>(process = "running")

(* While the user has paused the VPN no hold is released ("VPN pause requested *)
(* by user", res/values/strings.xml state_userpause).                          *)
UserPauseKept == [][Releases => userpause = "SHOULDBECONNECTED"]_vars

(* When everything has settled after the user paused the VPN, the process waits *)
(* in a hold, with the exception of PausedWithoutNetwork: no later event undoes *)
(* the pause, and none finds it forgotten.                                      *)
PausedForUser ==
  Settled /\ userpause = "DISCONNECTED" /\ ~overtaken => process = "hold"

(* When everything has settled with the screen on, the screen is no reason to  *)
(* pause: updateByteCount pauses in the screen off state only.                 *)
ScreenPauseOnlyWhenOff == Settled /\ screenIsOn => screen = "SHOULDBECONNECTED"

=============================================================================
