------------------------ MODULE DeviceStateReceiver ------------------------
(***************************************************************************)
(* net.rroadvpn.openvpn.core.DeviceStateReceiver: the broadcast receiver   *)
(* that decides, from the network, the screen and the user's wish, whether *)
(* the OpenVPN process should be running, and calls the management thread  *)
(* accordingly.                                                            *)
(*                                                                         *)
(* Its handlers run on the main looper; updateByteCount runs on the        *)
(* management thread.  A handler first updates the receiver's fields and   *)
(* ends with at most one call of OpenVPNManagement.  The handler's action  *)
(* leaves that call in mainCall; the composition (PauseResume) executes it *)
(* in a step of its own, because the management thread can run in between. *)
(***************************************************************************)
EXTENDS Naturals

CONSTANTS
  Networks,            \* the networks (type and extra info) the device can be on
  NoNetwork,           \* getActiveNetworkInfo() = null, and the null lastConnectedNetwork
  ScreenOffPause,      \* preference "screenoff" (default false)
  NetChangeReconnect,  \* preference "netchangereconnect" (default true)
  MaxTimers            \* bound: posted mDelayDisconnectRunnables

ASSUME NetworksAssumption == NoNetwork \notin Networks
ASSUME PreferencesAssumption ==
         ScreenOffPause \in BOOLEAN /\ NetChangeReconnect \in BOOLEAN
ASSUME MaxTimersAssumption == MaxTimers \in Nat \ {0}

VARIABLES
  network, screen, userpause,  \* the three connectState fields
  lastConnectedNetwork,
  timers,      \* mDelayDisconnectRunnables posted on mDisconnectHandler
  registered,  \* progress of registerDeviceStateReceiver on the main looper
  mainCall     \* the OpenVPNManagement call the running main-looper job ends with

receiverVars ==
  <<network, screen, userpause, lastConnectedNetwork, timers, registered, mainCall>>

ConnectState == {"SHOULDBECONNECTED", "PENDINGDISCONNECT", "DISCONNECTED"}
PauseReason  == {"noNetwork", "userPause", "screenOff"}

(* "none": the looper is between jobs; a PauseReason r stands for pause(r). *)
Calls == {"none", "resume", "networkChangeSame", "networkChangeNew",
          "mResumeHoldRunnable"} \cup PauseReason

ReceiverTypeOK ==
  /\ network \in ConnectState
  /\ screen \in ConnectState
  /\ userpause \in ConnectState \ {"PENDINGDISCONNECT"}
  /\ lastConnectedNetwork \in Networks \cup {NoNetwork}
  /\ timers \in 0..MaxTimers
  /\ registered \in {"no", "created", "yes"}
  /\ mainCall \in Calls

ReceiverInit ==
  /\ network = "DISCONNECTED"
  /\ screen = "SHOULDBECONNECTED"
  /\ userpause = "SHOULDBECONNECTED"
  /\ lastConnectedNetwork = NoNetwork
  /\ timers = 0
  /\ registered = "no"
  /\ mainCall = "none"

-----------------------------------------------------------------------------
AllConnected(net, scr, usr) ==
  /\ scr = "SHOULDBECONNECTED"
  /\ usr = "SHOULDBECONNECTED"
  /\ net = "SHOULDBECONNECTED"

shouldBeConnected == AllConnected(network, screen, userpause)

(* With nothing disconnected the reason falls through to userPause. *)
getPauseReason(net, scr, usr) ==
  IF usr = "DISCONNECTED" THEN "userPause"
  ELSE IF scr = "DISCONNECTED" THEN "screenOff"
  ELSE IF net = "DISCONNECTED" THEN "noNetwork"
  ELSE "userPause"

(* OpenVpnManagementThread.shouldBeRunning: false until the constructor of  *)
(* the receiver has installed itself as the pause callback.                 *)
shouldBeRunning == registered # "no" /\ shouldBeConnected

-----------------------------------------------------------------------------
(* The constructor: setPauseCallback(this). *)
Create ==
  /\ registered = "no"
  /\ registered' = "created"
  /\ UNCHANGED <<network, screen, userpause, lastConnectedNetwork, timers, mainCall>>

(* networkStateChange, active network n CONNECTED and still 'established'. *)
SameNetworkBack(n) ==
  /\ n \in Networks
  /\ network = "PENDINGDISCONNECT" /\ lastConnectedNetwork = n
  /\ network' = "SHOULDBECONNECTED"
  /\ timers' = 0
  /\ mainCall' = "networkChangeSame"
  /\ UNCHANGED <<screen, userpause, lastConnectedNetwork>>

(* Faulty variant: a known network that is back does not resume the VPN. *)
NetworkConnectedNoResume(n) ==
  LET scr == IF screen = "PENDINGDISCONNECT" THEN "DISCONNECTED" ELSE screen
      same == lastConnectedNetwork = n
      go == AllConnected("SHOULDBECONNECTED", scr, userpause)
  IN  /\ n \in Networks
      /\ ~(network = "PENDINGDISCONNECT" /\ same)
      /\ network' = "SHOULDBECONNECTED"
      /\ screen' = scr
      /\ lastConnectedNetwork' = n
      /\ timers' = IF go THEN 0 ELSE timers
      /\ mainCall' = IF go /\ ~same THEN "networkChangeNew" ELSE "none"
      /\ UNCHANGED userpause

(* networkStateChange, CONNECTED: different network or connection not established. *)
NetworkConnected(n) ==
  LET scr == IF screen = "PENDINGDISCONNECT" THEN "DISCONNECTED" ELSE screen
      same == lastConnectedNetwork = n
      go == AllConnected("SHOULDBECONNECTED", scr, userpause)
  IN  /\ n \in Networks
      /\ ~(network = "PENDINGDISCONNECT" /\ same)
      /\ network' = "SHOULDBECONNECTED"
      /\ screen' = scr
      /\ lastConnectedNetwork' = n
      /\ timers' = IF go THEN 0 ELSE timers
      /\ mainCall' = IF ~go THEN "none"
                     ELSE IF same THEN "resume" ELSE "networkChangeNew"
      /\ UNCHANGED userpause

(* networkStateChange, no active network: start the 20 s grace period. *)
NetworkLost ==
  /\ IF NetChangeReconnect
     THEN /\ timers < MaxTimers
          /\ network' = "PENDINGDISCONNECT"
          /\ timers' = timers + 1
     ELSE UNCHANGED <<network, timers>>
  /\ UNCHANGED <<screen, userpause, lastConnectedNetwork, mainCall>>

networkStateChange(n) ==
  \/ SameNetworkBack(n)
  \/ NetworkConnected(n)
  \/ n = NoNetwork /\ NetworkLost

(* Faulty variant: the timer gives up on the network without pausing the VPN. *)
DelayDisconnectWithoutPause ==
  /\ timers > 0
  /\ timers' = timers - 1
  /\ IF network = "PENDINGDISCONNECT"
     THEN network' = "DISCONNECTED"
     ELSE UNCHANGED network
  /\ UNCHANGED <<screen, mainCall, userpause, lastConnectedNetwork, registered>>

mDelayDisconnectRunnable ==
  /\ timers > 0
  /\ timers' = timers - 1
  /\ IF network = "PENDINGDISCONNECT"
     THEN /\ network' = "DISCONNECTED"
          /\ screen' = IF screen = "PENDINGDISCONNECT" THEN "DISCONNECTED" ELSE screen
          /\ mainCall' = getPauseReason("DISCONNECTED", screen', userpause)
     ELSE UNCHANGED <<network, screen, mainCall>>
  /\ UNCHANGED <<userpause, lastConnectedNetwork, registered>>

ScreenOff ==
  /\ screen' = IF ~ScreenOffPause THEN screen
               ELSE IF network = "DISCONNECTED" \/ userpause = "DISCONNECTED"
               THEN "DISCONNECTED"
               ELSE "PENDINGDISCONNECT"
  /\ UNCHANGED <<network, userpause, lastConnectedNetwork, timers, registered, mainCall>>

(* Faulty variant: the screen coming on resumes the VPN whatever else holds it. *)
ScreenOnResumes ==
  /\ screen' = "SHOULDBECONNECTED"
  /\ timers' = 0
  /\ mainCall' = IF screen # "SHOULDBECONNECTED" THEN "resume" ELSE "none"
  /\ UNCHANGED <<network, userpause, lastConnectedNetwork, registered>>

(* removeCallbacks also drops the timer a lost network had started. *)
ScreenOn ==
  LET go == AllConnected(network, "SHOULDBECONNECTED", userpause)
  IN  /\ screen' = "SHOULDBECONNECTED"
      /\ timers' = 0
      /\ mainCall' = IF go # shouldBeConnected THEN "resume"
                     ELSE IF ~go
                     THEN getPauseReason(network, "SHOULDBECONNECTED", userpause)
                     ELSE "none"
      /\ UNCHANGED <<network, userpause, lastConnectedNetwork, registered>>

(* Faulty variant: a pause waits for a grace period, as the other reasons do. *)
userPausePending(pause) ==
  /\ userpause' = IF pause THEN "PENDINGDISCONNECT" ELSE "SHOULDBECONNECTED"
  /\ mainCall' = IF pause THEN "userPause" ELSE "resume"
  /\ UNCHANGED <<network, screen, lastConnectedNetwork, timers, registered>>

(* Faulty variant: a pause reaches OpenVPN only if it was meant to be connected. *)
userPauseIfConnected(pause) ==
  /\ userpause' = IF pause THEN "DISCONNECTED" ELSE "SHOULDBECONNECTED"
  /\ mainCall' =
       IF AllConnected(network, screen, userpause') /\ ~shouldBeConnected
       THEN "resume"
       ELSE IF shouldBeConnected
       THEN getPauseReason(network, screen, userpause')
       ELSE "none"
  /\ UNCHANGED <<network, screen, lastConnectedNetwork, timers, registered>>

(* userPause(pause): the PAUSE_VPN and RESUME_VPN commands of the service. *)
userPause(pause) ==
  /\ userpause' = IF pause THEN "DISCONNECTED" ELSE "SHOULDBECONNECTED"
  /\ mainCall' =
       IF /\ ~pause
          /\ AllConnected(network, screen, "SHOULDBECONNECTED")
          /\ ~shouldBeConnected
       THEN "resume"
       ELSE getPauseReason(network, screen, userpause')
  /\ UNCHANGED <<network, screen, lastConnectedNetwork, timers, registered>>

(* updateByteCount, after its check of screen: too little traffic in the window. *)
PauseForScreen ==
  /\ screen' = "DISCONNECTED"
  /\ UNCHANGED <<network, userpause, lastConnectedNetwork, timers, registered, mainCall>>

=============================================================================
