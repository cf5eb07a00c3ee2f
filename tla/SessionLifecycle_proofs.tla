----------------------- MODULE SessionLifecycle_proofs -----------------------
(***************************************************************************)
(* Proofs about SessionLifecycle, for any set of sessions.                 *)
(***************************************************************************)
EXTENDS SessionLifecycle, TLAPS

(* stopOpenVPN only moves processes to told and management threads to closed. *)
LEMMA StopType ==
  ASSUME TypeOK, stopOpenVPN
  PROVE  /\ process' \in [Sessions -> {"none", "started", "connected", "told", "exited"}]
         /\ manager' \in [Sessions -> {"none", "accepting", "reading", "closed", "ended"}]
         /\ UNCHANGED <<peer, path, active>>
BY DEF TypeOK, stopOpenVPN

LEMMA EndType ==
  ASSUME TypeOK, NEW from, NEW to, endVpnService(from, to)
  PROVE  /\ startRequested' \in BOOLEAN /\ mStarting' = mStarting
         /\ UNCHANGED <<destroyed, mManagement, drives, posted>>
         /\ mOpenVPNThread' \in Session /\ mProcessThread' \in Session
         /\ mDeviceStateReceiver' \in Session
         /\ registered' \subseteq Sessions
         /\ to \in Ending \cup {"done"}
BY DEF TypeOK, endVpnService, unregisterDeviceStateReceiver, Session, Ending,
       serviceVars, sessionVars, receiverVars

LEMMA InitType == Init => TypeOK
BY DEF Init, TypeOK, Session

LEMMA StarterType ==
  ASSUME TypeOK, NEW s \in Sessions, Starter(s)
  PROVE  TypeOK'
<1> USE DEF TypeOK, Session, serviceVars, sessionVars, receiverVars, socketVars, At
<1>1. CASE ConfigFails(s)
  BY <1>1 DEF ConfigFails, Ending
<1>2. CASE ConfigWritten(s)
  BY <1>2 DEF ConfigWritten, Starting
<1>3. CASE NothingToReplace(s) \/ setReplaceConnection(s)
  BY <1>3 DEF NothingToReplace, setReplaceConnection, Starting
<1>4. CASE stopOldOpenVPNProcess(s)
  BY <1>4, StopType DEF stopOldOpenVPNProcess, Starting
<1>5. CASE ManagementFails(s)
  BY <1>5 DEF ManagementFails, Ending
<1>6. CASE openManagementInterface(s)
  BY <1>6 DEF openManagementInterface, Starting
<1>7. CASE CreateThread(s)
  BY <1>7 DEF CreateThread, Starting
<1>8. CASE StartThread(s)
  BY <1>8 DEF StartThread, Starting
<1>9. CASE PostRegister(s)
  BY <1>9 DEF PostRegister
<1>10. CASE StarterEnds(s)
  <2>1. PICK next \in Ending \cup {"done"} :
          endVpnService(starter[s], next) /\ starter' = [starter EXCEPT ![s] = next]
    BY <1>10 DEF StarterEnds
  <2> QED
    BY <1>10, <2>1, EndType DEF StarterEnds
<1> QED
  BY <1>1, <1>2, <1>3, <1>4, <1>5, <1>6, <1>7, <1>8, <1>9, <1>10 DEF Starter

LEMMA LooperType ==
  ASSUME TypeOK, MainLooper
  PROVE  TypeOK'
<1> USE DEF TypeOK, Session, serviceVars, sessionVars, receiverVars, threadVars, socketVars
<1>1. CASE \E s \in Sessions : onStartCommand(s)
  BY <1>1 DEF onStartCommand
<1>2. CASE StartWithoutProfile
  BY <1>2 DEF StartWithoutProfile
<1>3. CASE \E s \in Sessions : registerDeviceStateReceiver(s)
  BY <1>3 DEF registerDeviceStateReceiver
<1>4. CASE onRevoke
  BY <1>4, StopType DEF onRevoke, Ending
<1>5. CASE LooperEnds
  BY <1>5, EndType DEF LooperEnds
<1>6. CASE onDestroy
  BY <1>6, StopType DEF onDestroy
<1> QED
  BY <1>1, <1>2, <1>3, <1>4, <1>5, <1>6 DEF MainLooper

LEMMA StepType == TypeOK /\ [Next]_vars => TypeOK'
<1> SUFFICES ASSUME TypeOK, [Next]_vars PROVE TypeOK'
  OBVIOUS
<1> USE DEF Session, serviceVars, sessionVars, receiverVars, threadVars, socketVars
<1>1. CASE MainLooper
  BY <1>1, LooperType
<1>2. CASE stopVPN
  BY <1>2, StopType DEF stopVPN, TypeOK
<1>3. ASSUME NEW s \in Sessions, Starter(s) PROVE TypeOK'
  BY <1>3, StarterType
<1>4. ASSUME NEW s \in Sessions, ProcessConnects(s) PROVE TypeOK'
  BY <1>4 DEF ProcessConnects, TypeOK
<1>5. ASSUME NEW s \in Sessions, ProcessExits(s) PROVE TypeOK'
  BY <1>5 DEF ProcessExits, TypeOK
<1>6. ASSUME NEW s \in Sessions, ManagerEnds(s) PROVE TypeOK'
  BY <1>6 DEF ManagerEnds, TypeOK
<1>7. ASSUME NEW s \in Sessions, ProcessEnded(s) PROVE TypeOK'
  BY <1>7 DEF ProcessEnded, TypeOK, Ending
<1>8. ASSUME NEW s \in Sessions, openvpnStopped(s) PROVE TypeOK'
  <2>1. PICK next \in Ending \cup {"done"} :
          endVpnService(thread[s], next) /\ thread' = [thread EXCEPT ![s] = next]
    BY <1>8 DEF openvpnStopped
  <2> QED
    BY <1>8, <2>1, EndType DEF openvpnStopped, TypeOK
<1>9. CASE UNCHANGED vars
  BY <1>9 DEF vars, TypeOK
<1> QED
  BY <1>1, <1>2, <1>3, <1>4, <1>5, <1>6, <1>7, <1>8, <1>9 DEF Next

(* The fields of the service and the state of its threads and processes stay *)
(* well formed, whatever overlaps.                                           *)
THEOREM TypeCorrect == Spec => []TypeOK
BY InitType, StepType, PTL DEF Spec

-----------------------------------------------------------------------------
(* Android never holds a receiver the service has forgotten: every operation  *)
(* that replaces or clears mDeviceStateReceiver unregisters it.               *)
THEOREM OneReceiverRegistered == Spec => []OneReceiver
<1> USE DEF OneReceiver
<1>1. Init => OneReceiver
  BY DEF Init
<1>2. OneReceiver /\ [Next]_vars => OneReceiver'
  <2> SUFFICES ASSUME OneReceiver, [Next]_vars PROVE OneReceiver'
    OBVIOUS
  <2> USE DEF serviceVars, sessionVars, receiverVars, threadVars, socketVars, At
  <2>1. ASSUME NEW from, NEW to, endVpnService(from, to) PROVE OneReceiver'
    BY <2>1 DEF endVpnService, unregisterDeviceStateReceiver
  <2>2. CASE MainLooper
    BY <2>1, <2>2 DEF MainLooper, onStartCommand, StartWithoutProfile,
         registerDeviceStateReceiver, onRevoke, LooperEnds, onDestroy
  <2>3. ASSUME NEW s \in Sessions, Starter(s) PROVE OneReceiver'
    BY <2>1, <2>3 DEF Starter, ConfigFails, ConfigWritten, NothingToReplace, setReplaceConnection,
         stopOldOpenVPNProcess, ManagementFails, openManagementInterface, CreateThread,
         StartThread, PostRegister, StarterEnds
  <2>4. CASE stopVPN
    BY <2>4 DEF stopVPN
  <2>5. ASSUME NEW s \in Sessions,
               \/ ProcessConnects(s) \/ ProcessExits(s) \/ ManagerEnds(s)
               \/ ProcessEnded(s) \/ openvpnStopped(s)
        PROVE  OneReceiver'
    BY <2>1, <2>5 DEF ProcessConnects, ProcessExits, ManagerEnds, ProcessEnded,
         openvpnStopped
  <2>6. CASE UNCHANGED vars
    BY <2>6 DEF vars
  <2> QED
    BY <2>2, <2>3, <2>4, <2>5, <2>6 DEF Next
<1> QED
  BY <1>1, <1>2, PTL DEF Spec

-----------------------------------------------------------------------------
(* A step that leaves the receiver, its management object and the register     *)
(* jobs alone, and no starter out of its "create" to "post" steps.             *)
LEMMA DrivesKept ==
  ASSUME ReceiverDrivesCurrent,
         UNCHANGED <<mManagement, drives>>,
         mDeviceStateReceiver' \in {mDeviceStateReceiver, NoSession},
         \A s \in Sessions : Registering(s) => Registering(s)'
  PROVE  ReceiverDrivesCurrent'
BY DEF ReceiverDrivesCurrent

(* Once all register jobs have run the receiver drives the current management  *)
(* object: a job reads mManagement when it runs, and every starter posts its   *)
(* job after it has set mManagement.                                           *)
THEOREM ReceiverIsCurrent == Spec => []ReceiverDrivesCurrent
<1>1. Init => ReceiverDrivesCurrent
  BY DEF Init, ReceiverDrivesCurrent
<1>2. TypeOK /\ ReceiverDrivesCurrent /\ [Next]_vars => ReceiverDrivesCurrent'
  <2> SUFFICES ASSUME TypeOK, ReceiverDrivesCurrent, [Next]_vars
               PROVE  ReceiverDrivesCurrent'
    OBVIOUS
  <2> USE DEF serviceVars, sessionVars, receiverVars, threadVars, socketVars
  <2>1. ASSUME NEW from, NEW to, endVpnService(from, to)
        PROVE  /\ UNCHANGED <<mManagement, drives, posted>>
               /\ mDeviceStateReceiver' \in {mDeviceStateReceiver, NoSession}
    BY <2>1 DEF endVpnService, unregisterDeviceStateReceiver
  <2>2. CASE MainLooper
    <3>1. CASE \E s \in Sessions : onStartCommand(s)
      BY <3>1, DrivesKept DEF onStartCommand, Registering, TypeOK
    <3>2. CASE StartWithoutProfile \/ onRevoke \/ onDestroy
      BY <3>2, DrivesKept DEF StartWithoutProfile, onRevoke, onDestroy, Registering
    <3>3. CASE \E s \in Sessions : registerDeviceStateReceiver(s)
      BY <3>3 DEF registerDeviceStateReceiver, ReceiverDrivesCurrent, TypeOK
    <3>4. CASE LooperEnds
      BY <2>1, <3>4, DrivesKept DEF LooperEnds, Registering
    <3> QED
      BY <2>2, <3>1, <3>2, <3>3, <3>4 DEF MainLooper
  <2>3. ASSUME NEW s \in Sessions, Starter(s) PROVE ReceiverDrivesCurrent'
    <3> USE DEF At, TypeOK
    <3>1. CASE \/ ConfigFails(s) \/ ConfigWritten(s)
               \/ NothingToReplace(s) \/ setReplaceConnection(s) \/ stopOldOpenVPNProcess(s) \/ ManagementFails(s)
      BY <3>1, DrivesKept DEF ConfigFails, ConfigWritten, NothingToReplace, setReplaceConnection,
           stopOldOpenVPNProcess, ManagementFails, Registering
    <3>2. CASE openManagementInterface(s)
      <4>1. Registering(s)'
        BY <3>2 DEF openManagementInterface, Registering
      <4> QED
        BY <4>1 DEF ReceiverDrivesCurrent
    <3>3. CASE CreateThread(s) \/ StartThread(s) \/ PostRegister(s)
      BY <3>3, DrivesKept DEF CreateThread, StartThread, PostRegister, Registering
    <3>4. CASE StarterEnds(s)
      <4>1. PICK next \in Ending \cup {"done"} :
              endVpnService(starter[s], next) /\ starter' = [starter EXCEPT ![s] = next]
        BY <3>4 DEF StarterEnds
      <4>2. \A r \in Sessions : Registering(r) => Registering(r)'
        BY <2>1, <3>4, <4>1 DEF StarterEnds, Registering, Ending
      <4> QED
        BY <2>1, <4>1, <4>2, DrivesKept
    <3> QED
      BY <2>3, <3>1, <3>2, <3>3, <3>4 DEF Starter
  <2>4. CASE stopVPN
    BY <2>4, DrivesKept DEF stopVPN, Registering
  <2>5. ASSUME NEW s \in Sessions,
               \/ ProcessConnects(s) \/ ProcessExits(s) \/ ManagerEnds(s)
               \/ ProcessEnded(s) \/ openvpnStopped(s)
        PROVE  ReceiverDrivesCurrent'
    <3>1. UNCHANGED <<starter, posted, mManagement, drives>>
      BY <2>1, <2>5 DEF ProcessConnects, ProcessExits, ManagerEnds, ProcessEnded,
           openvpnStopped
    <3>2. mDeviceStateReceiver' \in {mDeviceStateReceiver, NoSession}
      BY <2>1, <2>5 DEF ProcessConnects, ProcessExits, ManagerEnds, ProcessEnded,
           openvpnStopped
    <3> QED
      BY <3>1, <3>2, DrivesKept DEF Registering
  <2>6. CASE UNCHANGED vars
    BY <2>6, DrivesKept DEF vars, Registering
  <2> QED
    BY <2>2, <2>3, <2>4, <2>5, <2>6 DEF Next
<1> QED
  BY <1>1, <1>2, TypeCorrect, PTL DEF Spec

-----------------------------------------------------------------------------
(* What a starter has not done yet. *)
BeforeOpen(s)   == starter[s] \in {"none", "config", "replace", "stopOld", "open"}
BeforeCreate(s) == BeforeOpen(s) \/ starter[s] = "create"

(* The socket on the path waits for a process and its thread is in the list; a *)
(* management thread begins when its starter opens it, and not again.          *)
SocketInv ==
  /\ path # NoSession => path \in active /\ manager[path] = "accepting"
  /\ \A s \in Sessions : BeforeOpen(s) => manager[s] = "none"
  /\ StopReaches

LEMMA StopSocket ==
  ASSUME TypeOK, SocketInv, stopOpenVPN,
         \A s \in Sessions : BeforeOpen(s)' => BeforeOpen(s)
  PROVE  SocketInv'
<1> USE DEF TypeOK, SocketInv
<1>1. UNCHANGED <<peer, path, active>>
  BY DEF stopOpenVPN
<1>2. path # NoSession => path \in active /\ manager'[path] = "accepting"
  BY DEF stopOpenVPN
<1>3. \A s \in Sessions : BeforeOpen(s)' => manager'[s] = "none"
  BY DEF stopOpenVPN
<1>4. \A s \in Sessions : process'[s] # "connected"
  BY DEF stopOpenVPN, StopReaches
<1> QED
  BY <1>1, <1>2, <1>3, <1>4 DEF StopReaches

(* A step away from the sockets, in which no starter goes back. *)
LEMMA SocketKept ==
  ASSUME SocketInv, UNCHANGED socketVars,
         \A s \in Sessions : BeforeOpen(s)' => BeforeOpen(s)
  PROVE  SocketInv'
BY DEF SocketInv, StopReaches, socketVars

LEMMA SocketStep == TypeOK /\ SocketInv /\ [Next]_vars => SocketInv'
<1> SUFFICES ASSUME TypeOK, SocketInv, [Next]_vars PROVE SocketInv'
  OBVIOUS
<1> USE DEF TypeOK
<1>1. CASE MainLooper
  <2>1. CASE \E s \in Sessions : onStartCommand(s)
    BY <2>1, SocketKept DEF onStartCommand, BeforeOpen
  <2>2. CASE StartWithoutProfile \/ LooperEnds
    BY <2>2, SocketKept DEF StartWithoutProfile, LooperEnds, BeforeOpen, threadVars
  <2>3. CASE \E s \in Sessions : registerDeviceStateReceiver(s)
    BY <2>3, SocketKept DEF registerDeviceStateReceiver, BeforeOpen, threadVars
  <2>4. CASE onRevoke
    BY <2>4, StopSocket DEF onRevoke, BeforeOpen
  <2>5. CASE onDestroy
    BY <2>5, StopSocket, SocketKept DEF onDestroy, BeforeOpen, threadVars
  <2> QED
    BY <1>1, <2>1, <2>2, <2>3, <2>4, <2>5 DEF MainLooper
<1>2. CASE stopVPN
  BY <1>2, StopSocket DEF stopVPN, threadVars, BeforeOpen
<1>3. ASSUME NEW s \in Sessions, Starter(s) PROVE SocketInv'
  <2> USE DEF At
  <2>1. CASE \/ ConfigFails(s) \/ ConfigWritten(s) \/ NothingToReplace(s)
             \/ setReplaceConnection(s) \/ ManagementFails(s)
    BY <2>1, SocketKept DEF ConfigFails, ConfigWritten, NothingToReplace, setReplaceConnection,
         ManagementFails, BeforeOpen
  <2>2. CASE stopOldOpenVPNProcess(s)
    <3>1. \A r \in Sessions : BeforeOpen(r)' => BeforeOpen(r)
      BY <2>2 DEF stopOldOpenVPNProcess, BeforeOpen
    <3> QED
      BY <2>2, <3>1, StopSocket DEF stopOldOpenVPNProcess
  <2>3. CASE openManagementInterface(s)
    <3>1. manager[s] = "none"
      BY <2>3 DEF openManagementInterface, SocketInv, BeforeOpen
    <3>2. path' = s /\ s \in active' /\ manager'[s] = "accepting"
      BY <2>3 DEF openManagementInterface
    <3>3. \A r \in Sessions : BeforeOpen(r)' => manager'[r] = "none"
      BY <2>3 DEF openManagementInterface, SocketInv, BeforeOpen
    <3>4. StopReaches'
      BY <2>3, <3>1 DEF openManagementInterface, SocketInv, StopReaches
    <3> QED
      BY <3>2, <3>3, <3>4 DEF SocketInv
  <2>4. CASE CreateThread(s) \/ PostRegister(s)
    BY <2>4, SocketKept DEF CreateThread, PostRegister, BeforeOpen
  <2>5. CASE StartThread(s)
    BY <2>5 DEF StartThread, SocketInv, StopReaches, BeforeOpen
  <2>6. CASE StarterEnds(s)
    <3>1. \A r \in Sessions : BeforeOpen(r)' => BeforeOpen(r)
      BY <2>6 DEF StarterEnds, Ending, BeforeOpen
    <3> QED
      BY <2>6, <3>1, SocketKept DEF StarterEnds
  <2> QED
    BY <1>3, <2>1, <2>2, <2>3, <2>4, <2>5, <2>6 DEF Starter
<1>4. ASSUME NEW s \in Sessions, ProcessConnects(s) PROVE SocketInv'
  <2>1. path \in active /\ manager[path] = "accepting"
    BY <1>4 DEF ProcessConnects, SocketInv
  <2>2. path' = NoSession /\ UNCHANGED <<starter, active>>
    BY <1>4 DEF ProcessConnects, threadVars
  <2>3. \A r \in Sessions : BeforeOpen(r)' => manager'[r] = "none"
    BY <1>4, <2>1, <2>2 DEF ProcessConnects, SocketInv, BeforeOpen
  <2>4. manager'[path] = "reading" /\ peer'[path] = s
    BY <1>4, <2>1 DEF ProcessConnects
  <2>5. ASSUME NEW r \in Sessions, r # s, process'[r] = "connected"
        PROVE  \E m \in active' : manager'[m] = "reading" /\ peer'[m] = r
    <3>1. PICK m \in active : manager[m] = "reading" /\ peer[m] = r
      BY <1>4, <2>5 DEF ProcessConnects, SocketInv, StopReaches
    <3> QED
      BY <1>4, <2>1, <2>2, <3>1 DEF ProcessConnects
  <2> QED
    BY <2>1, <2>2, <2>3, <2>4, <2>5 DEF SocketInv, StopReaches
<1>5. ASSUME NEW s \in Sessions, ProcessExits(s) PROVE SocketInv'
  BY <1>5 DEF ProcessExits, SocketInv, StopReaches, BeforeOpen, threadVars
<1>6. ASSUME NEW m \in Sessions, ManagerEnds(m) PROVE SocketInv'
  <2>1. UNCHANGED <<starter, process, peer, path>> /\ active \ {m} \subseteq active'
        /\ manager' = [manager EXCEPT ![m] = "ended"]
    BY <1>6 DEF ManagerEnds, threadVars
  <2>2. manager[m] \in {"reading", "closed"}
    BY <1>6 DEF ManagerEnds
  <2>3. path # NoSession => path \in active' /\ manager'[path] = "accepting"
    BY <2>1, <2>2 DEF SocketInv
  <2>4. \A r \in Sessions : BeforeOpen(r)' => manager'[r] = "none"
    BY <2>1, <2>2 DEF SocketInv, BeforeOpen
  <2>5. ASSUME NEW r \in Sessions, process'[r] = "connected"
        PROVE  \E k \in active' : manager'[k] = "reading" /\ peer'[k] = r
    <3>1. PICK k \in active : manager[k] = "reading" /\ peer[k] = r
      BY <2>1, <2>5 DEF SocketInv, StopReaches
    <3>2. k # m
      BY <1>6, <2>1, <2>5, <3>1 DEF ManagerEnds
    <3> QED
      BY <2>1, <3>1, <3>2
  <2> QED
    BY <2>1, <2>3, <2>4, <2>5 DEF SocketInv, StopReaches
<1>7. ASSUME NEW s \in Sessions, ProcessEnded(s) \/ openvpnStopped(s) PROVE SocketInv'
  BY <1>7, SocketKept DEF ProcessEnded, openvpnStopped, BeforeOpen
<1>8. CASE UNCHANGED vars
  BY <1>8, SocketKept DEF vars, threadVars, BeforeOpen
<1> QED
  BY <1>1, <1>2, <1>3, <1>4, <1>5, <1>6, <1>7, <1>8 DEF Next

(* A stop reaches every connected process, also one that has connected to the  *)
(* management thread of a later session.                                       *)
THEOREM StopsReachAll == Spec => []StopReaches
<1>1. Init => SocketInv
  BY DEF Init, SocketInv, StopReaches
<1>2. SocketInv => StopReaches
  BY DEF SocketInv
<1> QED
  BY <1>1, <1>2, SocketStep, TypeCorrect, PTL DEF Spec

-----------------------------------------------------------------------------
(* A session that has still to end the service or to hand that duty on: its    *)
(* starter is on the way to a process, or its process' thread is, and no later *)
(* start has told the thread to end silently.                                  *)
Duty(s) ==
  /\ s \notin replaced
  /\ \/ starter[s] \in {"config"} \cup Starting \cup Ending
     \/ thread[s] \in {"running"} \cup Ending

(* A service that is started has a session on duty.  mStarting suppresses a    *)
(* stop only while a starter is on the way, and a starter that silences        *)
(* another session's thread cannot be silenced itself yet.                     *)
DutyInv ==
  /\ mStarting => \E s \in Sessions : starter[s] \in {"replace", "stopOld", "open"}
  /\ \A s \in Sessions : BeforeCreate(s) => s \notin replaced /\ mOpenVPNThread # s
  /\ startRequested => \E s \in Sessions : Duty(s)

(* A step that touches none of the fields duties depend on. *)
LEMMA DutyKept ==
  ASSUME DutyInv, UNCHANGED <<mStarting, mOpenVPNThread, replaced, starter, thread>>,
         startRequested' => startRequested
  PROVE  DutyInv'
BY DEF DutyInv, Duty, BeforeCreate, BeforeOpen

(* A step of endVpnService, on whichever thread.  Its last step stops the      *)
(* service unless mStarting says that another session is on duty.              *)
LEMMA EndVpnServiceDuty ==
  ASSUME TypeOK, DutyInv, NEW from, NEW to, endVpnService(from, to),
         UNCHANGED replaced,
         \A s \in Sessions : /\ BeforeCreate(s)' => BeforeCreate(s)
                             /\ starter[s] \in {"replace", "stopOld", "open"}
                                => starter'[s] = starter[s]
                             /\ Duty(s) /\ ~(from = "stopSelf" /\ to = "done") => Duty(s)'
  PROVE  DutyInv'
<1>1. mStarting' = mStarting /\ mOpenVPNThread' \in {mOpenVPNThread, NoSession}
  BY DEF endVpnService, serviceVars, sessionVars
<1>2. mStarting' => \E s \in Sessions : starter'[s] \in {"replace", "stopOld", "open"}
  BY <1>1 DEF DutyInv
<1>3. \A s \in Sessions : BeforeCreate(s)' => s \notin replaced' /\ mOpenVPNThread' # s
  BY <1>1, SessionsAssumption DEF DutyInv
<1>4. ASSUME startRequested' PROVE \E s \in Sessions : Duty(s)'
  <2>1. CASE from = "stopSelf" /\ to = "done"
    <3>1. mStarting
      BY <1>4, <2>1 DEF endVpnService
    <3>2. PICK s \in Sessions : starter[s] \in {"replace", "stopOld", "open"}
      BY <3>1 DEF DutyInv
    <3>3. s \notin replaced
      BY <3>2 DEF DutyInv, BeforeCreate, BeforeOpen
    <3> QED
      BY <3>2, <3>3 DEF Duty, Starting
  <2>2. CASE ~(from = "stopSelf" /\ to = "done")
    <3>1. startRequested
      BY <1>4, <2>2 DEF endVpnService, serviceVars
    <3> QED
      BY <2>2, <3>1 DEF DutyInv
  <2> QED
    BY <2>1, <2>2
<1> QED
  BY <1>2, <1>3, <1>4 DEF DutyInv

LEMMA DutyStarter ==
  ASSUME TypeOK, DutyInv, NEW s \in Sessions, Starter(s)
  PROVE  DutyInv'
<1> USE DEF At, serviceVars, sessionVars, TypeOK
<1>1. CASE ConfigFails(s) \/ ConfigWritten(s) \/ NothingToReplace(s)
  BY <1>1 DEF ConfigFails, ConfigWritten, NothingToReplace, DutyInv, Duty, BeforeCreate, BeforeOpen, Ending,
       Starting
<1>2. CASE setReplaceConnection(s)
  <2>1. s \notin replaced /\ mOpenVPNThread # s
    BY <1>2 DEF setReplaceConnection, DutyInv, BeforeCreate, BeforeOpen
  <2>2. Duty(s)'
    BY <1>2, <2>1 DEF setReplaceConnection, Duty, Starting
  <2>3. starter'[s] = "stopOld"
    BY <1>2 DEF setReplaceConnection
  <2>4. \A r \in Sessions : BeforeCreate(r)' => r \notin replaced' /\ mOpenVPNThread' # r
    BY <1>2 DEF setReplaceConnection, DutyInv, BeforeCreate, BeforeOpen
  <2> QED
    BY <2>2, <2>3, <2>4 DEF DutyInv
<1>3. CASE stopOldOpenVPNProcess(s)
  BY <1>3 DEF stopOldOpenVPNProcess, DutyInv, Duty, BeforeCreate, BeforeOpen, Starting
<1>4. CASE ManagementFails(s) \/ openManagementInterface(s)
  BY <1>4 DEF ManagementFails, openManagementInterface, DutyInv, Duty, BeforeCreate,
       BeforeOpen, Ending, Starting
<1>5. CASE CreateThread(s)
  BY <1>5 DEF CreateThread, DutyInv, Duty, BeforeCreate, BeforeOpen, Starting
<1>6. CASE StartThread(s)
  BY <1>6 DEF StartThread, DutyInv, Duty, BeforeCreate, BeforeOpen, Starting, Ending
<1>7. CASE PostRegister(s)
  BY <1>7 DEF PostRegister, DutyInv, Duty, BeforeCreate, BeforeOpen, Starting, Ending
<1>8. CASE StarterEnds(s)
  <2>1. PICK next \in Ending \cup {"done"} :
          endVpnService(starter[s], next) /\ starter' = [starter EXCEPT ![s] = next]
    BY <1>8 DEF StarterEnds
  <2>2. starter[s] \in Ending /\ UNCHANGED <<thread, replaced>>
    BY <1>8 DEF StarterEnds
  <2>3. ~(starter[s] = "stopSelf" /\ next = "done") => next \in Ending
    BY <2>1 DEF endVpnService, Ending
  <2>4. \A r \in Sessions : /\ BeforeCreate(r)' => BeforeCreate(r)
                            /\ starter[r] \in {"replace", "stopOld", "open"}
                               => starter'[r] = starter[r]
    BY <2>1, <2>2 DEF BeforeCreate, BeforeOpen, Ending
  <2>5. ASSUME NEW r \in Sessions, Duty(r), ~(starter[s] = "stopSelf" /\ next = "done")
        PROVE  Duty(r)'
    BY <2>1, <2>2, <2>3, <2>5 DEF Duty
  <2> QED
    BY <2>1, <2>2, <2>4, <2>5, EndVpnServiceDuty
<1> QED
  BY <1>1, <1>2, <1>3, <1>4, <1>5, <1>6, <1>7, <1>8 DEF Starter

LEMMA DutyStep == TypeOK /\ DutyInv /\ [Next]_vars => DutyInv'
<1> SUFFICES ASSUME TypeOK, DutyInv, [Next]_vars PROVE DutyInv'
  OBVIOUS
<1> USE DEF serviceVars, sessionVars, threadVars
<1>1. CASE MainLooper
  <2>1. CASE \E s \in Sessions : onStartCommand(s)
    <3>1. PICK s \in Sessions : onStartCommand(s)
      BY <2>1
    <3>2. Duty(s)'
      BY <3>1 DEF onStartCommand, DutyInv, BeforeCreate, BeforeOpen, Duty, TypeOK
    <3> QED
      BY <3>1, <3>2 DEF onStartCommand, DutyInv, BeforeCreate, BeforeOpen, TypeOK
  <2>2. CASE StartWithoutProfile \/ onDestroy
    BY <2>2, DutyKept DEF StartWithoutProfile, onDestroy
  <2>3. CASE \E s \in Sessions : registerDeviceStateReceiver(s)
    BY <2>3, DutyKept DEF registerDeviceStateReceiver
  <2>4. CASE onRevoke
    BY <2>4, DutyKept DEF onRevoke
  <2>5. CASE LooperEnds
    <3>1. endVpnService(looper, looper') /\ UNCHANGED <<starter, thread, replaced>>
      BY <2>5 DEF LooperEnds
    <3>2. \A s \in Sessions : /\ BeforeCreate(s)' <=> BeforeCreate(s)
                              /\ Duty(s)' <=> Duty(s)
      BY <3>1 DEF BeforeCreate, BeforeOpen, Duty
    <3> QED
      BY <3>1, <3>2, EndVpnServiceDuty
  <2> QED
    BY <1>1, <2>1, <2>2, <2>3, <2>4, <2>5 DEF MainLooper
<1>2. CASE stopVPN
  BY <1>2, DutyKept DEF stopVPN
<1>3. ASSUME NEW s \in Sessions, Starter(s) PROVE DutyInv'
  BY <1>3, DutyStarter
<1>4. ASSUME NEW s \in Sessions,
             ProcessConnects(s) \/ ProcessExits(s) \/ ManagerEnds(s)
      PROVE  DutyInv'
  BY <1>4, DutyKept DEF ProcessConnects, ProcessExits, ManagerEnds
<1>5. ASSUME NEW s \in Sessions, ProcessEnded(s) PROVE DutyInv'
  BY <1>5 DEF ProcessEnded, DutyInv, Duty, BeforeCreate, BeforeOpen, Ending, TypeOK
<1>6. ASSUME NEW s \in Sessions, openvpnStopped(s) PROVE DutyInv'
  <2>1. PICK next \in Ending \cup {"done"} :
          endVpnService(thread[s], next) /\ thread' = [thread EXCEPT ![s] = next]
    BY <1>6 DEF openvpnStopped
  <2>2. UNCHANGED <<starter, replaced>>
    BY <1>6 DEF openvpnStopped
  <2>3. ~(thread[s] = "stopSelf" /\ next = "done") => next \in Ending
    BY <2>1 DEF endVpnService, Ending
  <2>4. \A r \in Sessions : BeforeCreate(r)' => BeforeCreate(r)
    BY <2>2 DEF BeforeCreate, BeforeOpen
  <2>5. ASSUME NEW r \in Sessions, Duty(r), ~(thread[s] = "stopSelf" /\ next = "done")
        PROVE  Duty(r)'
    BY <2>1, <2>2, <2>3, <2>5 DEF Duty, TypeOK
  <2> QED
    BY <2>1, <2>2, <2>4, <2>5, EndVpnServiceDuty
<1>7. CASE UNCHANGED vars
  BY <1>7, DutyKept DEF vars
<1> QED
  BY <1>1, <1>2, <1>3, <1>4, <1>5, <1>6, <1>7 DEF Next

(* A service is never left started with nothing in it: when no session starts  *)
(* or ends and no process thread runs, the service has been stopped.           *)
THEOREM IdleServiceIsStopped == Spec => []IdleServiceStops
<1>1. Init => DutyInv
  BY SessionsAssumption DEF Init, DutyInv, BeforeCreate, BeforeOpen
<1>2. DutyInv => IdleServiceStops
  BY DEF DutyInv, IdleServiceStops, Settled, Duty, Starting, Ending
<1> QED
  BY <1>1, <1>2, DutyStep, TypeCorrect, PTL DEF Spec

=============================================================================
