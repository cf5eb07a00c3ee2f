------------------------ MODULE PauseResume_proofs -------------------------
(***************************************************************************)
(* Proofs of the safety properties of PauseResume, for any networks,       *)
(* preferences and channel bounds.                                         *)
(***************************************************************************)
EXTENDS PauseResume, FiniteSetTheorems, TLAPS

(* The commands and messages, as facts: with Command and Message expanded the  *)
(* provers cannot reason about the sequences over them.                        *)
LEMMA CommandMembers ==
  /\ "hold release" \in Command /\ "signal SIGUSR1" \in Command
  /\ "network-change" \in Command /\ "network-change samenetwork" \in Command
BY DEF Command

LEMMA MessageMembers == "HOLD" \in Message /\ "BYTECOUNT" \in Message /\ "STATE" \in Message
BY DEF Message

(* Messages in flight: what sending and reading leave in a channel. *)
LEMMA InFlightAppend ==
  ASSUME NEW S, NEW c \in Seq(S), NEW m, NEW e \in S, InFlight(c, m)
  PROVE  InFlight(Append(c, e), m)
BY DEF InFlight

LEMMA InFlightSent ==
  ASSUME NEW S, NEW c \in Seq(S), NEW m \in S
  PROVE  InFlight(Append(c, m), m)
<1>1. Append(c, m)[Len(Append(c, m))] = m /\ Len(Append(c, m)) \in 1..Len(Append(c, m))
  OBVIOUS
<1> QED BY <1>1 DEF InFlight

LEMMA LastSent ==
  ASSUME NEW S, NEW c \in Seq(S), NEW d \in S, NEW e \in S
  PROVE  Append(c, d) # c /\ (Append(c, d) = Append(c, e) => d = e)
<1>1. Len(Append(c, d)) # Len(c)
  OBVIOUS
<1>2. Append(c, d)[Len(c) + 1] = d /\ Append(c, e)[Len(c) + 1] = e
  OBVIOUS
<1> QED BY <1>1, <1>2

LEMMA InFlightTail ==
  ASSUME NEW S, NEW c \in Seq(S), NEW m, c # << >>, Head(c) # m, InFlight(c, m)
  PROVE  InFlight(Tail(c), m)
<1>1. PICK i \in 1..Len(c) : c[i] = m
  BY DEF InFlight
<1>2. i # 1
  BY <1>1
<1>3. i - 1 \in 1..Len(Tail(c)) /\ Tail(c)[i - 1] = m
  BY <1>1, <1>2
<1> QED BY <1>3 DEF InFlight

LEMMA InFlightConcat ==
  ASSUME NEW S, NEW c \in Seq(S), NEW d \in Seq(S), NEW m,
         InFlight(c, m) \/ InFlight(d, m)
  PROVE  InFlight(c \o d, m)
<1>1. CASE InFlight(c, m)
  <2>1. PICK i \in 1..Len(c) : c[i] = m
    BY <1>1 DEF InFlight
  <2>2. i \in 1..Len(c \o d) /\ (c \o d)[i] = m
    BY <2>1
  <2> QED BY <2>2 DEF InFlight
<1>2. CASE InFlight(d, m)
  <2>1. PICK i \in 1..Len(d) : d[i] = m
    BY <1>2 DEF InFlight
  <2>2. Len(c) + i \in 1..Len(c \o d) /\ (c \o d)[Len(c) + i] = m
    BY <2>1
  <2> QED BY <2>2 DEF InFlight
<1> QED BY <1>1, <1>2

(* What is in a channel is in what one read takes of it, or in what it leaves. *)
LEMMA InFlightRead ==
  ASSUME NEW S, NEW c \in Seq(S), NEW n \in 1..Len(c), NEW m, InFlight(c, m)
  PROVE  InFlight(SubSeq(c, 1, n), m) \/ InFlight(SubSeq(c, n + 1, Len(c)), m)
<1>1. PICK i \in 1..Len(c) : c[i] = m
  BY DEF InFlight
<1>2. CASE i <= n
  <2>1. i \in 1..Len(SubSeq(c, 1, n)) /\ SubSeq(c, 1, n)[i] = m
    BY <1>1, <1>2
  <2> QED BY <2>1 DEF InFlight
<1>3. CASE i > n
  <2> DEFINE j == i - n
  <2>1. /\ j \in 1..Len(SubSeq(c, n + 1, Len(c)))
        /\ SubSeq(c, n + 1, Len(c))[j] = m
    BY <1>1, <1>3
  <2> QED BY <2>1 DEF InFlight
<1> QED BY <1>1, <1>2, <1>3

(* A read with a SIGUSR1 in it announces the hold again, any other does not. *)
LEMMA AnnouncedHolds ==
  ASSUME NEW read \in Seq(Command)
  PROVE  /\ Announced(read) \in Seq(Message)
         /\ InFlight(read, "signal SIGUSR1") => InFlight(Announced(read), "HOLD")
<1> DEFINE K == {k \in 1..Len(read) : read[k] = "signal SIGUSR1"}
<1>1. IsFiniteSet(K) /\ Cardinality(K) \in Nat
  <2>1. IsFiniteSet(1..Len(read))
    BY FS_Interval
  <2> QED BY <2>1, FS_Subset, FS_CardinalityType
<1>2. Announced(read) = [i \in 1..Cardinality(K) |-> "HOLD"]
  BY DEF Announced
<1> HIDE DEF K
<1>3. Announced(read) \in Seq(Message)
  BY <1>1, <1>2, MessageMembers
<1>4. ASSUME InFlight(read, "signal SIGUSR1")
      PROVE  InFlight(Announced(read), "HOLD")
  <2>1. K # {}
    BY <1>4 DEF InFlight, K
  <2>2. Cardinality(K) # 0
    BY <1>1, <2>1, FS_EmptySet
  <2>3. 1 \in 1..Len(Announced(read)) /\ Announced(read)[1] = "HOLD"
    BY <1>1, <1>2, <2>2
  <2> QED BY <2>3 DEF InFlight
<1> QED BY <1>3, <1>4

(* What one read of the process does, for any of the commands it takes. *)
LEMMA ReadTakes ==
  ASSUME toProcess \in Seq(Command), toManagement \in Seq(Message), ProcessReads
  PROVE  \E n \in 1..Len(toProcess) :
           LET read == SubSeq(toProcess, 1, n)
               rest == SubSeq(toProcess, n + 1, Len(toProcess))
           IN  /\ read \in Seq(Command) /\ rest \in Seq(Command) /\ toProcess' = rest
               /\ HoldingReads(read) \/ RunningReads(read)
<1>1. PICK n \in 1..Len(toProcess) :
        /\ toProcess' = SubSeq(toProcess, n + 1, Len(toProcess))
        /\ HoldingReads(SubSeq(toProcess, 1, n)) \/ RunningReads(SubSeq(toProcess, 1, n))
  BY DEF ProcessReads
<1>2. /\ SubSeq(toProcess, 1, n) \in Seq(Command)
      /\ SubSeq(toProcess, n + 1, Len(toProcess)) \in Seq(Command)
  OBVIOUS
<1> QED BY <1>1, <1>2

(* A read adds to what the process has said, and announces each SIGUSR1 in it. *)
LEMMA ReadSays ==
  ASSUME NEW read \in Seq(Command), toManagement \in Seq(Message),
         HoldingReads(read) \/ RunningReads(read)
  PROVE  /\ toManagement' \in Seq(Message)
         /\ InFlight(toManagement, "HOLD") => InFlight(toManagement', "HOLD")
         /\ InFlight(read, "signal SIGUSR1") => InFlight(toManagement', "HOLD")
<1>1. CASE HoldingReads(read)
  <2>1. PICK A \in Seq(Message) :
          /\ A = Announced(read)
          /\ InFlight(read, "signal SIGUSR1") => InFlight(A, "HOLD")
    BY AnnouncedHolds
  <2>2. toManagement' = toManagement \o A \/ toManagement' = toManagement \o Append(A, "STATE")
    BY <1>1, <2>1 DEF HoldingReads, SaysAll
  <2>3. Append(A, "STATE") \in Seq(Message)
    BY MessageMembers
  <2>4. InFlight(A, "HOLD") => InFlight(Append(A, "STATE"), "HOLD")
    BY MessageMembers, InFlightAppend
  <2>5. CASE toManagement' = toManagement \o A
    <3>1. toManagement' \in Seq(Message)
      BY <2>5
    <3> QED BY <2>1, <2>5, <3>1, InFlightConcat
  <2>6. CASE toManagement' = toManagement \o Append(A, "STATE")
    <3>1. toManagement' \in Seq(Message)
      BY <2>3, <2>6
    <3> QED BY <2>1, <2>3, <2>4, <2>6, <3>1, InFlightConcat
  <2> QED BY <2>2, <2>5, <2>6
<1>2. CASE RunningReads(read)
  <2>1. CASE EnterHold
    <3>1. toManagement' = Append(toManagement, "HOLD")
      BY <2>1 DEF EnterHold, Says
    <3>2. toManagement' \in Seq(Message)
      BY <3>1, MessageMembers
    <3> QED BY <3>1, <3>2, MessageMembers, InFlightSent
  <2>2. CASE ~EnterHold
    BY <1>2, <2>2 DEF RunningReads
  <2> QED BY <2>1, <2>2
<1> QED BY <1>1, <1>2

-----------------------------------------------------------------------------
(* Type correctness: every reachable state of the receiver, the management     *)
(* thread, the process and their channels is well-formed.                      *)
LEMMA TypeInit == Init => TypeOK
<1> SUFFICES ASSUME Init
             PROVE  TypeOK
  OBVIOUS
<1> USE DEF Init, ReceiverInit, ManagementInit
<1>1. ReceiverTypeOK
  BY MaxTimersAssumption DEF ReceiverTypeOK, ConnectState, Calls
<1>2. toProcess \in Seq(Command) /\ toManagement \in Seq(Message)
  BY MessageMembers
<1>3. ManagementTypeOK
  BY <1>2 DEF ManagementTypeOK, Reason, Status
<1> QED BY <1>1, <1>3 DEF TypeOK

LEMMA CommandType ==
  ASSUME toProcess \in Seq(Command), NEW cmd \in Command, managmentCommand(cmd)
  PROVE  toProcess' \in Seq(Command)
BY DEF managmentCommand

LEMMA SaysType ==
  ASSUME toManagement \in Seq(Message), NEW m \in Message, Says(m)
  PROVE  toManagement' \in Seq(Message)
BY DEF Says

LEMMA PauseType ==
  ASSUME ManagementTypeOK, NEW r \in Reason, pause(r)
  PROVE  /\ mWaitingForRelease' \in BOOLEAN /\ lastPauseReason' \in Reason
         /\ resumePosts' \in Nat /\ status' \in Status
         /\ toProcess' \in Seq(Command)
<1>1. toProcess' \in Seq(Command)
  BY CommandMembers, CommandType DEF ManagementTypeOK, pause
<1> QED BY <1>1 DEF ManagementTypeOK, pause, updateStatePause, Reason, Status

LEMMA ReleaseType ==
  ASSUME ManagementTypeOK, releaseHoldCmd
  PROVE  /\ mWaitingForRelease' \in BOOLEAN /\ resumePosts' \in Nat
         /\ toProcess' \in Seq(Command)
BY CommandMembers, CommandType DEF ManagementTypeOK, releaseHoldCmd

LEMMA TypeStep ==
  ASSUME TypeOK, [Next]_vars
  PROVE  TypeOK'
<1> USE DEF TypeOK
<1>1. CASE MainLooperEnv \/ CreateReceiver \/ RegisterReceiver \/ NetworkTimerFires
  <2>1. UNCHANGED <<managementVars, process>>
    BY <1>1 DEF MainLooperEnv, Connectivity, ScreenTurnsOff, ScreenTurnsOn, UserPauses,
                UserResumes, CreateReceiver, RegisterReceiver, NetworkTimerFires, MainJob
  <2>2. ManagementTypeOK' /\ process' \in {"hold", "running"}
    BY <2>1 DEF ManagementTypeOK, managementVars
  <2>3. screenIsOn' \in BOOLEAN /\ overtaken' \in BOOLEAN
    BY <1>1 DEF MainLooperEnv, Connectivity, ScreenTurnsOff, ScreenTurnsOn, UserPauses,
                UserResumes, CreateReceiver, RegisterReceiver, NetworkTimerFires, MainJob
  <2>4. ReceiverTypeOK'
    <3> USE MaxTimersAssumption DEF ReceiverTypeOK, ConnectState, PauseReason, Calls
    <3>1. ASSUME NEW n \in Networks \cup {NoNetwork}, networkStateChange(n),
                 registered' \in {"no", "created", "yes"}
          PROVE  ReceiverTypeOK'
      BY <3>1 DEF networkStateChange, SameNetworkBack, NetworkConnected, NetworkLost
    <3>2. CASE \E n \in Networks \cup {NoNetwork} : Connectivity(n)
      BY <3>1, <3>2 DEF Connectivity
    <3>3. CASE ScreenTurnsOff
      BY <3>3 DEF ScreenTurnsOff, ScreenOff
    <3>4. CASE ScreenTurnsOn
      BY <3>4 DEF ScreenTurnsOn, ScreenOn, getPauseReason
    <3>5. CASE UserPauses \/ UserResumes
      BY <3>5 DEF UserPauses, UserResumes, userPause, getPauseReason
    <3>6. CASE CreateReceiver
      BY <3>6 DEF CreateReceiver, Create
    <3>7. CASE RegisterReceiver
      BY <3>1, <3>7 DEF RegisterReceiver
    <3>8. CASE NetworkTimerFires
      BY <3>8 DEF NetworkTimerFires, mDelayDisconnectRunnable, getPauseReason
    <3> QED BY <1>1, <3>2, <3>3, <3>4, <3>5, <3>6, <3>7, <3>8 DEF MainLooperEnv
  <2> QED BY <2>2, <2>3, <2>4
<1>2. CASE ResumeTimerFires
  BY <1>2 DEF ResumeTimerFires, ReceiverTypeOK, ManagementTypeOK, Calls
<1>3. CASE ManagementCall
  <2> USE DEF ManagementCall
  <2>1. /\ ReceiverTypeOK' /\ process' \in {"hold", "running"}
        /\ screenIsOn' \in BOOLEAN /\ overtaken' \in BOOLEAN
    BY <1>3 DEF ReceiverTypeOK, Calls
  <2>2. /\ mWaitingForRelease' \in BOOLEAN /\ lastPauseReason' \in Reason
        /\ resumePosts' \in Nat /\ status' \in Status
        /\ toProcess' \in Seq(Command)
    <3>1. CASE mainCall \in PauseReason /\ pause(mainCall)
      BY <3>1, PauseType DEF PauseReason, Reason
    <3>2. CASE mainCall = "resume" /\ resume
      BY <3>2, ReleaseType DEF resume, releaseHold, ManagementTypeOK, Reason
    <3>3. CASE networkChange(TRUE) \/ networkChange(FALSE)
      BY <3>3, ReleaseType, CommandMembers, CommandType
         DEF networkChange, releaseHold, ManagementTypeOK
    <3>4. CASE mainCall = "mResumeHoldRunnable" /\ releaseHoldCmd
      BY <1>3, <3>4, ReleaseType DEF ManagementTypeOK, PauseReason
    <3> QED BY <1>3, <3>1, <3>2, <3>3, <3>4
  <2>3. UNCHANGED <<mgmtStep, mgmtReason, toManagement>>
    BY <1>3
  <2> QED BY <2>1, <2>2, <2>3 DEF ManagementTypeOK
<1>4. CASE ManagementRead
  <2> USE DEF ManagementRead, processState, HoldReceived, ByteCountReceived, Received
  <2>1. /\ ReceiverTypeOK' /\ process' \in {"hold", "running"}
        /\ screenIsOn' \in BOOLEAN /\ overtaken' \in BOOLEAN
    BY <1>4 DEF receiverVars, ReceiverTypeOK
  <2>2. toManagement' \in Seq(Message) /\ toProcess' \in Seq(Command)
    BY <1>4 DEF ManagementTypeOK
  <2> QED BY <1>4, <2>1, <2>2 DEF ManagementTypeOK, Status
<1>5. CASE HandleHold
  BY <1>5 DEF HandleHold, HoldChecked, HoldScheduled, HoldPaused, updateStatePause,
              receiverVars, ReceiverTypeOK, ManagementTypeOK, Reason, Status
<1>6. CASE UpdateByteCount
  BY <1>6 DEF UpdateByteCount, ByteCountPause, PauseForScreen, getPauseReason,
              ReceiverTypeOK, ConnectState, ManagementTypeOK, Reason
<1>7. CASE PauseFromByteCount
  <2>1. mgmtReason \in Reason /\ pause(mgmtReason)
    BY <1>7 DEF PauseFromByteCount, ManagementThreadPause, ManagementTypeOK
  <2> QED BY <1>7, <2>1, PauseType
          DEF PauseFromByteCount, ManagementThreadPause, receiverVars, ReceiverTypeOK,
              ManagementTypeOK
<1>8. CASE ProcessReads \/ ProcessRestarts \/ ProcessReportsBytes
  <2>1. /\ UNCHANGED <<receiverVars, mWaitingForRelease, lastPauseReason, resumePosts,
                       status, mgmtStep, mgmtReason, screenIsOn>>
        /\ overtaken' \in BOOLEAN
    BY <1>8 DEF ProcessReads, ProcessRestarts, ProcessReportsBytes
  <2>2. /\ process' \in {"hold", "running"}
        /\ toManagement' \in Seq(Message) /\ toProcess' \in Seq(Command)
    <3>1. CASE ProcessReads
      BY <3>1, ReadTakes, ReadSays
         DEF ManagementTypeOK, HoldingReads, RunningReads, EnterHold
    <3>2. CASE ProcessRestarts \/ ProcessReportsBytes
      BY <3>2, SaysType, MessageMembers
         DEF ProcessRestarts, ProcessReportsBytes, EnterHold, ManagementTypeOK
    <3> QED BY <1>8, <3>1, <3>2
  <2>3. ReceiverTypeOK' /\ screenIsOn' \in BOOLEAN
    BY <2>1 DEF receiverVars, ReceiverTypeOK
  <2>4. ManagementTypeOK'
    BY <2>1, <2>2 DEF ManagementTypeOK
  <2> QED BY <2>1, <2>2, <2>3, <2>4
<1>9. CASE UNCHANGED vars
  BY <1>9 DEF vars, receiverVars, managementVars, ReceiverTypeOK, ManagementTypeOK
<1> QED BY <1>1, <1>2, <1>3, <1>4, <1>5, <1>6, <1>7, <1>8, <1>9
        DEF Next, MainLooperSys, ManagementThread

THEOREM TypeCorrect == Spec => []TypeOK
BY TypeInit, TypeStep, PTL DEF Spec

-----------------------------------------------------------------------------
(* What the steps do to the hold, shared by the invariants below. *)

LEMMA PausePosts == ASSUME NEW r, pause(r)
                    PROVE  /\ UNCHANGED mWaitingForRelease
                           /\ \/ mWaitingForRelease /\ UNCHANGED toProcess
                              \/ toProcess' = Append(toProcess, "signal SIGUSR1")
BY DEF pause, managmentCommand

LEMMA ReleasePosts ==
  ASSUME releaseHold \/ releaseHoldCmd
  PROVE  \/ ~mWaitingForRelease /\ UNCHANGED <<mWaitingForRelease, toProcess>>
         \/ ~mWaitingForRelease' /\ toProcess' = Append(toProcess, "hold release")
BY DEF releaseHold, releaseHoldCmd, managmentCommand

(* The main looper's own jobs touch neither the hold nor the channels. *)
LEMMA JobKeepsHold ==
  ASSUME \/ MainLooperEnv \/ CreateReceiver \/ RegisterReceiver
         \/ NetworkTimerFires \/ ResumeTimerFires
  PROVE  /\ UNCHANGED <<mWaitingForRelease, toProcess, toManagement, process>>
         /\ mainCall = "none"
BY DEF MainLooperEnv, Connectivity, ScreenTurnsOff, ScreenTurnsOn, UserPauses,
       UserResumes, CreateReceiver, RegisterReceiver, NetworkTimerFires,
       ResumeTimerFires, MainJob, LooperIdle, managementVars

(* The management thread and the process leave the main looper's fields alone, *)
(* and neither ever lowers the flag.                                           *)
LEMMA OthersKeepWish ==
  ASSUME TypeOK,
         \/ ManagementThread \/ ProcessReads \/ ProcessRestarts
         \/ ProcessReportsBytes \/ UNCHANGED vars
  PROVE  /\ UNCHANGED <<network, userpause, mainCall>>
         /\ mWaitingForRelease => mWaitingForRelease'
<1>1. CASE ManagementRead \/ HandleHold
  BY <1>1 DEF ManagementRead, processState, HoldReceived, ByteCountReceived, Received,
              HandleHold, HoldChecked, HoldScheduled, HoldPaused, receiverVars
<1>2. CASE UpdateByteCount
  BY <1>2 DEF UpdateByteCount, ByteCountPause, PauseForScreen
<1>3. CASE PauseFromByteCount
  BY <1>3, PausePosts DEF PauseFromByteCount, ManagementThreadPause, receiverVars,
                          TypeOK, ManagementTypeOK
<1>4. CASE ProcessReads
  BY <1>4 DEF ProcessReads, receiverVars
<1>5. CASE ProcessRestarts \/ ProcessReportsBytes
  BY <1>5 DEF ProcessRestarts, ProcessReportsBytes, receiverVars
<1>6. CASE UNCHANGED vars
  BY <1>6 DEF vars, receiverVars, managementVars
<1> QED BY <1>1, <1>2, <1>3, <1>4, <1>5, <1>6 DEF ManagementThread

-----------------------------------------------------------------------------
(* A hold the process is in is never forgotten, on any path a message, a       *)
(* command or a restart can take.                                              *)
LEMMA NoLostHoldStep ==
  ASSUME TypeOK, NoLostHold, [Next]_vars
  PROVE  NoLostHold'
<1> SUFFICES ASSUME process' = "hold"
             PROVE  \/ mWaitingForRelease'
                    \/ InFlight(toManagement', "HOLD")
                    \/ InFlight(toProcess', "hold release")
  BY DEF NoLostHold
<1>0. toProcess \in Seq(Command) /\ toManagement \in Seq(Message)
  BY DEF TypeOK, ManagementTypeOK
<1>1. CASE \/ MainLooperEnv \/ CreateReceiver \/ RegisterReceiver
           \/ NetworkTimerFires \/ ResumeTimerFires
  BY <1>1, JobKeepsHold DEF NoLostHold
<1>2. CASE UNCHANGED vars
  BY <1>2 DEF vars, managementVars, NoLostHold
<1>3. CASE ManagementCall
  <2>1. process = "hold" /\ UNCHANGED toManagement
    BY <1>3 DEF ManagementCall
  <2>2. CASE toProcess' = Append(toProcess, "hold release")
    BY <2>2, <1>0, CommandMembers, InFlightSent
  <2>3. CASE /\ UNCHANGED mWaitingForRelease
             /\ UNCHANGED toProcess \/ \E c \in Command : toProcess' = Append(toProcess, c)
    BY <2>3, <2>1, <1>0, InFlightAppend DEF NoLostHold
  <2>4. CASE \E r : pause(r)
    BY <2>4, <2>3, PausePosts, CommandMembers
  <2>5. CASE releaseHold \/ releaseHoldCmd
    BY <2>5, <2>2, <2>3, ReleasePosts
  <2>6. CASE networkChange(TRUE) \/ networkChange(FALSE)
    BY <2>6, <2>3, <2>5, CommandMembers DEF networkChange, managmentCommand
  <2> QED BY <1>3, <2>4, <2>5, <2>6 DEF ManagementCall, resume
<1>4. CASE ManagementRead
  <2>1. process = "hold" /\ UNCHANGED toProcess
    BY <1>4 DEF ManagementRead, processState, HoldReceived, ByteCountReceived, Received
  <2>2. CASE HoldReceived
    BY <2>2 DEF HoldReceived
  <2>3. CASE ~HoldReceived
    <3>1. /\ UNCHANGED mWaitingForRelease
          /\ toManagement # << >> /\ Head(toManagement) # "HOLD"
          /\ toManagement' = Tail(toManagement)
      BY <1>4, <2>3 DEF ManagementRead, processState, ByteCountReceived, Received
    <3> QED BY <3>1, <2>1, <1>0, InFlightTail DEF NoLostHold
  <2> QED BY <2>2, <2>3
<1>5. CASE HandleHold \/ UpdateByteCount
  BY <1>5 DEF HandleHold, HoldChecked, HoldScheduled, HoldPaused, UpdateByteCount,
              ByteCountPause, NoLostHold
<1>6. CASE PauseFromByteCount
  <2>1. process = "hold" /\ UNCHANGED toManagement /\ pause(mgmtReason)
    BY <1>6 DEF PauseFromByteCount, ManagementThreadPause
  <2> QED BY <2>1, <1>0, PausePosts, InFlightAppend, CommandMembers DEF NoLostHold
<1>7. CASE ProcessReads
  <2>1. UNCHANGED mWaitingForRelease
    BY <1>7 DEF ProcessReads
  <2>2. PICK n \in 1..Len(toProcess) :
          LET read == SubSeq(toProcess, 1, n)
              rest == SubSeq(toProcess, n + 1, Len(toProcess))
          IN  /\ read \in Seq(Command) /\ rest \in Seq(Command) /\ toProcess' = rest
              /\ HoldingReads(read) \/ RunningReads(read)
    BY <1>7, <1>0, ReadTakes
  <2> DEFINE read == SubSeq(toProcess, 1, n)
  <2>3. CASE HoldingReads(read)
    <3>1. process = "hold" /\ ~InFlight(read, "hold release")
      BY <2>3 DEF HoldingReads
    <3>2. InFlight(toManagement, "HOLD") => InFlight(toManagement', "HOLD")
      BY <2>2, <2>3, <1>0, ReadSays
    <3>3. InFlight(toProcess, "hold release") => InFlight(toProcess', "hold release")
      BY <2>2, <3>1, <1>0, InFlightRead
    <3> QED BY <2>1, <3>1, <3>2, <3>3 DEF NoLostHold
  <2>4. CASE RunningReads(read)
    <3>1. EnterHold
      BY <2>4 DEF RunningReads
    <3> QED BY <3>1, <1>0, MessageMembers, InFlightSent DEF EnterHold, Says
  <2> QED BY <2>2, <2>3, <2>4
<1>8. CASE ProcessRestarts
  BY <1>8, <1>0, MessageMembers, InFlightSent DEF ProcessRestarts, EnterHold, Says
<1>9. CASE ProcessReportsBytes
  BY <1>9 DEF ProcessReportsBytes
<1> QED BY <1>1, <1>2, <1>3, <1>4, <1>5, <1>6, <1>7, <1>8, <1>9
        DEF Next, MainLooperSys, ManagementThread

(* A process in a hold is never forgotten, whatever the networks, preferences  *)
(* and channel bounds.                                                         *)
THEOREM HoldNeverLost == Spec => []NoLostHold
<1>1. Init => NoLostHold
  <2>1. <<"HOLD">> = Append(<< >>, "HOLD") /\ << >> \in Seq(Message)
    OBVIOUS
  <2>2. InFlight(<<"HOLD">>, "HOLD")
    BY <2>1, InFlightSent, MessageMembers
  <2> QED BY <2>2 DEF Init, NoLostHold
<1>2. TypeOK /\ NoLostHold /\ [Next]_vars => NoLostHold'
  BY NoLostHoldStep
<1> QED BY <1>1, <1>2, TypeCorrect, PTL DEF Spec

-----------------------------------------------------------------------------
(* The main looper reads the receiver's fields when it chooses the call its    *)
(* job ends with; nothing else writes them before the call is made.            *)
CallAllowed ==
  /\ mainCall \in {"resume", "networkChangeNew", "mResumeHoldRunnable"} =>
       userpause = "SHOULDBECONNECTED" /\ network = "SHOULDBECONNECTED"
  /\ mainCall = "networkChangeSame" => network = "SHOULDBECONNECTED"

LEMMA CallAllowedStep ==
  ASSUME TypeOK, CallAllowed, [Next]_vars
  PROVE  CallAllowed'
<1> USE DEF CallAllowed
<1>1. ASSUME NEW n, networkStateChange(n), mainCall = "none"
      PROVE  CallAllowed'
  BY <1>1 DEF networkStateChange, SameNetworkBack, NetworkConnected, NetworkLost,
              AllConnected
<1>2. CASE MainLooperEnv
  <2>1. CASE \E n \in Networks \cup {NoNetwork} : Connectivity(n)
    BY <1>1, <2>1 DEF Connectivity, MainJob, LooperIdle
  <2>2. CASE ScreenTurnsOff
    BY <2>2 DEF ScreenTurnsOff, MainJob, LooperIdle, ScreenOff
  <2>3. CASE ScreenTurnsOn
    BY <2>3 DEF ScreenTurnsOn, ScreenOn, getPauseReason, AllConnected, shouldBeConnected
  <2>4. CASE UserPauses
    BY <2>4 DEF UserPauses, userPause, getPauseReason
  <2>5. CASE UserResumes
    BY <2>5 DEF UserResumes, userPause, getPauseReason, AllConnected
  <2> QED BY <1>2, <2>1, <2>2, <2>3, <2>4, <2>5 DEF MainLooperEnv
<1>3. CASE CreateReceiver
  BY <1>3 DEF CreateReceiver, Create, MainJob, LooperIdle
<1>4. CASE RegisterReceiver
  BY <1>1, <1>4 DEF RegisterReceiver, MainJob, LooperIdle
<1>5. CASE NetworkTimerFires
  BY <1>5 DEF NetworkTimerFires, MainJob, LooperIdle, mDelayDisconnectRunnable,
              getPauseReason
<1>6. CASE ResumeTimerFires
  BY <1>6 DEF ResumeTimerFires, shouldBeRunning, shouldBeConnected, AllConnected
<1>7. CASE ManagementCall
  BY <1>7 DEF ManagementCall
<1>8. CASE \/ ManagementThread \/ ProcessReads \/ ProcessRestarts
           \/ ProcessReportsBytes \/ UNCHANGED vars
  BY <1>8, OthersKeepWish
<1> QED BY <1>2, <1>3, <1>4, <1>5, <1>6, <1>7, <1>8 DEF Next, MainLooperSys

(* Only a call of the main looper that is no pause releases a hold. *)
LEMMA ReleasedByCall ==
  ASSUME TypeOK, [Next]_vars, Releases
  PROVE  /\ ManagementCall /\ UNCHANGED <<network, userpause>>
         /\ mainCall \in Calls \ (PauseReason \cup {"none"})
<1>1. mWaitingForRelease # mWaitingForRelease'
  BY DEF Releases
<1>2. ManagementCall
  BY <1>1, JobKeepsHold, OthersKeepWish DEF Releases, Next, MainLooperSys
<1>3. mainCall \notin PauseReason
  <2> SUFFICES ASSUME mainCall \in PauseReason
               PROVE  FALSE
    OBVIOUS
  <2>1. pause(mainCall)
    BY <1>2 DEF ManagementCall, PauseReason
  <2> QED BY <1>1, <2>1, PausePosts
<1>4. mainCall \in Calls /\ mainCall # "none" /\ UNCHANGED <<network, userpause>>
  BY <1>2 DEF ManagementCall, LooperIdle, TypeOK, ReceiverTypeOK
<1> QED BY <1>2, <1>3, <1>4

LEMMA CallAllowedInvariant == Spec => []CallAllowed
<1>1. Init => CallAllowed
  BY DEF Init, ReceiverInit, CallAllowed
<1>2. TypeOK /\ CallAllowed /\ [Next]_vars => CallAllowed'
  BY CallAllowedStep
<1> QED BY <1>1, <1>2, TypeCorrect, PTL DEF Spec

(* A hold is released only while the user and the network allow it, but for    *)
(* the same network back within its grace period.                              *)
THEOREM ReleasesAreAllowed == Spec => ReleaseAllowed
<1>1. TypeOK /\ CallAllowed /\ [Next]_vars =>
        [Releases => \/ mainCall = "networkChangeSame"
                     \/ /\ userpause = "SHOULDBECONNECTED"
                        /\ network = "SHOULDBECONNECTED"]_vars
  BY ReleasedByCall DEF CallAllowed, Calls
<1> QED BY <1>1, TypeCorrect, CallAllowedInvariant, PTL DEF Spec, ReleaseAllowed

-----------------------------------------------------------------------------
(* A pause that was asked for keeps hold of the process on its whole way: as   *)
(* the call being made, the signal under way, the announced hold, the flag.    *)
Held ==
  \/ mWaitingForRelease
  \/ mainCall \in PauseReason
  \/ InFlight(toProcess, "signal SIGUSR1")
  \/ InFlight(toManagement, "HOLD")

LEMMA HeldStep ==
  ASSUME TypeOK, Held, [Next]_vars, ~Releases
  PROVE  Held'
<1> SUFFICES \/ mWaitingForRelease'
             \/ mainCall' \in PauseReason
             \/ InFlight(toProcess', "signal SIGUSR1")
             \/ InFlight(toManagement', "HOLD")
  BY DEF Held, PauseReason
<1>0. toProcess \in Seq(Command) /\ toManagement \in Seq(Message)
  BY DEF TypeOK, ManagementTypeOK
<1>1. CASE mWaitingForRelease
  BY <1>1 DEF Releases
<1>2. CASE mainCall \in PauseReason
  <2>1. mainCall # "none"
    BY <1>2 DEF PauseReason
  <2>2. CASE ManagementCall
    <3>1. pause(mainCall)
      BY <1>2, <2>2 DEF ManagementCall, PauseReason
    <3> QED BY <1>0, <1>1, <3>1, PausePosts, CommandMembers, InFlightSent
  <2>3. CASE ~ManagementCall
    <3>1. UNCHANGED mainCall
      BY <2>1, <2>3, JobKeepsHold, OthersKeepWish DEF Next, MainLooperSys
    <3> QED BY <1>2, <3>1
  <2> QED BY <2>2, <2>3
<1>3. CASE InFlight(toProcess, "signal SIGUSR1")
  <2>1. CASE ProcessReads
    BY <2>1, <1>0, <1>3, ReadTakes, ReadSays, InFlightRead
  <2>2. CASE ~ProcessReads
    <3>1. UNCHANGED toProcess \/ \E c \in Command : toProcess' = Append(toProcess, c)
      <4>1. CASE ManagementCall
        BY <4>1, PausePosts, ReleasePosts, CommandMembers
           DEF ManagementCall, resume, networkChange, managmentCommand
      <4>2. CASE ManagementThread
        BY <4>2, PausePosts, CommandMembers
           DEF ManagementThread, ManagementRead, processState, HoldReceived,
               ByteCountReceived, Received, HandleHold, HoldChecked, HoldScheduled,
               HoldPaused, UpdateByteCount, ByteCountPause, PauseFromByteCount,
               ManagementThreadPause
      <4>3. CASE ProcessRestarts \/ ProcessReportsBytes \/ UNCHANGED vars
        BY <4>3 DEF ProcessRestarts, ProcessReportsBytes, vars, managementVars
      <4> QED BY <2>2, <4>1, <4>2, <4>3, JobKeepsHold DEF Next, MainLooperSys
    <3> QED BY <3>1, <1>0, <1>3, InFlightAppend
  <2> QED BY <2>1, <2>2
<1>4. CASE InFlight(toManagement, "HOLD")
  <2>1. CASE ManagementRead
    <3>1. CASE HoldReceived
      BY <3>1 DEF HoldReceived
    <3>2. CASE ~HoldReceived
      <4>1. /\ toManagement # << >> /\ Head(toManagement) # "HOLD"
            /\ toManagement' = Tail(toManagement)
        BY <2>1, <3>2 DEF ManagementRead, processState, ByteCountReceived, Received
      <4> QED BY <4>1, <1>0, <1>4, InFlightTail
    <3> QED BY <3>1, <3>2
  <2>2. CASE ~ManagementRead
    <3>0. CASE ProcessReads
      BY <3>0, <1>0, <1>4, ReadTakes, ReadSays
    <3>1. ~ProcessReads => UNCHANGED toManagement \/ \E m \in Message : Says(m)
      <4>1. CASE ManagementCall \/ HandleHold \/ UpdateByteCount \/ PauseFromByteCount
        BY <4>1 DEF ManagementCall, HandleHold, HoldChecked, HoldScheduled, HoldPaused,
                    UpdateByteCount, ByteCountPause, PauseFromByteCount,
                    ManagementThreadPause
      <4>2. CASE ProcessRestarts \/ ProcessReportsBytes
        BY <4>2, MessageMembers DEF ProcessRestarts, ProcessReportsBytes, EnterHold
      <4>3. CASE UNCHANGED vars
        BY <4>3 DEF vars, managementVars
      <4> QED BY <2>2, <4>1, <4>2, <4>3, JobKeepsHold
              DEF Next, MainLooperSys, ManagementThread
    <3> QED BY <3>0, <3>1, <1>0, <1>4, InFlightAppend DEF Says
  <2> QED BY <2>1, <2>2
<1> QED BY <1>1, <1>2, <1>3, <1>4 DEF Held

(* Giving up on the network and pausing for the user both end in a pause call. *)
LEMMA StartsPause ==
  ASSUME TypeOK, [Next]_vars
  PROVE  /\ network' = "DISCONNECTED" =>
              network = "DISCONNECTED" \/ mainCall' \in PauseReason
         /\ userpause' = "DISCONNECTED" =>
              userpause = "DISCONNECTED" \/ mainCall' \in PauseReason
<1> DEFINE Goal ==
      /\ network' = "DISCONNECTED" =>
           network = "DISCONNECTED" \/ mainCall' \in PauseReason
      /\ userpause' = "DISCONNECTED" =>
           userpause = "DISCONNECTED" \/ mainCall' \in PauseReason
<1> SUFFICES Goal
  OBVIOUS
<1>1. ASSUME NEW n, networkStateChange(n)
      PROVE  Goal
  BY <1>1 DEF networkStateChange, SameNetworkBack, NetworkConnected, NetworkLost
<1>2. CASE MainLooperEnv
  <2>1. CASE (\E n \in Networks \cup {NoNetwork} : Connectivity(n))
    BY <1>1, <2>1 DEF Connectivity
  <2>2. CASE ScreenTurnsOff \/ ScreenTurnsOn
    BY <2>2 DEF ScreenTurnsOff, ScreenOff, ScreenTurnsOn, ScreenOn
  <2>3. CASE UserPauses \/ UserResumes
    BY <2>3 DEF UserPauses, UserResumes, userPause, getPauseReason, PauseReason
  <2> QED BY <1>2, <2>1, <2>2, <2>3 DEF MainLooperEnv
<1>3. CASE CreateReceiver \/ ResumeTimerFires \/ ManagementCall
  BY <1>3 DEF CreateReceiver, Create, ResumeTimerFires, ManagementCall
<1>4. CASE RegisterReceiver
  BY <1>1, <1>4 DEF RegisterReceiver
<1>5. CASE NetworkTimerFires
  BY <1>5 DEF NetworkTimerFires, mDelayDisconnectRunnable, getPauseReason, PauseReason
<1>6. CASE \/ ManagementThread \/ ProcessReads \/ ProcessRestarts
           \/ ProcessReportsBytes \/ UNCHANGED vars
  BY <1>6, OthersKeepWish
<1> QED BY <1>2, <1>3, <1>4, <1>5, <1>6 DEF Next, MainLooperSys

-----------------------------------------------------------------------------
(* The network given up on: nothing releases the hold until it is back. *)
HeldForNetwork == network = "DISCONNECTED" => Held

LEMMA HeldForNetworkInvariant == Spec => []HeldForNetwork
<1>1. Init => HeldForNetwork
  <2>1. <<"HOLD">> = Append(<< >>, "HOLD") /\ << >> \in Seq(Message)
    OBVIOUS
  <2>2. InFlight(<<"HOLD">>, "HOLD")
    BY <2>1, InFlightSent, MessageMembers
  <2> QED BY <2>2 DEF Init, HeldForNetwork, Held
<1>2. TypeOK /\ CallAllowed /\ HeldForNetwork /\ [Next]_vars => HeldForNetwork'
  <2> SUFFICES ASSUME TypeOK, CallAllowed, HeldForNetwork, [Next]_vars,
                      network' = "DISCONNECTED"
               PROVE  Held'
    BY DEF HeldForNetwork
  <2>1. CASE mainCall' \in PauseReason
    BY <2>1 DEF Held, PauseReason
  <2>2. CASE network = "DISCONNECTED"
    <3>1. ~Releases
      BY <2>2, ReleasedByCall DEF CallAllowed, Calls
    <3> QED BY <2>2, <3>1, HeldStep DEF HeldForNetwork
  <2> QED BY <2>1, <2>2, StartsPause
<1> QED BY <1>1, <1>2, TypeCorrect, CallAllowedInvariant, PTL DEF Spec

(* Unless a release has overtaken the announcement of a hold, the app takes a   *)
(* running process for a running one, and is not about to be told otherwise.    *)
Coherent ==
  ~overtaken /\ process = "running" => ~mWaitingForRelease /\ ~InFlight(toManagement, "HOLD")

LEMMA CoherentStep ==
  ASSUME TypeOK, Coherent, [Next]_vars
  PROVE  Coherent'
<1> SUFFICES ASSUME ~overtaken', process' = "running"
             PROVE  ~mWaitingForRelease' /\ ~InFlight(toManagement', "HOLD")
  BY DEF Coherent, InFlight
<1>0. toManagement \in Seq(Message)
  BY DEF TypeOK, ManagementTypeOK
<1>1. CASE \/ MainLooperEnv \/ CreateReceiver \/ RegisterReceiver
           \/ NetworkTimerFires \/ ResumeTimerFires
  <2>1. UNCHANGED overtaken
    BY <1>1 DEF MainLooperEnv, Connectivity, ScreenTurnsOff, ScreenTurnsOn, UserPauses,
                UserResumes, CreateReceiver, RegisterReceiver, NetworkTimerFires,
                ResumeTimerFires, MainJob
  <2> QED BY <1>1, <2>1, JobKeepsHold DEF Coherent
<1>2. CASE ManagementCall
  <2>1. UNCHANGED <<process, toManagement>> /\ (overtaken => ReleasesKnown)
    BY <1>2 DEF ManagementCall
  <2>2. mWaitingForRelease' => mWaitingForRelease
    BY <1>2, PausePosts, ReleasePosts DEF ManagementCall, resume, networkChange
  <2>3. CASE overtaken
    <3>1. toProcess' = Append(toProcess, "hold release") /\ ~InFlight(toManagement, "HOLD")
      BY <2>1, <2>3 DEF ReleasesKnown
    <3>2. ~mWaitingForRelease'
      <4>1. toProcess \in Seq(Command) /\ mWaitingForRelease \in BOOLEAN
        BY DEF TypeOK, ManagementTypeOK
      <4>2. ASSUME toProcess' = Append(toProcess, "signal SIGUSR1") \/ UNCHANGED toProcess
            PROVE  FALSE
        BY <3>1, <4>1, <4>2, CommandMembers, LastSent
      <4> QED BY <1>2, <4>1, <4>2, PausePosts, ReleasePosts
              DEF ManagementCall, resume, networkChange
    <3> QED BY <2>1, <3>1, <3>2
  <2>4. CASE ~overtaken
    BY <2>1, <2>2, <2>4 DEF Coherent
  <2> QED BY <2>3, <2>4
<1>3. CASE ManagementThread
  <2>1. UNCHANGED <<process, overtaken>>
    BY <1>3 DEF ManagementThread, ManagementRead, HandleHold, UpdateByteCount,
                PauseFromByteCount
  <2>2. ~mWaitingForRelease /\ ~InFlight(toManagement, "HOLD")
    BY <2>1 DEF Coherent
  <2>3. CASE ManagementRead
    <3>1. ~HoldReceived
      <4> SUFFICES ASSUME toManagement # << >>, Head(toManagement) = "HOLD"
                   PROVE  FALSE
        BY DEF HoldReceived, Received
      <4>1. 1 \in 1..Len(toManagement) /\ toManagement[1] = "HOLD"
        BY <1>0
      <4> QED BY <2>2, <4>1 DEF InFlight
    <3>2. /\ toManagement # << >> /\ toManagement' = Tail(toManagement)
          /\ UNCHANGED mWaitingForRelease
      BY <2>3, <3>1 DEF ManagementRead, processState, ByteCountReceived, Received
    <3>3. ASSUME NEW i \in 1..Len(Tail(toManagement)), Tail(toManagement)[i] = "HOLD"
          PROVE  FALSE
      <4>1. i + 1 \in 1..Len(toManagement) /\ toManagement[i + 1] = "HOLD"
        BY <1>0, <3>2, <3>3
      <4> QED BY <2>2, <4>1 DEF InFlight
    <3> QED BY <2>2, <3>2, <3>3 DEF InFlight
  <2>4. CASE HandleHold \/ UpdateByteCount \/ PauseFromByteCount
    BY <2>2, <2>4, PausePosts
       DEF HandleHold, HoldChecked, HoldScheduled, HoldPaused, UpdateByteCount,
           ByteCountPause, PauseFromByteCount, ManagementThreadPause
  <2> QED BY <1>3, <2>3, <2>4 DEF ManagementThread
<1>4. CASE ProcessReads
  <2>1. ~overtaken /\ ~Overtakes /\ UNCHANGED mWaitingForRelease
    BY <1>4 DEF ProcessReads
  <2>2. CASE process = "hold"
    BY <2>1, <2>2 DEF Overtakes
  <2>3. CASE process # "hold"
    <3>1. process = "running" /\ UNCHANGED toManagement
      BY <1>4, <2>3 DEF ProcessReads, HoldingReads, RunningReads, EnterHold
    <3> QED BY <2>1, <3>1 DEF Coherent
  <2> QED BY <2>2, <2>3
<1>5. CASE ProcessRestarts
  BY <1>5 DEF ProcessRestarts, EnterHold
<1>6. CASE ProcessReportsBytes
  <2>1. /\ UNCHANGED <<process, overtaken, mWaitingForRelease>>
        /\ toManagement' = Append(toManagement, "BYTECOUNT")
    BY <1>6 DEF ProcessReportsBytes, Says
  <2>2. ~mWaitingForRelease /\ ~InFlight(toManagement, "HOLD")
    BY <2>1 DEF Coherent
  <2>3. ASSUME NEW i \in 1..Len(toManagement'), toManagement'[i] = "HOLD"
        PROVE  FALSE
    <3>1. i \in 1..Len(toManagement) /\ toManagement[i] = "HOLD"
      BY <1>0, <2>1, <2>3, MessageMembers
    <3> QED BY <2>2, <3>1 DEF InFlight
  <2> QED BY <2>1, <2>2, <2>3 DEF InFlight
<1>7. CASE UNCHANGED vars
  BY <1>7 DEF vars, managementVars, Coherent
<1> QED BY <1>1, <1>2, <1>3, <1>4, <1>5, <1>6, <1>7 DEF Next, MainLooperSys

LEMMA CoherentInvariant == Spec => []Coherent
<1>1. Init => Coherent
  BY DEF Init, Coherent
<1>2. TypeOK /\ Coherent /\ [Next]_vars => Coherent'
  BY CoherentStep
<1> QED BY <1>1, <1>2, TypeCorrect, PTL DEF Spec

(* With nothing under way a pause that was asked for has left the flag up, and *)
(* the flag is right about the process.                                        *)
LEMMA SettledHeld ==
  ASSUME TypeOK, Coherent, Settled, Held, ~overtaken
  PROVE  process = "hold"
<1>1. mWaitingForRelease
  BY DEF Settled, Held, PauseReason, InFlight
<1> QED BY <1>1 DEF Coherent, TypeOK

(* Once everything has settled after the network was given up on, the process  *)
(* waits in a hold, unless a release has overtaken its announcement.           *)
THEOREM NetworkPauseHolds == Spec => []PausedWithoutNetwork
<1>1. TypeOK /\ Coherent /\ HeldForNetwork => PausedWithoutNetwork
  BY SettledHeld DEF HeldForNetwork, PausedWithoutNetwork
<1> QED BY <1>1, TypeCorrect, CoherentInvariant, HeldForNetworkInvariant, PTL

-----------------------------------------------------------------------------
(* With "netchangereconnect" off there is no grace period, and so no same      *)
(* network to come back within it: the one path past the user's pause is shut. *)
NoGracePeriod == network # "PENDINGDISCONNECT" /\ mainCall # "networkChangeSame"

LEMMA NoGracePeriodInvariant ==
  ASSUME ~NetChangeReconnect
  PROVE  Spec => []NoGracePeriod
<1> USE DEF NoGracePeriod
<1>1. Init => NoGracePeriod
  BY DEF Init, ReceiverInit
<1>2. TypeOK /\ NoGracePeriod /\ [Next]_vars => NoGracePeriod'
  <2> SUFFICES ASSUME TypeOK, NoGracePeriod, [Next]_vars
               PROVE  NoGracePeriod'
    OBVIOUS
  <2>1. ASSUME NEW n, networkStateChange(n)
        PROVE  NoGracePeriod'
    BY <2>1 DEF networkStateChange, SameNetworkBack, NetworkConnected, NetworkLost
  <2>2. CASE MainLooperEnv
    <3>1. CASE (\E n \in Networks \cup {NoNetwork} : Connectivity(n))
      BY <2>1, <3>1 DEF Connectivity
    <3>2. CASE ScreenTurnsOff \/ ScreenTurnsOn
      BY <3>2 DEF ScreenTurnsOff, ScreenOff, ScreenTurnsOn, ScreenOn, getPauseReason
    <3>3. CASE UserPauses \/ UserResumes
      BY <3>3 DEF UserPauses, UserResumes, userPause, getPauseReason
    <3> QED BY <2>2, <3>1, <3>2, <3>3 DEF MainLooperEnv
  <2>3. CASE CreateReceiver \/ ResumeTimerFires \/ ManagementCall
    BY <2>3 DEF CreateReceiver, Create, ResumeTimerFires, ManagementCall
  <2>4. CASE RegisterReceiver
    BY <2>1, <2>4 DEF RegisterReceiver
  <2>5. CASE NetworkTimerFires
    BY <2>5 DEF NetworkTimerFires, mDelayDisconnectRunnable
  <2>6. CASE \/ ManagementThread \/ ProcessReads \/ ProcessRestarts
             \/ ProcessReportsBytes \/ UNCHANGED vars
    BY <2>6, OthersKeepWish
  <2> QED BY <2>2, <2>3, <2>4, <2>5, <2>6 DEF Next, MainLooperSys
<1> QED BY <1>1, <1>2, TypeCorrect, PTL DEF Spec

(* With no grace period, no hold is released while the user has paused.        *)
THEOREM UserPauseIsKept ==
  ASSUME ~NetChangeReconnect
  PROVE  Spec => UserPauseKept
<1>1. TypeOK /\ CallAllowed /\ NoGracePeriod /\ [Next]_vars =>
        [Releases => userpause = "SHOULDBECONNECTED"]_vars
  BY ReleasedByCall DEF CallAllowed, NoGracePeriod, Calls
<1> QED BY <1>1, TypeCorrect, CallAllowedInvariant, NoGracePeriodInvariant, PTL
        DEF Spec, UserPauseKept

HeldForUser == userpause = "DISCONNECTED" => Held

LEMMA HeldForUserInvariant ==
  ASSUME ~NetChangeReconnect
  PROVE  Spec => []HeldForUser
<1>1. Init => HeldForUser
  BY DEF Init, ReceiverInit, HeldForUser
<1>2. TypeOK /\ CallAllowed /\ NoGracePeriod /\ HeldForUser /\ [Next]_vars => HeldForUser'
  <2> SUFFICES ASSUME TypeOK, CallAllowed, NoGracePeriod, HeldForUser, [Next]_vars,
                      userpause' = "DISCONNECTED"
               PROVE  Held'
    BY DEF HeldForUser
  <2>1. CASE mainCall' \in PauseReason
    BY <2>1 DEF Held, PauseReason
  <2>2. CASE userpause = "DISCONNECTED"
    <3>1. ~Releases
      BY <2>2, ReleasedByCall DEF CallAllowed, NoGracePeriod, Calls
    <3> QED BY <2>2, <3>1, HeldStep DEF HeldForUser
  <2> QED BY <2>1, <2>2, StartsPause
<1> QED BY <1>1, <1>2, TypeCorrect, CallAllowedInvariant, NoGracePeriodInvariant, PTL
        DEF Spec

(* With no grace period, once everything has settled after the user's pause    *)
(* the process waits in a hold, unless a release has overtaken its announcement. *)
THEOREM UserPauseHolds ==
  ASSUME ~NetChangeReconnect
  PROVE  Spec => []PausedForUser
<1>1. TypeOK /\ Coherent /\ HeldForUser => PausedForUser
  BY SettledHeld DEF HeldForUser, PausedForUser
<1> QED BY <1>1, TypeCorrect, CoherentInvariant, HeldForUserInvariant, PTL

-----------------------------------------------------------------------------
(* A process that waits while it is wanted is about to be released: by a call  *)
(* of the main looper, by the hold being handled, or by the resume posted for  *)
(* it, which no pause can remove, since one is only made while it is unwanted. *)
ReleaseCalls == Calls \ (PauseReason \cup {"none"})

Unregistered == registered # "yes" => network # "SHOULDBECONNECTED"

PausesUnwanted == mainCall \in PauseReason => ~shouldBeConnected

ReleaseToCome ==
  mWaitingForRelease /\ shouldBeConnected =>
    \/ mainCall \in ReleaseCalls
    \/ mgmtStep \in {"hold", "holdGo"}
    \/ mgmtStep = "read" /\ resumePosts > 0

Wanted == Unregistered /\ PausesUnwanted /\ ReleaseToCome

(* A job that makes the VPN wanted ends with a call that releases, and one that *)
(* ends with a pause leaves it unwanted.                                        *)
JobRight ==
  /\ shouldBeConnected' => shouldBeConnected \/ mainCall' \in ReleaseCalls
  /\ PausesUnwanted'
  /\ Unregistered'

LEMMA JobsRight ==
  ASSUME ~RepeatedResume, TypeOK, Wanted,
         MainLooperEnv \/ CreateReceiver \/ RegisterReceiver \/ NetworkTimerFires
  PROVE  JobRight /\ UNCHANGED managementVars
<1> USE DEF JobRight, PausesUnwanted, Unregistered, Wanted, ReleaseCalls, Calls, PauseReason,
            shouldBeConnected, AllConnected, MainJob, LooperIdle
<1>1. ASSUME NEW n \in Networks \cup {NoNetwork}, networkStateChange(n), mainCall = "none",
             registered' = "yes"
      PROVE  JobRight
  BY <1>1 DEF networkStateChange, SameNetworkBack, NetworkConnected, NetworkLost
<1>2. CASE \E n \in Networks \cup {NoNetwork} : Connectivity(n)
  BY <1>1, <1>2 DEF Connectivity
<1>3. CASE ScreenTurnsOff
  BY <1>3 DEF ScreenTurnsOff, ScreenOff
<1>4. CASE ScreenTurnsOn
  BY <1>4 DEF ScreenTurnsOn, ScreenOn, getPauseReason
<1>5. CASE UserPauses
  BY <1>5 DEF UserPauses, userPause, getPauseReason
<1>6. CASE UserResumes
  <2>1. userpause = "DISCONNECTED" /\ registered = "yes"
    BY <1>6 DEF UserResumes
  <2> QED BY <1>6, <2>1 DEF UserResumes, userPause, getPauseReason
<1>7. CASE CreateReceiver
  BY <1>7 DEF CreateReceiver, Create
<1>8. CASE RegisterReceiver
  BY <1>1, <1>8 DEF RegisterReceiver
<1>9. CASE NetworkTimerFires
  BY <1>9 DEF NetworkTimerFires, mDelayDisconnectRunnable, getPauseReason
<1>10. UNCHANGED managementVars
  BY DEF MainLooperEnv, Connectivity, ScreenTurnsOff, ScreenTurnsOn, UserPauses, UserResumes,
         CreateReceiver, RegisterReceiver, NetworkTimerFires
<1> QED BY <1>2, <1>3, <1>4, <1>5, <1>6, <1>7, <1>8, <1>9, <1>10 DEF MainLooperEnv

LEMMA WantedStep ==
  ASSUME ~RepeatedResume, TypeOK, Wanted, [Next]_vars
  PROVE  Wanted'
<1> USE DEF Wanted
<1>1. CASE MainLooperEnv \/ CreateReceiver \/ RegisterReceiver \/ NetworkTimerFires
  <2>1. JobRight /\ UNCHANGED managementVars /\ mainCall = "none"
    BY <1>1, JobsRight, JobKeepsHold
  <2>2. ReleaseToCome'
    BY <2>1 DEF JobRight, ReleaseToCome, ReleaseCalls, managementVars
  <2> QED BY <2>1, <2>2 DEF JobRight
<1>2. CASE ResumeTimerFires
  <2>1. /\ UNCHANGED <<network, screen, userpause, registered, mWaitingForRelease, mgmtStep>>
        /\ mainCall' = IF shouldBeRunning THEN "mResumeHoldRunnable" ELSE "none"
    BY <1>2 DEF ResumeTimerFires
  <2>2. shouldBeConnected => mainCall' = "mResumeHoldRunnable"
    BY <2>1 DEF shouldBeRunning, shouldBeConnected, AllConnected, Unregistered
  <2>3. shouldBeConnected' = shouldBeConnected
    BY <2>1 DEF shouldBeConnected, AllConnected
  <2>4. Unregistered' /\ PausesUnwanted'
    BY <2>1, <2>3 DEF Unregistered, PausesUnwanted, PauseReason
  <2>5. ReleaseToCome'
    BY <2>2, <2>3 DEF ReleaseToCome, ReleaseCalls, Calls, PauseReason
  <2> QED BY <2>4, <2>5
<1>3. CASE ManagementCall
  <2>1. /\ UNCHANGED <<network, screen, userpause, registered, mgmtStep>> /\ mainCall' = "none"
        /\ mainCall \in Calls \ {"none"}
    BY <1>3 DEF ManagementCall, LooperIdle, TypeOK, ReceiverTypeOK
  <2>2. shouldBeConnected' = shouldBeConnected
    BY <2>1 DEF shouldBeConnected, AllConnected
  <2>3. Unregistered' /\ PausesUnwanted'
    BY <2>1 DEF Unregistered, PausesUnwanted, PauseReason
  <2>4. ReleaseToCome'
    <3>1. CASE mainCall \in PauseReason
      BY <2>2, <3>1 DEF PausesUnwanted, ReleaseToCome
    <3>2. CASE mainCall = "resume" \/ mainCall = "mResumeHoldRunnable"
      <4>1. releaseHold \/ releaseHoldCmd
        BY <1>3, <3>2 DEF ManagementCall, resume, PauseReason
      <4> QED BY <4>1, ReleasePosts DEF ReleaseToCome
    <3>3. CASE mainCall = "networkChangeSame" \/ mainCall = "networkChangeNew"
      <4>1. networkChange(TRUE) \/ networkChange(FALSE)
        BY <1>3, <3>3 DEF ManagementCall, PauseReason
      <4>2. releaseHold \/ ~mWaitingForRelease'
        BY <4>1 DEF networkChange
      <4> QED BY <4>2, ReleasePosts DEF ReleaseToCome
    <3> QED BY <2>1, <3>1, <3>2, <3>3 DEF Calls
  <2> QED BY <2>3, <2>4
<1>4. CASE ManagementRead
  <2>1. UNCHANGED receiverVars /\ mgmtStep = "read" /\ UNCHANGED resumePosts
    BY <1>4 DEF ManagementRead, processState, HoldReceived, ByteCountReceived, Received
  <2>2. Unregistered' /\ PausesUnwanted' /\ shouldBeConnected' = shouldBeConnected
    BY <2>1 DEF receiverVars, Unregistered, PausesUnwanted, shouldBeConnected, AllConnected
  <2>3. \/ mgmtStep' = "hold"
        \/ mgmtStep' = "read" /\ UNCHANGED mWaitingForRelease
        \/ mgmtStep' = "byteCount" /\ ~shouldBeConnected
    BY <1>4 DEF ManagementRead, processState, HoldReceived, ByteCountReceived, Received,
                shouldBeConnected, AllConnected
  <2>4. ReleaseToCome'
    BY <2>1, <2>2, <2>3 DEF ReleaseToCome, receiverVars
  <2> QED BY <2>2, <2>4
<1>5. CASE HandleHold
  <2>1. UNCHANGED receiverVars /\ UNCHANGED mWaitingForRelease
    BY <1>5 DEF HandleHold, HoldChecked, HoldScheduled, HoldPaused
  <2>2. Unregistered' /\ PausesUnwanted' /\ shouldBeConnected' = shouldBeConnected
    BY <2>1 DEF receiverVars, Unregistered, PausesUnwanted, shouldBeConnected, AllConnected
  <2>3. CASE HoldChecked(shouldBeRunning)
    <3>1. shouldBeConnected => shouldBeRunning
      BY DEF shouldBeConnected, AllConnected, shouldBeRunning, Unregistered
    <3>2. shouldBeConnected => mgmtStep' = "holdGo"
      BY <2>3, <3>1 DEF HoldChecked
    <3> QED BY <2>2, <3>2 DEF ReleaseToCome
  <2>4. CASE \E waits \in BOOLEAN : HoldScheduled(waits)
    <3>1. mgmtStep' = "read" /\ resumePosts' > 0
      BY <2>4 DEF HoldScheduled, TypeOK, ManagementTypeOK
    <3> QED BY <2>2, <3>1 DEF ReleaseToCome
  <2>5. CASE HoldPaused
    <3>1. mgmtStep = "holdPause"
      BY <2>5 DEF HoldPaused
    <3> QED BY <2>1, <2>2, <3>1 DEF ReleaseToCome, receiverVars
  <2> QED BY <1>5, <2>2, <2>3, <2>4, <2>5 DEF HandleHold
<1>6. CASE UpdateByteCount
  <2>1. screen' = "DISCONNECTED" /\ UNCHANGED <<network, registered, mainCall>>
    BY <1>6 DEF UpdateByteCount, ByteCountPause, PauseForScreen
  <2>2. ~shouldBeConnected'
    BY <2>1 DEF shouldBeConnected, AllConnected
  <2> QED BY <2>1, <2>2 DEF Unregistered, PausesUnwanted, ReleaseToCome
<1>7. CASE PauseFromByteCount
  <2>1. /\ UNCHANGED receiverVars /\ UNCHANGED mWaitingForRelease /\ mgmtStep = "pause"
    BY <1>7, PausePosts DEF PauseFromByteCount, ManagementThreadPause
  <2>2. Unregistered' /\ PausesUnwanted' /\ shouldBeConnected' = shouldBeConnected
    BY <2>1 DEF receiverVars, Unregistered, PausesUnwanted, shouldBeConnected, AllConnected
  <2> QED BY <2>1, <2>2 DEF ReleaseToCome, receiverVars
<1>8. CASE ProcessReads \/ ProcessRestarts \/ ProcessReportsBytes \/ UNCHANGED vars
  <2>1. UNCHANGED <<receiverVars, mWaitingForRelease, resumePosts, mgmtStep>>
    BY <1>8 DEF ProcessReads, ProcessRestarts, ProcessReportsBytes, vars, managementVars
  <2> QED BY <2>1 DEF receiverVars, Unregistered, PausesUnwanted, ReleaseToCome,
                      shouldBeConnected, AllConnected
<1> QED BY <1>1, <1>2, <1>3, <1>4, <1>5, <1>6, <1>7, <1>8
        DEF Next, MainLooperSys, ManagementThread

(* Unless the user resumes without having paused, a process that is wanted     *)
(* runs once everything has settled, with either preference: each event that   *)
(* makes it wanted again releases the hold, and no pause removes the resume    *)
(* posted for one.                                                             *)
THEOREM WantedProcessRuns ==
  ASSUME ~RepeatedResume
  PROVE  Spec => []RunsWhenWanted
<1>1. Init => Wanted
  BY DEF Init, ReceiverInit, ManagementInit, Wanted, Unregistered, PausesUnwanted, ReleaseToCome,
         PauseReason
<1>2. TypeOK /\ Wanted /\ [Next]_vars => Wanted'
  BY WantedStep
<1>3. TypeOK /\ NoLostHold /\ Wanted => RunsWhenWanted
  <2> SUFFICES ASSUME TypeOK, NoLostHold, Wanted, Settled, shouldBeConnected, process = "hold"
               PROVE  FALSE
    BY DEF RunsWhenWanted, TypeOK
  <2>1. mWaitingForRelease
    BY DEF NoLostHold, Settled, InFlight
  <2> QED BY <2>1 DEF Wanted, ReleaseToCome, Settled, ReleaseCalls
<1> QED BY <1>1, <1>2, <1>3, TypeCorrect, HoldNeverLost, PTL DEF Spec

=============================================================================
