-------------------------- MODULE ManagementHold ---------------------------
(***************************************************************************)
(* The hold and pause part of                                              *)
(* net.rroadvpn.openvpn.core.OpenVpnManagementThread: what it remembers of *)
(* the process' hold, the commands it writes to the management socket and  *)
(* the messages it reads from it.                                          *)
(*                                                                         *)
(* The socket is a pair of FIFO channels.  The read loop runs on the       *)
(* management thread; pause, resume, networkChange and the resume timer    *)
(* are called from the main looper (and pause also by updateByteCount on   *)
(* the management thread).                                                 *)
(***************************************************************************)
EXTENDS Naturals, Sequences

CONSTANTS
  MaxCommands,  \* bound: commands in flight to the process
  MaxMessages   \* bound: messages in flight from the process

ASSUME ChannelAssumption ==
         MaxCommands \in Nat \ {0} /\ MaxMessages \in Nat \ {0}

VARIABLES
  mWaitingForRelease,
  lastPauseReason,
  resumePosts,   \* mResumeHoldRunnables posted on mResumeHandler
  status,        \* what VpnStatus last showed, as far as pausing goes
  mgmtStep,      \* where the management thread is in the message it handles
  mgmtReason,    \* the reason its updateByteCount passes to pause
  toProcess, toManagement

managementVars ==
  <<mWaitingForRelease, lastPauseReason, resumePosts, status, mgmtStep, mgmtReason,
    toProcess, toManagement>>

Command == {"hold release", "signal SIGUSR1", "network-change",
            "network-change samenetwork"}

(* The lines the process writes; STATE stands for its progress after a hold. *)
Message == {"HOLD", "BYTECOUNT", "STATE"}

Reason == {"noNetwork", "userPause", "screenOff"}

(* "ACTIVE" stands for every status the process itself reports. *)
Status == {"ACTIVE", "CONNECTRETRY", "NONETWORK", "USERPAUSE", "SCREENOFF"}

ManagementTypeOK ==
  /\ mWaitingForRelease \in BOOLEAN
  /\ lastPauseReason \in Reason
  /\ resumePosts \in Nat
  /\ status \in Status
  /\ mgmtStep \in {"read", "hold", "holdGo", "holdPause", "byteCount", "pause"}
  /\ mgmtReason \in Reason
  /\ toProcess \in Seq(Command)
  /\ toManagement \in Seq(Message)

ManagementInit ==
  /\ mWaitingForRelease = FALSE
  /\ lastPauseReason = "noNetwork"
  /\ resumePosts = 0
  /\ status = "ACTIVE"
  /\ mgmtStep = "read"
  /\ mgmtReason = "noNetwork"
  /\ toProcess = << >>

-----------------------------------------------------------------------------
(* VpnStatus.updateStatePause. *)
updateStatePause(reason) ==
  status' = CASE reason = "noNetwork" -> "NONETWORK"
              [] reason = "userPause" -> "USERPAUSE"
              [] reason = "screenOff" -> "SCREENOFF"

managmentCommand(cmd) == toProcess' = Append(toProcess, cmd)

(* One step: before it clears the flag the code may sleep for 3 s, and what the *)
(* management thread does meanwhile has the outcome of doing it before or after *)
(* the step.  The commands that follow ("bytecount", "state on") are left out.  *)
releaseHoldCmd ==
  /\ resumePosts' = 0
  /\ mWaitingForRelease' = FALSE
  /\ managmentCommand("hold release")

releaseHold ==
  IF mWaitingForRelease
  THEN releaseHoldCmd
  ELSE UNCHANGED <<resumePosts, mWaitingForRelease, toProcess>>

(* pause(reason): remember the reason, then signalusr1(). *)
pause(reason) ==
  /\ lastPauseReason' = reason
  /\ resumePosts' = 0
  /\ IF mWaitingForRelease
     THEN updateStatePause(reason) /\ UNCHANGED toProcess
     ELSE managmentCommand("signal SIGUSR1") /\ UNCHANGED status
  /\ UNCHANGED mWaitingForRelease

resume ==
  /\ releaseHold
  /\ lastPauseReason' = "noNetwork"
  /\ UNCHANGED status

networkChange(samenetwork) ==
  /\ IF mWaitingForRelease
     THEN releaseHold
     ELSE /\ managmentCommand(IF samenetwork THEN "network-change samenetwork"
                              ELSE "network-change")
          /\ UNCHANGED <<resumePosts, mWaitingForRelease>>
  /\ UNCHANGED <<lastPauseReason, status>>

-----------------------------------------------------------------------------
(* The management thread.  processCommand takes one line off the socket. *)
Received(msg) ==
  /\ mgmtStep = "read"
  /\ toManagement # << >> /\ Head(toManagement) = msg
  /\ toManagement' = Tail(toManagement)
  /\ UNCHANGED <<lastPauseReason, resumePosts, mgmtReason, toProcess>>

processState ==
  /\ Received("STATE")
  /\ status' = "ACTIVE"
  /\ UNCHANGED <<mWaitingForRelease, mgmtStep>>

(* Faulty variant: handleHold does not note that the process waits. *)
HoldReceivedUnnoted ==
  /\ Received("HOLD")
  /\ mgmtStep' = "hold"
  /\ UNCHANGED <<mWaitingForRelease, status>>

(* handleHold: first the flag, then the pause callback, then the reaction. *)
HoldReceived ==
  /\ Received("HOLD")
  /\ mWaitingForRelease' = TRUE
  /\ mgmtStep' = "hold"
  /\ UNCHANGED status

HoldChecked(running) ==
  /\ mgmtStep = "hold"
  /\ mgmtStep' = IF running THEN "holdGo" ELSE "holdPause"
  /\ UNCHANGED <<mWaitingForRelease, lastPauseReason, resumePosts, status, mgmtReason,
                 toProcess, toManagement>>

(* Faulty variant: the release of a wanted hold is announced, never scheduled. *)
HoldNotScheduled(waits) ==
  /\ mgmtStep = "holdGo"
  /\ mgmtStep' = "read"
  /\ status' = IF waits THEN "CONNECTRETRY" ELSE status
  /\ UNCHANGED <<mWaitingForRelease, lastPauseReason, resumePosts, mgmtReason,
                 toProcess, toManagement>>

(* The wait the process asks for is 0 for its first hold, and longer later. *)
HoldScheduled(waits) ==
  /\ mgmtStep = "holdGo"
  /\ mgmtStep' = "read"
  /\ resumePosts' = resumePosts + 1
  /\ status' = IF waits THEN "CONNECTRETRY" ELSE status
  /\ UNCHANGED <<mWaitingForRelease, lastPauseReason, mgmtReason, toProcess, toManagement>>

HoldPaused ==
  /\ mgmtStep = "holdPause"
  /\ mgmtStep' = "read"
  /\ updateStatePause(lastPauseReason)
  /\ UNCHANGED <<mWaitingForRelease, lastPauseReason, resumePosts, mgmtReason,
                 toProcess, toManagement>>

(* processByteCount, up to the receiver's check that the pause is pending. *)
ByteCountReceived(pausing) ==
  /\ Received("BYTECOUNT")
  /\ mgmtStep' = IF pausing THEN "byteCount" ELSE "read"
  /\ UNCHANGED <<mWaitingForRelease, status>>

ByteCountPause(reason) ==
  /\ mgmtStep = "byteCount"
  /\ mgmtStep' = "pause"
  /\ mgmtReason' = reason
  /\ UNCHANGED <<mWaitingForRelease, lastPauseReason, resumePosts, status,
                 toProcess, toManagement>>

ManagementThreadPause ==
  /\ mgmtStep = "pause"
  /\ mgmtStep' = "read"
  /\ pause(mgmtReason)
  /\ UNCHANGED <<mgmtReason, toManagement>>

=============================================================================
