------------------------- MODULE StatusRelay_proofs -------------------------
(***************************************************************************)
(* Proofs about StatusRelay for any states, and however many lines,        *)
(* updates and crashes: no line is anywhere before it is logged, a         *)
(* registered client misses only the lines handled between the copy of the *)
(* log and its registration, and with no update to come it shows the state *)
(* of the service.                                                         *)
(***************************************************************************)
EXTENDS StatusRelay, SequenceTheorems, TLAPS

-----------------------------------------------------------------------------
(* Sequences of messages and of lines. *)

LEMMA LinesAppend ==
  ASSUME NEW M, NEW seq \in Seq(M), NEW m \in M
  PROVE  LinesIn(Append(seq, m)) =
           LinesIn(seq) \cup {line \in {m.line} : m.what = "log"}
<1> DEFINE longer == Append(seq, m)
<1>1. /\ Len(seq) \in Nat /\ Len(longer) = Len(seq) + 1
      /\ longer[Len(seq) + 1] = m /\ \A i \in 1 .. Len(seq) : longer[i] = seq[i]
  OBVIOUS
<1> HIDE DEF longer
<1>2. LinesIn(longer) \subseteq LinesIn(seq) \cup {line \in {m.line} : m.what = "log"}
  BY <1>1 DEF LinesIn
<1>3. LinesIn(seq) \subseteq LinesIn(longer)
  BY <1>1 DEF LinesIn
<1>4. m.what = "log" => m.line \in LinesIn(longer)
  BY <1>1 DEF LinesIn
<1> QED BY <1>2, <1>3, <1>4 DEF longer

LEMMA LinesTail ==
  ASSUME NEW M, NEW seq \in Seq(M), seq # <<>>
  PROVE  LinesIn(seq) =
           LinesIn(Tail(seq)) \cup {line \in {Head(seq).line} : Head(seq).what = "log"}
<1> DEFINE rest == Tail(seq)
<1>1. /\ Len(seq) \in Nat /\ Len(seq) >= 1 /\ Len(rest) = Len(seq) - 1
      /\ Head(seq) = seq[1] /\ \A i \in 1 .. Len(seq) - 1 : rest[i] = seq[i + 1]
  OBVIOUS
<1> HIDE DEF rest
<1>2. \A i \in 1 .. Len(seq) : i = 1 \/ (i - 1 \in 1 .. Len(rest) /\ rest[i - 1] = seq[i])
  BY <1>1
<1>3. LinesIn(seq) \subseteq LinesIn(rest) \cup {line \in {Head(seq).line} : Head(seq).what = "log"}
  BY <1>1, <1>2 DEF LinesIn
<1>4. LinesIn(rest) \subseteq LinesIn(seq)
  BY <1>1 DEF LinesIn
<1>5. Head(seq).what = "log" => Head(seq).line \in LinesIn(seq)
  BY <1>1 DEF LinesIn
<1> QED BY <1>3, <1>4, <1>5 DEF rest

LEMMA RangeAppend ==
  ASSUME NEW M, NEW seq \in Seq(M), NEW m \in M
  PROVE  RangeOf(Append(seq, m)) = RangeOf(seq) \cup {m}
<1> DEFINE longer == Append(seq, m)
<1>1. /\ Len(seq) \in Nat /\ Len(longer) = Len(seq) + 1
      /\ longer[Len(seq) + 1] = m /\ \A i \in 1 .. Len(seq) : longer[i] = seq[i]
  OBVIOUS
<1> HIDE DEF longer
<1>2. RangeOf(longer) \subseteq RangeOf(seq) \cup {m}
  BY <1>1 DEF RangeOf
<1>3. RangeOf(seq) \cup {m} \subseteq RangeOf(longer)
  BY <1>1 DEF RangeOf
<1> QED BY <1>2, <1>3 DEF longer

LEMMA RangeTail ==
  ASSUME NEW M, NEW seq \in Seq(M), seq # <<>>
  PROVE  RangeOf(seq) = RangeOf(Tail(seq)) \cup {Head(seq)}
<1> DEFINE rest == Tail(seq)
<1>1. /\ Len(seq) \in Nat /\ Len(seq) >= 1 /\ Len(rest) = Len(seq) - 1
      /\ Head(seq) = seq[1] /\ \A i \in 1 .. Len(seq) - 1 : rest[i] = seq[i + 1]
  OBVIOUS
<1> HIDE DEF rest
<1>2. \A i \in 1 .. Len(seq) : i = 1 \/ (i - 1 \in 1 .. Len(rest) /\ rest[i - 1] = seq[i])
  BY <1>1
<1>3. RangeOf(seq) \subseteq RangeOf(rest) \cup {Head(seq)}
  BY <1>1, <1>2 DEF RangeOf
<1>4. RangeOf(rest) \cup {Head(seq)} \subseteq RangeOf(seq)
  BY <1>1 DEF RangeOf
<1> QED BY <1>3, <1>4 DEF rest

-----------------------------------------------------------------------------
(* Types *)

Known == States \cup {"NOPROCESS"}

(* What the client shows. *)
Own == Known \cup {"USER_VPN_PERMISSION"}

Messages(n) == {LogMessage(line) : line \in 1 .. n} \cup {StateMessage(state) : state \in Known}

Typed ==
  /\ mLaststate \in Known /\ shown \in Own /\ mLastUpdateMessage \subseteq Known
  /\ logbuffer \subseteq 1 .. lines /\ copied \subseteq logbuffer
  /\ clientLog \subseteq 1 .. lines /\ missed \subseteq 1 .. lines
  /\ queue \in Seq(Messages(lines)) /\ calls \in Seq(Messages(lines))
  /\ pipe \in Seq(0 .. lines)
  /\ lines \in 0 .. MaxLines

Places ==
  /\ registering \in {"no", "copied", "sent", "registered"}
  /\ onServiceConnected \in {"unbound", "register", "read", "done"}
  /\ readFileLog \in BOOLEAN /\ created \in BOOLEAN /\ registered \in BOOLEAN
  /\ pushLogs \in BOOLEAN /\ astray \in BOOLEAN
  /\ updates \in 0 .. MaxUpdates /\ crashes \in 0 .. MaxCrashes
  /\ connects \in 0 .. MaxConnects /\ tasks \in 0 .. connects

LEMMA InitTyped == Init => Typed /\ Places
<1> SUFFICES ASSUME Init
             PROVE  Typed /\ Places
  OBVIOUS
<1>1. Typed
  <2>1. <<>> \in Seq(Messages(0)) /\ <<>> \in Seq(0 .. 0)
    OBVIOUS
  <2>2. queue = <<>> /\ calls = <<>> /\ pipe = <<>> /\ lines = 0
    BY DEF Init, ProcessStarted
  <2>3. queue \in Seq(Messages(lines)) /\ calls \in Seq(Messages(lines)) /\ pipe \in Seq(0 .. lines)
    BY <2>1, <2>2
  <2>4. lines \in 0 .. MaxLines
    BY <2>2, RelayAssumption
  <2> QED BY <2>3, <2>4 DEF Init, ProcessStarted, Typed, Known, Own
<1>2. /\ updates \in 0 .. MaxUpdates /\ crashes \in 0 .. MaxCrashes
      /\ connects \in 0 .. MaxConnects /\ tasks \in 0 .. connects
  BY RelayAssumption DEF Init
<1>3. Places
  BY <1>2 DEF Init, ProcessStarted, Places
<1> QED BY <1>1, <1>3

LEMMA PlacesNext == Places /\ [Next]_vars => Places'
<1> SUFFICES ASSUME Places, [Next]_vars
             PROVE  Places'
  OBVIOUS
<1> USE DEF Places
<1>1. CASE newLogItem
  BY <1>1 DEF newLogItem, registerVars, clientVars
<1>2. CASE updateStateString
  BY <1>2, RelayAssumption DEF updateStateString, registerVars, clientVars
<1>3. CASE LogCacheRead \/ onCreate
  BY <1>3 DEF LogCacheRead, onCreate, serviceVars, statusVars, registerVars, clientVars, historyVars
<1>4. CASE CopyLog
  BY <1>4 DEF CopyLog, statusVars, serviceVars, clientVars
<1>5. CASE SendLastUpdate
  BY <1>5 DEF SendLastUpdate, OnCourse, statusVars, serviceVars, clientVars
<1>6. CASE Register \/ ReturnPipe
  BY <1>6 DEF Register, ReturnPipe, statusVars, serviceVars, clientVars, historyVars
<1>7. CASE PipeFails
  BY <1>7 DEF PipeFails, statusVars, serviceVars
<1>8. CASE PushLine \/ PushEnd
  BY <1>8 DEF PushLine, PushEnd, statusVars, serviceVars, clientVars, historyVars
<1>9. CASE Broadcast
  BY <1>9 DEF Broadcast, OnCourse, statusVars, registerVars, clientVars
<1>10. CASE BroadcastToNobody
  BY <1>10 DEF BroadcastToNobody, statusVars, registerVars, clientVars
<1>11. CASE Bound \/ ReadLine \/ ReadEnd
  <2>1. UNCHANGED <<statusVars, serviceVars, registerVars, tasks, connects, historyVars>>
    BY <1>11 DEF Bound, ReadLine, ReadEnd
  <2>2. onServiceConnected' \in {"register", "done", onServiceConnected}
    BY <1>11 DEF Bound, ReadLine, ReadEnd
  <2> QED BY <2>1, <2>2 DEF statusVars, serviceVars, registerVars, historyVars
<1>12. CASE CallReceived
  <2>1. UNCHANGED <<statusVars, serviceVars, registerVars, onServiceConnected, tasks, connects,
                    historyVars>>
    BY <1>12 DEF CallReceived
  <2> QED BY <2>1 DEF statusVars, serviceVars, registerVars, historyVars
<1>13. CASE Crash
  <2>1. crashes' \in 0 .. MaxCrashes /\ UNCHANGED <<updates, tasks, connects>>
    BY <1>13, RelayAssumption DEF Crash
  <2>2. /\ registering' = "no" /\ onServiceConnected' = "unbound"
        /\ readFileLog' = FALSE /\ created' = FALSE /\ registered' = FALSE
        /\ pushLogs' = FALSE /\ astray' = TRUE
    BY <1>13 DEF Crash
  <2> QED BY <2>1, <2>2
<1>14. CASE Connecting
  <2>1. UNCHANGED <<statusVars, serviceVars, registerVars, onServiceConnected, updates, crashes>>
    BY <1>14 DEF Connecting, vpnPreparePermissionIntent, connectAgain, ConnectFails,
                 prepareToConnectVPN, historyVars
  <2>2. astray' \in BOOLEAN
    BY <1>14 DEF Connecting, vpnPreparePermissionIntent, connectAgain, ConnectFails,
                 prepareToConnectVPN, Shows, historyVars
  <2>3. connects' \in 0 .. MaxConnects /\ tasks' \in 0 .. connects'
    <3>1. CASE connects < MaxConnects /\ connects' = connects + 1 /\ tasks' = tasks + 1
      BY <3>1, RelayAssumption
    <3>2. CASE tasks > 0 /\ tasks' = tasks - 1 /\ connects' = connects
      BY <3>2, RelayAssumption
    <3> QED BY <1>14, <3>1, <3>2 DEF Connecting, vpnPreparePermissionIntent, connectAgain,
                                     ConnectFails, prepareToConnectVPN
  <2> QED BY <2>1, <2>2, <2>3 DEF statusVars, serviceVars, registerVars
<1>15. CASE UNCHANGED vars
  BY <1>15 DEF vars, statusVars, serviceVars, registerVars, clientVars, historyVars
<1> QED
  BY <1>1, <1>2, <1>3, <1>4, <1>5, <1>6, <1>7, <1>8, <1>9, <1>10, <1>11, <1>12, <1>13, <1>14, <1>15
     DEF Next, Binder, PushThread, Handler, MainThread

-----------------------------------------------------------------------------
(* The messages and the lines of a longer log. *)

LEMMA SeqMonotone ==
  ASSUME NEW A, NEW B, A \subseteq B, NEW seq \in Seq(A)
  PROVE  seq \in Seq(B)
BY SeqDef

LEMMA KnownMessages ==
  ASSUME NEW n \in Nat
  PROVE  /\ \A state \in Known : StateMessage(state) \in Messages(n)
         /\ LogMessage(n + 1) \in Messages(n + 1)
         /\ Messages(n) \subseteq Messages(n + 1)
         /\ Messages(n) \subseteq Messages(n)
BY DEF Messages

LEMMA MessageShape ==
  ASSUME NEW n \in Nat, NEW m \in Messages(n)
  PROVE  /\ m.what \in {"log", "state"}
         /\ m.what = "log" => m.line \in 1 .. n
         /\ m.what = "state" => m.state \in Known
BY DEF Messages, LogMessage, StateMessage

(* What newLogItem does to the types, alone and in updateStateString. *)
LEMMA TypedLine ==
  ASSUME Typed, AddLine, UNCHANGED <<registerVars, channelVars, clientVars, missed>>
  PROVE  Typed'
<1> PICK n \in Nat : n = lines
  BY DEF Typed
<1>1. lines' = n + 1 /\ n + 1 \in 0 .. MaxLines
  BY RelayAssumption DEF AddLine, Typed
<1>2. /\ logbuffer' = logbuffer \cup {n + 1}
      /\ queue' = queue \/ queue' = Append(queue, LogMessage(n + 1))
  BY <1>1 DEF AddLine, Post
<1>3. 1 .. n \subseteq 1 .. n + 1 /\ 0 .. n \subseteq 0 .. n + 1 /\ n + 1 \in 1 .. n + 1
  OBVIOUS
<1>4. queue \in Seq(Messages(n + 1)) /\ calls \in Seq(Messages(n + 1)) /\ pipe \in Seq(0 .. n + 1)
  <2>1. Messages(n) \subseteq Messages(n + 1)
    BY KnownMessages
  <2>2. queue \in Seq(Messages(n)) /\ calls \in Seq(Messages(n)) /\ pipe \in Seq(0 .. n)
    BY DEF Typed
  <2>3. queue \in Seq(Messages(n + 1)) /\ calls \in Seq(Messages(n + 1))
    BY <2>1, <2>2, SeqMonotone
  <2>4. pipe \in Seq(0 .. n + 1)
    BY <1>3, <2>2, SeqMonotone
  <2> QED BY <2>3, <2>4
<1>5. queue' \in Seq(Messages(n + 1))
  <2>1. LogMessage(n + 1) \in Messages(n + 1)
    BY KnownMessages
  <2>2. ASSUME NEW S, NEW seq \in Seq(S), NEW m \in S
        PROVE  Append(seq, m) \in Seq(S)
    BY <2>2, AppendProperties
  <2>3. Append(queue, LogMessage(n + 1)) \in Seq(Messages(n + 1))
    BY <1>4, <2>1, <2>2
  <2> QED BY <1>2, <1>4, <2>3
<1>6. UNCHANGED <<mLaststate, shown, mLastUpdateMessage, copied, clientLog, missed, calls, pipe>>
  BY DEF AddLine, registerVars, channelVars, clientVars
<1> QED BY <1>1, <1>2, <1>3, <1>4, <1>5, <1>6 DEF Typed


LEMMA TypedNext == Typed /\ [Next]_vars => Typed'
<1> SUFFICES ASSUME Typed, [Next]_vars
             PROVE  Typed'
  OBVIOUS
<1> PICK n \in Nat : n = lines
  BY DEF Typed
<1> DEFINE M == Messages(n)
<1>0. /\ queue \in Seq(M) /\ calls \in Seq(M) /\ pipe \in Seq(0 .. n)
      /\ \A state \in Known : StateMessage(state) \in M
  BY KnownMessages DEF Typed
<1> HIDE DEF M
<1> DEFINE Sets ==
      /\ mLaststate \in Known /\ shown \in Own /\ mLastUpdateMessage \subseteq Known
      /\ logbuffer \subseteq 1 .. n /\ copied \subseteq logbuffer
      /\ clientLog \subseteq 1 .. n /\ missed \subseteq 1 .. n
<1>s. Sets
  BY DEF Typed
<1>t. ASSUME lines' = lines, Sets', queue' \in Seq(M), calls' \in Seq(M), pipe' \in Seq(0 .. n)
      PROVE  Typed'
  BY <1>t DEF Typed, M
<1>1. CASE newLogItem
  BY <1>1, TypedLine DEF newLogItem, registerVars, channelVars, clientVars
<1>2. CASE updateStateString
  <2> PICK state \in States :
         \/ Ignores(mLaststate, state) /\ AddLine
         \/ /\ ~Ignores(mLaststate, state)
            /\ mLaststate' = state
            /\ mLastUpdateMessage' = IF created THEN {state} ELSE mLastUpdateMessage
            /\ Post(StateMessage(state))
            /\ UNCHANGED <<logbuffer, lines>>
    BY <1>2 DEF updateStateString
  <2>1. UNCHANGED <<registerVars, channelVars, clientVars, missed>>
    BY <1>2 DEF updateStateString
  <2>2. CASE AddLine
    BY <2>1, <2>2, TypedLine
  <2>3. CASE /\ mLaststate' = state
             /\ mLastUpdateMessage' = IF created THEN {state} ELSE mLastUpdateMessage
             /\ Post(StateMessage(state))
             /\ UNCHANGED <<logbuffer, lines>>
    <3>1. state \in Known
      BY DEF Known
    <3>2. queue' = queue \/ queue' = Append(queue, StateMessage(state))
      BY <2>3 DEF Post
    <3>3. queue' \in Seq(M)
      BY <1>0, <3>1, <3>2, AppendProperties
    <3>4. UNCHANGED <<calls, pipe, copied, shown, clientLog, missed>>
      BY <2>1 DEF registerVars, channelVars, clientVars
    <3>5. mLaststate' \in Known /\ mLastUpdateMessage' \subseteq Known
      BY <1>s, <2>3, <3>1
    <3> QED BY <1>0, <1>s, <1>t, <2>3, <3>3, <3>4, <3>5
  <2> QED BY <2>2, <2>3
<1>3. CASE LogCacheRead
  BY <1>0, <1>3, <1>s, <1>t
     DEF LogCacheRead, serviceVars, registerVars, channelVars, clientVars, historyVars
<1>4. CASE onCreate
  <2>1. queue' \in Seq(M)
    BY <1>0, <1>4, <1>s, AppendProperties DEF onCreate
  <2>2. mLastUpdateMessage' \subseteq Known
    BY <1>4, <1>s DEF onCreate
  <2> QED BY <1>0, <1>4, <1>s, <1>t, <2>1, <2>2
          DEF onCreate, statusVars, registerVars, channelVars, clientVars, historyVars
<1>5. CASE CopyLog
  BY <1>0, <1>5, <1>s, <1>t DEF CopyLog, statusVars, serviceVars, channelVars, clientVars
<1>6. CASE SendLastUpdate
  <2> PICK state \in mLastUpdateMessage : calls' = Append(calls, StateMessage(state))
    BY <1>6 DEF SendLastUpdate
  <2>1. calls' \in Seq(M)
    BY <1>0, <1>s, AppendProperties
  <2> QED BY <1>0, <1>6, <1>s, <1>t, <2>1
          DEF SendLastUpdate, statusVars, serviceVars, clientVars
<1>7. CASE Register
  BY <1>0, <1>7, <1>s, <1>t
     DEF Register, statusVars, serviceVars, channelVars, clientVars, historyVars
<1>8. CASE ReturnPipe
  BY <1>0, <1>8, <1>s, <1>t DEF ReturnPipe, statusVars, serviceVars, channelVars, historyVars
<1>9. CASE PipeFails
  <2>1. copied' = {} /\ missed' \subseteq 1 .. n
    BY <1>9, <1>s DEF PipeFails
  <2> QED BY <1>0, <1>9, <1>s, <1>t, <2>1 DEF PipeFails, statusVars, serviceVars, channelVars
<1>10. CASE PushLine
  <2> PICK line \in copied : pipe' = Append(pipe, line) /\ copied' = copied \ {line}
    BY <1>10 DEF PushLine
  <2>1. line \in 0 .. n
    BY <1>s
  <2>2. pipe' \in Seq(0 .. n)
    BY <1>0, <2>1, AppendProperties
  <2>3. copied' \subseteq copied
    OBVIOUS
  <2> QED BY <1>0, <1>10, <1>s, <1>t, <2>2, <2>3
          DEF PushLine, statusVars, serviceVars, clientVars, historyVars
<1>11. CASE PushEnd
  <2>1. pipe' = Append(pipe, 0) /\ 0 \in 0 .. n
    BY <1>11 DEF PushEnd, EndMark
  <2>2. pipe' \in Seq(0 .. n)
    BY <1>0, <2>1, AppendProperties
  <2> QED BY <1>0, <1>11, <1>s, <1>t, <2>2
          DEF PushEnd, statusVars, serviceVars, clientVars, historyVars
<1>12. ASSUME queue # <<>>
       PROVE  Head(queue) \in M /\ Tail(queue) \in Seq(M)
  BY <1>0, <1>12, HeadTailProperties
<1>13. CASE Broadcast
  <2>1. queue' \in Seq(M) /\ calls' \in Seq(M)
    BY <1>0, <1>12, <1>13, AppendProperties DEF Broadcast, Message
  <2> QED BY <1>0, <1>13, <1>s, <1>t, <2>1
          DEF Broadcast, statusVars, registerVars, clientVars
<1>14. CASE BroadcastToNobody
  <2>1. queue' \in Seq(M)
    BY <1>12, <1>14 DEF BroadcastToNobody
  <2>2. Message \in M
    BY <1>12, <1>14 DEF BroadcastToNobody, Message
  <2>3. missed' \subseteq 1 .. n
    BY <1>14, <1>s, <2>2, MessageShape DEF BroadcastToNobody, M
  <2> QED BY <1>0, <1>14, <1>s, <1>t, <2>1, <2>3
          DEF BroadcastToNobody, statusVars, registerVars, channelVars, clientVars
<1>15. CASE Bound
  BY <1>0, <1>15, <1>s, <1>t
     DEF Bound, statusVars, serviceVars, registerVars, channelVars, historyVars
<1>16. ASSUME pipe # <<>>
       PROVE  Head(pipe) \in 0 .. n /\ Tail(pipe) \in Seq(0 .. n)
  BY <1>0, <1>16, HeadTailProperties
<1>17. CASE ReadLine
  <2>1. Head(pipe) \in 1 .. n /\ pipe' \in Seq(0 .. n)
    BY <1>16, <1>17 DEF ReadLine, EndMark
  <2>2. clientLog' \subseteq 1 .. n
    BY <1>17, <1>s, <2>1 DEF ReadLine
  <2> QED BY <1>0, <1>17, <1>s, <1>t, <2>1, <2>2
          DEF ReadLine, statusVars, serviceVars, registerVars, historyVars
<1>18. CASE ReadEnd
  <2>1. pipe' \in Seq(0 .. n)
    BY <1>16, <1>18 DEF ReadEnd
  <2> QED BY <1>0, <1>18, <1>s, <1>t, <2>1
          DEF ReadEnd, statusVars, serviceVars, registerVars, historyVars
<1>19. CASE CallReceived
  <2>1. Head(calls) \in M /\ calls' \in Seq(M)
    BY <1>0, <1>19, HeadTailProperties DEF CallReceived
  <2>2. /\ Head(calls).what = "log" => Head(calls).line \in 1 .. n
        /\ Head(calls).what = "state" => Head(calls).state \in Known
    BY <2>1, MessageShape DEF M
  <2>3. shown' \in Own
    BY <1>19, <1>s, <2>2 DEF CallReceived, Own
  <2>4. clientLog' \subseteq 1 .. n
    BY <1>19, <1>s, <2>2 DEF CallReceived
  <2> QED BY <1>0, <1>19, <1>s, <1>t, <2>1, <2>3, <2>4
          DEF CallReceived, statusVars, serviceVars, registerVars, historyVars
<1>20. CASE Crash
  <2>1. queue' \in Seq(M) /\ calls' \in Seq(M) /\ pipe' \in Seq(0 .. n) /\ lines' = lines
    BY <1>0, <1>20, EmptySeq DEF Crash
  <2>2. Sets'
    BY <1>20, <1>s DEF Crash, Known
  <2> QED BY <1>t, <2>1, <2>2
<1>21. CASE Connecting
  <2>1. /\ UNCHANGED <<statusVars, serviceVars, registerVars, channelVars, lines>>
        /\ shown' \in {shown, "NOPROCESS", "USER_VPN_PERMISSION"}
        /\ clientLog' \in {clientLog, {}} /\ missed' \in {missed, missed \cup clientLog}
    BY <1>21 DEF Connecting, vpnPreparePermissionIntent, connectAgain, ConnectFails,
                 prepareToConnectVPN, Shows, historyVars
  <2>2. shown' \in Own /\ clientLog' \subseteq 1 .. n /\ missed' \subseteq 1 .. n
    BY <1>s, <2>1 DEF Own, Known
  <2> QED BY <1>0, <1>s, <1>t, <2>1, <2>2 DEF statusVars, serviceVars, registerVars, channelVars
<1>22. CASE UNCHANGED vars
  BY <1>0, <1>22, <1>s, <1>t
     DEF vars, statusVars, serviceVars, registerVars, channelVars, clientVars, historyVars
<1> QED
  BY <1>1, <1>2, <1>3, <1>4, <1>5, <1>6, <1>7, <1>8, <1>9, <1>10, <1>11, <1>13, <1>14, <1>15,
     <1>17, <1>18, <1>19, <1>20, <1>21, <1>22
     DEF Next, Binder, PushThread, Handler, MainThread


LEMMA TypesHold == Spec => [](Typed /\ Places)
BY InitTyped, TypedNext, PlacesNext, PTL DEF Spec

(* The variables of the relay keep to their values, and no line is in a    *)
(* buffer, a message or the pipe before VpnStatus.newLogItem numbered it,  *)
(* for every set of states and every bound.                                *)
THEOREM RelayTypes == Spec => []TypeOK
<1>1. Typed /\ Places => TypeOK
  <2> SUFFICES ASSUME Typed, Places
               PROVE  TypeOK
    OBVIOUS
  <2> PICK n \in Nat : n = lines
    BY DEF Typed
  <2>1. ASSUME NEW S, NEW seq \in Seq(S)
        PROVE  RangeOf(seq) \subseteq S
    BY <2>1 DEF RangeOf
  <2>2. RangeOf(queue) \subseteq Messages(n) /\ RangeOf(calls) \subseteq Messages(n)
    BY <2>1 DEF Typed
  <2>3. RangeOf(pipe) \subseteq 0 .. n
    BY <2>1 DEF Typed
  <2>4. \A m \in Messages(n) : IsMessage(m)
    BY DEF Messages, IsMessage, Known
  <2>5. {readFileLog, created, registered, pushLogs, astray} \subseteq BOOLEAN
    BY DEF Places
  <2> QED BY <2>2, <2>3, <2>4, <2>5 DEF TypeOK, Typed, Places, Known, Own
<1> QED BY <1>1, TypesHold, PTL

-----------------------------------------------------------------------------
(* Where a line of the log is *)

(* The service that is bound, or registers or has registered a client, is  *)
(* created, so that it hears of every line.                                *)
Listening ==
  (onServiceConnected # "unbound" \/ registering # "no" \/ registered) => created

Attending == registering # "no" \/ registered

(* LinesLostOnlyInGap holds from the copy of the log on. *)
Covered == Attending => logbuffer \subseteq clientLog \cup OnTheWay \cup missed

LEMMA ListeningNext == Listening /\ Places /\ [Next]_vars => Listening'
<1> SUFFICES ASSUME Listening, Places, [Next]_vars
             PROVE  Listening'
  OBVIOUS
<1> USE DEF Listening
<1>1. CASE newLogItem \/ updateStateString \/ LogCacheRead
  BY <1>1 DEF newLogItem, updateStateString, LogCacheRead, serviceVars, registerVars, clientVars
<1>2. CASE onCreate
  BY <1>2 DEF onCreate
<1>3. CASE Binder
  <2>1. created' = created
    BY <1>3 DEF Binder, CopyLog, SendLastUpdate, Register, ReturnPipe, PipeFails, serviceVars
  <2>2. registering # "no" \/ onServiceConnected = "register"
    BY <1>3 DEF Binder, CopyLog, SendLastUpdate, Register, ReturnPipe, PipeFails
  <2> QED BY <2>1, <2>2
<1>4. CASE PushThread
  BY <1>4 DEF PushThread, PushLine, PushEnd, serviceVars, clientVars
<1>5. CASE Handler
  BY <1>5 DEF Handler, Broadcast, BroadcastToNobody, registerVars, clientVars
<1>6. CASE MainThread
  <2>1. UNCHANGED <<created, registering, registered>>
    BY <1>6 DEF MainThread, Bound, ReadLine, ReadEnd, serviceVars, registerVars
  <2>2. created \/ onServiceConnected # "unbound"
    BY <1>6 DEF MainThread, Bound, ReadLine, ReadEnd
  <2> QED BY <2>1, <2>2
<1>7. CASE CallReceived
  BY <1>7 DEF CallReceived, serviceVars, registerVars
<1>8. CASE Crash
  BY <1>8 DEF Crash
<1>9. CASE Connecting
  BY <1>9 DEF Connecting, vpnPreparePermissionIntent, connectAgain, ConnectFails,
              prepareToConnectVPN, serviceVars, registerVars
<1>10. CASE UNCHANGED vars
  BY <1>10 DEF vars, serviceVars, registerVars, clientVars
<1> QED BY <1>1, <1>2, <1>3, <1>4, <1>5, <1>6, <1>7, <1>8, <1>9, <1>10 DEF Next


(* A new line is posted to the handler of a service that listens.          *)
LEMMA CoveredLine ==
  ASSUME Typed, Listening, Covered, AddLine,
         UNCHANGED <<registerVars, channelVars, clientVars, missed, created>>
  PROVE  Covered'
<1> SUFFICES ASSUME Attending'
             PROVE  logbuffer' \subseteq (clientLog \cup OnTheWay \cup missed)'
  BY DEF Covered
<1> PICK n \in Nat : n = lines
  BY DEF Typed
<1> DEFINE line == n + 1
<1>1. logbuffer' = logbuffer \cup {line} /\ Post(LogMessage(line))
  BY DEF AddLine
<1>2. Attending /\ created
  BY DEF Attending, Listening, registerVars
<1>3. queue' = Append(queue, LogMessage(line))
  BY <1>1, <1>2 DEF Post
<1>4. LinesIn(queue') = LinesIn(queue) \cup {line}
  <2>1. LogMessage(line).what = "log" /\ LogMessage(line).line = line
    BY DEF LogMessage
  <2>2. queue \in Seq(Messages(n) \cup {LogMessage(line)})
    BY SeqMonotone DEF Typed
  <2>3. LinesIn(Append(queue, LogMessage(line))) =
          LinesIn(queue) \cup {l \in {LogMessage(line).line} : LogMessage(line).what = "log"}
    BY <2>2, LinesAppend
  <2> QED BY <1>3, <2>1, <2>3
<1>5. UNCHANGED <<clientLog, missed, calls, copied, pipe>>
  BY DEF registerVars, channelVars, clientVars
<1>6. OnTheWay' = OnTheWay \cup {line}
  BY <1>4, <1>5 DEF OnTheWay
<1>7. logbuffer \subseteq clientLog \cup OnTheWay \cup missed
  BY <1>2 DEF Covered
<1> QED BY <1>1, <1>5, <1>6, <1>7

(* What a step does to the sequences between the service and the client.   *)
LEMMA CoveredNext == Typed /\ Listening /\ Covered /\ [Next]_vars => Covered'
<1> SUFFICES ASSUME Typed, Listening, Covered, [Next]_vars, Attending'
             PROVE  logbuffer' \subseteq (clientLog \cup OnTheWay \cup missed)'
  BY DEF Covered
<1> PICK n \in Nat : n = lines
  BY DEF Typed
<1> DEFINE M == Messages(n)
<1>0. /\ queue \in Seq(M) /\ calls \in Seq(M) /\ pipe \in Seq(0 .. n)
      /\ logbuffer \subseteq 1 .. n /\ copied \subseteq logbuffer
      /\ mLaststate \in Known /\ mLastUpdateMessage \subseteq Known
      /\ \A state \in Known : StateMessage(state) \in M /\ StateMessage(state).what = "state"
  BY KnownMessages DEF Typed, StateMessage
<1> HIDE DEF M
<1>a. ASSUME NEW seq \in Seq(M), NEW state \in Known
      PROVE  LinesIn(Append(seq, StateMessage(state))) = LinesIn(seq)
  <2>1. StateMessage(state) \in M /\ StateMessage(state).what # "log"
    BY <1>0 DEF StateMessage
  <2>2. LinesIn(Append(seq, StateMessage(state))) =
          LinesIn(seq) \cup {line \in {StateMessage(state).line} : StateMessage(state).what = "log"}
    BY <1>a, <2>1, LinesAppend
  <2> QED BY <2>1, <2>2
(* No step but Broadcast takes a line off the queue and gives it to calls. *)
<1>b. ASSUME logbuffer' = logbuffer, Attending,
             \A line \in logbuffer :
               line \in clientLog \cup OnTheWay \cup missed =>
                 line \in (clientLog \cup OnTheWay \cup missed)'
      PROVE  logbuffer' \subseteq (clientLog \cup OnTheWay \cup missed)'
  BY <1>b DEF Covered
<1>1. CASE newLogItem
  BY <1>1, CoveredLine DEF newLogItem, Covered
<1>2. CASE updateStateString
  <2> PICK state \in States :
         \/ Ignores(mLaststate, state) /\ AddLine
         \/ Post(StateMessage(state)) /\ UNCHANGED <<logbuffer, lines>>
    BY <1>2 DEF updateStateString
  <2>1. UNCHANGED <<registerVars, channelVars, clientVars, missed, created>>
    BY <1>2 DEF updateStateString
  <2>2. CASE AddLine
    BY <2>1, <2>2, CoveredLine DEF Covered
  <2>3. CASE Post(StateMessage(state)) /\ UNCHANGED <<logbuffer, lines>>
    <3>1. LinesIn(queue') = LinesIn(queue)
      BY <1>0, <1>a, <2>3 DEF Post, Known
    <3>2. UNCHANGED <<clientLog, missed, calls, copied, pipe, registering, registered>>
      BY <2>1 DEF registerVars, channelVars, clientVars
    <3> QED BY <1>b, <2>3, <3>1, <3>2 DEF OnTheWay, Attending
  <2> QED BY <2>2, <2>3
<1>3. CASE LogCacheRead
  <2>1. UNCHANGED <<logbuffer, clientLog, missed, queue, calls, copied, pipe, registering, registered>>
    BY <1>3 DEF LogCacheRead, serviceVars, registerVars, channelVars, clientVars, historyVars
  <2> QED BY <1>b, <2>1 DEF OnTheWay, Attending
<1>4. CASE onCreate
  <2>1. UNCHANGED <<logbuffer, clientLog, missed, calls, copied, pipe, registering, registered>>
    BY <1>4 DEF onCreate, statusVars, registerVars, channelVars, clientVars, historyVars
  <2>2. LinesIn(queue') = LinesIn(queue)
    BY <1>0, <1>4, <1>a DEF onCreate
  <2> QED BY <1>b, <2>1, <2>2 DEF OnTheWay, Attending
<1>5. CASE CopyLog
  BY <1>5 DEF CopyLog, OnTheWay, statusVars
<1>6. CASE SendLastUpdate
  <2>1. UNCHANGED <<logbuffer, clientLog, missed, queue, copied, pipe>> /\ Attending
    BY <1>6 DEF SendLastUpdate, Attending, statusVars, serviceVars, clientVars
  <2>2. LinesIn(calls') = LinesIn(calls)
    BY <1>0, <1>6, <1>a DEF SendLastUpdate
  <2> QED BY <1>b, <2>1, <2>2 DEF OnTheWay
<1>7. CASE Register \/ ReturnPipe
  <2>1. UNCHANGED <<logbuffer, clientLog, missed, queue, calls, copied, pipe>> /\ Attending
    BY <1>7 DEF Register, ReturnPipe, Attending, statusVars, serviceVars, channelVars, clientVars,
                historyVars
  <2> QED BY <1>b, <2>1 DEF OnTheWay
<1>8. CASE PipeFails
  <2>1. /\ UNCHANGED <<logbuffer, clientLog, queue, calls, pipe>> /\ Attending
        /\ missed' = missed \cup copied
    BY <1>8 DEF PipeFails, Attending, statusVars, serviceVars, channelVars
  <2> QED BY <1>b, <2>1 DEF OnTheWay
<1>9. CASE PushLine
  <2> PICK line \in copied : pipe' = Append(pipe, line) /\ copied' = copied \ {line}
    BY <1>9 DEF PushLine
  <2>1. UNCHANGED <<logbuffer, clientLog, missed, queue, calls, registering, registered>>
    BY <1>9 DEF PushLine, statusVars, serviceVars, clientVars, historyVars
  <2>2. RangeOf(pipe') = RangeOf(pipe) \cup {line}
    BY <1>0, RangeAppend
  <2> QED BY <1>b, <2>1, <2>2 DEF OnTheWay, Attending
<1>10. CASE PushEnd
  <2>1. UNCHANGED <<logbuffer, clientLog, missed, queue, calls, copied, registering, registered>>
    BY <1>10 DEF PushEnd, statusVars, serviceVars, clientVars, historyVars
  <2>2. RangeOf(pipe') = RangeOf(pipe) \cup {0}
    BY <1>0, <1>10, RangeAppend DEF PushEnd, EndMark
  <2> QED BY <1>b, <2>1, <2>2 DEF OnTheWay, Attending
<1>11. CASE Broadcast
  <2>1. UNCHANGED <<logbuffer, clientLog, missed, copied, pipe, registering, registered>>
    BY <1>11 DEF Broadcast, statusVars, registerVars, clientVars
  <2>2. /\ queue # <<>> /\ Head(queue) \in M
        /\ queue' = Tail(queue) /\ calls' = Append(calls, Head(queue))
    BY <1>0, <1>11, HeadTailProperties DEF Broadcast, Message
  <2>3. LinesIn(queue) \cup LinesIn(calls) = LinesIn(queue') \cup LinesIn(calls')
    <3>1. LinesIn(queue) =
            LinesIn(queue') \cup {line \in {Head(queue).line} : Head(queue).what = "log"}
      BY <1>0, <2>2, LinesTail
    <3>2. LinesIn(calls') =
            LinesIn(calls) \cup {line \in {Head(queue).line} : Head(queue).what = "log"}
      BY <1>0, <2>2, LinesAppend
    <3> QED BY <3>1, <3>2
  <2> QED BY <1>b, <2>1, <2>3 DEF OnTheWay, Attending
<1>12. CASE BroadcastToNobody
  <2>1. UNCHANGED <<logbuffer, clientLog, calls, copied, pipe, registering, registered>>
    BY <1>12 DEF BroadcastToNobody, statusVars, registerVars, channelVars, clientVars
  <2>2. queue # <<>> /\ queue' = Tail(queue) /\ registering # "no"
    BY <1>12, <2>1 DEF BroadcastToNobody, Attending
  <2>3. LinesIn(queue) =
          LinesIn(queue') \cup {line \in {Head(queue).line} : Head(queue).what = "log"}
    BY <1>0, <2>2, LinesTail
  <2>4. missed \subseteq missed'
    BY <1>12 DEF BroadcastToNobody
  <2>5. Head(queue).what = "log" => Head(queue).line \in copied \cup missed'
    BY <1>12, <2>2 DEF BroadcastToNobody, Message
  <2> QED BY <1>b, <2>1, <2>3, <2>4, <2>5 DEF OnTheWay, Attending
<1>13. CASE Bound
  <2>1. UNCHANGED <<logbuffer, clientLog, missed, queue, calls, copied, pipe, registering, registered>>
    BY <1>13 DEF Bound, statusVars, serviceVars, registerVars, channelVars, historyVars
  <2> QED BY <1>b, <2>1 DEF OnTheWay, Attending
<1>14. CASE ReadLine \/ ReadEnd
  <2>1. UNCHANGED <<logbuffer, missed, queue, calls, copied, registering, registered>>
    BY <1>14 DEF ReadLine, ReadEnd, statusVars, serviceVars, registerVars, historyVars
  <2>2. pipe # <<>> /\ pipe' = Tail(pipe)
    BY <1>14 DEF ReadLine, ReadEnd
  <2>3. RangeOf(pipe) = RangeOf(pipe') \cup {Head(pipe)}
    BY <1>0, <2>2, RangeTail
  <2>4. clientLog' = clientLog \cup {Head(pipe)} \/ (clientLog' = clientLog /\ Head(pipe) = 0)
    BY <1>14 DEF ReadLine, ReadEnd, EndMark
  <2>5. 0 \notin logbuffer
    BY <1>0
  <2> QED BY <1>b, <2>1, <2>3, <2>4, <2>5 DEF OnTheWay, Attending
<1>15. CASE CallReceived
  <2>1. UNCHANGED <<logbuffer, missed, queue, copied, pipe, registering, registered>>
    BY <1>15 DEF CallReceived, statusVars, serviceVars, registerVars, historyVars
  <2>2. calls # <<>> /\ calls' = Tail(calls)
    BY <1>15 DEF CallReceived
  <2>3. LinesIn(calls) =
          LinesIn(calls') \cup {line \in {Head(calls).line} : Head(calls).what = "log"}
    BY <1>0, <2>2, LinesTail
  <2>4. /\ clientLog \subseteq clientLog'
        /\ Head(calls).what = "log" => Head(calls).line \in clientLog'
    BY <1>15 DEF CallReceived
  <2> QED BY <1>b, <2>1, <2>3, <2>4 DEF OnTheWay, Attending
<1>16. CASE Crash
  BY <1>16 DEF Crash, Attending
<1>17. CASE Connecting
  <2>1. UNCHANGED <<logbuffer, queue, calls, copied, pipe, registering, registered>>
    BY <1>17 DEF Connecting, vpnPreparePermissionIntent, connectAgain, ConnectFails,
                 prepareToConnectVPN, statusVars, serviceVars, registerVars, channelVars
  <2>2. clientLog' \cup missed' = clientLog \cup missed
    BY <1>17 DEF Connecting, vpnPreparePermissionIntent, connectAgain, ConnectFails,
                 prepareToConnectVPN, historyVars
  <2> QED BY <1>b, <2>1, <2>2 DEF OnTheWay, Attending
<1>18. CASE UNCHANGED vars
  <2>1. UNCHANGED <<logbuffer, clientLog, missed, queue, calls, copied, pipe, registering, registered>>
    BY <1>18 DEF vars, statusVars, serviceVars, registerVars, channelVars, clientVars, historyVars
  <2> QED BY <1>b, <2>1 DEF OnTheWay, Attending
<1> QED
  BY <1>1, <1>2, <1>3, <1>4, <1>5, <1>6, <1>7, <1>8, <1>9, <1>10, <1>11, <1>12, <1>13, <1>14,
     <1>15, <1>16, <1>17, <1>18
     DEF Next, Binder, PushThread, Handler, MainThread

(* A registered client lacks no line of the service's log but those the    *)
(* main thread handled between the copy of logbuffer and the registration  *)
(* in registerStatusCallback, or that it has cleared itself in clearLog:   *)
(* every other one has reached it or is on its way, through crashes and    *)
(* however the threads interleave.                                         *)
THEOREM OnlyGapLosesLines == Spec => []LinesLostOnlyInGap
<1>1. Init => Listening /\ Covered
  BY DEF Init, ProcessStarted, Listening, Covered, Attending
<1>2. Spec => [](Listening /\ Covered)
  BY <1>1, TypesHold, ListeningNext, CoveredNext, PTL DEF Spec
<1>3. Covered => LinesLostOnlyInGap
  BY DEF Covered, Attending, LinesLostOnlyInGap
<1> QED BY <1>2, <1>3, PTL


-----------------------------------------------------------------------------
(* The state the client ends with *)

LastIs(seq, state) ==
  \E i \in 1 .. Len(seq) :
    /\ seq[i].what = "state" /\ seq[i].state = state
    /\ \A j \in 1 .. Len(seq) : seq[j].what = "state" => j <= i

(* An update the workaround never ignores and that ends being connected. *)
Leaves(m) == m.what = "state" /\ m.state \notin Ignorable \cup {"CONNECTED"}

Connects(m) == m.what = "state" /\ m.state = "CONNECTED"

HasLeaving(seq) == \E i \in 1 .. Len(seq) : Leaves(seq[i])

(* Each CONNECTED is followed by an update that leaves it. *)
Left(seq) ==
  \A i \in 1 .. Len(seq) : Connects(seq[i]) => \E j \in i + 1 .. Len(seq) : Leaves(seq[j])

(* The updates the service has still to send lead to its state. *)
Follows ==
  /\ ~created => queue = <<>>
  /\ created => mLastUpdateMessage = {mLaststate}
  /\ NoStateIn(queue) \/ LastIs(queue, mLaststate)
  /\ mLaststate \in Ignorable => Left(queue)

(* Before its first registration a client has heard nothing. *)
First ==
  (~astray /\ registering \in {"no", "copied"} /\ ~registered) =>
    calls = <<>> /\ shown # "CONNECTED"

(* A client registers once with a process of the service. *)
Once ==
  /\ registering = "registered" => registered
  /\ registered => registering \in {"no", "registered"}
  /\ registered /\ registering = "no" => onServiceConnected \in {"read", "done"}

(* From the last update sent on. *)
Tracked == ~astray /\ (registering \in {"sent", "registered"} \/ registered)

(* The calls lead to the service's state where no message is to follow, *)
(* and what the client's workaround ignores is never the last word.     *)
OnTrack ==
  Tracked =>
    /\ NoStateIn(queue) =>
         IF NoStateIn(calls) THEN shown = mLaststate ELSE LastIs(calls, mLaststate)
    /\ (mLaststate \in Ignorable /\ ~HasLeaving(queue)) =>
         Left(calls) /\ (shown = "CONNECTED" => HasLeaving(calls))

LEMMA NoStates ==
  ASSUME NEW M, NEW seq \in Seq(M), NoStateIn(seq)
  PROVE  ~HasLeaving(seq) /\ Left(seq)
BY DEF NoStateIn, HasLeaving, Left, Leaves, Connects

LEMMA LastLeaves ==
  ASSUME NEW M, NEW seq \in Seq(M), NEW state, LastIs(seq, state),
         state \notin Ignorable \cup {"CONNECTED"}
  PROVE  HasLeaving(seq) /\ Left(seq) /\ ~NoStateIn(seq)
<1> PICK k \in 1 .. Len(seq) :
       /\ seq[k].what = "state" /\ seq[k].state = state
       /\ \A j \in 1 .. Len(seq) : seq[j].what = "state" => j <= k
  BY DEF LastIs
<1>1. Leaves(seq[k])
  BY DEF Leaves
<1>2. ASSUME NEW i \in 1 .. Len(seq), Connects(seq[i])
      PROVE  k \in i + 1 .. Len(seq)
  <2>1. i <= k /\ i # k
    BY <1>2 DEF Connects
  <2> QED BY <2>1
<1> QED BY <1>1, <1>2 DEF HasLeaving, Left, NoStateIn

LEMMA MessageAppended ==
  ASSUME NEW M, NEW seq \in Seq(M), NEW m \in M
  PROVE  /\ NoStateIn(Append(seq, m)) <=> NoStateIn(seq) /\ m.what # "state"
         /\ \A state : m.what # "state" /\ LastIs(seq, state) => LastIs(Append(seq, m), state)
         /\ m.what = "state" => LastIs(Append(seq, m), m.state)
         /\ HasLeaving(Append(seq, m)) <=> HasLeaving(seq) \/ Leaves(m)
         /\ Leaves(m) => Left(Append(seq, m))
         /\ ~Connects(m) /\ Left(seq) => Left(Append(seq, m))
<1> DEFINE longer == Append(seq, m)
           n == Len(seq)
<1>1. /\ n \in Nat /\ Len(longer) = n + 1
      /\ longer[n + 1] = m /\ \A i \in 1 .. n : longer[i] = seq[i]
  OBVIOUS
<1>2. 1 .. n + 1 = 1 .. n \cup {n + 1}
  BY <1>1
<1> HIDE DEF longer, n
<1>3. NoStateIn(longer) <=> NoStateIn(seq) /\ m.what # "state"
  BY <1>1, <1>2 DEF NoStateIn, n
<1>4. ASSUME NEW state, m.what # "state", LastIs(seq, state)
      PROVE  LastIs(longer, state)
  <2> PICK k \in 1 .. n :
         /\ seq[k].what = "state" /\ seq[k].state = state
         /\ \A j \in 1 .. n : seq[j].what = "state" => j <= k
    BY <1>4 DEF LastIs, n
  <2>1. k \in 1 .. Len(longer) /\ longer[k] = seq[k]
    BY <1>1
  <2>2. ASSUME NEW j \in 1 .. Len(longer), longer[j].what = "state"
        PROVE  j <= k
    BY <1>1, <1>2, <1>4, <2>2
  <2> QED BY <2>1, <2>2 DEF LastIs
<1>5. m.what = "state" => LastIs(longer, m.state)
  BY <1>1 DEF LastIs
<1>6. HasLeaving(longer) <=> HasLeaving(seq) \/ Leaves(m)
  BY <1>1, <1>2 DEF HasLeaving, n
<1>7. ASSUME Leaves(m)
      PROVE  Left(longer)
  <2>1. ~Connects(m)
    BY <1>7 DEF Leaves, Connects
  <2> SUFFICES ASSUME NEW i \in 1 .. Len(longer), Connects(longer[i])
               PROVE  \E j \in i + 1 .. Len(longer) : Leaves(longer[j])
    BY DEF Left
  <2>2. n + 1 \in i + 1 .. Len(longer)
    BY <1>1, <2>1
  <2> QED BY <1>1, <1>7, <2>2
<1>8. ASSUME ~Connects(m), Left(seq)
      PROVE  Left(longer)
  <2> SUFFICES ASSUME NEW i \in 1 .. Len(longer), Connects(longer[i])
               PROVE  \E j \in i + 1 .. Len(longer) : Leaves(longer[j])
    BY DEF Left
  <2>1. i \in 1 .. n /\ Connects(seq[i])
    BY <1>1, <1>2, <1>8
  <2>2. PICK j \in i + 1 .. n : Leaves(seq[j])
    BY <1>8, <2>1 DEF Left, n
  <2>3. j \in i + 1 .. Len(longer) /\ longer[j] = seq[j]
    BY <1>1, <2>1, <2>2
  <2> QED BY <2>2, <2>3
<1> QED BY <1>3, <1>4, <1>5, <1>6, <1>7, <1>8 DEF longer

LEMMA MessageTaken ==
  ASSUME NEW M, NEW seq \in Seq(M), seq # <<>>
  PROVE  /\ NoStateIn(seq) <=> NoStateIn(Tail(seq)) /\ Head(seq).what # "state"
         /\ \A state : LastIs(seq, state) =>
              IF NoStateIn(Tail(seq))
              THEN Head(seq).what = "state" /\ Head(seq).state = state
              ELSE LastIs(Tail(seq), state)
         /\ HasLeaving(seq) <=> HasLeaving(Tail(seq)) \/ Leaves(Head(seq))
         /\ Left(seq) => Left(Tail(seq)) /\ (Connects(Head(seq)) => HasLeaving(Tail(seq)))
<1> DEFINE rest == Tail(seq)
           h == Head(seq)
           n == Len(rest)
<1>1. /\ n \in Nat /\ Len(seq) = n + 1
      /\ h = seq[1] /\ \A i \in 1 .. n : rest[i] = seq[i + 1]
  OBVIOUS
<1> HIDE DEF rest, h, n
<1>2. ASSUME NEW i \in 1 .. n + 1
      PROVE  i = 1 \/ (i - 1 \in 1 .. n /\ rest[i - 1] = seq[i])
  BY <1>1
<1>3. ASSUME NEW i \in 1 .. n
      PROVE  i + 1 \in 1 .. n + 1 /\ rest[i] = seq[i + 1]
  BY <1>1
<1>4. NoStateIn(seq) <=> NoStateIn(rest) /\ h.what # "state"
  <2>1. ASSUME NoStateIn(seq) PROVE NoStateIn(rest) /\ h.what # "state"
    BY <1>1, <1>3, <2>1 DEF NoStateIn, n
  <2>2. ASSUME NoStateIn(rest), h.what # "state" PROVE NoStateIn(seq)
    BY <1>1, <1>2, <2>2 DEF NoStateIn, n
  <2> QED BY <2>1, <2>2
<1>5. ASSUME NEW state, LastIs(seq, state)
      PROVE  IF NoStateIn(rest) THEN h.what = "state" /\ h.state = state ELSE LastIs(rest, state)
  <2> PICK k \in 1 .. n + 1 :
         /\ seq[k].what = "state" /\ seq[k].state = state
         /\ \A j \in 1 .. n + 1 : seq[j].what = "state" => j <= k
    BY <1>1, <1>5 DEF LastIs
  <2>1. CASE k = 1
    <3>1. ASSUME NEW i \in 1 .. n PROVE rest[i].what # "state"
      BY <1>3, <2>1
    <3> QED BY <1>1, <2>1, <3>1 DEF NoStateIn, n
  <2>2. CASE k # 1
    <3>1. k - 1 \in 1 .. n /\ rest[k - 1] = seq[k]
      BY <1>2, <2>2
    <3>2. ASSUME NEW j \in 1 .. n, rest[j].what = "state"
          PROVE  j <= k - 1
      <4>1. j + 1 \in 1 .. n + 1 /\ seq[j + 1].what = "state"
        BY <1>3, <3>2
      <4> QED BY <4>1
    <3> QED BY <3>1, <3>2 DEF NoStateIn, LastIs, n
  <2> QED BY <2>1, <2>2
<1>6. HasLeaving(seq) <=> HasLeaving(rest) \/ Leaves(h)
  <2>1. ASSUME HasLeaving(seq) PROVE HasLeaving(rest) \/ Leaves(h)
    BY <1>1, <1>2, <2>1 DEF HasLeaving, n
  <2>2. ASSUME HasLeaving(rest) \/ Leaves(h) PROVE HasLeaving(seq)
    BY <1>1, <1>3, <2>2 DEF HasLeaving, n
  <2> QED BY <2>1, <2>2
<1>7. ASSUME Left(seq)
      PROVE  Left(rest) /\ (Connects(h) => HasLeaving(rest))
  <2>1. ASSUME NEW i \in 1 .. n + 1, Connects(seq[i])
        PROVE  \E j \in i .. n : Leaves(rest[j])
    <3>1. PICK j \in i + 1 .. n + 1 : Leaves(seq[j])
      BY <1>1, <1>7, <2>1 DEF Left
    <3>2. j - 1 \in i .. n /\ rest[j - 1] = seq[j]
      BY <1>1, <1>2, <3>1
    <3> QED BY <3>1, <3>2
  <2>2. ASSUME NEW i \in 1 .. n, Connects(rest[i])
        PROVE  \E j \in i + 1 .. n : Leaves(rest[j])
    BY <1>3, <2>1, <2>2
  <2>3. Connects(h) => HasLeaving(rest)
    BY <1>1, <2>1 DEF HasLeaving, n
  <2> QED BY <2>2, <2>3 DEF Left, n
<1> QED BY <1>4, <1>5, <1>6, <1>7 DEF rest, h


-----------------------------------------------------------------------------
LEMMA MessageSpace ==
  ASSUME Typed
  PROVE  \E M : /\ queue \in Seq(M) /\ calls \in Seq(M)
                /\ LogMessage(lines + 1) \in M
                /\ \A state \in Known : StateMessage(state) \in M
<1> PICK n \in Nat : n = lines
  BY DEF Typed
<1> DEFINE M == Messages(n + 1)
<1>1. Messages(n) \subseteq M /\ LogMessage(n + 1) \in M
  BY KnownMessages
<1>2. \A state \in Known : StateMessage(state) \in M
  BY KnownMessages
<1>3. queue \in Seq(Messages(n)) /\ calls \in Seq(Messages(n))
  BY DEF Typed
<1> HIDE DEF M
<1>4. queue \in Seq(M) /\ calls \in Seq(M)
  BY <1>1, <1>3, SeqMonotone
<1> QED BY <1>1, <1>2, <1>4

LEMMA Kinds ==
  /\ \A line : LogMessage(line).what # "state" /\ ~Connects(LogMessage(line))
                 /\ ~Leaves(LogMessage(line))
  /\ \A state : /\ StateMessage(state).what = "state" /\ StateMessage(state).state = state
                /\ Connects(StateMessage(state)) <=> state = "CONNECTED"
                /\ Leaves(StateMessage(state)) <=> state \notin Ignorable \cup {"CONNECTED"}
BY DEF LogMessage, StateMessage, Connects, Leaves

(* What a line does to the queue. *)
LEMMA LinePosted ==
  ASSUME Typed, AddLine
  PROVE  /\ UNCHANGED <<mLaststate, mLastUpdateMessage>>
         /\ ~created => queue' = queue
         /\ NoStateIn(queue') <=> NoStateIn(queue)
         /\ \A state : LastIs(queue, state) => LastIs(queue', state)
         /\ HasLeaving(queue') <=> HasLeaving(queue)
         /\ Left(queue) => Left(queue')
<1> PICK M : /\ queue \in Seq(M) /\ calls \in Seq(M) /\ LogMessage(lines + 1) \in M
             /\ \A state \in Known : StateMessage(state) \in M
  BY MessageSpace
<1>1. /\ lines' = lines + 1 /\ UNCHANGED <<mLaststate, mLastUpdateMessage>>
      /\ queue' = IF created THEN Append(queue, LogMessage(lines + 1)) ELSE queue
  BY DEF AddLine, Post
<1>2. CASE ~created
  BY <1>1, <1>2
<1>3. CASE created
  <2> DEFINE m == LogMessage(lines + 1)
  <2>1. m \in M /\ m.what # "state" /\ ~Connects(m) /\ ~Leaves(m)
    BY Kinds
  <2>2. queue' = Append(queue, m)
    BY <1>1, <1>3
  <2> HIDE DEF m
  <2> QED BY <1>1, <1>3, <2>1, <2>2, MessageAppended
<1> QED BY <1>2, <1>3

(* What an update that is not ignored does to it. *)
LEMMA StatePosted ==
  ASSUME Typed, NEW state \in Known, created, Post(StateMessage(state))
  PROVE  /\ ~NoStateIn(queue') /\ LastIs(queue', state)
         /\ HasLeaving(queue') <=> HasLeaving(queue) \/ state \notin Ignorable \cup {"CONNECTED"}
         /\ state # "CONNECTED" /\ Left(queue) => Left(queue')
<1> PICK M : /\ queue \in Seq(M) /\ calls \in Seq(M) /\ LogMessage(lines + 1) \in M
             /\ \A s \in Known : StateMessage(s) \in M
  BY MessageSpace
<1> DEFINE m == StateMessage(state)
<1>1. /\ m \in M /\ m.what = "state" /\ m.state = state
      /\ Connects(m) <=> state = "CONNECTED"
      /\ Leaves(m) <=> state \notin Ignorable \cup {"CONNECTED"}
  BY Kinds
<1>2. queue' = Append(queue, m)
  BY DEF Post
<1> HIDE DEF m
<1> QED BY <1>1, <1>2, MessageAppended

LEMMA Updated ==
  ASSUME updateStateString
  PROVE  /\ \/ AddLine
            \/ \E state \in States :
                 /\ ~Ignores(mLaststate, state) /\ mLaststate' = state
                 /\ mLastUpdateMessage' = IF created THEN {state} ELSE mLastUpdateMessage
                 /\ Post(StateMessage(state))
         /\ UNCHANGED <<created, registering, registered, onServiceConnected, astray, calls, shown>>
BY DEF updateStateString, registerVars, channelVars, clientVars

LEMMA FollowsNext == Typed /\ Follows /\ [Next]_vars => Follows'
<1> SUFFICES ASSUME Typed, Follows, [Next]_vars
             PROVE  Follows'
  OBVIOUS
<1>l. ASSUME AddLine, created' = created
      PROVE  Follows'
  BY <1>l, LinePosted DEF Follows
<1>1. CASE newLogItem
  BY <1>1, <1>l DEF newLogItem
<1>2. CASE updateStateString
  <2>1. CASE AddLine
    BY <1>2, <1>l, <2>1, Updated
  <2>2. CASE ~AddLine
    <3> PICK state \in States :
          /\ ~Ignores(mLaststate, state) /\ mLaststate' = state
          /\ mLastUpdateMessage' = IF created THEN {state} ELSE mLastUpdateMessage
          /\ Post(StateMessage(state))
      BY <1>2, <2>2, Updated
    <3>0. created' = created /\ state \in Known
      BY <1>2, Updated DEF Known
    <3>1. CASE ~created
      <4>1. queue' = <<>>
        BY <3>1 DEF Post, Follows
      <4>2. NoStateIn(<<>>) /\ Left(<<>>)
        BY DEF NoStateIn, Left
      <4> QED BY <3>0, <3>1, <4>1, <4>2 DEF Follows
    <3>2. CASE created
      <4>1. ~NoStateIn(queue') /\ LastIs(queue', state)
        BY <3>0, <3>2, StatePosted
      <4>2. ASSUME state \in Ignorable
            PROVE  Left(queue)
        <5>1. mLaststate # "CONNECTED"
          BY <4>2 DEF Ignores
        <5>2. CASE mLaststate \in Ignorable
          BY <5>2 DEF Follows
        <5>3. CASE mLaststate \notin Ignorable /\ NoStateIn(queue)
          BY <5>3, NoStates DEF Typed
        <5>4. CASE mLaststate \notin Ignorable /\ LastIs(queue, mLaststate)
          BY <5>1, <5>4, LastLeaves DEF Typed
        <5> QED BY <5>2, <5>3, <5>4 DEF Follows
      <4>3. state \in Ignorable => Left(queue')
        BY <3>0, <3>2, <4>2, StatePosted DEF Ignorable
      <4> QED BY <3>0, <3>2, <4>1, <4>3 DEF Follows
    <3> QED BY <3>1, <3>2
  <2> QED BY <2>1, <2>2
<1>3. CASE onCreate
  <2>1. /\ ~created /\ created' /\ mLastUpdateMessage' = {mLaststate} /\ mLaststate' = mLaststate
        /\ queue' = Append(queue, StateMessage(mLaststate)) /\ queue = <<>>
    BY <1>3 DEF onCreate, statusVars, Follows
  <2> PICK M : queue \in Seq(M) /\ \A s \in Known : StateMessage(s) \in M
    BY MessageSpace
  <2> DEFINE m == StateMessage(mLaststate)
  <2>2. m \in M /\ Left(queue)
    BY <2>1 DEF Typed, Left
  <2>m. m.what = "state" /\ m.state = mLaststate /\ (Connects(m) <=> mLaststate = "CONNECTED")
    BY Kinds
  <2>a. queue' = Append(queue, m)
    BY <2>1
  <2> HIDE DEF m
  <2>3. LastIs(queue', mLaststate)
    BY <2>2, <2>m, <2>a, MessageAppended
  <2>4. mLaststate # "CONNECTED" => Left(queue')
    BY <2>2, <2>m, <2>a, MessageAppended
  <2> QED BY <2>1, <2>3, <2>4 DEF Follows, Ignorable
<1>4. CASE Handler
  <2>1. /\ queue # <<>> /\ queue' = Tail(queue)
        /\ UNCHANGED <<created, mLastUpdateMessage, mLaststate>>
    BY <1>4 DEF Handler, Broadcast, BroadcastToNobody, statusVars
  <2> QED BY <2>1, MessageTaken DEF Follows, Typed
<1>5. CASE Crash
  <2>1. NoStateIn(<<>>) /\ Left(<<>>)
    BY DEF NoStateIn, Left
  <2> QED BY <1>5, <2>1 DEF Crash, Follows
<1>6. CASE UNCHANGED <<created, mLastUpdateMessage, mLaststate, queue>>
  BY <1>6 DEF Follows
<1>7. CASE \/ LogCacheRead \/ Binder \/ PushThread \/ MainThread \/ CallReceived
           \/ Connecting \/ UNCHANGED vars
  <2>1. UNCHANGED <<created, mLastUpdateMessage, mLaststate, queue>>
    BY <1>7 DEF LogCacheRead, Binder, CopyLog, SendLastUpdate, Register, ReturnPipe, PipeFails,
                PushThread, PushLine, PushEnd, MainThread, Bound, ReadLine, ReadEnd, CallReceived,
                Connecting, vpnPreparePermissionIntent, connectAgain, ConnectFails,
                prepareToConnectVPN, statusVars, serviceVars, vars
  <2> QED BY <1>6, <2>1
<1> QED BY <1>1, <1>2, <1>3, <1>4, <1>5, <1>7 DEF Next


LEMMA OnceNext == Places /\ Once /\ [Next]_vars => Once'
<1> SUFFICES ASSUME Places, Once, [Next]_vars
             PROVE  Once'
  OBVIOUS
<1> USE DEF Once
<1>1. CASE newLogItem \/ updateStateString \/ LogCacheRead \/ onCreate
  BY <1>1 DEF newLogItem, updateStateString, LogCacheRead, onCreate, registerVars, clientVars
<1>2. CASE Binder
  BY <1>2 DEF Binder, CopyLog, SendLastUpdate, Register, ReturnPipe, PipeFails, clientVars
<1>3. CASE PushThread \/ Handler \/ CallReceived
  BY <1>3 DEF PushThread, PushLine, PushEnd, Handler, Broadcast, BroadcastToNobody,
              CallReceived, registerVars, clientVars
<1>4. CASE MainThread
  BY <1>4 DEF MainThread, Bound, ReadLine, ReadEnd, registerVars
<1>5. CASE Crash
  BY <1>5 DEF Crash
<1>6. CASE Connecting
  BY <1>6 DEF Connecting, vpnPreparePermissionIntent, connectAgain, ConnectFails,
              prepareToConnectVPN, registerVars
<1>7. CASE UNCHANGED vars
  BY <1>7 DEF vars, registerVars, clientVars
<1> QED BY <1>1, <1>2, <1>3, <1>4, <1>5, <1>6, <1>7 DEF Next

LEMMA FirstNext == Places /\ Once /\ First /\ [Next]_vars => First'
<1> SUFFICES ASSUME Places, Once, First, [Next]_vars
             PROVE  First'
  OBVIOUS
<1> USE DEF First
<1>1. CASE newLogItem \/ updateStateString \/ LogCacheRead \/ onCreate
  BY <1>1 DEF newLogItem, updateStateString, LogCacheRead, onCreate, registerVars, channelVars,
              clientVars, historyVars
<1>2. CASE CopyLog
  BY <1>2 DEF CopyLog, channelVars, clientVars
<1>3. CASE SendLastUpdate \/ Register
  BY <1>3 DEF SendLastUpdate, Register
<1>4. CASE ReturnPipe \/ PipeFails
  BY <1>4 DEF ReturnPipe, PipeFails, Once
<1>5. CASE PushThread
  BY <1>5 DEF PushThread, PushLine, PushEnd, clientVars, historyVars
<1>6. CASE Broadcast
  BY <1>6 DEF Broadcast, registerVars
<1>7. CASE BroadcastToNobody
  BY <1>7 DEF BroadcastToNobody, registerVars, channelVars, clientVars
<1>8. CASE MainThread
  BY <1>8 DEF MainThread, Bound, ReadLine, ReadEnd, registerVars, channelVars, historyVars
<1>9. CASE CallReceived
  BY <1>9 DEF CallReceived, registerVars, historyVars
<1>10. CASE Crash
  BY <1>10 DEF Crash
<1>11. CASE Connecting
  <2>1. /\ UNCHANGED <<registering, registered, calls>>
        /\ shown' \in {shown, "NOPROCESS", "USER_VPN_PERMISSION"}
    BY <1>11 DEF Connecting, vpnPreparePermissionIntent, connectAgain, ConnectFails,
                 prepareToConnectVPN, Shows, registerVars, channelVars, historyVars
  <2>2. astray' = astray \/ astray' = (astray \/ HeardAll)
    BY <1>11 DEF Connecting, vpnPreparePermissionIntent, connectAgain, ConnectFails,
                 prepareToConnectVPN, Shows, historyVars
  <2> QED BY <2>1, <2>2
<1>12. CASE UNCHANGED vars
  BY <1>12 DEF vars, registerVars, channelVars, clientVars, historyVars
<1> QED
  BY <1>1, <1>2, <1>3, <1>4, <1>5, <1>6, <1>7, <1>8, <1>9, <1>10, <1>11, <1>12
     DEF Next, Binder, Handler

(* A step that leaves calls and the client's state alone. *)
LEMMA OnTrackQueue ==
  ASSUME OnTrack, UNCHANGED <<registering, registered, astray, calls, shown, mLaststate>>,
         NoStateIn(queue') <=> NoStateIn(queue), HasLeaving(queue') <=> HasLeaving(queue)
  PROVE  OnTrack'
BY DEF OnTrack, Tracked

LEMMA OnTrackUpdate ==
  ASSUME Typed, Places, Listening, Follows, OnTrack, updateStateString
  PROVE  OnTrack'
<1>u. UNCHANGED <<created, registering, registered, astray, calls, shown>>
  BY Updated
<1>1. CASE AddLine
  BY <1>1, <1>u, LinePosted, OnTrackQueue
<1>2. CASE ~AddLine
  <2> PICK state \in States :
        /\ ~Ignores(mLaststate, state) /\ mLaststate' = state
        /\ Post(StateMessage(state))
    BY <1>2, Updated
  <2> SUFFICES ASSUME Tracked
               PROVE  OnTrack'
    BY <1>u DEF OnTrack, Tracked
  <2>1. created /\ state \in Known
    BY DEF Tracked, Listening, Known
  <2>2. /\ ~NoStateIn(queue')
        /\ HasLeaving(queue') <=> HasLeaving(queue) \/ state \notin Ignorable \cup {"CONNECTED"}
    BY <2>1, StatePosted
  <2>3. ASSUME state \in Ignorable, ~HasLeaving(queue')
        PROVE  Left(calls) /\ (shown = "CONNECTED" => HasLeaving(calls))
    <3>1. mLaststate # "CONNECTED" /\ ~HasLeaving(queue)
      BY <2>2, <2>3 DEF Ignores
    <3>2. CASE mLaststate \in Ignorable
      BY <3>1, <3>2 DEF OnTrack
    <3>3. CASE mLaststate \notin Ignorable
      <4>1. NoStateIn(queue)
        BY <3>1, <3>3, LastLeaves DEF Follows, Typed
      <4>2. CASE NoStateIn(calls)
        BY <3>1, <4>1, <4>2, NoStates DEF OnTrack, Typed
      <4>3. CASE ~NoStateIn(calls)
        BY <3>1, <3>3, <4>1, <4>3, LastLeaves DEF OnTrack, Typed
      <4> QED BY <4>2, <4>3
    <3> QED BY <3>2, <3>3
  <2> QED BY <1>u, <2>2, <2>3 DEF OnTrack
<1> QED BY <1>1, <1>2

LEMMA OnTrackSent ==
  ASSUME Typed, Places, Listening, Follows, First, Once, SendLastUpdate
  PROVE  OnTrack'
<1> PICK M : calls \in Seq(M) /\ \A s \in Known : StateMessage(s) \in M
  BY MessageSpace
<1> DEFINE m == StateMessage(mLaststate)
<1>1. /\ registering = "copied" /\ calls' = Append(calls, m) /\ astray' = OnCourse(mLaststate)
      /\ UNCHANGED <<queue, shown, mLaststate>>
  BY DEF SendLastUpdate, Follows, Listening, serviceVars, statusVars, clientVars
<1>2. m \in M /\ m.what = "state" /\ m.state = mLaststate
  BY Kinds DEF Typed
<1>3. Connects(m) <=> mLaststate = "CONNECTED"
  BY Kinds
<1> HIDE DEF m
<1>4. ~NoStateIn(calls') /\ LastIs(calls', mLaststate)
  BY <1>1, <1>2, MessageAppended
<1>5. ASSUME mLaststate \in Ignorable, ~astray'
      PROVE  Left(calls') /\ shown # "CONNECTED"
  <2>1. ~astray
    BY <1>1, <1>5 DEF OnCourse, Places
  <2>2. calls = <<>> /\ shown # "CONNECTED"
    BY <1>1, <2>1 DEF First, Once
  <2>3. Left(calls) /\ ~Connects(m)
    BY <1>3, <1>5, <2>2 DEF Left, Ignorable
  <2> QED BY <1>1, <1>2, <2>2, <2>3, MessageAppended
<1> QED BY <1>1, <1>4, <1>5 DEF OnTrack, Tracked

LEMMA OnTrackBroadcast ==
  ASSUME Typed, Places, Follows, OnTrack, Broadcast
  PROVE  OnTrack'
<1> PICK n \in Nat : n = lines
  BY DEF Typed
<1> DEFINE M == Messages(n)
           m == Head(queue)
           rest == Tail(queue)
<1>1. /\ queue # <<>> /\ registered /\ queue' = rest /\ calls' = Append(calls, m)
      /\ astray' = IF m.what = "state" THEN OnCourse(m.state) ELSE astray
      /\ UNCHANGED <<shown, mLaststate>>
  BY DEF Broadcast, Message, statusVars, clientVars
<1>2. queue \in Seq(M) /\ calls \in Seq(M) /\ m \in M
  BY <1>1 DEF Typed
<1>3. /\ NoStateIn(queue) <=> NoStateIn(rest) /\ m.what # "state"
      /\ LastIs(queue, mLaststate) =>
           IF NoStateIn(rest) THEN m.what = "state" /\ m.state = mLaststate
                              ELSE LastIs(rest, mLaststate)
      /\ HasLeaving(queue) <=> HasLeaving(rest) \/ Leaves(m)
      /\ Left(queue) => (Connects(m) => HasLeaving(rest))
  BY <1>1, <1>2, MessageTaken
<1> HIDE DEF m, M, rest
<1>4. /\ NoStateIn(calls') <=> NoStateIn(calls) /\ m.what # "state"
      /\ m.what # "state" /\ LastIs(calls, mLaststate) => LastIs(calls', mLaststate)
      /\ m.what = "state" => LastIs(calls', m.state)
      /\ HasLeaving(calls') <=> HasLeaving(calls) \/ Leaves(m)
      /\ Leaves(m) => Left(calls')
      /\ ~Connects(m) /\ Left(calls) => Left(calls')
  BY <1>1, <1>2, MessageAppended
<1>5. CASE m.what # "state"
  <2>1. ~Leaves(m) /\ ~Connects(m)
    BY <1>5 DEF Leaves, Connects
  <2>2. Tracked' => Tracked
    BY <1>1, <1>5 DEF Tracked
  <2> QED BY <1>1, <1>3, <1>4, <1>5, <2>1, <2>2 DEF OnTrack
<1>6. CASE m.what = "state"
  <2>1. NoStateIn(rest) => LastIs(calls', mLaststate)
    BY <1>3, <1>4, <1>6 DEF Follows
  <2>2. ASSUME mLaststate \in Ignorable, ~HasLeaving(rest), ~astray'
        PROVE  Left(calls') /\ (shown = "CONNECTED" => HasLeaving(calls'))
    <3>1. ~Connects(m)
      BY <1>3, <2>2 DEF Follows
    <3>2. CASE Leaves(m)
      BY <1>4, <3>2
    <3>3. CASE ~Leaves(m)
      <4>1. m.state \in Ignorable
        BY <1>6, <3>1, <3>3 DEF Leaves, Connects
      <4>2. ~astray /\ ~HasLeaving(queue)
        BY <1>1, <1>3, <1>6, <2>2, <3>3, <4>1 DEF OnCourse, Places
      <4>3. Left(calls) /\ (shown = "CONNECTED" => HasLeaving(calls))
        BY <1>1, <2>2, <4>2 DEF OnTrack, Tracked
      <4> QED BY <1>4, <3>1, <4>3
    <3> QED BY <3>2, <3>3
  <2> QED BY <1>1, <1>4, <1>6, <2>1, <2>2 DEF OnTrack, Tracked
<1> QED BY <1>5, <1>6


LEMMA OnTrackNobody ==
  ASSUME Typed, Places, Once, OnTrack, BroadcastToNobody
  PROVE  OnTrack'
<1> DEFINE m == Head(queue)
           rest == Tail(queue)
<1>1. /\ queue # <<>> /\ ~registered /\ queue' = rest
      /\ astray' = (astray \/ (m.what = "state" /\ registering = "sent"))
      /\ UNCHANGED <<registering, registered, calls, shown, mLaststate>>
  BY DEF BroadcastToNobody, Message, registerVars, channelVars, statusVars, clientVars
<1>2. /\ NoStateIn(queue) <=> NoStateIn(rest) /\ m.what # "state"
      /\ HasLeaving(queue) <=> HasLeaving(rest) \/ Leaves(m)
  BY <1>1, MessageTaken DEF Typed
<1> HIDE DEF m, rest
<1> SUFFICES ASSUME Tracked'
             PROVE  OnTrack'
  BY DEF OnTrack
<1>3. registering = "sent" /\ m.what # "state" /\ ~astray
  BY <1>1 DEF Tracked, Once, Places
<1>4. ~Leaves(m)
  BY <1>3 DEF Leaves
<1> QED BY <1>1, <1>2, <1>3, <1>4 DEF OnTrack, Tracked

LEMMA OnTrackReceived ==
  ASSUME Typed, OnTrack, CallReceived
  PROVE  OnTrack'
<1> PICK n \in Nat : n = lines
  BY DEF Typed
<1> DEFINE M == Messages(n)
           m == Head(calls)
           rest == Tail(calls)
<1>1. /\ calls # <<>> /\ calls' = rest
      /\ shown' = IF m.what = "state" /\ ~Ignores(shown, m.state) THEN m.state ELSE shown
      /\ UNCHANGED <<registering, registered, astray, queue, mLaststate>>
  BY DEF CallReceived, registerVars, serviceVars, statusVars, historyVars
<1>2. /\ NoStateIn(calls) <=> NoStateIn(rest) /\ m.what # "state"
      /\ LastIs(calls, mLaststate) =>
           IF NoStateIn(rest) THEN m.what = "state" /\ m.state = mLaststate
                              ELSE LastIs(rest, mLaststate)
      /\ HasLeaving(calls) <=> HasLeaving(rest) \/ Leaves(m)
      /\ Left(calls) => Left(rest) /\ (Connects(m) => HasLeaving(rest))
  BY <1>1, MessageTaken DEF Typed
<1>3. /\ NoStateIn(rest) => ~HasLeaving(rest)
      /\ NoStateIn(queue) => ~HasLeaving(queue)
  <2>1. rest \in Seq(M) /\ queue \in Seq(M)
    BY <1>1 DEF Typed
  <2> QED BY <2>1, NoStates
<1> HIDE DEF m, M, rest
<1> SUFFICES ASSUME Tracked
             PROVE  OnTrack'
  BY <1>1 DEF OnTrack, Tracked
<1>t. /\ NoStateIn(queue) =>
           IF NoStateIn(calls) THEN shown = mLaststate ELSE LastIs(calls, mLaststate)
      /\ (mLaststate \in Ignorable /\ ~HasLeaving(queue)) =>
           Left(calls) /\ (shown = "CONNECTED" => HasLeaving(calls))
  BY DEF OnTrack
<1>4. CASE m.what # "state"
  <2>1. ~Leaves(m) /\ shown' = shown
    BY <1>1, <1>4 DEF Leaves
  <2> QED BY <1>1, <1>2, <1>4, <1>t, <2>1 DEF OnTrack
<1>5. CASE m.what = "state" /\ ~Ignores(shown, m.state)
  <2>1. shown' = m.state
    BY <1>1, <1>5
  <2>2. shown' = "CONNECTED" => Connects(m)
    BY <1>5, <2>1 DEF Connects
  <2>3. NoStateIn(queue) => IF NoStateIn(rest) THEN shown' = mLaststate ELSE LastIs(rest, mLaststate)
    BY <1>2, <1>5, <1>t, <2>1
  <2> QED BY <1>1, <1>2, <1>t, <2>2, <2>3 DEF OnTrack
<1>6. CASE m.what = "state" /\ Ignores(shown, m.state)
  <2>1. shown' = shown /\ shown = "CONNECTED" /\ m.state \in Ignorable /\ ~Leaves(m)
    BY <1>1, <1>6 DEF Ignores, Leaves
  <2>2. ASSUME NoStateIn(queue)
        PROVE  ~NoStateIn(rest) /\ LastIs(rest, mLaststate)
    <3>1. LastIs(calls, mLaststate)
      BY <1>2, <1>6, <1>t, <2>2
    <3>2. CASE NoStateIn(rest)
      <4>1. mLaststate \in Ignorable
        BY <1>2, <2>1, <3>1, <3>2
      <4>2. HasLeaving(calls)
        BY <1>3, <1>t, <2>1, <2>2, <4>1
      <4> QED BY <1>2, <1>3, <2>1, <3>2, <4>2
    <3> QED BY <1>2, <3>1, <3>2
  <2> QED BY <1>1, <1>2, <1>t, <2>1, <2>2 DEF OnTrack
<1> QED BY <1>4, <1>5, <1>6

(* What the client writes itself lasts only if no update is to come, and   *)
(* after it its workaround ignores nothing.                                *)
LEMMA OnTrackOwn ==
  ASSUME Places, OnTrack, Connecting
  PROVE  OnTrack'
<1>1. UNCHANGED <<registering, registered, queue, calls, mLaststate>>
  BY DEF Connecting, vpnPreparePermissionIntent, connectAgain, ConnectFails,
         prepareToConnectVPN, statusVars, serviceVars, registerVars, channelVars
<1>2. CASE UNCHANGED <<shown, astray>>
  BY <1>1, <1>2 DEF OnTrack, Tracked
<1>3. CASE Shows("NOPROCESS") \/ Shows("USER_VPN_PERMISSION")
  <2>1. shown' # "CONNECTED" /\ (~astray' => ~astray /\ ~HeardAll)
    BY <1>3 DEF Shows, Places
  <2> SUFFICES ASSUME Tracked'
               PROVE  OnTrack'
    BY DEF OnTrack
  <2>2. Tracked /\ ~(NoStateIn(queue) /\ NoStateIn(calls))
    BY <1>1, <2>1 DEF Tracked, HeardAll
  <2> QED BY <1>1, <2>1, <2>2 DEF OnTrack
<1> QED BY <1>2, <1>3 DEF Connecting, vpnPreparePermissionIntent, connectAgain, ConnectFails,
                          prepareToConnectVPN, historyVars

LEMMA OnTrackNext ==
  Typed /\ Places /\ Listening /\ Once /\ First /\ Follows /\ OnTrack /\ [Next]_vars => OnTrack'
<1> SUFFICES ASSUME Typed, Places, Listening, Once, First, Follows, OnTrack, [Next]_vars
             PROVE  OnTrack'
  OBVIOUS
<1>1. CASE newLogItem
  <2>1. AddLine /\ UNCHANGED <<registering, registered, astray, calls, shown>>
    BY <1>1 DEF newLogItem, registerVars, channelVars, clientVars
  <2> QED BY <2>1, LinePosted, OnTrackQueue
<1>2. CASE updateStateString
  BY <1>2, OnTrackUpdate
<1>3. CASE onCreate
  <2>1. ~Tracked'
    BY <1>3 DEF onCreate, Tracked, Listening, registerVars
  <2> QED BY <2>1 DEF OnTrack
<1>4. CASE CopyLog
  <2>1. ~Tracked'
    BY <1>4 DEF CopyLog, Tracked, Once, Places
  <2> QED BY <2>1 DEF OnTrack
<1>5. CASE SendLastUpdate
  BY <1>5, OnTrackSent
<1>6. CASE Register \/ ReturnPipe \/ PipeFails
  <2>1. /\ UNCHANGED <<astray, queue, calls, shown, mLaststate>>
        /\ registering \in {"sent", "registered"}
    BY <1>6 DEF Register, ReturnPipe, PipeFails, statusVars, serviceVars, channelVars, clientVars,
                historyVars
  <2> QED BY <2>1 DEF OnTrack, Tracked
<1>7. CASE Broadcast
  BY <1>7, OnTrackBroadcast
<1>8. CASE BroadcastToNobody
  BY <1>8, OnTrackNobody
<1>9. CASE CallReceived
  BY <1>9, OnTrackReceived
<1>10. CASE Crash
  BY <1>10 DEF Crash, OnTrack, Tracked
<1>11. CASE LogCacheRead \/ PushThread \/ MainThread \/ UNCHANGED vars
  <2>1. UNCHANGED <<registering, registered, astray, queue, calls, shown, mLaststate>>
    BY <1>11 DEF LogCacheRead, PushThread, PushLine, PushEnd, MainThread, Bound, ReadLine, ReadEnd,
                 statusVars, serviceVars, registerVars, channelVars, clientVars, historyVars, vars
  <2> QED BY <2>1, OnTrackQueue
<1>12. CASE Connecting
  BY <1>12, OnTrackOwn
<1> QED
  BY <1>1, <1>2, <1>3, <1>4, <1>5, <1>6, <1>7, <1>8, <1>9, <1>10, <1>11, <1>12
     DEF Next, Binder, Handler

(* A registered client with no update to come shows the state of the       *)
(* service, although its own VpnStatus ignores some of them, it writes its *)
(* state itself when it connects (vpnPreparePermissionIntent, the failure  *)
(* of ConnectVPNTask), and the last update is sent ahead of older ones     *)
(* still in the handler's queue; except when an update was lost before the *)
(* registration, the service is a new process, or such a write came after  *)
(* the last update, and nothing but WAIT or AUTH was sent since.           *)
THEOREM ClientAgrees == Spec => []AgreesWhenSettled
<1>1. Init => Listening /\ Once /\ First /\ Follows /\ OnTrack
  <2>1. NoStateIn(<<>>) /\ Left(<<>>)
    BY DEF NoStateIn, Left
  <2> QED BY <2>1 DEF Init, ProcessStarted, Listening, Once, First, Follows, OnTrack, Tracked
<1>2. Spec => [](Listening /\ Once /\ First /\ Follows /\ OnTrack)
  BY <1>1, TypesHold, ListeningNext, OnceNext, FirstNext, FollowsNext, OnTrackNext, PTL DEF Spec
<1>3. OnTrack => AgreesWhenSettled
  BY DEF OnTrack, Tracked, AgreesWhenSettled
<1> QED BY <1>2, <1>3, PTL

=============================================================================
