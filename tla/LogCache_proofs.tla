-------------------------- MODULE LogCache_proofs ---------------------------
(***************************************************************************)
(* Proofs about LogCache for any size of the buffer, and however many      *)
(* lines, crashes and failures: nothing is in memory or on disk that was   *)
(* not logged; a line of the buffer that was sent to the cache is on disk  *)
(* or will be; the file stays within the limit of its reader; and once the *)
(* queue is empty the lines of the process are in the file in order.       *)
(***************************************************************************)
EXTENDS LogCache, SequenceTheorems, FiniteSetTheorems, TLAPS

-----------------------------------------------------------------------------
(* Sequences and their ranges. *)

LEMMA Weaker ==
  ASSUME NEW A, NEW B, A \subseteq B, NEW seq \in Seq(A)
  PROVE  seq \in Seq(B)
BY SeqDef

LEMMA RangeEmpty == Range(<<>>) = {}
BY DEF Range

LEMMA RangeOne == ASSUME NEW m PROVE Range(<<m>>) = {m}
BY DEF Range

LEMMA RangeAppend ==
  ASSUME NEW M, NEW seq \in Seq(M), NEW m \in M
  PROVE  Append(seq, m) \in Seq(M) /\ Range(Append(seq, m)) = Range(seq) \cup {m}
<1>1. Append(seq, m) = seq \o <<m>> /\ <<m>> \in Seq(M)
  BY AppendIsConcat
<1>2. Append(seq, m) \in Seq(M)
  BY AppendProperties
<1>3. Range(seq \o <<m>>) = Range(seq) \cup Range(<<m>>)
  BY <1>1, RangeConcatenation
<1> QED BY <1>1, <1>2, <1>3, RangeOne

LEMMA RangeTail ==
  ASSUME NEW M, NEW seq \in Seq(M), seq # <<>>
  PROVE  /\ Tail(seq) \in Seq(M) /\ Head(seq) \in M
         /\ Range(seq) = Range(Tail(seq)) \cup {Head(seq)}
<1> DEFINE rest == Tail(seq)
<1>1. /\ Len(seq) \in Nat /\ Len(seq) >= 1 /\ Len(rest) = Len(seq) - 1 /\ rest \in Seq(M)
      /\ Head(seq) = seq[1] /\ \A i \in 1 .. Len(seq) - 1 : rest[i] = seq[i + 1]
  OBVIOUS
<1>2. Range(seq) = {seq[i] : i \in 1 .. Len(seq)} /\ Range(rest) = {rest[i] : i \in 1 .. Len(rest)}
  BY <1>1, RangeEquality
<1>3. Head(seq) \in M
  BY <1>1
<1> HIDE DEF rest
<1>4. \A i \in 1 .. Len(seq) : i = 1 \/ (i - 1 \in 1 .. Len(rest) /\ rest[i - 1] = seq[i])
  BY <1>1
<1>5. Range(seq) \subseteq Range(rest) \cup {Head(seq)}
  BY <1>1, <1>2, <1>4
<1>6. Range(rest) \cup {Head(seq)} \subseteq Range(seq)
  BY <1>1, <1>2
<1> QED BY <1>1, <1>3, <1>5, <1>6 DEF rest

(* A part of a sequence has no other elements. *)
LEMMA RangeSubSeq ==
  ASSUME NEW M, NEW seq \in Seq(M), NEW from \in 1 .. Len(seq) + 1
  PROVE  /\ SubSeq(seq, from, Len(seq)) \in Seq(M)
         /\ Range(SubSeq(seq, from, Len(seq))) \subseteq Range(seq)
<1> DEFINE part == SubSeq(seq, from, Len(seq))
<1>1. Len(seq) \in Nat /\ \A i \in from .. Len(seq) : seq[i] \in Range(seq)
  BY RangeEquality
<1>2. part \in Seq(Range(seq))
  BY <1>1, SubSeqProperties
<1> QED BY <1>2, RangeOfSeq, Weaker

(* The buffer with a line more. *)
LEMMA TrimmedLines ==
  ASSUME NEW M, NEW buffer \in Seq(M)
  PROVE  /\ Trimmed(buffer) \in Seq(M) /\ Range(Trimmed(buffer)) \subseteq Range(buffer)
         /\ TrimMessage(buffer) \in Seq({TRIM_LOG_FILE})
<1>1. CASE TooLong(buffer)
  <2> DEFINE from == Len(buffer) - MAXLOGENTRIES + 1
  <2>1. from \in 1 .. Len(buffer) + 1
    <3>1. Len(buffer) \in Nat /\ MAXLOGENTRIES \in Nat /\ MAXLOGENTRIES \div 2 \in Nat
      BY LogCacheAssumption
    <3> QED BY <1>1, <3>1 DEF TooLong
  <2> HIDE DEF from
  <2>2. SubSeq(buffer, from, Len(buffer)) \in Seq(M)
        /\ Range(SubSeq(buffer, from, Len(buffer))) \subseteq Range(buffer)
    BY <2>1, RangeSubSeq
  <2>3. Trimmed(buffer) = SubSeq(buffer, from, Len(buffer))
    BY <1>1 DEF Trimmed, from
  <2>4. TrimMessage(buffer) = <<TRIM_LOG_FILE>>
    BY <1>1 DEF TrimMessage
  <2> QED BY <2>2, <2>3, <2>4
<1>2. CASE ~TooLong(buffer)
  <2>1. Trimmed(buffer) = buffer /\ TrimMessage(buffer) = <<>>
    BY <1>2 DEF Trimmed, TrimMessage
  <2> QED BY <2>1
<1> QED BY <1>1, <1>2

-----------------------------------------------------------------------------
(* Types *)

Messages(n) == {LOG_INIT, TRIM_LOG_FILE, FLUSH_TO_DISK} \cup {LOG_MESSAGE(line) : line \in 1 .. n}

Typed ==
  /\ lines \in 0 .. MaxLines
  /\ logbuffer \in Seq(Corrupted .. lines) /\ toWrite \in Seq(Corrupted .. lines)
  /\ file \in Seq(NoLength .. lines) /\ unread \in Seq(NoLength .. lines)
  /\ messages \in Seq(Messages(lines))
  /\ restoredTo \in 0 .. lines /\ uncached \subseteq Corrupted .. lines

Places ==
  /\ mLogFileHandler \in {"null", "set", "ready"}
  /\ step \in {"idle", "reading", "trimming", "writing"}
  /\ mLogFile \in BOOLEAN /\ readFileLog \in BOOLEAN /\ itemsRead \in Nat
  /\ flushes \in 0 .. MaxFlushes /\ crashes \in 0 .. MaxCrashes /\ failures \in 0 .. MaxFailures

(* What a message in the queue is. *)
LEMMA MessageShape ==
  ASSUME NEW n \in Nat, NEW m \in Messages(n)
  PROVE  /\ m.what \in {"LOG_INIT", "TRIM_LOG_FILE", "FLUSH_TO_DISK", "LOG_MESSAGE"}
         /\ m.what = "LOG_INIT" <=> m = LOG_INIT
         /\ m.what = "TRIM_LOG_FILE" <=> m = TRIM_LOG_FILE
         /\ m.what = "LOG_MESSAGE" => (m.line \in 1 .. n /\ m = LOG_MESSAGE(m.line))
<1>1. CASE m \in {LOG_INIT, TRIM_LOG_FILE, FLUSH_TO_DISK}
  BY <1>1 DEF LOG_INIT, TRIM_LOG_FILE, FLUSH_TO_DISK
<1>2. CASE \E line \in 1 .. n : m = LOG_MESSAGE(line)
  BY <1>2 DEF LOG_INIT, TRIM_LOG_FILE, LOG_MESSAGE
<1> QED BY <1>1, <1>2 DEF Messages

(* The messages sent go behind those in the queue, if there is a handler. *)
LEMMA Sent ==
  ASSUME NEW M, messages \in Seq(M), NEW batch \in Seq(M), Send(batch)
  PROVE  /\ messages' \in Seq(M)
         /\ Range(messages) \subseteq Range(messages')
         /\ Range(messages') \subseteq Range(messages) \cup Range(batch)
         /\ mLogFileHandler # "null" => Range(batch) \subseteq Range(messages')
<1>1. messages \o batch \in Seq(M) /\ Range(messages \o batch) = Range(messages) \cup Range(batch)
  BY ConcatProperties, RangeConcatenation
<1> QED BY <1>1 DEF Send

LEMMA InitTyped == Init => Typed /\ Places
<1> SUFFICES ASSUME Init
             PROVE  Typed /\ Places
  OBVIOUS
<1>1. Places
  <2>1. mLogFile \in BOOLEAN /\ readFileLog \in BOOLEAN
    BY Zenon DEF Init, ProcessStarted
  <2>2. flushes = 0 /\ crashes = 0 /\ failures = 0 /\ itemsRead = 0
        /\ mLogFileHandler = "null" /\ step = "idle"
    BY DEF Init, ProcessStarted
  <2> QED BY <2>1, <2>2, LogCacheAssumption DEF Places
<1>2. \A M : <<>> \in Seq(M)
  OBVIOUS
<1>3. logbuffer = <<>> /\ toWrite = <<>> /\ file = <<>> /\ unread = <<>> /\ messages = <<>>
  BY DEF Init, ProcessStarted
<1>4. lines \in 0 .. MaxLines /\ restoredTo \in 0 .. lines /\ uncached \subseteq Corrupted .. lines
  BY LogCacheAssumption DEF Init
<1> QED BY <1>1, <1>2, <1>3, <1>4 DEF Typed

LEMMA PlacesNext == Places /\ [Next]_vars => Places'
<1> SUFFICES ASSUME Places, [Next]_vars
             PROVE  Places'
  OBVIOUS
<1> USE DEF Places
<1>1. ASSUME NewProcess, crashes' \in 0 .. MaxCrashes PROVE Places'
  <2>1. mLogFile' \in BOOLEAN /\ readFileLog' \in BOOLEAN
    BY <1>1, Zenon DEF NewProcess
  <2>2. mLogFileHandler' = "null" /\ step' = "idle" /\ itemsRead' = 0
        /\ UNCHANGED <<flushes, failures>>
    BY <1>1 DEF NewProcess
  <2> QED BY <1>1, <2>1, <2>2
<1>2. CASE newLogItem
  BY <1>2 DEF newLogItem, threadVars
<1>3. CASE flushLog
  BY <1>3, LogCacheAssumption DEF flushLog, threadVars
<1>4. CASE AssignHandler \/ SendInit
  BY <1>4 DEF AssignHandler, SendInit, threadVars, historyVars
<1>5. CASE ReadLogCache \/ SkipBrokenItem
  BY <1>5 DEF ReadLogCache, SkipBrokenItem, memoryVars, historyVars
<1>6. CASE OpenLogFile
  <2>1. mLogFile' \in BOOLEAN /\ readFileLog' \in BOOLEAN
    BY <1>6, Zenon DEF OpenLogFile
  <2>2. step' = "idle" /\ UNCHANGED <<mLogFileHandler, itemsRead, flushes, crashes, failures>>
    BY <1>6 DEF OpenLogFile, memoryVars, historyVars
  <2> QED BY <2>1, <2>2
<1>7. CASE RestoreLogItem \/ RestoreCutOffItem
  BY <1>7 DEF RestoreLogItem, RestoreCutOffItem, Restore, historyVars
<1>8. CASE WriteFails
  BY <1>8, LogCacheAssumption DEF WriteFails, memoryVars
<1>9. CASE OpenLogFileFails
  <2>1. readFileLog' \in BOOLEAN
    BY <1>9, Zenon DEF OpenLogFileFails
  <2>2. /\ step' = "idle" /\ failures' \in 0 .. MaxFailures
        /\ UNCHANGED <<mLogFileHandler, mLogFile, itemsRead, flushes, crashes>>
    BY <1>9, LogCacheAssumption DEF OpenLogFileFails, memoryVars
  <2> QED BY <2>1, <2>2
<1>10. CASE WriteLogItem \/ IgnoreLogItem \/ FlushToDisk
  BY <1>10 DEF WriteLogItem, IgnoreLogItem, FlushToDisk, threadVars, historyVars
<1>11. CASE TrimLogFile \/ CopyLogBuffer \/ WriteEscapedBytes \/ Written
  BY <1>11 DEF TrimLogFile, CopyLogBuffer, WriteEscapedBytes, Written, memoryVars, historyVars
<1>12. CASE NullLogFile
  <2>1. NewProcess /\ crashes' \in 0 .. MaxCrashes
    BY <1>12 DEF NullLogFile
  <2> QED BY <1>1, <2>1
<1>13. CASE Crash
  <2>1. NewProcess /\ crashes' \in 0 .. MaxCrashes
    BY <1>13, LogCacheAssumption DEF Crash
  <2> QED BY <1>1, <2>1
<1>14. CASE UNCHANGED vars
  BY <1>14 DEF vars, memoryVars, threadVars, historyVars
<1> QED
  BY <1>2, <1>3, <1>4, <1>5, <1>6, <1>7, <1>8, <1>9, <1>10, <1>11, <1>12, <1>13, <1>14
     DEF Next, VpnStatus, MainThread, HandlerThread

-----------------------------------------------------------------------------
(* The types of what an action changes. *)

LEMMA TypedNewLine ==
  ASSUME Typed, newLogItem
  PROVE  Typed'
<1> PICK n \in Nat : n = lines
  BY LogCacheAssumption DEF Typed
<1> DEFINE buffer == Append(logbuffer, n + 1)
           batch == <<LOG_MESSAGE(n + 1)>> \o TrimMessage(buffer)
<1>1. lines' = n + 1 /\ n + 1 \in 0 .. MaxLines /\ Corrupted .. n \subseteq Corrupted .. n + 1
      /\ NoLength .. n \subseteq NoLength .. n + 1 /\ n + 1 \in Corrupted .. n + 1
      /\ 1 .. n \subseteq 1 .. n + 1 /\ n + 1 \in 1 .. n + 1
  BY LogCacheAssumption DEF newLogItem, NoLength, Corrupted
<1>2. Messages(n) \subseteq Messages(n + 1) /\ LOG_MESSAGE(n + 1) \in Messages(n + 1)
      /\ {TRIM_LOG_FILE} \subseteq Messages(n + 1)
  BY <1>1 DEF Messages
<1>3. /\ logbuffer \in Seq(Corrupted .. n + 1) /\ toWrite \in Seq(Corrupted .. n + 1)
      /\ file \in Seq(NoLength .. n + 1) /\ unread \in Seq(NoLength .. n + 1)
      /\ messages \in Seq(Messages(n + 1))
  BY <1>1, <1>2, Weaker DEF Typed
<1>4. buffer \in Seq(Corrupted .. n + 1)
  <2> DEFINE M == Corrupted .. n + 1
  <2>1. logbuffer \in Seq(M) /\ n + 1 \in M
    BY <1>1, <1>3
  <2> HIDE DEF M
  <2>2. Append(logbuffer, n + 1) \in Seq(M)
    BY <2>1, RangeAppend
  <2> QED BY <2>2 DEF M
<1>5. Trimmed(buffer) \in Seq(Corrupted .. n + 1) /\ TrimMessage(buffer) \in Seq(Messages(n + 1))
  <2>1. Trimmed(buffer) \in Seq(Corrupted .. n + 1) /\ TrimMessage(buffer) \in Seq({TRIM_LOG_FILE})
    <3> HIDE DEF buffer
    <3> QED BY <1>4, TrimmedLines
  <2> HIDE DEF buffer
  <2>2. TrimMessage(buffer) \in Seq(Messages(n + 1))
    BY <1>2, <2>1, Weaker
  <2> QED BY <2>1, <2>2
<1>6. batch \in Seq(Messages(n + 1))
  <2>1. <<LOG_MESSAGE(n + 1)>> \in Seq(Messages(n + 1))
    BY <1>2
  <2> QED BY <2>1, <1>5, ConcatProperties
<1>7. logbuffer' = Trimmed(buffer) /\ Send(batch) /\ UNCHANGED <<toWrite, file, unread, restoredTo>>
      /\ uncached' \subseteq uncached \cup {n + 1}
  BY DEF newLogItem, threadVars
<1> HIDE DEF batch, buffer
<1>8. messages' \in Seq(Messages(n + 1))
  BY <1>3, <1>6, <1>7, Sent
<1> QED BY <1>1, <1>3, <1>5, <1>7, <1>8 DEF Typed

LEMMA TypedSend ==
  ASSUME Typed, NEW batch \in Seq({LOG_INIT, TRIM_LOG_FILE, FLUSH_TO_DISK}), Send(batch)
  PROVE  messages' \in Seq(Messages(lines))
<1>1. {LOG_INIT, TRIM_LOG_FILE, FLUSH_TO_DISK} \subseteq Messages(lines)
  BY DEF Messages
<1>2. batch \in Seq(Messages(lines)) /\ messages \in Seq(Messages(lines))
  BY <1>1, Weaker DEF Typed
<1> QED BY <1>2, Sent

LEMMA TypedReceive ==
  ASSUME Typed, NEW what, Receives(what)
  PROVE  /\ messages' \in Seq(Messages(lines))
         /\ Range(messages) = Range(messages') \cup {Head(messages)}
         /\ Head(messages) \in Messages(lines) /\ Head(messages).what = what
         /\ step = "idle"
<1>1. messages \in Seq(Messages(lines)) /\ messages # <<>> /\ messages' = Tail(messages)
  BY DEF Typed, Receives, Waiting
<1> QED BY <1>1, RangeTail DEF Receives, Waiting

LEMMA CutOffTyped ==
  ASSUME Typed, file' \in CutOffWrite
  PROVE  /\ file' \in Seq(NoLength .. lines)
         /\ Range(file) \subseteq Range(file')
         /\ Range(file') \subseteq Range(file) \cup {NoLength, CutOff}
<1>1. NoLength \in NoLength .. lines /\ CutOff \in NoLength .. lines
  BY DEF Typed, NoLength, CutOff
<1>2. file \in Seq(NoLength .. lines)
  BY DEF Typed
<1>3. ASSUME NEW item \in {NoLength, CutOff}
      PROVE  /\ Append(file, item) \in Seq(NoLength .. lines)
             /\ Range(Append(file, item)) = Range(file) \cup {item}
  <2> DEFINE M == NoLength .. lines
  <2>1. file \in Seq(M) /\ item \in M
    BY <1>1, <1>2
  <2> HIDE DEF M
  <2>2. Append(file, item) \in Seq(M) /\ Range(Append(file, item)) = Range(file) \cup {item}
    BY <2>1, RangeAppend
  <2> QED BY <2>2 DEF M
<1>4. file' = file \/ \E item \in {NoLength, CutOff} : file' = Append(file, item)
  BY DEF CutOffWrite
<1> QED BY <1>2, <1>3, <1>4

(* What the reader goes on with is a part of what it has not read. *)
LEMMA SkippedTyped ==
  ASSUME Typed, SkipBrokenItem
  PROVE  unread' \in Seq(NoLength .. lines) /\ Range(unread') \subseteq Range(unread)
<1>1. unread \in Seq(NoLength .. lines) /\ unread # <<>>
  BY DEF Typed, SkipBrokenItem
<1>2. CASE unread' = Tail(unread) \/ unread' = <<>>
  <2>1. Tail(unread) \in Seq(NoLength .. lines) /\ Range(Tail(unread)) \subseteq Range(unread)
    BY <1>1, RangeTail
  <2>2. <<>> \in Seq(NoLength .. lines)
    OBVIOUS
  <2> QED BY <1>2, <2>1, <2>2, RangeEmpty
<1>3. CASE \E i \in 2 .. Len(unread) : unread' = SubSeq(unread, i + 1, Len(unread))
  <2>1. PICK i \in 2 .. Len(unread) : unread' = SubSeq(unread, i + 1, Len(unread))
    BY <1>3
  <2>2. i + 1 \in 1 .. Len(unread) + 1
    BY <1>1
  <2> QED BY <1>1, <2>1, <2>2, RangeSubSeq
<1>4. unread' \in AfterNoLength(unread) => unread' = <<>>
        \/ \E i \in 2 .. Len(unread) : unread' = SubSeq(unread, i + 1, Len(unread))
  BY DEF AfterNoLength
<1>5. unread' = Tail(unread) \/ unread' \in AfterNoLength(unread)
  BY DEF SkipBrokenItem
<1> QED BY <1>2, <1>3, <1>4, <1>5

(* The line that the reader makes of an item. *)
Restoring(line) ==
  \/ RestoreLogItem /\ line = Head(unread)
  \/ RestoreCutOffItem /\ line = Corrupted

LEMMA RestoringFacts ==
  /\ RestoreLogItem \/ RestoreCutOffItem => \E line : Restoring(line)
  /\ \A line : Restoring(line) => step = "reading" /\ unread # <<>> /\ Restore(line)
BY DEF Restoring, RestoreLogItem, RestoreCutOffItem

LEMMA RestoredTyped ==
  ASSUME Typed, NEW line, Restoring(line)
  PROVE  /\ logbuffer' \in Seq(Corrupted .. lines) /\ messages' \in Seq(Messages(lines))
         /\ unread' \in Seq(NoLength .. lines) /\ Range(unread') \subseteq Range(unread)
         /\ line \in Range(unread) \cup {Corrupted} /\ line \in Corrupted .. lines
         /\ Range(logbuffer') \subseteq Range(logbuffer) \cup {line}
         /\ Range(messages) \subseteq Range(messages')
         /\ Range(messages') \subseteq Range(messages) \cup {TRIM_LOG_FILE}
<1> DEFINE buffer == <<line>> \o logbuffer
<1>1. unread \in Seq(NoLength .. lines) /\ unread # <<>> /\ Restore(line)
      /\ logbuffer \in Seq(Corrupted .. lines) /\ lines \in Nat
  BY LogCacheAssumption, RestoringFacts DEF Typed
<1>2. Head(unread) \in NoLength .. lines /\ Tail(unread) \in Seq(NoLength .. lines)
      /\ Range(unread) = Range(Tail(unread)) \cup {Head(unread)}
  BY <1>1, RangeTail
<1>3. line \in Range(unread) \cup {Corrupted} /\ line \in Corrupted .. lines
  BY <1>1, <1>2 DEF Restoring, RestoreLogItem, IsLine, NoLength, Corrupted
<1>4. buffer \in Seq(Corrupted .. lines) /\ Range(buffer) = {line} \cup Range(logbuffer)
  <2>1. <<line>> \in Seq(Corrupted .. lines)
    BY <1>3
  <2>2. Range(<<line>>) = {line}
    BY RangeOne
  <2> DEFINE M == Corrupted .. lines
             one == <<line>>
  <2>3. logbuffer \in Seq(M) /\ one \in Seq(M)
    BY <1>1, <2>1
  <2> HIDE DEF M, one
  <2>4. one \o logbuffer \in Seq(M) /\ Range(one \o logbuffer) = Range(one) \cup Range(logbuffer)
    BY <2>3, ConcatProperties, RangeConcatenation
  <2> QED BY <2>2, <2>4 DEF M, one
<1> HIDE DEF buffer
<1>5. Trimmed(buffer) \in Seq(Corrupted .. lines) /\ Range(Trimmed(buffer)) \subseteq Range(buffer)
      /\ TrimMessage(buffer) \in Seq({TRIM_LOG_FILE})
  BY <1>4, TrimmedLines
<1>6. logbuffer' = Trimmed(buffer) /\ Send(TrimMessage(buffer))
      /\ (unread' = <<>> \/ unread' = Tail(unread))
  BY <1>1 DEF Restore, buffer
<1>7. {TRIM_LOG_FILE} \subseteq Messages(lines)
  BY DEF Messages
<1>8. TrimMessage(buffer) \in Seq(Messages(lines)) /\ messages \in Seq(Messages(lines))
      /\ Range(TrimMessage(buffer)) \subseteq {TRIM_LOG_FILE}
  BY <1>5, <1>7, Weaker, RangeOfSeq DEF Typed
<1>9. /\ messages' \in Seq(Messages(lines)) /\ Range(messages) \subseteq Range(messages')
      /\ Range(messages') \subseteq Range(messages) \cup {TRIM_LOG_FILE}
  BY <1>6, <1>8, Sent
<1>10. unread' \in Seq(NoLength .. lines) /\ Range(unread') \subseteq Range(unread)
  <2>1. <<>> \in Seq(NoLength .. lines)
    OBVIOUS
  <2> QED BY <1>2, <1>6, <2>1, RangeEmpty
<1> QED BY <1>2, <1>3, <1>4, <1>5, <1>6, <1>9, <1>10

LEMMA TypedNext == Typed /\ [Next]_vars => Typed'
<1> SUFFICES ASSUME Typed, [Next]_vars
             PROVE  Typed'
  OBVIOUS
<1>1. CASE newLogItem
  BY <1>1, TypedNewLine
<1>2. CASE flushLog \/ SendInit
  <2>1. UNCHANGED <<logbuffer, toWrite, file, unread, lines, restoredTo, uncached>>
    BY <1>2 DEF flushLog, SendInit, threadVars, historyVars
  <2>2. Send(<<FLUSH_TO_DISK>>) \/ Send(<<LOG_INIT>>)
    BY <1>2 DEF flushLog, SendInit
  <2>3. \A m \in {LOG_INIT, TRIM_LOG_FILE, FLUSH_TO_DISK} :
          <<m>> \in Seq({LOG_INIT, TRIM_LOG_FILE, FLUSH_TO_DISK})
    OBVIOUS
  <2>4. \A m \in {LOG_INIT, TRIM_LOG_FILE, FLUSH_TO_DISK} :
          Send(<<m>>) => messages' \in Seq(Messages(lines))
    BY <2>3, TypedSend
  <2>5. messages' \in Seq(Messages(lines))
    BY <2>2, <2>4
  <2> QED BY <2>1, <2>5 DEF Typed
<1>3. CASE AssignHandler \/ UNCHANGED vars
  BY <1>3 DEF AssignHandler, vars, memoryVars, threadVars, historyVars, Typed
<1>4. CASE ReadLogCache
  <2>1. messages' \in Seq(Messages(lines))
    BY <1>4, TypedReceive DEF ReadLogCache
  <2>2. unread' = file /\ UNCHANGED <<logbuffer, toWrite, file, lines, restoredTo, uncached>>
    BY <1>4 DEF ReadLogCache, historyVars
  <2> QED BY <2>1, <2>2 DEF Typed
<1>5. CASE RestoreLogItem \/ RestoreCutOffItem
  <2>1. PICK line : Restoring(line)
    BY <1>5, RestoringFacts
  <2>2. UNCHANGED <<toWrite, file, lines, restoredTo, uncached>>
    BY <2>1, RestoringFacts DEF Restore, historyVars
  <2> QED BY <2>1, <2>2, RestoredTyped DEF Typed
<1>6. CASE SkipBrokenItem
  <2>1. UNCHANGED <<logbuffer, messages, toWrite, file, lines, restoredTo, uncached>>
    BY <1>6 DEF SkipBrokenItem, memoryVars, historyVars
  <2>2. unread' \in Seq(NoLength .. lines)
    BY <1>6, SkippedTyped
  <2> QED BY <2>1, <2>2 DEF Typed
<1>7. CASE OpenLogFile \/ OpenLogFileFails \/ Written
  <2>1. UNCHANGED <<logbuffer, messages, unread, toWrite, lines, restoredTo, uncached>>
        /\ (file' = file \/ file' = <<>>)
    BY <1>7 DEF OpenLogFile, OpenLogFileFails, Written, memoryVars, historyVars
  <2>2. <<>> \in Seq(NoLength .. lines)
    OBVIOUS
  <2> QED BY <2>1, <2>2 DEF Typed
<1>8. CASE WriteLogItem \/ IgnoreLogItem
  <2>1. messages' \in Seq(Messages(lines)) /\ Head(messages).line \in 1 .. lines
    <3>1. Receives("LOG_MESSAGE")
      BY <1>8 DEF WriteLogItem, IgnoreLogItem
    <3>2. lines \in Nat
      BY LogCacheAssumption DEF Typed
    <3> QED BY <3>1, <3>2, TypedReceive, MessageShape
  <2>2. /\ toWrite' = <<Head(messages).line>> \/ toWrite' = toWrite
        /\ uncached' = uncached \cup {Head(messages).line} \/ uncached' = uncached
        /\ UNCHANGED <<logbuffer, unread, file, lines, restoredTo>>
    BY <1>8 DEF WriteLogItem, IgnoreLogItem, threadVars, historyVars
  <2>3. <<Head(messages).line>> \in Seq(Corrupted .. lines)
    BY <2>1 DEF Corrupted
  <2>4. uncached' \subseteq Corrupted .. lines
    <3>1. Head(messages).line \in Corrupted .. lines
      <4>1. lines \in Nat
        BY LogCacheAssumption DEF Typed
      <4> QED BY <2>1, <4>1 DEF Corrupted
    <3>2. uncached \subseteq Corrupted .. lines
      BY DEF Typed
    <3> QED BY <2>2, <3>1, <3>2
  <2> QED BY <2>1, <2>2, <2>3, <2>4 DEF Typed
<1>9. CASE TrimLogFile \/ FlushToDisk
  <2>1. messages' \in Seq(Messages(lines))
    BY <1>9, TypedReceive DEF TrimLogFile, FlushToDisk
  <2>2. UNCHANGED <<logbuffer, unread, toWrite, lines, restoredTo, uncached>>
        /\ (file' = file \/ file' = <<>>)
    BY <1>9 DEF TrimLogFile, FlushToDisk, threadVars, historyVars
  <2>3. <<>> \in Seq(NoLength .. lines)
    OBVIOUS
  <2> QED BY <2>1, <2>2, <2>3 DEF Typed
<1>10. CASE CopyLogBuffer
  BY <1>10 DEF CopyLogBuffer, memoryVars, historyVars, Typed
<1>11. CASE WriteEscapedBytes
  <2>1. toWrite \in Seq(Corrupted .. lines) /\ toWrite # <<>> /\ file \in Seq(NoLength .. lines)
    BY <1>11 DEF WriteEscapedBytes, Typed
  <2>2. Tail(toWrite) \in Seq(Corrupted .. lines) /\ Head(toWrite) \in NoLength .. lines
    <3>1. Tail(toWrite) \in Seq(Corrupted .. lines) /\ Head(toWrite) \in Corrupted .. lines
      BY <2>1, RangeTail
    <3> QED BY <3>1 DEF NoLength, Corrupted
  <2>3. Append(file, Head(toWrite)) \in Seq(NoLength .. lines)
    <3> DEFINE M == NoLength .. lines
               item == Head(toWrite)
    <3>1. file \in Seq(M) /\ item \in M
      BY <2>1, <2>2
    <3> HIDE DEF M, item
    <3>2. Append(file, item) \in Seq(M)
      BY <3>1, RangeAppend
    <3> QED BY <3>2 DEF M, item
  <2>4. file' = Append(file, Head(toWrite)) /\ toWrite' = Tail(toWrite)
        /\ UNCHANGED <<logbuffer, messages, unread, lines, restoredTo, uncached>>
    BY <1>11 DEF WriteEscapedBytes, memoryVars, historyVars
  <2> QED BY <2>2, <2>3, <2>4 DEF Typed
<1>12. CASE WriteFails
  <2>1. /\ file' \in CutOffWrite /\ toWrite' = <<>> /\ uncached' = uncached \cup Range(toWrite)
        /\ UNCHANGED <<logbuffer, messages, unread, lines, restoredTo>>
    BY <1>12 DEF WriteFails, memoryVars
  <2>2. file' \in Seq(NoLength .. lines)
    BY <2>1, CutOffTyped
  <2>3. Range(toWrite) \subseteq Corrupted .. lines
    BY RangeOfSeq DEF Typed
  <2>4. <<>> \in Seq(Corrupted .. lines)
    OBVIOUS
  <2> QED BY <2>1, <2>2, <2>3, <2>4 DEF Typed
<1>13. CASE NullLogFile \/ Crash
  <2>1. NewProcess /\ (file' \in CutOffWrite \/ file' = file)
    BY <1>13 DEF NullLogFile, Crash
  <2>2. file' \in Seq(NoLength .. lines)
    BY <2>1, CutOffTyped DEF Typed
  <2>3. /\ logbuffer' = <<>> /\ messages' = <<>> /\ unread' = <<>> /\ toWrite' = <<>>
        /\ restoredTo' = lines /\ uncached' = {} /\ lines' = lines
    BY <2>1 DEF NewProcess
  <2>4. \A M : <<>> \in Seq(M)
    OBVIOUS
  <2>5. lines \in 0 .. lines
    BY LogCacheAssumption DEF Typed
  <2> QED BY <2>2, <2>3, <2>4, <2>5 DEF Typed
<1> QED
  BY <1>1, <1>2, <1>3, <1>4, <1>5, <1>6, <1>7, <1>8, <1>9, <1>10, <1>11, <1>12, <1>13
     DEF Next, VpnStatus, MainThread, HandlerThread

-----------------------------------------------------------------------------
(* There is one LOG_INIT in a process, and no file before it is handled. *)

OneInit(seq) ==
  \A i, j \in 1 .. Len(seq) : seq[i] = LOG_INIT /\ seq[j] = LOG_INIT => i = j

Opening ==
  /\ OneInit(messages)
  /\ (mLogFileHandler # "ready" \/ mLogFile \/ step = "reading") =>
       LOG_INIT \notin Range(messages)
  /\ (mLogFile \/ step # "idle") => mLogFileHandler = "ready"
  /\ step = "reading" => ~mLogFile
  /\ step \in {"trimming", "writing"} => mLogFile
  /\ step # "writing" => toWrite = <<>>

(* Before the file is open it has only lines of earlier processes. *)
OldLines ==
  /\ ~mLogFile => \A item \in Range(file) : item <= restoredTo
  /\ \A item \in Range(unread) : item <= restoredTo

LEMMA OneInitConcat ==
  ASSUME NEW M, NEW s \in Seq(M), NEW t \in Seq(M), OneInit(s), LOG_INIT \notin Range(t)
  PROVE  OneInit(s \o t)
<1>1. /\ Len(s) \in Nat /\ Len(t) \in Nat /\ Len(s \o t) = Len(s) + Len(t)
      /\ \A i \in 1 .. Len(s) + Len(t) :
           (s \o t)[i] = IF i <= Len(s) THEN s[i] ELSE t[i - Len(s)]
  BY ConcatProperties
<1> DEFINE u == s \o t
<1> HIDE DEF u
<1>2. \A i \in 1 .. Len(t) : t[i] # LOG_INIT
  BY RangeEquality
<1>3. \A i \in 1 .. Len(u) : u[i] = LOG_INIT => i \in 1 .. Len(s) /\ u[i] = s[i]
  <2> SUFFICES ASSUME NEW i \in 1 .. Len(u), u[i] = LOG_INIT
               PROVE  i \in 1 .. Len(s) /\ u[i] = s[i]
    OBVIOUS
  <2>1. i \in 1 .. Len(s) + Len(t)
    BY <1>1 DEF u
  <2>2. CASE i <= Len(s)
    BY <1>1, <2>1, <2>2 DEF u
  <2>3. CASE ~(i <= Len(s))
    <3>1. i - Len(s) \in 1 .. Len(t) /\ u[i] = t[i - Len(s)]
      BY <1>1, <2>1, <2>3 DEF u
    <3> QED BY <1>2, <3>1
  <2> QED BY <2>2, <2>3
<1>4. OneInit(u)
  BY <1>3 DEF OneInit
<1> QED BY <1>4 DEF u

LEMMA LastInit ==
  ASSUME NEW M, NEW seq \in Seq(M), LOG_INIT \in M, LOG_INIT \notin Range(seq)
  PROVE  OneInit(seq \o <<LOG_INIT>>)
<1> DEFINE longer == Append(seq, LOG_INIT)
<1>1. /\ Len(seq) \in Nat /\ Len(longer) = Len(seq) + 1
      /\ \A i \in 1 .. Len(seq) : longer[i] = seq[i]
  BY AppendProperties
<1>2. \A i \in 1 .. Len(seq) : seq[i] # LOG_INIT
  BY RangeEquality
<1>3. longer = seq \o <<LOG_INIT>>
  BY AppendIsConcat
<1> HIDE DEF longer
<1>4. \A i \in 1 .. Len(longer) : longer[i] = LOG_INIT => i = Len(seq) + 1
  BY <1>1, <1>2
<1> QED BY <1>3, <1>4 DEF OneInit

LEMMA NoInit ==
  ASSUME NEW M, NEW seq \in Seq(M), LOG_INIT \notin Range(seq)
  PROVE  OneInit(seq)
<1>1. \A i \in 1 .. Len(seq) : seq[i] # LOG_INIT
  BY RangeEquality
<1> QED BY <1>1 DEF OneInit

LEMMA OneInitTail ==
  ASSUME NEW M, NEW seq \in Seq(M), seq # <<>>, OneInit(seq)
  PROVE  OneInit(Tail(seq)) /\ (Head(seq) = LOG_INIT => LOG_INIT \notin Range(Tail(seq)))
<1> DEFINE rest == Tail(seq)
<1>1. /\ Len(seq) \in Nat /\ Len(seq) >= 1 /\ Len(rest) = Len(seq) - 1 /\ rest \in Seq(M)
      /\ Head(seq) = seq[1] /\ \A i \in 1 .. Len(seq) - 1 : rest[i] = seq[i + 1]
  OBVIOUS
<1>2. Range(rest) = {rest[i] : i \in 1 .. Len(rest)}
  BY <1>1, RangeEquality
<1> HIDE DEF rest
<1>3. \A i \in 1 .. Len(rest) : i + 1 \in 1 .. Len(seq) /\ rest[i] = seq[i + 1]
  BY <1>1
<1>4. OneInit(rest)
  <2> SUFFICES ASSUME NEW i \in 1 .. Len(rest), NEW j \in 1 .. Len(rest),
                      rest[i] = LOG_INIT, rest[j] = LOG_INIT
               PROVE  i = j
    BY DEF OneInit
  <2>1. i + 1 = j + 1
    BY <1>3 DEF OneInit
  <2> QED BY <1>1, <2>1
<1>5. Head(seq) = LOG_INIT => LOG_INIT \notin Range(rest)
  <2> SUFFICES ASSUME Head(seq) = LOG_INIT, NEW i \in 1 .. Len(rest), rest[i] = LOG_INIT
               PROVE  FALSE
    BY <1>2
  <2>1. i + 1 = 1
    BY <1>1, <1>3 DEF OneInit
  <2> QED BY <1>1, <2>1
<1> QED BY <1>4, <1>5 DEF rest

LEMMA SentOneInit ==
  ASSUME NEW M, messages \in Seq(M), NEW batch \in Seq(M), Send(batch),
         OneInit(messages), LOG_INIT \notin Range(batch)
  PROVE  OneInit(messages')
BY OneInitConcat DEF Send

(* What newLogItem puts into the buffer and the queue. *)
LEMMA NewLineSent ==
  ASSUME Typed, newLogItem, OneInit(messages)
  PROVE  /\ lines' \in Nat
         /\ Range(logbuffer') \subseteq Range(logbuffer) \cup {lines'}
         /\ Range(messages) \subseteq Range(messages')
         /\ LOG_INIT \in Range(messages') => LOG_INIT \in Range(messages)
         /\ mLogFileHandler # "null" => LOG_MESSAGE(lines') \in Range(messages')
         /\ OneInit(messages')
<1> PICK n \in Nat : n = lines
  BY LogCacheAssumption DEF Typed
<1> DEFINE buffer == Append(logbuffer, n + 1)
           first == <<LOG_MESSAGE(n + 1)>>
           M == Messages(n + 1)
<1>1. /\ lines' = n + 1 /\ 1 .. n \subseteq 1 .. n + 1 /\ n + 1 \in 1 .. n + 1
      /\ Corrupted .. n \subseteq Corrupted .. n + 1 /\ n + 1 \in Corrupted .. n + 1
  BY DEF newLogItem, Corrupted
<1>2. Messages(n) \subseteq M /\ LOG_MESSAGE(n + 1) \in M /\ {TRIM_LOG_FILE} \subseteq M
  BY <1>1 DEF Messages
<1>3. logbuffer \in Seq(Corrupted .. n + 1) /\ messages \in Seq(M)
  <2>1. logbuffer \in Seq(Corrupted .. n) /\ messages \in Seq(Messages(n))
    BY DEF Typed
  <2> HIDE DEF M
  <2> QED BY <1>1, <1>2, <2>1, Weaker DEF Corrupted
<1>4. buffer \in Seq(Corrupted .. n + 1) /\ Range(buffer) = Range(logbuffer) \cup {n + 1}
  <2> DEFINE S == Corrupted .. n + 1
  <2>1. logbuffer \in Seq(S) /\ n + 1 \in S
    BY <1>1, <1>3 DEF Corrupted
  <2> HIDE DEF S
  <2>2. Append(logbuffer, n + 1) \in Seq(S)
        /\ Range(Append(logbuffer, n + 1)) = Range(logbuffer) \cup {n + 1}
    BY <2>1, RangeAppend
  <2> QED BY <2>2 DEF S
<1>5. first \in Seq(M) /\ Range(first) = {LOG_MESSAGE(n + 1)}
  BY <1>2, RangeOne
<1>6. logbuffer' = Trimmed(buffer) /\ Send(first \o TrimMessage(buffer))
  BY DEF newLogItem
<1> HIDE DEF buffer, first, M
<1>7. Range(Trimmed(buffer)) \subseteq Range(buffer) /\ TrimMessage(buffer) \in Seq({TRIM_LOG_FILE})
  BY <1>4, TrimmedLines
<1>8. TrimMessage(buffer) \in Seq(M) /\ Range(TrimMessage(buffer)) \subseteq {TRIM_LOG_FILE}
  BY <1>2, <1>7, Weaker, RangeOfSeq
<1> DEFINE batch == first \o TrimMessage(buffer)
<1>9. batch \in Seq(M) /\ Range(batch) = Range(first) \cup Range(TrimMessage(buffer))
  BY <1>5, <1>8, ConcatProperties, RangeConcatenation
<1>10. Send(batch)
  BY <1>6
<1> HIDE DEF batch
<1>11. LOG_INIT \notin Range(batch) /\ LOG_MESSAGE(n + 1) \in Range(batch)
  BY <1>5, <1>8, <1>9 DEF LOG_INIT, LOG_MESSAGE, TRIM_LOG_FILE
<1>12. OneInit(messages')
  BY <1>3, <1>9, <1>10, <1>11, SentOneInit
<1>13. /\ Range(messages) \subseteq Range(messages')
       /\ Range(messages') \subseteq Range(messages) \cup Range(batch)
       /\ mLogFileHandler # "null" => Range(batch) \subseteq Range(messages')
  BY <1>3, <1>9, <1>10, Sent
<1> QED BY <1>1, <1>4, <1>6, <1>7, <1>11, <1>12, <1>13

LEMMA OpeningInit == Init => Opening /\ OldLines
<1> SUFFICES ASSUME Init
             PROVE  Opening /\ OldLines
  OBVIOUS
<1>1. /\ messages = <<>> /\ file = <<>> /\ unread = <<>> /\ toWrite = <<>>
      /\ ~mLogFile /\ step = "idle"
  BY DEF Init, ProcessStarted
<1>2. OneInit(<<>>)
  BY DEF OneInit
<1> QED BY <1>1, <1>2, RangeEmpty DEF Opening, OldLines

LEMMA OpeningReceive ==
  ASSUME Typed, Opening, NEW what, Receives(what)
  PROVE  /\ OneInit(messages') /\ Range(messages') \subseteq Range(messages)
         /\ what = "LOG_INIT" => /\ LOG_INIT \in Range(messages)
                                 /\ LOG_INIT \notin Range(messages')
<1>1. messages \in Seq(Messages(lines)) /\ messages # <<>> /\ messages' = Tail(messages)
      /\ OneInit(messages) /\ lines \in Nat
  BY LogCacheAssumption DEF Typed, Receives, Waiting, Opening
<1>2. OneInit(Tail(messages)) /\ (Head(messages) = LOG_INIT => LOG_INIT \notin Range(Tail(messages)))
  BY <1>1, OneInitTail
<1>3. /\ Range(messages) = Range(messages') \cup {Head(messages)}
      /\ Head(messages) \in Messages(lines) /\ Head(messages).what = what
  BY TypedReceive
<1>4. what = "LOG_INIT" => Head(messages) = LOG_INIT
  BY <1>1, <1>3, MessageShape
<1> QED BY <1>1, <1>2, <1>3, <1>4

LEMMA OpeningNext == Typed /\ Places /\ Opening /\ [Next]_vars => Opening'
<1> SUFFICES ASSUME Typed, Places, Opening, [Next]_vars
             PROVE  Opening'
  OBVIOUS
<1>1. CASE newLogItem
  <2>1. OneInit(messages') /\ (LOG_INIT \in Range(messages') => LOG_INIT \in Range(messages))
    BY <1>1, NewLineSent DEF Opening
  <2>2. UNCHANGED <<mLogFileHandler, mLogFile, step, toWrite>>
    BY <1>1 DEF newLogItem, threadVars
  <2> QED BY <2>1, <2>2 DEF Opening
<1>2. CASE flushLog
  <2>1. /\ <<FLUSH_TO_DISK>> \in Seq(Messages(lines)) /\ Range(<<FLUSH_TO_DISK>>) = {FLUSH_TO_DISK}
        /\ LOG_INIT \notin {FLUSH_TO_DISK} /\ messages \in Seq(Messages(lines))
    BY RangeOne DEF Messages, LOG_INIT, FLUSH_TO_DISK, Typed
  <2>2. Send(<<FLUSH_TO_DISK>>) /\ UNCHANGED <<mLogFileHandler, mLogFile, step, toWrite>>
    BY <1>2 DEF flushLog, threadVars
  <2> DEFINE batch == <<FLUSH_TO_DISK>>
  <2> HIDE DEF batch
  <2>3. batch \in Seq(Messages(lines)) /\ Range(batch) = {FLUSH_TO_DISK} /\ Send(batch)
    BY <2>1, <2>2 DEF batch
  <2>4. OneInit(messages') /\ Range(messages') \subseteq Range(messages) \cup {FLUSH_TO_DISK}
    BY <2>1, <2>3, Sent, SentOneInit DEF Opening
  <2> QED BY <2>1, <2>2, <2>4 DEF Opening
<1>3. CASE SendInit
  <2>1. /\ UNCHANGED <<mLogFile, step, toWrite>>
        /\ mLogFileHandler = "set" /\ mLogFileHandler' = "ready"
        /\ messages' = messages \o <<LOG_INIT>>
    BY <1>3 DEF SendInit, Send, threadVars
  <2>2. ~mLogFile /\ step = "idle" /\ LOG_INIT \notin Range(messages) /\ toWrite = <<>>
    BY <2>1 DEF Opening, Places
  <2>3. messages \in Seq(Messages(lines)) /\ LOG_INIT \in Messages(lines)
    BY DEF Typed, Messages
  <2>4. OneInit(messages')
    BY <2>1, <2>2, <2>3, LastInit
  <2> QED BY <2>1, <2>2, <2>4 DEF Opening
<1>4. CASE AssignHandler
  <2>1. mLogFileHandler = "null" /\ mLogFileHandler' = "set"
        /\ UNCHANGED <<messages, mLogFile, step, toWrite>>
    BY <1>4 DEF AssignHandler, threadVars
  <2> QED BY <2>1 DEF Opening, Places
<1>5. CASE ReadLogCache
  <2>1. OneInit(messages') /\ LOG_INIT \in Range(messages) /\ LOG_INIT \notin Range(messages')
    BY <1>5, OpeningReceive DEF ReadLogCache
  <2>2. step' = "reading" /\ step = "idle" /\ UNCHANGED <<mLogFileHandler, mLogFile, toWrite>>
    BY <1>5 DEF ReadLogCache, Receives, Waiting
  <2> QED BY <2>1, <2>2 DEF Opening
<1>6. CASE RestoreLogItem \/ RestoreCutOffItem
  <2>0. PICK line : Restoring(line)
    BY <1>6, RestoringFacts
  <2>1. step = "reading" /\ UNCHANGED <<mLogFileHandler, mLogFile, step, toWrite>>
    BY <2>0, RestoringFacts DEF Restore
  <2>2. LOG_INIT \notin Range(messages') /\ messages' \in Seq(Messages(lines))
    BY <2>0, <2>1, RestoredTyped DEF Opening, LOG_INIT, TRIM_LOG_FILE
  <2>3. OneInit(messages')
    BY <2>2, NoInit
  <2> QED BY <2>1, <2>2, <2>3 DEF Opening
<1>7. CASE SkipBrokenItem
  BY <1>7 DEF SkipBrokenItem, memoryVars, Opening
<1>8. CASE OpenLogFile
  <2>1. step = "reading" /\ step' = "idle" /\ mLogFile'
        /\ UNCHANGED <<messages, mLogFileHandler, toWrite>>
    BY <1>8 DEF OpenLogFile, memoryVars
  <2> QED BY <2>1 DEF Opening
<1>9. CASE OpenLogFileFails
  BY <1>9 DEF OpenLogFileFails, memoryVars, Opening
<1>10. CASE WriteLogItem
  <2>1. OneInit(messages') /\ Range(messages') \subseteq Range(messages)
    BY <1>10, OpeningReceive DEF WriteLogItem
  <2>2. mLogFile /\ step = "idle" /\ step' = "writing" /\ UNCHANGED <<mLogFileHandler, mLogFile>>
    BY <1>10 DEF WriteLogItem, Receives, Waiting
  <2> QED BY <2>1, <2>2 DEF Opening
<1>11. CASE IgnoreLogItem \/ FlushToDisk
  <2>1. OneInit(messages') /\ Range(messages') \subseteq Range(messages)
    BY <1>11, OpeningReceive DEF IgnoreLogItem, FlushToDisk
  <2>2. UNCHANGED <<mLogFileHandler, mLogFile, step, toWrite>>
    BY <1>11 DEF IgnoreLogItem, FlushToDisk, threadVars
  <2> QED BY <2>1, <2>2 DEF Opening
<1>12. CASE TrimLogFile
  <2>1. OneInit(messages') /\ Range(messages') \subseteq Range(messages)
    BY <1>12, OpeningReceive DEF TrimLogFile
  <2>2. mLogFile /\ step = "idle" /\ step' = "trimming"
        /\ UNCHANGED <<mLogFileHandler, mLogFile, toWrite>>
    BY <1>12 DEF TrimLogFile, Receives, Waiting
  <2> QED BY <2>1, <2>2 DEF Opening
<1>13. CASE CopyLogBuffer \/ WriteEscapedBytes
  BY <1>13 DEF CopyLogBuffer, WriteEscapedBytes, memoryVars, Opening
<1>14. CASE Written \/ WriteFails
  BY <1>14 DEF Written, WriteFails, memoryVars, Opening
<1>15. CASE NullLogFile \/ Crash
  <2>1. /\ messages' = <<>> /\ mLogFileHandler' = "null" /\ step' = "idle" /\ toWrite' = <<>>
        /\ ~mLogFile'
    BY <1>15 DEF NullLogFile, Crash, NewProcess
  <2>2. OneInit(<<>>)
    BY DEF OneInit
  <2> QED BY <2>1, <2>2, RangeEmpty DEF Opening
<1>16. CASE UNCHANGED vars
  BY <1>16 DEF vars, memoryVars, threadVars, Opening
<1> QED
  BY <1>1, <1>2, <1>3, <1>4, <1>5, <1>6, <1>7, <1>8, <1>9, <1>10, <1>11, <1>12, <1>13, <1>14,
     <1>15, <1>16
     DEF Next, VpnStatus, MainThread, HandlerThread

LEMMA OldLinesNext == Typed /\ Opening /\ OldLines /\ [Next]_vars => OldLines'
<1> SUFFICES ASSUME Typed, Opening, OldLines, [Next]_vars
             PROVE  OldLines'
  OBVIOUS
<1>1. CASE ReadLogCache
  <2>1. LOG_INIT \in Range(messages)
    BY <1>1, OpeningReceive DEF ReadLogCache
  <2>2. unread' = file /\ UNCHANGED <<mLogFile, file, restoredTo>>
    BY <1>1 DEF ReadLogCache, historyVars
  <2> QED BY <2>1, <2>2 DEF Opening, OldLines
<1>2. CASE RestoreLogItem \/ RestoreCutOffItem
  <2>1. Range(unread') \subseteq Range(unread)
    BY <1>2, RestoringFacts, RestoredTyped
  <2>2. UNCHANGED <<mLogFile, file, restoredTo>>
    BY <1>2 DEF RestoreLogItem, RestoreCutOffItem, Restore, historyVars
  <2> QED BY <2>1, <2>2 DEF OldLines
<1>3. CASE SkipBrokenItem
  <2>1. Range(unread') \subseteq Range(unread)
    BY <1>3, SkippedTyped
  <2>2. UNCHANGED <<mLogFile, file, restoredTo>>
    BY <1>3 DEF SkipBrokenItem, historyVars
  <2> QED BY <2>1, <2>2 DEF OldLines
<1>4. CASE OpenLogFile
  BY <1>4 DEF OpenLogFile, historyVars, OldLines
<1>5. CASE newLogItem \/ flushLog \/ AssignHandler \/ SendInit \/ OpenLogFileFails
  <2>1. UNCHANGED <<mLogFile, file, unread, restoredTo>>
    BY <1>5 DEF newLogItem, flushLog, AssignHandler, SendInit, OpenLogFileFails, threadVars,
                historyVars
  <2> QED BY <2>1 DEF OldLines
<1>6. CASE WriteLogItem \/ IgnoreLogItem \/ FlushToDisk \/ CopyLogBuffer \/ Written
  <2>1. UNCHANGED <<mLogFile, file, unread, restoredTo>>
    BY <1>6 DEF WriteLogItem, IgnoreLogItem, FlushToDisk, CopyLogBuffer, Written, threadVars,
                historyVars
  <2> QED BY <2>1 DEF OldLines
<1>7. CASE TrimLogFile \/ WriteEscapedBytes \/ WriteFails
  <2>1. UNCHANGED <<mLogFile, unread, restoredTo>>
    BY <1>7 DEF TrimLogFile, WriteEscapedBytes, WriteFails, historyVars
  <2>2. mLogFile
    BY <1>7 DEF TrimLogFile, WriteEscapedBytes, WriteFails, Opening
  <2> QED BY <2>1, <2>2 DEF OldLines
<1>8. CASE NullLogFile \/ Crash
  <2>1. NewProcess /\ (file' = file \/ file' \in CutOffWrite)
    BY <1>8 DEF NullLogFile, Crash
  <2>2. unread' = <<>> /\ restoredTo' = lines /\ lines \in Nat
    BY <2>1, LogCacheAssumption DEF NewProcess, Typed
  <2>3. Range(file') \subseteq Range(file) \cup {NoLength, CutOff}
    BY <2>1, CutOffTyped
  <2>4. Range(file) \subseteq NoLength .. lines
    BY RangeOfSeq DEF Typed
  <2>5. \A item \in Range(file') : item <= lines
    BY <2>2, <2>3, <2>4 DEF NoLength, CutOff
  <2> QED BY <2>2, <2>5, RangeEmpty DEF OldLines
<1>9. CASE UNCHANGED vars
  BY <1>9 DEF vars, threadVars, historyVars, OldLines
<1> QED
  BY <1>1, <1>2, <1>3, <1>4, <1>5, <1>6, <1>7, <1>8, <1>9
     DEF Next, VpnStatus, MainThread, HandlerThread

-----------------------------------------------------------------------------
(* The cache keeps up *)

LEMMA KeepsUpNext ==
  Typed /\ Places /\ Opening /\ OldLines /\ CacheKeepsUp /\ [Next]_vars => CacheKeepsUp'
<1> SUFFICES ASSUME Typed, Places, Opening, OldLines, CacheKeepsUp, [Next]_vars,
                    NEW line \in ToCache'
             PROVE  line \in Range(file') \/ Pending(line)'
  BY DEF CacheKeepsUp
<1>1. line \in Range(logbuffer') /\ line > restoredTo' /\ line \notin uncached'
  BY DEF ToCache
<1> USE DEF Pending
<1>2. ASSUME line \in Range(logbuffer), restoredTo' = restoredTo, uncached \subseteq uncached'
      PROVE  line \in Range(file) \/ Pending(line)
  BY <1>1, <1>2 DEF ToCache, CacheKeepsUp
<1>3. CASE newLogItem
  <2>1. UNCHANGED <<step, toWrite, file, restoredTo>> /\ uncached \subseteq uncached'
        /\ (mLogFileHandler # "ready" => lines' \in uncached')
    BY <1>3 DEF newLogItem, threadVars
  <2>2. /\ Range(logbuffer') \subseteq Range(logbuffer) \cup {lines'}
        /\ Range(messages) \subseteq Range(messages')
        /\ mLogFileHandler # "null" => LOG_MESSAGE(lines') \in Range(messages')
    BY <1>3, NewLineSent DEF Opening
  <2>3. CASE line = lines'
    BY <1>1, <2>1, <2>2, <2>3
  <2>4. CASE line \in Range(logbuffer)
    BY <1>2, <2>1, <2>2, <2>4
  <2> QED BY <1>1, <2>2, <2>3, <2>4
<1>4. CASE flushLog \/ SendInit
  <2>1. UNCHANGED <<logbuffer, step, toWrite, file, restoredTo, uncached>>
    BY <1>4 DEF flushLog, SendInit, threadVars, historyVars
  <2>2. Range(messages) \subseteq Range(messages')
    <3>1. \A m \in {LOG_INIT, FLUSH_TO_DISK} :
            <<m>> \in Seq(Messages(lines)) /\ messages \in Seq(Messages(lines))
      BY DEF Messages, Typed
    <3>2. \A m \in {LOG_INIT, FLUSH_TO_DISK} :
            Send(<<m>>) => Range(messages) \subseteq Range(messages')
      BY <3>1, Sent
    <3> QED BY <1>4, <3>2 DEF flushLog, SendInit
  <2> QED BY <1>1, <1>2, <2>1, <2>2
<1>5. CASE AssignHandler \/ SkipBrokenItem \/ OpenLogFileFails \/ UNCHANGED vars
  <2>1. UNCHANGED <<logbuffer, messages, toWrite, file, restoredTo, uncached>>
    BY <1>5 DEF AssignHandler, SkipBrokenItem, OpenLogFileFails, vars, memoryVars, threadVars,
                historyVars
  <2>2. step = "trimming" => step' = "trimming"
    BY <1>5 DEF AssignHandler, SkipBrokenItem, OpenLogFileFails, vars, threadVars
  <2> QED BY <1>1, <1>2, <2>1, <2>2
<1>6. CASE ReadLogCache \/ FlushToDisk
  <2>1. UNCHANGED <<logbuffer, toWrite, file, restoredTo, uncached>>
    BY <1>6 DEF ReadLogCache, FlushToDisk, threadVars, historyVars
  <2>2. PICK what \in {"LOG_INIT", "FLUSH_TO_DISK"} : Receives(what)
    BY <1>6 DEF ReadLogCache, FlushToDisk
  <2>3. Range(messages) = Range(messages') \cup {Head(messages)}
        /\ Head(messages).what = what /\ step = "idle"
    BY <2>2, TypedReceive
  <2>4. Head(messages) # TRIM_LOG_FILE /\ Head(messages) # LOG_MESSAGE(line)
    BY <2>3 DEF TRIM_LOG_FILE, LOG_MESSAGE
  <2> QED BY <1>1, <1>2, <2>1, <2>3, <2>4
<1>7. CASE RestoreLogItem \/ RestoreCutOffItem
  <2>0. PICK restored : Restoring(restored)
    BY <1>7, RestoringFacts
  <2>1. UNCHANGED <<step, toWrite, file, restoredTo, uncached>>
    BY <2>0, RestoringFacts DEF Restore, historyVars
  <2>2. /\ restored \in Range(unread) \cup {Corrupted} /\ Range(messages) \subseteq Range(messages')
        /\ Range(logbuffer') \subseteq Range(logbuffer) \cup {restored}
        /\ restored \in Corrupted .. lines
    BY <2>0, RestoredTyped
  <2>3. line \in Range(logbuffer)
    <3>1. restored <= restoredTo /\ line > restoredTo
      BY <1>1, <2>1, <2>2 DEF OldLines, Typed, Corrupted
    <3>2. restored \in Int /\ restoredTo \in Int /\ line \in Int
      <4>1. restored \in Int
        BY <2>2 DEF Corrupted
      <4>2. line \in Range(logbuffer) \/ line = restored
        BY <1>1, <2>2
      <4>3. line \in Int
        BY <4>1, <4>2, RangeOfSeq DEF Typed, Corrupted
      <4> QED BY <4>1, <4>3 DEF Typed
    <3> QED BY <1>1, <2>2, <3>1, <3>2
  <2> QED BY <1>2, <2>1, <2>2, <2>3
<1>8. CASE OpenLogFile
  <2>1. /\ step = "reading" /\ ~mLogFile
        /\ UNCHANGED <<logbuffer, messages, toWrite, restoredTo, uncached>>
    BY <1>8 DEF OpenLogFile, memoryVars, historyVars, Opening
  <2>2. line \notin Range(file)
    <3>1. line \in Int /\ restoredTo \in Int
      BY <1>1, <2>1, RangeOfSeq DEF Typed, NoLength, Corrupted
    <3> QED BY <1>1, <2>1, <3>1 DEF OldLines
  <2> QED BY <1>1, <1>2, <2>1, <2>2
<1>9. CASE WriteLogItem \/ IgnoreLogItem
  <2>1. UNCHANGED <<logbuffer, file, restoredTo>> /\ uncached \subseteq uncached'
    BY <1>9 DEF WriteLogItem, IgnoreLogItem, historyVars
  <2>2. /\ Range(messages) = Range(messages') \cup {Head(messages)}
        /\ Head(messages).what = "LOG_MESSAGE" /\ step = "idle"
    BY <1>9, TypedReceive DEF WriteLogItem, IgnoreLogItem
  <2>3. Head(messages) # TRIM_LOG_FILE
        /\ (Head(messages) = LOG_MESSAGE(line) => Head(messages).line = line)
    BY <2>2 DEF TRIM_LOG_FILE, LOG_MESSAGE
  <2>4. line \notin Range(toWrite)
    BY <2>2, RangeEmpty DEF Opening
  <2>5. Head(messages).line \in Range(toWrite') \/ Head(messages).line \in uncached'
    BY <1>9, RangeOne DEF WriteLogItem, IgnoreLogItem
  <2> QED BY <1>1, <1>2, <2>1, <2>2, <2>3, <2>4, <2>5
<1>10. CASE TrimLogFile
  BY <1>10 DEF TrimLogFile
<1>11. CASE CopyLogBuffer
  BY <1>1, <1>11 DEF CopyLogBuffer, memoryVars
<1>12. CASE WriteEscapedBytes
  <2>1. /\ toWrite \in Seq(Corrupted .. lines) /\ toWrite # <<>> /\ file \in Seq(NoLength .. lines)
        /\ UNCHANGED <<logbuffer, messages, step, restoredTo, uncached>>
        /\ file' = Append(file, Head(toWrite)) /\ toWrite' = Tail(toWrite)
    BY <1>12 DEF WriteEscapedBytes, memoryVars, historyVars, Typed
  <2>2. Range(toWrite) = Range(toWrite') \cup {Head(toWrite)} /\ Head(toWrite) \in Corrupted .. lines
    BY <2>1, RangeTail
  <2>3. Range(file') = Range(file) \cup {Head(toWrite)}
    <3> DEFINE M == NoLength .. lines
               item == Head(toWrite)
    <3>1. file \in Seq(M) /\ item \in M
      BY <2>1, <2>2 DEF NoLength, Corrupted
    <3> HIDE DEF M, item
    <3>2. Range(Append(file, item)) = Range(file) \cup {item}
      BY <3>1, RangeAppend
    <3> QED BY <2>1, <3>2 DEF item
  <2> QED BY <1>1, <1>2, <2>1, <2>2, <2>3
<1>13. CASE Written
  <2>1. toWrite = <<>> /\ step # "trimming"
        /\ UNCHANGED <<logbuffer, messages, toWrite, file, restoredTo, uncached>>
    BY <1>13 DEF Written, memoryVars, historyVars
  <2> QED BY <1>1, <1>2, <2>1
<1>14. CASE WriteFails
  <2>1. /\ uncached' = uncached \cup Range(toWrite) /\ file' \in CutOffWrite
        /\ step # "trimming" /\ UNCHANGED <<logbuffer, messages, restoredTo>>
    BY <1>14 DEF WriteFails, memoryVars
  <2>2. Range(file) \subseteq Range(file')
    BY <2>1, CutOffTyped
  <2> QED BY <1>1, <1>2, <2>1, <2>2
<1>15. CASE NullLogFile \/ Crash
  <2>1. logbuffer' = <<>>
    BY <1>15 DEF NullLogFile, Crash, NewProcess
  <2> QED BY <1>1, <2>1, RangeEmpty
<1> QED
  BY <1>3, <1>4, <1>5, <1>6, <1>7, <1>8, <1>9, <1>10, <1>11, <1>12, <1>13, <1>14, <1>15
     DEF Next, VpnStatus, MainThread, HandlerThread

-----------------------------------------------------------------------------
(* The theorems *)

(* Nothing is in the buffer, the queue or the file that was not logged,    *)
(* apart from the corrupted line the reader makes of the end of a file     *)
(* that was cut off: newLogItem, the writes and the reading of the cache   *)
(* after any crash.  A write that was cut off never gets into the buffer.  *)
THEOREM CacheTypes == Spec => []TypeOK
<1>1. Init => Typed /\ Places
  BY InitTyped
<1>2. Typed /\ Places /\ [Next]_vars => Typed' /\ Places'
  BY TypedNext, PlacesNext
<1>3. Typed /\ Places => TypeOK
  <2> SUFFICES ASSUME Typed, Places
               PROVE  TypeOK
    OBVIOUS
  <2>1. /\ Range(logbuffer) \subseteq Corrupted .. lines /\ Range(toWrite) \subseteq Corrupted .. lines
        /\ Range(file) \subseteq NoLength .. lines /\ Range(unread) \subseteq NoLength .. lines
        /\ Range(messages) \subseteq Messages(lines)
    BY RangeOfSeq DEF Typed
  <2>2. \A m \in Messages(lines) : IsMessage(m)
    BY DEF Messages, IsMessage
  <2> QED BY <2>1, <2>2 DEF TypeOK, Typed, Places
<1> QED BY <1>1, <1>2, <1>3, PTL DEF Spec

(* A line of the buffer that newLogItem sent to the cache is on disk or    *)
(* will be, whatever trims, crashes and failures there are between.        *)
THEOREM NoLineForgotten == Spec => []CacheKeepsUp
<1> DEFINE IInv == Typed /\ Places /\ Opening /\ OldLines /\ CacheKeepsUp
<1>1. Init => IInv
  <2>1. Init => logbuffer = <<>>
    BY DEF Init, ProcessStarted
  <2>2. Init => CacheKeepsUp
    BY <2>1, RangeEmpty DEF CacheKeepsUp, ToCache
  <2> QED BY <2>2, InitTyped, OpeningInit
<1>2. IInv /\ [Next]_vars => IInv'
  BY TypedNext, PlacesNext, OpeningNext, OldLinesNext, KeepsUpNext
<1> QED BY <1>1, <1>2, PTL DEF Spec

-----------------------------------------------------------------------------
(* The queue between two trims, and the lines on disk *)

Half == MAXLOGENTRIES \div 2

(* Behind the position i of the queue there is a trim. *)
TrimBehind(queue, i) == \E j \in 1 .. Len(queue) : j > i /\ queue[j] = TRIM_LOG_FILE

(* The lines sent behind the position i and before the next trim. *)
Batch(queue, i) ==
  {queue[k].line : k \in {k \in 1 .. Len(queue) :
     /\ k > i /\ queue[k].what = "LOG_MESSAGE"
     /\ \A j \in 1 .. k : j > i => queue[j] # TRIM_LOG_FILE}}

(* A batch that a trim ends, and one that the buffer still grows with. *)
Within(queue, i, ended, growing) ==
  Cardinality(Batch(queue, i)) <= IF TrimBehind(queue, i) THEN ended ELSE growing

(* The lines sent and not yet received, and those of earlier processes. *)
Ascending(queue, from) ==
  /\ \A i, j \in 1 .. Len(queue) :
       (i < j /\ queue[i].what = "LOG_MESSAGE" /\ queue[j].what = "LOG_MESSAGE") =>
         queue[i].line < queue[j].line
  /\ \A i \in 1 .. Len(queue) : queue[i].what = "LOG_MESSAGE" => queue[i].line > from

SentInOrder ==
  /\ Ascending(messages, restoredTo)
  /\ mLogFileHandler = "null" => messages = <<>>

MarkersFit(queue, size) ==
  \A i \in 1 .. Len(queue) :
    /\ queue[i] = TRIM_LOG_FILE => Within(queue, i, Half + 1, size - MAXLOGENTRIES)
    /\ queue[i] = LOG_INIT => Within(queue, i, MAXLOGENTRIES + Half + 1, size)

Load == LinesOnDisk + Len(toWrite)

(* The same of the message that has been received, and what is on disk and *)
(* to be written before the next trim.                                     *)
FrontFits(queue, size) ==
  /\ step = "trimming" => Within(queue, 0, Half + 1, size - MAXLOGENTRIES)
  /\ step = "reading" => Within(queue, 0, MAXLOGENTRIES + Half + 1, size)
  /\ (mLogFile /\ step # "trimming") =>
       Within(queue, 0, 2 * MAXLOGENTRIES + 1 - Load, MAXLOGENTRIES - Half + size - Load)

BatchesFit ==
  /\ Len(logbuffer) <= MAXLOGENTRIES + Half
  /\ MarkersFit(messages, Len(logbuffer))
  /\ FrontFits(messages, Len(logbuffer))

FileFits ==
  /\ FileWithinReaderLimit
  /\ step = "trimming" => file = <<>>

LEMMA HalfFacts ==
  /\ MAXLOGENTRIES \in Nat /\ MAXLOGENTRIES >= 1
  /\ Half \in Nat /\ 2 * Half <= MAXLOGENTRIES
  /\ \A buffer : TooLong(buffer) <=> Len(buffer) > MAXLOGENTRIES + Half
BY LogCacheAssumption DEF Half, TooLong

LEMMA TrimmedLength ==
  ASSUME NEW M, NEW buffer \in Seq(M)
  PROVE  /\ TooLong(buffer) => Len(Trimmed(buffer)) = MAXLOGENTRIES
         /\ ~TooLong(buffer) => Trimmed(buffer) = buffer
         /\ TrimMessage(buffer) = IF TooLong(buffer) THEN <<TRIM_LOG_FILE>> ELSE <<>>
<1>1. CASE TooLong(buffer)
  <2> DEFINE from == Len(buffer) - MAXLOGENTRIES + 1
  <2>1. from \in 1 .. Len(buffer) + 1 /\ from \in Int /\ Len(buffer) \in Nat
    BY <1>1, HalfFacts
  <2>2. Len(SubSeq(buffer, from, Len(buffer))) = Len(buffer) - from + 1
    BY <2>1, SubSeqProperties
  <2>3. Len(buffer) - from + 1 = MAXLOGENTRIES
    BY <2>1, HalfFacts
  <2>4. Trimmed(buffer) = SubSeq(buffer, from, Len(buffer))
    BY <1>1 DEF Trimmed
  <2> QED BY <1>1, <2>2, <2>3, <2>4 DEF TrimMessage
<1>2. CASE ~TooLong(buffer)
  BY <1>2 DEF Trimmed, TrimMessage
<1> QED BY <1>1, <1>2

(* One message more. *)
LEMMA BatchAppend ==
  ASSUME NEW M, NEW queue \in Seq(M), NEW m \in M, NEW i \in 0 .. Len(queue)
  PROVE  /\ TrimBehind(Append(queue, m), i) <=> TrimBehind(queue, i) \/ m = TRIM_LOG_FILE
         /\ Batch(Append(queue, m), i) =
              IF TrimBehind(queue, i) \/ m.what # "LOG_MESSAGE"
              THEN Batch(queue, i)
              ELSE Batch(queue, i) \cup {m.line}
<1> DEFINE longer == Append(queue, m)
           n == Len(queue)
           Ks(seq, k) == k > i /\ seq[k].what = "LOG_MESSAGE"
                           /\ \A j \in 1 .. k : j > i => seq[j] # TRIM_LOG_FILE
<1>1. /\ n \in Nat /\ Len(longer) = n + 1 /\ longer[n + 1] = m
      /\ \A k \in 1 .. n : longer[k] = queue[k]
  BY AppendProperties
<1> HIDE DEF longer
<1>2. TrimBehind(longer, i) <=> TrimBehind(queue, i) \/ m = TRIM_LOG_FILE
  <2>1. TrimBehind(queue, i) => TrimBehind(longer, i)
    BY <1>1 DEF TrimBehind
  <2>2. m = TRIM_LOG_FILE => TrimBehind(longer, i)
    BY <1>1 DEF TrimBehind
  <2>3. TrimBehind(longer, i) => TrimBehind(queue, i) \/ m = TRIM_LOG_FILE
    BY <1>1 DEF TrimBehind
  <2> QED BY <2>1, <2>2, <2>3
<1>3. \A k \in 1 .. n : Ks(longer, k) <=> Ks(queue, k)
  BY <1>1
<1>4. Ks(longer, n + 1) <=> m.what = "LOG_MESSAGE" /\ ~TrimBehind(queue, i)
  <2>1. m.what = "LOG_MESSAGE" => m # TRIM_LOG_FILE
    BY DEF TRIM_LOG_FILE
  <2> QED BY <1>1, <2>1 DEF TrimBehind
<1>5. /\ Batch(longer, i) = {longer[k].line : k \in {k \in 1 .. n + 1 : Ks(longer, k)}}
      /\ Batch(queue, i) = {queue[k].line : k \in {k \in 1 .. n : Ks(queue, k)}}
  BY <1>1 DEF Batch
<1> HIDE DEF Ks
<1>6. \A k \in 1 .. n + 1 : Ks(longer, k) =>
        (k \in 1 .. n /\ Ks(queue, k) /\ longer[k].line = queue[k].line)
          \/ (k = n + 1 /\ longer[k].line = m.line)
  BY <1>1, <1>3
<1>7. \A k \in 1 .. n : Ks(queue, k) =>
        k \in 1 .. n + 1 /\ Ks(longer, k) /\ longer[k].line = queue[k].line
  BY <1>1, <1>3
<1>8. CASE Ks(longer, n + 1)
  <2>1. Batch(longer, i) = Batch(queue, i) \cup {m.line}
    BY <1>1, <1>5, <1>6, <1>7, <1>8
  <2> QED BY <1>2, <1>4, <1>8, <2>1 DEF longer
<1>9. CASE ~Ks(longer, n + 1)
  <2>1. Batch(longer, i) = Batch(queue, i)
    BY <1>1, <1>5, <1>6, <1>7, <1>9
  <2> QED BY <1>2, <1>4, <1>9, <2>1 DEF longer
<1> QED BY <1>8, <1>9

(* Nothing is behind the last message. *)
LEMMA BatchLast ==
  ASSUME NEW M, NEW queue \in Seq(M)
  PROVE  Batch(queue, Len(queue)) = {} /\ ~TrimBehind(queue, Len(queue))
BY DEF Batch, TrimBehind

(* The first message gone. *)
LEMMA BatchTail ==
  ASSUME NEW M, NEW queue \in Seq(M), queue # <<>>, NEW i \in 0 .. Len(queue) - 1
  PROVE  /\ TrimBehind(Tail(queue), i) <=> TrimBehind(queue, i + 1)
         /\ Batch(Tail(queue), i) = Batch(queue, i + 1)
<1> DEFINE rest == Tail(queue)
           n == Len(queue)
           Ks(seq, from, k) == k > from /\ seq[k].what = "LOG_MESSAGE"
                                 /\ \A j \in 1 .. k : j > from => seq[j] # TRIM_LOG_FILE
<1>1. /\ n \in Nat /\ n >= 1 /\ Len(rest) = n - 1
      /\ \A k \in 1 .. n - 1 : rest[k] = queue[k + 1]
  OBVIOUS
<1> HIDE DEF rest
<1>2. TrimBehind(rest, i) => TrimBehind(queue, i + 1)
  BY <1>1 DEF TrimBehind
<1>3. TrimBehind(queue, i + 1) => TrimBehind(rest, i)
  <2> SUFFICES ASSUME NEW j \in 1 .. n, j > i + 1, queue[j] = TRIM_LOG_FILE
               PROVE  TrimBehind(rest, i)
    BY DEF TrimBehind
  <2>1. j - 1 \in 1 .. n - 1 /\ j - 1 > i /\ rest[j - 1] = TRIM_LOG_FILE
    BY <1>1
  <2> QED BY <1>1, <2>1 DEF TrimBehind
<1>4. \A k \in 1 .. n - 1 : Ks(rest, i, k) <=> Ks(queue, i + 1, k + 1)
  <2> SUFFICES ASSUME NEW k \in 1 .. n - 1
               PROVE  Ks(rest, i, k) <=> Ks(queue, i + 1, k + 1)
    OBVIOUS
  <2>1. rest[k] = queue[k + 1]
    BY <1>1
  <2>2. ASSUME Ks(rest, i, k), NEW j \in 1 .. k + 1, j > i + 1
        PROVE  queue[j] # TRIM_LOG_FILE
    <3>1. j - 1 \in 1 .. k /\ j - 1 > i /\ rest[j - 1] = queue[j]
      BY <1>1, <2>2
    <3> QED BY <2>2, <3>1
  <2>3. ASSUME Ks(queue, i + 1, k + 1), NEW j \in 1 .. k, j > i
        PROVE  rest[j] # TRIM_LOG_FILE
    <3>1. j + 1 \in 1 .. k + 1 /\ j + 1 > i + 1 /\ rest[j] = queue[j + 1]
      BY <1>1, <2>3
    <3> QED BY <2>3, <3>1
  <2> QED BY <2>1, <2>2, <2>3
<1>5. /\ Batch(rest, i) = {rest[k].line : k \in {k \in 1 .. n - 1 : Ks(rest, i, k)}}
      /\ Batch(queue, i + 1) = {queue[k].line : k \in {k \in 1 .. n : Ks(queue, i + 1, k)}}
  BY <1>1 DEF Batch
<1>6. \A k \in 1 .. n : Ks(queue, i + 1, k) => k - 1 \in 1 .. n - 1
  BY <1>1
<1> HIDE DEF Ks
<1>7. Batch(rest, i) \subseteq Batch(queue, i + 1)
  <2> SUFFICES ASSUME NEW k \in 1 .. n - 1, Ks(rest, i, k)
               PROVE  rest[k].line \in Batch(queue, i + 1)
    BY <1>5
  <2>1. k + 1 \in 1 .. n /\ Ks(queue, i + 1, k + 1) /\ queue[k + 1] = rest[k]
    BY <1>1, <1>4
  <2> QED BY <1>5, <2>1
<1>8. Batch(queue, i + 1) \subseteq Batch(rest, i)
  <2> SUFFICES ASSUME NEW k \in 1 .. n, Ks(queue, i + 1, k)
               PROVE  queue[k].line \in Batch(rest, i)
    BY <1>5
  <2>1. k - 1 \in 1 .. n - 1 /\ k = (k - 1) + 1
    BY <1>6
  <2>2. Ks(rest, i, k - 1) /\ rest[k - 1] = queue[k]
    BY <1>1, <1>4, <2>1
  <2> QED BY <1>5, <2>1, <2>2
<1> QED BY <1>2, <1>3, <1>7, <1>8 DEF rest

(* What the first message has to do with the first batch. *)
LEMMA BatchHead ==
  ASSUME NEW M, NEW queue \in Seq(M), queue # <<>>, Head(queue) # TRIM_LOG_FILE
  PROVE  /\ TrimBehind(queue, 0) <=> TrimBehind(queue, 1)
         /\ Batch(queue, 0) = IF Head(queue).what = "LOG_MESSAGE"
                              THEN Batch(queue, 1) \cup {Head(queue).line}
                              ELSE Batch(queue, 1)
<1> DEFINE n == Len(queue)
           Ks(from, k) == k > from /\ queue[k].what = "LOG_MESSAGE"
                            /\ \A j \in 1 .. k : j > from => queue[j] # TRIM_LOG_FILE
<1>1. n \in Nat /\ n >= 1 /\ Head(queue) = queue[1]
  OBVIOUS
<1>2. TrimBehind(queue, 0) <=> TrimBehind(queue, 1)
  BY <1>1 DEF TrimBehind
<1>3. \A k \in 1 .. n : k > 1 => (Ks(0, k) <=> Ks(1, k))
  BY <1>1
<1>4. Ks(0, 1) <=> Head(queue).what = "LOG_MESSAGE"
  BY <1>1
<1>5. /\ Batch(queue, 0) = {queue[k].line : k \in {k \in 1 .. n : Ks(0, k)}}
      /\ Batch(queue, 1) = {queue[k].line : k \in {k \in 1 .. n : Ks(1, k)}}
  BY DEF Batch
<1>6. \A k \in 1 .. n : Ks(1, k) => k > 1
  OBVIOUS
<1> HIDE DEF Ks
<1>7. \A k \in 1 .. n : Ks(0, k) <=> Ks(1, k) \/ (k = 1 /\ Head(queue).what = "LOG_MESSAGE")
  <2> TAKE k \in 1 .. n
  <2>1. CASE k = 1
    <3>1. ~Ks(1, k)
      BY <2>1, <1>6
    <3> QED BY <1>4, <2>1, <3>1
  <2>2. CASE k # 1
    BY <1>3, <2>2
  <2> QED BY <2>1, <2>2
<1>8. CASE Head(queue).what = "LOG_MESSAGE"
  BY <1>1, <1>2, <1>5, <1>7, <1>8
<1>9. CASE Head(queue).what # "LOG_MESSAGE"
  BY <1>1, <1>2, <1>5, <1>7, <1>9
<1> QED BY <1>8, <1>9

LEMMA BatchLines ==
  ASSUME NEW n \in Nat, NEW queue \in Seq(Messages(n)), NEW i
  PROVE  /\ Batch(queue, i) \subseteq 1 .. n
         /\ IsFiniteSet(Batch(queue, i)) /\ Cardinality(Batch(queue, i)) \in Nat
<1>1. Batch(queue, i) \subseteq 1 .. n
  <2> SUFFICES ASSUME NEW k \in 1 .. Len(queue), queue[k].what = "LOG_MESSAGE"
               PROVE  queue[k].line \in 1 .. n
    BY DEF Batch
  <2>1. queue[k] \in Messages(n)
    OBVIOUS
  <2> QED BY <2>1, MessageShape
<1>2. IsFiniteSet(1 .. n)
  BY FS_Interval
<1> QED BY <1>1, <1>2, FS_Subset, FS_CardinalityType

(* What a batch may have once a message is sent. *)
LEMMA WithinSent ==
  ASSUME NEW n \in Nat, NEW queue \in Seq(Messages(n)), NEW m \in Messages(n),
         NEW i \in 0 .. Len(queue), NEW ended \in Int, NEW growing \in Int,
         Within(queue, i, ended, growing)
  PROVE  /\ m.what = "LOG_MESSAGE" => Within(Append(queue, m), i, ended, growing + 1)
         /\ m = TRIM_LOG_FILE =>
              (growing <= ended => \A other \in Int : Within(Append(queue, m), i, ended, other))
         /\ m \in {LOG_INIT, FLUSH_TO_DISK} => Within(Append(queue, m), i, ended, growing)
<1> DEFINE B == Batch(queue, i)
           longer == Append(queue, m)
<1>1. /\ TrimBehind(longer, i) <=> TrimBehind(queue, i) \/ m = TRIM_LOG_FILE
      /\ Batch(longer, i) = IF TrimBehind(queue, i) \/ m.what # "LOG_MESSAGE"
                            THEN B ELSE B \cup {m.line}
  BY BatchAppend
<1>2. IsFiniteSet(B) /\ Cardinality(B) \in Nat
  BY BatchLines
<1>3. Cardinality(B \cup {m.line}) \in Nat /\ Cardinality(B \cup {m.line}) <= Cardinality(B) + 1
  <2> HIDE DEF B
  <2>1. Cardinality(B \cup {m.line}) = IF m.line \in B THEN Cardinality(B) ELSE Cardinality(B) + 1
    BY <1>2, FS_AddElement
  <2> QED BY <1>2, <2>1
<1>4. Cardinality(B) <= IF TrimBehind(queue, i) THEN ended ELSE growing
  BY DEF Within
<1> HIDE DEF B, longer
<1>5. CASE m.what = "LOG_MESSAGE"
  <2>1. m # TRIM_LOG_FILE /\ m \notin {LOG_INIT, FLUSH_TO_DISK}
    BY <1>5 DEF TRIM_LOG_FILE, LOG_INIT, FLUSH_TO_DISK
  <2>2. Within(longer, i, ended, growing + 1)
    BY <1>1, <1>2, <1>3, <1>4, <1>5, <2>1 DEF Within
  <2> QED BY <2>1, <2>2 DEF longer
<1>6. CASE m.what # "LOG_MESSAGE"
  <2>1. Batch(longer, i) = B
    BY <1>1, <1>6
  <2>2. ASSUME m = TRIM_LOG_FILE, growing <= ended, NEW other \in Int
        PROVE  Within(longer, i, ended, other)
    <3>1. Cardinality(B) <= ended
      BY <1>2, <1>4, <2>2
    <3> QED BY <1>1, <2>1, <2>2, <3>1 DEF Within
  <2>3. ASSUME m \in {LOG_INIT, FLUSH_TO_DISK}
        PROVE  Within(longer, i, ended, growing)
    <3>1. m # TRIM_LOG_FILE
      BY <2>3 DEF TRIM_LOG_FILE, LOG_INIT, FLUSH_TO_DISK
    <3> QED BY <1>1, <1>4, <2>1, <3>1 DEF Within
  <2> QED BY <1>6, <2>2, <2>3 DEF longer
<1> QED BY <1>5, <1>6

LEMMA WithinLast ==
  ASSUME NEW M, NEW queue \in Seq(M), NEW ended \in Nat, NEW growing \in Nat
  PROVE  Within(queue, Len(queue), ended, growing)
<1>1. Cardinality({}) = 0
  BY FS_EmptySet
<1>2. Batch(queue, Len(queue)) = {} /\ ~TrimBehind(queue, Len(queue))
  BY BatchLast
<1> QED BY <1>1, <1>2 DEF Within

LEMMA WithinMore ==
  ASSUME NEW n \in Nat, NEW queue \in Seq(Messages(n)), NEW i,
         NEW ended \in Int, NEW growing \in Int, Within(queue, i, ended, growing),
         NEW more \in Int, NEW bigger \in Int, ended <= more, growing <= bigger
  PROVE  Within(queue, i, more, bigger)
<1>1. Cardinality(Batch(queue, i)) \in Nat
  BY BatchLines
<1> QED BY <1>1 DEF Within

LEMMA WithinReceived ==
  ASSUME NEW M, NEW queue \in Seq(M), queue # <<>>, NEW i \in 0 .. Len(queue) - 1,
         NEW ended, NEW growing
  PROVE  Within(Tail(queue), i, ended, growing) <=> Within(queue, i + 1, ended, growing)
BY BatchTail DEF Within

LEMMA WithinOtherReceived ==
  ASSUME NEW M, NEW queue \in Seq(M), queue # <<>>, NEW ended, NEW growing,
         Head(queue) # TRIM_LOG_FILE, Head(queue).what # "LOG_MESSAGE",
         Within(queue, 0, ended, growing)
  PROVE  Within(Tail(queue), 0, ended, growing)
<1>1. Within(queue, 1, ended, growing)
  BY BatchHead DEF Within
<1>2. 0 \in 0 .. Len(queue) - 1 /\ 0 + 1 = 1
  OBVIOUS
<1> QED BY <1>1, <1>2, WithinReceived

(* A line leaves its batch, in which it is once. *)
LEMMA WithinLineReceived ==
  ASSUME NEW n \in Nat, NEW queue \in Seq(Messages(n)), queue # <<>>,
         NEW ended \in Int, NEW growing \in Int,
         Head(queue).what = "LOG_MESSAGE",
         \A k \in 2 .. Len(queue) :
           queue[k].what = "LOG_MESSAGE" => Head(queue).line < queue[k].line,
         Within(queue, 0, ended, growing)
  PROVE  Within(Tail(queue), 0, ended - 1, growing - 1)
<1> DEFINE B == Batch(queue, 1)
           line == Head(queue).line
<1>0. Head(queue) # TRIM_LOG_FILE
  BY DEF TRIM_LOG_FILE
<1>1. (TrimBehind(queue, 0) <=> TrimBehind(queue, 1)) /\ Batch(queue, 0) = B \cup {line}
  BY <1>0, BatchHead
<1>2. line \notin B
  <2>1. line \in 1 .. n
    <3>1. Head(queue) \in Messages(n)
      OBVIOUS
    <3> QED BY <3>1, MessageShape
  <2>2. \A k \in 1 .. Len(queue) : k > 1 /\ queue[k].what = "LOG_MESSAGE" => queue[k].line # line
    BY <2>1
  <2> QED BY <2>2 DEF Batch
<1>3. IsFiniteSet(B) /\ Cardinality(B) \in Nat
  BY BatchLines
<1> HIDE DEF B, line
<1>4. Cardinality(B \cup {line}) = Cardinality(B) + 1
  BY <1>2, <1>3, FS_AddElement
<1>5. Within(queue, 1, ended - 1, growing - 1)
  <2>1. Cardinality(B) + 1 <= IF TrimBehind(queue, 1) THEN ended ELSE growing
    BY <1>1, <1>4 DEF Within
  <2>2. Cardinality(B) <= IF TrimBehind(queue, 1) THEN ended - 1 ELSE growing - 1
    BY <1>3, <2>1
  <2> QED BY <2>2 DEF Within, B
<1>6. 0 \in 0 .. Len(queue) - 1 /\ 0 + 1 = 1
  OBVIOUS
<1> QED BY <1>5, <1>6, WithinReceived

(* The lines of a file with an item more. *)
LinesOf(items) == {i \in DOMAIN items : IsLine(items[i])}

LEMMA LinesAppended ==
  ASSUME NEW S, NEW items \in Seq(S), NEW item \in S
  PROVE  /\ Cardinality(LinesOf(items)) \in Nat
         /\ Cardinality(LinesOf(Append(items, item))) =
              IF IsLine(item) THEN Cardinality(LinesOf(items)) + 1
                              ELSE Cardinality(LinesOf(items))
<1> DEFINE longer == Append(items, item)
           n == Len(items)
<1>1. /\ n \in Nat /\ DOMAIN items = 1 .. n /\ DOMAIN longer = 1 .. n + 1
      /\ longer[n + 1] = item /\ \A i \in 1 .. n : longer[i] = items[i]
  BY AppendProperties
<1>2. IsFiniteSet(LinesOf(items)) /\ Cardinality(LinesOf(items)) \in Nat
  <2>1. LinesOf(items) \subseteq 1 .. n /\ IsFiniteSet(1 .. n)
    BY <1>1, FS_Interval DEF LinesOf
  <2> QED BY <2>1, FS_Subset, FS_CardinalityType
<1> HIDE DEF longer
<1>3. n + 1 \notin LinesOf(items)
  BY <1>1 DEF LinesOf
<1>4. LinesOf(longer) = IF IsLine(item) THEN LinesOf(items) \cup {n + 1} ELSE LinesOf(items)
  <2>1. \A i \in 1 .. n + 1 : i \in LinesOf(longer) <=> i \in LinesOf(items) \/ (i = n + 1 /\ IsLine(item))
    BY <1>1 DEF LinesOf
  <2>2. LinesOf(longer) \subseteq 1 .. n + 1 /\ LinesOf(items) \subseteq 1 .. n + 1 /\ n + 1 \in 1 .. n + 1
    BY <1>1 DEF LinesOf
  <2> QED BY <2>1, <2>2
<1>5. Cardinality(LinesOf(items) \cup {n + 1}) = Cardinality(LinesOf(items)) + 1
  BY <1>2, <1>3, FS_AddElement
<1> QED BY <1>2, <1>4, <1>5 DEF longer

LEMMA NoLines == Cardinality(LinesOf(<<>>)) = 0
<1>1. LinesOf(<<>>) = {}
  BY DEF LinesOf
<1> QED BY <1>1, FS_EmptySet

(* A line sent, alone or with the trim it calls for. *)
LEMMA WithinLineSent ==
  ASSUME NEW n \in Nat, NEW queue \in Seq(Messages(n)), NEW line, LOG_MESSAGE(line) \in Messages(n),
         NEW i \in 0 .. Len(queue), NEW ended \in Int, NEW growing \in Int,
         Within(queue, i, ended, growing)
  PROVE  /\ Within(Append(queue, LOG_MESSAGE(line)), i, ended, growing + 1)
         /\ growing + 1 <= ended => \A other \in Int :
              Within(Append(Append(queue, LOG_MESSAGE(line)), TRIM_LOG_FILE), i, ended, other)
<1> DEFINE m == LOG_MESSAGE(line)
           longer == Append(queue, m)
<1>1. m.what = "LOG_MESSAGE"
  BY DEF LOG_MESSAGE
<1>2. longer \in Seq(Messages(n)) /\ i \in 0 .. Len(longer) /\ TRIM_LOG_FILE \in Messages(n)
  <2>1. m \in Messages(n) /\ TRIM_LOG_FILE \in Messages(n)
    BY DEF Messages
  <2> HIDE DEF m
  <2>2. longer \in Seq(Messages(n)) /\ Len(longer) = Len(queue) + 1
    BY <2>1, AppendProperties
  <2> QED BY <2>1, <2>2
<1> HIDE DEF m
<1>3. Within(longer, i, ended, growing + 1)
  BY <1>1, WithinSent DEF m
<1> HIDE DEF longer
<1>4. growing + 1 <= ended => \A other \in Int : Within(Append(longer, TRIM_LOG_FILE), i, ended, other)
  BY <1>2, <1>3, WithinSent
<1> QED BY <1>3, <1>4 DEF m, longer

LEMMA MarkersLineSent ==
  ASSUME NEW n \in Nat, NEW queue \in Seq(Messages(n)), NEW m \in Messages(n),
         m.what = "LOG_MESSAGE", NEW size \in Nat, MarkersFit(queue, size)
  PROVE  MarkersFit(Append(queue, m), size + 1)
<1> DEFINE longer == Append(queue, m)
<1> SUFFICES ASSUME NEW i \in 1 .. Len(longer)
             PROVE  /\ longer[i] = TRIM_LOG_FILE =>
                         Within(longer, i, Half + 1, size + 1 - MAXLOGENTRIES)
                    /\ longer[i] = LOG_INIT =>
                         Within(longer, i, MAXLOGENTRIES + Half + 1, size + 1)
  BY HalfFacts DEF MarkersFit
<1>1. /\ Len(longer) = Len(queue) + 1 /\ longer[Len(queue) + 1] = m
      /\ \A k \in 1 .. Len(queue) : longer[k] = queue[k]
  BY AppendProperties
<1>2. m # TRIM_LOG_FILE /\ m # LOG_INIT
  BY DEF TRIM_LOG_FILE, LOG_INIT
<1>3. i \in 1 .. Len(queue) \/ longer[i] = m
  BY <1>1
<1>4. CASE i \in 1 .. Len(queue)
  <2>1. longer[i] = queue[i] /\ i \in 0 .. Len(queue)
    BY <1>1, <1>4
  <2>2. Half + 1 \in Int /\ size - MAXLOGENTRIES \in Int /\ MAXLOGENTRIES + Half + 1 \in Int
        /\ (size - MAXLOGENTRIES) + 1 = size + 1 - MAXLOGENTRIES
    BY HalfFacts
  <2>3. /\ queue[i] = TRIM_LOG_FILE => Within(queue, i, Half + 1, size - MAXLOGENTRIES)
        /\ queue[i] = LOG_INIT => Within(queue, i, MAXLOGENTRIES + Half + 1, size)
    BY <1>4 DEF MarkersFit
  <2>4. queue[i] = TRIM_LOG_FILE => Within(longer, i, Half + 1, (size - MAXLOGENTRIES) + 1)
    BY <2>1, <2>2, <2>3, WithinSent
  <2>5. queue[i] = LOG_INIT => Within(longer, i, MAXLOGENTRIES + Half + 1, size + 1)
    BY <2>1, <2>2, <2>3, WithinSent
  <2> QED BY <2>1, <2>2, <2>4, <2>5
<1> QED BY <1>2, <1>3, <1>4

LEMMA MarkersTrimSent ==
  ASSUME NEW n \in Nat, NEW queue \in Seq(Messages(n)),
         NEW size \in Nat, size <= MAXLOGENTRIES + Half + 1, MarkersFit(queue, size)
  PROVE  MarkersFit(Append(queue, TRIM_LOG_FILE), MAXLOGENTRIES)
<1> DEFINE longer == Append(queue, TRIM_LOG_FILE)
<1> SUFFICES ASSUME NEW i \in 1 .. Len(longer)
             PROVE  /\ longer[i] = TRIM_LOG_FILE =>
                         Within(longer, i, Half + 1, MAXLOGENTRIES - MAXLOGENTRIES)
                    /\ longer[i] = LOG_INIT =>
                         Within(longer, i, MAXLOGENTRIES + Half + 1, MAXLOGENTRIES)
  BY DEF MarkersFit
<1>0. TRIM_LOG_FILE \in Messages(n) /\ TRIM_LOG_FILE # LOG_INIT
  BY DEF Messages, TRIM_LOG_FILE, LOG_INIT
<1>1. /\ longer \in Seq(Messages(n))
      /\ Len(longer) = Len(queue) + 1
      /\ \A k \in 1 .. Len(queue) : longer[k] = queue[k]
      /\ longer[Len(longer)] = TRIM_LOG_FILE
  BY <1>0, AppendProperties
<1>2. /\ Half + 1 \in Nat /\ size - MAXLOGENTRIES \in Int /\ MAXLOGENTRIES + Half + 1 \in Int
      /\ MAXLOGENTRIES \in Int /\ MAXLOGENTRIES - MAXLOGENTRIES = 0
      /\ size - MAXLOGENTRIES <= Half + 1
  BY HalfFacts
<1>3. CASE i \in 1 .. Len(queue)
  <2>1. longer[i] = queue[i] /\ i \in 0 .. Len(queue)
    BY <1>1, <1>3
  <2>2. /\ queue[i] = TRIM_LOG_FILE => Within(queue, i, Half + 1, size - MAXLOGENTRIES)
        /\ queue[i] = LOG_INIT => Within(queue, i, MAXLOGENTRIES + Half + 1, size)
    BY <1>3 DEF MarkersFit
  <2>3. queue[i] = TRIM_LOG_FILE => Within(longer, i, Half + 1, 0)
    BY <1>0, <1>2, <2>1, <2>2, WithinSent
  <2>4. queue[i] = LOG_INIT => Within(longer, i, MAXLOGENTRIES + Half + 1, MAXLOGENTRIES)
    BY <1>0, <1>2, <2>1, <2>2, WithinSent
  <2> QED BY <1>2, <2>1, <2>3, <2>4
<1>4. CASE i = Len(longer)
  <2> HIDE DEF longer
  <2>1. Within(longer, i, Half + 1, 0)
    BY <1>1, <1>2, <1>4, WithinLast
  <2> QED BY <1>0, <1>1, <1>2, <1>4, <2>1
<1> QED BY <1>1, <1>3, <1>4

LEMMA MarkersOtherSent ==
  ASSUME NEW n \in Nat, NEW queue \in Seq(Messages(n)), NEW m \in {LOG_INIT, FLUSH_TO_DISK},
         NEW size \in Nat, MarkersFit(queue, size)
  PROVE  MarkersFit(Append(queue, m), size)
<1> DEFINE longer == Append(queue, m)
<1> SUFFICES ASSUME NEW i \in 1 .. Len(longer)
             PROVE  /\ longer[i] = TRIM_LOG_FILE =>
                         Within(longer, i, Half + 1, size - MAXLOGENTRIES)
                    /\ longer[i] = LOG_INIT =>
                         Within(longer, i, MAXLOGENTRIES + Half + 1, size)
  BY DEF MarkersFit
<1>0. m \in Messages(n) /\ m # TRIM_LOG_FILE
  BY DEF Messages, TRIM_LOG_FILE, LOG_INIT, FLUSH_TO_DISK
<1>1. /\ longer \in Seq(Messages(n))
      /\ Len(longer) = Len(queue) + 1
      /\ \A k \in 1 .. Len(queue) : longer[k] = queue[k]
      /\ longer[Len(longer)] = m
  BY <1>0, AppendProperties
<1>2. /\ Half + 1 \in Nat /\ size - MAXLOGENTRIES \in Int /\ MAXLOGENTRIES + Half + 1 \in Nat
  BY HalfFacts
<1>3. CASE i \in 1 .. Len(queue)
  <2>1. longer[i] = queue[i] /\ i \in 0 .. Len(queue)
    BY <1>1, <1>3
  <2>2. /\ queue[i] = TRIM_LOG_FILE => Within(queue, i, Half + 1, size - MAXLOGENTRIES)
        /\ queue[i] = LOG_INIT => Within(queue, i, MAXLOGENTRIES + Half + 1, size)
    BY <1>3 DEF MarkersFit
  <2>3. queue[i] = TRIM_LOG_FILE => Within(longer, i, Half + 1, size - MAXLOGENTRIES)
    BY <1>0, <1>2, <2>1, <2>2, WithinSent
  <2>4. queue[i] = LOG_INIT => Within(longer, i, MAXLOGENTRIES + Half + 1, size)
    BY <1>0, <1>2, <2>1, <2>2, WithinSent
  <2> QED BY <2>1, <2>3, <2>4
<1>4. CASE i = Len(longer)
  <2> HIDE DEF longer
  <2>1. Within(longer, i, MAXLOGENTRIES + Half + 1, size)
    BY <1>1, <1>2, <1>4, WithinLast
  <2> QED BY <1>0, <1>1, <1>4, <2>1
<1> QED BY <1>1, <1>3, <1>4

LEMMA MarkersReceived ==
  ASSUME NEW M, NEW queue \in Seq(M), queue # <<>>, NEW size, MarkersFit(queue, size)
  PROVE  /\ MarkersFit(Tail(queue), size)
         /\ Head(queue) = TRIM_LOG_FILE =>
              Within(Tail(queue), 0, Half + 1, size - MAXLOGENTRIES)
         /\ Head(queue) = LOG_INIT => Within(Tail(queue), 0, MAXLOGENTRIES + Half + 1, size)
<1> DEFINE rest == Tail(queue)
<1>1. /\ Len(queue) \in Nat /\ Len(queue) >= 1 /\ Len(rest) = Len(queue) - 1
      /\ Head(queue) = queue[1] /\ \A k \in 1 .. Len(queue) - 1 : rest[k] = queue[k + 1]
  OBVIOUS
<1>2. \A i \in 0 .. Len(queue) - 1 : \A ended, growing :
        Within(rest, i, ended, growing) <=> Within(queue, i + 1, ended, growing)
  BY WithinReceived
<1> HIDE DEF rest
<1>3. \A k \in 1 .. Len(queue) :
        /\ queue[k] = TRIM_LOG_FILE => Within(queue, k, Half + 1, size - MAXLOGENTRIES)
        /\ queue[k] = LOG_INIT => Within(queue, k, MAXLOGENTRIES + Half + 1, size)
  BY DEF MarkersFit
<1>4. MarkersFit(rest, size)
  <2> SUFFICES ASSUME NEW i \in 1 .. Len(rest)
               PROVE  /\ rest[i] = TRIM_LOG_FILE =>
                           Within(rest, i, Half + 1, size - MAXLOGENTRIES)
                      /\ rest[i] = LOG_INIT => Within(rest, i, MAXLOGENTRIES + Half + 1, size)
    BY DEF MarkersFit
  <2>1. i \in 0 .. Len(queue) - 1 /\ i + 1 \in 1 .. Len(queue) /\ rest[i] = queue[i + 1]
    BY <1>1
  <2> QED BY <1>2, <1>3, <2>1
<1>5. 0 \in 0 .. Len(queue) - 1 /\ 0 + 1 = 1 /\ 1 \in 1 .. Len(queue)
  BY <1>1
<1>6. \A ended, growing : Within(rest, 0, ended, growing) <=> Within(queue, 1, ended, growing)
  BY <1>2, <1>5
<1> QED BY <1>1, <1>3, <1>4, <1>5, <1>6 DEF rest

LEMMA SentAreAppended ==
  ASSUME NEW M, NEW queue \in Seq(M), NEW a \in M, NEW b \in M
  PROVE  /\ queue \o (<<a>> \o <<b>>) = Append(Append(queue, a), b)
         /\ queue \o (<<a>> \o <<>>) = Append(queue, a)
         /\ queue \o <<a>> = Append(queue, a) /\ queue \o <<>> = queue
<1>1. queue \o <<a>> = Append(queue, a) /\ Append(queue, a) \in Seq(M)
  BY AppendIsConcat, AppendProperties
<1>2. Append(queue, a) \o <<b>> = Append(Append(queue, a), b)
  BY <1>1, AppendIsConcat
<1>3. <<a>> \in Seq(M) /\ <<b>> \in Seq(M) /\ <<>> \in Seq(M)
  OBVIOUS
<1>4. (queue \o <<a>>) \o <<b>> = queue \o (<<a>> \o <<b>>)
  BY <1>3, ConcatAssociative
<1>5. <<a>> \o <<>> = <<a>> /\ queue \o <<>> = queue
  BY <1>3, ConcatEmptySeq
<1> QED BY <1>1, <1>2, <1>4, <1>5

(* What newLogItem does to the buffer and the queue. *)
LEMMA NewLine ==
  ASSUME Typed, newLogItem, NEW n \in Nat, n = lines
  PROVE  /\ lines' = n + 1 /\ LOG_MESSAGE(n + 1) \in Messages(n + 1)
         /\ messages \in Seq(Messages(n + 1))
         /\ logbuffer \in Seq(Corrupted .. n) /\ Append(logbuffer, n + 1) \in Seq(Corrupted .. n + 1)
         /\ UNCHANGED <<mLogFileHandler, threadVars, file, restoredTo>>
         /\ mLogFileHandler = "null" => messages' = messages
         /\ TooLong(Append(logbuffer, n + 1)) =>
              /\ Len(logbuffer') = MAXLOGENTRIES
              /\ mLogFileHandler # "null" =>
                   messages' = Append(Append(messages, LOG_MESSAGE(n + 1)), TRIM_LOG_FILE)
         /\ ~TooLong(Append(logbuffer, n + 1)) =>
              /\ logbuffer' = Append(logbuffer, n + 1)
              /\ mLogFileHandler # "null" =>
                   messages' = Append(messages, LOG_MESSAGE(n + 1))
<1> DEFINE buffer == Append(logbuffer, n + 1)
           m == LOG_MESSAGE(n + 1)
<1>1. /\ lines' = n + 1 /\ 1 .. n \subseteq 1 .. n + 1 /\ n + 1 \in 1 .. n + 1
      /\ Corrupted .. n \subseteq Corrupted .. n + 1 /\ n + 1 \in Corrupted .. n + 1
  BY DEF newLogItem, Corrupted
<1>2. Messages(n) \subseteq Messages(n + 1) /\ m \in Messages(n + 1)
      /\ TRIM_LOG_FILE \in Messages(n + 1)
  BY <1>1 DEF Messages
<1>3. logbuffer \in Seq(Corrupted .. n) /\ logbuffer \in Seq(Corrupted .. n + 1)
      /\ messages \in Seq(Messages(n + 1))
  BY <1>1, <1>2, Weaker DEF Typed
<1>4. buffer \in Seq(Corrupted .. n + 1)
  <2> DEFINE M == Corrupted .. n + 1
  <2>1. logbuffer \in Seq(M) /\ n + 1 \in M
    BY <1>1, <1>3
  <2> HIDE DEF M
  <2>2. Append(logbuffer, n + 1) \in Seq(M)
    BY <2>1, AppendProperties
  <2> QED BY <2>2 DEF M
<1>5. logbuffer' = Trimmed(buffer) /\ Send(<<m>> \o TrimMessage(buffer))
      /\ UNCHANGED <<mLogFileHandler, threadVars, file, restoredTo>>
  BY DEF newLogItem
<1> HIDE DEF buffer, m
<1>6. /\ TooLong(buffer) => Len(Trimmed(buffer)) = MAXLOGENTRIES
      /\ ~TooLong(buffer) => Trimmed(buffer) = buffer
      /\ TrimMessage(buffer) = IF TooLong(buffer) THEN <<TRIM_LOG_FILE>> ELSE <<>>
  BY <1>4, TrimmedLength
<1>7. /\ messages \o (<<m>> \o <<TRIM_LOG_FILE>>) = Append(Append(messages, m), TRIM_LOG_FILE)
      /\ messages \o (<<m>> \o <<>>) = Append(messages, m)
  BY <1>2, <1>3, SentAreAppended
<1>8. mLogFileHandler # "null" => messages' = messages \o (<<m>> \o TrimMessage(buffer))
  BY <1>5 DEF Send
<1>9. mLogFileHandler = "null" => messages' = messages
  BY <1>5 DEF Send
<1>10. CASE TooLong(buffer)
  BY <1>1, <1>2, <1>3, <1>4, <1>5, <1>6, <1>7, <1>8, <1>9, <1>10 DEF buffer, m
<1>11. CASE ~TooLong(buffer)
  BY <1>1, <1>2, <1>3, <1>4, <1>5, <1>6, <1>7, <1>8, <1>9, <1>11 DEF buffer, m
<1> QED BY <1>10, <1>11

(* What restoreLogItem does to them. *)
LEMMA RestoredLine ==
  ASSUME Typed, Opening, NEW line, Restoring(line)
  PROVE  /\ line \in Corrupted .. lines /\ line \in Range(unread) \cup {Corrupted}
         /\ <<line>> \o logbuffer \in Seq(Corrupted .. lines)
         /\ Len(<<line>> \o logbuffer) = Len(logbuffer) + 1
         /\ TooLong(<<line>> \o logbuffer) =>
              Len(logbuffer') = MAXLOGENTRIES /\ messages' = Append(messages, TRIM_LOG_FILE)
         /\ ~TooLong(<<line>> \o logbuffer) =>
              logbuffer' = <<line>> \o logbuffer /\ messages' = messages
         /\ logbuffer' = Trimmed(<<line>> \o logbuffer)
<1> DEFINE buffer == <<line>> \o logbuffer
<1>1. line \in Corrupted .. lines /\ line \in Range(unread) \cup {Corrupted}
  BY RestoredTyped
<1>2. logbuffer \in Seq(Corrupted .. lines) /\ messages \in Seq(Messages(lines))
      /\ TRIM_LOG_FILE \in Messages(lines)
  BY DEF Typed, Messages
<1>3. buffer \in Seq(Corrupted .. lines) /\ Len(buffer) = Len(logbuffer) + 1
  <2> DEFINE M == Corrupted .. lines
             one == <<line>>
  <2>1. logbuffer \in Seq(M) /\ one \in Seq(M) /\ Len(one) = 1
    BY <1>1, <1>2
  <2> HIDE DEF M, one
  <2>2. one \o logbuffer \in Seq(M) /\ Len(one \o logbuffer) = 1 + Len(logbuffer)
    BY <2>1, ConcatProperties
  <2>3. Len(logbuffer) \in Nat
    BY <1>2
  <2> QED BY <2>2, <2>3 DEF M, one
<1>4. logbuffer' = Trimmed(buffer) /\ Send(TrimMessage(buffer)) /\ mLogFileHandler # "null"
  BY RestoringFacts DEF Restore, Opening
<1> HIDE DEF buffer
<1>5. /\ TooLong(buffer) => Len(Trimmed(buffer)) = MAXLOGENTRIES
      /\ ~TooLong(buffer) => Trimmed(buffer) = buffer
      /\ TrimMessage(buffer) = IF TooLong(buffer) THEN <<TRIM_LOG_FILE>> ELSE <<>>
  BY <1>3, TrimmedLength
<1>6. messages \o <<TRIM_LOG_FILE>> = Append(messages, TRIM_LOG_FILE) /\ messages \o <<>> = messages
  BY <1>2, SentAreAppended
<1>7. messages' = messages \o TrimMessage(buffer)
  BY <1>4 DEF Send
<1> QED BY <1>1, <1>3, <1>4, <1>5, <1>6, <1>7 DEF buffer

LEMMA Flushed ==
  ASSUME Typed, flushLog \/ SendInit
  PROVE  \E m \in {LOG_INIT, FLUSH_TO_DISK} :
           /\ messages' = Append(messages, m) /\ m \in Messages(lines)
           /\ messages \in Seq(Messages(lines))
           /\ UNCHANGED <<logbuffer, threadVars, file, lines, restoredTo>>
           /\ mLogFileHandler' # "null"
           /\ m = LOG_INIT => mLogFileHandler = "set"
<1>1. messages \in Seq(Messages(lines)) /\ {LOG_INIT, FLUSH_TO_DISK} \subseteq Messages(lines)
  BY DEF Typed, Messages
<1>2. \A m \in {LOG_INIT, FLUSH_TO_DISK} : messages \o <<m>> = Append(messages, m)
  BY <1>1, SentAreAppended
<1>3. CASE flushLog
  <2>1. /\ messages' = messages \o <<FLUSH_TO_DISK>>
        /\ UNCHANGED <<logbuffer, threadVars, file, lines, restoredTo>>
        /\ mLogFileHandler' # "null"
    BY <1>3 DEF flushLog, Send
  <2>2. FLUSH_TO_DISK # LOG_INIT
    BY DEF FLUSH_TO_DISK, LOG_INIT
  <2> QED BY <1>1, <1>2, <2>1, <2>2
<1>4. CASE SendInit
  <2>1. /\ messages' = messages \o <<LOG_INIT>>
        /\ UNCHANGED <<logbuffer, threadVars, file, lines, restoredTo>>
        /\ mLogFileHandler' # "null" /\ mLogFileHandler = "set"
    BY <1>4 DEF SendInit, Send, historyVars
  <2> QED BY <1>1, <1>2, <2>1
<1> QED BY <1>3, <1>4

(* The order of the lines sent when a message is sent or received. *)
LEMMA AscendingAppend ==
  ASSUME NEW M, NEW queue \in Seq(M), NEW m \in M, NEW from, Ascending(queue, from),
         m.what = "LOG_MESSAGE" =>
           /\ m.line > from
           /\ \A i \in 1 .. Len(queue) : queue[i].what = "LOG_MESSAGE" => queue[i].line < m.line
  PROVE  Ascending(Append(queue, m), from)
<1> DEFINE longer == Append(queue, m)
<1>1. /\ Len(queue) \in Nat /\ Len(longer) = Len(queue) + 1 /\ longer[Len(queue) + 1] = m
      /\ \A k \in 1 .. Len(queue) : longer[k] = queue[k]
  OBVIOUS
<1> HIDE DEF longer
<1> SUFFICES Ascending(longer, from)
  BY DEF longer
<1>2. \A i \in 1 .. Len(longer) : i \in 1 .. Len(queue) \/ i = Len(queue) + 1
  BY <1>1
<1> QED BY <1>1, <1>2 DEF Ascending

LEMMA AscendingTail ==
  ASSUME NEW M, NEW queue \in Seq(M), queue # <<>>, NEW from, Ascending(queue, from)
  PROVE  /\ Ascending(Tail(queue), from)
         /\ Head(queue).what = "LOG_MESSAGE" =>
              /\ Head(queue).line > from
              /\ \A k \in 2 .. Len(queue) :
                   queue[k].what = "LOG_MESSAGE" => Head(queue).line < queue[k].line
<1> DEFINE rest == Tail(queue)
<1>1. /\ Len(queue) \in Nat /\ Len(queue) >= 1 /\ Len(rest) = Len(queue) - 1
      /\ Head(queue) = queue[1]
      /\ \A k \in 1 .. Len(rest) : k + 1 \in 1 .. Len(queue) /\ rest[k] = queue[k + 1]
  OBVIOUS
<1> HIDE DEF rest
<1>2. Ascending(rest, from)
  BY <1>1 DEF Ascending
<1> QED BY <1>1, <1>2 DEF Ascending, rest

(* What becomes of the queue in a step. *)
LEMMA QueueStep ==
  ASSUME Typed, Opening, [Next]_vars
  PROVE  \/ newLogItem \/ NewProcess
         \/ UNCHANGED <<messages, restoredTo>> /\ (mLogFileHandler' = "null" => mLogFileHandler = "null")
         \/ /\ UNCHANGED restoredTo /\ mLogFileHandler' # "null"
            /\ \E m \in {LOG_INIT, TRIM_LOG_FILE, FLUSH_TO_DISK} : messages' = Append(messages, m)
         \/ /\ UNCHANGED restoredTo /\ messages # <<>> /\ messages' = Tail(messages)
            /\ mLogFileHandler' = mLogFileHandler
<1>1. CASE newLogItem \/ Crash \/ NullLogFile
  BY <1>1 DEF Crash, NullLogFile
<1>2. CASE flushLog \/ SendInit
  BY <1>2, Flushed
<1>3. CASE RestoreLogItem \/ RestoreCutOffItem
  <2>0. PICK line : Restoring(line)
    BY <1>3, RestoringFacts
  <2>1. mLogFileHandler = "ready" /\ UNCHANGED <<mLogFileHandler, restoredTo>>
    BY <2>0, RestoringFacts DEF Restore, Opening, historyVars
  <2>2. messages' = messages \/ messages' = Append(messages, TRIM_LOG_FILE)
    BY <2>0, RestoredLine
  <2> QED BY <2>1, <2>2
<1>4. CASE ReadLogCache \/ WriteLogItem \/ IgnoreLogItem \/ FlushToDisk \/ TrimLogFile
  BY <1>4 DEF ReadLogCache, WriteLogItem, IgnoreLogItem, FlushToDisk, TrimLogFile, Receives,
              Waiting, historyVars
<1>5. CASE AssignHandler
  BY <1>5 DEF AssignHandler, historyVars
<1>6. CASE \/ SkipBrokenItem \/ OpenLogFile \/ OpenLogFileFails \/ CopyLogBuffer
           \/ WriteEscapedBytes \/ Written \/ WriteFails \/ UNCHANGED vars
  BY <1>6 DEF SkipBrokenItem, OpenLogFile, OpenLogFileFails, CopyLogBuffer, WriteEscapedBytes,
              Written, WriteFails, memoryVars, historyVars, vars
<1> QED
  BY <1>1, <1>2, <1>3, <1>4, <1>5, <1>6 DEF Next, VpnStatus, MainThread, HandlerThread

LEMMA SentInOrderNext == Typed /\ Opening /\ SentInOrder /\ [Next]_vars => SentInOrder'
<1> SUFFICES ASSUME Typed, Opening, SentInOrder, [Next]_vars
             PROVE  SentInOrder'
  OBVIOUS
<1>1. messages \in Seq(Messages(lines)) /\ Ascending(messages, restoredTo)
      /\ lines \in Nat /\ restoredTo \in 0 .. lines
  BY LogCacheAssumption DEF Typed, SentInOrder
<1>2. CASE newLogItem
  <2>1. PICK n \in Nat : n = lines
    BY <1>1
  <2>2. \A i \in 1 .. Len(messages) :
          messages[i].what = "LOG_MESSAGE" => messages[i].line \in 1 .. n
    <3>1. \A i \in 1 .. Len(messages) : messages[i] \in Messages(n)
      BY <1>1, <2>1
    <3> QED BY <2>1, <3>1, MessageShape
  <2>3. PICK line : line = LOG_MESSAGE(n + 1)
    OBVIOUS
  <2>12. line.what = "LOG_MESSAGE" /\ line.line = n + 1
    BY <2>3 DEF LOG_MESSAGE
  <2>4. messages \in Seq(Messages(n + 1)) /\ line \in Messages(n + 1)
        /\ UNCHANGED <<mLogFileHandler, restoredTo>>
        /\ (mLogFileHandler = "null" => messages' = messages)
    BY <1>2, <2>1, <2>3, NewLine
  <2>5. TRIM_LOG_FILE \in Messages(n + 1) /\ TRIM_LOG_FILE.what # "LOG_MESSAGE"
    BY DEF Messages, TRIM_LOG_FILE
  <2>6. Ascending(Append(messages, line), restoredTo)
    <3>1. n + 1 > restoredTo /\ \A k \in 1 .. n : k < n + 1
      BY <1>1, <2>1
    <3>2. line.what = "LOG_MESSAGE" =>
            /\ line.line > restoredTo
            /\ \A i \in 1 .. Len(messages) :
                 messages[i].what = "LOG_MESSAGE" => messages[i].line < line.line
      BY <2>2, <2>12, <3>1
    <3>3. Ascending(messages, restoredTo)
      BY <1>1
    <3> QED BY <2>4, <3>2, <3>3, AscendingAppend
  <2>7. Append(messages, line) \in Seq(Messages(n + 1))
    BY <2>4
  <2>8. Ascending(Append(Append(messages, line), TRIM_LOG_FILE), restoredTo)
    BY <2>5, <2>6, <2>7, AscendingAppend
  <2>9. mLogFileHandler # "null" =>
           messages' = Append(messages, line) \/ messages' = Append(Append(messages, line), TRIM_LOG_FILE)
    <3>1. CASE TooLong(Append(logbuffer, n + 1))
      BY <1>2, <2>1, <3>1, <2>3, NewLine
    <3>2. CASE ~TooLong(Append(logbuffer, n + 1))
      BY <1>2, <2>1, <3>2, <2>3, NewLine
    <3> QED BY <3>1, <3>2
  <2>10. Ascending(messages', restoredTo)
    BY <1>1, <2>4, <2>6, <2>8, <2>9
  <2>11. restoredTo' = restoredTo /\ (mLogFileHandler' = "null" => messages' = <<>>)
    BY <2>4 DEF SentInOrder
  <2> QED BY <2>10, <2>11 DEF SentInOrder
<1>3. CASE NewProcess
  BY <1>3 DEF NewProcess, SentInOrder, Ascending
<1>4. CASE UNCHANGED <<messages, restoredTo>> /\ (mLogFileHandler' = "null" => mLogFileHandler = "null")
  BY <1>4 DEF SentInOrder
<1>5. ASSUME UNCHANGED restoredTo, mLogFileHandler' # "null",
             NEW m \in {LOG_INIT, TRIM_LOG_FILE, FLUSH_TO_DISK}, messages' = Append(messages, m)
      PROVE  SentInOrder'
  <2>1. m \in Messages(lines) /\ m.what # "LOG_MESSAGE"
    BY DEF Messages, LOG_INIT, TRIM_LOG_FILE, FLUSH_TO_DISK
  <2>2. Ascending(Append(messages, m), restoredTo)
    BY <1>1, <2>1, AscendingAppend
  <2> QED BY <1>5, <2>2 DEF SentInOrder
<1>6. CASE UNCHANGED restoredTo /\ messages # <<>> /\ messages' = Tail(messages)
           /\ mLogFileHandler' = mLogFileHandler
  <2>1. Ascending(Tail(messages), restoredTo)
    BY <1>1, <1>6, AscendingTail
  <2> QED BY <1>6, <2>1 DEF SentInOrder
<1> QED BY <1>2, <1>3, <1>4, <1>5, <1>6, QueueStep

-----------------------------------------------------------------------------
(* The file stays within the limit of the reader *)

LEMMA TailFacts ==
  ASSUME NEW M, NEW seq \in Seq(M), seq # <<>>
  PROVE  /\ Head(seq) \in M /\ Head(seq) = seq[1] /\ Tail(seq) \in Seq(M)
         /\ Len(seq) \in Nat /\ Len(seq) >= 1 /\ Len(Tail(seq)) = Len(seq) - 1
         /\ \A i \in 1 .. Len(seq) - 1 : Tail(seq)[i] = seq[i + 1]
OBVIOUS

LEMMA MarkersMore ==
  ASSUME NEW n \in Nat, NEW queue \in Seq(Messages(n)), NEW size \in Nat, NEW bigger \in Nat,
         size <= bigger, MarkersFit(queue, size)
  PROVE  MarkersFit(queue, bigger)
<1>1. /\ Half + 1 \in Int /\ size - MAXLOGENTRIES \in Int /\ bigger - MAXLOGENTRIES \in Int
      /\ MAXLOGENTRIES + Half + 1 \in Int /\ size - MAXLOGENTRIES <= bigger - MAXLOGENTRIES
      /\ Half + 1 <= Half + 1 /\ MAXLOGENTRIES + Half + 1 <= MAXLOGENTRIES + Half + 1
      /\ size \in Int /\ bigger \in Int
  BY HalfFacts
<1> SUFFICES ASSUME NEW i \in 1 .. Len(queue)
             PROVE  /\ queue[i] = TRIM_LOG_FILE =>
                         Within(queue, i, Half + 1, bigger - MAXLOGENTRIES)
                    /\ queue[i] = LOG_INIT => Within(queue, i, MAXLOGENTRIES + Half + 1, bigger)
  BY DEF MarkersFit
<1>2. ASSUME queue[i] = TRIM_LOG_FILE PROVE Within(queue, i, Half + 1, bigger - MAXLOGENTRIES)
  <2>1. Within(queue, i, Half + 1, size - MAXLOGENTRIES)
    BY <1>2 DEF MarkersFit
  <2> QED BY <1>1, <2>1, WithinMore
<1>3. ASSUME queue[i] = LOG_INIT PROVE Within(queue, i, MAXLOGENTRIES + Half + 1, bigger)
  <2>1. Within(queue, i, MAXLOGENTRIES + Half + 1, size)
    BY <1>3 DEF MarkersFit
  <2> QED BY <1>1, <2>1, WithinMore
<1> QED BY <1>2, <1>3

LEMMA NothingSent ==
  ASSUME NEW size
  PROVE  MarkersFit(<<>>, size)
BY DEF MarkersFit

(* What is on disk, when nothing is written or a write is cut off. *)
LEMMA LoadFacts ==
  ASSUME Typed
  PROVE  /\ LinesOnDisk \in Nat /\ Len(toWrite) \in Nat /\ Load = LinesOnDisk + Len(toWrite)
         /\ file' = file => LinesOnDisk' = LinesOnDisk
         /\ file' = <<>> => LinesOnDisk' = 0
         /\ file' \in CutOffWrite => LinesOnDisk' = LinesOnDisk
<1>1. file \in Seq(NoLength .. lines) /\ NoLength \in NoLength .. lines /\ CutOff \in NoLength .. lines
      /\ toWrite \in Seq(Corrupted .. lines)
  BY LogCacheAssumption DEF Typed, NoLength, CutOff
<1>2. LinesOnDisk = Cardinality(LinesOf(file)) /\ LinesOnDisk' = Cardinality(LinesOf(file'))
  BY DEF LinesOnDisk, LinesOf
<1>3. /\ Cardinality(LinesOf(file)) \in Nat
      /\ \A item \in NoLength .. lines :
           ~IsLine(item) =>
             Cardinality(LinesOf(Append(file, item))) = Cardinality(LinesOf(file))
  BY <1>1, LinesAppended
<1>4. ~IsLine(NoLength) /\ ~IsLine(CutOff)
  BY DEF IsLine, NoLength, CutOff, Corrupted
<1>5. ASSUME file' \in CutOffWrite PROVE LinesOnDisk' = LinesOnDisk
  <2>1. file' = file \/ \E item \in {NoLength, CutOff} : file' = Append(file, item)
    BY <1>5 DEF CutOffWrite
  <2>2. \A item \in {NoLength, CutOff} :
          Cardinality(LinesOf(Append(file, item))) = Cardinality(LinesOf(file))
    BY <1>1, <1>3, <1>4
  <2>3. CASE file' = file
    BY <1>2, <2>3
  <2>4. ASSUME NEW item \in {NoLength, CutOff}, file' = Append(file, item)
        PROVE  LinesOnDisk' = LinesOnDisk
    <3>1. LinesOnDisk' = Cardinality(LinesOf(Append(file, item)))
      BY <1>2, <2>4
    <3> QED BY <1>2, <2>2, <3>1
  <2> QED BY <2>1, <2>3, <2>4
<1>6. ASSUME file' = <<>> PROVE LinesOnDisk' = 0
  BY <1>2, <1>6, NoLines
<1>7. ASSUME file' = file PROVE LinesOnDisk' = LinesOnDisk
  BY <1>2, <1>7
<1>8. Len(toWrite) \in Nat
  BY <1>1
<1> QED BY <1>2, <1>3, <1>5, <1>6, <1>7, <1>8 DEF Load

LEMMA LineWritten ==
  ASSUME Typed, WriteEscapedBytes
  PROVE  /\ LinesOnDisk' = LinesOnDisk + 1 /\ Len(toWrite') = Len(toWrite) - 1
         /\ Len(toWrite) >= 1
<1> DEFINE M == NoLength .. lines
<1>1. /\ toWrite \in Seq(Corrupted .. lines) /\ toWrite # <<>> /\ file \in Seq(M)
      /\ file' = Append(file, Head(toWrite)) /\ toWrite' = Tail(toWrite)
  BY DEF WriteEscapedBytes, Typed
<1>2. Head(toWrite) \in Corrupted .. lines /\ Len(Tail(toWrite)) = Len(toWrite) - 1 /\ Len(toWrite) >= 1
  BY <1>1, TailFacts
<1>3. Head(toWrite) \in M /\ IsLine(Head(toWrite))
  BY <1>2, LogCacheAssumption DEF Typed, NoLength, IsLine, Corrupted
<1> HIDE DEF M
<1>4. Cardinality(LinesOf(Append(file, Head(toWrite)))) = Cardinality(LinesOf(file)) + 1
  BY <1>1, <1>3, LinesAppended
<1>5. LinesOnDisk = Cardinality(LinesOf(file)) /\ LinesOnDisk' = Cardinality(LinesOf(file'))
  BY DEF LinesOnDisk, LinesOf
<1> QED BY <1>1, <1>2, <1>4, <1>5

(* The bounds are the same as long as what they are about is. *)
LEMMA SameBatches ==
  ASSUME BatchesFit,
         UNCHANGED <<logbuffer, messages, step, toWrite, mLogFile>>, LinesOnDisk' = LinesOnDisk
  PROVE  BatchesFit'
<1>1. Load' = Load
  BY DEF Load
<1>2. Half' = Half
  BY DEF Half
<1>3. \A i, ended, growing : Within(messages, i, ended, growing)' <=> Within(messages, i, ended, growing)
  BY DEF Within, TrimBehind, Batch, TRIM_LOG_FILE
<1>4. Len(logbuffer)' = Len(logbuffer)
  OBVIOUS
<1> QED BY <1>1, <1>2, <1>3, <1>4 DEF BatchesFit, MarkersFit, FrontFits

LEMMA BatchesFitInit == Init => BatchesFit /\ FileFits /\ SentInOrder
<1> SUFFICES ASSUME Init
             PROVE  BatchesFit /\ FileFits /\ SentInOrder
  OBVIOUS
<1>1. /\ logbuffer = <<>> /\ messages = <<>> /\ file = <<>> /\ step = "idle"
      /\ mLogFile = FALSE
  BY DEF Init, ProcessStarted
<1>2. LinesOnDisk = 0
  BY <1>1, NoLines DEF LinesOnDisk, LinesOf
<1>3. ~mLogFile
  BY <1>1
<1>4. 0 <= MAXLOGENTRIES + Half /\ 0 <= 2 * MAXLOGENTRIES + 1
  BY HalfFacts
<1> QED
  BY <1>1, <1>2, <1>3, <1>4, NothingSent
     DEF BatchesFit, FrontFits, FileFits, FileWithinReaderLimit, SentInOrder, Ascending

LEMMA BatchesNewLine ==
  ASSUME Typed, Opening, SentInOrder, BatchesFit, newLogItem
  PROVE  BatchesFit'
<1> DEFINE b == Len(logbuffer)
<1>1. PICK n \in Nat : n = lines
  BY LogCacheAssumption DEF Typed
<1>2. PICK line : line = LOG_MESSAGE(n + 1)
  OBVIOUS
<1>3. /\ line \in Messages(n + 1) /\ line.what = "LOG_MESSAGE"
      /\ messages \in Seq(Messages(n + 1)) /\ n + 1 \in Nat
      /\ logbuffer \in Seq(Corrupted .. n) /\ Append(logbuffer, n + 1) \in Seq(Corrupted .. n + 1)
      /\ UNCHANGED <<mLogFileHandler, step, toWrite, mLogFile, file>>
  <2>1. /\ line \in Messages(n + 1) /\ messages \in Seq(Messages(n + 1))
        /\ logbuffer \in Seq(Corrupted .. n) /\ Append(logbuffer, n + 1) \in Seq(Corrupted .. n + 1)
        /\ UNCHANGED <<mLogFileHandler, step, toWrite, mLogFile, file>>
    BY <1>1, <1>2, NewLine DEF threadVars
  <2>2. line.what = "LOG_MESSAGE"
    BY <1>2 DEF LOG_MESSAGE
  <2> QED BY <2>1, <2>2
<1>4. b \in Nat /\ Len(Append(logbuffer, n + 1)) = b + 1 /\ b <= MAXLOGENTRIES + Half
      /\ MAXLOGENTRIES \in Nat /\ Half \in Nat /\ Load \in Int /\ Load' = Load
  <2>1. b \in Nat /\ Len(Append(logbuffer, n + 1)) = b + 1
    BY <1>3
  <2>2. Load \in Int /\ Load' = Load
    BY <1>3, LoadFacts DEF Load
  <2> QED BY <2>1, <2>2, HalfFacts DEF BatchesFit
<1>8. TooLong(Append(logbuffer, n + 1)) <=> b + 1 > MAXLOGENTRIES + Half
  <2>1. TooLong(Append(logbuffer, n + 1)) <=> Len(Append(logbuffer, n + 1)) > MAXLOGENTRIES + Half
    BY HalfFacts
  <2> QED BY <1>4, <2>1
<1>5. MarkersFit(messages, b) /\ FrontFits(messages, b)
  BY DEF BatchesFit
<1> HIDE DEF b
<1>6. CASE mLogFileHandler = "null"
  <2>1. messages = <<>> /\ messages' = <<>> /\ step' = "idle" /\ ~mLogFile'
    BY <1>1, <1>3, <1>6, NewLine DEF SentInOrder, Opening
  <2>2. Len(logbuffer') <= MAXLOGENTRIES + Half
    <3>1. CASE TooLong(Append(logbuffer, n + 1))
      BY <1>1, <1>4, <3>1, NewLine
    <3>2. CASE ~TooLong(Append(logbuffer, n + 1))
      <4>1. logbuffer' = Append(logbuffer, n + 1) /\ b + 1 <= MAXLOGENTRIES + Half
        BY <1>1, <1>4, <1>8, <3>2, NewLine
      <4> QED BY <1>4, <4>1
    <3> QED BY <3>1, <3>2
  <2> QED BY <2>1, <2>2, NothingSent DEF BatchesFit, FrontFits, Half
<1>7. CASE mLogFileHandler # "null" /\ ~TooLong(Append(logbuffer, n + 1))
  <2>1. /\ logbuffer' = Append(logbuffer, n + 1) /\ messages' = Append(messages, line)
        /\ Len(logbuffer') = b + 1 /\ b + 1 <= MAXLOGENTRIES + Half
    <3>1. logbuffer' = Append(logbuffer, n + 1) /\ messages' = Append(messages, line)
      BY <1>1, <1>2, <1>7, NewLine
    <3> QED BY <1>4, <1>7, <1>8, <3>1
  <2>2. MarkersFit(messages', b + 1)
    BY <1>3, <1>4, <1>5, <2>1, MarkersLineSent
  <2>3. \A ended, growing \in Int :
          Within(messages, 0, ended, growing) => Within(messages', 0, ended, growing + 1)
    <3>1. 0 \in 0 .. Len(messages)
      BY <1>3
    <3> QED BY <1>2, <1>3, <2>1, <3>1, WithinLineSent
  <2>4. FrontFits(messages, Len(logbuffer))'
    <3>1. /\ Half + 1 \in Int /\ b - MAXLOGENTRIES \in Int /\ b - MAXLOGENTRIES + 1 = b + 1 - MAXLOGENTRIES
          /\ MAXLOGENTRIES + Half + 1 \in Int /\ b \in Int
          /\ 2 * MAXLOGENTRIES + 1 - Load \in Int /\ MAXLOGENTRIES - Half + b - Load \in Int
          /\ MAXLOGENTRIES - Half + b - Load + 1 = MAXLOGENTRIES - Half + (b + 1) - Load
      BY <1>4
    <3>2. step = "trimming" => Within(messages', 0, Half + 1, b + 1 - MAXLOGENTRIES)
      BY <1>5, <2>3, <3>1 DEF FrontFits
    <3>3. step = "reading" => Within(messages', 0, MAXLOGENTRIES + Half + 1, b + 1)
      BY <1>5, <2>3, <3>1 DEF FrontFits
    <3>4. (mLogFile /\ step # "trimming") =>
            Within(messages', 0, 2 * MAXLOGENTRIES + 1 - Load, MAXLOGENTRIES - Half + (b + 1) - Load)
      BY <1>5, <2>3, <3>1 DEF FrontFits
    <3>5. Len(logbuffer') = b + 1
      BY <2>1
    <3> QED BY <1>3, <1>4, <3>2, <3>3, <3>4, <3>5 DEF FrontFits, Half
  <2> QED BY <2>1, <2>2, <2>4 DEF BatchesFit, Half
<1>9. CASE mLogFileHandler # "null" /\ TooLong(Append(logbuffer, n + 1))
  <2> DEFINE longer == Append(messages, line)
  <2>1. /\ messages' = Append(longer, TRIM_LOG_FILE) /\ Len(logbuffer') = MAXLOGENTRIES
        /\ b + 1 > MAXLOGENTRIES + Half
    <3>1. messages' = Append(longer, TRIM_LOG_FILE) /\ Len(logbuffer') = MAXLOGENTRIES
      BY <1>1, <1>2, <1>9, NewLine
    <3> QED BY <1>8, <1>9, <3>1
  <2>2. b + 1 <= MAXLOGENTRIES + Half + 1 /\ b + 1 \in Nat /\ longer \in Seq(Messages(n + 1))
    BY <1>3, <1>4
  <2>3. MarkersFit(longer, b + 1)
    BY <1>3, <1>4, <1>5, MarkersLineSent
  <2> HIDE DEF longer
  <2>4. MarkersFit(messages', MAXLOGENTRIES)
    BY <1>3, <2>1, <2>2, <2>3, MarkersTrimSent
  <2>5. \A ended, growing, other \in Int :
          Within(messages, 0, ended, growing) /\ growing + 1 <= ended =>
            Within(messages', 0, ended, other)
    <3>1. 0 \in 0 .. Len(messages)
      BY <1>3
    <3>2. ASSUME NEW ended \in Int, NEW growing \in Int, NEW other \in Int,
                 Within(messages, 0, ended, growing), growing + 1 <= ended
          PROVE  Within(Append(longer, TRIM_LOG_FILE), 0, ended, other)
      BY <1>2, <1>3, <3>1, <3>2, WithinLineSent DEF longer
    <3> QED BY <2>1, <3>2
  <2>6. FrontFits(messages, Len(logbuffer))'
    <3>1. /\ Half + 1 \in Int /\ b - MAXLOGENTRIES \in Int /\ b - MAXLOGENTRIES + 1 <= Half + 1
          /\ MAXLOGENTRIES + Half + 1 \in Int /\ b \in Int /\ b + 1 <= MAXLOGENTRIES + Half + 1
          /\ 2 * MAXLOGENTRIES + 1 - Load \in Int /\ MAXLOGENTRIES - Half + b - Load \in Int
          /\ MAXLOGENTRIES - Half + b - Load + 1 <= 2 * MAXLOGENTRIES + 1 - Load
          /\ MAXLOGENTRIES - MAXLOGENTRIES \in Int /\ MAXLOGENTRIES \in Int
          /\ MAXLOGENTRIES - Half + MAXLOGENTRIES - Load \in Int
      BY <1>4
    <3>2. step = "trimming" => Within(messages', 0, Half + 1, MAXLOGENTRIES - MAXLOGENTRIES)
      BY <1>5, <2>5, <3>1 DEF FrontFits
    <3>3. step = "reading" => Within(messages', 0, MAXLOGENTRIES + Half + 1, MAXLOGENTRIES)
      BY <1>5, <2>5, <3>1 DEF FrontFits
    <3>4. (mLogFile /\ step # "trimming") =>
            Within(messages', 0, 2 * MAXLOGENTRIES + 1 - Load, MAXLOGENTRIES - Half + MAXLOGENTRIES - Load)
      BY <1>5, <2>5, <3>1 DEF FrontFits
    <3> QED BY <1>3, <1>4, <2>1, <3>2, <3>3, <3>4 DEF FrontFits, Half
  <2>7. MAXLOGENTRIES <= MAXLOGENTRIES + Half
    BY <1>4
  <2> QED BY <2>1, <2>4, <2>6, <2>7 DEF BatchesFit, Half
<1> QED BY <1>6, <1>7, <1>9

LEMMA BatchesRestored ==
  ASSUME Typed, Opening, BatchesFit, NEW line, Restoring(line)
  PROVE  BatchesFit'
<1> DEFINE b == Len(logbuffer)
           buffer == <<line>> \o logbuffer
<1>1. PICK n \in Nat : n = lines
  BY LogCacheAssumption DEF Typed
<1>2. /\ messages \in Seq(Messages(n)) /\ step = "reading" /\ step' = "reading" /\ ~mLogFile
      /\ mLogFile' = mLogFile /\ TRIM_LOG_FILE \in Messages(n)
  BY <1>1, RestoringFacts DEF Restore, Typed, Opening, Messages
<1>3. b \in Nat /\ b <= MAXLOGENTRIES + Half /\ MAXLOGENTRIES \in Nat /\ Half \in Nat
  BY HalfFacts DEF Typed, BatchesFit
<1>4. MarkersFit(messages, b) /\ Within(messages, 0, MAXLOGENTRIES + Half + 1, b)
  BY <1>2 DEF BatchesFit, FrontFits
<1>5. TooLong(buffer) <=> b + 1 > MAXLOGENTRIES + Half
  <2>1. Len(buffer) = b + 1
    BY RestoredLine
  <2>2. TooLong(buffer) <=> Len(buffer) > MAXLOGENTRIES + Half
    BY HalfFacts
  <2> QED BY <2>1, <2>2
<1>6. /\ TooLong(buffer) => Len(logbuffer') = MAXLOGENTRIES /\ messages' = Append(messages, TRIM_LOG_FILE)
      /\ ~TooLong(buffer) => Len(logbuffer') = b + 1 /\ messages' = messages
  BY RestoredLine
<1> HIDE DEF b, buffer
<1>7. /\ MAXLOGENTRIES + Half + 1 \in Int /\ b \in Int /\ b + 1 \in Int /\ MAXLOGENTRIES \in Int
      /\ b <= b + 1 /\ b + 1 \in Nat /\ b <= MAXLOGENTRIES + Half + 1
      /\ MAXLOGENTRIES + Half + 1 <= MAXLOGENTRIES + Half + 1 /\ MAXLOGENTRIES <= MAXLOGENTRIES + Half
  BY <1>3
<1>8. CASE TooLong(buffer)
  <2>1. MarkersFit(Append(messages, TRIM_LOG_FILE), MAXLOGENTRIES)
    BY <1>2, <1>3, <1>4, <1>7, MarkersTrimSent
  <2>2. Within(Append(messages, TRIM_LOG_FILE), 0, MAXLOGENTRIES + Half + 1, MAXLOGENTRIES)
    <3>1. 0 \in 0 .. Len(messages)
      BY <1>2
    <3> QED BY <1>2, <1>4, <1>7, <3>1, WithinSent
  <2> QED BY <1>2, <1>6, <1>7, <1>8, <2>1, <2>2 DEF BatchesFit, FrontFits, Half
<1>9. CASE ~TooLong(buffer)
  <2>1. MarkersFit(messages, b + 1)
    BY <1>2, <1>3, <1>4, <1>7, MarkersMore
  <2>2. Within(messages, 0, MAXLOGENTRIES + Half + 1, b + 1)
    BY <1>2, <1>4, <1>7, WithinMore
  <2>3. b + 1 <= MAXLOGENTRIES + Half
    BY <1>3, <1>5, <1>9
  <2> QED BY <1>2, <1>6, <1>9, <2>1, <2>2, <2>3 DEF BatchesFit, FrontFits, Half
<1> QED BY <1>8, <1>9

(* The steps of the thread that receive a message. *)
LEMMA BatchesReceived ==
  ASSUME Typed, Opening, SentInOrder, BatchesFit,
         ReadLogCache \/ WriteLogItem \/ IgnoreLogItem \/ TrimLogFile \/ FlushToDisk
  PROVE  BatchesFit'
<1> DEFINE b == Len(logbuffer)
<1>1. PICK n \in Nat : n = lines
  BY LogCacheAssumption DEF Typed
<1>2. PICK what \in {"LOG_INIT", "LOG_MESSAGE", "TRIM_LOG_FILE", "FLUSH_TO_DISK"} :
        /\ Receives(what) /\ UNCHANGED <<logbuffer, mLogFile>>
        /\ what = "LOG_INIT" => ReadLogCache
        /\ what = "TRIM_LOG_FILE" => TrimLogFile
        /\ what = "LOG_MESSAGE" => WriteLogItem \/ IgnoreLogItem
        /\ what = "FLUSH_TO_DISK" => FlushToDisk
  BY DEF ReadLogCache, WriteLogItem, IgnoreLogItem, TrimLogFile, FlushToDisk, threadVars
<1>3. /\ messages \in Seq(Messages(n)) /\ messages # <<>> /\ messages' = Tail(messages)
      /\ Head(messages).what = what /\ step = "idle" /\ Head(messages) \in Messages(n)
      /\ messages' \in Seq(Messages(n)) /\ messages[1] = Head(messages)
  <2>1. messages \in Seq(Messages(n)) /\ messages # <<>>
    BY <1>1, <1>2 DEF Receives, Waiting, Typed
  <2> QED BY <1>1, <1>2, <2>1, TailFacts DEF Receives, Waiting
<1>4. /\ b \in Nat /\ MAXLOGENTRIES \in Nat /\ Half \in Nat /\ b <= MAXLOGENTRIES + Half
      /\ MarkersFit(messages, b)
      /\ mLogFile => Within(messages, 0, 2 * MAXLOGENTRIES + 1 - Load, MAXLOGENTRIES - Half + b - Load)
  BY <1>3, HalfFacts DEF Typed, BatchesFit, FrontFits
<1>5. MarkersFit(messages', b) /\ Len(logbuffer') = b
  BY <1>2, <1>3, <1>4, MarkersReceived
<1> HIDE DEF b
<1>6. CASE what = "LOG_INIT"
  <2>1. Head(messages) = LOG_INIT
    BY <1>3, <1>6, MessageShape
  <2>2. Within(messages', 0, MAXLOGENTRIES + Half + 1, b)
    BY <1>3, <1>4, <2>1, MarkersReceived
  <2>3. ~mLogFile' /\ step' = "reading"
    BY <1>2, <1>6, OpeningReceive DEF Opening, ReadLogCache
  <2> QED BY <1>4, <1>5, <2>2, <2>3 DEF BatchesFit, FrontFits, Half
<1>7. CASE what = "TRIM_LOG_FILE"
  <2>1. Head(messages) = TRIM_LOG_FILE
    BY <1>3, <1>7, MessageShape
  <2>2. Within(messages', 0, Half + 1, b - MAXLOGENTRIES)
    BY <1>3, <1>4, <2>1, MarkersReceived
  <2>3. step' = "trimming"
    BY <1>2, <1>7 DEF TrimLogFile
  <2> QED BY <1>4, <1>5, <2>2, <2>3 DEF BatchesFit, FrontFits, Half
<1>8. CASE what = "LOG_MESSAGE" /\ mLogFile
  <2>1. /\ WriteLogItem /\ step' = "writing" /\ toWrite = <<>>
        /\ toWrite' = <<Head(messages).line>> /\ file' = file
    BY <1>2, <1>3, <1>8 DEF WriteLogItem, IgnoreLogItem, Opening
  <2>2. Load \in Int /\ Load' = Load + 1
    <3>1. Len(toWrite) = 0 /\ Len(toWrite') = 1
      BY <2>1
    <3>2. LinesOnDisk \in Nat /\ LinesOnDisk' = LinesOnDisk
      BY <2>1, LoadFacts
    <3> QED BY <3>1, <3>2 DEF Load
  <2>3. \A k \in 2 .. Len(messages) :
          messages[k].what = "LOG_MESSAGE" => Head(messages).line < messages[k].line
    BY <1>3, <1>8, AscendingTail DEF SentInOrder
  <2>4. PICK ended \in Int, growing \in Int :
          /\ ended = 2 * MAXLOGENTRIES + 1 - Load /\ growing = MAXLOGENTRIES - Half + b - Load
    BY <1>4, <2>2
  <2>5. Within(messages', 0, ended - 1, growing - 1)
    <3>1. Within(messages, 0, ended, growing)
      BY <1>4, <1>8, <2>4
    <3> QED BY <1>3, <1>8, <2>3, <3>1, WithinLineReceived
  <2>6. Within(messages', 0, 2 * MAXLOGENTRIES + 1 - Load', MAXLOGENTRIES - Half + b - Load')
    <3>1. PICK load \in Int : load = Load'
      BY <2>2
    <3>2. ended - 1 = 2 * MAXLOGENTRIES + 1 - load /\ growing - 1 = MAXLOGENTRIES - Half + b - load
      BY <1>4, <2>2, <2>4, <3>1
    <3> QED BY <2>5, <3>1, <3>2
  <2> QED BY <1>4, <1>5, <2>1, <2>6 DEF BatchesFit, FrontFits, Half
<1>9. CASE what = "LOG_MESSAGE" /\ ~mLogFile
  <2>1. ~mLogFile' /\ step' = "idle"
    BY <1>2, <1>3, <1>9 DEF IgnoreLogItem, WriteLogItem, threadVars
  <2> QED BY <1>4, <1>5, <2>1 DEF BatchesFit, FrontFits, Half
<1>10. CASE what = "FLUSH_TO_DISK"
  <2>1. mLogFile /\ step' = "idle" /\ UNCHANGED <<toWrite, file>>
    BY <1>2, <1>3, <1>10 DEF FlushToDisk, threadVars
  <2>2. Load' = Load
    BY <2>1, LoadFacts DEF Load
  <2>3. Head(messages) # TRIM_LOG_FILE /\ Head(messages).what # "LOG_MESSAGE"
    BY <1>3, <1>10 DEF TRIM_LOG_FILE
  <2>4. Within(messages', 0, 2 * MAXLOGENTRIES + 1 - Load, MAXLOGENTRIES - Half + b - Load)
    BY <1>3, <1>4, <2>1, <2>3, WithinOtherReceived
  <2> QED BY <1>4, <1>5, <2>1, <2>2, <2>4 DEF BatchesFit, FrontFits, Half
<1> QED BY <1>6, <1>7, <1>8, <1>9, <1>10

LEMMA BatchesFitNext ==
  Typed /\ Opening /\ SentInOrder /\ BatchesFit /\ FileFits /\ [Next]_vars => BatchesFit'
<1> SUFFICES ASSUME Typed, Opening, SentInOrder, BatchesFit, FileFits, [Next]_vars
             PROVE  BatchesFit'
  OBVIOUS
<1> DEFINE b == Len(logbuffer)
<1>1. PICK n \in Nat : n = lines
  BY LogCacheAssumption DEF Typed
<1>2. /\ messages \in Seq(Messages(n)) /\ b \in Nat /\ MAXLOGENTRIES \in Nat /\ Half \in Nat
      /\ b <= MAXLOGENTRIES + Half /\ Load \in Int
      /\ MarkersFit(messages, b) /\ FrontFits(messages, b)
  BY <1>1, HalfFacts, LoadFacts DEF Typed, BatchesFit
<1>3. CASE newLogItem
  BY <1>3, BatchesNewLine
<1>4. CASE RestoreLogItem \/ RestoreCutOffItem
  BY <1>4, RestoringFacts, BatchesRestored
<1>5. CASE ReadLogCache \/ WriteLogItem \/ IgnoreLogItem \/ TrimLogFile \/ FlushToDisk
  BY <1>5, BatchesReceived
<1>6. CASE flushLog \/ SendInit
  <2>1. PICK m \in {LOG_INIT, FLUSH_TO_DISK} :
          /\ messages' = Append(messages, m) /\ m \in Messages(n)
          /\ UNCHANGED <<logbuffer, step, mLogFile, toWrite, file>>
    BY <1>1, <1>6, Flushed DEF threadVars
  <2>2. MarkersFit(messages', b)
    BY <1>2, <2>1, MarkersOtherSent
  <2>3. \A ended, growing \in Int :
          Within(messages, 0, ended, growing) => Within(messages', 0, ended, growing)
    <3>1. 0 \in 0 .. Len(messages)
      BY <1>2
    <3> QED BY <1>2, <2>1, <3>1, WithinSent
  <2>4. Load' = Load
    BY <2>1, LoadFacts DEF Load
  <2>5. Len(logbuffer') = b
    BY <2>1
  <2> HIDE DEF b
  <2>6. /\ Half + 1 \in Int /\ b - MAXLOGENTRIES \in Int /\ MAXLOGENTRIES + Half + 1 \in Int /\ b \in Int
        /\ 2 * MAXLOGENTRIES + 1 - Load \in Int /\ MAXLOGENTRIES - Half + b - Load \in Int
    BY <1>2
  <2>7. FrontFits(messages, Len(logbuffer))'
    <3>1. step = "trimming" => Within(messages', 0, Half + 1, b - MAXLOGENTRIES)
      BY <1>2, <2>3, <2>6 DEF FrontFits
    <3>2. step = "reading" => Within(messages', 0, MAXLOGENTRIES + Half + 1, b)
      BY <1>2, <2>3, <2>6 DEF FrontFits
    <3>3. (mLogFile /\ step # "trimming") =>
            Within(messages', 0, 2 * MAXLOGENTRIES + 1 - Load, MAXLOGENTRIES - Half + b - Load)
      BY <1>2, <2>3, <2>6 DEF FrontFits
    <3> QED BY <2>1, <2>4, <2>5, <3>1, <3>2, <3>3 DEF FrontFits, Half
  <2> QED BY <1>2, <2>2, <2>5, <2>7 DEF BatchesFit, Half
<1>7. CASE AssignHandler \/ SkipBrokenItem \/ UNCHANGED vars
  <2>1. UNCHANGED <<logbuffer, messages, step, toWrite, mLogFile, file>>
    BY <1>7 DEF AssignHandler, SkipBrokenItem, vars, memoryVars, threadVars
  <2> QED BY <2>1, LoadFacts, SameBatches
<1>8. CASE OpenLogFile
  <2>1. /\ UNCHANGED <<logbuffer, messages>> /\ step = "reading" /\ step' = "idle"
        /\ file' = <<>> /\ toWrite' = <<>>
    BY <1>8 DEF OpenLogFile, memoryVars, Opening
  <2>2. Load' = 0
    <3>1. LinesOnDisk' = 0 /\ Len(toWrite') = 0
      BY <2>1, LoadFacts
    <3> QED BY <3>1 DEF Load
  <2>3. Within(messages, 0, MAXLOGENTRIES + Half + 1, b) /\ Len(logbuffer') = b
    BY <1>2, <2>1 DEF FrontFits
  <2> HIDE DEF b
  <2>4. Within(messages, 0, 2 * MAXLOGENTRIES + 1 - 0, MAXLOGENTRIES - Half + b - 0)
    <3>1. PICK ended \in Int : ended = 2 * MAXLOGENTRIES + 1 - 0
      BY <1>2
    <3>2. PICK growing \in Int : growing = MAXLOGENTRIES - Half + b - 0
      BY <1>2
    <3>3. MAXLOGENTRIES + Half + 1 \in Int /\ b \in Int /\ MAXLOGENTRIES + Half + 1 <= ended /\ b <= growing
      BY <1>2, <3>1, <3>2, HalfFacts
    <3> QED BY <1>2, <2>3, <3>1, <3>2, <3>3, WithinMore
  <2> QED BY <1>2, <2>1, <2>2, <2>3, <2>4 DEF BatchesFit, FrontFits, Half
<1>9. CASE OpenLogFileFails
  <2>1. UNCHANGED <<logbuffer, messages>> /\ step' = "idle" /\ ~mLogFile'
    BY <1>9 DEF OpenLogFileFails, memoryVars, Opening
  <2> QED BY <1>2, <2>1 DEF BatchesFit, FrontFits, Half
<1>10. CASE CopyLogBuffer
  <2>1. /\ UNCHANGED <<logbuffer, messages, file>> /\ step = "trimming" /\ step' = "writing"
        /\ toWrite' = logbuffer /\ file = <<>>
    BY <1>10 DEF CopyLogBuffer, memoryVars, FileFits
  <2>2. Load' = b
    <3>1. LinesOnDisk' = 0 /\ Len(toWrite') = b
      BY <2>1, LoadFacts
    <3> QED BY <1>2, <3>1 DEF Load
  <2>3. Within(messages, 0, Half + 1, b - MAXLOGENTRIES) /\ Len(logbuffer') = b
    BY <1>2, <2>1 DEF FrontFits
  <2> HIDE DEF b
  <2>4. Within(messages, 0, 2 * MAXLOGENTRIES + 1 - b, MAXLOGENTRIES - Half + b - b)
    <3>1. PICK ended \in Int : ended = 2 * MAXLOGENTRIES + 1 - b
      BY <1>2
    <3>2. PICK growing \in Int : growing = MAXLOGENTRIES - Half + b - b
      BY <1>2
    <3>3. Half + 1 \in Int /\ b - MAXLOGENTRIES \in Int /\ Half + 1 <= ended /\ b - MAXLOGENTRIES <= growing
      BY <1>2, <3>1, <3>2, HalfFacts
    <3> QED BY <1>2, <2>3, <3>1, <3>2, <3>3, WithinMore
  <2> QED BY <1>2, <2>1, <2>2, <2>3, <2>4 DEF BatchesFit, FrontFits, Half
<1>11. CASE WriteEscapedBytes
  <2>1. UNCHANGED <<logbuffer, messages, step, mLogFile>>
    BY <1>11 DEF WriteEscapedBytes, memoryVars
  <2>2. Load' = Load
    BY <1>11, LineWritten, LoadFacts DEF Load
  <2>3. Len(logbuffer') = b
    BY <2>1
  <2> QED BY <1>2, <2>1, <2>2, <2>3 DEF BatchesFit, FrontFits, Half
<1>12. CASE Written
  <2>1. UNCHANGED <<logbuffer, messages, toWrite, mLogFile, file>> /\ step = "writing" /\ step' = "idle"
    BY <1>12 DEF Written, memoryVars
  <2>2. Load' = Load /\ Len(logbuffer') = b
    BY <2>1, LoadFacts DEF Load
  <2> QED BY <1>2, <2>1, <2>2 DEF BatchesFit, FrontFits, Half
<1>13. CASE WriteFails
  <2>1. /\ UNCHANGED <<logbuffer, messages, mLogFile>> /\ step = "writing" /\ step' = "idle"
        /\ toWrite' = <<>> /\ file' \in CutOffWrite /\ mLogFile
    BY <1>13 DEF WriteFails, memoryVars, Opening
  <2>2. Load' \in Int /\ Load' <= Load /\ Len(logbuffer') = b
    <3>1. Len(toWrite') = 0 /\ Len(logbuffer') = b
      BY <2>1
    <3>2. /\ LinesOnDisk \in Nat /\ LinesOnDisk' = LinesOnDisk /\ Len(toWrite) \in Nat
          /\ Load = LinesOnDisk + Len(toWrite)
      BY <2>1, LoadFacts
    <3>3. Load' = LinesOnDisk' + Len(toWrite')
      BY DEF Load
    <3> QED BY <3>1, <3>2, <3>3
  <2>3. Within(messages, 0, 2 * MAXLOGENTRIES + 1 - Load, MAXLOGENTRIES - Half + b - Load)
    BY <1>2, <2>1 DEF FrontFits
  <2> HIDE DEF b
  <2>4. Within(messages, 0, 2 * MAXLOGENTRIES + 1 - Load', MAXLOGENTRIES - Half + b - Load')
    <3>1. PICK load \in Int, before \in Int : load = Load' /\ before = Load /\ load <= before
      BY <1>2, <2>2
    <3>2. MAXLOGENTRIES \in Int /\ Half \in Int /\ b \in Int /\ load <= before
      BY <1>2, <3>1
    <3>3. PICK ended \in Int, growing \in Int :
            /\ ended = 2 * MAXLOGENTRIES + 1 - load /\ growing = MAXLOGENTRIES - Half + b - load
            /\ 2 * MAXLOGENTRIES + 1 - before \in Int /\ MAXLOGENTRIES - Half + b - before \in Int
            /\ 2 * MAXLOGENTRIES + 1 - before <= ended /\ MAXLOGENTRIES - Half + b - before <= growing
      <4> DEFINE ended == 2 * MAXLOGENTRIES + 1 - load
                 growing == MAXLOGENTRIES - Half + b - load
      <4>1. ended \in Int /\ growing \in Int
        BY <3>2
      <4>2. /\ 2 * MAXLOGENTRIES + 1 - before \in Int /\ MAXLOGENTRIES - Half + b - before \in Int
            /\ 2 * MAXLOGENTRIES + 1 - before <= ended /\ MAXLOGENTRIES - Half + b - before <= growing
        BY <3>2
      <4> QED BY <4>1, <4>2
    <3>4. Within(messages, 0, ended, growing)
      BY <1>2, <2>3, <3>1, <3>3, WithinMore
    <3> QED BY <3>1, <3>3, <3>4
  <2> QED BY <1>2, <2>1, <2>2, <2>4 DEF BatchesFit, FrontFits, Half
<1>14. CASE NullLogFile \/ Crash
  <2>1. /\ messages' = <<>> /\ logbuffer' = <<>> /\ step' = "idle" /\ ~mLogFile'
    BY <1>14 DEF NullLogFile, Crash, NewProcess
  <2>2. Len(logbuffer') = 0 /\ 0 <= MAXLOGENTRIES + Half
    BY <1>2, <2>1
  <2> QED BY <2>1, <2>2, NothingSent DEF BatchesFit, FrontFits, Half
<1> QED
  BY <1>3, <1>4, <1>5, <1>6, <1>7, <1>8, <1>9, <1>10, <1>11, <1>12, <1>13, <1>14
     DEF Next, VpnStatus, MainThread, HandlerThread

LEMMA FileFitsNext ==
  Typed /\ Opening /\ BatchesFit /\ FileFits /\ [Next]_vars => FileFits'
<1> SUFFICES ASSUME Typed, Opening, BatchesFit, FileFits, [Next]_vars
             PROVE  FileFits'
  OBVIOUS
<1>1. /\ LinesOnDisk \in Nat /\ LinesOnDisk <= 2 * MAXLOGENTRIES + 1 /\ MAXLOGENTRIES \in Nat
      /\ 0 <= 2 * MAXLOGENTRIES + 1
      /\ step = "trimming" => file = <<>>
      /\ file' = file => LinesOnDisk' = LinesOnDisk
      /\ file' = <<>> => LinesOnDisk' = 0
      /\ file' \in CutOffWrite => LinesOnDisk' = LinesOnDisk
  BY HalfFacts, LoadFacts DEF FileFits, FileWithinReaderLimit
<1>2. CASE WriteEscapedBytes
  <2> DEFINE b == Len(logbuffer)
             sent == Cardinality(Batch(messages, 0))
  <2>1. step = "writing" /\ step' = "writing" /\ mLogFile
    BY <1>2 DEF WriteEscapedBytes, Opening
  <2>2. Within(messages, 0, 2 * MAXLOGENTRIES + 1 - Load, MAXLOGENTRIES - Half + b - Load)
    BY <2>1 DEF BatchesFit, FrontFits
  <2>3. /\ LinesOnDisk' = LinesOnDisk + 1 /\ Load \in Nat /\ Load >= LinesOnDisk + 1
    BY <1>2, LineWritten, LoadFacts
  <2>4. /\ sent \in Nat /\ b \in Nat /\ b <= MAXLOGENTRIES + Half /\ Half \in Nat
    <3>1. lines \in Nat /\ messages \in Seq(Messages(lines))
      BY LogCacheAssumption DEF Typed
    <3>2. sent \in Nat
      BY <3>1, BatchLines
    <3> QED BY <3>2, HalfFacts DEF Typed, BatchesFit
  <2>5. sent <= 2 * MAXLOGENTRIES + 1 - Load \/ sent <= MAXLOGENTRIES - Half + b - Load
    BY <2>2 DEF Within
  <2> HIDE DEF b, sent
  <2>6. LinesOnDisk' <= 2 * MAXLOGENTRIES + 1
    BY <1>1, <2>3, <2>4, <2>5
  <2> QED BY <2>1, <2>6 DEF FileFits, FileWithinReaderLimit
<1>3. CASE OpenLogFile \/ TrimLogFile
  <2>1. file' = <<>>
    BY <1>3 DEF OpenLogFile, TrimLogFile
  <2> QED BY <1>1, <2>1 DEF FileFits, FileWithinReaderLimit
<1>4. CASE WriteFails \/ Crash \/ NullLogFile
  <2>1. step' = "idle" /\ (file' = file \/ file' \in CutOffWrite)
    BY <1>4 DEF WriteFails, Crash, NullLogFile, NewProcess
  <2> QED BY <1>1, <2>1 DEF FileFits, FileWithinReaderLimit
<1>5. CASE \/ newLogItem \/ flushLog \/ AssignHandler \/ SendInit \/ IgnoreLogItem \/ FlushToDisk
           \/ RestoreLogItem \/ RestoreCutOffItem \/ SkipBrokenItem \/ UNCHANGED vars
  <2>1. UNCHANGED <<step, file>>
    BY <1>5 DEF newLogItem, flushLog, AssignHandler, SendInit, IgnoreLogItem, FlushToDisk,
                RestoreLogItem, RestoreCutOffItem, Restore, SkipBrokenItem, vars, threadVars
  <2> QED BY <1>1, <2>1 DEF FileFits, FileWithinReaderLimit
<1>6. CASE ReadLogCache \/ OpenLogFileFails \/ WriteLogItem \/ CopyLogBuffer \/ Written
  <2>1. UNCHANGED file /\ step' # "trimming"
    BY <1>6 DEF ReadLogCache, OpenLogFileFails, WriteLogItem, CopyLogBuffer, Written
  <2> QED BY <1>1, <2>1 DEF FileFits, FileWithinReaderLimit
<1> QED
  BY <1>2, <1>3, <1>4, <1>5, <1>6 DEF Next, VpnStatus, MainThread, HandlerThread

(* The limit of readCacheContents, 2 * MAXLOGENTRIES and the item that     *)
(* exceeds it, cuts off no line of a file that newLogItem, trimLogFile and *)
(* the writes of the handler have made, however far the handler lags.      *)
THEOREM ReaderLimitHolds == Spec => []FileWithinReaderLimit
<1> DEFINE IInv == Typed /\ Places /\ Opening /\ SentInOrder /\ BatchesFit /\ FileFits
<1>1. Init => IInv
  BY InitTyped, OpeningInit, BatchesFitInit
<1>2. IInv /\ [Next]_vars => IInv'
  BY TypedNext, PlacesNext, OpeningNext, SentInOrderNext, BatchesFitNext, FileFitsNext
<1>3. IInv => FileWithinReaderLimit
  BY DEF FileFits
<1> QED BY <1>1, <1>2, <1>3, PTL DEF Spec

-----------------------------------------------------------------------------
(* The order of the lines on disk *)

(* Lines of this process are in the order they were logged, behind those   *)
(* of earlier processes.                                                   *)
Sorted(seq, from) ==
  \A i, j \in 1 .. Len(seq) : (i < j /\ seq[j] > from) => seq[i] < seq[j]

(* What no trim follows has not been trimmed from the buffer. *)
UntrimmedIn(queue, kept) ==
  \A k \in 1 .. Len(queue) :
    (queue[k].what = "LOG_MESSAGE" /\ ~TrimBehind(queue, k)) => queue[k].line \in kept

(* The lines of this process on their way to the disk, and those there. *)
SentLines == {line \in 1 .. lines : LOG_MESSAGE(line) \in Range(messages)}

Known ==
  {line \in 1 .. lines :
     /\ line > restoredTo
     /\ line \in SentLines \/ line \in Range(toWrite) \/ line \in Range(file)}

(* A newer line has an older one of the set before it. *)
FirstInOrder(items, older) ==
  \A line \in older, i \in 1 .. Len(items) :
    items[i] > line => \E h \in 1 .. i : items[h] = line

Ordered ==
  /\ FirstInOrder(file, Known)
  /\ \A line \in SentLines, i \in 1 .. Len(toWrite) :
       toWrite[i] > line => line \in Range(file) \cup Range(toWrite)

InOrder ==
  /\ Sorted(logbuffer, restoredTo) /\ Sorted(toWrite, restoredTo)
  /\ UntrimmedIn(messages, Range(logbuffer))
  /\ TRIM_LOG_FILE \notin Range(messages) => Ordered

LEMMA SortedAppend ==
  ASSUME NEW M, M \subseteq Int, NEW seq \in Seq(M), NEW item \in M, NEW from \in Int,
         Sorted(seq, from), \A i \in 1 .. Len(seq) : seq[i] < item
  PROVE  Sorted(Append(seq, item), from)
<1> DEFINE longer == Append(seq, item)
<1>1. /\ Len(seq) \in Nat /\ Len(longer) = Len(seq) + 1 /\ longer[Len(seq) + 1] = item
      /\ \A k \in 1 .. Len(seq) : longer[k] = seq[k]
  OBVIOUS
<1> HIDE DEF longer
<1> SUFFICES Sorted(longer, from)
  BY DEF longer
<1>2. \A i \in 1 .. Len(longer) : i \in 1 .. Len(seq) \/ i = Len(seq) + 1
  BY <1>1
<1> QED BY <1>1, <1>2 DEF Sorted

LEMMA SortedPrepend ==
  ASSUME NEW M, M \subseteq Int, NEW seq \in Seq(M), NEW item \in M, NEW from \in Int,
         Sorted(seq, from), item <= from
  PROVE  Sorted(<<item>> \o seq, from)
<1> DEFINE longer == <<item>> \o seq
<1>1. /\ Len(seq) \in Nat /\ Len(longer) = Len(seq) + 1 /\ longer[1] = item
      /\ \A k \in 2 .. Len(longer) : longer[k] = seq[k - 1] /\ k - 1 \in 1 .. Len(seq)
      /\ \A k \in 1 .. Len(seq) : seq[k] \in Int
  <2>1. <<item>> \in Seq(M) /\ Len(<<item>>) = 1 /\ <<item>>[1] = item /\ Len(seq) \in Nat
    OBVIOUS
  <2>2. Len(longer) = 1 + Len(seq)
    BY <2>1
  <2>3. \A k \in 1 .. 1 + Len(seq) :
          longer[k] = IF k <= 1 THEN <<item>>[k] ELSE seq[k - 1]
    BY <2>1, ConcatProperties
  <2>4. \A k \in 1 .. Len(seq) : seq[k] \in Int
    <3>1. \A k \in 1 .. Len(seq) : seq[k] \in M
      BY ElementOfSeq
    <3> QED BY <3>1
  <2> HIDE DEF longer
  <2>5. longer[1] = item
    BY <2>1, <2>3
  <2>6. \A k \in 2 .. Len(longer) : longer[k] = seq[k - 1] /\ k - 1 \in 1 .. Len(seq)
    BY <2>1, <2>2, <2>3
  <2> QED BY <2>1, <2>2, <2>4, <2>5, <2>6
<1> HIDE DEF longer
<1> SUFFICES ASSUME NEW i \in 1 .. Len(longer), NEW j \in 1 .. Len(longer), i < j, longer[j] > from
             PROVE  longer[i] < longer[j]
  BY DEF Sorted, longer
<1>2. j \in 2 .. Len(longer) /\ longer[j] = seq[j - 1] /\ j - 1 \in 1 .. Len(seq)
  BY <1>1
<1>3. CASE i = 1
  <2>1. longer[i] = item /\ seq[j - 1] \in Int /\ item \in Int /\ seq[j - 1] > from
    BY <1>1, <1>2, <1>3
  <2> QED BY <1>2, <2>1
<1>4. CASE i # 1
  <2>1. i \in 2 .. Len(longer) /\ longer[i] = seq[i - 1] /\ i - 1 \in 1 .. Len(seq) /\ i - 1 < j - 1
    BY <1>1, <1>4
  <2> QED BY <1>2, <2>1 DEF Sorted
<1> QED BY <1>3, <1>4

LEMMA SortedTrimmed ==
  ASSUME NEW M, NEW buffer \in Seq(M), NEW from, Sorted(buffer, from)
  PROVE  Sorted(Trimmed(buffer), from)
<1>1. CASE TooLong(buffer)
  <2> DEFINE start == Len(buffer) - MAXLOGENTRIES + 1
             part == SubSeq(buffer, start, Len(buffer))
  <2>1. start \in 1 .. Len(buffer) + 1 /\ Len(buffer) \in Nat
    BY <1>1, HalfFacts
  <2> HIDE DEF start
  <2>2. Len(part) = Len(buffer) - start + 1
        /\ \A k \in 1 .. Len(buffer) - start + 1 : part[k] = buffer[start + k - 1]
    BY <2>1, SubSeqProperties
  <2> HIDE DEF part
  <2>3. \A k \in 1 .. Len(part) : start + k - 1 \in 1 .. Len(buffer) /\ part[k] = buffer[start + k - 1]
    BY <2>1, <2>2
  <2>4. \A i, j \in 1 .. Len(part) : i < j => start + i - 1 < start + j - 1
    BY <2>1
  <2>5. Sorted(part, from)
    BY <2>3, <2>4 DEF Sorted
  <2>6. Trimmed(buffer) = part
    BY <1>1 DEF Trimmed, part, start
  <2> QED BY <2>5, <2>6
<1>2. CASE ~TooLong(buffer)
  BY <1>2 DEF Trimmed
<1> QED BY <1>1, <1>2

LEMMA SortedTail ==
  ASSUME NEW M, NEW seq \in Seq(M), seq # <<>>, NEW from, Sorted(seq, from)
  PROVE  Sorted(Tail(seq), from)
<1> DEFINE rest == Tail(seq)
<1>1. /\ Len(seq) \in Nat /\ Len(rest) = Len(seq) - 1
      /\ \A k \in 1 .. Len(rest) : k + 1 \in 1 .. Len(seq) /\ rest[k] = seq[k + 1]
  BY TailFacts
<1> HIDE DEF rest
<1>2. \A i, j \in 1 .. Len(rest) : i < j => i + 1 < j + 1
  BY <1>1
<1> QED BY <1>1, <1>2 DEF Sorted, rest

(* Both orders say nothing of an empty sequence, or of one line. *)
LEMMA SortedShort ==
  ASSUME NEW line, NEW from
  PROVE  Sorted(<<>>, from) /\ Sorted(<<line>>, from)
BY DEF Sorted

LEMMA FirstShort ==
  ASSUME NEW older
  PROVE  FirstInOrder(<<>>, older)
BY DEF FirstInOrder

LEMMA FirstLess ==
  ASSUME NEW items, NEW older, NEW fewer \in SUBSET older, FirstInOrder(items, older)
  PROVE  FirstInOrder(items, fewer)
BY DEF FirstInOrder

LEMMA FirstAppend ==
  ASSUME NEW M, NEW items \in Seq(M), NEW item \in M, NEW older, FirstInOrder(items, older),
         \A line \in older : item > line => line \in Range(items) \cup {item}
  PROVE  FirstInOrder(Append(items, item), older)
<1> DEFINE longer == Append(items, item)
           n == Len(items)
<1>1. /\ n \in Nat /\ Len(longer) = n + 1 /\ longer[n + 1] = item
      /\ \A k \in 1 .. n : longer[k] = items[k]
  OBVIOUS
<1>2. Range(items) = {items[k] : k \in 1 .. n}
  BY RangeEquality
<1> HIDE DEF longer, n
<1> SUFFICES ASSUME NEW line \in older, NEW i \in 1 .. Len(longer), longer[i] > line
             PROVE  \E h \in 1 .. i : longer[h] = line
  BY DEF FirstInOrder, longer
<1>3. CASE i \in 1 .. n
  <2>1. PICK h \in 1 .. i : items[h] = line
    BY <1>1, <1>3 DEF FirstInOrder, n
  <2>2. h \in 1 .. n /\ longer[h] = line
    BY <1>1, <1>3, <2>1
  <2> QED BY <2>2
<1>4. CASE i = n + 1
  <2>1. line \in Range(items) \cup {item}
    BY <1>1, <1>4
  <2>2. CASE line = item
    BY <1>1, <1>4, <2>2
  <2>3. CASE line \in Range(items)
    <3>1. PICK h \in 1 .. n : items[h] = line
      BY <1>2, <2>3
    <3>2. h \in 1 .. i /\ longer[h] = line
      BY <1>1, <1>4, <3>1
    <3> QED BY <3>2
  <2> QED BY <2>1, <2>2, <2>3
<1> QED BY <1>1, <1>3, <1>4

(* Where the lines sent are in the queue. *)
LEMMA SentAt ==
  ASSUME NEW n \in Nat, NEW queue \in Seq(Messages(n)), NEW line
  PROVE  LOG_MESSAGE(line) \in Range(queue) <=>
           \E k \in 1 .. Len(queue) : queue[k].what = "LOG_MESSAGE" /\ queue[k].line = line
<1>1. Range(queue) = {queue[k] : k \in 1 .. Len(queue)}
  BY RangeEquality
<1>2. LOG_MESSAGE(line).what = "LOG_MESSAGE" /\ LOG_MESSAGE(line).line = line
  BY DEF LOG_MESSAGE
<1>3. \A k \in 1 .. Len(queue) : queue[k] \in Messages(n)
  OBVIOUS
<1>4. \A k \in 1 .. Len(queue) :
        queue[k].what = "LOG_MESSAGE" => queue[k] = LOG_MESSAGE(queue[k].line)
  BY <1>3, MessageShape
<1> QED BY <1>1, <1>2, <1>4

LEMMA NoTrimBehind ==
  ASSUME NEW M, NEW queue \in Seq(M), NEW i
  PROVE  TrimBehind(queue, i) => TRIM_LOG_FILE \in Range(queue)
<1>1. Range(queue) = {queue[k] : k \in 1 .. Len(queue)}
  BY RangeEquality
<1> QED BY <1>1 DEF TrimBehind

LEMMA UntrimmedAppend ==
  ASSUME NEW M, NEW queue \in Seq(M), NEW m \in M, NEW kept
  PROVE  /\ (UntrimmedIn(queue, kept) /\ (m.what = "LOG_MESSAGE" => m.line \in kept)) =>
              UntrimmedIn(Append(queue, m), kept)
         /\ m = TRIM_LOG_FILE => UntrimmedIn(Append(queue, m), kept)
<1> DEFINE longer == Append(queue, m)
           n == Len(queue)
<1>1. /\ n \in Nat /\ Len(longer) = n + 1 /\ longer[n + 1] = m
      /\ \A k \in 1 .. n : longer[k] = queue[k]
  OBVIOUS
<1> HIDE DEF longer, n
<1>2. \A k \in 1 .. Len(longer) : k \in 1 .. n \/ k = n + 1
  BY <1>1
<1>3. \A k \in 1 .. n : TrimBehind(queue, k) => TrimBehind(longer, k)
  BY <1>1 DEF TrimBehind, n
<1>4. ASSUME UntrimmedIn(queue, kept), m.what = "LOG_MESSAGE" => m.line \in kept
      PROVE  UntrimmedIn(longer, kept)
  BY <1>1, <1>2, <1>3, <1>4 DEF UntrimmedIn, n
<1>5. ASSUME m = TRIM_LOG_FILE PROVE UntrimmedIn(longer, kept)
  <2>1. \A k \in 1 .. n : TrimBehind(longer, k)
    BY <1>1, <1>5 DEF TrimBehind
  <2>2. m.what # "LOG_MESSAGE"
    BY <1>5 DEF TRIM_LOG_FILE
  <2> QED BY <1>1, <1>2, <2>1, <2>2 DEF UntrimmedIn
<1> QED BY <1>4, <1>5 DEF longer

LEMMA UntrimmedTail ==
  ASSUME NEW M, NEW queue \in Seq(M), queue # <<>>, NEW kept, UntrimmedIn(queue, kept)
  PROVE  UntrimmedIn(Tail(queue), kept)
<1> DEFINE rest == Tail(queue)
<1>1. /\ Len(queue) \in Nat /\ Len(rest) = Len(queue) - 1
      /\ \A k \in 1 .. Len(rest) : k + 1 \in 1 .. Len(queue) /\ rest[k] = queue[k + 1]
  BY TailFacts
<1>2. \A k \in 0 .. Len(queue) - 1 : TrimBehind(rest, k) <=> TrimBehind(queue, k + 1)
  BY BatchTail
<1> HIDE DEF rest
<1>3. \A k \in 1 .. Len(rest) : k \in 0 .. Len(queue) - 1
  BY <1>1
<1> QED BY <1>1, <1>2, <1>3 DEF UntrimmedIn, rest

LEMMA UntrimmedMore ==
  ASSUME NEW queue, NEW kept, NEW more, kept \subseteq more, UntrimmedIn(queue, kept)
  PROVE  UntrimmedIn(queue, more)
BY DEF UntrimmedIn

LEMMA UntrimmedNothing == ASSUME NEW kept PROVE UntrimmedIn(<<>>, kept)
BY DEF UntrimmedIn

(* No other lines become known, or are sent. *)
LEMMA KnownLess ==
  ASSUME Typed, UNCHANGED <<lines, restoredTo>>,
         Range(messages') \subseteq Range(messages) \cup {LOG_INIT, TRIM_LOG_FILE, FLUSH_TO_DISK},
         Range(toWrite') \cup Range(file') \subseteq
           Range(toWrite) \cup Range(file) \cup {NoLength, CutOff} \cup SentLines
  PROVE  SentLines' \subseteq SentLines /\ Known' \subseteq Known
<1>1. \A line : LOG_MESSAGE(line) \notin {LOG_INIT, TRIM_LOG_FILE, FLUSH_TO_DISK}
  BY DEF LOG_MESSAGE, LOG_INIT, TRIM_LOG_FILE, FLUSH_TO_DISK
<1>2. SentLines' \subseteq SentLines
  <2> SUFFICES ASSUME NEW line \in SentLines'
               PROVE  line \in SentLines
    OBVIOUS
  <2>1. line \in 1 .. lines /\ LOG_MESSAGE(line) \in Range(messages')
    BY DEF SentLines, LOG_MESSAGE
  <2> QED BY <1>1, <2>1 DEF SentLines
<1>3. Known' \subseteq Known
  <2> SUFFICES ASSUME NEW line \in Known'
               PROVE  line \in Known
    OBVIOUS
  <2>1. /\ line \in 1 .. lines /\ line > restoredTo
        /\ line \in SentLines' \/ line \in Range(toWrite') \/ line \in Range(file')
    BY DEF Known
  <2>2. line # NoLength /\ line # CutOff
    BY <2>1, LogCacheAssumption DEF Typed, NoLength, CutOff
  <2>3. line \in SentLines \/ line \in Range(toWrite) \/ line \in Range(file)
    BY <1>2, <2>1, <2>2
  <2> QED BY <2>1, <2>3 DEF Known
<1> QED BY <1>2, <1>3

LEMMA OrderedKept ==
  ASSUME Ordered, UNCHANGED <<file, toWrite>>, SentLines' \subseteq SentLines, Known' \subseteq Known
  PROVE  Ordered'
<1>1. FirstInOrder(file, Known')
  BY FirstLess DEF Ordered
<1>2. FirstInOrder(file, Known)'
  BY <1>1 DEF FirstInOrder
<1> QED BY <1>2 DEF Ordered

LEMMA SentTypes ==
  ASSUME Typed
  PROVE  /\ lines \in Nat /\ restoredTo \in Int /\ restoredTo >= 0
         /\ 1 .. lines \subseteq Int
         /\ \A i \in 1 .. Len(file) : file[i] \in Int /\ file[i] <= lines
         /\ \A i \in 1 .. Len(toWrite) : toWrite[i] \in Int /\ toWrite[i] <= lines
         /\ \A i \in 1 .. Len(logbuffer) : logbuffer[i] \in Int /\ logbuffer[i] <= lines
         /\ Range(file) = {file[i] : i \in 1 .. Len(file)}
         /\ Range(toWrite) = {toWrite[i] : i \in 1 .. Len(toWrite)}
<1>1. /\ lines \in Nat /\ restoredTo \in 0 .. lines /\ file \in Seq(NoLength .. lines)
      /\ toWrite \in Seq(Corrupted .. lines) /\ logbuffer \in Seq(Corrupted .. lines) /\ NoLength \in Int
  BY LogCacheAssumption DEF Typed, NoLength
<1>2. /\ \A i \in 1 .. Len(file) : file[i] \in NoLength .. lines
      /\ \A i \in 1 .. Len(toWrite) : toWrite[i] \in Corrupted .. lines
      /\ \A i \in 1 .. Len(logbuffer) : logbuffer[i] \in Corrupted .. lines
  BY <1>1, ElementOfSeq
<1>3. Range(file) = {file[i] : i \in 1 .. Len(file)} /\ Range(toWrite) = {toWrite[i] : i \in 1 .. Len(toWrite)}
  BY <1>1, RangeEquality
<1> QED BY <1>1, <1>2, <1>3

LEMMA InOrderNewLine ==
  ASSUME Typed, SentInOrder, InOrder, newLogItem
  PROVE  InOrder'
<1>1. PICK n \in Nat : n = lines
  BY SentTypes
<1>2. PICK line : line = LOG_MESSAGE(n + 1)
  OBVIOUS
<1>3. /\ line \in Messages(n + 1) /\ messages \in Seq(Messages(n + 1))
      /\ logbuffer \in Seq(Corrupted .. n) /\ Append(logbuffer, n + 1) \in Seq(Corrupted .. n + 1)
      /\ UNCHANGED <<mLogFileHandler, toWrite, file, restoredTo>> /\ lines' = n + 1
  BY <1>1, <1>2, NewLine DEF threadVars
<1>4. line.what = "LOG_MESSAGE" /\ line.line = n + 1
  BY <1>2 DEF LOG_MESSAGE
<1>5. Sorted(logbuffer', restoredTo)
  <2>1. logbuffer \in Seq(Corrupted .. n + 1) /\ n + 1 \in Corrupted .. n + 1
        /\ Corrupted .. n + 1 \subseteq Int
    BY <1>3 DEF Corrupted
  <2>2. restoredTo \in Int /\ \A i \in 1 .. Len(logbuffer) : logbuffer[i] < n + 1
    BY <1>1, SentTypes
  <2>3. Sorted(Append(logbuffer, n + 1), restoredTo)
    BY <2>1, <2>2, SortedAppend DEF InOrder
  <2>4. logbuffer' = Trimmed(Append(logbuffer, n + 1))
    BY <1>1 DEF newLogItem
  <2> QED BY <1>3, <2>3, <2>4, SortedTrimmed
<1>6. CASE mLogFileHandler = "null"
  <2>1. messages = <<>> /\ messages' = <<>>
    BY <1>1, <1>6, NewLine DEF SentInOrder
  <2>2. SentLines' = {} /\ SentLines = {}
    BY <2>1, RangeEmpty DEF SentLines
  <2>3. Known' \subseteq Known
    <3>1. Range(file) \subseteq NoLength .. lines /\ Range(toWrite) \subseteq Corrupted .. lines
      BY RangeOfSeq DEF Typed
    <3> SUFFICES ASSUME NEW known \in Known'
                 PROVE  known \in Known
      OBVIOUS
    <3>2. known \in 1 .. n + 1 /\ known > restoredTo /\ (known \in Range(toWrite) \/ known \in Range(file))
      BY <1>3, <2>2 DEF Known
    <3>3. known \in 1 .. lines
      BY <1>1, <3>1, <3>2
    <3> QED BY <3>2, <3>3 DEF Known
  <2>4. Ordered'
    BY <1>3, <2>1, <2>2, <2>3, OrderedKept, RangeEmpty DEF InOrder
  <2> QED BY <1>3, <1>5, <2>1, <2>4, UntrimmedNothing DEF InOrder
<1>7. CASE mLogFileHandler # "null" /\ TooLong(Append(logbuffer, n + 1))
  <2> DEFINE longer == Append(messages, line)
  <2>1. messages' = Append(longer, TRIM_LOG_FILE) /\ longer \in Seq(Messages(n + 1))
        /\ TRIM_LOG_FILE \in Messages(n + 1)
    BY <1>1, <1>2, <1>3, <1>7, NewLine DEF Messages
  <2> HIDE DEF longer
  <2>2. UntrimmedIn(messages', Range(logbuffer'))
    BY <2>1, UntrimmedAppend
  <2>3. TRIM_LOG_FILE \in Range(messages')
    BY <2>1, RangeAppend
  <2> QED BY <1>3, <1>5, <2>2, <2>3 DEF InOrder
<1>8. CASE mLogFileHandler # "null" /\ ~TooLong(Append(logbuffer, n + 1))
  <2>1. messages' = Append(messages, line) /\ logbuffer' = Append(logbuffer, n + 1)
    BY <1>1, <1>2, <1>8, NewLine
  <2>2. Range(messages') = Range(messages) \cup {line}
    BY <1>3, <2>1, RangeAppend
  <2>3. Range(logbuffer') = Range(logbuffer) \cup {n + 1}
    <3> DEFINE M == Corrupted .. n + 1
    <3>1. logbuffer \in Seq(M) /\ n + 1 \in M
      <4>1. logbuffer \in Seq(Corrupted .. n)
        BY <1>3
      <4>2. Corrupted .. n \subseteq M /\ n + 1 \in M
        BY DEF Corrupted
      <4> HIDE DEF M
      <4> QED BY <4>1, <4>2, Weaker
    <3> HIDE DEF M
    <3>2. Range(Append(logbuffer, n + 1)) = Range(logbuffer) \cup {n + 1}
      BY <3>1, RangeAppend
    <3> QED BY <2>1, <3>2
  <2>4. UntrimmedIn(messages', Range(logbuffer'))
    <3>1. UntrimmedIn(messages, Range(logbuffer'))
      BY <2>3, UntrimmedMore DEF InOrder
    <3>2. line.what = "LOG_MESSAGE" => line.line \in Range(logbuffer')
      BY <1>4, <2>3
    <3> QED BY <1>3, <2>1, <3>1, <3>2, UntrimmedAppend
  <2>5. SentLines' \subseteq SentLines \cup {n + 1} /\ Known' \subseteq Known \cup {n + 1}
    <3>1. \A known : LOG_MESSAGE(known) = line => known = n + 1
      BY <1>2 DEF LOG_MESSAGE
    <3>2. SentLines' \subseteq SentLines \cup {n + 1}
      <4> SUFFICES ASSUME NEW known \in SentLines'
                   PROVE  known \in SentLines \cup {n + 1}
        OBVIOUS
      <4>1. known \in 1 .. n + 1 /\ LOG_MESSAGE(known) \in Range(messages) \cup {line}
        BY <1>3, <2>2 DEF SentLines, LOG_MESSAGE
      <4>2. known \in 1 .. lines \/ known = n + 1
        BY <1>1, <4>1
      <4> QED BY <3>1, <4>1, <4>2 DEF SentLines
    <3> SUFFICES ASSUME NEW known \in Known'
                 PROVE  known \in Known \cup {n + 1}
      BY <3>2
    <3>3. /\ known \in 1 .. n + 1 /\ known > restoredTo
          /\ known \in SentLines' \/ known \in Range(toWrite) \/ known \in Range(file)
      BY <1>3 DEF Known
    <3>4. known \in 1 .. lines \/ known = n + 1
      BY <1>1, <3>3
    <3> QED BY <3>2, <3>3, <3>4 DEF Known
  <2>6. ASSUME TRIM_LOG_FILE \notin Range(messages') PROVE Ordered'
    <3>1. Ordered
      BY <2>2, <2>6 DEF InOrder
    <3>2. /\ \A i \in 1 .. Len(file) : file[i] \in Int /\ file[i] <= n
          /\ \A i \in 1 .. Len(toWrite) : toWrite[i] \in Int /\ toWrite[i] <= n
      BY <1>1, SentTypes
    <3>3. FirstInOrder(file, Known')
      <4> SUFFICES ASSUME NEW known \in Known', NEW i \in 1 .. Len(file), file[i] > known
                   PROVE  \E h \in 1 .. i : file[h] = known
        BY DEF FirstInOrder
      <4>1. known # n + 1
        BY <3>2
      <4> QED BY <2>5, <3>1, <4>1 DEF Ordered, FirstInOrder
    <3>4. FirstInOrder(file, Known)'
      BY <1>3, <3>3 DEF FirstInOrder
    <3>5. \A known \in SentLines', i \in 1 .. Len(toWrite) :
            toWrite[i] > known => known \in Range(file) \cup Range(toWrite)
      <4> SUFFICES ASSUME NEW known \in SentLines', NEW i \in 1 .. Len(toWrite), toWrite[i] > known
                   PROVE  known \in Range(file) \cup Range(toWrite)
        OBVIOUS
      <4>1. known # n + 1
        BY <3>2
      <4> QED BY <2>5, <3>1, <4>1 DEF Ordered
    <3> QED BY <1>3, <3>4, <3>5 DEF Ordered
  <2> QED BY <1>3, <1>5, <2>4, <2>6 DEF InOrder
<1> QED BY <1>6, <1>7, <1>8

LEMMA InOrderRestored ==
  ASSUME Typed, Opening, OldLines, InOrder, NEW line, Restoring(line)
  PROVE  InOrder'
<1> DEFINE buffer == <<line>> \o logbuffer
<1>1. UNCHANGED <<lines, restoredTo, toWrite, file>>
  BY RestoringFacts DEF Restore, historyVars
<1>2. /\ line \in Corrupted .. lines /\ line <= restoredTo
      /\ buffer \in Seq(Corrupted .. lines) /\ logbuffer \in Seq(Corrupted .. lines)
      /\ logbuffer' = Trimmed(buffer)
      /\ TooLong(buffer) => messages' = Append(messages, TRIM_LOG_FILE)
      /\ ~TooLong(buffer) => logbuffer' = buffer /\ messages' = messages
  <2>1. /\ line \in Corrupted .. lines /\ line \in Range(unread) \cup {Corrupted}
        /\ buffer \in Seq(Corrupted .. lines) /\ logbuffer' = Trimmed(buffer)
        /\ TooLong(buffer) => messages' = Append(messages, TRIM_LOG_FILE)
        /\ ~TooLong(buffer) => logbuffer' = buffer /\ messages' = messages
    BY RestoredLine
  <2>2. line <= restoredTo
    BY <2>1 DEF OldLines, Typed, Corrupted
  <2> QED BY <2>1, <2>2 DEF Typed
<1>3. messages \in Seq(Messages(lines)) /\ TRIM_LOG_FILE \in Messages(lines)
  BY DEF Typed, Messages
<1>4. Sorted(logbuffer', restoredTo)
  <2>1. Sorted(buffer, restoredTo)
    <3>1. Corrupted .. lines \subseteq Int
      BY SentTypes DEF Corrupted
    <3> QED BY <1>2, <3>1, SentTypes, SortedPrepend DEF InOrder
  <2> HIDE DEF buffer
  <2> QED BY <1>2, <2>1, SortedTrimmed
<1>5. Range(logbuffer) \subseteq Range(buffer)
  <2>1. <<line>> \in Seq(Corrupted .. lines)
    BY <1>2
  <2>2. \A one \in Seq(Corrupted .. lines) : Range(logbuffer) \subseteq Range(one \o logbuffer)
    BY <1>2, RangeConcatenation
  <2> QED BY <2>1, <2>2
<1> HIDE DEF buffer
<1>6. UntrimmedIn(messages', Range(logbuffer'))
  <2>1. CASE TooLong(buffer)
    <3>1. messages' = Append(messages, TRIM_LOG_FILE)
      BY <1>2, <2>1
    <3>2. UntrimmedIn(Append(messages, TRIM_LOG_FILE), Range(logbuffer'))
      BY <1>3, UntrimmedAppend
    <3> QED BY <3>1, <3>2
  <2>2. CASE ~TooLong(buffer)
    BY <1>2, <1>5, <2>2, UntrimmedMore DEF InOrder
  <2> QED BY <2>1, <2>2
<1>7. ASSUME TRIM_LOG_FILE \notin Range(messages') PROVE Ordered'
  <2>1. messages' = messages
    <3>1. TRIM_LOG_FILE \in Range(Append(messages, TRIM_LOG_FILE))
      BY <1>3, RangeAppend
    <3> QED BY <1>2, <1>7, <3>1
  <2>2. SentLines' \subseteq SentLines /\ Known' \subseteq Known
    BY <1>1, <2>1, KnownLess
  <2>3. Ordered
    BY <1>7, <2>1 DEF InOrder
  <2> QED BY <1>1, <2>2, <2>3, OrderedKept
<1> QED BY <1>1, <1>4, <1>6, <1>7 DEF InOrder

(* The steps of the thread that receive a message. *)
LEMMA InOrderReceived ==
  ASSUME Typed, Opening, SentInOrder, InOrder,
         ReadLogCache \/ WriteLogItem \/ IgnoreLogItem \/ TrimLogFile \/ FlushToDisk
  PROVE  InOrder'
<1>1. PICK what : Receives(what) /\ (what = "TRIM_LOG_FILE" => TrimLogFile)
                    /\ (what # "TRIM_LOG_FILE" => UNCHANGED file)
                    /\ (what # "LOG_MESSAGE" => UNCHANGED toWrite)
                    /\ (what = "LOG_MESSAGE" => WriteLogItem \/ IgnoreLogItem)
  BY DEF ReadLogCache, WriteLogItem, IgnoreLogItem, TrimLogFile, FlushToDisk, threadVars
<1>2. UNCHANGED <<lines, restoredTo, logbuffer>>
  BY DEF ReadLogCache, WriteLogItem, IgnoreLogItem, TrimLogFile, FlushToDisk, threadVars,
         historyVars
<1>3. /\ messages \in Seq(Messages(lines)) /\ messages # <<>> /\ messages' = Tail(messages)
      /\ step = "idle" /\ Head(messages).what = what /\ Head(messages) \in Messages(lines)
      /\ Range(messages) = Range(messages') \cup {Head(messages)}
  <2>1. /\ messages \in Seq(Messages(lines)) /\ messages # <<>> /\ messages' = Tail(messages)
        /\ step = "idle" /\ Head(messages).what = what
    BY <1>1 DEF Receives, Waiting, Typed
  <2> QED BY <2>1, RangeTail
<1>4. toWrite = <<>> /\ Range(toWrite) = {} /\ lines \in Nat
  BY <1>3, RangeEmpty, SentTypes DEF Opening
<1>5. UntrimmedIn(messages', Range(logbuffer'))
  BY <1>2, <1>3, UntrimmedTail DEF InOrder
<1>6. ASSUME TRIM_LOG_FILE \notin Range(messages'), Head(messages) # TRIM_LOG_FILE
      PROVE  Ordered
  BY <1>3, <1>6 DEF InOrder
<1>7. CASE what = "TRIM_LOG_FILE"
  <2>1. file' = <<>> /\ toWrite' = <<>>
    BY <1>1, <1>4, <1>7 DEF TrimLogFile
  <2>2. FirstInOrder(<<>>, Known')
    BY FirstShort
  <2>3. FirstInOrder(file, Known)'
    BY <2>1, <2>2 DEF FirstInOrder
  <2>4. Ordered'
    BY <2>1, <2>3 DEF Ordered
  <2> QED BY <1>2, <1>5, <2>1, <2>4, SortedShort DEF InOrder
<1>8. CASE what # "TRIM_LOG_FILE" /\ UNCHANGED toWrite
  <2>1. Head(messages) # TRIM_LOG_FILE
    BY <1>3, <1>8 DEF TRIM_LOG_FILE
  <2>2. file' = file /\ Range(messages') \subseteq Range(messages)
    BY <1>1, <1>3, <1>8
  <2>3. SentLines' \subseteq SentLines /\ Known' \subseteq Known
    BY <1>2, <1>8, <2>2, KnownLess
  <2>4. ASSUME TRIM_LOG_FILE \notin Range(messages') PROVE Ordered'
    BY <1>6, <1>8, <2>1, <2>2, <2>3, <2>4, OrderedKept
  <2> QED BY <1>2, <1>5, <1>8, <2>4 DEF InOrder
<1>9. CASE what = "LOG_MESSAGE" /\ WriteLogItem
  <2>1. PICK line : line = Head(messages).line
    OBVIOUS
  <2>2. /\ line \in 1 .. lines /\ Head(messages) = LOG_MESSAGE(line) /\ toWrite' = <<line>>
        /\ file' = file /\ Head(messages) # TRIM_LOG_FILE
    <3>1. toWrite' = <<line>> /\ file' = file
      BY <1>9, <2>1 DEF WriteLogItem
    <3>2. line \in 1 .. lines /\ Head(messages) = LOG_MESSAGE(line)
      BY <1>3, <1>4, <1>9, <2>1, MessageShape
    <3>3. Head(messages) # TRIM_LOG_FILE
      BY <1>3, <1>9 DEF TRIM_LOG_FILE
    <3> QED BY <3>1, <3>2, <3>3
  <2>3. line \in SentLines /\ Range(toWrite') = {line}
    BY <1>3, <2>2, RangeOne DEF SentLines
  <2>4. SentLines' \subseteq SentLines /\ Known' \subseteq Known
    <3>1. Range(messages') \subseteq Range(messages)
      BY <1>3
    <3> QED BY <1>2, <2>2, <2>3, <3>1, KnownLess
  <2>5. \A sent \in SentLines' : line < sent
    <3> SUFFICES ASSUME NEW sent \in SentLines'
                 PROVE  line < sent
      OBVIOUS
    <3>1. LOG_MESSAGE(sent) \in Range(messages') /\ messages' \in Seq(Messages(lines))
      BY <1>3, TailFacts DEF SentLines, LOG_MESSAGE
    <3>2. PICK k \in 1 .. Len(messages') : messages'[k].what = "LOG_MESSAGE" /\ messages'[k].line = sent
      BY <1>4, <3>1, SentAt
    <3>3. /\ k + 1 \in 2 .. Len(messages) /\ messages'[k] = messages[k + 1]
      BY <1>3, TailFacts
    <3>4. \A i \in 2 .. Len(messages) :
            messages[i].what = "LOG_MESSAGE" => Head(messages).line < messages[i].line
      BY <1>3, <1>9, AscendingTail DEF SentInOrder
    <3> QED BY <2>1, <3>2, <3>3, <3>4
  <2>6. ASSUME TRIM_LOG_FILE \notin Range(messages') PROVE Ordered'
    <3>1. Ordered
      BY <1>6, <2>2, <2>6
    <3>2. FirstInOrder(file, Known')
      BY <2>4, <3>1, FirstLess DEF Ordered
    <3>3. FirstInOrder(file, Known)'
      BY <2>2, <3>2 DEF FirstInOrder
    <3>4. \A sent \in SentLines', i \in 1 .. Len(toWrite') : ~(toWrite'[i] > sent)
      <4> SUFFICES ASSUME NEW sent \in SentLines', NEW i \in 1 .. Len(toWrite')
                   PROVE  ~(toWrite'[i] > sent)
        OBVIOUS
      <4>1. toWrite'[i] = line
        BY <2>2
      <4>2. line < sent /\ sent \in Int /\ line \in Int
        BY <1>4, <2>2, <2>4, <2>5 DEF SentLines
      <4> QED BY <4>1, <4>2
    <3> QED BY <3>3, <3>4 DEF Ordered
  <2>7. Sorted(toWrite', restoredTo)
    BY <2>2, SortedShort
  <2> QED BY <1>2, <1>5, <2>6, <2>7 DEF InOrder
<1>10. what = "LOG_MESSAGE" => WriteLogItem \/ UNCHANGED toWrite
  BY <1>1 DEF IgnoreLogItem, threadVars
<1> QED BY <1>1, <1>7, <1>8, <1>9, <1>10

LEMMA InOrderWritten ==
  ASSUME Typed, InOrder, WriteEscapedBytes
  PROVE  InOrder'
<1> DEFINE M == NoLength .. lines
<1>1. PICK item : item = Head(toWrite)
  OBVIOUS
<1>2. /\ UNCHANGED <<logbuffer, messages, lines, restoredTo>>
      /\ toWrite # <<>> /\ toWrite \in Seq(Corrupted .. lines) /\ toWrite' = Tail(toWrite)
      /\ file \in Seq(M) /\ file' = Append(file, item)
  BY <1>1 DEF WriteEscapedBytes, memoryVars, historyVars, Typed
<1>3. item \in Corrupted .. lines /\ item \in M /\ lines \in Nat
  <2>1. item \in Corrupted .. lines
    BY <1>1, <1>2, TailFacts
  <2> QED BY <2>1, SentTypes DEF NoLength, Corrupted
<1> HIDE DEF M
<1>4. Range(toWrite) = Range(toWrite') \cup {item} /\ Range(file') = Range(file) \cup {item}
  BY <1>1, <1>2, <1>3, RangeTail, RangeAppend
<1>5. SentLines' \subseteq SentLines /\ Known' \subseteq Known
  <2>1. Range(toWrite') \cup Range(file') \subseteq Range(toWrite) \cup Range(file)
    BY <1>4
  <2> QED BY <1>2, <2>1, KnownLess
<1>6. Sorted(toWrite', restoredTo)
  BY <1>2, SortedTail DEF InOrder
<1>7. ASSUME Ordered PROVE Ordered'
  <2>1. \A line \in Known : item > line => line \in Range(file) \cup {item}
    <3> SUFFICES ASSUME NEW line \in Known, item > line
                 PROVE  line \in Range(file) \cup {item}
      OBVIOUS
    <3>1. line \in 1 .. lines /\ line > restoredTo
          /\ (line \in SentLines \/ line \in Range(toWrite) \/ line \in Range(file))
      BY DEF Known
    <3>2. line \notin Range(toWrite)
      <4> SUFFICES ASSUME line \in Range(toWrite)
                   PROVE  FALSE
        OBVIOUS
      <4>1. PICK j \in 1 .. Len(toWrite) : toWrite[j] = line
        BY SentTypes
      <4>2. Len(toWrite) \in Nat /\ toWrite[1] = item /\ 1 \in 1 .. Len(toWrite)
        BY <1>1, <1>2, TailFacts
      <4>3. j # 1 /\ 1 < j
        BY <1>3, <3>1, <4>1, <4>2
      <4>4. item < line
        BY <3>1, <4>1, <4>2, <4>3 DEF InOrder, Sorted
      <4> QED BY <1>3, <3>1, <4>4
    <3>3. CASE line \in SentLines
      <4>1. 1 \in 1 .. Len(toWrite) /\ toWrite[1] = item
        BY <1>1, <1>2, TailFacts
      <4> QED BY <1>7, <3>2, <3>3, <4>1 DEF Ordered
    <3> QED BY <3>1, <3>2, <3>3
  <2>2. FirstInOrder(file, Known)
    BY <1>7 DEF Ordered
  <2>3. FirstInOrder(Append(file, item), Known)
    BY <1>2, <1>3, <2>1, <2>2, FirstAppend
  <2>4. FirstInOrder(file', Known')
    BY <1>2, <1>5, <2>3, FirstLess
  <2>5. \A line \in SentLines', i \in 1 .. Len(toWrite') :
          toWrite'[i] > line => line \in Range(file') \cup Range(toWrite')
    <3> SUFFICES ASSUME NEW line \in SentLines', NEW i \in 1 .. Len(toWrite'), toWrite'[i] > line
                 PROVE  line \in Range(file') \cup Range(toWrite')
      OBVIOUS
    <3>1. i + 1 \in 1 .. Len(toWrite) /\ toWrite[i + 1] = toWrite'[i]
      BY <1>2, TailFacts
    <3>2. line \in Range(file) \cup Range(toWrite)
      BY <1>5, <1>7, <3>1 DEF Ordered
    <3> QED BY <1>4, <3>2
  <2> QED BY <2>4, <2>5 DEF Ordered
<1> QED BY <1>2, <1>6, <1>7 DEF InOrder

LEMMA InOrderCutOff ==
  ASSUME Typed, InOrder, WriteFails
  PROVE  InOrder'
<1>1. /\ UNCHANGED <<logbuffer, messages, lines, restoredTo>>
      /\ toWrite' = <<>> /\ file' \in CutOffWrite
  BY DEF WriteFails, memoryVars
<1>2. Range(toWrite') = {} /\ Range(file') \subseteq Range(file) \cup {NoLength, CutOff}
  BY <1>1, CutOffTyped, RangeEmpty
<1>3. SentLines' \subseteq SentLines /\ Known' \subseteq Known
  BY <1>1, <1>2, KnownLess
<1>4. ASSUME Ordered PROVE Ordered'
  <2>1. FirstInOrder(file, Known)
    BY <1>4 DEF Ordered
  <2>2. \A item \in {NoLength, CutOff} : FirstInOrder(Append(file, item), Known)
    <3> DEFINE M == NoLength .. lines
    <3>1. file \in Seq(M) /\ NoLength \in M /\ CutOff \in M
      BY SentTypes DEF Typed, NoLength, CutOff
    <3>2. \A line \in Known, item \in {NoLength, CutOff} : ~(item > line)
      BY SentTypes DEF Known, NoLength, CutOff
    <3> HIDE DEF M
    <3> QED BY <2>1, <3>1, <3>2, FirstAppend
  <2>3. FirstInOrder(file', Known)
    BY <1>1, <2>1, <2>2 DEF CutOffWrite
  <2>4. FirstInOrder(file', Known')
    BY <1>3, <2>3, FirstLess
  <2> QED BY <1>1, <2>4 DEF Ordered
<1> QED BY <1>1, <1>4, SortedShort DEF InOrder

LEMMA InOrderNext ==
  /\ Typed /\ Opening /\ OldLines /\ SentInOrder /\ FileFits /\ InOrder
  /\ [Next]_vars
  => InOrder'
<1> SUFFICES ASSUME Typed, Opening, OldLines, SentInOrder, FileFits, InOrder, [Next]_vars
             PROVE  InOrder'
  OBVIOUS
<1>1. CASE newLogItem
  BY <1>1, InOrderNewLine
<1>2. CASE RestoreLogItem \/ RestoreCutOffItem
  BY <1>2, RestoringFacts, InOrderRestored
<1>3. CASE ReadLogCache \/ WriteLogItem \/ IgnoreLogItem \/ TrimLogFile \/ FlushToDisk
  BY <1>3, InOrderReceived
<1>4. CASE WriteEscapedBytes
  BY <1>4, InOrderWritten
<1>5. CASE WriteFails
  BY <1>5, InOrderCutOff
<1>6. CASE flushLog \/ SendInit
  <2>1. PICK m \in {LOG_INIT, FLUSH_TO_DISK} :
          /\ messages' = Append(messages, m) /\ m \in Messages(lines)
          /\ messages \in Seq(Messages(lines))
          /\ UNCHANGED <<logbuffer, toWrite, file, lines, restoredTo>>
    BY <1>6, Flushed DEF threadVars
  <2>2. m.what # "LOG_MESSAGE" /\ Range(messages') = Range(messages) \cup {m}
    BY <2>1, RangeAppend DEF LOG_INIT, FLUSH_TO_DISK
  <2>3. UntrimmedIn(messages', Range(logbuffer'))
    BY <2>1, <2>2, UntrimmedAppend DEF InOrder
  <2>4. SentLines' \subseteq SentLines /\ Known' \subseteq Known
    BY <2>1, <2>2, KnownLess
  <2>5. ASSUME TRIM_LOG_FILE \notin Range(messages') PROVE Ordered'
    BY <2>1, <2>2, <2>4, <2>5, OrderedKept DEF InOrder
  <2> QED BY <2>1, <2>3, <2>5 DEF InOrder
<1>7. CASE \/ AssignHandler \/ SkipBrokenItem \/ OpenLogFileFails \/ Written \/ UNCHANGED vars
  <2>1. UNCHANGED <<logbuffer, messages, toWrite, file, lines, restoredTo>>
    BY <1>7 DEF AssignHandler, SkipBrokenItem, OpenLogFileFails, Written, vars, memoryVars,
                threadVars, historyVars
  <2>2. SentLines' \subseteq SentLines /\ Known' \subseteq Known
    BY <2>1, KnownLess
  <2>3. ASSUME Ordered PROVE Ordered'
    BY <2>1, <2>2, <2>3, OrderedKept
  <2> QED BY <2>1, <2>3 DEF InOrder
<1>8. CASE OpenLogFile
  <2>1. /\ UNCHANGED <<logbuffer, messages, lines, restoredTo>>
        /\ file' = <<>> /\ toWrite' = <<>>
    BY <1>8 DEF OpenLogFile, memoryVars, historyVars, Opening
  <2>2. FirstInOrder(file', Known')
    BY <2>1, FirstShort
  <2>3. Ordered'
    BY <2>1, <2>2 DEF Ordered
  <2> QED BY <2>1, <2>3, SortedShort DEF InOrder
<1>9. CASE CopyLogBuffer
  <2>1. /\ UNCHANGED <<logbuffer, messages, lines, restoredTo, file>>
        /\ file = <<>> /\ toWrite' = logbuffer
    BY <1>9 DEF CopyLogBuffer, memoryVars, historyVars, FileFits
  <2>2. FirstInOrder(file', Known')
    BY <2>1, FirstShort
  <2>3. ASSUME TRIM_LOG_FILE \notin Range(messages), NEW line \in SentLines
        PROVE  line \in Range(logbuffer)
    <3>1. messages \in Seq(Messages(lines)) /\ lines \in Nat
      BY SentTypes DEF Typed
    <3>2. PICK k \in 1 .. Len(messages) : messages[k].what = "LOG_MESSAGE" /\ messages[k].line = line
      BY <3>1, SentAt DEF SentLines
    <3>3. ~TrimBehind(messages, k)
      BY <2>3, <3>1, NoTrimBehind
    <3> QED BY <3>2, <3>3 DEF InOrder, UntrimmedIn
  <2>4. SentLines' \subseteq SentLines
    BY <2>1 DEF SentLines, LOG_MESSAGE
  <2>5. ASSUME TRIM_LOG_FILE \notin Range(messages) PROVE Ordered'
    BY <2>1, <2>2, <2>3, <2>4, <2>5 DEF Ordered
  <2> QED BY <2>1, <2>5 DEF InOrder
<1>10. CASE NullLogFile \/ Crash
  <2>1. /\ logbuffer' = <<>> /\ messages' = <<>> /\ toWrite' = <<>>
        /\ restoredTo' = lines /\ lines' = lines /\ (file' = file \/ file' \in CutOffWrite)
    BY <1>10 DEF NullLogFile, Crash, NewProcess
  <2>2. Range(file') \subseteq Range(file) \cup {NoLength, CutOff}
    BY <2>1, CutOffTyped
  <2>3. \A line \in Range(file) : line \in NoLength .. lines
    BY RangeOfSeq DEF Typed
  <2>4. SentLines' = {}
    BY <2>1, RangeEmpty DEF SentLines
  <2>5. Known' = {}
    <3>1. \A line \in 1 .. lines : ~(line > lines)
      BY SentTypes
    <3> QED BY <2>1, <3>1 DEF Known
  <2>6. Ordered'
    BY <2>1, <2>4, <2>5 DEF Ordered, FirstInOrder
  <2> QED BY <2>1, <2>6, SortedShort, UntrimmedNothing DEF InOrder
<1> QED
  BY <1>1, <1>2, <1>3, <1>4, <1>5, <1>6, <1>7, <1>8, <1>9, <1>10
     DEF Next, VpnStatus, MainThread, HandlerThread

LEMMA InOrderInit == Init => InOrder
<1> SUFFICES ASSUME Init
             PROVE  InOrder
  OBVIOUS
<1>1. logbuffer = <<>> /\ messages = <<>> /\ toWrite = <<>> /\ file = <<>> /\ lines = 0
  BY DEF Init, ProcessStarted
<1>2. SentLines = {} /\ Known = {}
  BY <1>1 DEF SentLines, Known
<1>3. Ordered
  BY <1>2 DEF Ordered, FirstInOrder
<1> QED BY <1>1, <1>3, SortedShort, UntrimmedNothing DEF InOrder

(* Whatever newLogItem and restoreLogItem have trimmed from the buffer     *)
(* while its messages waited, and whatever trimLogFile has written twice:  *)
(* with the queue empty, the lines of this process are in the file in the  *)
(* order they were logged, apart from repetitions.                         *)
THEOREM SettledInOrder == Spec => []InOrderWhenSettled
<1> DEFINE IInv == Typed /\ Places /\ Opening /\ OldLines /\ SentInOrder /\ BatchesFit /\ FileFits
                     /\ InOrder
<1>1. Init => IInv
  BY InitTyped, OpeningInit, BatchesFitInit, InOrderInit
<1>2. IInv /\ [Next]_vars => IInv'
  BY TypedNext, PlacesNext, OpeningNext, OldLinesNext, SentInOrderNext, BatchesFitNext,
     FileFitsNext, InOrderNext
<1>3. IInv => InOrderWhenSettled
  <2> SUFFICES ASSUME Typed, InOrder, messages = <<>>,
                      NEW i \in DOMAIN file, NEW j \in DOMAIN file,
                      i < j, restoredTo < file[j], file[j] < file[i]
               PROVE  \E k \in 1 .. i : file[k] = file[j]
    BY DEF InOrderWhenSettled
  <2>1. Ordered
    BY RangeEmpty DEF InOrder
  <2>2. i \in 1 .. Len(file) /\ j \in 1 .. Len(file)
    BY DEF Typed
  <2>3. file[j] \in Known /\ file[i] > file[j]
    <3>1. file[j] \in Int /\ file[i] \in Int /\ file[j] <= lines /\ restoredTo \in Int /\ restoredTo >= 0
          /\ file[j] \in Range(file) /\ lines \in Nat
      BY <2>2, SentTypes
    <3>2. file[j] \in 1 .. lines /\ file[j] > restoredTo /\ file[i] > file[j]
      BY <3>1
    <3> QED BY <3>1, <3>2 DEF Known
  <2> QED BY <2>1, <2>2, <2>3 DEF Ordered, FirstInOrder
<1> QED BY <1>1, <1>2, <1>3, PTL DEF Spec

=============================================================================
