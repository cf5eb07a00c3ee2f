------------------------------ MODULE LogCache ------------------------------
(***************************************************************************)
(* The log cache of the service process: VpnStatus keeps the last lines    *)
(* of the log and sends them to the LogFileHandler, whose thread writes    *)
(* them to a file.  A new process reads the file before it empties it.     *)
(*                                                                         *)
(* Lines are numbered as they are logged, over all processes.  An item of  *)
(* the file is a line or what a write that failed or was cut off leaves:   *)
(* the magic byte with less than the length, or with the length and part   *)
(* of the escaped bytes.  The bytes are abstracted: with the escaping a    *)
(* magic byte marks nothing but the beginning of an item.  Where the file  *)
(* ends within an item, the reader may make a corrupted line of it, which  *)
(* nobody has logged.                                                      *)
(***************************************************************************)
EXTENDS Integers, Sequences, FiniteSets, Functions

CONSTANTS
  MAXLOGENTRIES,
  MaxLines, MaxFlushes, MaxCrashes, MaxFailures   \* bounds on the environment

ASSUME LogCacheAssumption ==
  /\ MAXLOGENTRIES \in Nat \ {0}
  /\ MaxLines \in Nat /\ MaxFlushes \in Nat /\ MaxCrashes \in Nat /\ MaxFailures \in Nat

VARIABLES
  logbuffer,            \* VpnStatus: the lines, oldest first
  mLogFileHandler,      \* "null", "set" (assigned) or "ready" (LOG_INIT is sent)
  messages,             \* the queue of its thread
  step,                 \* the thread: "idle", "reading", "trimming" or "writing"
  unread,               \* what readCacheContents has still to read
  itemsRead,
  toWrite,              \* lines the message at hand has still to write
  mLogFile,             \* the stream is open
  readFileLog,          \* the threads that wait for the cache go on
  file,                 \* the items on disk
  (* history and bounds *)
  lines, flushes, crashes, failures,
  restoredTo,           \* lines up to this one are of earlier processes
  uncached              \* lines logged too early, or whose write has failed

memoryVars == <<logbuffer, mLogFileHandler, messages>>
threadVars == <<step, unread, itemsRead, toWrite, mLogFile, readFileLog>>
historyVars == <<lines, flushes, crashes, failures, restoredTo, uncached>>
vars == <<memoryVars, threadVars, file, historyVars>>

-----------------------------------------------------------------------------
NoLength == -2
CutOff == -1
Corrupted == 0
IsLine(item) == item >= Corrupted

LOG_MESSAGE(line) == [what |-> "LOG_MESSAGE", line |-> line]
LOG_INIT == [what |-> "LOG_INIT"]
TRIM_LOG_FILE == [what |-> "TRIM_LOG_FILE"]
FLUSH_TO_DISK == [what |-> "FLUSH_TO_DISK"]

ProcessStarted ==
  /\ logbuffer = <<>> /\ mLogFileHandler = "null" /\ messages = <<>>
  /\ step = "idle" /\ unread = <<>> /\ itemsRead = 0 /\ toWrite = <<>>
  /\ mLogFile = FALSE /\ readFileLog = FALSE

Init ==
  /\ ProcessStarted
  /\ file = <<>>
  /\ lines = 0 /\ flushes = 0 /\ crashes = 0 /\ failures = 0
  /\ restoredTo = 0 /\ uncached = {}

-----------------------------------------------------------------------------
(* VpnStatus; newLogItem is synchronized *)

TooLong(buffer) == Len(buffer) > MAXLOGENTRIES + MAXLOGENTRIES \div 2

Trimmed(buffer) ==
  IF TooLong(buffer)
  THEN SubSeq(buffer, Len(buffer) - MAXLOGENTRIES + 1, Len(buffer))
  ELSE buffer

(* Nobody gets a message before the handler is assigned. *)
Send(batch) == messages' = IF mLogFileHandler = "null" THEN messages ELSE messages \o batch

TrimMessage(buffer) == IF TooLong(buffer) THEN <<TRIM_LOG_FILE>> ELSE <<>>

(* Faulty variant: the file is never trimmed. *)
newLogItemWithoutTrim ==
  /\ lines < MaxLines
  /\ lines' = lines + 1
  /\ logbuffer' = Trimmed(Append(logbuffer, lines'))
  /\ Send(<<LOG_MESSAGE(lines')>>)
  /\ uncached' = IF mLogFileHandler = "ready" THEN uncached ELSE uncached \cup {lines'}
  /\ UNCHANGED <<mLogFileHandler, threadVars, file, flushes, crashes, failures, restoredTo>>

newLogItem ==
  /\ lines < MaxLines
  /\ lines' = lines + 1
  /\ LET buffer == Append(logbuffer, lines')
     IN  /\ logbuffer' = Trimmed(buffer)
         /\ Send(<<LOG_MESSAGE(lines')>> \o TrimMessage(buffer))
  /\ uncached' = IF mLogFileHandler = "ready" THEN uncached ELSE uncached \cup {lines'}
  /\ UNCHANGED <<mLogFileHandler, threadVars, file, flushes, crashes, failures, restoredTo>>

(* initLogCache: the handler is assigned, then gets its first message. *)
AssignHandler ==
  /\ mLogFileHandler = "null"
  /\ mLogFileHandler' = "set"
  /\ UNCHANGED <<logbuffer, messages, threadVars, file, historyVars>>

SendInit ==
  /\ mLogFileHandler = "set"
  /\ mLogFileHandler' = "ready"
  /\ Send(<<LOG_INIT>>)
  /\ UNCHANGED <<logbuffer, threadVars, file, historyVars>>

flushLog ==
  /\ flushes < MaxFlushes /\ mLogFileHandler # "null"
  /\ flushes' = flushes + 1
  /\ Send(<<FLUSH_TO_DISK>>)
  /\ UNCHANGED <<logbuffer, mLogFileHandler, threadVars, file, lines, crashes, failures,
                 restoredTo, uncached>>

-----------------------------------------------------------------------------
(* The thread of the handler *)

Waiting(what) == step = "idle" /\ messages # <<>> /\ Head(messages).what = what

Receives(what) == Waiting(what) /\ messages' = Tail(messages)

ReadLogCache ==
  /\ Receives("LOG_INIT")
  /\ step' = "reading" /\ unread' = file /\ itemsRead' = 0
  /\ UNCHANGED <<logbuffer, mLogFileHandler, toWrite, mLogFile, readFileLog, file,
                 historyVars>>

(* newLogItem for a line that was read: it goes to the front of the buffer, *)
(* and the trimming is that of the other lines.                            *)
Restore(line) ==
  /\ LET buffer == <<line>> \o logbuffer
     IN  /\ logbuffer' = Trimmed(buffer)
         /\ Send(TrimMessage(buffer))
  /\ itemsRead' = itemsRead + 1
  /\ unread' = IF itemsRead' > 2 * MAXLOGENTRIES THEN <<>> ELSE Tail(unread)
  /\ UNCHANGED <<mLogFileHandler, step, toWrite, mLogFile, readFileLog, file, historyVars>>

(* Faulty variant: an item cut off is taken for a line wherever it is. *)
RestoreUnverified ==
  /\ step = "reading" /\ unread # <<>>
  /\ Restore(Head(unread))

RestoreLogItem ==
  /\ step = "reading" /\ unread # <<>> /\ IsLine(Head(unread))
  /\ Restore(Head(unread))

(* At the end of the file read() returns -1, and bytes of that value fill  *)
(* the item up: it is accepted if it was cut off in its last argument.     *)
RestoreCutOffItem ==
  /\ step = "reading" /\ unread = <<CutOff>>
  /\ Restore(Corrupted)

(* An item without its whole length takes the rest of it from what         *)
(* follows, and is read to the next magic byte after that: the reader goes *)
(* on behind an item it has swallowed, all those before it being as short. *)
(* If that is long enough for such a length, or the file ends, the reading *)
(* ends with an exception.                                                 *)
AfterNoLength(items) ==
  LET swallowed == {i \in 2 .. Len(items) : \A j \in 2 .. i - 1 : items[j] = NoLength}
  IN  {<<>>} \cup {SubSeq(items, i + 1, Len(items)) : i \in swallowed}

(* Faulty variant: the reader gives up where an item is cut off. *)
GiveUp ==
  /\ step = "reading" /\ unread # <<>> /\ ~IsLine(Head(unread))
  /\ UNCHANGED <<memoryVars, threadVars, file, historyVars>>

(* An item cut off is skipped at the next magic byte; at the end of the    *)
(* file, unless it is accepted, it is refused or ends the reading.         *)
SkipBrokenItem ==
  /\ step = "reading" /\ unread # <<>> /\ ~IsLine(Head(unread))
  /\ unread' \in IF Head(unread) = NoLength THEN AfterNoLength(unread) ELSE {Tail(unread)}
  /\ UNCHANGED <<memoryVars, step, itemsRead, toWrite, mLogFile, readFileLog, file,
                 historyVars>>

(* Opening the file empties it. *)
OpenLogFile ==
  /\ step = "reading" /\ unread = <<>>
  /\ step' = "idle" /\ readFileLog' = TRUE
  /\ mLogFile' = TRUE /\ file' = <<>>
  /\ UNCHANGED <<memoryVars, unread, itemsRead, toWrite, historyVars>>

OpenLogFileFails ==
  /\ step = "reading" /\ unread = <<>>
  /\ failures < MaxFailures
  /\ failures' = failures + 1
  /\ step' = "idle" /\ readFileLog' = TRUE
  /\ UNCHANGED <<memoryVars, unread, itemsRead, toWrite, mLogFile, file, lines, flushes,
                 crashes, restoredTo, uncached>>

WriteLogItem ==
  /\ Receives("LOG_MESSAGE") /\ mLogFile
  /\ step' = "writing" /\ toWrite' = <<Head(messages).line>>
  /\ UNCHANGED <<logbuffer, mLogFileHandler, unread, itemsRead, mLogFile, readFileLog, file,
                 historyVars>>

IgnoreLogItem ==
  /\ Receives("LOG_MESSAGE") /\ ~mLogFile
  /\ uncached' = uncached \cup {Head(messages).line}
  /\ UNCHANGED <<logbuffer, mLogFileHandler, threadVars, file, lines, flushes, crashes,
                 failures, restoredTo>>

(* trimLogFile: the file is emptied; the buffer is copied after that. *)
TrimLogFile ==
  /\ Receives("TRIM_LOG_FILE") /\ mLogFile
  /\ step' = "trimming" /\ file' = <<>>
  /\ UNCHANGED <<logbuffer, mLogFileHandler, unread, itemsRead, toWrite, mLogFile,
                 readFileLog, historyVars>>

(* Faulty variant: the oldest line is left out of a buffer that has grown. *)
CopyLastLines ==
  /\ step = "trimming"
  /\ step' = "writing"
  /\ toWrite' = IF Len(logbuffer) > MAXLOGENTRIES THEN Tail(logbuffer) ELSE logbuffer
  /\ UNCHANGED <<memoryVars, unread, itemsRead, mLogFile, readFileLog, file, historyVars>>

CopyLogBuffer ==
  /\ step = "trimming"
  /\ step' = "writing" /\ toWrite' = logbuffer
  /\ UNCHANGED <<memoryVars, unread, itemsRead, mLogFile, readFileLog, file, historyVars>>

(* Faulty variant: the thread writes the lines from the last to the first. *)
WriteBackwards ==
  /\ step = "writing" /\ toWrite # <<>>
  /\ file' = Append(file, toWrite[Len(toWrite)])
  /\ toWrite' = SubSeq(toWrite, 1, Len(toWrite) - 1)
  /\ UNCHANGED <<memoryVars, step, unread, itemsRead, mLogFile, readFileLog, historyVars>>

WriteEscapedBytes ==
  /\ step = "writing" /\ toWrite # <<>>
  /\ file' = Append(file, Head(toWrite))
  /\ toWrite' = Tail(toWrite)
  /\ UNCHANGED <<memoryVars, step, unread, itemsRead, mLogFile, readFileLog, historyVars>>

Written ==
  /\ step = "writing" /\ toWrite = <<>>
  /\ step' = "idle"
  /\ UNCHANGED <<memoryVars, unread, itemsRead, toWrite, mLogFile, readFileLog, file,
                 historyVars>>

(* An item is written in three pieces, of which some may be there. *)
CutOffWrite == {file, Append(file, NoLength), Append(file, CutOff)}

(* The exception ends the handling of the message, with all it has to write. *)
WriteFails ==
  /\ step = "writing" /\ toWrite # <<>>
  /\ failures < MaxFailures
  /\ failures' = failures + 1
  /\ file' \in CutOffWrite
  /\ uncached' = uncached \cup Range(toWrite)
  /\ step' = "idle" /\ toWrite' = <<>>
  /\ UNCHANGED <<memoryVars, unread, itemsRead, mLogFile, readFileLog, lines, flushes,
                 crashes, restoredTo>>

FlushToDisk ==
  /\ Receives("FLUSH_TO_DISK") /\ mLogFile
  /\ UNCHANGED <<logbuffer, mLogFileHandler, threadVars, file, historyVars>>

-----------------------------------------------------------------------------
(* The process ends and a new one is started. *)
NewProcess ==
  /\ logbuffer' = <<>> /\ mLogFileHandler' = "null" /\ messages' = <<>>
  /\ step' = "idle" /\ unread' = <<>> /\ itemsRead' = 0 /\ toWrite' = <<>>
  /\ mLogFile' = FALSE /\ readFileLog' = FALSE
  /\ restoredTo' = lines /\ uncached' = {}
  /\ UNCHANGED <<lines, flushes, failures>>

Crash ==
  /\ crashes < MaxCrashes
  /\ crashes' = crashes + 1
  /\ IF step = "writing" /\ toWrite # <<>> THEN file' \in CutOffWrite ELSE UNCHANGED file
  /\ NewProcess

(* Trimming or flushing a file that is not open is a null dereference,     *)
(* which nothing catches.                                                  *)
NullLogFile ==
  /\ \E what \in {"TRIM_LOG_FILE", "FLUSH_TO_DISK"} : Waiting(what)
  /\ ~mLogFile
  /\ NewProcess
  /\ UNCHANGED <<file, crashes>>

-----------------------------------------------------------------------------
VpnStatus == newLogItem \/ flushLog

(* initLogCache runs once in a process. *)
MainThread == AssignHandler \/ SendInit

HandlerThread ==
  \/ ReadLogCache \/ RestoreLogItem \/ RestoreCutOffItem \/ SkipBrokenItem
  \/ OpenLogFile \/ OpenLogFileFails
  \/ WriteLogItem \/ IgnoreLogItem \/ FlushToDisk \/ NullLogFile
  \/ TrimLogFile \/ CopyLogBuffer \/ WriteEscapedBytes \/ Written \/ WriteFails

Next == VpnStatus \/ MainThread \/ HandlerThread \/ Crash

(* Both threads get to run; nothing makes the VPN log. *)
Spec == Init /\ [][Next]_vars /\ WF_vars(MainThread) /\ WF_vars(HandlerThread)

-----------------------------------------------------------------------------
(* Properties *)

IsMessage(m) ==
  \/ m \in {LOG_INIT, TRIM_LOG_FILE, FLUSH_TO_DISK}
  \/ \E line \in 1 .. lines : m = LOG_MESSAGE(line)

(* The variables keep to their values: no broken item gets into memory as  *)
(* it is.  What the reader makes of the end of a file that was cut off is  *)
(* the only line there that was not logged.                                *)
TypeOK ==
  /\ Range(logbuffer) \cup Range(toWrite) \subseteq Corrupted .. lines
  /\ Range(file) \cup Range(unread) \subseteq NoLength .. lines
  /\ \A m \in Range(messages) : IsMessage(m)
  /\ mLogFileHandler \in {"null", "set", "ready"}
  /\ step \in {"idle", "reading", "trimming", "writing"}
  /\ mLogFile \in BOOLEAN /\ readFileLog \in BOOLEAN /\ itemsRead \in Nat
  /\ restoredTo \in 0 .. lines /\ uncached \subseteq Corrupted .. lines
  /\ lines \in 0 .. MaxLines /\ flushes \in 0 .. MaxFlushes
  /\ crashes \in 0 .. MaxCrashes /\ failures \in 0 .. MaxFailures

(* The lines of this process the cache has to take care of. *)
ToCache == {line \in Range(logbuffer) : line > restoredTo /\ line \notin uncached}

(* A line that is to be written, or a trim that writes the whole buffer. *)
Pending(line) ==
  \/ LOG_MESSAGE(line) \in Range(messages) \/ line \in Range(toWrite)
  \/ TRIM_LOG_FILE \in Range(messages) \/ step = "trimming"

(* However far the thread of the handler lags behind those that log, and   *)
(* whatever trims the queue has between the lines: a line of the buffer    *)
(* that was sent to the cache is on disk or will be.                       *)
CacheKeepsUp == \A line \in ToCache : line \in Range(file) \/ Pending(line)

(* A lagging trim writes lines that are then written again, and the file   *)
(* outgrows the buffer; the reader's limit of 2 * MAXLOGENTRIES items      *)
(* (which gives up after the item that exceeds it) cuts off nothing.       *)
LinesOnDisk == Cardinality({i \in DOMAIN file : IsLine(file[i])})

FileWithinReaderLimit == LinesOnDisk <= 2 * MAXLOGENTRIES + 1

(* Lines that were trimmed from the buffer while their messages were still *)
(* queued are written behind newer ones, and lines are written twice; once *)
(* the queue is empty the file has the lines of this process in the order  *)
(* they were logged, apart from repetitions.                               *)
InOrderWhenSettled ==
  (step = "idle" /\ messages = <<>>) =>
    \A i, j \in DOMAIN file :
      (i < j /\ restoredTo < file[j] /\ file[j] < file[i]) =>
        \E k \in 1 .. i : file[k] = file[j]

(* Whatever is cut off in the file or fails, the threads that wait for the *)
(* cache to be read go on, and every line that was sent to the cache, that *)
(* the buffer keeps and whose write has not failed gets to the disk.       *)
CacheCatchesUp == <>[](readFileLog /\ ToCache \subseteq Range(file))

=============================================================================
