----------------------------- MODULE LogManager -----------------------------
(***************************************************************************)
(* BGLogManager: any thread pushes entries into m_queue under m_queueLock, *)
(* and a thread of its own (Run) picks them one by one and writes them to  *)
(* files that are renewed when the hour changes.  Stop queues an entry     *)
(* that ends Run, joins the thread and closes the files.                   *)
(*                                                                         *)
(* A thread may be suspended between lock and unlock (module Shutdown), so *)
(* they are two steps; Run is never suspended, and its Pick is one step.   *)
(* The text of an entry is who wrote it and its level.  PushLog adds the   *)
(* time and the name of the function, so only Stop makes the text "STOP".  *)
(***************************************************************************)
EXTENDS Integers, Sequences

CONSTANTS Callers,   \* threads that write to the log
          Main,      \* the one that stops it
          Nobody,    \* no thread
          LogLevel,  \* of bg_config.ini: what is above it is written
          Day,       \* hours of a day: 24
          MaxHour    \* bound: the clock stops there

BG_NONE == 0
BG_DEBUG == 2
BG_INFO == 3
BG_WARNING == 4
BG_ERROR == 5
BG_FATAL == 6

ASSUME LogOK == /\ Main \in Callers /\ Nobody \notin Callers
                /\ LogLevel \in Nat /\ Day \in Nat \ {0} /\ MaxHour \in Nat

Level == BG_NONE..BG_FATAL
Entry == [level : Level, from : Callers, stop : BOOLEAN]

VARIABLES
    m_queue, m_queueLock,   \* the queue, and the thread in its lock
    m_pRunThread,           \* "null", "thread", or what was in the memory: "garbage"
    run,                    \* where Run is: "off", "pick", "write", "ended"
    picked,                 \* the entry Run has picked
    call, entry,            \* where each caller is in PushLog or Stop, with which entry
    now,                    \* the hour, counted from the start
    m_lastCreateFileName,   \* the hour of the day the files were renewed at, or -1
    file,                   \* the hour the open files are named after
    accepted, stopAt,       \* history: entries pushed, and how many before STOP
    written, errFile,       \* history: the default file and the err file
    closed                  \* the streams are closed

queueVars == <<m_queue, m_queueLock, call, entry, accepted, stopAt>>
runVars == <<m_pRunThread, run, picked, closed>>
fileVars == <<m_lastCreateFileName, file, written, errFile>>
logVars == <<queueVars, runVars, fileVars, now>>

NoEntry == [level |-> BG_NONE, from |-> Main, stop |-> FALSE]
StopEntry == [level |-> BG_INFO, from |-> Main, stop |-> TRUE]

\* m_pRunThread is not initialized by the constructor.
LogInit == /\ m_queue = <<>> /\ m_queueLock = Nobody
           /\ m_pRunThread \in {"null", "garbage"} /\ run = "off" /\ picked = NoEntry
           /\ call = [c \in Callers |-> "out"] /\ entry = [c \in Callers |-> NoEntry]
           /\ now = 0 /\ m_lastCreateFileName = -1 /\ file = 0
           /\ accepted = <<>> /\ stopAt = -1 /\ written = <<>> /\ errFile = <<>>
           /\ closed = FALSE

\* Start, after Init; it returns false unless m_pRunThread happens to be null.
Start == /\ run = "off" /\ m_pRunThread = "null"
         /\ m_pRunThread' = "thread" /\ run' = "pick"
         /\ UNCHANGED <<queueVars, fileVars, picked, closed, now>>

-----------------------------------------------------------------------------
\* CheckLogLevel.
CheckLogLevel(level) == level > LogLevel

\* PushLog: the entry is made, if its level is written.
PushLog(c, level) ==
    /\ run # "off" /\ call[c] = "out" /\ CheckLogLevel(level)
    /\ entry' = [entry EXCEPT ![c] = [level |-> level, from |-> c, stop |-> FALSE]]
    /\ call' = [call EXCEPT ![c] = "lock"]
    /\ UNCHANGED <<m_queue, m_queueLock, accepted, stopAt, runVars, fileVars, now>>

\* Stop: the entry STOP.
Stop ==
    /\ run # "off" /\ call[Main] = "out" /\ stopAt = -1
    /\ entry' = [entry EXCEPT ![Main] = StopEntry]
    /\ call' = [call EXCEPT ![Main] = "lock"]
    /\ UNCHANGED <<m_queue, m_queueLock, accepted, stopAt, runVars, fileVars, now>>

Lock(c) ==
    /\ call[c] = "lock" /\ m_queueLock = Nobody
    /\ m_queueLock' = c
    /\ call' = [call EXCEPT ![c] = "locked"]
    /\ UNCHANGED <<m_queue, entry, accepted, stopAt, runVars, fileVars, now>>

\* Fault: STOP overtakes the entries that wait.
QueueWithStopFirst(e) == IF e.stop THEN <<e>> \o m_queue ELSE Append(m_queue, e)
\* The queue after a push.
QueueWith(e) == Append(m_queue, e)

\* The push, and unlock.
Push(c) ==
    /\ call[c] = "locked"
    /\ m_queue' = QueueWith(entry[c])
    /\ IF entry[c].stop THEN stopAt' = Len(accepted) /\ UNCHANGED accepted
                        ELSE accepted' = Append(accepted, entry[c]) /\ UNCHANGED stopAt
    /\ m_queueLock' = Nobody
    /\ call' = [call EXCEPT ![c] = "out"]
    /\ UNCHANGED <<entry, runVars, fileVars, now>>

-----------------------------------------------------------------------------
\* Fault: STOP is written like any other entry.
IsStopRequestNever(e) == FALSE
IsStopRequest(e) == e.level = BG_INFO /\ e.stop
Valid(e) == e.level # BG_NONE

\* Run: Pick, and what follows of the entry.  An empty queue is picked again.
Pick ==
    /\ run = "pick" /\ m_queueLock = Nobody /\ m_queue # <<>>
    /\ picked' = Head(m_queue) /\ m_queue' = Tail(m_queue)
    /\ run' = IF ~Valid(picked') THEN "pick" ELSE IF IsStopRequest(picked') THEN "ended" ELSE "write"
    /\ UNCHANGED <<m_queueLock, call, entry, accepted, stopAt, m_pRunThread, closed, fileVars, now>>

\* The tables of Init: the default file takes the basic levels, err the serious ones.
IsBasicLogLevel(e) == e.level # BG_NONE
ForderErr(e) == e.level \in {BG_NONE, BG_WARNING, BG_ERROR, BG_FATAL}

\* Fault: the files are renewed every other hour.
MustRenewLate == (now % Day) \notin {m_lastCreateFileName, m_lastCreateFileName + 1}
\* CheckLogFileNameAndRenew compares the hours of the day.
MustRenew == now % Day # m_lastCreateFileName

\* Write, with RenewLogFileStream.
Write ==
    /\ run = "write" /\ run' = "pick"
    /\ IF MustRenew THEN m_lastCreateFileName' = now % Day /\ file' = now
                    ELSE UNCHANGED <<m_lastCreateFileName, file>>
    /\ written' = IF IsBasicLogLevel(picked)
                  THEN Append(written, [entry |-> picked, hour |-> now, file |-> file']) ELSE written
    /\ errFile' = IF ForderErr(picked) THEN Append(errFile, picked) ELSE errFile
    /\ UNCHANGED <<queueVars, m_pRunThread, picked, closed, now>>

\* Stop: join returns, and the streams are closed and deleted.
Join ==
    /\ stopAt # -1 /\ run = "ended" /\ m_pRunThread = "thread"
    /\ m_pRunThread' = "null" /\ closed' = TRUE
    /\ UNCHANGED <<queueVars, run, picked, fileVars, now>>

Hour == now < MaxHour /\ now' = now + 1 /\ UNCHANGED <<queueVars, runVars, fileVars>>

LogNext == \/ Start \/ Stop \/ Pick \/ Write \/ Join \/ Hour
           \/ \E c \in Callers : Lock(c) \/ Push(c) \/ \E l \in Level : PushLog(c, l)

LogSpec == LogInit /\ [][LogNext]_logVars

-----------------------------------------------------------------------------
\* The types of the log manager.
LogTypeOK ==
    /\ m_queue \in Seq(Entry) /\ m_queueLock \in Callers \union {Nobody}
    /\ m_pRunThread \in {"null", "garbage", "thread"} /\ run \in {"off", "pick", "write", "ended"}
    /\ picked \in Entry
    /\ call \in [Callers -> {"out", "lock", "locked"}] /\ entry \in [Callers -> Entry]
    /\ now \in 0..MaxHour /\ m_lastCreateFileName \in -1..(Day - 1) /\ file \in 0..MaxHour
    /\ accepted \in Seq(Entry) /\ errFile \in Seq(Entry) /\ stopAt \in Int
    /\ written \in Seq([entry : Entry, hour : 0..MaxHour, file : 0..MaxHour])
    /\ closed \in BOOLEAN

\* The files keep what was pushed, in the order of the lock, and are closed when
\* all that was pushed before STOP is in them (BGLogManager.cpp 97-111, 239-241,
\* 260-276, 333-342).
Files == INSTANCE LogFiles WITH
             Entry <- Entry, Serious <- ForderErr,
             logFile <- [i \in 1..Len(written) |-> written[i].entry]
LogKept == Files!Spec

\* Files are renewed by the hour (BGLogManager.cpp 280), but the check compares
\* hours of the day (290): an entry is in a file named after another hour only
\* if nothing had been written for at least a day.
MisfiledOnlyAfterADay ==
    \A i \in 1..Len(written) : written[i].file # written[i].hour =>
        \E j \in 2..i : /\ written[j].hour = written[i].hour
                        /\ written[j].hour - written[j-1].hour >= Day
=============================================================================
