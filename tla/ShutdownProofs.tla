--------------------------- MODULE ShutdownProofs ---------------------------
(***************************************************************************)
(* Machine-checked proofs about the log manager, alone and under the       *)
(* threads of the program, for every number of workers and every length of *)
(* a behaviour.                                                            *)
(*                                                                         *)
(* LogInv relates the queue to what is accepted and to what is written:    *)
(* the queue in front of STOP is the part of the accepted entries that     *)
(* still has to be written.                                                *)
(*                                                                         *)
(* ShutInv counts the packets that end workers: each that was posted is in *)
(* the port, with a worker that has still to suspend somebody, or used up  *)
(* by at most one suspension (Enough).  A worker that still has to suspend *)
(* somebody after main has gone on therefore means that a worker whose     *)
(* object is deleted still runs.                                           *)
(***************************************************************************)
EXTENDS Shutdown, SequenceTheorems, FiniteSetTheorems, TLAPS

Record == [entry : Entry, hour : 0..MaxHour, file : 0..MaxHour]

-----------------------------------------------------------------------------
\* Two hours that are the same hour of the day are at least a day apart.
LEMMA SameHour ==
    ASSUME NEW x \in Nat, NEW y \in Nat, NEW d \in Nat \ {0}, x % d = y % d, x < y
    PROVE  y - x >= d
  BY SMTT(60)

LEMMA EntriesMade == NoEntry \in Entry /\ StopEntry \in Entry
  BY LogOK DEF NoEntry, StopEntry, Entry, Level, BG_NONE, BG_INFO, BG_FATAL

LEMMA LogTypeInit == LogInit => LogTypeOK
  <1> SUFFICES ASSUME LogInit PROVE LogTypeOK
    OBVIOUS
  <1>1. /\ <<>> \in Seq(Entry) /\ <<>> \in Seq(Record) /\ NoEntry \in Entry
    BY EntriesMade, EmptySeq
  <1>2. /\ call \in [Callers -> {"out", "lock", "locked"}] /\ entry \in [Callers -> Entry]
    BY <1>1 DEF LogInit
  <1>3. now \in 0..MaxHour /\ m_lastCreateFileName \in -1..(Day - 1) /\ file \in 0..MaxHour /\ stopAt \in Int
    BY LogOK DEF LogInit
  <1>4. closed \in BOOLEAN /\ m_pRunThread \in {"null", "garbage", "thread"}
        /\ run \in {"off", "pick", "write", "ended"} /\ m_queueLock \in Callers \union {Nobody}
    BY DEF LogInit
  <1>5. m_queue \in Seq(Entry) /\ accepted \in Seq(Entry) /\ errFile \in Seq(Entry)
        /\ written \in Seq(Record) /\ picked \in Entry
    BY <1>1 DEF LogInit
  <1>6. QED
    BY <1>2, <1>3, <1>4, <1>5 DEF LogTypeOK, Record

LEMMA LogTypeStep == ASSUME LogTypeOK, [LogNext]_logVars PROVE LogTypeOK'
  <1> USE LogOK DEF queueVars, runVars, fileVars
  <1>a. LogTypeOK
    OBVIOUS
  <1>1. ASSUME Start PROVE LogTypeOK'
    BY <1>a, <1>1 DEF LogTypeOK, Start
  <1>2. ASSUME Stop PROVE LogTypeOK'
    BY <1>a, <1>2, EntriesMade DEF LogTypeOK, Stop
  <1>3. ASSUME Pick PROVE LogTypeOK'
    <2>1. Head(m_queue) \in Entry /\ Tail(m_queue) \in Seq(Entry)
      BY <1>3, HeadTailProperties DEF Pick, LogTypeOK
    <2>2. QED
      BY <1>a, <1>3, <2>1 DEF LogTypeOK, Pick
  <1>4. ASSUME Write PROVE LogTypeOK'
    <2>1. now % Day \in 0..(Day - 1) /\ now \in 0..MaxHour
      BY DEF LogTypeOK
    <2>2. m_lastCreateFileName' \in -1..(Day - 1) /\ file' \in 0..MaxHour
      BY <1>4, <2>1 DEF Write, LogTypeOK
    <2>3. [entry |-> picked, hour |-> now, file |-> file'] \in Record
      BY <2>1, <2>2 DEF Record, LogTypeOK
    <2>4. written' \in Seq(Record)
      BY <1>4, <2>3, AppendProperties DEF Write, LogTypeOK, Record
    <2>5. errFile' \in Seq(Entry)
      BY <1>4, AppendProperties DEF Write, LogTypeOK
    <2>6. QED
      BY <1>a, <1>4, <2>2, <2>4, <2>5 DEF LogTypeOK, Write, Record
  <1>5. ASSUME Join PROVE LogTypeOK'
    BY <1>a, <1>5 DEF LogTypeOK, Join
  <1>6. ASSUME Hour PROVE LogTypeOK'
    BY <1>a, <1>6 DEF LogTypeOK, Hour
  <1>7. ASSUME NEW c \in Callers, Lock(c) PROVE LogTypeOK'
    BY <1>a, <1>7 DEF LogTypeOK, Lock
  <1>8. ASSUME NEW c \in Callers, Push(c) PROVE LogTypeOK'
    <2>1. entry[c] \in Entry
      BY DEF LogTypeOK
    <2>2. m_queue' \in Seq(Entry)
      BY <1>8, <2>1, AppendProperties DEF Push, QueueWith, LogTypeOK
    <2>3. accepted' \in Seq(Entry) /\ stopAt' \in Int
      <3>1. Len(accepted) \in Int /\ Append(accepted, entry[c]) \in Seq(Entry)
        BY <2>1, AppendProperties, LenProperties DEF LogTypeOK
      <3>2. \/ accepted' = accepted /\ stopAt' = Len(accepted)
            \/ accepted' = Append(accepted, entry[c]) /\ stopAt' = stopAt
        BY <1>8 DEF Push
      <3>3. QED
        BY <3>1, <3>2 DEF LogTypeOK
    <2>4. QED
      BY <1>a, <1>8, <2>2, <2>3 DEF LogTypeOK, Push
  <1>9. ASSUME NEW c \in Callers, NEW l \in Level, PushLog(c, l) PROVE LogTypeOK'
    <2>1. [level |-> l, from |-> c, stop |-> FALSE] \in Entry
      BY DEF Entry
    <2>2. QED
      BY <1>a, <1>9, <2>1 DEF LogTypeOK, PushLog
  <1>10. CASE UNCHANGED logVars
    BY <1>a, <1>10 DEF LogTypeOK, logVars
  <1>11. QED
    BY <1>1, <1>2, <1>3, <1>4, <1>5, <1>6, <1>7, <1>8, <1>9, <1>10 DEF LogNext

-----------------------------------------------------------------------------
\* The queue, the entry in Run's hands and the files.

\* How many entries Run has taken out of the queue to write them.
Taken == IF run = "write" THEN Len(written) + 1 ELSE Len(written)

\* An entry that is written to the files, and is not the request to stop.
Plain(e) == e.level # BG_NONE /\ ~e.stop

\* Where STOP is in the queue.
StopPlace == stopAt - Taken + 1

NotYetStopped ==
    /\ run # "ended" /\ ~closed
    /\ Len(accepted) = Taken + Len(m_queue)
    /\ \A k \in 1..Len(m_queue) : m_queue[k] = accepted[Taken + k]

Stopping ==
    /\ stopAt \in 0..Len(accepted) /\ ~closed
    /\ StopPlace \in 1..Len(m_queue) /\ m_queue[StopPlace] = StopEntry
    /\ \A k \in 1..(StopPlace - 1) : m_queue[k] = accepted[Taken + k]

Ended == /\ stopAt \in 0..Len(accepted)
         /\ Len(written) = stopAt
         /\ closed => m_pRunThread = "null"

LogInv ==
    /\ \A k \in 1..Len(accepted) : Plain(accepted[k])
    /\ \A c \in Callers : call[c] # "out" =>
           \/ Plain(entry[c])
           \/ c = Main /\ entry[c] = StopEntry /\ stopAt = -1
    /\ run = "write" => Taken <= Len(accepted) /\ picked = accepted[Taken]
    /\ IF stopAt = -1 THEN NotYetStopped ELSE IF run = "ended" THEN Ended ELSE Stopping

LEMMA LogLengths ==
    ASSUME LogTypeOK
    PROVE  /\ Len(m_queue) \in Nat /\ Len(accepted) \in Nat /\ Len(written) \in Nat
           /\ Taken \in Nat /\ stopAt \in Int
           /\ m_queue \in Seq(Entry) /\ accepted \in Seq(Entry) /\ written \in Seq(Record)
           /\ call \in [Callers -> {"out", "lock", "locked"}] /\ entry \in [Callers -> Entry]
           /\ Main \in Callers
  BY LenProperties, LogOK DEF LogTypeOK, Taken, Record

LEMMA LogInvInit == LogInit => LogInv
  <1> SUFFICES ASSUME LogInit PROVE LogInv
    OBVIOUS
  <1>1. Len(<<>>) = 0
    OBVIOUS
  <1>2. Len(m_queue) = 0 /\ Len(accepted) = 0 /\ Len(written) = 0 /\ stopAt = -1
    BY <1>1 DEF LogInit
  <1>3. run = "off" /\ ~closed /\ \A c \in Callers : call[c] = "out"
    BY DEF LogInit
  <1>4. Taken = 0
    BY <1>2, <1>3 DEF Taken
  <1>5. QED
    BY <1>2, <1>3, <1>4 DEF LogInv, NotYetStopped

\* A step that leaves the queue and the files alone, and does not end Run.
LEMMA LogQuiet ==
    ASSUME LogTypeOK, LogInv,
           UNCHANGED <<m_queue, accepted, stopAt, written, picked>>,
           UNCHANGED <<run, closed, m_pRunThread>> \/ (run = "off" /\ run' = "pick" /\ closed' = closed),
           \A c \in Callers : call'[c] # "out" =>
               \/ call[c] # "out" /\ entry'[c] = entry[c]
               \/ Plain(entry'[c])
               \/ c = Main /\ entry'[c] = StopEntry /\ stopAt = -1
    PROVE  LogInv'
  <1>1. Taken' = Taken
    BY DEF Taken
  <1>2. StopPlace' = StopPlace
    BY <1>1 DEF StopPlace
  <1>3. \A c \in Callers : call'[c] # "out" =>
           Plain(entry'[c]) \/ (c = Main /\ entry'[c] = StopEntry /\ stopAt' = -1)
    BY DEF LogInv
  <1>4. run' = "write" => Taken' <= Len(accepted') /\ picked' = accepted'[Taken']
    BY <1>1 DEF LogInv
  <1>5. CASE stopAt = -1
    <2>1. NotYetStopped
      BY <1>5 DEF LogInv
    <2>2. NotYetStopped'
      BY <1>1, <2>1 DEF NotYetStopped
    <2>3. QED
      BY <1>3, <1>4, <1>5, <2>2 DEF LogInv
  <1>6. CASE stopAt # -1 /\ run = "ended"
    <2>1. Ended /\ run' = "ended"
      BY <1>6 DEF LogInv
    <2>2. Ended'
      BY <1>6, <2>1 DEF Ended
    <2>3. QED
      BY <1>3, <1>4, <1>6, <2>1, <2>2 DEF LogInv
  <1>7. CASE stopAt # -1 /\ run # "ended"
    <2>1. Stopping /\ run' # "ended"
      BY <1>7 DEF LogInv
    <2>2. Stopping'
      BY <1>1, <1>2, <2>1 DEF Stopping
    <2>3. QED
      BY <1>3, <1>4, <1>7, <2>1, <2>2 DEF LogInv
  <1>8. QED
    BY <1>5, <1>6, <1>7

\* A push: an entry, or STOP.
LEMMA LogPush ==
    ASSUME LogTypeOK, LogInv, NEW c \in Callers, Push(c) PROVE LogInv'
  <1> DEFINE e == entry[c]
  <1>1. /\ m_queue' = Append(m_queue, e) /\ call[c] = "locked"
        /\ call' = [call EXCEPT ![c] = "out"]
        /\ UNCHANGED <<entry, run, picked, closed, m_pRunThread, written>>
    BY DEF Push, QueueWith, runVars, fileVars
  <1>2. e \in Entry /\ (Plain(e) \/ (c = Main /\ e = StopEntry /\ stopAt = -1))
    BY <1>1, LogLengths DEF LogInv
  <1>3. /\ Len(m_queue') = Len(m_queue) + 1 /\ m_queue'[Len(m_queue) + 1] = e
        /\ \A k \in 1..Len(m_queue) : m_queue'[k] = m_queue[k]
    BY <1>1, <1>2, AppendProperties, LogLengths
  <1>4. Taken' = Taken
    BY <1>1 DEF Taken
  <1> HIDE DEF e
  <1>5. \A d \in Callers : call'[d] # "out" => d # c /\ call[d] # "out" /\ entry'[d] = entry[d]
    BY <1>1, LogLengths
  <1>6. CASE e.stop
    <2>1. c = Main /\ e = StopEntry /\ stopAt = -1
      BY <1>2, <1>6 DEF Plain
    <2>2. stopAt' = Len(accepted) /\ accepted' = accepted
      BY <1>6 DEF Push, e
    <2>3. NotYetStopped
      BY <2>1 DEF LogInv
    <2>4. StopPlace' = Len(m_queue) + 1
      <3>1. Len(accepted) = Taken + Len(m_queue)
        BY <2>3 DEF NotYetStopped
      <3>2. StopPlace' = Len(accepted) - Taken + 1
        BY <1>4, <2>2 DEF StopPlace
      <3>3. QED
        BY <3>1, <3>2, LogLengths
    <2>5. \A k \in 1..Len(m_queue) : m_queue'[k] = accepted[Taken + k]
      BY <1>3, <2>3 DEF NotYetStopped
    <2>6. /\ StopPlace' \in 1..Len(m_queue') /\ StopPlace' - 1 = Len(m_queue)
          /\ stopAt' \in 0..Len(accepted') /\ stopAt' # -1
      BY <1>3, <2>2, <2>4, LogLengths
    <2>7. Stopping'
      BY <1>1, <1>3, <1>4, <2>1, <2>2, <2>3, <2>4, <2>5, <2>6 DEF Stopping, NotYetStopped
    <2>8. \A d \in Callers : call'[d] # "out" => Plain(entry'[d])
      BY <1>5, <2>1 DEF LogInv
    <2>9. run' # "ended"
      BY <1>1, <2>3 DEF NotYetStopped
    <2>10. /\ \A k \in 1..Len(accepted') : Plain(accepted'[k])
           /\ run' = "write" => Taken' <= Len(accepted') /\ picked' = accepted'[Taken']
      BY <1>1, <1>4, <2>2 DEF LogInv
    <2>11. QED
      BY <2>6, <2>7, <2>8, <2>9, <2>10 DEF LogInv
  <1>7. CASE ~e.stop
    <2>1. accepted' = Append(accepted, e) /\ stopAt' = stopAt
      BY <1>7 DEF Push, e
    <2>2. Plain(e)
      BY <1>2, <1>7 DEF StopEntry
    <2>3. /\ Len(accepted') = Len(accepted) + 1 /\ accepted'[Len(accepted) + 1] = e
          /\ \A k \in 1..Len(accepted) : accepted'[k] = accepted[k]
      BY <1>2, <2>1, AppendProperties, LogLengths
    <2>4. \A k \in 1..Len(accepted') : Plain(accepted'[k])
      <3>1. SUFFICES ASSUME NEW k \in 1..Len(accepted') PROVE Plain(accepted'[k])
        OBVIOUS
      <3>2. k = Len(accepted) + 1 \/ k \in 1..Len(accepted)
        BY <2>3, LogLengths
      <3>3. QED
        BY <2>2, <2>3, <3>2 DEF LogInv
    <2>5. \A d \in Callers : call'[d] # "out" =>
             Plain(entry'[d]) \/ (d = Main /\ entry'[d] = StopEntry /\ stopAt' = -1)
      BY <1>5, <2>1 DEF LogInv
    <2>6. run' = "write" => Taken' <= Len(accepted') /\ picked' = accepted'[Taken']
      <3>1. SUFFICES ASSUME run' = "write" PROVE Taken <= Len(accepted') /\ picked = accepted'[Taken]
        BY <1>1, <1>4
      <3>2. Taken <= Len(accepted) /\ picked = accepted[Taken] /\ Taken = Len(written) + 1
        BY <1>1, <3>1 DEF LogInv, Taken
      <3>3. Taken \in 1..Len(accepted)
        BY <3>2, LogLengths
      <3>4. QED
        BY <2>3, <3>2, <3>3, LogLengths
    <2>7. CASE stopAt = -1
      <3>1. NotYetStopped
        BY <2>7 DEF LogInv
      <3>2. Len(accepted') = Taken + Len(m_queue')
        BY <1>3, <2>3, <3>1, LogLengths DEF NotYetStopped
      <3>3. ASSUME NEW k \in 1..Len(m_queue') PROVE m_queue'[k] = accepted'[Taken + k]
        <4>1. CASE k = Len(m_queue) + 1
          <5>1. Taken + k = Len(accepted) + 1
            BY <3>1, <4>1, LogLengths DEF NotYetStopped
          <5>2. QED
            BY <1>3, <2>3, <4>1, <5>1
        <4>2. CASE k # Len(m_queue) + 1
          <5>1. k \in 1..Len(m_queue)
            BY <1>3, <4>2, LogLengths
          <5>2. m_queue'[k] = accepted[Taken + k]
            BY <1>3, <3>1, <5>1 DEF NotYetStopped
          <5>3. Taken + k \in 1..Len(accepted)
            BY <3>1, <5>1, LogLengths DEF NotYetStopped
          <5>4. QED
            BY <2>3, <5>2, <5>3
        <4>3. QED
          BY <4>1, <4>2
      <3>4. NotYetStopped'
        BY <1>1, <1>4, <3>1, <3>2, <3>3 DEF NotYetStopped
      <3>5. QED
        BY <2>1, <2>4, <2>5, <2>6, <2>7, <3>4 DEF LogInv
    <2>8. CASE stopAt # -1 /\ run = "ended"
      <3>1. Ended
        BY <2>8 DEF LogInv
      <3>2. stopAt' \in 0..Len(accepted')
        BY <2>1, <2>3, <3>1, LogLengths DEF Ended
      <3>3. Ended'
        BY <1>1, <2>1, <3>1, <3>2 DEF Ended
      <3>4. QED
        BY <1>1, <2>1, <2>4, <2>5, <2>6, <2>8, <3>3 DEF LogInv
    <2>9. CASE stopAt # -1 /\ run # "ended"
      <3>1. Stopping
        BY <2>9 DEF LogInv
      <3>2. StopPlace' = StopPlace
        BY <1>4, <2>1 DEF StopPlace
      <3>3. /\ StopPlace \in 1..Len(m_queue) /\ StopPlace \in 1..Len(m_queue')
            /\ stopAt \in 0..Len(accepted) /\ stopAt \in 0..Len(accepted')
        BY <1>3, <2>3, <3>1, LogLengths DEF Stopping
      <3>4. m_queue'[StopPlace] = StopEntry
        BY <1>3, <3>1, <3>3 DEF Stopping
      <3>5. ASSUME NEW k \in 1..(StopPlace - 1) PROVE m_queue'[k] = accepted'[Taken + k]
        <4>1. k \in 1..Len(m_queue)
          BY <3>3, LogLengths
        <4>2. m_queue'[k] = accepted[Taken + k]
          BY <1>3, <3>1, <4>1 DEF Stopping
        <4>3. Taken + k \in 1..Len(accepted)
          BY <3>3, LogLengths DEF StopPlace
        <4>4. QED
          BY <2>3, <4>2, <4>3
      <3>6. Stopping'
        BY <1>1, <1>4, <2>1, <3>1, <3>2, <3>3, <3>4, <3>5 DEF Stopping
      <3>7. QED
        BY <1>1, <2>1, <2>4, <2>5, <2>6, <2>9, <3>6 DEF LogInv
    <2>10. QED
      BY <2>7, <2>8, <2>9
  <1>8. QED
    BY <1>6, <1>7

\* Run takes the next entry, or STOP.
LEMMA LogPick ==
    ASSUME LogTypeOK, LogInv, Pick PROVE LogInv'
  <1>1. /\ run = "pick" /\ m_queue # <<>> /\ picked' = Head(m_queue) /\ m_queue' = Tail(m_queue)
        /\ run' = IF ~Valid(picked') THEN "pick" ELSE IF IsStopRequest(picked') THEN "ended" ELSE "write"
        /\ UNCHANGED <<call, entry, accepted, stopAt, m_pRunThread, closed, written>>
    BY DEF Pick, fileVars
  <1>2. /\ Len(m_queue) > 0 /\ Len(m_queue') = Len(m_queue) - 1
        /\ \A k \in 1..Len(m_queue') : m_queue'[k] = m_queue[k+1]
    BY <1>1, HeadTailProperties, EmptySeq, LogLengths
  <1>3. 1 \in 1..Len(m_queue) /\ picked' = m_queue[1]
    BY <1>1, <1>2, LogLengths
  <1>4. Taken = Len(written)
    BY <1>1 DEF Taken
  <1>5. /\ \A k \in 1..Len(accepted') : Plain(accepted'[k])
        /\ \A c \in Callers : call'[c] # "out" =>
               Plain(entry'[c]) \/ (c = Main /\ entry'[c] = StopEntry /\ stopAt' = -1)
    BY <1>1 DEF LogInv
  <1>6. ASSUME picked' = accepted[Taken + 1], Taken + 1 \in 1..Len(accepted)
        PROVE  /\ run' = "write" /\ Taken' = Taken + 1
               /\ Taken' <= Len(accepted') /\ picked' = accepted'[Taken']
    <2>1. Plain(picked')
      BY <1>6 DEF LogInv
    <2>2. run' = "write"
      BY <1>1, <2>1 DEF Plain, Valid, IsStopRequest
    <2>3. Taken' = Taken + 1
      BY <1>1, <1>4, <2>2 DEF Taken
    <2>4. QED
      BY <1>1, <1>6, <2>2, <2>3, LogLengths
  <1>7. CASE stopAt = -1
    <2>1. NotYetStopped
      BY <1>7 DEF LogInv
    <2>2. picked' = accepted[Taken + 1] /\ Taken + 1 \in 1..Len(accepted)
      BY <1>2, <1>3, <2>1, LogLengths DEF NotYetStopped
    <2>3. run' = "write" /\ Taken' = Taken + 1
      BY <1>6, <2>2
    <2>4. Len(accepted') = Taken' + Len(m_queue')
      BY <1>1, <1>2, <2>1, <2>3, LogLengths DEF NotYetStopped
    <2>5. ASSUME NEW k \in 1..Len(m_queue') PROVE m_queue'[k] = accepted'[Taken' + k]
      <3>1. k + 1 \in 1..Len(m_queue) /\ Taken' + k = Taken + (k + 1)
        BY <1>2, <2>3, LogLengths
      <3>2. m_queue'[k] = accepted[Taken + (k + 1)]
        BY <1>2, <2>1, <3>1 DEF NotYetStopped
      <3>3. QED
        BY <1>1, <3>1, <3>2
    <2>6. NotYetStopped'
      BY <1>1, <2>1, <2>3, <2>4, <2>5 DEF NotYetStopped
    <2>7. QED
      BY <1>1, <1>5, <1>6, <1>7, <2>2, <2>6 DEF LogInv
  <1>8. CASE stopAt # -1
    <2>1. Stopping
      BY <1>1, <1>8 DEF LogInv
    <2>2. StopPlace \in Int /\ StopPlace = stopAt - Taken + 1
      BY LogLengths DEF StopPlace
    <2>3. CASE StopPlace = 1
      <3>1. picked' = StopEntry
        BY <1>3, <2>1, <2>3 DEF Stopping
      <3>2. run' = "ended"
        BY <1>1, <3>1 DEF StopEntry, Valid, IsStopRequest, BG_INFO, BG_NONE
      <3>3. Len(written) = stopAt
        BY <1>4, <2>2, <2>3, LogLengths
      <3>4. Ended'
        BY <1>1, <2>1, <3>3 DEF Ended, Stopping
      <3>5. QED
        BY <1>1, <1>5, <1>8, <3>2, <3>4 DEF LogInv
    <2>4. CASE StopPlace # 1
      <3>1. StopPlace \in 1..Len(m_queue) /\ stopAt \in 0..Len(accepted)
        BY <2>1 DEF Stopping
      <3>2. 1 \in 1..(StopPlace - 1) /\ StopPlace - 1 \in 1..Len(m_queue') /\ Taken + 1 \in 1..Len(accepted)
        BY <1>2, <2>2, <2>4, <3>1, LogLengths
      <3>3. picked' = accepted[Taken + 1]
        BY <1>3, <2>1, <3>2 DEF Stopping
      <3>4. run' = "write" /\ Taken' = Taken + 1
        BY <1>6, <3>2, <3>3
      <3>5. StopPlace' = StopPlace - 1
        <4>1. StopPlace' = stopAt - (Taken + 1) + 1
          BY <1>1, <3>4 DEF StopPlace
        <4>2. QED
          BY <2>2, <4>1, LogLengths
      <3>6. m_queue'[StopPlace - 1] = StopEntry
        <4>1. m_queue'[StopPlace - 1] = m_queue[(StopPlace - 1) + 1] /\ (StopPlace - 1) + 1 = StopPlace
          BY <1>2, <2>2, <3>2
        <4>2. QED
          BY <2>1, <4>1 DEF Stopping
      <3>7. ASSUME NEW k \in 1..(StopPlace - 2) PROVE m_queue'[k] = accepted'[Taken' + k]
        <4>1. k + 1 \in 1..(StopPlace - 1) /\ k \in 1..Len(m_queue')
          BY <1>2, <2>2, <3>1, LogLengths
        <4>2. m_queue'[k] = accepted[Taken + (k + 1)]
          BY <1>2, <2>1, <4>1 DEF Stopping
        <4>3. Taken' + k = Taken + (k + 1)
          BY <3>4, LogLengths
        <4>4. QED
          BY <1>1, <4>2, <4>3
      <3>8. (StopPlace - 1) - 1 = StopPlace - 2
        BY <2>2
      <3>9. Stopping'
        BY <1>1, <2>1, <3>1, <3>2, <3>5, <3>6, <3>7, <3>8 DEF Stopping
      <3>10. QED
        BY <1>1, <1>5, <1>6, <1>8, <3>2, <3>3, <3>4, <3>9 DEF LogInv
    <2>5. QED
      BY <2>3, <2>4
  <1>9. QED
    BY <1>7, <1>8

\* What Write writes: every entry, to the default file.
LEMMA WriteFacts ==
    ASSUME LogTypeOK, LogInv, Write
    PROVE  /\ run = "write" /\ run' = "pick" /\ Plain(picked)
           /\ picked = accepted[Len(written) + 1] /\ Len(written) + 1 \in 1..Len(accepted)
           /\ written' = Append(written, [entry |-> picked, hour |-> now, file |-> file'])
           /\ [entry |-> picked, hour |-> now, file |-> file'] \in Record
           /\ Len(written') = Len(written) + 1
           /\ \A i \in 1..Len(written) : written'[i] = written[i]
           /\ written'[Len(written) + 1] = [entry |-> picked, hour |-> now, file |-> file']
           /\ UNCHANGED <<queueVars, m_pRunThread, picked, closed, now>>
  <1> DEFINE r == [entry |-> picked, hour |-> now, file |-> file']
  <1>1. /\ run = "write" /\ run' = "pick"
        /\ UNCHANGED <<queueVars, m_pRunThread, picked, closed, now>>
    BY DEF Write
  <1>2. Taken = Len(written) + 1 /\ picked = accepted[Taken] /\ Taken <= Len(accepted)
    BY <1>1 DEF LogInv, Taken
  <1>3. Taken \in 1..Len(accepted)
    BY <1>2, LogLengths
  <1>4. Plain(picked)
    BY <1>2, <1>3 DEF LogInv
  <1>5. written' = Append(written, r)
    BY <1>4 DEF Write, IsBasicLogLevel, Plain
  <1>6. file' \in 0..MaxHour
    BY DEF Write, LogTypeOK
  <1>7. r \in Record
    BY <1>6 DEF Record, LogTypeOK
  <1>8. /\ Len(written') = Len(written) + 1 /\ written'[Len(written) + 1] = r
        /\ \A i \in 1..Len(written) : written'[i] = written[i]
    BY <1>5, <1>7, AppendProperties, LogLengths
  <1>9. QED
    BY <1>1, <1>2, <1>3, <1>4, <1>5, <1>7, <1>8

LEMMA LogWrite ==
    ASSUME LogTypeOK, LogInv, Write PROVE LogInv'
  <1>1. /\ run = "write" /\ run' = "pick" /\ Len(written') = Len(written) + 1
        /\ UNCHANGED <<m_queue, call, entry, accepted, stopAt, closed>>
    BY WriteFacts DEF queueVars
  <1>2. Taken' = Taken
    BY <1>1 DEF Taken
  <1>3. StopPlace' = StopPlace
    BY <1>1, <1>2 DEF StopPlace
  <1>4. CASE stopAt = -1
    <2>1. NotYetStopped'
      BY <1>1, <1>2, <1>4 DEF LogInv, NotYetStopped
    <2>2. QED
      BY <1>1, <1>4, <2>1 DEF LogInv
  <1>5. CASE stopAt # -1
    <2>1. Stopping
      BY <1>1, <1>5 DEF LogInv
    <2>2. Stopping'
      BY <1>1, <1>2, <1>3, <2>1 DEF Stopping
    <2>3. QED
      BY <1>1, <1>5, <2>2 DEF LogInv
  <1>6. QED
    BY <1>4, <1>5

LEMMA LogInvStep == ASSUME LogTypeOK, LogInv, [LogNext]_logVars PROVE LogInv'
  <1>a. /\ call \in [Callers -> {"out", "lock", "locked"}] /\ entry \in [Callers -> Entry]
        /\ Main \in Callers
    BY LogLengths
  <1> USE DEF queueVars, runVars, fileVars
  <1>1. ASSUME Start \/ Hour \/ UNCHANGED logVars PROVE LogInv'
    <2>1. /\ UNCHANGED <<m_queue, accepted, stopAt, written, picked, call, entry>>
          /\ \/ UNCHANGED <<run, closed, m_pRunThread>>
             \/ run = "off" /\ run' = "pick" /\ closed' = closed
      BY <1>1 DEF Start, Hour, logVars
    <2>2. QED
      BY <2>1, LogQuiet
  <1>2. ASSUME NEW c \in Callers, Lock(c) PROVE LogInv'
    <2>1. /\ UNCHANGED <<m_queue, accepted, stopAt, written, picked, run, closed, m_pRunThread, entry>>
          /\ call[c] = "lock" /\ call' = [call EXCEPT ![c] = "locked"]
      BY <1>2 DEF Lock
    <2>2. \A d \in Callers : call'[d] # "out" => call[d] # "out"
      BY <1>a, <2>1
    <2>3. QED
      BY <2>1, <2>2, LogQuiet
  <1>3. ASSUME NEW c \in Callers, NEW e \in Entry,
               Plain(e) \/ (c = Main /\ e = StopEntry /\ stopAt = -1),
               entry' = [entry EXCEPT ![c] = e], call' = [call EXCEPT ![c] = "lock"],
               UNCHANGED <<m_queue, accepted, stopAt, written, picked, run, closed, m_pRunThread>>
        PROVE  LogInv'
    <2>1. \A d \in Callers : \/ d = c /\ entry'[d] = e
                             \/ d # c /\ call'[d] = call[d] /\ entry'[d] = entry[d]
      BY <1>a, <1>3
    <2>2. QED
      BY <1>3, <2>1, LogQuiet
  <1>4. ASSUME NEW c \in Callers, NEW l \in Level, PushLog(c, l) PROVE LogInv'
    <2>1. [level |-> l, from |-> c, stop |-> FALSE] \in Entry
      BY LogOK DEF Entry
    <2>2. l # BG_NONE
      <3>1. l \in 0..6 /\ l > LogLevel /\ LogLevel \in Nat
        BY <1>4, LogOK DEF PushLog, CheckLogLevel, Level, BG_NONE, BG_FATAL
      <3>2. QED
        BY <3>1 DEF BG_NONE
    <2>3. Plain([level |-> l, from |-> c, stop |-> FALSE])
      BY <2>2 DEF Plain
    <2>4. QED
      BY <1>3, <1>4, <2>1, <2>3 DEF PushLog
  <1>5. ASSUME Stop PROVE LogInv'
    BY <1>3, <1>5, <1>a, EntriesMade DEF Stop
  <1>6. ASSUME Join PROVE LogInv'
    <2>1. /\ stopAt # -1 /\ run = "ended" /\ m_pRunThread' = "null"
          /\ UNCHANGED <<m_queue, call, entry, accepted, stopAt, run, picked, written>>
      BY <1>6 DEF Join
    <2>2. Ended'
      BY <2>1 DEF LogInv, Ended
    <2>3. QED
      BY <2>1, <2>2 DEF LogInv
  <1>7. QED
    BY <1>1, <1>2, <1>4, <1>5, <1>6, LogPush, LogPick, LogWrite DEF LogNext

LEMMA LogHolds == LogSpec => [](LogTypeOK /\ LogInv)
  <1>1. LogTypeOK /\ LogInv /\ [LogNext]_logVars => (LogTypeOK /\ LogInv)'
    BY LogTypeStep, LogInvStep
  <1>2. LogInit => LogTypeOK /\ LogInv
    BY LogTypeInit, LogInvInit
  <1>3. QED
    BY <1>1, <1>2, PTL DEF LogSpec

-----------------------------------------------------------------------------
\* The default file as LogFiles sees it.
LogFile == [i \in 1..Len(written) |-> written[i].entry]

LEMMA LogStepKept ==
    ASSUME LogTypeOK, LogInv, [LogNext]_logVars PROVE [Files!Next]_(Files!vars)
  <1> USE DEF queueVars, runVars, fileVars
  <1>a. Len(LogFile) = Len(written) /\ Len(written) \in Nat
    BY LogLengths DEF LogFile
  <1>1. ASSUME NEW c \in Callers, Push(c) PROVE Files!Accept \/ Files!Stop
    <2>1. entry[c] \in Entry /\ call[c] = "locked" /\ UNCHANGED <<written, errFile, closed>>
      BY <1>1, LogLengths DEF Push
    <2>2. CASE entry[c].stop
      <3>1. stopAt = -1
        BY <2>1, <2>2 DEF LogInv, Plain
      <3>2. QED
        BY <1>1, <2>1, <2>2, <3>1 DEF Push, Files!Stop
    <2>3. CASE ~entry[c].stop
      BY <1>1, <2>1, <2>3 DEF Push, Files!Accept
    <2>4. QED
      BY <2>2, <2>3
  <1>2. ASSUME Write PROVE Files!Write
    <2>1. /\ picked = accepted[Len(written) + 1] /\ Len(written') = Len(written) + 1
          /\ \A i \in 1..Len(written) : written'[i] = written[i]
          /\ written'[Len(written) + 1].entry = picked
          /\ UNCHANGED <<accepted, stopAt, closed>>
      BY <1>2, WriteFacts
    <2>2. Len(written) < Files!ToWrite
      <3>1. Len(written) + 1 \in 1..Len(accepted) /\ run = "write" /\ Taken = Len(written) + 1
        BY <1>2, WriteFacts DEF Taken
      <3>2. CASE stopAt = -1
        BY <3>1, <3>2, LogLengths DEF Files!ToWrite
      <3>3. CASE stopAt # -1
        <4>1. stopAt - (Len(written) + 1) + 1 \in 1..Len(m_queue)
          BY <3>1, <3>3 DEF LogInv, Stopping, StopPlace
        <4>2. QED
          BY <3>3, <4>1, LogLengths DEF Files!ToWrite
      <3>4. QED
        BY <3>2, <3>3
    <2>3. LogFile' = Append(LogFile, picked)
      <3>1. \A i \in 1..Len(written) : written[i] \in Record
        BY LogLengths, ElementOfSeq
      <3>2. LogFile \in Seq(Entry)
        BY <3>1, LogLengths DEF LogFile, Record
      <3>3. picked \in Entry
        BY DEF LogTypeOK
      <3>4. /\ Append(LogFile, picked) \in Seq(Entry)
            /\ Len(Append(LogFile, picked)) = Len(written) + 1
            /\ \A i \in 1..Len(written) : Append(LogFile, picked)[i] = LogFile[i]
            /\ Append(LogFile, picked)[Len(written) + 1] = picked
        BY <1>a, <3>2, <3>3, AppendProperties
      <3>5. /\ LogFile' = [i \in 1..(Len(written) + 1) |-> written'[i].entry]
            /\ \A i \in 1..Len(written) : LogFile[i] = written[i].entry
        BY <2>1 DEF LogFile
      <3>6. ASSUME NEW i \in 1..(Len(written) + 1)
            PROVE  Append(LogFile, picked)[i] = written'[i].entry
        <4>1. CASE i = Len(written) + 1
          BY <2>1, <3>4, <4>1
        <4>2. CASE i # Len(written) + 1
          <5>1. i \in 1..Len(written)
            BY <1>a, <4>2
          <5>2. QED
            BY <2>1, <3>4, <3>5, <5>1
        <4>3. QED
          BY <4>1, <4>2
      <3>7. Append(LogFile, picked) = [i \in 1..(Len(written) + 1) |-> Append(LogFile, picked)[i]]
        BY <3>4, LenProperties
      <3>8. QED
        BY <3>5, <3>6, <3>7
    <2>4. errFile' = IF ForderErr(picked) THEN Append(errFile, picked) ELSE errFile
      BY <1>2 DEF Write
    <2>5. QED
      BY <1>a, <2>1, <2>2, <2>3, <2>4 DEF Files!Write, LogFile
  <1>3. ASSUME Join PROVE Files!Close
    <2>1. /\ stopAt # -1 /\ run = "ended" /\ m_pRunThread = "thread" /\ closed' = TRUE
          /\ UNCHANGED <<accepted, written, errFile, stopAt>>
      BY <1>3 DEF Join
    <2>2. Len(written) = stopAt /\ ~closed
      BY <2>1 DEF LogInv, Ended
    <2>3. Len(LogFile) = stopAt /\ UNCHANGED LogFile
      BY <1>a, <2>1, <2>2 DEF LogFile
    <2>4. QED
      BY <2>1, <2>2, <2>3 DEF Files!Close, LogFile
  <1>4. ASSUME \/ Start \/ Stop \/ Pick \/ Hour \/ UNCHANGED logVars
               \/ \E c \in Callers : Lock(c) \/ \E l \in Level : PushLog(c, l)
        PROVE  UNCHANGED Files!vars
    <2>1. UNCHANGED <<accepted, written, errFile, stopAt, closed>>
      BY <1>4 DEF Start, Stop, Pick, Hour, logVars, Lock, PushLog
    <2>2. QED
      BY <2>1 DEF Files!vars
  <1>5. QED
    BY <1>1, <1>2, <1>3, <1>4 DEF LogNext, Files!Next

\* The files keep what is pushed: every entry accepted before STOP is in the
\* default file, once and in the order of the lock, the serious ones are in the
\* err file too, and the files are not closed before (BGLogManager.cpp 97-111,
\* 239-241, 260-276, 333-342).
THEOREM LogImplementsFiles == LogSpec => LogKept
  <1>1. LogInit => Files!Init
    <2>1. ASSUME LogInit PROVE [i \in 1..Len(written) |-> written[i].entry] = <<>>
      <3>1. written = <<>>
        BY <2>1 DEF LogInit
      <3>2. QED
        BY <3>1
    <2>2. QED
      BY <2>1 DEF LogInit, Files!Init
  <1>2. LogTypeOK /\ LogInv /\ [LogNext]_logVars => [Files!Next]_(Files!vars)
    BY LogStepKept
  <1>3. QED
    BY <1>1, <1>2, LogHolds, PTL DEF LogSpec, LogKept, Files!Spec

-----------------------------------------------------------------------------
\* The renewal of the files.  The hour the files were renewed at is the hour of
\* the day of whatever was written last.
HourInv ==
    /\ Len(written) = 0 => m_lastCreateFileName = -1
    /\ Len(written) > 0 => /\ written[Len(written)].hour % Day = m_lastCreateFileName
                           /\ written[Len(written)].file = file
                           /\ written[Len(written)].hour <= now
    /\ MisfiledOnlyAfterADay

LEMMA HourInit == LogInit => HourInv
  <1> SUFFICES ASSUME LogInit PROVE HourInv
    OBVIOUS
  <1>1. Len(<<>>) = 0
    OBVIOUS
  <1>2. Len(written) = 0 /\ m_lastCreateFileName = -1
    BY <1>1 DEF LogInit
  <1>3. QED
    BY <1>2 DEF HourInv, MisfiledOnlyAfterADay

LEMMA HourWrite ==
    ASSUME LogTypeOK, LogInv, HourInv, Write PROVE HourInv'
  <1> DEFINE n == Len(written)
  <1>1. /\ Len(written') = n + 1 /\ \A i \in 1..n : written'[i] = written[i]
        /\ written'[n + 1].hour = now /\ written'[n + 1].file = file'
        /\ now' = now /\ n \in Nat
    BY WriteFacts, LogLengths
  <1>2. now \in Nat /\ Day \in Nat \ {0} /\ now % Day \in Nat
    BY LogOK DEF LogTypeOK
  <1>3. \/ now % Day # m_lastCreateFileName /\ m_lastCreateFileName' = now % Day /\ file' = now
        \/ now % Day = m_lastCreateFileName /\ UNCHANGED <<m_lastCreateFileName, file>>
    BY DEF Write, MustRenew
  <1>4. m_lastCreateFileName' = now % Day
    BY <1>3
  <1>5. ASSUME NEW i \in 1..n PROVE written[i].hour \in Nat
    <2>1. written[i] \in Record
      BY LogLengths, ElementOfSeq
    <2>2. QED
      BY <2>1, LogOK DEF Record
  <1> HIDE DEF n
  \* An entry in front keeps its witness.
  <1>6. ASSUME NEW i \in 1..n, written'[i].file # written'[i].hour
        PROVE  \E j \in 2..i : /\ written'[j].hour = written'[i].hour
                               /\ written'[j].hour - written'[j-1].hour >= Day
    <2>1. PICK j \in 2..i : /\ written[j].hour = written[i].hour
                            /\ written[j].hour - written[j-1].hour >= Day
      BY <1>1, <1>6 DEF HourInv, MisfiledOnlyAfterADay, n
    <2>2. j \in 1..n /\ j - 1 \in 1..n
      BY <1>1
    <2>3. QED
      BY <1>1, <2>1, <2>2
  <1>7. ASSUME file' # now
        PROVE  \E j \in 2..(n + 1) : /\ written'[j].hour = now
                                     /\ written'[j].hour - written'[j-1].hour >= Day
    <2>1. now % Day = m_lastCreateFileName /\ file' = file
      BY <1>3, <1>7
    <2>2. n > 0
      <3>1. m_lastCreateFileName # -1
        BY <1>2, <2>1
      <3>2. n # 0
        BY <3>1 DEF HourInv, n
      <3>3. QED
        BY <1>1, <3>2
    <2>3. /\ written[n].hour % Day = now % Day /\ written[n].file = file /\ written[n].hour <= now
          /\ n \in 1..n /\ n \in 1..(n + 1) /\ n + 1 \in 2..(n + 1)
      BY <1>1, <2>1, <2>2 DEF HourInv, n
    <2>4. CASE written[n].hour = now
      <3>1. PICK j \in 2..n : /\ written'[j].hour = written'[n].hour
                              /\ written'[j].hour - written'[j-1].hour >= Day
        BY <1>1, <1>6, <1>7, <2>1, <2>3, <2>4
      <3>2. j \in 2..(n + 1) /\ written'[n].hour = now
        BY <1>1, <2>3, <2>4
      <3>3. QED
        BY <3>1, <3>2
    <2>5. CASE written[n].hour # now
      <3>1. written[n].hour \in Nat /\ written[n].hour < now
        BY <1>2, <1>5, <2>3, <2>5
      <3>2. now - written[n].hour >= Day
        BY <1>2, <2>3, <3>1, SameHour
      <3>3. written'[n + 1].hour = now /\ written'[(n + 1) - 1].hour = written[n].hour
        BY <1>1, <2>3
      <3>4. QED
        BY <2>3, <3>2, <3>3
    <2>6. QED
      BY <2>4, <2>5
  <1>8. MisfiledOnlyAfterADay'
    <2>1. SUFFICES ASSUME NEW i \in 1..(n + 1), written'[i].file # written'[i].hour
                   PROVE  \E j \in 2..i : /\ written'[j].hour = written'[i].hour
                                          /\ written'[j].hour - written'[j-1].hour >= Day
      BY <1>1 DEF MisfiledOnlyAfterADay
    <2>2. CASE i = n + 1
      BY <1>1, <1>7, <2>1, <2>2
    <2>3. CASE i # n + 1
      <3>1. i \in 1..n
        BY <1>1, <2>3
      <3>2. QED
        BY <1>6, <2>1, <3>1
    <2>4. QED
      BY <2>2, <2>3
  <1>9. /\ written'[Len(written')].hour % Day = m_lastCreateFileName'
        /\ written'[Len(written')].file = file' /\ written'[Len(written')].hour <= now'
        /\ ~(Len(written') = 0)
    BY <1>1, <1>2, <1>4
  <1>10. QED
    BY <1>8, <1>9 DEF HourInv

LEMMA HourStep == ASSUME LogTypeOK, LogInv, HourInv, [LogNext]_logVars PROVE HourInv'
  <1> USE DEF queueVars, runVars, fileVars
  <1>1. ASSUME UNCHANGED <<written, m_lastCreateFileName, file>>, now' = now \/ Hour PROVE HourInv'
    <2>1. now \in Nat /\ (now' = now \/ now' = now + 1)
      BY <1>1, LogOK DEF LogTypeOK, Hour
    <2>2. Len(written) > 0 => written[Len(written)].hour <= now'
      <3>1. SUFFICES ASSUME Len(written) > 0 PROVE written[Len(written)].hour <= now'
        OBVIOUS
      <3>2. Len(written) \in 1..Len(written) /\ written \in Seq(Record)
        BY <3>1, LogLengths
      <3>3. written[Len(written)] \in Record
        BY <3>2, ElementOfSeq
      <3>4. written[Len(written)].hour \in Nat /\ written[Len(written)].hour <= now
        BY <3>1, <3>3, LogOK DEF Record, HourInv
      <3>5. QED
        BY <2>1, <3>4
    <2>3. MisfiledOnlyAfterADay'
      BY <1>1 DEF HourInv, MisfiledOnlyAfterADay
    <2>4. QED
      BY <1>1, <2>2, <2>3 DEF HourInv
  <1>2. ASSUME \/ Start \/ Stop \/ Pick \/ Join \/ UNCHANGED logVars
               \/ \E c \in Callers : Lock(c) \/ Push(c) \/ \E l \in Level : PushLog(c, l)
        PROVE  UNCHANGED <<written, m_lastCreateFileName, file, now>>
    BY <1>2 DEF Start, Stop, Pick, Join, logVars, Lock, Push, PushLog
  <1>3. ASSUME Hour PROVE UNCHANGED <<written, m_lastCreateFileName, file>>
    BY <1>3 DEF Hour
  <1>4. QED
    BY <1>1, <1>2, <1>3, HourWrite DEF LogNext

-----------------------------------------------------------------------------
\* The threads of the program use the log manager by its operations only.
LEMMA ProgramUsesLog == Spec => LogSpec
  <1>1. Init => LogInit
    BY DEF Init
  <1>2. [Next]_vars => [LogNext]_logVars
    <2>1. SUFFICES ASSUME [Next]_vars PROVE [LogNext]_logVars
      OBVIOUS
    <2>2. Main \in Callers /\ Workers \subseteq Callers
      BY WorkersOK
    <2>3. ASSUME NEW from, NEW level \in Level, NEW to, MainLogs(from, level, to)
          PROVE  [LogNext]_logVars
      BY <2>2, <2>3 DEF MainLogs, LogNext
    <2>4. BG_INFO \in Level /\ BG_DEBUG \in Level /\ BG_ERROR \in Level
      BY DEF Level, BG_INFO, BG_DEBUG, BG_ERROR, BG_NONE, BG_FATAL
    <2>5. ASSUME MainStep \/ ShutdownStarted PROVE [LogNext]_logVars
      <3>1. CASE StartLog \/ StopLog \/ JoinLog
        BY <3>1 DEF StartLog, StopLog, JoinLog, LogNext
      <3>2. CASE PostObject \/ Delete \/ FreeAll \/ Clear
        BY <3>2 DEF PostObject, Delete, FreeAll, Clear
      <3>3. CASE CreateEventFails \/ WaitEnds \/ ShutdownCompleted \/ ShutdownStarted
        BY <2>3, <2>4, <3>3 DEF CreateEventFails, WaitEnds, ShutdownCompleted, ShutdownStarted
      <3>4. CASE LogStep(Main)
        BY <2>2, <3>4 DEF LogStep, LogNext
      <3>5. QED
        BY <2>5, <3>1, <3>2, <3>3, <3>4 DEF MainStep
    <2>6. ASSUME NEW w \in Workers, WorkerStep(w) PROVE [LogNext]_logVars
      <3>1. CASE \/ CallGet(w) \/ Get(w) \/ GetFails(w) \/ LeaveSection(w)
                 \/ SetEvent(w) \/ SuspendThread(w)
        BY <3>1 DEF CallGet, Get, GetFails, LeaveSection, SetEvent, SuspendThread
      <3>2. CASE Job(w)
        BY <2>2, <3>2, WorkersOK DEF Job, LogNext
      <3>3. CASE LogStep(w)
        BY <2>2, <3>3 DEF LogStep, LogNext
      <3>4. QED
        BY <2>6, <3>1, <3>2, <3>3 DEF WorkerStep
    <2>7. ASSUME PostJob \/ RunStep \/ (Hour /\ UNCHANGED threadVars) \/ UNCHANGED vars
          PROVE  [LogNext]_logVars
      BY <2>7 DEF PostJob, RunStep, vars, LogNext
    <2>8. QED
      BY <2>1, <2>5, <2>6, <2>7 DEF Next
  <1>3. QED
    BY <1>1, <1>2, PTL DEF Spec, LogSpec

\* The log keeps what the threads of the program push, however they are
\* interrupted, suspended and stopped (BGIocpServer.cpp 70-78,
\* BGIOTerminate.cpp 10-19, BGLogManager.cpp 97-111).
THEOREM LogKeptByProgram == Spec => LogKept
  BY ProgramUsesLog, LogImplementsFiles

LEMMA TypeInit == Init => TypeOK
  <1> SUFFICES ASSUME Init PROVE TypeOK
    OBVIOUS
  <1>1. LogTypeOK
    BY LogTypeInit DEF Init
  <1>2. 1 \in Workers /\ MaxJobs \in Nat
    BY WorkersOK DEF Workers
  <1>3. at \in [Workers -> {"loop", "get", "job", "section", "setEvent", "suspend"}] /\ undefined \in BOOLEAN
    BY DEF Init
  <1>4. port \in Seq({"job", "terminate"}) /\ hEvent \in BOOLEAN
    BY EmptySeq DEF Init
  <1>5. QED
    BY <1>1, <1>2, <1>3, <1>4 DEF Init, TypeOK

LEMMA TypeStep == ASSUME TypeOK, LogTypeOK', [Next]_vars PROVE TypeOK'
  <1> DEFINE T == /\ main \in {"start", "failed", "running", "post", "wait", "delete", "skip", "free",
                               "clear", "last", "stop", "join", "done"}
                  /\ cur \in Workers /\ m_pThread \in Workers /\ hEvent \in BOOLEAN
                  /\ port \in Seq({"job", "terminate"}) /\ jobs \in 0..MaxJobs
                  /\ at \in [Workers -> {"loop", "get", "job", "section", "setEvent", "suspend"}]
                  /\ suspended \subseteq Workers /\ undefined \in BOOLEAN
  <1>a. T
    BY DEF TypeOK
  <1> SUFFICES T'
    BY DEF TypeOK
  <1>1. CASE \/ StartLog \/ ShutdownStarted \/ CreateEventFails \/ WaitEnds
             \/ FreeAll \/ Clear \/ ShutdownCompleted
    BY <1>a, <1>1
       DEF StartLog, ShutdownStarted, CreateEventFails, WaitEnds, FreeAll, Clear, ShutdownCompleted, MainLogs
  <1>9. CASE StopLog \/ JoinLog
    BY <1>a, <1>9 DEF StopLog, JoinLog
  <1>2. CASE PostObject
    <2>1. port' \in Seq({"job", "terminate"})
      BY <1>a, <1>2, AppendProperties DEF PostObject
    <2>2. QED
      BY <1>a, <1>2, <2>1 DEF PostObject
  <1>3. CASE Delete
    <2>1. NextThread \in Workers
      BY <1>a, WorkersOK DEF NextThread, Workers
    <2>2. QED
      BY <1>a, <1>3, <2>1 DEF Delete
  <1>4. CASE PostJob
    <2>1. port' \in Seq({"job", "terminate"})
      BY <1>a, <1>4, AppendProperties DEF PostJob
    <2>2. jobs' \in 0..MaxJobs
      BY <1>a, <1>4, WorkersOK DEF PostJob
    <2>3. QED
      BY <1>a, <1>4, <2>1, <2>2 DEF PostJob
  <1>5. ASSUME NEW w \in Workers, Get(w) PROVE T'
    <2>1. port' \in Seq({"job", "terminate"})
      BY <1>a, <1>5, HeadTailProperties DEF Get
    <2>2. QED
      BY <1>a, <1>5, <2>1 DEF Get, Go
  <1>6. ASSUME NEW w \in Workers, Job(w) \/ LeaveSection(w) \/ SetEvent(w) PROVE T'
    BY <1>a, <1>6 DEF Job, LeaveSection, SetEvent, Go
  <1>10. ASSUME NEW w \in Workers, CallGet(w) \/ GetFails(w) \/ SuspendThread(w) PROVE T'
    BY <1>a, <1>10 DEF CallGet, GetFails, SuspendThread, Go, BreakDown
  <1>7. ASSUME UNCHANGED threadVars PROVE T'
    BY <1>a, <1>7 DEF threadVars
  <1>8. QED
    BY <1>1, <1>2, <1>3, <1>4, <1>5, <1>6, <1>7, <1>9, <1>10
       DEF Next, MainStep, WorkerStep, RunStep, LogStep, vars

\* Type correctness of the program's end: Terminate never runs past the last
\* thread of s_threadList, and the log manager keeps its types.
THEOREM TypeCorrect == Spec => []TypeOK
  <1>1. Spec => []LogTypeOK
    BY ProgramUsesLog, LogHolds, PTL
  <1>2. TypeOK /\ LogTypeOK' /\ [Next]_vars => TypeOK'
    BY TypeStep
  <1>3. QED
    BY <1>1, <1>2, TypeInit, PTL DEF Spec

\* An entry is in a file that is named after another hour only if nothing was
\* written for at least a day before it (BGLogManager.cpp 280-297).
THEOREM Misfiled == Spec => []MisfiledOnlyAfterADay
  <1>1. LogTypeOK /\ LogInv /\ HourInv /\ [LogNext]_logVars => (LogTypeOK /\ LogInv /\ HourInv)'
    BY LogTypeStep, LogInvStep, HourStep
  <1>2. LogInit => LogTypeOK /\ LogInv /\ HourInv
    BY LogTypeInit, LogInvInit, HourInit
  <1>3. HourInv => MisfiledOnlyAfterADay
    BY DEF HourInv
  <1>4. QED
    BY <1>1, <1>2, <1>3, ProgramUsesLog, PTL DEF LogSpec

-----------------------------------------------------------------------------
\* What is used after it is gone.

\* The workers that have taken a packet and have still to suspend somebody.
Takers == {w \in Workers : at[w] \in {"setEvent", "suspend"}}

InPort == IF \E i \in 1..Len(port) : port[i] = "terminate" THEN 1 ELSE 0

\* The packets that main has posted, at most.
Posted == IF AllTerminated THEN N ELSE IF InFrame THEN cur ELSE cur - 1

\* One packet at a time: it is in the port or with the worker that has still to
\* set the event, while main waits.
OnePacket ==
    /\ \A i, j \in 1..Len(port) : port[i] = "terminate" /\ port[j] = "terminate" => i = j
    /\ \A i \in 1..Len(port) : port[i] = "terminate" =>
           main = "wait" /\ ~hEvent /\ \A w \in Workers : at[w] # "setEvent"
    /\ \A w \in Workers : at[w] = "setEvent" =>
           main = "wait" /\ ~hEvent /\ \A v \in Workers : at[v] = "setEvent" => v = w

\* No more threads are suspended than packets have been taken for it.
Enough == Cardinality(suspended) + Cardinality(Takers) + InPort <= Posted

ShutInv == OnePacket /\ Enough /\ BrokenByOutliving

LEMMA ShutLengths ==
    ASSUME TypeOK
    PROVE  /\ IsFiniteSet(suspended) /\ Cardinality(suspended) \in Nat
           /\ IsFiniteSet(Takers) /\ Cardinality(Takers) \in Nat
           /\ IsFiniteSet(Deleted) /\ Cardinality(Deleted) = IF AllTerminated THEN N ELSE cur - 1
           /\ InPort \in Nat /\ Len(port) \in Nat /\ cur \in 1..N /\ N \in Nat
  <1>1. N \in Nat /\ cur \in 1..N /\ IsFiniteSet(Workers) /\ Cardinality(Workers) = N
    BY WorkersOK, FS_Interval DEF TypeOK, Workers
  <1>2. suspended \subseteq Workers /\ Takers \subseteq Workers
    BY DEF TypeOK, Takers
  <1>3. /\ IsFiniteSet(suspended) /\ Cardinality(suspended) \in Nat
        /\ IsFiniteSet(Takers) /\ Cardinality(Takers) \in Nat
    BY <1>1, <1>2, FS_Subset, FS_CardinalityType
  <1>4. IsFiniteSet(1..(cur - 1)) /\ Cardinality(1..(cur - 1)) = cur - 1
    BY <1>1, FS_Interval
  <1>5. IsFiniteSet(Deleted) /\ Cardinality(Deleted) = IF AllTerminated THEN N ELSE cur - 1
    BY <1>1, <1>4 DEF Deleted
  <1>6. InPort \in Nat /\ Len(port) \in Nat
    BY LenProperties DEF InPort, TypeOK
  <1>7. QED
    BY <1>1, <1>3, <1>5, <1>6

LEMMA ShutInit == Init => ShutInv
  <1> SUFFICES ASSUME Init PROVE ShutInv
    OBVIOUS
  <1> USE DEF Init
  <1>1. Len(port) = 0
    OBVIOUS
  <1>2. OnePacket
    BY <1>1 DEF OnePacket
  <1>3. suspended = {} /\ Takers = {} /\ InPort = 0 /\ Posted = 0
    BY <1>1 DEF Takers, InPort, Posted, AllTerminated, InFrame
  <1>4. Enough
    BY <1>3, FS_EmptySet DEF Enough
  <1>5. QED
    BY <1>2, <1>4 DEF ShutInv, BrokenByOutliving

\* A step of main that posts nothing.
LEMMA MainGoesOn ==
    ASSUME TypeOK, TypeOK', ShutInv, ~undefined, UNCHANGED <<port, at, suspended, undefined>>,
           Posted <= Posted',
           main = "wait" => hEvent \/ (main' = "wait" /\ hEvent' = hEvent)
    PROVE  ShutInv'
  <1>1. Takers' = Takers /\ InPort' = InPort
    BY DEF Takers, InPort
  <1>2. Cardinality(suspended) + Cardinality(Takers) + InPort <= Posted
    BY DEF ShutInv, Enough
  <1>3. Posted \in Int /\ Posted' \in Int
    BY ShutLengths DEF Posted, TypeOK, Workers
  <1>4. Cardinality(suspended) + Cardinality(Takers) + InPort <= Posted'
    BY <1>2, <1>3, ShutLengths
  <1>5. Enough'
    BY <1>1, <1>4 DEF Enough
  <1>6. OnePacket'
    BY DEF ShutInv, OnePacket
  <1>7. QED
    BY <1>5, <1>6 DEF ShutInv, BrokenByOutliving

LEMMA ShutPostObject ==
    ASSUME TypeOK, TypeOK', ShutInv, ~undefined, PostObject PROVE ShutInv'
  <1>1. /\ main = "post" /\ main' = "wait" /\ hEvent' = FALSE
        /\ port' = Append(port, "terminate") /\ UNCHANGED <<cur, at, suspended, undefined>>
    BY DEF PostObject
  <1>2. /\ Len(port') = Len(port) + 1 /\ port'[Len(port) + 1] = "terminate"
        /\ \A i \in 1..Len(port) : port'[i] = port[i]
    BY <1>1, AppendProperties DEF TypeOK
  <1>3. /\ \A i \in 1..Len(port) : port[i] # "terminate"
        /\ \A w \in Workers : at[w] # "setEvent"
    BY <1>1 DEF ShutInv, OnePacket
  <1>4. \A i \in 1..Len(port') : port'[i] = "terminate" => i = Len(port) + 1
    BY <1>2, <1>3, ShutLengths
  <1>5. OnePacket'
    BY <1>1, <1>3, <1>4 DEF OnePacket
  <1>6. InPort = 0 /\ Takers' = Takers /\ Posted = cur - 1 /\ Posted' = cur
    BY <1>1, <1>3 DEF InPort, Takers, Posted, AllTerminated, InFrame
  <1>7. InPort' \in {0, 1}
    BY DEF InPort
  <1>8. Cardinality(suspended) + Cardinality(Takers) + 0 <= cur - 1
    BY <1>6 DEF ShutInv, Enough
  <1>9. Cardinality(suspended) + Cardinality(Takers) + InPort' <= cur
    BY <1>7, <1>8, ShutLengths
  <1>10. Enough'
    BY <1>1, <1>6, <1>9 DEF Enough
  <1>11. QED
    BY <1>1, <1>5, <1>10 DEF ShutInv, BrokenByOutliving

LEMMA ShutPostJob ==
    ASSUME TypeOK, TypeOK', ShutInv, ~undefined, PostJob PROVE ShutInv'
  <1>1. /\ port' = Append(port, "job")
        /\ UNCHANGED <<main, cur, hEvent, at, suspended, undefined>>
    BY DEF PostJob
  <1>2. /\ Len(port') = Len(port) + 1 /\ port'[Len(port) + 1] = "job"
        /\ \A i \in 1..Len(port) : port'[i] = port[i]
    BY <1>1, AppendProperties DEF TypeOK
  <1>3. \A i \in 1..Len(port') : port'[i] = "terminate" => i \in 1..Len(port) /\ port[i] = "terminate"
    BY <1>2, ShutLengths
  <1>4. OnePacket'
    BY <1>1, <1>3 DEF ShutInv, OnePacket
  <1>5. InPort' <= InPort
    BY <1>3 DEF InPort
  <1>6. Takers' = Takers /\ Posted' = Posted
    BY <1>1 DEF Takers, Posted, AllTerminated, InFrame
  <1>7. Cardinality(suspended) + Cardinality(Takers) + InPort <= Posted /\ Posted \in Int
    BY ShutLengths DEF ShutInv, Enough, Posted, TypeOK, Workers
  <1>8. InPort' \in Nat
    BY DEF InPort
  <1>9. Cardinality(suspended) + Cardinality(Takers) + InPort' <= Posted
    BY <1>5, <1>7, <1>8, ShutLengths
  <1>10. Enough'
    BY <1>1, <1>6, <1>9 DEF Enough
  <1>11. QED
    BY <1>1, <1>4, <1>10 DEF ShutInv, BrokenByOutliving

LEMMA ShutGet ==
    ASSUME TypeOK, TypeOK', ShutInv, ~undefined, NEW w \in Workers, Get(w) PROVE ShutInv'
  <1>1. /\ at[w] = "get" /\ port # <<>> /\ port' = Tail(port)
        /\ at' = [at EXCEPT ![w] = IF Head(port) = "job" THEN "job" ELSE "setEvent"]
        /\ UNCHANGED <<main, cur, hEvent, suspended, undefined>>
    BY DEF Get, Go
  <1>2. /\ Len(port) > 0 /\ Len(port') = Len(port) - 1 /\ Head(port) = port[1]
        /\ \A i \in 1..Len(port') : port'[i] = port[i + 1]
    BY <1>1, HeadTailProperties, EmptySeq DEF TypeOK
  <1>3. 1 \in 1..Len(port) /\ \A i \in 1..Len(port') : i + 1 \in 1..Len(port) /\ i + 1 # 1
    BY <1>2, ShutLengths
  <1>4. Posted' = Posted /\ Posted \in Int
    BY <1>1, ShutLengths DEF Posted, AllTerminated, InFrame, TypeOK, Workers
  <1>5. Cardinality(suspended) + Cardinality(Takers) + InPort <= Posted
    BY DEF ShutInv, Enough
  <1>6. InPort' \in Nat
    BY DEF InPort
  <1>7. CASE Head(port) = "job"
    <2>1. \A v \in Workers : at'[v] = IF v = w THEN "job" ELSE at[v]
      BY <1>1, <1>7 DEF TypeOK
    <2>2. Takers' = Takers
      BY <1>1, <2>1 DEF Takers
    <2>3. OnePacket'
      BY <1>1, <1>2, <1>3, <2>1 DEF ShutInv, OnePacket
    <2>4. InPort' <= InPort
      BY <1>2, <1>3 DEF InPort
    <2>5. Cardinality(suspended) + Cardinality(Takers) + InPort' <= Posted
      BY <1>4, <1>5, <1>6, <2>4, ShutLengths
    <2>6. Enough'
      BY <1>1, <1>4, <2>2, <2>5 DEF Enough
    <2>7. QED
      BY <1>1, <2>3, <2>6 DEF ShutInv, BrokenByOutliving
  <1>8. CASE Head(port) # "job"
    <2>1. port[1] = "terminate"
      BY <1>2, <1>3, <1>8, ElementOfSeq DEF TypeOK
    <2>2. \A v \in Workers : at'[v] = IF v = w THEN "setEvent" ELSE at[v]
      BY <1>1, <1>8 DEF TypeOK
    <2>3. /\ main = "wait" /\ ~hEvent /\ \A v \in Workers : at[v] # "setEvent"
          /\ \A i \in 1..Len(port') : port'[i] # "terminate"
      BY <1>2, <1>3, <2>1 DEF ShutInv, OnePacket
    <2>4. OnePacket'
      BY <1>1, <2>2, <2>3 DEF OnePacket
    <2>5. InPort' = 0 /\ InPort = 1
      BY <1>3, <2>1, <2>3 DEF InPort
    <2>6. Takers' = Takers \union {w} /\ w \notin Takers
      BY <1>1, <2>2 DEF Takers
    <2>7. Cardinality(Takers') = Cardinality(Takers) + 1
      BY <2>6, ShutLengths, FS_AddElement
    <2>8. Cardinality(suspended) + Cardinality(Takers') + InPort' <= Posted
      BY <1>4, <1>5, <2>5, <2>7, ShutLengths
    <2>9. Enough'
      BY <1>1, <1>4, <2>8 DEF Enough
    <2>10. QED
      BY <1>1, <2>4, <2>9 DEF ShutInv, BrokenByOutliving
  <1>9. QED
    BY <1>7, <1>8

LEMMA ShutSetEvent ==
    ASSUME TypeOK, TypeOK', ShutInv, ~undefined, NEW w \in Workers, SetEvent(w) PROVE ShutInv'
  <1>1. /\ at[w] = "setEvent" /\ at' = [at EXCEPT ![w] = "suspend"]
        /\ UNCHANGED <<main, cur, port, suspended, undefined>>
    BY DEF SetEvent, Go
  <1>2. \A v \in Workers : at'[v] = IF v = w THEN "suspend" ELSE at[v]
    BY <1>1 DEF TypeOK
  <1>3. /\ \A i \in 1..Len(port) : port[i] # "terminate"
        /\ \A v \in Workers : at[v] = "setEvent" => v = w
    BY <1>1 DEF ShutInv, OnePacket
  <1>4. OnePacket'
    BY <1>1, <1>2, <1>3 DEF OnePacket
  <1>5. Takers' = Takers /\ InPort' = InPort /\ Posted' = Posted
    BY <1>1, <1>2 DEF Takers, InPort, Posted, AllTerminated, InFrame
  <1>6. QED
    BY <1>1, <1>4, <1>5 DEF ShutInv, Enough, BrokenByOutliving

\* A worker that has still to suspend somebody when main has left the call it
\* belongs to: another one, whose object is deleted, has not been suspended.
LEMMA StillToSuspend ==
    ASSUME TypeOK, ShutInv, NEW w \in Takers, ~InFrame
    PROVE  ~(Deleted \subseteq suspended)
  <1>1. SUFFICES ASSUME Deleted \subseteq suspended PROVE FALSE
    OBVIOUS
  <1>2. Cardinality(Deleted) <= Cardinality(suspended)
    BY <1>1, ShutLengths, FS_Subset
  <1>3. Cardinality(Takers) # 0
    BY ShutLengths, FS_EmptySet
  <1>4. Cardinality(suspended) + Cardinality(Takers) + InPort <= Cardinality(Deleted)
    BY ShutLengths DEF ShutInv, Enough, Posted
  <1>5. QED
    BY <1>2, <1>3, <1>4, ShutLengths

LEMMA ShutSuspendThread ==
    ASSUME TypeOK, TypeOK', ShutInv, ~undefined, NEW w \in Workers, SuspendThread(w)
    PROVE  ShutInv'
  <1>1. at[w] = "suspend" /\ UNCHANGED <<main, cur, hEvent, port>>
    BY DEF SuspendThread
  <1>2. InPort' = InPort /\ Posted' = Posted /\ Deleted' = Deleted /\ Posted \in Int
    BY <1>1, ShutLengths DEF InPort, Posted, Deleted, AllTerminated, InFrame, TypeOK, Workers
  <1>3. w \in Takers
    BY <1>1 DEF Takers
  <1>4. CASE /\ Go(w, "loop") /\ undefined' = undefined
             /\ suspended' = suspended \/ suspended' = suspended \union {m_pThread}
    <2>1. \A v \in Workers : at'[v] = IF v = w THEN "loop" ELSE at[v]
      BY <1>4 DEF Go, TypeOK
    <2>2. OnePacket'
      BY <1>1, <2>1 DEF ShutInv, OnePacket
    <2>3. Takers' = Takers \ {w}
      BY <2>1 DEF Takers
    <2>4. Cardinality(Takers') = Cardinality(Takers) - 1
      BY <1>3, <2>3, ShutLengths, FS_RemoveElement
    <2>5. Cardinality(suspended') \in {Cardinality(suspended), Cardinality(suspended) + 1}
      BY <1>4, ShutLengths, FS_AddElement
    <2>6. Cardinality(suspended) + Cardinality(Takers) + InPort <= Posted
      BY DEF ShutInv, Enough
    <2>7. Cardinality(suspended') + Cardinality(Takers') + InPort <= Posted
      BY <1>2, <2>4, <2>5, <2>6, ShutLengths
    <2>8. Enough'
      BY <1>2, <2>7 DEF Enough
    <2>9. QED
      BY <1>4, <2>2, <2>8 DEF ShutInv, BrokenByOutliving
  <1>5. CASE ~InFrame /\ BreakDown
    <2>1. UNCHANGED <<at, suspended>>
      BY <1>5 DEF BreakDown
    <2>2. Takers' = Takers
      BY <2>1 DEF Takers
    <2>3. ~(Deleted' \subseteq suspended')
      BY <1>2, <1>3, <1>5, <2>1, StillToSuspend
    <2>4. QED
      BY <1>1, <1>2, <2>1, <2>2, <2>3 DEF ShutInv, OnePacket, Enough, BrokenByOutliving
  <1>6. QED
    BY <1>4, <1>5 DEF SuspendThread

\* The other steps of a worker.
LEMMA ShutWork ==
    ASSUME TypeOK, TypeOK', ShutInv, ~undefined, NEW w \in Workers,
           CallGet(w) \/ GetFails(w) \/ Job(w) \/ LeaveSection(w)
    PROVE  ShutInv'
  <1>1. UNCHANGED <<main, cur, hEvent, port, suspended>>
    BY DEF CallGet, GetFails, Job, LeaveSection, BreakDown
  <1>2. at[w] \in {"loop", "get", "job", "section"}
    BY DEF CallGet, GetFails, Job, LeaveSection
  <1>3. at' = at \/ \E l \in {"loop", "get", "section"} : at' = [at EXCEPT ![w] = l]
    BY DEF CallGet, GetFails, Job, LeaveSection, BreakDown, Go
  <1>4. \A v \in Workers : at'[v] = at[v] \/ (v = w /\ at'[v] \notin {"setEvent", "suspend"})
    BY <1>3 DEF TypeOK
  <1>5. Takers' = Takers
    BY <1>2, <1>4 DEF Takers
  <1>6. \A v \in Workers : at'[v] = "setEvent" => at[v] = "setEvent"
    BY <1>4
  <1>7. OnePacket'
    BY <1>1, <1>2, <1>4, <1>6 DEF ShutInv, OnePacket
  <1>8. /\ InPort' = InPort /\ Posted' = Posted /\ Deleted' = Deleted
    BY <1>1 DEF InPort, Posted, Deleted, AllTerminated, InFrame
  <1>9. Enough'
    BY <1>1, <1>5, <1>8 DEF ShutInv, Enough
  <1>10. undefined' => w \in Deleted /\ w \notin suspended
    <2>1. Cleared => Deleted = Workers
      BY DEF Cleared, Deleted, AllTerminated
    <2>2. QED
      BY <2>1 DEF CallGet, GetFails, Job, LeaveSection, Runs
  <1>11. BrokenByOutliving'
    BY <1>1, <1>8, <1>10 DEF BrokenByOutliving
  <1>12. QED
    BY <1>7, <1>9, <1>11 DEF ShutInv

LEMMA ShutStep == ASSUME TypeOK, TypeOK', ShutInv, [Next]_vars PROVE ShutInv'
  <1>c. cur \in Int /\ cur' \in Int /\ cur <= N /\ cur' <= N /\ N \in Nat
    BY WorkersOK DEF TypeOK, Workers
  <1>1. CASE MainStep \/ (Alive /\ ShutdownStarted)
    <2>0. ~undefined
      BY <1>1 DEF MainStep, Alive
    <2>1. CASE PostObject
      BY <2>0, <2>1, ShutPostObject
    <2>2. CASE Delete
      <3>1. /\ main \in {"delete", "skip"} /\ main' = IF cur < N THEN "post" ELSE "free"
            /\ cur' = IF cur < N THEN cur + 1 ELSE cur
            /\ UNCHANGED <<port, at, suspended, undefined>>
        BY <2>2 DEF Delete, NextThread
      <3>2. /\ Posted = IF main = "delete" THEN cur ELSE cur - 1
            /\ Posted' = IF cur < N THEN cur' - 1 ELSE N
        BY <3>1 DEF Posted, AllTerminated, InFrame
      <3>3. Posted <= Posted'
        BY <1>c, <3>1, <3>2
      <3>4. QED
        BY <2>0, <3>1, <3>3, MainGoesOn
    <2>3. CASE WaitEnds
      <3>1. /\ main = "wait" /\ main' = "delete" /\ cur' = cur /\ hEvent
            /\ UNCHANGED <<port, at, suspended, undefined>>
        BY <2>3 DEF WaitEnds, MainLogs
      <3>2. Posted = cur /\ Posted' = cur
        BY <3>1 DEF Posted, AllTerminated, InFrame
      <3>3. QED
        BY <1>c, <2>0, <3>1, <3>2, MainGoesOn
    <2>4. CASE StartLog \/ ShutdownStarted \/ CreateEventFails
      <3>1. /\ main \in {"start", "running", "post"} /\ main' \in {"running", "failed", "post", "skip"}
            /\ cur' = cur /\ UNCHANGED <<port, at, suspended, undefined>>
        BY <2>4 DEF StartLog, ShutdownStarted, CreateEventFails, MainLogs
      <3>2. Posted = cur - 1 /\ Posted' = cur - 1
        BY <3>1 DEF Posted, AllTerminated, InFrame
      <3>3. QED
        BY <1>c, <2>0, <3>1, <3>2, MainGoesOn
    <2>5. CASE FreeAll \/ Clear \/ ShutdownCompleted \/ StopLog \/ JoinLog
      <3>1. /\ main \in {"free", "clear", "last", "stop", "join"}
            /\ main' \in {"clear", "last", "stop", "join", "done"}
            /\ UNCHANGED <<port, at, suspended, undefined>>
        BY <2>5 DEF FreeAll, Clear, ShutdownCompleted, StopLog, JoinLog, MainLogs
      <3>2. Posted = N /\ Posted' = N
        BY <3>1 DEF Posted, AllTerminated
      <3>3. QED
        BY <1>c, <2>0, <3>1, <3>2, MainGoesOn
    <2>6. CASE LogStep(Main)
      BY <1>c, <2>0, <2>6, MainGoesOn DEF LogStep, threadVars, Posted, AllTerminated, InFrame
    <2>7. QED
      BY <1>1, <2>1, <2>2, <2>3, <2>4, <2>5, <2>6 DEF MainStep
  <1>2. ASSUME NEW w \in Workers, WorkerStep(w) PROVE ShutInv'
    <2>0. ~undefined
      BY <1>2 DEF WorkerStep, Alive
    <2>1. CASE LogStep(w)
      BY <1>c, <2>0, <2>1, MainGoesOn DEF LogStep, threadVars, Posted, AllTerminated, InFrame
    <2>2. QED
      BY <1>2, <2>0, <2>1, ShutGet, ShutSetEvent, ShutSuspendThread, ShutWork DEF WorkerStep
  <1>3. CASE Alive /\ PostJob
    BY <1>3, ShutPostJob DEF Alive
  <1>4. CASE RunStep \/ (Alive /\ Hour /\ UNCHANGED threadVars)
    <2>1. ~undefined /\ UNCHANGED threadVars
      BY <1>4 DEF RunStep, Alive
    <2>2. QED
      BY <1>c, <2>1, MainGoesOn DEF threadVars, Posted, AllTerminated, InFrame
  <1>5. CASE UNCHANGED vars
    <2>1. UNCHANGED threadVars
      BY <1>5 DEF vars
    <2>2. /\ Takers' = Takers /\ InPort' = InPort /\ Posted' = Posted /\ Deleted' = Deleted
      BY <2>1 DEF threadVars, Takers, InPort, Posted, Deleted, AllTerminated, InFrame
    <2>3. QED
      BY <2>1, <2>2 DEF threadVars, ShutInv, OnePacket, Enough, BrokenByOutliving
  <1>6. QED
    BY <1>1, <1>2, <1>3, <1>4, <1>5 DEF Next

\* Whatever the number of workers, and whoever takes the packets and when: the
\* program uses something that is gone only when a worker whose object is deleted
\* was never suspended (BGIOTerminate.cpp 14-15, BGIOWorkerThread.cpp 29-31 and
\* 47-58, BGLayer.cpp 45-52).
THEOREM BrokenOnlyByOutliving == Spec => []BrokenByOutliving
  <1>1. TypeOK /\ TypeOK' /\ ShutInv /\ [Next]_vars => ShutInv'
    BY ShutStep
  <1>2. ShutInv => BrokenByOutliving
    BY DEF ShutInv
  <1>3. QED
    BY <1>1, <1>2, ShutInit, TypeCorrect, PTL DEF Spec
=============================================================================
