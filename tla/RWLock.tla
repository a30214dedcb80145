------------------------------- MODULE RWLock -------------------------------
(***************************************************************************)
(* BGRWLock (BGLock.cpp 143-320): a reader/writer lock built from one      *)
(* packed counter, an internal spin lock and two auto-reset events.        *)
(*                                                                         *)
(* m_nCount packs five fields: bits 0-7 count readers, bits 8-15 writers,  *)
(* bits 16-23 readers parked on m_hREvent, bits 24-30 writers parked on    *)
(* m_hWEvent, and bit 31 says that one reader is parked on m_hWEvent.      *)
(* Here it is a record of these fields; every Interlocked operation is one *)
(* atomic change of the record, so no field may carry into the next one,   *)
(* which is why fewer than 128 threads may use the lock.                   *)
(*                                                                         *)
(* The atomic steps of the code are the actions: each Interlocked          *)
(* operation on m_nCount, each Enter and Leave of the internal spin lock,  *)
(* each SetEvent and each wait.                                            *)
(***************************************************************************)
EXTENDS Integers, FiniteSets

CONSTANTS Threads, \* threads that use the lock
          Ops,     \* what they call: "read", "write", "try"
          Word     \* m_dwPendingLock counts modulo Word (2^32 in the program)

ASSUME ThreadsOK == IsFiniteSet(Threads) /\ Cardinality(Threads) < 128
ASSUME WordOK == Word \in Nat \ {0}
ASSUME OpsOK == Ops \subseteq {"read", "write", "try"}

VARIABLES
    m_nCount,  \* the packed counter
    m_nLock,   \* the internal spin lock is taken
    REvent,    \* m_hREvent is signalled
    WEvent,    \* m_hWEvent is signalled
    pc,        \* where each thread is
    role,      \* "read" or "write": which lock the thread is in (idle: "read")
    event,     \* "R" or "W": the event a parked thread waits for
    bit31,     \* the bit of the local copy nCount that ReadLock branches on
    others,    \* the copy shows readers parked on m_hREvent
    pending    \* m_dwPendingLock of each thread

locals == <<role, event, bit31, others>>
vars == <<m_nCount, m_nLock, REvent, WEvent, pc, locals, pending>>

Goto(t, l) == pc' = [pc EXCEPT ![t] = l]

\* IncPendingLock and DecPendingLock of the calling thread.
IncPending(t) == pending' = [pending EXCEPT ![t] = (@ + 1) % Word]
DecPending(t) == pending' = [pending EXCEPT ![t] = (@ + Word - 1) % Word]

\* (short)nCount == 0: neither readers nor writers.
Free(c) == c.readers = 0 /\ c.writers = 0

\* nCount & 0xff000000: somebody is parked on m_hWEvent.
ParkedW(c) == c.parkedWriters > 0 \/ c.parkedReader

\* InterlockedExchangeAdd of the given amounts to the fields.
Add(dr, dw, dpr, dpw) ==
    [readers |-> m_nCount.readers + dr, writers |-> m_nCount.writers + dw,
     parkedReaders |-> m_nCount.parkedReaders + dpr,
     parkedWriters |-> m_nCount.parkedWriters + dpw,
     parkedReader |-> m_nCount.parkedReader]

Init == /\ m_nCount = [readers |-> 0, writers |-> 0, parkedReaders |-> 0,
                       parkedWriters |-> 0, parkedReader |-> FALSE]
        /\ m_nLock = FALSE /\ REvent = FALSE /\ WEvent = FALSE
        /\ pc = [t \in Threads |-> "idle"]
        /\ role = [t \in Threads |-> "read"]
        /\ event = [t \in Threads |-> "W"]
        /\ bit31 = [t \in Threads |-> FALSE]
        /\ others = [t \in Threads |-> FALSE]
        /\ pending = [t \in Threads |-> 0]

-----------------------------------------------------------------------------
\* ReadLock: count as a reader; with no writer counted the lock is held.
ReadLock(t) ==
    /\ pc[t] = "idle" /\ "read" \in Ops
    /\ m_nCount' = Add(1, 0, 0, 0)
    /\ role' = [role EXCEPT ![t] = "read"]
    /\ IncPending(t)
    /\ Goto(t, IF m_nCount.writers = 0 THEN "reading" ELSE "enter")
    /\ UNCHANGED <<m_nLock, REvent, WEvent, event, bit31, others>>

\* WriteLock: count as a writer; if nobody was counted the lock is held.
WriteLock(t) ==
    /\ pc[t] = "idle" /\ "write" \in Ops
    /\ m_nCount' = Add(0, 1, 0, 0)
    /\ role' = [role EXCEPT ![t] = "write"]
    /\ IncPending(t)
    /\ Goto(t, IF Free(m_nCount) THEN "writing" ELSE "enter")
    /\ UNCHANGED <<m_nLock, REvent, WEvent, event, bit31, others>>

\* WriteTryLock: the same without waiting and without IncPendingLock.
WriteTryLock(t) ==
    /\ pc[t] = "idle" /\ "try" \in Ops
    /\ m_nCount' = Add(0, 1, 0, 0)
    /\ role' = [role EXCEPT ![t] = "write"]
    /\ Goto(t, IF Free(m_nCount) THEN "writing" ELSE "undo")
    /\ UNCHANGED <<m_nLock, REvent, WEvent, event, bit31, others, pending>>

\* A WriteTryLock that failed takes its count back.
UndoTry(t) ==
    /\ pc[t] = "undo"
    /\ m_nCount' = Add(0, -1, 0, 0)
    /\ role' = [role EXCEPT ![t] = "read"]
    /\ Goto(t, "idle")
    /\ UNCHANGED <<m_nLock, REvent, WEvent, event, bit31, others, pending>>

-----------------------------------------------------------------------------
\* Fault: the spin lock is entered without looking whether it is taken.
EnterRegardless(t) ==
    /\ pc[t] = "enter"
    /\ m_nLock' = TRUE
    /\ bit31' = [bit31 EXCEPT ![t] = m_nCount.parkedReader]
    /\ Goto(t, "park")
    /\ UNCHANGED <<m_nCount, REvent, WEvent, role, event, others, pending>>

\* Enter: the internal spin lock, taken before parking; a reader then copies
\* m_nCount.
Enter(t) ==
    /\ pc[t] = "enter" /\ ~m_nLock
    /\ m_nLock' = TRUE
    /\ bit31' = [bit31 EXCEPT ![t] = m_nCount.parkedReader]
    /\ Goto(t, "park")
    /\ UNCHANGED <<m_nCount, REvent, WEvent, role, event, others, pending>>

\* Fault: a parking thread never wakes anybody.
AfterParkSilent(c) == "leave"

\* A parking thread that leaves neither reader nor writer must wake somebody.
AfterPark(c) == IF Free(c) THEN "leaveAndSignal" ELSE "leave"

\* A reader parks: on m_hWEvent if its copy says that no other reader does
\* (bit 31), else on m_hREvent; it is no longer counted as a reader.
ParkReader(t) ==
    LET c == IF bit31[t] THEN Add(-1, 0, 1, 0)
                         ELSE [Add(-1, 0, 0, 0) EXCEPT !.parkedReader = ~@]
    IN
    /\ pc[t] = "park" /\ role[t] = "read"
    /\ m_nCount' = c
    /\ event' = [event EXCEPT ![t] = IF bit31[t] THEN "R" ELSE "W"]
    /\ bit31' = [bit31 EXCEPT ![t] = FALSE]
    /\ Goto(t, AfterPark(c))
    /\ UNCHANGED <<m_nLock, REvent, WEvent, role, others, pending>>

\* A writer parks on m_hWEvent and is no longer counted as a writer.
ParkWriter(t) ==
    LET c == Add(0, -1, 0, 1) IN
    /\ pc[t] = "park" /\ role[t] = "write"
    /\ m_nCount' = c
    /\ bit31' = [bit31 EXCEPT ![t] = FALSE]
    /\ Goto(t, AfterPark(c))
    /\ UNCHANGED <<m_nLock, REvent, WEvent, role, event, others, pending>>

\* Fault: a parking thread keeps the spin lock.
LeaveHolding(t) ==
    /\ pc[t] \in {"leave", "leaveAndSignal"}
    /\ Goto(t, IF pc[t] = "leaveAndSignal" THEN "signal" ELSE "wait")
    /\ UNCHANGED <<m_nCount, m_nLock, REvent, WEvent, locals, pending>>

\* Leave, then SetEvent(m_hWEvent) if the lock had become free meanwhile.
Leave(t) ==
    /\ pc[t] \in {"leave", "leaveAndSignal"}
    /\ m_nLock' = FALSE
    /\ Goto(t, IF pc[t] = "leaveAndSignal" THEN "signal" ELSE "wait")
    /\ UNCHANGED <<m_nCount, REvent, WEvent, locals, pending>>

Signal(t) ==
    /\ pc[t] = "signal"
    /\ WEvent' = TRUE
    /\ Goto(t, "wait")
    /\ UNCHANGED <<m_nCount, m_nLock, REvent, locals, pending>>

\* WaitForSingleObject on an auto-reset event.
Wait(t) ==
    /\ pc[t] = "wait"
    /\ \/ event[t] = "R" /\ REvent /\ REvent' = FALSE /\ UNCHANGED WEvent
       \/ event[t] = "W" /\ WEvent /\ WEvent' = FALSE /\ UNCHANGED REvent
    /\ Goto(t, "reenter")
    /\ UNCHANGED <<m_nCount, m_nLock, locals, pending>>

Reenter(t) ==
    /\ pc[t] = "reenter" /\ ~m_nLock
    /\ m_nLock' = TRUE
    /\ Goto(t, "recheck")
    /\ UNCHANGED <<m_nCount, REvent, WEvent, locals, pending>>

\* A woken reader is counted again and copies m_nCount; with a writer counted
\* it parks again.
RecheckReader(t) ==
    LET c == IF event[t] = "W" THEN [Add(1, 0, 0, 0) EXCEPT !.parkedReader = ~@]
                               ELSE Add(1, 0, -1, 0)
    IN
    /\ pc[t] = "recheck" /\ role[t] = "read"
    /\ m_nCount' = c
    /\ event' = [event EXCEPT ![t] = "W"]
    /\ bit31' = [bit31 EXCEPT ![t] = c.parkedReader /\ c.writers # 0]
    /\ others' = [others EXCEPT ![t] = c.parkedReaders > 0 /\ c.writers = 0]
    /\ Goto(t, IF c.writers = 0 THEN "exit" ELSE "park")
    /\ UNCHANGED <<m_nLock, REvent, WEvent, role, pending>>

\* Fault: a woken writer looks for other writers only.
RecheckWriterOnly(t) ==
    /\ pc[t] = "recheck" /\ role[t] = "write"
    /\ m_nCount' = Add(0, 1, 0, -1)
    /\ Goto(t, IF m_nCount.writers = 0 THEN "exit" ELSE "park")
    /\ UNCHANGED <<m_nLock, REvent, WEvent, locals, pending>>

\* A woken writer is counted again; it parks again if anybody was counted.
RecheckWriter(t) ==
    /\ pc[t] = "recheck" /\ role[t] = "write"
    /\ m_nCount' = Add(0, 1, 0, -1)
    /\ Goto(t, IF Free(m_nCount) THEN "exit" ELSE "park")
    /\ UNCHANGED <<m_nLock, REvent, WEvent, locals, pending>>

\* The lock is obtained after waiting.  Leave, and a reader whose copy shows
\* other readers parked on m_hREvent wakes one of them.
Exit(t) ==
    /\ pc[t] = "exit"
    /\ m_nLock' = FALSE
    /\ others' = [others EXCEPT ![t] = FALSE]
    /\ Goto(t, IF role[t] = "write" THEN "writing"
               ELSE IF others[t] THEN "pass" ELSE "reading")
    /\ UNCHANGED <<m_nCount, REvent, WEvent, role, event, bit31, pending>>

Pass(t) ==
    /\ pc[t] = "pass"
    /\ REvent' = TRUE
    /\ Goto(t, "reading")
    /\ UNCHANGED <<m_nCount, m_nLock, WEvent, locals, pending>>

-----------------------------------------------------------------------------
\* Fault: a reader that leaves takes two off the counter.
ReadUnlockTwice(t) ==
    /\ pc[t] = "reading"
    /\ m_nCount' = Add(-2, 0, 0, 0)
    /\ DecPending(t)
    /\ Goto(t, "idle")
    /\ UNCHANGED <<m_nLock, REvent, WEvent, locals>>

\* ReadUnlock and WriteUnlock: the last one out wakes somebody if there are
\* threads parked on m_hWEvent; ReadUnlock signals m_hREvent for that.
ReadUnlock(t) ==
    /\ pc[t] = "reading"
    /\ m_nCount' = Add(-1, 0, 0, 0)
    /\ DecPending(t)
    /\ Goto(t, IF Free(m_nCount') /\ ParkedW(m_nCount') THEN "setR" ELSE "idle")
    /\ UNCHANGED <<m_nLock, REvent, WEvent, locals>>

WriteUnlock(t) ==
    /\ pc[t] = "writing"
    /\ m_nCount' = Add(0, -1, 0, 0)
    /\ DecPending(t)
    /\ role' = [role EXCEPT ![t] = "read"]
    /\ Goto(t, IF Free(m_nCount') /\ ParkedW(m_nCount') THEN "setW" ELSE "idle")
    /\ UNCHANGED <<m_nLock, REvent, WEvent, event, bit31, others>>

SetREvent(t) ==
    /\ pc[t] = "setR"
    /\ REvent' = TRUE
    /\ Goto(t, "idle")
    /\ UNCHANGED <<m_nCount, m_nLock, WEvent, locals, pending>>

SetWEvent(t) ==
    /\ pc[t] = "setW"
    /\ WEvent' = TRUE
    /\ Goto(t, "idle")
    /\ UNCHANGED <<m_nCount, m_nLock, REvent, locals, pending>>

-----------------------------------------------------------------------------
\* A call of one of the operations, and the steps of one that has begun.
Call(t) == ReadLock(t) \/ WriteLock(t) \/ WriteTryLock(t)

Park(t) == \/ Enter(t) \/ ParkReader(t) \/ ParkWriter(t) \/ Leave(t)
           \/ Signal(t) \/ Wait(t)
Resume(t) == \/ Reenter(t) \/ RecheckReader(t) \/ RecheckWriter(t)
             \/ Exit(t) \/ Pass(t)
Unlock(t) == \/ ReadUnlock(t) \/ WriteUnlock(t) \/ SetREvent(t) \/ SetWEvent(t)

Step(t) == UndoTry(t) \/ Park(t) \/ Resume(t) \/ Unlock(t)

Next == \E t \in Threads : Call(t) \/ Step(t)

Spec == Init /\ [][Next]_vars

\* A thread that has called the lock runs on, and gives it back.
Fairness == \A t \in Threads : WF_vars(Step(t))

-----------------------------------------------------------------------------
Labels == {"idle", "reading", "writing", "undo", "enter", "park", "leave", "leaveAndSignal", "signal",
           "wait", "reenter", "recheck", "exit", "pass", "setR", "setW"}

\* The type invariant of the lock: every field of m_nCount stays in its bits.
TypeOK == /\ m_nCount \in [readers : 0..255, writers : 0..255, parkedReaders : 0..255,
                           parkedWriters : 0..127, parkedReader : BOOLEAN]
          /\ m_nLock \in BOOLEAN /\ REvent \in BOOLEAN /\ WEvent \in BOOLEAN
          /\ pc \in [Threads -> Labels]
          /\ role \in [Threads -> {"read", "write"}]
          /\ event \in [Threads -> {"R", "W"}]
          /\ bit31 \in [Threads -> BOOLEAN] /\ others \in [Threads -> BOOLEAN]
          /\ pending \in [Threads -> 0..(Word - 1)]

\* The threads that hold the lock, and those in the spin lock's section.
Readers == {t \in Threads : pc[t] \in {"reading", "pass"} \/ (pc[t] = "exit" /\ role[t] = "read")}
Writers == {t \in Threads : pc[t] = "writing" \/ (pc[t] = "exit" /\ role[t] = "write")}
InSpin == {t \in Threads : pc[t] \in {"park", "leave", "leaveAndSignal", "recheck", "exit"}}

\* A writer excludes everybody, whichever way each of them got in: at once,
\* after parking, or through WriteTryLock (BGLock.cpp 199-320).
MutualExclusion ==
    \A t \in Writers : Readers = {} /\ Writers = {t}

\* The threads each field of m_nCount stands for.
CountedReaders == {t \in Threads : \/ pc[t] \in {"reading", "pass"}
                                   \/ pc[t] \in {"enter", "park", "exit"} /\ role[t] = "read"}
CountedWriters == {t \in Threads : \/ pc[t] \in {"writing", "undo"}
                                   \/ pc[t] \in {"enter", "park", "exit"} /\ role[t] = "write"}
Parked == {t \in Threads : pc[t] \in {"leave", "leaveAndSignal", "signal", "wait", "reenter", "recheck"}}
ParkedOnR == {t \in Parked : role[t] = "read" /\ event[t] = "R"}
ParkedReader == {t \in Parked : role[t] = "read" /\ event[t] = "W"}
ParkedWriters == {t \in Parked : role[t] = "write"}

\* Every field counts exactly the threads it stands for, so that no field ever
\* goes below zero or carries into its neighbour, and bit 31 stands for at most
\* one reader although it is set and cleared by adding 2^31 (BGLock.cpp 206-241).
CountExact ==
    /\ m_nCount.readers = Cardinality(CountedReaders)
    /\ m_nCount.writers = Cardinality(CountedWriters)
    /\ m_nCount.parkedReaders = Cardinality(ParkedOnR)
    /\ m_nCount.parkedWriters = Cardinality(ParkedWriters)
    /\ IF m_nCount.parkedReader THEN \E t \in Threads : ParkedReader = {t}
                                ELSE ParkedReader = {}

\* No lost wake-up: when nobody holds the lock and nobody is on the way into
\* or out of it, no thread sleeps without a signalled event.
Awake(t) == pc[t] \notin {"idle", "wait"}
CanWake(t) == pc[t] = "wait" /\ (IF event[t] = "R" THEN REvent ELSE WEvent)
NobodyForgotten ==
    (\E t \in Threads : pc[t] = "wait") => \E t \in Threads : Awake(t) \/ CanWake(t)

\* The thread waits for the lock.
Waiting(t) == pc[t] \notin {"idle", "reading", "writing", "setR", "setW"}
=============================================================================
