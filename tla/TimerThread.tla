----------------------------- MODULE TimerThread -----------------------------
(***************************************************************************)
(* The timer service (BGIOTimerThread.cpp, BGIOObject::AddTimer and        *)
(* OnIOCallback, BGTestServer::Post): any thread adds an entry with a due  *)
(* time; one timer thread sleeps until the earliest one and posts what is  *)
(* due to the completion port, where a worker runs it.                     *)
(*                                                                         *)
(* The critical sections of s_lockTimer are one action each; reading the   *)
(* clock, SetEvent and the wait are steps outside of it.  The clock runs   *)
(* up to MaxTime, which stands for every later time as well.               *)
(***************************************************************************)
EXTENDS Integers, FiniteSets, FiniteSetsExt

CONSTANTS Timers,        \* bound: the entries of the program that exist at a time
          TimerInstance, \* s_TimerInstance, whose entry keeps the queue filled
          Delays,        \* the delays callers pass to AddTimer
          Day,           \* the delay of the entry of s_TimerInstance: 24 hours
          Half,          \* a LONG holds -Half .. Half - 1
          MaxTime,       \* bound of the clock
          MaxLost        \* bound: entries refused in one behaviour

ASSUME TimerOK == /\ IsFiniteSet(Timers) /\ TimerInstance \notin Timers
                  /\ Delays \subseteq Nat /\ MaxTime \in Nat /\ MaxLost \in Nat
                  /\ Half \in Nat /\ Day \in 1..(Half - 1)

Entries == Timers \union {TimerInstance}

VARIABLES
    now,           \* GetTickCount64
    queue, time,   \* s_timerQueue: the entries, and m_n64Time of each
    s_n64TopTime,
    s_nStop,
    hTimer, hStop, \* the events m_vHandle[0] and m_vHandle[1] are signalled
    pc,            \* where the timer thread is
    n64Tick, nWait, until, \* its clock reading, its wait, when that ends
    caller,        \* where the thread that adds an entry is
    packets,       \* entries posted to the port and not yet handled
    m_nTimerRef,   \* the timer references of all objects together
    lost           \* history: references that AddTimer never gave back

run == <<pc, n64Tick, nWait, until>>
vars == <<now, queue, time, s_n64TopTime, s_nStop, hTimer, hStop, run, caller,
          packets, m_nTimerRef, lost>>

\* The cast of a 64-bit difference to LONG.
Long(x) == ((x + Half) % (2 * Half)) - Half

Times(S) == {time[e] : e \in S}

Goto(l) == pc' = l

\* Init(): the entry of s_TimerInstance is pushed, then the thread is created.
Init == /\ now = 0
        /\ queue = {TimerInstance}
        /\ time = [e \in Entries |-> IF e = TimerInstance THEN Day ELSE 0]
        /\ s_n64TopTime = Day
        /\ s_nStop = TRUE
        /\ hTimer = FALSE /\ hStop = FALSE
        /\ pc = "start" /\ n64Tick = 0 /\ nWait = 0 /\ until = 0
        /\ caller = [e \in Timers |-> "idle"]
        /\ packets = {}
        /\ m_nTimerRef = 1
        /\ lost = 0

-----------------------------------------------------------------------------
\* BGIOObject::AddTimer takes a reference; BGIOTimerThread::AddTimer reads the
\* clock before it enters the lock.
AddTimer(e, d) ==
    /\ caller[e] = "idle" /\ e \notin queue \union packets /\ lost < MaxLost
    /\ m_nTimerRef' = m_nTimerRef + 1
    /\ time' = [time EXCEPT ![e] = now + d]
    /\ caller' = [caller EXCEPT ![e] = "lock"]
    /\ UNCHANGED <<now, queue, s_n64TopTime, s_nStop, hTimer, hStop, run, packets, lost>>

\* Fault: the new earliest entry is not signalled.
AfterPushSilent(e) == "idle"

\* An entry that is earlier than all others must wake the timer thread.
AfterPush(e) == IF s_n64TopTime > time[e] THEN "signal" ELSE "idle"

\* AddTimer, under the lock.  A stopped service refuses the entry, and the
\* reference taken for it is not given back.
Push(e) ==
    /\ caller[e] = "lock"
    /\ \/ /\ s_nStop
          /\ lost' = lost + 1
          /\ caller' = [caller EXCEPT ![e] = "idle"]
          /\ UNCHANGED <<queue, s_n64TopTime>>
       \/ /\ ~s_nStop
          /\ queue' = queue \union {e}
          /\ s_n64TopTime' = IF s_n64TopTime > time[e] THEN time[e] ELSE s_n64TopTime
          /\ caller' = [caller EXCEPT ![e] = AfterPush(e)]
          /\ UNCHANGED lost
    /\ UNCHANGED <<now, time, s_nStop, hTimer, hStop, run, packets, m_nTimerRef>>

\* AddTimer, after the lock: SetEvent(s_hTimer).
Signal(e) ==
    /\ caller[e] = "signal"
    /\ hTimer' = TRUE
    /\ caller' = [caller EXCEPT ![e] = "idle"]
    /\ UNCHANGED <<now, queue, time, s_n64TopTime, s_nStop, hStop, run, packets, m_nTimerRef, lost>>

\* Fault: the reference of a posted entry is released twice.
HandleTwice(e) ==
    /\ e \in packets
    /\ packets' = packets \ {e}
    /\ m_nTimerRef' = m_nTimerRef - 2
    /\ UNCHANGED <<now, queue, time, s_n64TopTime, s_nStop, hTimer, hStop, run, caller, lost>>

\* A worker runs BGIOObject::OnIOCallback: OnTimer, then Release.
Handle(e) ==
    /\ e \in packets
    /\ packets' = packets \ {e}
    /\ m_nTimerRef' = m_nTimerRef - 1
    /\ UNCHANGED <<now, queue, time, s_n64TopTime, s_nStop, hTimer, hStop, run, caller, lost>>

-----------------------------------------------------------------------------
\* Run: entries are accepted from here on.
Start ==
    /\ pc = "start"
    /\ s_nStop' = FALSE
    /\ Goto("tick")
    /\ UNCHANGED <<now, queue, time, s_n64TopTime, hTimer, hStop, n64Tick, nWait, until,
                   caller, packets, m_nTimerRef, lost>>

ReadTick ==
    /\ pc = "tick"
    /\ n64Tick' = now
    /\ Goto("lock")
    /\ UNCHANGED <<now, queue, time, s_n64TopTime, s_nStop, hTimer, hStop, nWait, until,
                   caller, packets, m_nTimerRef, lost>>

\* Fault: an entry is taken out one tick too early.
TakenEarly(t) == Long(t - n64Tick) <= 1

\* Whether the loop takes out an entry that is due at t.
Taken(t) == Long(t - n64Tick) <= 0

\* What the loop takes out when it begins with the entry first: that one, and
\* the others in the order of their times until one is not due.
Batch(first) ==
    {first} \union {e \in queue \ {first} :
                        \A f \in queue \ {first} : time[f] <= time[e] => Taken(time[f])}

\* The critical section of Run.  The earliest entry is not due: wait for it.
\* It is: post the due ones and wait for the next; there must be a next one,
\* because the code reads top() of the queue whether or not it is empty.
NothingDue ==
    /\ pc = "lock" /\ Long(s_n64TopTime - n64Tick) > 0
    /\ nWait' = Long(s_n64TopTime - n64Tick)
    /\ Goto("wait")
    /\ UNCHANGED <<now, queue, time, s_n64TopTime, s_nStop, hTimer, hStop, n64Tick, until,
                   caller, packets, m_nTimerRef, lost>>

PostDue ==
    /\ pc = "lock" /\ Long(s_n64TopTime - n64Tick) <= 0
    /\ \E first \in {e \in queue : time[e] = Min(Times(queue))} :
          LET rest == queue \ Batch(first) IN
          /\ queue' = rest
          /\ packets' = packets \union Batch(first)
          /\ IF rest = {}
             THEN Goto("undefined") /\ UNCHANGED <<s_n64TopTime, nWait>>
             ELSE /\ s_n64TopTime' = Min(Times(rest))
                  /\ nWait' = Long(Min(Times(rest)) - n64Tick)
                  /\ Goto("wait")
    /\ UNCHANGED <<now, time, s_nStop, hTimer, hStop, n64Tick, until, caller, m_nTimerRef, lost>>

\* WaitForMultipleObjects is called: it will return nWait later.
BeginWait ==
    /\ pc = "wait"
    /\ until' = Min({now + nWait, MaxTime})
    /\ Goto("waiting")
    /\ UNCHANGED <<now, queue, time, s_n64TopTime, s_nStop, hTimer, hStop, n64Tick, nWait,
                   caller, packets, m_nTimerRef, lost>>

\* Fault: the wait has no timeout.
ExpiredNever == FALSE

Expired == now >= until

\* It returns for a new entry, else for the end of the service, else for time.
\* n64Tick and nWait are local to a turn of the loop.
Wake ==
    /\ pc = "waiting"
    /\ n64Tick' = 0 /\ nWait' = 0 /\ until' = 0
    /\ \/ hTimer /\ hTimer' = FALSE /\ Goto("tick") /\ UNCHANGED hStop
       \/ ~hTimer /\ hStop /\ hStop' = FALSE /\ Goto("stop") /\ UNCHANGED hTimer
       \/ ~hTimer /\ ~hStop /\ Expired /\ Goto("tick") /\ UNCHANGED <<hTimer, hStop>>
    /\ UNCHANGED <<now, queue, time, s_n64TopTime, s_nStop,
                   caller, packets, m_nTimerRef, lost>>

\* Fault: the entries are dropped with their references.
StopUnreleased ==
    /\ pc = "stop"
    /\ s_nStop' = TRUE
    /\ queue' = {}
    /\ Goto("ended")
    /\ UNCHANGED <<now, time, s_n64TopTime, hTimer, hStop, n64Tick, nWait, until, caller,
                   packets, m_nTimerRef, lost>>

\* Fault: the end of the service is taken for a new entry.
StopContinue ==
    /\ pc = "stop"
    /\ Goto("tick")
    /\ UNCHANGED <<now, queue, time, s_n64TopTime, s_nStop, hTimer, hStop, n64Tick, nWait, until,
                   caller, packets, m_nTimerRef, lost>>

\* The end of Run: no more entries, and the references of those in the queue
\* are released.
Stop ==
    /\ pc = "stop"
    /\ s_nStop' = TRUE
    /\ m_nTimerRef' = m_nTimerRef - Cardinality(queue)
    /\ queue' = {}
    /\ Goto("ended")
    /\ UNCHANGED <<now, time, s_n64TopTime, hTimer, hStop, n64Tick, nWait, until, caller,
                   packets, lost>>

\* OnTerminate, called by the main thread, which then joins the timer thread.
OnTerminate ==
    /\ pc \notin {"stop", "ended", "undefined"} /\ ~hStop
    /\ hStop' = TRUE
    /\ UNCHANGED <<now, queue, time, s_n64TopTime, s_nStop, hTimer, run, caller, packets, m_nTimerRef, lost>>

Clock ==
    /\ now < MaxTime
    /\ now' = now + 1
    /\ UNCHANGED <<queue, time, s_n64TopTime, s_nStop, hTimer, hStop, run, caller, packets, m_nTimerRef, lost>>

-----------------------------------------------------------------------------
\* The steps of the timer thread.
Run == Start \/ ReadTick \/ NothingDue \/ PostDue \/ BeginWait \/ Wake \/ Stop

Next == \/ \E e \in Timers, d \in Delays : AddTimer(e, d)
        \/ \E e \in Timers : Push(e) \/ Signal(e)
        \/ \E e \in Entries : Handle(e)
        \/ Run \/ OnTerminate \/ Clock

Spec == Init /\ [][Next]_vars

\* The threads run on and time goes on.
Fairness == /\ WF_vars(Run) /\ WF_vars(Clock)
            /\ \A e \in Timers : WF_vars(Push(e) \/ Signal(e))

FairSpec == Spec /\ Fairness

-----------------------------------------------------------------------------
Labels == {"start", "tick", "lock", "wait", "waiting", "stop", "ended", "undefined"}

\* The type invariant: the references never fall below zero, and a wait is
\* never negative, which WaitForMultipleObjects would take for a very long one.
TypeOK == /\ now \in 0..MaxTime
          /\ queue \subseteq Entries /\ time \in [Entries -> Nat]
          /\ s_n64TopTime \in Nat
          /\ s_nStop \in BOOLEAN /\ hTimer \in BOOLEAN /\ hStop \in BOOLEAN
          /\ pc \in Labels
          /\ n64Tick \in 0..MaxTime /\ nWait \in Nat /\ until \in 0..MaxTime
          /\ caller \in [Timers -> {"idle", "lock", "signal"}]
          /\ packets \subseteq Entries
          /\ m_nTimerRef \in Nat /\ lost \in Nat

\* AddTimer runs an entry after its delay (BGIOObject.cpp 68).  Although the
\* differences of times are cut to a LONG, and the first entry is taken out on the
\* word of s_n64TopTime, an entry is posted before its time only when it is further
\* away than a LONG reaches and the 24-hour entry, which is not pushed again, is no
\* longer in front of it (BGIOTimerThread.cpp 78-97).
EarlyOnlyFar ==
    [][\A e \in packets' \ packets :
           time[e] <= now \/ (TimerInstance \notin queue' /\ time[e] - n64Tick >= Half)]_vars

\* The timer thread never sleeps past the earliest entry: if one came in while
\* it computed its wait or slept, it is or will be signalled; and s_n64TopTime is
\* the time of the earliest entry (BGIOTimerThread.cpp 56-62, 78, 92).  Only an
\* entry overdue by more than a LONG may look as if it were still to come.
NoOversleep ==
    /\ queue # {} /\ pc # "undefined" => s_n64TopTime = Min(Times(queue))
    /\ pc \in {"wait", "waiting"} /\ s_n64TopTime < n64Tick + nWait =>
          \/ hTimer \/ \E e \in Timers : caller[e] = "signal"
          \/ n64Tick - s_n64TopTime > Half

\* Every timer reference belongs to one entry that is being added, waiting or
\* posted, or to one that a stopped service refused; once the service has
\* ended no entry is left in the queue (BGIOTimerThread.cpp 50-54, 112-121).
Adding == {e \in Timers : caller[e] = "lock"}
RefExact ==
    /\ m_nTimerRef = Cardinality(queue) + Cardinality(packets) + Cardinality(Adding) + lost
    /\ pc = "ended" => queue = {}

\* The queue of a running service is never empty: top() is read without a test
\* (BGIOTimerThread.cpp 80, 89; the comment at 15).
NeverEmpty == pc # "ended" => queue # {}

\* Every entry that is due within the clock leaves the queue, unless top() of an
\* empty queue is read before.
EveryTimerFires ==
    \A e \in Timers : (e \in queue /\ time[e] <= MaxTime) ~> (e \notin queue \/ pc = "undefined")

\* When no more entries come in, OnTerminate ends the timer thread, so that its
\* join returns (BGIOTimerThread.cpp 105-124, 131-132).
StopsWhenQuiet ==
    <>[](\A e \in Timers : caller[e] = "idle") => (hStop ~> pc \in {"ended", "undefined"})
=============================================================================
