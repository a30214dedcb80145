------------------------------ MODULE Shutdown ------------------------------
(***************************************************************************)
(* The end of the program: main (BGIocpServer.cpp), BGIOThread::Terminate, *)
(* the worker threads with BGIOTerminate, BGLayer::Clear, and the log      *)
(* manager they all write to.                                              *)
(*                                                                         *)
(* For each worker in turn main posts a BGIOTerminate object that names    *)
(* the worker, waits for its event, and deletes the worker's object;       *)
(* whichever worker takes the packet sets the event and then suspends the  *)
(* thread that the object names.                                           *)
(*                                                                         *)
(* Nothing stops a worker between the event and its suspension, and what   *)
(* it uses then may be gone: the BGIOTerminate object is a local variable  *)
(* of OnTerminate, the worker's own object is deleted by Terminate, the    *)
(* completion handler and the port by Clear.  Each such use may go well by *)
(* chance, or break the program down (undefined).                          *)
(***************************************************************************)
EXTENDS LogManager

CONSTANTS N,        \* the workers of s_threadList are 1..N
          Levels,   \* the levels at which the other objects write to the log
          MaxJobs,  \* bound: other packets posted in one behaviour
          EventFails \* whether CreateEvent may fail

Workers == 1..N

ASSUME WorkersOK == /\ N \in Nat \ {0} /\ Callers = Workers \union {Main} /\ Main \notin Workers
                    /\ Levels \subseteq Level /\ MaxJobs \in Nat
                    /\ EventFails \in BOOLEAN

VARIABLES
    main, cur,   \* where main is, and the worker it is terminating
    m_pThread,   \* the thread named by the object on main's stack, at the place
                 \* that the next call of OnTerminate uses again
    hEvent,      \* the event is set
    port,        \* the completion port
    jobs,        \* history: other packets posted
    at,          \* where each worker is in Run
    suspended,   \* the threads that SuspendThread has stopped
    undefined    \* what no longer exists was used, and the program has broken down

threadVars == <<main, cur, m_pThread, hEvent, port, jobs, at, suspended, undefined>>
vars == <<logVars, threadVars>>

Init == /\ LogInit
        /\ main = "start" /\ cur = 1 /\ m_pThread = 1 /\ hEvent = FALSE
        /\ port = <<>> /\ jobs = 0
        /\ at = [w \in Workers |-> "loop"] /\ suspended = {} /\ undefined = FALSE

Go(w, l) == at' = [at EXCEPT ![w] = l]

\* The process exists.
Alive == ~undefined /\ main \notin {"failed", "done"}

\* Terminate has deleted the objects of these workers.
AllTerminated == main \in {"free", "clear", "last", "stop", "join", "done"}
Deleted == IF AllTerminated THEN Workers ELSE 1..(cur - 1)

\* Clear has deleted the completion handler, which closes the port.
Cleared == main \in {"last", "stop", "join", "done"}

\* main is in the call of OnTerminate that the BGIOTerminate object belongs to.
InFrame == main \in {"wait", "delete"}

-----------------------------------------------------------------------------
\* main writes to the log and goes on when PushLog has returned.
MainLogs(from, level, to) ==
    /\ main = from /\ call[Main] = "out" /\ main' = to
    /\ IF CheckLogLevel(level) THEN PushLog(Main, level) ELSE UNCHANGED logVars

\* main starts the log, or ends because it does not start.
StartLog == /\ main = "start"
            /\ \/ Start /\ main' = "running"
               \/ m_pRunThread # "null" /\ main' = "failed" /\ UNCHANGED logVars
            /\ UNCHANGED <<cur, m_pThread, hEvent, port, jobs, at, suspended, undefined>>

\* main leaves its loop.
ShutdownStarted == /\ MainLogs("running", BG_INFO, "post")
                   /\ UNCHANGED <<cur, m_pThread, hEvent, port, jobs, at, suspended, undefined>>

\* Fault: the object is posted a second time.
PostObjectTwice ==
    /\ main = "post" /\ call[Main] = "out" /\ main' = "wait"
    /\ m_pThread' = cur /\ hEvent' = FALSE
    /\ port' = port \o <<"terminate", "terminate">>
    /\ UNCHANGED <<logVars, cur, jobs, at, suspended, undefined>>

\* OnTerminate: the event is made, and PostObject fills and posts the object.
PostObject ==
    /\ main = "post" /\ call[Main] = "out" /\ main' = "wait"
    /\ m_pThread' = cur /\ hEvent' = FALSE
    /\ port' = Append(port, "terminate")
    /\ UNCHANGED <<logVars, cur, jobs, at, suspended, undefined>>

\* OnTerminate: CreateEvent fails, which is logged; no object is posted.
CreateEventFails ==
    /\ EventFails /\ MainLogs("post", BG_ERROR, "skip")
    /\ UNCHANGED <<cur, m_pThread, hEvent, port, jobs, at, suspended, undefined>>

\* Fault: the end of s_threadList is not noticed.
NextThreadUnchecked == cur + 1
NextThread == IF cur < N THEN cur + 1 ELSE cur

\* OnTerminate: the wait returns, which is logged.
WaitEnds == /\ hEvent /\ MainLogs("wait", BG_DEBUG, "delete")
            /\ UNCHANGED <<cur, m_pThread, hEvent, port, jobs, at, suspended, undefined>>

\* Terminate: the object of the thread is deleted, and the next one's turn comes.
Delete ==
    /\ main \in {"delete", "skip"} /\ call[Main] = "out"
    /\ main' = IF cur < N THEN "post" ELSE "free"
    /\ cur' = NextThread
    /\ UNCHANGED <<logVars, m_pThread, hEvent, port, jobs, at, suspended, undefined>>

\* The timer thread is joined, and FreeAll empties the pool: both take locks
\* that a worker may be in.
FreeAll ==
    /\ main = "free" /\ main' = "clear"
    /\ \A w \in Workers : at[w] # "section"
    /\ UNCHANGED <<logVars, cur, m_pThread, hEvent, port, jobs, at, suspended, undefined>>

\* BGLayer::Clear.
Clear == /\ main = "clear" /\ main' = "last"
         /\ UNCHANGED <<logVars, cur, m_pThread, hEvent, port, jobs, at, suspended, undefined>>

ShutdownCompleted == /\ MainLogs("last", BG_INFO, "stop")
                     /\ UNCHANGED <<cur, m_pThread, hEvent, port, jobs, at, suspended, undefined>>

StopLog == /\ main = "stop" /\ Stop /\ main' = "join"
           /\ UNCHANGED <<cur, m_pThread, hEvent, port, jobs, at, suspended, undefined>>

JoinLog == /\ main = "join" /\ Join /\ main' = "done"
           /\ UNCHANGED <<cur, m_pThread, hEvent, port, jobs, at, suspended, undefined>>

-----------------------------------------------------------------------------
Runs(w) == w \notin suspended /\ call[w] = "out"

BreakDown == undefined' = TRUE /\ UNCHANGED <<at, suspended>>

\* An operation completes, or a timer is posted.
PostJob ==
    /\ main # "start" /\ ~Cleared /\ jobs < MaxJobs /\ jobs' = jobs + 1
    /\ port' = Append(port, "job")
    /\ UNCHANGED <<logVars, main, cur, m_pThread, hEvent, at, suspended, undefined>>

\* BGIOWorkerThread::Run, the call of Get: it reads the worker's object, and the
\* port in the handler.
CallGet(w) ==
    /\ Runs(w) /\ at[w] = "loop"
    /\ \/ ~Cleared /\ Go(w, "get") /\ UNCHANGED <<suspended, undefined>>
       \/ w \in Deleted /\ BreakDown
    /\ UNCHANGED <<logVars, main, cur, m_pThread, hEvent, port, jobs>>

\* Get takes the next packet from the port.
Get(w) ==
    /\ Runs(w) /\ at[w] = "get" /\ ~Cleared /\ port # <<>>
    /\ port' = Tail(port)
    /\ Go(w, IF Head(port) = "job" THEN "job" ELSE "setEvent")
    /\ UNCHANGED <<logVars, main, cur, m_pThread, hEvent, jobs, suspended, undefined>>

\* The port is closed: Get fails and leaves pObject null, and Run calls it all
\* the same.
GetFails(w) ==
    /\ Runs(w) /\ at[w] = "get" /\ Cleared /\ BreakDown
    /\ UNCHANGED <<logVars, main, cur, m_pThread, hEvent, port, jobs>>

\* OnIOCallback of another object: it may write to the log, and come into a
\* section of the lock of the buffer pool or of the timer queue.
Job(w) ==
    /\ Runs(w) /\ at[w] = "job"
    /\ Go(w, "loop") \/ Go(w, "section")
    /\ (\E l \in Levels : PushLog(w, l)) \/ UNCHANGED logVars
    /\ UNCHANGED <<main, cur, m_pThread, hEvent, port, jobs, suspended, undefined>>

LeaveSection(w) ==
    /\ Runs(w) /\ at[w] = "section" /\ Go(w, "loop")
    /\ UNCHANGED <<logVars, main, cur, m_pThread, hEvent, port, jobs, suspended, undefined>>

\* BGIOTerminate::OnIOCallback, first SetEvent and then SuspendThread.
SetEvent(w) ==
    /\ Runs(w) /\ at[w] = "setEvent" /\ Go(w, "suspend")
    /\ hEvent' = TRUE
    /\ UNCHANGED <<logVars, main, cur, m_pThread, port, jobs, suspended, undefined>>

\* m_pThread is read from main's stack.  When main has left OnTerminate, it may
\* be what it was, or what the next call has put there, or anything: then
\* SuspendThread gets a handle of nothing, or the pointer leads nowhere.
SuspendThread(w) ==
    /\ Runs(w) /\ at[w] = "suspend"
    /\ \/ Go(w, "loop") /\ suspended' = suspended \union {m_pThread} /\ UNCHANGED undefined
       \/ ~InFrame /\ Go(w, "loop") /\ UNCHANGED <<suspended, undefined>>
       \/ ~InFrame /\ BreakDown
    /\ UNCHANGED <<logVars, main, cur, m_pThread, hEvent, port, jobs>>

\* The steps of PushLog and Stop of a thread that runs.
LogStep(c) == c \notin suspended /\ (Lock(c) \/ Push(c)) /\ UNCHANGED threadVars

-----------------------------------------------------------------------------
MainStep == /\ Alive
            /\ \/ StartLog \/ PostObject \/ CreateEventFails \/ WaitEnds \/ Delete \/ FreeAll \/ Clear
               \/ ShutdownCompleted \/ StopLog \/ JoinLog \/ LogStep(Main)
WorkerStep(w) == /\ Alive
                 /\ \/ CallGet(w) \/ Get(w) \/ GetFails(w) \/ Job(w) \/ LeaveSection(w)
                    \/ SetEvent(w) \/ SuspendThread(w) \/ LogStep(w)
RunStep == Alive /\ (Pick \/ Write) /\ UNCHANGED threadVars

Next == \/ MainStep \/ RunStep
        \/ Alive /\ (ShutdownStarted \/ PostJob \/ (Hour /\ UNCHANGED threadVars))
        \/ \E w \in Workers : WorkerStep(w)

Spec == Init /\ [][Next]_vars

\* main, Run and the workers that are not suspended go on.
FairSpec == Spec /\ WF_vars(MainStep) /\ WF_vars(RunStep) /\ \A w \in Workers : WF_vars(WorkerStep(w))

-----------------------------------------------------------------------------
\* The type invariant.
TypeOK == /\ LogTypeOK
          /\ main \in {"start", "failed", "running", "post", "wait", "delete", "skip", "free",
                       "clear", "last", "stop", "join", "done"}
          /\ cur \in Workers /\ m_pThread \in Workers /\ hEvent \in BOOLEAN
          /\ port \in Seq({"job", "terminate"}) /\ jobs \in 0..MaxJobs
          /\ at \in [Workers -> {"loop", "get", "job", "section", "setEvent", "suspend"}]
          /\ suspended \subseteq Workers /\ undefined \in BOOLEAN

\* A worker was stopped where others wait for it: with a lock, or before it has
\* set the event (BGIOTerminate.cpp 14-15, BGLogManager.cpp 239, BGIOBuffer.cpp 43).
Blocks(w) == w \in suspended /\ (call[w] = "locked" \/ at[w] \in {"section", "setEvent"})

\* Once the shutdown has started it comes to its end, unless a worker has been
\* suspended where others wait for it, or the program has broken down.
ShutdownEnds ==
    (main = "post") ~> (main = "done" \/ undefined \/ \E w \in Workers : Blocks(w))

\* The program breaks down only because a worker outlives its object.  Terminate
\* means to end a thread before it deletes the object (BGIOThread.h 11), but the
\* event is set first (BGIOTerminate.cpp 14-15), so it may not have ended.  If it
\* has, with every worker whose object is deleted, nothing that is gone is used,
\* neither the object on main's stack, which is read by the worker that suspends,
\* nor the handler and the port (BGIOWorkerThread.cpp 29-31, 47-58, BGLayer.cpp
\* 45-52).
BrokenByOutliving == undefined => ~(Deleted \subseteq suspended)

\* No worker is ended in the middle of a job (ReadMe.txt 12).
NeverInTheMiddle == \A w \in suspended : at[w] \notin {"job", "section"}
=============================================================================
