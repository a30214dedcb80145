--------------------------- MODULE AcceptPipeline ---------------------------
(***************************************************************************)
(* How connections are accepted (BGIOServer.cpp, BGIOAcceptThread.cpp).    *)
(* Winsock signals m_hAcceptEvent; the accept thread resets it and posts   *)
(* the server to the completion port; a worker calls accept once and makes *)
(* the connection's object.                                                *)
(*                                                                         *)
(* Winsock signals a new connection once, and again only after a call of   *)
(* accept, which signals at once if more connections wait.  Each signal    *)
(* leads to one accept, so connections are lost unless every step hands    *)
(* the signal on.                                                          *)
(***************************************************************************)
EXTENDS Integers, Sequences, FiniteSets

CONSTANTS Clients, Workers,
          Nobody,       \* INVALID_SOCKET
          Backlog       \* the second argument of listen

ASSUME AcceptOK == Nobody \notin Clients /\ Backlog \in Nat \ {0}

VARIABLES
    main,           \* where the main thread is in Start, Stop and Terminate
    m_hSocket,      \* the member m_hSocket names the listening socket
    open,           \* that socket exists
    backlog,        \* the connections that wait to be accepted
    armed,          \* Winsock will signal the next one
    m_hAcceptEvent, \* the manual-reset event is set
    hStop,          \* m_vHandle[1] is set
    pc,             \* where the accept thread is
    packets,        \* packets of the server in the completion port
    at, newSocket,  \* where each worker is in OnIOCallback, and its socket
    client          \* what has become of each client

vars == <<main, m_hSocket, open, backlog, armed, m_hAcceptEvent, hStop, pc, packets, at,
          newSocket, client>>

Init == /\ main = "start"
        /\ m_hSocket = FALSE /\ open = FALSE
        /\ backlog = <<>>
        /\ armed = FALSE
        /\ m_hAcceptEvent = FALSE /\ hStop = FALSE
        /\ pc = "none"
        /\ packets = 0
        /\ at = [w \in Workers |-> "get"]
        /\ newSocket = [w \in Workers |-> Nobody]
        /\ client = [c \in Clients |-> "away"]

Fate(c, f) == client' = [client EXCEPT ![c] = f]
Go(w, l) == at' = [at EXCEPT ![w] = l]

\* FD_ACCEPT is enabled while q waits: Winsock signals at once if q is not
\* empty, else it will signal the next connection.
Enable(q) == /\ armed' = (q = <<>>)
             /\ m_hAcceptEvent' = (m_hAcceptEvent \/ q # <<>>)

-----------------------------------------------------------------------------
\* A client connects.
Connect(c) ==
    /\ open /\ client[c] = "away" /\ Len(backlog) < Backlog
    /\ backlog' = Append(backlog, c)
    /\ Fate(c, "waiting")
    /\ IF armed THEN Enable(backlog') ELSE UNCHANGED <<armed, m_hAcceptEvent>>
    /\ UNCHANGED <<main, m_hSocket, open, hStop, pc, packets, at, newSocket>>

\* A client goes away before it is accepted, or later.
GiveUp(i) ==
    /\ backlog' = SubSeq(backlog, 1, i - 1) \o SubSeq(backlog, i + 1, Len(backlog))
    /\ Fate(backlog[i], "away")
    /\ UNCHANGED <<main, m_hSocket, open, armed, m_hAcceptEvent, hStop, pc, packets, at, newSocket>>

Disconnect(c) ==
    /\ client[c] = "served"
    /\ Fate(c, "away")
    /\ UNCHANGED <<main, m_hSocket, open, backlog, armed, m_hAcceptEvent, hStop, pc, packets, at,
                   newSocket>>

-----------------------------------------------------------------------------
\* Start: socket, bind or listen fails, and what is open is closed again; the
\* program goes on without an accept thread.
ListenFails ==
    /\ main = "start" /\ main' = "failed"
    /\ UNCHANGED <<m_hSocket, open, backlog, armed, m_hAcceptEvent, hStop, pc, packets, at,
                   newSocket, client>>

\* Start: socket, bind, listen.
Listen ==
    /\ main = "start"
    /\ m_hSocket' = TRUE /\ open' = TRUE
    /\ main' = "select"
    /\ UNCHANGED <<backlog, armed, m_hAcceptEvent, hStop, pc, packets, at, newSocket, client>>

\* Start: WSAEventSelect, and the accept thread begins.
Select ==
    /\ main = "select"
    /\ Enable(backlog)
    /\ pc' = "wait"
    /\ main' = "running"
    /\ UNCHANGED <<m_hSocket, open, backlog, hStop, packets, at, newSocket, client>>

\* Fault: the threads are terminated while the server goes on.
StopNothing ==
    /\ main = "running" /\ main' = "stopped"
    /\ UNCHANGED <<m_hSocket, open, backlog, armed, m_hAcceptEvent, hStop, pc, packets, at,
                   newSocket, client>>

\* Stop: the member is cleared, then the socket is closed and what waited there
\* is reset by the system.
Stop ==
    \/ /\ main = "running"
       /\ m_hSocket' = FALSE
       /\ main' = "closing"
       /\ UNCHANGED <<open, backlog, armed, client>>
       /\ UNCHANGED <<m_hAcceptEvent, hStop, pc, packets, at, newSocket>>
    \/ /\ main = "closing"
       /\ open' = FALSE /\ armed' = FALSE /\ backlog' = <<>>
       /\ client' = [c \in Clients |-> IF client[c] = "waiting" THEN "away" ELSE client[c]]
       /\ main' = "stopped"
       /\ UNCHANGED m_hSocket
       /\ UNCHANGED <<m_hAcceptEvent, hStop, pc, packets, at, newSocket>>

\* BGIOAcceptThread::OnTerminate: the second event is set, the thread joined.
OnTerminate ==
    \/ /\ main = "stopped"
       /\ hStop' = TRUE
       /\ main' = "join"
       /\ UNCHANGED <<m_hSocket, open, backlog, armed, m_hAcceptEvent, pc, packets, at, newSocket, client>>
    \/ /\ main = "join" /\ pc = "ended"
       /\ main' = "joined"
       /\ UNCHANGED <<m_hSocket, open, backlog, armed, m_hAcceptEvent, hStop, pc, packets, at,
                      newSocket, client>>

-----------------------------------------------------------------------------
\* BGIOAcceptThread::Run: the wait returns the first event that is set.
Wait ==
    /\ pc = "wait"
    /\ \/ m_hAcceptEvent /\ pc' = "reset" /\ UNCHANGED hStop
       \/ ~m_hAcceptEvent /\ hStop /\ hStop' = FALSE /\ pc' = "ended"
    /\ UNCHANGED <<main, m_hSocket, open, backlog, armed, m_hAcceptEvent, packets, at, newSocket, client>>

Reset(from, to) ==
    /\ pc = from /\ pc' = to
    /\ m_hAcceptEvent' = FALSE
    /\ UNCHANGED packets

Post(from, to) ==
    /\ pc = from /\ pc' = to
    /\ packets' = packets + 1
    /\ UNCHANGED m_hAcceptEvent

\* Fault: the packet is posted before the event is reset.
OnWaitCallbackPostFirst ==
    /\ Post("reset", "post") \/ Reset("post", "wait")
    /\ UNCHANGED <<main, m_hSocket, open, backlog, armed, hStop, at, newSocket, client>>

\* BGIOServer::OnWaitCallback: WSAResetEvent, then Post.
OnWaitCallback ==
    /\ Reset("reset", "post") \/ Post("post", "wait")
    /\ UNCHANGED <<main, m_hSocket, open, backlog, armed, hStop, at, newSocket, client>>

-----------------------------------------------------------------------------
\* OnIOCallback: accept, on the socket that the member names now.  It fails
\* when nobody waits any more or the server was stopped; the code goes on.
Accept(w) ==
    /\ at[w] = "get" /\ packets > 0
    /\ packets' = packets - 1
    /\ Go(w, "create")
    /\ \/ /\ m_hSocket /\ backlog # <<>>
          /\ newSocket' = [newSocket EXCEPT ![w] = Head(backlog)]
          /\ backlog' = Tail(backlog)
          /\ Fate(Head(backlog), "accepted")
          /\ Enable(Tail(backlog))
       \/ /\ m_hSocket /\ backlog = <<>>
          /\ Enable(backlog)
          /\ UNCHANGED <<newSocket, backlog, client>>
       \/ /\ ~m_hSocket
          /\ UNCHANGED <<newSocket, backlog, client, armed, m_hAcceptEvent>>
    /\ UNCHANGED <<main, m_hSocket, open, hStop, pc>>

\* OnIOCallback: CreateSocket finds a slot, and the connection is served, or
\* it finds none, and the socket is closed.
CreateSocket(w) ==
    /\ at[w] = "create"
    /\ IF newSocket[w] = Nobody THEN UNCHANGED client
                                ELSE \E f \in {"served", "away"} : Fate(newSocket[w], f)
    /\ newSocket' = [newSocket EXCEPT ![w] = Nobody]
    /\ Go(w, "get")
    /\ UNCHANGED <<main, m_hSocket, open, backlog, armed, m_hAcceptEvent, hStop, pc, packets>>

-----------------------------------------------------------------------------
Run == Wait \/ OnWaitCallback

Next == \/ \E c \in Clients : Connect(c) \/ Disconnect(c)
        \/ \E i \in 1..Len(backlog) : GiveUp(i)
        \/ ListenFails \/ Listen \/ Select \/ Stop \/ OnTerminate
        \/ Run
        \/ \E w \in Workers : Accept(w) \/ CreateSocket(w)

Spec == Init /\ [][Next]_vars

\* The threads run on, some worker takes the packet, and the main thread ends
\* Start and, once the server is stopped, the join.
Fairness == /\ WF_vars(Run)
            /\ WF_vars(\E w \in Workers : Accept(w))
            /\ \A w \in Workers : WF_vars(CreateSocket(w))
            /\ WF_vars(Select) /\ WF_vars(OnTerminate)

FairSpec == Spec /\ Fairness

-----------------------------------------------------------------------------
\* The type invariant: there is never more than one packet in the port, so no
\* more than one worker at a time is about to call accept.
TypeOK == /\ main \in {"start", "failed", "select", "running", "closing", "stopped", "join", "joined"}
          /\ m_hSocket \in BOOLEAN /\ open \in BOOLEAN
          /\ backlog \in Seq(Clients)
          /\ armed \in BOOLEAN /\ m_hAcceptEvent \in BOOLEAN /\ hStop \in BOOLEAN
          /\ pc \in {"none", "wait", "reset", "post", "ended"}
          /\ packets \in {0, 1}
          /\ at \in [Workers -> {"get", "create"}]
          /\ newSocket \in [Workers -> Clients \union {Nobody}]
          /\ client \in [Clients -> {"away", "waiting", "accepted", "served"}]

\* The signal is handed on, never doubled and never dropped: while the server
\* runs exactly one of Winsock, the event, the accept thread and the completion
\* port has it, and it is not Winsock while a connection waits
\* (BGIOServer.cpp 94-95, 108; BGIOAcceptThread.cpp 24-26).
Holders == {h \in {"winsock", "event", "thread", "port"} :
                \/ h = "winsock" /\ armed
                \/ h = "event" /\ m_hAcceptEvent
                \/ h = "thread" /\ pc = "post"
                \/ h = "port" /\ packets > 0}

OneSignal == /\ \A g, h \in Holders : g = h
             /\ main = "running" => Holders # {}
             /\ armed => backlog = <<>>

\* Nobody waits for ever: whoever connects is accepted, unless he goes away or
\* the server is stopped first (BGIOServer.cpp 92-121).
EveryoneAccepted ==
    \A c \in Clients : client[c] = "waiting" ~> client[c] # "waiting" \/ main = "closing"

\* The accept thread can be joined: it looks at its stop event only when the
\* accept event is not set, so the server must have been stopped before
\* (BGIOAcceptThread.cpp 24-28, 33-37; BGIocpServer.cpp 71-72).
AcceptThreadEnds == main = "join" ~> main = "joined"
=============================================================================
