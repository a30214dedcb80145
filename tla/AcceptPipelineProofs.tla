------------------------- MODULE AcceptPipelineProofs -------------------------
(***************************************************************************)
(* The accept signal is handed on for any number of clients and workers    *)
(* and any backlog.                                                        *)
(*                                                                         *)
(* OneSignal needs to know what main has done (Stages: which sockets and   *)
(* threads exist) and that the thread that is about to reset the event has *)
(* seen it set (Seen), so that the reset takes the signal and no other.    *)
(***************************************************************************)
EXTENDS AcceptPipeline, SequenceTheorems, TLAPS

Stages == /\ m_hSocket <=> main \in {"select", "running"}
          /\ pc = "none" <=> main \in {"start", "failed", "select"}
          /\ main \in {"start", "failed", "select"} => ~armed /\ ~m_hAcceptEvent /\ packets = 0
          /\ main = "start" => backlog = <<>>
          /\ open <=> main \in {"select", "running", "closing"}
          /\ ~open => ~armed

Seen == pc = "reset" => m_hAcceptEvent

\* OneSignal, spelled out.
Apart == /\ ~(armed /\ m_hAcceptEvent) /\ ~(armed /\ pc = "post") /\ ~(armed /\ packets > 0)
         /\ ~(m_hAcceptEvent /\ pc = "post") /\ ~(m_hAcceptEvent /\ packets > 0)
         /\ ~(pc = "post" /\ packets > 0)
         /\ main = "running" => armed \/ m_hAcceptEvent \/ pc = "post" \/ packets > 0
         /\ armed => backlog = <<>>

IInv == TypeOK /\ Stages /\ Seen /\ Apart

LEMMA Spelled == Apart => OneSignal
<1> SUFFICES ASSUME Apart PROVE OneSignal
  OBVIOUS
<1>1. ASSUME NEW g \in Holders, NEW h \in Holders PROVE g = h
  BY DEF Apart, Holders
<1>2. main = "running" => Holders # {}
  <2> SUFFICES ASSUME main = "running" PROVE Holders # {}
    OBVIOUS
  <2>1. CASE armed
    <3>1. "winsock" \in Holders BY <2>1 DEF Holders
    <3> QED BY <3>1
  <2>2. CASE m_hAcceptEvent
    <3>1. "event" \in Holders BY <2>2 DEF Holders
    <3> QED BY <3>1
  <2>3. CASE pc = "post"
    <3>1. "thread" \in Holders BY <2>3 DEF Holders
    <3> QED BY <3>1
  <2>4. CASE packets > 0
    <3>1. "port" \in Holders BY <2>4 DEF Holders
    <3> QED BY <3>1
  <2> QED BY <2>1, <2>2, <2>3, <2>4 DEF Apart
<1> QED BY <1>1, <1>2 DEF OneSignal, Apart

LEMMA InvInit == Init => IInv
<1> SUFFICES ASSUME Init PROVE IInv
  OBVIOUS
<1>1. TypeOK
  BY EmptySeq DEF Init, TypeOK
<1>2. Stages /\ Seen /\ Apart
  BY DEF Init, Stages, Seen, Apart
<1> QED BY <1>1, <1>2 DEF IInv

-----------------------------------------------------------------------------
LEMMA InvStep == IInv /\ [Next]_vars => IInv'
<1> SUFFICES ASSUME IInv, [Next]_vars PROVE IInv'
  OBVIOUS
<1> USE DEF IInv
<1>1. ASSUME NEW c \in Clients, Connect(c) PROVE IInv'
  <2>1. backlog' \in Seq(Clients) /\ backlog' # <<>>
    BY <1>1, AppendProperties DEF Connect, TypeOK
  <2>2. client' \in [Clients -> {"away", "waiting", "accepted", "served"}]
    BY <1>1 DEF Connect, Fate, TypeOK
  <2>5. /\ open
        /\ UNCHANGED <<main, m_hSocket, open, hStop, pc, packets, at, newSocket>>
    BY <1>1 DEF Connect
  <2>3. CASE armed
    <3>1. armed' = (backlog' = <<>>) /\ m_hAcceptEvent' = (m_hAcceptEvent \/ backlog' # <<>>)
      BY <1>1, <2>3, Zenon DEF Connect, Enable
    <3>2. armed' = FALSE /\ m_hAcceptEvent' = TRUE
      BY <2>1, <3>1, Zenon
    <3> QED BY <2>1, <2>2, <2>3, <2>5, <3>2 DEF TypeOK, Stages, Seen, Apart
  <2>4. CASE ~armed
    <3>1. armed' = armed /\ m_hAcceptEvent' = m_hAcceptEvent
      BY <1>1, <2>4, Zenon DEF Connect
    <3>2. TypeOK' BY <2>1, <2>2, <2>5, <3>1 DEF TypeOK
    <3>3. Stages' BY <2>5, <3>1 DEF Stages
    <3>4. Seen' BY <2>5, <3>1 DEF Seen
    <3>5. Apart' BY <2>4, <2>5, <3>1 DEF Apart
    <3> QED BY <3>2, <3>3, <3>4, <3>5
  <2> QED BY <2>3, <2>4
<1>2. ASSUME NEW i \in 1..Len(backlog), GiveUp(i) PROVE IInv'
  <2>1. SubSeq(backlog, 1, i - 1) \in Seq(Clients) /\ SubSeq(backlog, i + 1, Len(backlog)) \in Seq(Clients)
    <3>1. backlog \in Seq(Clients) BY DEF TypeOK
    <3>2. Len(backlog) \in Nat /\ \A j \in 1..Len(backlog) : backlog[j] \in Clients BY <3>1
    <3> QED BY <3>1, <3>2, SubSeqProperties
  <2>2. backlog' \in Seq(Clients)
    BY <1>2, <2>1, ConcatProperties DEF GiveUp
  <2>3. backlog # <<>>
    <3>1. backlog = <<>> => Len(backlog) = 0 OBVIOUS
    <3> QED BY <3>1
  <2>4. client' \in [Clients -> {"away", "waiting", "accepted", "served"}]
    BY <1>2 DEF GiveUp, Fate, TypeOK
  <2>5. ~armed BY <2>3 DEF Apart
  <2> QED BY <1>2, <2>2, <2>3, <2>4, <2>5 DEF GiveUp, TypeOK, Stages, Seen, Apart
<1>12. ASSUME NEW c \in Clients, Disconnect(c) PROVE IInv'
  <2>1. client' \in [Clients -> {"away", "waiting", "accepted", "served"}]
    BY <1>12 DEF Disconnect, Fate, TypeOK
  <2> QED BY <1>12, <2>1 DEF Disconnect, TypeOK, Stages, Seen, Apart
<1>13. CASE ListenFails
  BY <1>13 DEF ListenFails, TypeOK, Stages, Seen, Apart
<1>3. CASE Listen
  BY <1>3 DEF Listen, TypeOK, Stages, Seen, Apart
<1>4. CASE Select
  <2>1. /\ armed' = (backlog = <<>>) /\ m_hAcceptEvent' = (m_hAcceptEvent \/ backlog # <<>>)
        /\ main = "select" /\ main' = "running" /\ pc' = "wait"
        /\ UNCHANGED <<m_hSocket, open, backlog, hStop, packets, at, newSocket, client>>
    BY <1>4, Zenon DEF Select, Enable
  <2>2. ~armed /\ ~m_hAcceptEvent /\ packets = 0 /\ m_hSocket
    BY <2>1 DEF Stages
  <2>3. CASE backlog = <<>>
    <3>1. armed' = TRUE /\ m_hAcceptEvent' = FALSE
      BY <2>1, <2>2, <2>3, Zenon
    <3> QED BY <2>1, <2>2, <2>3, <3>1 DEF TypeOK, Stages, Seen, Apart
  <2>4. CASE backlog # <<>>
    <3>1. armed' = FALSE /\ m_hAcceptEvent' = TRUE
      BY <2>1, <2>2, <2>4, Zenon
    <3> QED BY <2>1, <2>2, <2>4, <3>1 DEF TypeOK, Stages, Seen, Apart
  <2> QED BY <2>3, <2>4
<1>5. CASE Stop
  <2>1. CASE main = "running"
    <3>1. /\ m_hSocket' = FALSE /\ main' = "closing"
          /\ UNCHANGED <<open, backlog, armed, client, m_hAcceptEvent, hStop, pc, packets, at, newSocket>>
      BY <1>5, <2>1 DEF Stop
    <3>10. TypeOK' BY <2>1, <3>1 DEF TypeOK
    <3>11. Stages' BY <2>1, <3>1 DEF Stages
    <3>12. Seen' BY <2>1, <3>1 DEF Seen
    <3>13. Apart' BY <2>1, <3>1 DEF Apart
    <3> QED BY <3>10, <3>11, <3>12, <3>13
  <2>2. CASE main = "closing"
    <3>1. client' \in [Clients -> {"away", "waiting", "accepted", "served"}]
      BY <1>5, <2>2 DEF Stop, TypeOK
    <3>2. backlog' \in Seq(Clients)
      BY <1>5, <2>2, EmptySeq DEF Stop
    <3>3. /\ open' = FALSE /\ armed' = FALSE /\ backlog' = <<>> /\ main' = "stopped"
          /\ UNCHANGED <<m_hSocket, m_hAcceptEvent, hStop, pc, packets, at, newSocket>>
      BY <1>5, <2>2 DEF Stop
    <3>10. TypeOK' BY <2>2, <3>1, <3>2, <3>3 DEF TypeOK
    <3>11. Stages' BY <2>2, <3>1, <3>2, <3>3 DEF Stages
    <3>12. Seen' BY <2>2, <3>1, <3>2, <3>3 DEF Seen
    <3>13. Apart' BY <2>2, <3>1, <3>2, <3>3 DEF Apart
    <3> QED BY <3>10, <3>11, <3>12, <3>13
  <2> QED BY <1>5, <2>1, <2>2 DEF Stop
<1>6. CASE OnTerminate
  <2>1. /\ main \in {"stopped", "join"} /\ main' \in {"join", "joined"} /\ hStop' \in BOOLEAN
        /\ UNCHANGED <<m_hSocket, open, backlog, armed, m_hAcceptEvent, pc, packets, at, newSocket, client>>
    BY <1>6 DEF OnTerminate, TypeOK
  <2>10. TypeOK' BY <2>1 DEF TypeOK
  <2>11. Stages' BY <2>1 DEF Stages
  <2>12. Seen' BY <2>1 DEF Seen
  <2>13. Apart' BY <2>1 DEF Apart
  <2> QED BY <2>10, <2>11, <2>12, <2>13
<1>7. CASE Wait
  BY <1>7 DEF Wait, TypeOK, Stages, Seen, Apart
<1>8. CASE OnWaitCallback
  <2>1. CASE pc = "reset"
    BY <1>8, <2>1 DEF OnWaitCallback, Reset, Post, TypeOK, Stages, Seen, Apart
  <2>2. CASE pc = "post"
    <3>1. packets' = 1 /\ pc' = "wait"
      BY <1>8, <2>2 DEF OnWaitCallback, Reset, Post, TypeOK, Apart
    <3> QED BY <1>8, <2>2, <3>1 DEF OnWaitCallback, Reset, Post, TypeOK, Stages, Seen, Apart
  <2> QED BY <1>8, <2>1, <2>2 DEF OnWaitCallback, Reset, Post
<1>9. ASSUME NEW w \in Workers, Accept(w) PROVE IInv'
  <2>1. /\ packets = 1 /\ packets' = 0
        /\ ~armed /\ ~m_hAcceptEvent /\ pc # "post"
        /\ at' \in [Workers -> {"get", "create"}]
        /\ UNCHANGED <<main, m_hSocket, open, hStop, pc>>
    BY <1>9 DEF Accept, Go, TypeOK, Apart
  <2>2. CASE m_hSocket /\ backlog # <<>>
    <3>1. Head(backlog) \in Clients /\ Tail(backlog) \in Seq(Clients)
      BY <2>2, HeadTailProperties DEF TypeOK
    <3>2. /\ backlog' = Tail(backlog) /\ Enable(backlog')
          /\ newSocket' \in [Workers -> Clients \union {Nobody}]
          /\ client' \in [Clients -> {"away", "waiting", "accepted", "served"}]
      BY <1>9, <2>2, <3>1 DEF Accept, Fate, TypeOK
    <3>3. /\ armed' = (backlog' = <<>>)
          /\ m_hAcceptEvent' = (m_hAcceptEvent \/ backlog' # <<>>)
      BY <3>2, Zenon DEF Enable
    <3>4. CASE backlog' = <<>>
      <4>1. armed' = TRUE /\ m_hAcceptEvent' = FALSE
        BY <2>1, <3>3, <3>4, Zenon
      <4>10. TypeOK' BY <2>1, <2>2, <3>1, <3>2, <3>4, <4>1 DEF TypeOK
      <4>11. Stages' BY <2>1, <2>2, <3>1, <3>2, <3>4, <4>1 DEF Stages
      <4>12. Seen' BY <2>1, <2>2, <3>1, <3>2, <3>4, <4>1 DEF Seen
      <4>13. Apart' BY <2>1, <2>2, <3>1, <3>2, <3>4, <4>1 DEF Apart
      <4> QED BY <4>10, <4>11, <4>12, <4>13
    <3>5. CASE backlog' # <<>>
      <4>1. armed' = FALSE /\ m_hAcceptEvent' = TRUE
        BY <2>1, <3>3, <3>5, Zenon
      <4>10. TypeOK' BY <2>1, <2>2, <3>1, <3>2, <3>5, <4>1 DEF TypeOK
      <4>11. Stages' BY <2>1, <2>2, <3>1, <3>2, <3>5, <4>1 DEF Stages
      <4>12. Seen' BY <2>1, <2>2, <3>1, <3>2, <3>5, <4>1 DEF Seen
      <4>13. Apart' BY <2>1, <2>2, <3>1, <3>2, <3>5, <4>1 DEF Apart
      <4> QED BY <4>10, <4>11, <4>12, <4>13
    <3> QED BY <3>4, <3>5
  <2>3. CASE m_hSocket /\ backlog = <<>>
    <3>1. Enable(backlog) /\ UNCHANGED <<newSocket, backlog, client>>
      BY <1>9, <2>3 DEF Accept
    <3>2. armed' = TRUE /\ m_hAcceptEvent' = FALSE
      BY <2>1, <2>3, <3>1, Zenon DEF Enable
    <3>10. TypeOK' BY <2>1, <2>3, <3>1, <3>2 DEF TypeOK
    <3>11. Stages' BY <2>1, <2>3, <3>1, <3>2 DEF Stages
    <3>12. Seen' BY <2>1, <2>3, <3>1, <3>2 DEF Seen
    <3>13. Apart' BY <2>1, <2>3, <3>1, <3>2 DEF Apart
    <3> QED BY <3>10, <3>11, <3>12, <3>13
  <2>4. CASE ~m_hSocket
    BY <1>9, <2>1, <2>4 DEF Accept, TypeOK, Stages, Seen, Apart
  <2> QED BY <2>2, <2>3, <2>4
<1>10. ASSUME NEW w \in Workers, CreateSocket(w) PROVE IInv'
  <2>1. client' \in [Clients -> {"away", "waiting", "accepted", "served"}]
    BY <1>10 DEF CreateSocket, Fate, TypeOK
  <2>2. at' \in [Workers -> {"get", "create"}] /\ newSocket' \in [Workers -> Clients \union {Nobody}]
    BY <1>10 DEF CreateSocket, Go, TypeOK
  <2> QED BY <1>10, <2>1, <2>2 DEF CreateSocket, TypeOK, Stages, Seen, Apart
<1>11. CASE UNCHANGED vars
  BY <1>11 DEF vars, TypeOK, Stages, Seen, Apart
<1> QED BY <1>1, <1>2, <1>3, <1>4, <1>5, <1>6, <1>7, <1>8, <1>9, <1>10, <1>11, <1>12, <1>13 DEF Next, Run

LEMMA InvHolds == Spec => []IInv
<1> QED BY InvInit, InvStep, PTL DEF Spec

\* The accept service keeps its types, and there is never more than one packet
\* of the server in the completion port (BGIOServer.cpp 92-121).
THEOREM TypeCorrect == Spec => []TypeOK
<1>1. IInv => TypeOK BY DEF IInv
<1> QED BY <1>1, InvHolds, PTL

\* The signal of Winsock is neither doubled nor dropped on its way through the
\* event, the accept thread and the port, and is with one of them while a
\* connection waits (BGIOServer.cpp 94-95, 108).
THEOREM SignalHandedOn == Spec => []OneSignal
<1>1. IInv => OneSignal BY Spelled DEF IInv
<1> QED BY <1>1, InvHolds, PTL
=============================================================================
