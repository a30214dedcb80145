------------------------------- MODULE Framing -------------------------------
(***************************************************************************)
(* Packets over one connection, from end to end: BGIOSocket::Read and      *)
(* BGTestSocket::OnRead and Process at the server, and the reassembly of   *)
(* the stress-test client (BGStressTest) at the other end.                 *)
(*                                                                         *)
(* Bytes are numbers and buffers are sequences of them, as far as they are *)
(* filled.  A packet begins with its size (one byte) and its type (two).   *)
(* The network and the system cut both directions anywhere.  Between them  *)
(* is what SendQueue shows of sending: bytes leave in order, one send at a *)
(* time.  One worker at a time has the chain of reads (SocketSlots).       *)
(*                                                                         *)
(* A worker that has run LoginOn keeps m_lock; Write, WriteCallback and    *)
(* OnClose of other workers wait for it.                                   *)
(***************************************************************************)
EXTENDS Integers, Sequences

CONSTANTS Workers,        \* worker threads of the server
          Nobody,         \* no worker
          Scripts,        \* what a client may send: sequences of [size, type]
          BUFFER_SIZE,    \* capacity of the read buffer
          PENDING_WRITE   \* limit of the bytes queued for sending

SC_PingTest == 0
CS_PingTest == 1
CS_Login == 3
PACKET_RESERVED_LENGTH == 3
PingSize == 3  \* sizeof(sc_packet_ping_test)

\* What a packet says of itself.  Its size is one byte, so at most 255, and
\* the read buffer holds 8000.
Headers == [size : 0..BUFFER_SIZE, type : Nat]

ASSUME FramingOK == /\ Nobody \notin Workers
                    /\ BUFFER_SIZE \in Nat /\ BUFFER_SIZE > PACKET_RESERVED_LENGTH
                    /\ PENDING_WRITE \in Nat
                    /\ \A s \in Scripts : s \in Seq(Headers) /\ s # <<>>

VARIABLES
    script, sent,     \* the client's packets, and how many it has sent
    client,           \* where the client's WorkerThread is
    io,               \* the rest of real_recv_buf: buf and remained_io_data_size
    part,             \* m_uncomplete_packet, as far as m_uncomplete_size
    current,          \* m_current_packet_size
    shown,            \* history: packets given to ProcessPacket
    hungUp,           \* the client has closed its end
    up, down,         \* bytes on the way to the server and to the client
    chain, got,       \* the server's chain of reads, and the bytes of a read
    m_pReadBuf, szBuffer, dwSize,  \* the read buffer, and what OnRead has left of it
    reader, writer,   \* the workers in ReadCallback and in WriteCallback
    m_lock,           \* the worker that keeps the lock of the connection
    m_nPendingWrite,
    queued, inFlight, \* answers in the send queue; bytes of the send under way
    handled, answered,\* history: packets given to Process, pings answered
    closed            \* why the server has closed: "no" while it has not

clientVars == <<script, sent, client, io, part, current, shown, hungUp>>
readVars == <<chain, got, m_pReadBuf, szBuffer, dwSize, reader, handled, closed>>
sendVars == <<m_nPendingWrite, queued, inFlight, writer, answered>>
vars == <<clientVars, readVars, sendVars, up, down, m_lock>>

\* A packet as it is sent; a size below the header does not shorten it.
Bytes(p) == [i \in 1..(IF p.size < 3 THEN 3 ELSE p.size) |->
                IF i = 1 THEN p.size ELSE IF i = 2 THEN p.type ELSE 0]
Pong == Bytes([size |-> PingSize, type |-> SC_PingTest])
\* k answers, one behind the other; PongAt(n) is their nth byte.
PongAt(n) == Pong[1 + ((n - 1) % PingSize)]
Pongs(k) == [n \in 1..(k * PingSize) |-> PongAt(n)]

Drop(s, n) == SubSeq(s, n + 1, Len(s))
Take(s, n) == SubSeq(s, 1, n)

Init == /\ script \in Scripts /\ sent = 0
        /\ client = "off" /\ io = <<>> /\ part = <<>> /\ current = 0 /\ shown = <<>>
        /\ hungUp = FALSE
        /\ up = <<>> /\ down = <<>>
        /\ chain = "off" /\ got = <<>> /\ m_pReadBuf = <<>> /\ szBuffer = 0 /\ dwSize = 0
        /\ reader = Nobody /\ handled = <<>> /\ closed = "no"
        /\ m_nPendingWrite = 0 /\ queued = 0 /\ inFlight = 0 /\ writer = Nobody /\ answered = 0
        /\ m_lock = Nobody

-----------------------------------------------------------------------------
\* The client.
\* Connect sends the first packet (the login); ConnectThread posts the first
\* read.  If WSAConnect fails nothing follows.
Connect ==
    /\ client = "off"
    /\ \/ client' = "over" /\ UNCHANGED <<sent, up>>
       \/ client' = "posted" /\ sent' = 1 /\ up' = Bytes(script[1])
    /\ UNCHANGED <<script, io, part, current, shown, hungUp, down, readVars, sendVars, m_lock>>

\* PingTestThread: SendPacket of the next packet.
SendPacket ==
    /\ client \notin {"off", "over"} /\ ~hungUp /\ closed = "no"
    /\ sent > 0 /\ sent < Len(script)
    /\ sent' = sent + 1
    /\ up' = up \o Bytes(script[sent + 1])
    /\ UNCHANGED <<script, client, io, part, current, shown, hungUp, down, readVars, sendVars, m_lock>>

\* Another client than the stress test may close its end.
HangUp ==
    /\ client = "posted" /\ ~hungUp /\ hungUp' = TRUE
    /\ UNCHANGED <<script, sent, client, io, part, current, shown, up, down, readVars, sendVars, m_lock>>

\* WorkerThread: a read completes with some of the bytes.
ClientRecv ==
    /\ client = "posted" /\ ~hungUp
    /\ \E n \in 1..Len(down) : io' = Take(down, n) /\ down' = Drop(down, n)
    /\ client' = "assemble"
    /\ UNCHANGED <<script, sent, part, current, shown, hungUp, up, readVars, sendVars, m_lock>>

\* Fault: what is already in m_uncomplete_packet is forgotten.
RemainedWhole(size) == size
\* remained_packet_data_size.
Remained(size) == size - Len(part)

\* WorkerThread, one turn of the loop: the packet is complete and processed,
\* or the rest of the data is kept for the next read.
Assemble == LET size == IF current = 0 THEN io[1] ELSE current
                remained == Remained(size) IN
    /\ client = "assemble" /\ io # <<>>
    /\ IF remained <= Len(io)
       THEN /\ shown' = Append(shown, part \o Take(io, remained))
            /\ part' = <<>> /\ current' = 0 /\ io' = Drop(io, remained)
       ELSE /\ part' = part \o io /\ current' = size /\ io' = <<>> /\ UNCHANGED shown
    /\ UNCHANGED <<script, sent, client, hungUp, up, down, readVars, sendVars, m_lock>>

\* WorkerThread: the next WSARecv; it fails on a connection that is reset.
ClientRead ==
    /\ client = "assemble" /\ io = <<>>
    /\ \/ client' = "posted"
       \/ client' = "over" /\ chain = "over"
    /\ UNCHANGED <<script, sent, io, part, current, shown, hungUp, up, down, readVars, sendVars, m_lock>>

\* WorkerThread: the read fails or ends; the thread closes the socket and ends.
ClientEnds ==
    /\ client = "posted" /\ (chain = "over" \/ hungUp)
    /\ client' = "over"
    /\ UNCHANGED <<script, sent, io, part, current, shown, hungUp, up, down, readVars, sendVars, m_lock>>

-----------------------------------------------------------------------------
\* The server reads.
Free(w) == w # reader /\ w # writer
MayLock(w) == m_lock \in {Nobody, w}
Room == BUFFER_SIZE - Len(m_pReadBuf)

\* CreateSocket posts the first read of the connection.
FirstRead ==
    /\ chain = "off" /\ sent > 0 /\ chain' = "posted"
    /\ UNCHANGED <<clientVars, got, m_pReadBuf, szBuffer, dwSize, reader, handled, closed, sendVars,
                   up, down, m_lock>>

\* The system completes the read: with some bytes, or with none at the end of
\* the stream or when no room was offered.
Complete ==
    /\ chain = "posted" /\ chain' = "completed"
    /\ \/ \E n \in 1..Len(up) : n <= Room /\ got' = Take(up, n) /\ up' = Drop(up, n)
       \/ ((hungUp /\ up = <<>>) \/ Room = 0) /\ got' = <<>> /\ UNCHANGED up
    /\ UNCHANGED <<clientVars, m_pReadBuf, szBuffer, dwSize, reader, handled, closed, sendVars, down, m_lock>>

\* Close, up to the exchange of the handle.
Close(why) == chain' = "closing" /\ closed' = why

\* Fault: OnRead does not look at the bytes that are waiting to be sent.
TooMuchPendingNever == FALSE
TooMuchPending == m_nPendingWrite > PENDING_WRITE

\* OnIOCallback and ReadCallback, and the beginning of OnRead.
ReadCallback(w) ==
    /\ chain = "completed" /\ Free(w)
    /\ reader' = w
    /\ m_pReadBuf' = m_pReadBuf \o got /\ got' = <<>>
    /\ szBuffer' = 0 /\ dwSize' = Len(m_pReadBuf')
    /\ IF got = <<>> THEN Close("end")
       ELSE IF TooMuchPending THEN Close("pending")
       ELSE chain' = "framing" /\ UNCHANGED closed
    /\ UNCHANGED <<clientVars, handled, sendVars, up, down, m_lock>>

\* The packet at szBuffer, once its header is there.
nSize == m_pReadBuf[szBuffer + 1]
nType == m_pReadBuf[szBuffer + 2]
HeaderThere == dwSize >= PACKET_RESERVED_LENGTH
PacketThere == HeaderThere /\ dwSize >= nSize

\* Fault: Read leaves what has been processed in the buffer.
RestAll(dwLeft) == m_pReadBuf
\* Read: the last dwLeft bytes are moved to the front of the buffer (or of a
\* new one, if somebody else holds a reference of the old one).
Rest(dwLeft) == Drop(m_pReadBuf, Len(m_pReadBuf) - dwLeft)

\* Fault: OnRead returns with a rest of a packet and no read outstanding.
PostReadNot == reader' = Nobody /\ UNCHANGED <<chain, closed>>
\* WSARecv.
PostRead == chain' = "posted" /\ reader' = Nobody /\ UNCHANGED closed

\* OnRead: no whole packet is left, and Read posts the next read, which fails
\* only on a connection that the client has reset.
Read(w) ==
    /\ chain = "framing" /\ reader = w
    /\ ~PacketThere /\ (HeaderThere => nSize <= BUFFER_SIZE)
    /\ m_pReadBuf' = Rest(dwSize)
    /\ \/ PostRead
       \/ hungUp /\ Close("end") /\ UNCHANGED reader
    /\ UNCHANGED <<clientVars, got, szBuffer, dwSize, handled, sendVars, up, down, m_lock>>

\* OnRead: the packet cannot be right.
BadSize(w) ==
    /\ chain = "framing" /\ reader = w
    /\ HeaderThere
    /\ (dwSize < nSize /\ nSize > BUFFER_SIZE) \/ nSize < PACKET_RESERVED_LENGTH
    /\ Close("size")
    /\ UNCHANGED <<clientVars, got, m_pReadBuf, szBuffer, dwSize, reader, handled, sendVars, up, down, m_lock>>

\* OnRead goes on behind the packet.
Advance == /\ handled' = Append(handled, SubSeq(m_pReadBuf, szBuffer + 1, szBuffer + nSize))
           /\ dwSize' = dwSize - nSize /\ szBuffer' = szBuffer + nSize
           /\ UNCHANGED <<clientVars, chain, got, m_pReadBuf, reader, closed, writer, inFlight, up, down>>

\* What Process does with a type: the answer to a ping goes through Write, and
\* LoginOn keeps the lock, because it finds no world; other types are logged.
WantsLock == nType \in {CS_PingTest, CS_Login}
Process(w) ==
    /\ chain = "framing" /\ reader = w
    /\ PacketThere /\ nSize >= PACKET_RESERVED_LENGTH
    /\ WantsLock => MayLock(w)
    /\ Advance
    /\ m_lock' = IF nType = CS_Login THEN w ELSE m_lock
    /\ IF nType = CS_PingTest
       THEN /\ m_nPendingWrite' = m_nPendingWrite + PingSize
            /\ queued' = queued + 1 /\ answered' = answered + 1
       ELSE UNCHANGED <<m_nPendingWrite, queued, answered>>

\* Close takes the lock in OnClose and then closes the handle.
CloseHandle(w) ==
    /\ chain = "closing" /\ reader = w /\ MayLock(w)
    /\ chain' = "over" /\ reader' = Nobody
    /\ UNCHANGED <<clientVars, got, m_pReadBuf, szBuffer, dwSize, handled, closed, sendVars, up, down, m_lock>>

-----------------------------------------------------------------------------
\* The server sends: the system takes a buffer of answers, and some worker
\* runs WriteCallback.
Transmit ==
    /\ closed = "no" /\ inFlight = 0
    /\ \E k \in 1..queued :
          /\ down' = down \o Pongs(k)
          /\ queued' = queued - k /\ inFlight' = k * PingSize
    /\ UNCHANGED <<clientVars, readVars, m_nPendingWrite, writer, answered, up, m_lock>>

DequeueWrite(w) ==
    /\ inFlight > 0 /\ writer = Nobody /\ Free(w)
    /\ writer' = w
    /\ UNCHANGED <<clientVars, readVars, m_nPendingWrite, queued, inFlight, answered, up, down, m_lock>>

\* Fault: the bytes stay counted, and are counted once more.
WriteCallbackTwice(w) ==
    /\ writer = w /\ MayLock(w)
    /\ m_nPendingWrite' = m_nPendingWrite - 2 * inFlight
    /\ inFlight' = 0 /\ writer' = Nobody
    /\ UNCHANGED <<clientVars, readVars, queued, answered, up, down, m_lock>>

WriteCallback(w) ==
    /\ writer = w /\ MayLock(w)
    /\ m_nPendingWrite' = m_nPendingWrite - inFlight
    /\ inFlight' = 0 /\ writer' = Nobody
    /\ UNCHANGED <<clientVars, readVars, queued, answered, up, down, m_lock>>

-----------------------------------------------------------------------------
ClientStep == ClientRecv \/ Assemble \/ ClientRead \/ ClientEnds
OnRead(w) == Read(w) \/ BadSize(w) \/ Process(w) \/ CloseHandle(w)

Next == \/ Connect \/ SendPacket \/ HangUp \/ ClientStep
        \/ FirstRead \/ Complete \/ Transmit
        \/ \E w \in Workers : ReadCallback(w) \/ OnRead(w) \/ DequeueWrite(w) \/ WriteCallback(w)

Spec == Init /\ [][Next]_vars

\* Workers, the client's worker and the system go on; nobody must send.
Fairness == /\ WF_vars(FirstRead) /\ WF_vars(Complete) /\ WF_vars(Transmit)
            /\ WF_vars(ClientStep)
            /\ WF_vars(\E w \in Workers : ReadCallback(w))
            /\ WF_vars(\E w \in Workers : DequeueWrite(w))
            /\ \A w \in Workers : WF_vars(OnRead(w)) /\ WF_vars(WriteCallback(w))

FairSpec == Spec /\ Fairness

-----------------------------------------------------------------------------
\* The type invariant.
TypeOK ==
    /\ script \in Scripts /\ sent \in 0..Len(script)
    /\ client \in {"off", "posted", "assemble", "over"}
    /\ chain \in {"off", "posted", "completed", "framing", "closing", "over"}
    /\ closed \in {"no", "end", "pending", "size"} /\ hungUp \in BOOLEAN
    /\ {reader, writer, m_lock} \subseteq Workers \union {Nobody}
    /\ Len(m_pReadBuf) + Len(got) <= BUFFER_SIZE /\ current >= Len(part)
    /\ dwSize \in 0..(BUFFER_SIZE - szBuffer) /\ szBuffer \in 0..BUFFER_SIZE
    /\ m_nPendingWrite = PingSize * queued + inFlight /\ inFlight >= 0

\* Both directions carry whole packets in order: what Process is given is what
\* the client sent, and what ProcessPacket is given is what Process answered,
\* at any cut of the streams (BGTestSocket.cpp 124-161, BGIOSocket.cpp 87-99,
\* BGThreadFunc.cpp 32-56).
Packets == {Pong} \union UNION {{Bytes(s[k]) : k \in DOMAIN s} : s \in Scripts}
Up == INSTANCE PacketChannel WITH
          Packet <- Packets, received <- handled,
          sentPackets <- [k \in 1..sent |-> Bytes(script[k])]
Down == INSTANCE PacketChannel WITH
            Packet <- Packets, received <- shown,
            sentPackets <- [k \in 1..answered |-> Pong]
BothChannels == Up!Spec /\ Down!Spec

\* The server closes the connection only if the client has hung up, has sent a
\* size no packet has, or lets answers pile up: never because a rest of a packet
\* left no room for the next read, whose completion would look like the end of
\* the stream (BGIOSocket.cpp 103, 201; BGTestSocket.cpp 118, 139, 148).
ClosedForAReason ==
    /\ closed = "end" => hungUp
    /\ closed = "size" => \E k \in 1..sent : script[k].size < PACKET_RESERVED_LENGTH

\* A client that sends and does not read cannot make the server queue more than
\* the limit and what one full buffer of pings adds to it, although the limit is
\* looked at once per read (BGTestSocket.cpp 118, 179).
PendingBounded == m_nPendingWrite <= PENDING_WRITE + BUFFER_SIZE

\* A worker waits for the lock that LoginOn has left to another one.
Waits(w) == /\ ~MayLock(w)
            /\ \/ writer = w
               \/ reader = w /\ (chain = "closing" \/ (chain = "framing" /\ PacketThere /\ WantsLock))
Stuck == \E w \in Workers : Waits(w)

\* Every packet that is sent is processed, and every answer reaches the client,
\* unless one of them closes the connection or LoginOn's lock is waited for (a
\* script is finite, so a receiver that goes on catches up with the sender).
Served ==
    /\ (Len(handled) < sent) ~> (Len(handled) = sent \/ closed # "no" \/ Stuck)
    /\ (Len(shown) < answered) ~> (Len(shown) = answered \/ closed # "no" \/ hungUp \/ Stuck)
=============================================================================
