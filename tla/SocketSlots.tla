----------------------------- MODULE SocketSlots -----------------------------
(***************************************************************************)
(* The life of the connection objects of s_arrSocket: CreateSocket hands a *)
(* slot to an accepted connection, the chain of its reads begins in        *)
(* Initialize, and Close gives the slot back (BGTestServer.cpp 55-107,     *)
(* BGTestSocket.cpp, BGIOSocket.cpp, BGIOServer.cpp 104-121).              *)
(*                                                                         *)
(* Each worker is inside the server's or a connection's OnIOCallback or    *)
(* waits for a packet.  A section of a slot's m_lock is one action, except *)
(* that LoginOn may leave it locked.  Sends and the objects of players do  *)
(* not appear: SendQueue models the former, and no player ever exists,     *)
(* because m_nWorldId is 1 and there is only world 0.                      *)
(***************************************************************************)
EXTENDS Integers, Sequences, FiniteSets

CONSTANTS NumSlots,  \* BG_MAX_CLIENT_NUM
          RetryCnt,  \* s_createSocketRetryCnt
          Workers, Nobody,
          MaxConns   \* bound: connections accepted in one behaviour

ASSUME SlotsOK == /\ NumSlots \in Nat \ {0} /\ RetryCnt \in Nat /\ MaxConns \in Nat
                  /\ Nobody \notin Workers

Slots == 0..(NumSlots - 1)
Conns == 1..MaxConns
Invalid == 0         \* INVALID_SOCKET

VARIABLES
    bits, m_nId,       \* m_nBit and m_nId of each slot
    m_hSocket, m_nRef, \* its socket and its references
    lock,              \* who holds its m_lock
    reads,             \* its reads that the system has not completed
    port,              \* the results of its completed reads
    deleted,           \* OnFree was called
    at, job,           \* where each worker is, and in which callback
    slot, i, tries,    \* its connection object; its place in CreateSocket
    hSocket,           \* a socket it has in a local variable
    accepted, closed   \* history: connections accepted; calls of closesocket

local == <<slot, i, tries, hSocket>>
vars == <<bits, m_nId, m_hSocket, m_nRef, lock, reads, port, deleted, at, job, local,
          accepted, closed>>

Init == /\ bits = [s \in Slots |-> {"NOT_USED"}]
        /\ m_nId = [s \in Slots |-> 0]
        /\ m_hSocket = [s \in Slots |-> Invalid]
        /\ m_nRef = [s \in Slots |-> 1]
        /\ lock = [s \in Slots |-> Nobody]
        /\ reads = [s \in Slots |-> 0]
        /\ port = [s \in Slots |-> <<>>]
        /\ deleted = {}
        /\ at = [w \in Workers |-> "get"]
        /\ job = [w \in Workers |-> "none"]
        /\ slot = [w \in Workers |-> 0]
        /\ i = [w \in Workers |-> 0] /\ tries = [w \in Workers |-> 0]
        /\ hSocket = [w \in Workers |-> Invalid]
        /\ accepted = 0
        /\ closed = [c \in Conns |-> 0]

Go(w, l) == at' = [at EXCEPT ![w] = l]
Set(f, x, v) == [f EXCEPT ![x] = v]
MayLock(w, s) == lock[s] \in {Nobody, w}
ClosedNow(c) == IF c = Invalid THEN closed ELSE [closed EXCEPT ![c] = @ + 1]

-----------------------------------------------------------------------------
\* BGIOServer::OnIOCallback: accept may fail, and the code goes on.
Accept(w) ==
    /\ at[w] = "get"
    /\ \/ accepted < MaxConns /\ accepted' = accepted + 1 /\ hSocket' = Set(hSocket, w, accepted')
       \/ UNCHANGED <<accepted, hSocket>>
    /\ Go(w, "scan") /\ job' = Set(job, w, "accept")
    /\ i' = Set(i, w, 0) /\ tries' = Set(tries, w, 0)
    /\ UNCHANGED <<bits, m_nId, m_hSocket, m_nRef, lock, reads, port, deleted, slot, closed>>

\* Fault: one search too many.
RetriesLeftAtLimit(w) == tries[w] <= RetryCnt

RetriesLeft(w) == tries[w] < RetryCnt

\* CreateSocket, the search for an unused slot, which takes no lock.
Scan(w) ==
    /\ at[w] = "scan" /\ RetriesLeft(w) /\ i[w] \in Slots
    /\ IF "NOT_USED" \in bits[i[w]]
       THEN Go(w, "lock") /\ slot' = Set(slot, w, i[w]) /\ UNCHANGED i
       ELSE i' = Set(i, w, i[w] + 1) /\ UNCHANGED <<at, slot>>
    /\ UNCHANGED <<bits, m_nId, m_hSocket, m_nRef, lock, reads, port, deleted, job, tries, hSocket,
                   accepted, closed>>

\* CreateSocket returns nullptr, and OnIOCallback closes the new socket.
Refuse(w) ==
    /\ at[w] = "scan" /\ (i[w] \notin Slots \/ ~RetriesLeft(w))
    /\ closed' = ClosedNow(hSocket[w])
    /\ hSocket' = Set(hSocket, w, Invalid)
    /\ i' = Set(i, w, 0) /\ tries' = Set(tries, w, 0)
    /\ Go(w, "get") /\ job' = Set(job, w, "none")
    /\ UNCHANGED <<bits, m_nId, m_hSocket, m_nRef, lock, reads, port, deleted, slot, accepted>>

CheckResetData(s) == m_nId[s] = 0 /\ "NOT_USED" \in bits[s]

\* Fault: the slot is taken without a second look at its bit.
StillUnusedAssumed(s) == TRUE

\* The second look at the bit, under the lock.
StillUnused(s) == "NOT_USED" \in bits[s]

\* CreateSocket, under the lock of the slot: it is handed out.
Take(w) == LET s == slot[w] IN
    /\ at[w] = "lock" /\ MayLock(w, s)
    /\ StillUnused(s) /\ CheckResetData(s)
    /\ bits' = Set(bits, s, (bits[s] \ {"NOT_USED"}) \union {"CONNECTED"})
    /\ m_nId' = Set(m_nId, s, s)
    /\ m_hSocket' = Set(m_hSocket, s, hSocket[w])
    /\ m_nRef' = Set(m_nRef, s, m_nRef[s] + 1)
    /\ hSocket' = Set(hSocket, w, Invalid)
    /\ i' = Set(i, w, 0) /\ tries' = Set(tries, w, 0)
    /\ Go(w, "initialize")
    /\ UNCHANGED <<lock, reads, port, deleted, job, slot, accepted, closed>>

\* CreateSocket, under the lock of the slot: another worker was faster, or
\* the slot is not clean and is reset by force (ResetDataOnForce).
Retry(w) == LET s == slot[w] IN
    /\ at[w] = "lock" /\ MayLock(w, s)
    /\ ~(StillUnused(s) /\ CheckResetData(s))
    /\ bits' = IF StillUnused(s) THEN Set(bits, s, {"NOT_USED"}) ELSE bits
    /\ m_nId' = IF StillUnused(s) THEN Set(m_nId, s, 0) ELSE m_nId
    /\ Go(w, "scan") /\ tries' = Set(tries, w, tries[w] + 1) /\ i' = Set(i, w, 0)
    /\ UNCHANGED <<m_hSocket, m_nRef, lock, reads, port, deleted, job, slot, hSocket,
                   accepted, closed>>

\* BGIOSocket::Initialize.  HandleAdd fails for an invalid handle, and may
\* fail for a valid one.
Initialize(w) ==
    /\ at[w] = "initialize"
    /\ \/ m_hSocket[slot[w]] # Invalid /\ Go(w, "read")
       \/ Go(w, "exchange")
    /\ UNCHANGED <<bits, m_nId, m_hSocket, m_nRef, lock, reads, port, deleted, job, local,
                   accepted, closed>>

-----------------------------------------------------------------------------
\* Fault: the error paths return without the last Release.
AfterReadOrCloseOnly(w) == IF job[w] = "readOk" THEN "release" ELSE "get"

\* Where a worker goes on after Read or Close: every callback but that of a
\* failed read ends with Release.
AfterReadOrClose(w) == IF job[w] = "readFail" THEN "get" ELSE "release"

\* Read, up to the AddRef.
Read(w) ==
    /\ at[w] = "read"
    /\ m_nRef' = Set(m_nRef, slot[w], m_nRef[slot[w]] + 1)
    /\ Go(w, "recv")
    /\ UNCHANGED <<bits, m_nId, m_hSocket, lock, reads, port, deleted, job, local, accepted, closed>>

\* Fault: the connection is not closed when WSARecv fails.
RecvKept(w) ==
    /\ at[w] = "recv"
    /\ \/ reads' = Set(reads, slot[w], reads[slot[w]] + 1)
       \/ UNCHANGED reads
    /\ Go(w, AfterReadOrClose(w))
    /\ UNCHANGED <<bits, m_nId, m_hSocket, m_nRef, lock, port, deleted, job, local, accepted, closed>>

\* Read: WSARecv is accepted, or it fails and the connection is closed.
Recv(w) ==
    /\ at[w] = "recv"
    /\ \/ reads' = Set(reads, slot[w], reads[slot[w]] + 1) /\ Go(w, AfterReadOrClose(w))
       \/ Go(w, "exchange") /\ UNCHANGED reads
    /\ UNCHANGED <<bits, m_nId, m_hSocket, m_nRef, lock, port, deleted, job, local, accepted, closed>>

\* The system completes a read: with bytes, with the end of the stream, or
\* with an error.
Complete(s) ==
    /\ reads[s] > 0 /\ reads' = Set(reads, s, reads[s] - 1)
    /\ \E r \in {"data", "eof", "error"} : port' = Set(port, s, Append(port[s], r))
    /\ UNCHANGED <<bits, m_nId, m_hSocket, m_nRef, lock, deleted, at, job, local, accepted, closed>>

\* A worker takes the packet of a read: OnIOCallback and ReadCallback.
OnIOCallback(w) == \E s \in Slots :
    /\ at[w] = "get" /\ port[s] # <<>>
    /\ port' = Set(port, s, Tail(port[s]))
    /\ slot' = Set(slot, w, s)
    /\ job' = Set(job, w, IF Head(port[s]) = "error" THEN "readFail" ELSE "readOk")
    /\ Go(w, IF Head(port[s]) = "data" THEN "onRead" ELSE "exchange")
    /\ UNCHANGED <<bits, m_nId, m_hSocket, m_nRef, lock, reads, deleted, i, tries, hSocket,
                   accepted, closed>>

\* OnRead: a login packet.  LoginOn finds no world and returns with the lock.
LoginOn(w) ==
    /\ at[w] = "onRead" /\ MayLock(w, slot[w])
    /\ "CONNECTED" \in bits[slot[w]]
    /\ lock' = Set(lock, slot[w], w)
    /\ UNCHANGED <<bits, m_nId, m_hSocket, m_nRef, reads, port, deleted, at, job, local,
                   accepted, closed>>

\* OnRead: no whole packet is left, or a bad one is found.
OnRead(w) ==
    /\ at[w] = "onRead"
    /\ Go(w, "read") \/ Go(w, "exchange")
    /\ UNCHANGED <<bits, m_nId, m_hSocket, m_nRef, lock, reads, port, deleted, job, local,
                   accepted, closed>>

-----------------------------------------------------------------------------
\* Close, up to the exchange of the handle.
Exchange(w) == LET s == slot[w] IN
    /\ at[w] = "exchange"
    /\ m_hSocket' = Set(m_hSocket, s, Invalid)
    /\ hSocket' = Set(hSocket, w, m_hSocket[s])
    /\ Go(w, IF m_hSocket[s] # Invalid THEN "onClose" ELSE AfterReadOrClose(w))
    /\ UNCHANGED <<bits, m_nId, m_nRef, lock, reads, port, deleted, job, slot, i, tries,
                   accepted, closed>>

\* Fault: the slot keeps the number it had.
OnCloseKeepsId(w) == LET s == slot[w] IN
    /\ at[w] = "onClose" /\ MayLock(w, s)
    /\ bits' = Set(bits, s, (bits[s] \ {"CONNECTED"}) \union {"NOT_USED"})
    /\ Go(w, "closesocket")
    /\ UNCHANGED <<m_nId, m_hSocket, m_nRef, lock, reads, port, deleted, job, local, accepted, closed>>

\* Close: OnClose gives the slot back.
OnClose(w) == LET s == slot[w] IN
    /\ at[w] = "onClose" /\ MayLock(w, s)
    /\ bits' = Set(bits, s, (bits[s] \ {"CONNECTED"}) \union {"NOT_USED"})
    /\ m_nId' = Set(m_nId, s, 0)
    /\ Go(w, "closesocket")
    /\ UNCHANGED <<m_hSocket, m_nRef, lock, reads, port, deleted, job, local, accepted, closed>>

\* BGIOObject::Release; the last reference deletes the object.
Release(s) == /\ m_nRef' = Set(m_nRef, s, m_nRef[s] - 1)
              /\ deleted' = IF m_nRef[s] = 1 THEN deleted \union {s} ELSE deleted

\* Close: closesocket and Release.
CloseHandle(w) ==
    /\ at[w] = "closesocket"
    /\ closed' = ClosedNow(hSocket[w])
    /\ hSocket' = Set(hSocket, w, Invalid)
    /\ Release(slot[w])
    /\ Go(w, AfterReadOrClose(w))
    /\ UNCHANGED <<bits, m_nId, m_hSocket, lock, reads, port, job, slot, i, tries, accepted>>

\* The Release at the end of OnIOCallback.
EndCallback(w) ==
    /\ at[w] = "release"
    /\ Release(slot[w])
    /\ Go(w, "get")
    /\ UNCHANGED <<bits, m_nId, m_hSocket, lock, reads, port, job, local, accepted, closed>>

-----------------------------------------------------------------------------
Work(w) == \/ Accept(w) \/ Scan(w) \/ Refuse(w) \/ Take(w) \/ Retry(w) \/ Initialize(w)
           \/ Read(w) \/ Recv(w) \/ OnIOCallback(w) \/ LoginOn(w) \/ OnRead(w)
           \/ Exchange(w) \/ OnClose(w) \/ CloseHandle(w) \/ EndCallback(w)

\* delete this on an element of s_arrSocket is undefined: nothing is said of
\* what comes after it.
Next == /\ deleted = {}
        /\ (\E w \in Workers : Work(w)) \/ (\E s \in Slots : Complete(s))

Spec == Init /\ [][Next]_vars

-----------------------------------------------------------------------------
\* The types of the variables; CreateSocket retries only so often.
TypeOK ==
    /\ bits \in [Slots -> SUBSET {"NOT_USED", "CONNECTED"}]
    /\ m_nId \in [Slots -> Slots]
    /\ m_hSocket \in [Slots -> Conns \union {Invalid}]
    /\ m_nRef \in [Slots -> Nat]
    /\ lock \in [Slots -> Workers \union {Nobody}]
    /\ reads \in [Slots -> Nat]
    /\ port \in [Slots -> Seq({"data", "eof", "error"})]
    /\ deleted \subseteq Slots
    /\ at \in [Workers -> {"get", "scan", "lock", "initialize", "read", "recv", "release",
                            "onRead", "exchange", "onClose", "closesocket"}]
    /\ job \in [Workers -> {"none", "accept", "readOk", "readFail"}]
    /\ slot \in [Workers -> Slots]
    /\ i \in [Workers -> 0..NumSlots] /\ tries \in [Workers -> 0..RetryCnt]
    /\ hSocket \in [Workers -> Conns \union {Invalid}]
    /\ accepted \in 0..MaxConns
    /\ closed \in [Conns -> Nat]

\* The workers on their way from the connection of a slot to its next read,
\* or to its close.
Driving(s) == {w \in Workers : /\ slot[w] = s
                               /\ at[w] \in {"initialize", "read", "recv", "onRead",
                                             "exchange", "onClose"}}
Pending(s) == reads[s] + Len(port[s])

\* An accepted socket is held by one slot or by one worker until it is closed,
\* and is closed once: no slot is given away while it is in use, and no
\* socket is forgotten (CreateSocket, OnIOCallback, Close).
SocketHeldOnce == \A c \in 1..accepted :
    Cardinality({s \in Slots : m_hSocket[s] = c})
        + Cardinality({w \in Workers : hSocket[w] = c}) + closed[c] = 1

\* The reads of a connection are one chain: while the socket of a slot is
\* open, one read is outstanding, or one packet of it is in the port, or one
\* worker handles it.  The one m_overlappedRead is never used twice at once,
\* and no open connection falls silent.
OneChain == \A s \in Slots :
    /\ Pending(s) + Cardinality(Driving(s)) <= 1
    /\ m_hSocket[s] # Invalid => Pending(s) + Cardinality(Driving(s)) = 1

\* A slot that CreateSocket may find is clean: it passes CheckResetData, has
\* no socket, and no read of the connection before can still arrive.
CleanWhenUnused == \A s \in Slots : "NOT_USED" \in bits[s] =>
    /\ CheckResetData(s) /\ "CONNECTED" \notin bits[s]
    /\ m_hSocket[s] = Invalid
    /\ Pending(s) = 0 /\ Driving(s) = {}

\* Nothing of a connection is left in the slot.
AtRest(s) == /\ "NOT_USED" \in bits[s]
             /\ \A w \in Workers : slot[w] = s => at[w] \notin {"closesocket", "release"}

\* A slot at rest has its own reference and no other: what accepting, reading
\* and closing took they have given back, unless they took the slot's own with
\* it and deleted it.  Sends take references of their own: see SendQueue, and
\* there `lost' for the one that a failed write keeps (BGIOSocket.cpp 178).
OwnReference == \A s \in Slots \ deleted : AtRest(s) => m_nRef[s] = 1

\* The slots are made once and for all, and never deleted (ReadMe.txt 113-114).
SlotsStay == deleted = {}
=============================================================================
