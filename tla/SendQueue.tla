------------------------------ MODULE SendQueue ------------------------------
(***************************************************************************)
(* The send side of one connection: BGIOSocket::Write, WriteCallback and   *)
(* the write branches of OnIOCallback (BGIOSocket.cpp 120-197, 210-244).   *)
(*                                                                         *)
(* Any number of threads call Write; the worker threads dequeue            *)
(* completions of WSASend from the completion port and run OnIOCallback.   *)
(* All of them share the linked list m_pFirstBuf .. m_pLastBuf under       *)
(* m_lock and the single OVERLAPPED m_overlappedWrite.  A critical section *)
(* of m_lock is one action; everything the code does outside the lock is a *)
(* step of its own: AddRef, WSASend, Release and Free.                     *)
(*                                                                         *)
(* A byte is its position in the order in which the Write calls took the   *)
(* lock; a buffer is the sequence of its bytes, so m_dwSize is its length. *)
(***************************************************************************)
EXTENDS Integers, Sequences, FiniteSets

CONSTANTS Writers,      \* threads that call Write
          Workers,      \* worker threads of the completion port
          BUFFER_SIZE,  \* the size limit Write applies to a buffer
          MaxMessage,   \* bound: largest buffer a caller passes
          MaxBytes,     \* bound: bytes accepted in one behaviour
          Failures      \* which failures the socket may report

Threads == Writers \union Workers

ASSUME ConstantsOK ==
    /\ Writers \intersect Workers = {}
    /\ BUFFER_SIZE \in Nat \ {0}
    /\ MaxMessage \in Nat
    /\ MaxBytes \in Nat
    /\ Failures \subseteq {"post", "abort", "short", "close"}
ASSUME ThreadsFinite == IsFiniteSet(Threads)

VARIABLES
    queue,     \* m_pFirstBuf .. m_pLastBuf; <<>> when both are null
    pending,   \* m_nPendingWrite
    m_nRef,    \* references: the callers', the open socket's, one per send
    open,      \* m_hSocket # INVALID_SOCKET
    sent,      \* buffers of the WSASend calls the system has not completed
    done,      \* their completion packets in the port: [ok, n]
    pc,        \* where each thread is
    size,      \* Write: size of the buffer; a worker: dwTransferred
    ok,        \* a worker: bSuccess
    buffers,   \* buffers handed to Write and not yet freed
    accepted,  \* history: bytes accepted so far
    wire,      \* history: bytes the socket took
    broken,    \* history: a send was refused, aborted or cut short
    lost       \* history: references OnIOCallback never released

local == <<pc, size, ok>>
history == <<accepted, wire, broken, lost>>
vars == <<queue, pending, m_nRef, open, sent, done, local, buffers, history>>

Last(s) == s[Len(s)]

\* Fault: Write copies from one byte behind the caller's data.
BlockShifted(n) == [i \in 1..n |-> accepted + i + 1]

\* The next n bytes of the stream, as Write stores them in a buffer.
Block(n) == [i \in 1..n |-> accepted + i]

Goto(t, l) == pc' = [pc EXCEPT ![t] = l]

-----------------------------------------------------------------------------
Init == /\ queue = <<>> /\ pending = 0
        /\ m_nRef = 2 /\ open = TRUE
        /\ sent = <<>> /\ done = <<>>
        /\ pc = [t \in Threads |-> "idle"]
        /\ size = [t \in Threads |-> 0]
        /\ ok = [t \in Threads |-> TRUE]
        /\ buffers = 0
        /\ accepted = 0 /\ wire = <<>> /\ broken = FALSE /\ lost = 0

\* Where Write goes with a buffer of n bytes: an empty or oversized one is
\* freed at once, any other is taken to the lock.
AfterSizeCheck(n) == IF n = 0 \/ n > BUFFER_SIZE THEN "free" ELSE "enter"

Write(t, n) ==
    /\ pc[t] = "idle"
    /\ size' = [size EXCEPT ![t] = n]
    /\ buffers' = buffers + 1
    /\ Goto(t, AfterSizeCheck(n))
    /\ UNCHANGED <<queue, pending, m_nRef, open, sent, done, ok, history>>

\* Fault: copy into the last buffer even when it is the first one.
MayCopyIntoFirst(n) == queue # <<>> /\ Len(Last(queue)) + n <= BUFFER_SIZE

\* n more bytes may be copied into the last buffer: it is not the first one,
\* which may be in the hands of the system, and they fit.
MayCopy(n) == Len(queue) > 1 /\ Len(Last(queue)) + n <= BUFFER_SIZE

\* Fault: the caller that puts the first buffer in place does not send it.
PutFirstUnsent(t, n) == queue = <<>> /\ queue' = <<Block(n)>> /\ Goto(t, "idle")

\* Fault: a buffer linked behind the only one is sent at once as well.
LinkAndSend(t, n) == /\ queue # <<>> /\ ~MayCopy(n)
                     /\ queue' = Append(queue, Block(n))
                     /\ Goto(t, IF Len(queue) = 1 THEN "addref" ELSE "idle")

\* The three outcomes of the critical section of Write: the buffer becomes the
\* first one and its thread must send it; it is copied into the last one and
\* can be freed; it is linked behind the last one.
PutFirst(t, n) == /\ queue = <<>>
                  /\ queue' = <<Block(n)>>
                  /\ Goto(t, "addref")

Copy(t, n) == /\ MayCopy(n)
              /\ queue' = [queue EXCEPT ![Len(queue)] = @ \o Block(n)]
              /\ Goto(t, "free")

Link(t, n) == /\ queue # <<>> /\ ~MayCopy(n)
              /\ queue' = Append(queue, Block(n))
              /\ Goto(t, "idle")

\* Bound: no more than MaxBytes bytes are accepted.
Enqueue(t) ==
    /\ pc[t] = "enter"
    /\ accepted + size[t] <= MaxBytes
    /\ pending' = pending + size[t]
    /\ accepted' = accepted + size[t]
    /\ PutFirst(t, size[t]) \/ Copy(t, size[t]) \/ Link(t, size[t])
    /\ UNCHANGED <<m_nRef, open, sent, done, size, ok, buffers, wire, broken, lost>>

\* AddRef before WSASend, in Write and in WriteCallback.
AddRef(t) ==
    /\ pc[t] = "addref"
    /\ m_nRef' = m_nRef + 1
    /\ Goto(t, "send")
    /\ UNCHANGED <<queue, pending, open, sent, done, size, ok, buffers, history>>

\* What the thread does after its send attempt: a caller of Write returns, a
\* worker goes on to free the buffer that was sent before.
AfterSend(t) == IF t \in Workers THEN "free" ELSE "idle"

\* WSASend of the first buffer: it is queued in the system, or refused.
SendFirst(t) ==
    /\ pc[t] = "send"
    /\ \/ /\ open
          /\ sent' = Append(sent, Head(queue))
          /\ Goto(t, AfterSend(t))
          /\ UNCHANGED broken
       \/ /\ ~open \/ "post" \in Failures
          /\ Goto(t, "refused")
          /\ broken' = TRUE
          /\ UNCHANGED sent
    /\ UNCHANGED <<queue, pending, m_nRef, open, done, size, ok, buffers, accepted, wire, lost>>

\* The Release of a refused send.
Refused(t) ==
    /\ pc[t] = "refused"
    /\ m_nRef' = m_nRef - 1
    /\ Goto(t, AfterSend(t))
    /\ UNCHANGED <<queue, pending, open, sent, done, size, ok, buffers, history>>

\* A worker dequeues a completion packet and enters OnIOCallback.
Dequeue(t) ==
    /\ pc[t] = "idle" /\ done # <<>>
    /\ done' = Tail(done)
    /\ size' = [size EXCEPT ![t] = Head(done).n]
    /\ ok' = [ok EXCEPT ![t] = Head(done).ok]
    /\ Goto(t, "callback")
    /\ UNCHANGED <<queue, pending, m_nRef, open, sent, buffers, history>>

\* OnIOCallback with bSuccess FALSE for a write: it logs and returns; it
\* neither touches the queue nor releases the reference of the send.
WriteFailed(t) ==
    /\ pc[t] = "callback" /\ ~ok[t]
    /\ lost' = lost + 1
    /\ Goto(t, "idle")
    /\ UNCHANGED <<queue, pending, m_nRef, open, sent, done, size, ok, buffers, accepted, wire, broken>>

\* Fault: a completion is taken for the whole buffer whatever its byte count.
AllSentAlways(t) == size[t] <= Len(Head(queue))

\* WriteCallback compares the byte count of the completion with the size of
\* the first buffer, and does nothing but log when they differ.
AllSent(t) == size[t] = Len(Head(queue))

\* When the first buffer leaves the list, its thread must send the next one.
AfterUnlink == IF Tail(queue) # <<>> THEN "addref" ELSE "free"

\* Fault: a completed buffer stays counted in m_nPendingWrite.
WriteCallbackUncounted(t) ==
    /\ pc[t] = "callback" /\ ok[t] /\ AllSent(t)
    /\ queue' = Tail(queue)
    /\ Goto(t, AfterUnlink)
    /\ UNCHANGED <<pending, m_nRef, open, sent, done, size, ok, buffers, history>>

\* The critical section of WriteCallback.
WriteCallback(t) ==
    /\ pc[t] = "callback" /\ ok[t]
    /\ \/ /\ ~AllSent(t)
          /\ Goto(t, "release")
          /\ UNCHANGED <<queue, pending>>
       \/ /\ AllSent(t)
          /\ pending' = pending - Len(Head(queue))
          /\ queue' = Tail(queue)
          /\ Goto(t, AfterUnlink)
    /\ UNCHANGED <<m_nRef, open, sent, done, size, ok, buffers, history>>

\* Free of a buffer: rejected or copied by Write, or sent, in WriteCallback.
Free(t) ==
    /\ pc[t] = "free"
    /\ buffers' = buffers - 1
    /\ Goto(t, IF t \in Workers THEN "release" ELSE "idle")
    /\ UNCHANGED <<queue, pending, m_nRef, open, sent, done, size, ok, history>>

\* The Release that ends the success branch of OnIOCallback.
Release(t) ==
    /\ pc[t] = "release"
    /\ m_nRef' = m_nRef - 1
    /\ Goto(t, "idle")
    /\ UNCHANGED <<queue, pending, open, sent, done, size, ok, buffers, history>>

\* Close by some other path of the program: the handle is exchanged for
\* INVALID_SOCKET and its reference is released.  The send queue sees no more
\* of it; SocketSlots has its steps one by one.
Close ==
    /\ open /\ "close" \in Failures
    /\ open' = FALSE
    /\ m_nRef' = m_nRef - 1
    /\ UNCHANGED <<queue, pending, sent, done, local, buffers, history>>

\* The system completes a send: entirely, or with an error after k bytes, or
\* with success and only k bytes.
Complete ==
    /\ sent # <<>>
    /\ sent' = Tail(sent)
    /\ \/ /\ wire' = wire \o Head(sent)
          /\ done' = Append(done, [ok |-> TRUE, n |-> Len(Head(sent))])
          /\ UNCHANGED broken
       \/ /\ "abort" \in Failures
          /\ \E k \in 0..Len(Head(sent)) : wire' = wire \o SubSeq(Head(sent), 1, k)
          /\ done' = Append(done, [ok |-> FALSE, n |-> 0])
          /\ broken' = TRUE
       \/ /\ "short" \in Failures
          /\ \E k \in 0..(Len(Head(sent)) - 1) :
                /\ wire' = wire \o SubSeq(Head(sent), 1, k)
                /\ done' = Append(done, [ok |-> TRUE, n |-> k])
          /\ broken' = TRUE
    /\ UNCHANGED <<queue, pending, m_nRef, open, local, buffers, accepted, lost>>

\* The steps a thread takes once it is inside Write or OnIOCallback.
Step(t) == \/ Enqueue(t) \/ AddRef(t) \/ SendFirst(t) \/ Refused(t)
           \/ WriteFailed(t) \/ WriteCallback(t) \/ Free(t) \/ Release(t)

Next == \/ \E t \in Writers, n \in 0..MaxMessage : Write(t, n)
        \/ \E t \in Workers : Dequeue(t)
        \/ \E t \in Threads : Step(t)
        \/ Complete
        \/ Close

Spec == Init /\ [][Next]_vars

\* A thread inside Write or OnIOCallback runs on; some worker takes a packet
\* that is in the port; the system completes every send.
Fairness == /\ \A t \in Threads : WF_vars(Step(t))
            /\ WF_vars(\E t \in Workers : Dequeue(t))
            /\ WF_vars(Complete)

FairSpec == Spec /\ Fairness

-----------------------------------------------------------------------------
Bytes == Seq(1..MaxBytes)

Labels == {"idle", "enter", "addref", "send", "refused", "callback", "free", "release"}

\* The type invariant of the send side.
TypeOK == /\ queue \in Seq(Bytes)
          /\ pending \in Int
          /\ m_nRef \in Int
          /\ open \in BOOLEAN
          /\ sent \in Seq(Bytes)
          /\ done \in Seq([ok : BOOLEAN, n : Nat])
          /\ pc \in [Threads -> Labels]
          /\ size \in [Threads -> Nat]
          /\ ok \in [Threads -> BOOLEAN]
          /\ buffers \in Int
          /\ accepted \in 0..MaxBytes
          /\ wire \in Bytes
          /\ broken \in BOOLEAN
          /\ lost \in Nat

\* The thread that must next drive the queue: it has put a first buffer in
\* place, or it has the completion of the first buffer in its hands.
Driver(t) == pc[t] \in {"addref", "send", "callback"}

\* At most one thing drives the queue: one thread, or one send in the system,
\* or one completion packet.  m_overlappedWrite is a single OVERLAPPED that
\* Write and WriteCallback reuse for every send (BGIOSocket.cpp 144, 229).
OneSend ==
    /\ \A s, t \in Threads : Driver(s) /\ Driver(t) => s = t
    /\ Len(sent) + Len(done) <= 1
    /\ (\E t \in Threads : Driver(t)) => sent = <<>> /\ done = <<>>

\* The threads that hold a reference for a send they are posting or completing,
\* and those that are about to free a buffer.
Posting == {t \in Threads : pc[t] \in {"send", "refused"}}
Completing == {t \in Workers : pc[t] \notin {"idle", "enter"}}
Freeing == {t \in Writers : pc[t] \in {"enter", "free"}}
           \union {t \in Workers : pc[t] \in {"addref", "send", "refused", "free"}}

\* The books of the connection balance on every path, refused and short sends
\* included (BGIOSocket.cpp 124, 130, 134, 139, 150, 158, 182, 219, 224, 235):
\* m_nPendingWrite, which OnRead compares with its limit, is the number of bytes
\* in the list; the references are those of the callers and of the open socket,
\* one per send from AddRef to the Release after its completion, and those
\* OnIOCallback never released, so that no completion deletes the connection
\* under the thread that posted it; and every buffer handed to Write is in the
\* list or about to be freed by exactly one thread.
CountsExact ==
    /\ pending = IF queue = <<>> THEN 0 ELSE 1 + accepted - Head(Head(queue))
    /\ m_nRef = 1 + (IF open THEN 1 ELSE 0) + Cardinality(Posting)
                   + Cardinality(Completing) + Len(sent) + Len(done) + lost
    /\ buffers = Len(queue) + Cardinality(Freeing)

\* The bytes of the buffers of the list follow each other in the stream up to
\* the last accepted one, although several callers link and merge them; and what
\* the system is reading is the first buffer exactly as it is in the list, though
\* Write copies into buffers that are already queued (BGIOSocket.cpp 153-165).
Consecutive(b) == \A i \in 1..Len(b) : b[i] = b[1] + i - 1
BuffersInOrder ==
    /\ \A k \in 1..Len(queue) : /\ Len(queue[k]) \in 1..BUFFER_SIZE
                                /\ Consecutive(queue[k])
    /\ \A k \in 1..(Len(queue) - 1) : queue[k+1][1] = queue[k][1] + Len(queue[k])
    /\ queue # <<>> => accepted = Last(queue)[1] + Len(Last(queue)) - 1
    /\ sent # <<>> => queue # <<>> /\ Head(sent) = Head(queue)

\* The connection is the byte stream of SendStream: what the socket takes is
\* the accepted bytes in their order, none lost, none twice, and stops for
\* good at the first send that fails.
Stream == INSTANCE SendStream WITH accepted <- accepted, wire <- wire, broken <- broken
StreamSafe == Stream!Spec

\* Every accepted byte is eventually sent, unless a send fails.
StreamLive == Stream!Live
=============================================================================
