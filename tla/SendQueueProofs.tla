--------------------------- MODULE SendQueueProofs ---------------------------
(***************************************************************************)
(* Machine-checked proofs about SendQueue, for every set of callers and    *)
(* workers, every size limit and every combination of failures.            *)
(*                                                                         *)
(* Inv1 says who drives the queue: the types, that there is at most one    *)
(* driver, that a driver finds a first buffer, and that only buffers that  *)
(* passed the size check are linked.                                       *)
(*                                                                         *)
(* Inv2 adds what is in the queue: its buffers follow each other in the    *)
(* stream (Ordered), what the system reads is the first of them            *)
(* (SendsFirst), and, as long as no send failed, the socket has taken      *)
(* exactly what is in front of it (InStep); after a failed send nothing    *)
(* will ever post a send again (Stopped).                                  *)
(*                                                                         *)
(* Inv3 keeps the books: m_nPendingWrite is what is between the first byte *)
(* of the queue and the last accepted one (Outstanding), and the counts of *)
(* references and of buffers follow each thread from label to label, given *)
(* that callers and workers keep to their own labels (Roles).              *)
(***************************************************************************)
EXTENDS SendQueue, SequenceTheorems, FiniteSetTheorems, TLAPS

\* Whoever drives the queue finds a first buffer in it.
HeadThere ==
    (\E t \in Threads : Driver(t)) \/ sent # <<>> \/ done # <<>> => queue # <<>>

\* Only buffers that passed the size check reach the lock.
SizeChecked == \A t \in Threads : pc[t] = "enter" => size[t] \in 1..BUFFER_SIZE

Inv1 == TypeOK /\ OneSend /\ HeadThere /\ SizeChecked

-----------------------------------------------------------------------------
\* What Write stores in a buffer: n bytes that follow the accepted ones.
LEMMA BlockType ==
    ASSUME TypeOK, NEW n \in Nat, accepted + n <= MaxBytes
    PROVE  /\ Block(n) \in Bytes
           /\ Len(Block(n)) = n
           /\ \A i \in 1..n : Block(n)[i] = accepted + i
  <1> USE ConstantsOK DEF TypeOK, Bytes, Block
  <1>1. \A i \in 1..n : accepted + i \in 1..MaxBytes
    OBVIOUS
  <1>2. [i \in 1..n |-> accepted + i] \in Seq(1..MaxBytes)
    BY <1>1
  <1>3. QED
    BY <1>2

\* The last buffer with a block copied behind its bytes.
LEMMA CopyType ==
    ASSUME TypeOK, queue # <<>>, NEW n \in Nat, accepted + n <= MaxBytes,
           NEW q, q = [queue EXCEPT ![Len(queue)] = @ \o Block(n)]
    PROVE  /\ q \in Seq(Bytes)
           /\ Len(q) = Len(queue)
           /\ \A k \in 1..(Len(queue) - 1) : q[k] = queue[k]
           /\ q[Len(queue)] = Last(queue) \o Block(n)
  <1>1. Block(n) \in Bytes
    BY BlockType
  <1>2. Len(queue) \in Nat /\ Len(queue) \in 1..Len(queue)
    BY EmptySeq DEF TypeOK
  <1>3. queue[Len(queue)] \in Bytes
    BY <1>2, ElementOfSeq DEF TypeOK
  <1>4. queue[Len(queue)] \o Block(n) \in Bytes
    BY <1>1, <1>3, ConcatProperties DEF Bytes
  <1>5. QED
    BY <1>2, <1>4, ExceptSeq DEF TypeOK, Last

-----------------------------------------------------------------------------
\* Facts about the lengths of the sequences of the state.
LEMMA Lengths ==
    ASSUME TypeOK
    PROVE  /\ Len(sent) \in Nat /\ (sent # <<>> <=> Len(sent) > 0)
           /\ Len(done) \in Nat /\ (done # <<>> <=> Len(done) > 0)
           /\ Len(queue) \in Nat /\ (queue # <<>> <=> Len(queue) > 0)
  BY EmptySeq, LenProperties DEF TypeOK

\* A send in the system, or a packet in the port, is the only one.
LEMMA Alone ==
    ASSUME TypeOK, OneSend
    PROVE  /\ sent # <<>> => Len(sent) < 2 /\ done = <<>>
           /\ done # <<>> => Len(done) < 2 /\ sent = <<>>
  <1>1. Len(sent) + Len(done) <= 1
    BY DEF OneSend
  <1>2. /\ Len(sent) > 0 => Len(sent) < 2 /\ ~(Len(done) > 0)
        /\ Len(done) > 0 => Len(done) < 2 /\ ~(Len(sent) > 0)
    BY <1>1, Lengths
  <1>3. QED
    BY <1>2, Lengths

LEMMA AtMostOne ==
    ASSUME TypeOK, queue # <<>>, sent = <<>>, NEW s, s = sent \/ s = Append(sent, Head(queue))
    PROVE  Len(s) \in Nat /\ Len(s) < 2
  <1>1. Head(queue) \in Bytes
    BY HeadTailProperties DEF TypeOK
  <1>2. Len(Append(sent, Head(queue))) = Len(sent) + 1
    BY <1>1, AppendProperties DEF TypeOK
  <1>3. Len(s) = Len(sent) \/ Len(s) = Len(sent) + 1
    BY <1>2, Zenon
  <1>4. Len(sent) \in Nat /\ ~(Len(sent) > 0)
    BY Lengths
  <1>5. QED
    BY <1>3, <1>4

LEMMA Inv1Init == Init => Inv1
  <1> SUFFICES ASSUME Init PROVE Inv1
    OBVIOUS
  <1>1. TypeOK
    <2>1. /\ <<>> \in Seq(Bytes) /\ <<>> \in Bytes
          /\ <<>> \in Seq([ok : BOOLEAN, n : Nat])
      BY EmptySeq DEF Bytes
    <2>2. pc \in [Threads -> Labels] /\ size \in [Threads -> Nat] /\ ok \in [Threads -> BOOLEAN]
      BY DEF Init, Labels
    <2>3. open \in BOOLEAN /\ broken \in BOOLEAN
      BY DEF Init
    <2>4. pending \in Int /\ m_nRef \in Int /\ buffers \in Int /\ accepted \in 0..MaxBytes /\ lost \in Nat
      BY ConstantsOK DEF Init
    <2>5. queue \in Seq(Bytes) /\ sent \in Seq(Bytes) /\ wire \in Bytes /\ done \in Seq([ok : BOOLEAN, n : Nat])
      BY <2>1 DEF Init
    <2>6. QED
      BY <2>2, <2>3, <2>4, <2>5 DEF TypeOK
  <1>2. \A t \in Threads : pc[t] = "idle"
    BY DEF Init
  <1>3. QED
    BY <1>1, <1>2, Lengths DEF Init, Inv1, OneSend, HeadThere, SizeChecked, Driver

-----------------------------------------------------------------------------
\* The types of what a step writes.
LEMMA TypeStep == ASSUME Inv1, [Next]_vars PROVE TypeOK'
  <1> USE ConstantsOK DEF Inv1, Goto, history, local
  <1>a. \A t \in Threads : Driver(t) => queue # <<>>
    BY DEF HeadThere
  <1>b. TypeOK
    OBVIOUS
  <1>c. queue \in Seq(Bytes) /\ sent \in Seq(Bytes) /\ pending \in Int
    BY DEF TypeOK
  <1>1. ASSUME NEW t \in Writers, NEW n \in 0..MaxMessage, Write(t, n) PROVE TypeOK'
    BY <1>1, <1>b DEF TypeOK, Labels, Write, AfterSizeCheck, Threads
  <1>2. ASSUME NEW t \in Threads, Enqueue(t) PROVE TypeOK'
    <2> DEFINE n == size[t]
    <2>1. n \in Nat /\ accepted + n <= MaxBytes /\ accepted' = accepted + n
      BY <1>2 DEF Enqueue, TypeOK
    <2>2. Block(n) \in Bytes
      BY <2>1, BlockType
    <2>4. queue' \in Seq(Bytes)
      <3>1. CASE PutFirst(t, n)
        BY <2>2, <3>1 DEF PutFirst
      <3>2. CASE Copy(t, n)
        <4>1. queue # <<>>
          BY <3>2, Lengths DEF Copy, MayCopy
        <4>2. QED
          BY <2>1, <3>2, <4>1, CopyType DEF Copy
      <3>3. CASE Link(t, n)
        BY <2>2, <3>3, AppendProperties DEF Link, TypeOK
      <3>4. QED
        BY <1>2, <3>1, <3>2, <3>3 DEF Enqueue
    <2>5. pc' \in [Threads -> Labels]
      BY <1>2, <1>b DEF Enqueue, PutFirst, Copy, Link, TypeOK, Labels
    <2>6. QED
      BY <1>2, <2>1, <2>4, <2>5 DEF Enqueue, TypeOK
  <1>3. ASSUME NEW t \in Threads, AddRef(t) PROVE TypeOK'
    BY <1>3, <1>b DEF TypeOK, Labels, AddRef
  <1>4. ASSUME NEW t \in Threads, SendFirst(t) PROVE TypeOK'
    <2>1. Head(queue) \in Bytes
      BY <1>4, <1>a, HeadTailProperties DEF SendFirst, Driver, TypeOK
    <2>2. sent' \in Seq(Bytes)
      <3>1. sent' = sent \/ sent' = Append(sent, Head(queue))
        BY <1>4 DEF SendFirst
      <3>2. QED
        BY <1>c, <2>1, <3>1, AppendProperties
    <2>3. QED
      BY <1>4, <1>b, <2>2 DEF SendFirst, AfterSend, TypeOK, Labels
  <1>5. ASSUME NEW t \in Threads, Refused(t) PROVE TypeOK'
    BY <1>5, <1>b DEF TypeOK, Labels, Refused, AfterSend
  <1>6. ASSUME NEW t \in Workers, Dequeue(t) PROVE TypeOK'
    <2>1. done' \in Seq([ok : BOOLEAN, n : Nat]) /\ Head(done) \in [ok : BOOLEAN, n : Nat]
      BY <1>6, HeadTailProperties DEF Dequeue, TypeOK
    <2>2. QED
      BY <1>6, <1>b, <2>1 DEF Dequeue, TypeOK, Labels, Threads
  <1>7. ASSUME NEW t \in Threads, WriteFailed(t) PROVE TypeOK'
    BY <1>7, <1>b DEF TypeOK, Labels, WriteFailed
  <1>8. ASSUME NEW t \in Threads, WriteCallback(t) PROVE TypeOK'
    <2>1. Head(queue) \in Bytes /\ Tail(queue) \in Seq(Bytes)
      BY <1>8, <1>a, HeadTailProperties DEF WriteCallback, Driver, TypeOK
    <2>2. Len(Head(queue)) \in Nat
      BY <2>1, LenProperties DEF Bytes
    <2>3. queue' \in Seq(Bytes) /\ pending' \in Int
      <3>1. \/ queue' = queue /\ pending' = pending
            \/ queue' = Tail(queue) /\ pending' = pending - Len(Head(queue))
        BY <1>8 DEF WriteCallback
      <3>2. queue' \in Seq(Bytes)
        BY <1>c, <2>1, <3>1
      <3>3. pending' = pending \/ pending' = pending - Len(Head(queue))
        BY <3>1
      <3>4. QED
        BY <1>c, <2>2, <3>2, <3>3
    <2>4. pc' \in [Threads -> Labels]
      BY <1>8, <1>b DEF WriteCallback, AfterUnlink, TypeOK, Labels
    <2>5. QED
      BY <1>8, <1>b, <2>3, <2>4 DEF WriteCallback, TypeOK
  <1>9. ASSUME NEW t \in Threads, Free(t) PROVE TypeOK'
    BY <1>9, <1>b DEF TypeOK, Labels, Free
  <1>10. ASSUME NEW t \in Threads, Release(t) PROVE TypeOK'
    BY <1>10, <1>b DEF TypeOK, Labels, Release
  <1>11. CASE Complete
    <2>1. Head(sent) \in Bytes /\ sent' \in Seq(Bytes)
      BY <1>11, HeadTailProperties DEF Complete, TypeOK
    <2>2. Len(Head(sent)) \in Nat
      BY <2>1, LenProperties DEF Bytes
    <2>3. \A k \in 0..Len(Head(sent)) : SubSeq(Head(sent), 1, k) \in Bytes
      BY <2>1 DEF Bytes
    <2>4. wire' \in Bytes
      <3>1. PICK b \in Bytes : wire' = wire \o b
        <4>1. \/ wire' = wire \o Head(sent)
              \/ \E k \in 0..Len(Head(sent)) : wire' = wire \o SubSeq(Head(sent), 1, k)
              \/ \E k \in 0..(Len(Head(sent)) - 1) : wire' = wire \o SubSeq(Head(sent), 1, k)
          BY <1>11 DEF Complete
        <4>2. 0..(Len(Head(sent)) - 1) \subseteq 0..Len(Head(sent))
          BY <2>2
        <4>3. QED
          BY <2>1, <2>3, <4>1, <4>2
      <3>2. QED
        BY <3>1, ConcatProperties DEF TypeOK, Bytes
    <2>5. done' \in Seq([ok : BOOLEAN, n : Nat])
      <3>1. PICK r \in [ok : BOOLEAN, n : Nat] : done' = Append(done, r)
        <4>1. \/ done' = Append(done, [ok |-> TRUE, n |-> Len(Head(sent))])
              \/ done' = Append(done, [ok |-> FALSE, n |-> 0])
              \/ \E k \in 0..(Len(Head(sent)) - 1) : done' = Append(done, [ok |-> TRUE, n |-> k])
          BY <1>11 DEF Complete
        <4>2. \A k \in Nat : /\ [ok |-> TRUE, n |-> k] \in [ok : BOOLEAN, n : Nat]
                            /\ [ok |-> FALSE, n |-> k] \in [ok : BOOLEAN, n : Nat]
          OBVIOUS
        <4>3. 0 \in Nat /\ 0..(Len(Head(sent)) - 1) \subseteq Nat
          BY <2>2
        <4>4. QED
          BY <2>2, <4>1, <4>2, <4>3
      <3>2. QED
        BY <3>1, AppendProperties DEF TypeOK
    <2>6. broken' \in BOOLEAN
      BY <1>11, <1>b DEF Complete, TypeOK
    <2>7. UNCHANGED <<queue, pending, m_nRef, open, pc, size, ok, buffers, accepted, lost>>
      BY <1>11 DEF Complete
    <2>8. QED
      BY <1>b, <2>1, <2>4, <2>5, <2>6, <2>7 DEF TypeOK
  <1>12. CASE Close
    <2>1. open' \in BOOLEAN /\ m_nRef' = m_nRef - 1
          /\ UNCHANGED <<queue, pending, sent, done, pc, size, ok, buffers, accepted, wire, broken, lost>>
      BY <1>12 DEF Close
    <2>2. QED
      BY <1>b, <2>1 DEF TypeOK
  <1>13. CASE UNCHANGED vars
    BY <1>13, <1>b DEF vars, TypeOK
  <1>14. QED
    BY <1>1, <1>2, <1>3, <1>4, <1>5, <1>6, <1>7, <1>8, <1>9, <1>10, <1>11, <1>12, <1>13
       DEF Next, Step

-----------------------------------------------------------------------------
\* Who drives the queue after a step.
LEMMA ControlStep ==
    ASSUME Inv1, [Next]_vars, TypeOK' PROVE OneSend' /\ HeadThere' /\ SizeChecked'
  <1> DEFINE Control == OneSend /\ HeadThere /\ SizeChecked
  <1> SUFFICES Control'
    OBVIOUS
  <1> USE DEF Inv1, Goto, history, local, OneSend, HeadThere, SizeChecked, Driver
  <1>a. Len(sent) \in Nat /\ Len(done) \in Nat /\ Len(<<>>) = 0
        /\ (sent # <<>> => Len(sent) > 0) /\ (done # <<>> => Len(done) > 0)
    BY Lengths
  <1>b. pc \in [Threads -> Labels] /\ size \in [Threads -> Nat]
    BY DEF TypeOK
  <1>c. queue \in Seq(Bytes) /\ sent \in Seq(Bytes)
    BY DEF TypeOK
  <1>1. ASSUME NEW t \in Writers, NEW n \in 0..MaxMessage, Write(t, n) PROVE Control'
    BY <1>1, <1>b, ConstantsOK DEF Write, AfterSizeCheck, Threads
  <1>2. ASSUME NEW t \in Threads, Enqueue(t) PROVE Control'
    <2>1. CASE PutFirst(t, size[t])
      <3>1. sent = <<>> /\ done = <<>> /\ (\A s \in Threads : ~Driver(s)) /\ queue' # <<>>
        BY <2>1 DEF PutFirst
      <3>2. QED
        BY <1>2, <1>b, <2>1, <3>1 DEF Enqueue, PutFirst
    <2>2. CASE Copy(t, size[t])
      <3>1. queue # <<>>
        BY <2>2, Lengths DEF Copy, MayCopy
      <3>2. Len(queue') = Len(queue) /\ Len(queue) > 0
        BY <1>2, <1>b, <2>2, <3>1, CopyType, Lengths DEF Copy, Enqueue
      <3>3. queue' # <<>>
        BY <3>2, <1>a
      <3>4. QED
        BY <1>2, <1>b, <2>2, <3>3 DEF Enqueue, Copy
    <2>3. CASE Link(t, size[t])
      <3>1. Block(size[t]) \in Bytes
        BY <1>2, <1>b, BlockType DEF Enqueue
      <3>2. queue' # <<>>
        BY <1>c, <2>3, <3>1, AppendProperties DEF Link
      <3>3. QED
        BY <1>2, <1>b, <2>3, <3>2 DEF Enqueue, Link
    <2>4. QED
      BY <1>2, <2>1, <2>2, <2>3 DEF Enqueue
  <1>3. ASSUME NEW t \in Threads, AddRef(t) PROVE Control'
    BY <1>3, <1>b DEF AddRef
  <1>4. ASSUME NEW t \in Threads, SendFirst(t) PROVE Control'
    <2>1. /\ sent = <<>> /\ done = <<>> /\ queue # <<>>
          /\ \A s \in Threads : Driver(s) => s = t
      BY <1>4 DEF SendFirst
    <2>2. \A s \in Threads : pc'[s] \notin {"addref", "send", "callback"}
      BY <1>4, <1>b, <2>1 DEF SendFirst, AfterSend
    <2>3. Len(sent') \in Nat /\ Len(sent') <= 1
      <3>1. sent' = sent \/ sent' = Append(sent, Head(queue))
        BY <1>4 DEF SendFirst
      <3>2. QED
        BY <2>1, <1>a, <3>1, AtMostOne
    <2>4. QED
      BY <1>4, <1>a, <1>b, <2>1, <2>2, <2>3 DEF SendFirst, AfterSend
  <1>5. ASSUME NEW t \in Threads, Refused(t) PROVE Control'
    BY <1>5, <1>b DEF Refused, AfterSend
  <1>6. ASSUME NEW t \in Workers, Dequeue(t) PROVE Control'
    <2>0. done # <<>>
      BY <1>6 DEF Dequeue
    <2>1. Len(done) = 1 /\ sent = <<>> /\ queue # <<>> /\ \A s \in Threads : ~Driver(s)
      BY <1>a, <2>0
    <2>2. done' = <<>>
      <3>1. Len(done') = 0 /\ done' \in Seq([ok : BOOLEAN, n : Nat])
        BY <1>6, <2>1, HeadTailProperties DEF Dequeue, TypeOK
      <3>2. QED
        BY <3>1, EmptySeq
    <2>3. sent' = <<>> /\ queue' = queue /\ pc' = [pc EXCEPT ![t] = "callback"]
          /\ t \in Threads /\ \A s \in Threads : s # t => size'[s] = size[s]
      BY <1>6, <1>b, <2>1 DEF Dequeue, Threads
    <2>4. QED
      BY <1>a, <1>b, <2>1, <2>2, <2>3
  <1>7. ASSUME NEW t \in Threads, WriteFailed(t) PROVE Control'
    BY <1>7, <1>b DEF WriteFailed
  <1>8. ASSUME NEW t \in Threads, WriteCallback(t) PROVE Control'
    <2>1. sent = <<>> /\ done = <<>> /\ \A s \in Threads : Driver(s) => s = t
      BY <1>8 DEF WriteCallback
    <2>2. QED
      BY <1>8, <1>b, <2>1 DEF WriteCallback, AfterUnlink
  <1>9. ASSUME NEW t \in Threads, Free(t) PROVE Control'
    BY <1>9, <1>b DEF Free
  <1>10. ASSUME NEW t \in Threads, Release(t) PROVE Control'
    BY <1>10, <1>b DEF Release
  <1>11. CASE Complete
    <2>0. sent # <<>> /\ sent' = Tail(sent) /\ UNCHANGED <<queue, pc, size>>
      BY <1>11 DEF Complete
    <2>1. /\ Len(sent) < 2 /\ done = <<>> /\ queue # <<>>
          /\ \A s \in Threads : ~Driver(s)
      BY <2>0, Alone
    <2>2. sent' = <<>>
      <3>1. Len(sent') = Len(sent) - 1 /\ sent' \in Seq(Bytes)
        BY <1>c, <2>0, HeadTailProperties
      <3>2. ~(Len(sent') > 0)
        BY <1>a, <2>1, <3>1
      <3>3. QED
        BY <3>1, <3>2, EmptySeq
    <2>3. Len(sent') + Len(done') <= 1
      <3>1. PICK r : done' = Append(done, r)
        BY <1>11 DEF Complete
      <3>2. Len(done') = Len(done) + 1
        BY <3>1, HeadTailProperties DEF TypeOK
      <3>3. Len(done') <= 1 /\ Len(sent') <= 0
        BY <2>1, <2>2, <3>2
      <3>4. Len(done') \in Nat /\ Len(sent') \in Nat
        BY LenProperties DEF TypeOK
      <3>5. QED
        BY <3>3, <3>4
    <2>4. QED
      BY <2>0, <2>1, <2>2, <2>3
  <1>12. CASE Close
    BY <1>12 DEF Close
  <1>13. CASE UNCHANGED vars
    BY <1>13 DEF vars
  <1>14. QED
    BY <1>1, <1>2, <1>3, <1>4, <1>5, <1>6, <1>7, <1>8, <1>9, <1>10, <1>11, <1>12, <1>13
       DEF Next, Step

LEMMA Inv1Holds == Spec => []Inv1
  <1>1. Inv1 /\ [Next]_vars => Inv1'
    BY TypeStep, ControlStep DEF Inv1
  <1>2. QED
    BY Inv1Init, <1>1, PTL DEF Spec

\* Type correctness of the send side.
THEOREM TypeCorrect == Spec => []TypeOK
  BY Inv1Holds, PTL DEF Inv1

\* m_overlappedWrite is never used for two sends at a time, whatever the
\* callers of Write and the workers do (BGIOSocket.cpp 144, 229).
THEOREM NeverTwoSends == Spec => []OneSend
  BY Inv1Holds, PTL DEF Inv1

-----------------------------------------------------------------------------
\* The buffers of q follow each other in the stream up to byte a.
Ordered(q, a) ==
    /\ \A k \in 1..Len(q) : /\ Len(q[k]) \in 1..BUFFER_SIZE
                            /\ Consecutive(q[k])
                            /\ q[k][1] + Len(q[k]) - 1 <= a
    /\ \A k \in 1..(Len(q) - 1) : q[k+1][1] = q[k][1] + Len(q[k])
    /\ Len(q) > 0 => a = q[Len(q)][1] + Len(q[Len(q)]) - 1

\* The system reads the first buffer.
SendsFirst == sent # <<>> => sent[1] = queue[1]

\* Posting a send, or one in the system: its bytes are the next ones.
Waiting == sent # <<>> \/ \E t \in Threads : pc[t] \in {"addref", "send"}

\* The completion of the first buffer, which the socket has taken.
Success(good, n) == /\ good /\ n = Len(queue[1])
                    /\ queue[1][1] + Len(queue[1]) - 1 = Len(wire)

InStep == /\ Len(queue) = 0 => Len(wire) = accepted
          /\ Waiting => queue[1][1] = Len(wire) + 1
          /\ \A t \in Threads : pc[t] = "callback" => Success(ok[t], size[t])
          /\ \A k \in 1..Len(done) : Success(done[k].ok, done[k].n)

\* A completion that leaves the first buffer in the queue.
Useless(good, n) == good => n # Len(queue[1])

Stopped == /\ Len(queue) > 0 /\ ~Waiting
           /\ \A t \in Threads : pc[t] = "callback" => Useless(ok[t], size[t])
           /\ \A k \in 1..Len(done) : Useless(done[k].ok, done[k].n)

Inv2 == /\ Ordered(queue, accepted)
        /\ SendsFirst
        /\ ~broken => InStep
        /\ broken => Stopped

-----------------------------------------------------------------------------
\* A buffer with bytes has a first one.
LEMMA FirstByte ==
    ASSUME NEW s \in Bytes, NEW n \in Nat, Len(s) \in 1..n
    PROVE  s[1] \in Nat
  <1>1. s \in Seq(1..MaxBytes) /\ 1 \in 1..Len(s)
    BY DEF Bytes
  <1>2. s[1] \in 1..MaxBytes
    BY <1>1, ElementOfSeq
  <1>3. QED
    BY <1>2, ConstantsOK

\* A buffer that continues the stream may be linked behind the last one.
LEMMA OrderedAppend ==
    ASSUME NEW q \in Seq(Bytes), NEW a \in Nat, Ordered(q, a),
           NEW b \in Bytes, Len(b) \in 1..BUFFER_SIZE, Consecutive(b), b[1] = a + 1
    PROVE  Ordered(Append(q, b), a + Len(b))
  <1> DEFINE r == Append(q, b)
  <1>1. /\ Len(q) \in Nat /\ Len(r) = Len(q) + 1 /\ r[Len(q) + 1] = b
        /\ \A k \in 1..Len(q) : r[k] = q[k]
    BY AppendProperties, LenProperties
  <1>2. BUFFER_SIZE \in Nat
    BY ConstantsOK
  <1>3. \A k \in 1..Len(q) : q[k] \in Bytes /\ Len(q[k]) \in 1..BUFFER_SIZE /\ q[k][1] \in Nat
    <2>1. SUFFICES ASSUME NEW k \in 1..Len(q) PROVE q[k] \in Bytes /\ Len(q[k]) \in 1..BUFFER_SIZE /\ q[k][1] \in Nat
      OBVIOUS
    <2>2. q[k] \in Bytes /\ Len(q[k]) \in 1..BUFFER_SIZE
      BY ElementOfSeq DEF Ordered
    <2>3. QED
      BY <1>2, <2>2, FirstByte
  <1> HIDE DEF r
  <1>4. ASSUME NEW k \in 1..Len(r)
        PROVE  Len(r[k]) \in 1..BUFFER_SIZE /\ Consecutive(r[k]) /\ r[k][1] + Len(r[k]) - 1 <= a + Len(b)
    <2>1. CASE k = Len(q) + 1
      <3>1. r[k] = b
        BY <1>1, <2>1
      <3>2. Len(b) \in Nat /\ b[1] + Len(b) - 1 <= a + Len(b)
        BY <1>2
      <3>3. QED
        BY <3>1, <3>2
    <2>2. CASE k # Len(q) + 1
      <3>1. k \in 1..Len(q)
        BY <1>1, <2>2
      <3>2. QED
        BY <1>1, <1>2, <1>3, <3>1 DEF Ordered
    <2>3. QED
      BY <2>1, <2>2
  <1>5. ASSUME NEW k \in 1..(Len(r) - 1) PROVE r[k+1][1] = r[k][1] + Len(r[k])
    <2>1. CASE k = Len(q)
      <3>1. k \in 1..Len(q) /\ r[k] = q[Len(q)] /\ r[k+1] = b
        BY <1>1, <2>1
      <3>2. a = q[Len(q)][1] + Len(q[Len(q)]) - 1
        BY <1>1, <3>1 DEF Ordered
      <3>3. q[Len(q)][1] \in Nat /\ Len(q[Len(q)]) \in Nat
        BY <1>2, <1>3, <2>1, <3>1
      <3>4. QED
        BY <3>1, <3>2, <3>3
    <2>2. CASE k # Len(q)
      <3>1. k \in 1..(Len(q) - 1) /\ k \in 1..Len(q) /\ k + 1 \in 1..Len(q)
        BY <1>1, <2>2
      <3>2. r[k] = q[k] /\ r[k+1] = q[k+1]
        BY <1>1, <3>1
      <3>3. QED
        BY <3>1, <3>2 DEF Ordered
    <2>3. QED
      BY <2>1, <2>2
  <1>6. a + Len(b) = r[Len(r)][1] + Len(r[Len(r)]) - 1
    BY <1>1, <1>2
  <1>7. QED
    BY <1>4, <1>5, <1>6 DEF Ordered, r

\* So may it be put in place as the first one.
LEMMA OrderedFirst ==
    ASSUME NEW a \in Nat, NEW b \in Bytes, Len(b) \in 1..BUFFER_SIZE, Consecutive(b), b[1] = a + 1
    PROVE  Ordered(<<b>>, a + Len(b))
  <1>1. Len(<<b>>) = 1 /\ <<b>>[1] = b /\ BUFFER_SIZE \in Nat
    BY ConstantsOK
  <1>2. QED
    BY <1>1 DEF Ordered

\* The first buffer may leave the list.
LEMMA OrderedTail ==
    ASSUME NEW q \in Seq(Bytes), NEW a \in Nat, Ordered(q, a), q # <<>>
    PROVE  Ordered(Tail(q), a)
  <1> DEFINE r == Tail(q)
  <1>1. /\ Len(q) \in Nat /\ Len(r) = Len(q) - 1 /\ Len(r) \in Nat
        /\ \A k \in 1..Len(r) : r[k] = q[k + 1]
    BY HeadTailProperties, LenProperties
  <1> HIDE DEF r
  <1>2. \A k \in 1..Len(r) : k + 1 \in 1..Len(q)
    BY <1>1
  <1>3. \A k \in 1..(Len(r) - 1) : k \in 1..Len(r) /\ k + 1 \in 1..Len(r) /\ k + 1 \in 1..(Len(q) - 1)
    BY <1>1
  <1>4. Len(r) > 0 => Len(r) \in 1..Len(r) /\ Len(r) + 1 = Len(q) /\ Len(q) > 0
    BY <1>1
  <1>5. \A k \in 1..Len(r) : /\ Len(r[k]) \in 1..BUFFER_SIZE /\ Consecutive(r[k])
                             /\ r[k][1] + Len(r[k]) - 1 <= a
    BY <1>1, <1>2 DEF Ordered
  <1>6. ASSUME NEW k \in 1..(Len(r) - 1) PROVE r[k+1][1] = r[k][1] + Len(r[k])
    <2>1. r[k] = q[k+1] /\ r[k+1] = q[(k+1)+1]
      BY <1>1, <1>3
    <2>2. QED
      BY <1>3, <2>1 DEF Ordered
  <1>7. ASSUME Len(r) > 0 PROVE a = r[Len(r)][1] + Len(r[Len(r)]) - 1
    <2>1. r[Len(r)] = q[Len(q)] /\ Len(q) > 0
      BY <1>1, <1>4, <1>7
    <2>2. QED
      BY <2>1 DEF Ordered
  <1>8. QED
    BY <1>5, <1>6, <1>7 DEF Ordered, r

\* A block that continues the stream may be copied behind the last buffer.
LEMMA OrderedCopy ==
    ASSUME NEW q \in Seq(Bytes), NEW a \in Nat, Ordered(q, a), Len(q) > 0,
           NEW b \in Bytes, Len(b) > 0, Consecutive(b), b[1] = a + 1,
           Len(q[Len(q)]) + Len(b) <= BUFFER_SIZE,
           NEW r \in Seq(Bytes), Len(r) = Len(q), r[Len(q)] = q[Len(q)] \o b,
           \A k \in 1..(Len(q) - 1) : r[k] = q[k]
    PROVE  Ordered(r, a + Len(b))
  <1> DEFINE l == q[Len(q)]
             e == l \o b
  <1>1. Len(q) \in Nat /\ Len(q) \in 1..Len(q) /\ BUFFER_SIZE \in Nat
    BY LenProperties, ConstantsOK
  <1>2. l \in Seq(1..MaxBytes) /\ Len(l) \in 1..BUFFER_SIZE /\ Consecutive(l)
    BY <1>1, ElementOfSeq DEF Ordered, Bytes
  <1>3. b \in Seq(1..MaxBytes) /\ Len(b) \in Nat
    BY LenProperties DEF Bytes
  <1>4. l[1] \in Nat
    BY <1>1, <1>2, FirstByte DEF Bytes
  <1>5. a = l[1] + Len(l) - 1
    BY <1>1 DEF Ordered
  <1> HIDE DEF l
  <1>6. /\ Len(e) = Len(l) + Len(b)
        /\ \A i \in 1..(Len(l) + Len(b)) : e[i] = IF i <= Len(l) THEN l[i] ELSE b[i - Len(l)]
    BY <1>2, <1>3, ConcatProperties
  <1> HIDE DEF e
  <1>7. e[1] = l[1]
    BY <1>1, <1>2, <1>3, <1>6
  <1>8. Consecutive(e)
    <2>1. SUFFICES ASSUME NEW i \in 1..Len(e) PROVE e[i] = e[1] + i - 1
      BY DEF Consecutive
    <2>2. CASE i <= Len(l)
      <3>1. i \in 1..Len(l) /\ e[i] = l[i]
        BY <1>1, <1>2, <1>3, <1>6, <2>2
      <3>2. QED
        BY <1>2, <1>7, <3>1 DEF Consecutive
    <2>3. CASE ~(i <= Len(l))
      <3>1. i - Len(l) \in 1..Len(b) /\ e[i] = b[i - Len(l)]
        BY <1>1, <1>2, <1>3, <1>6, <2>3
      <3>2. b[i - Len(l)] = b[1] + (i - Len(l)) - 1
        BY <3>1 DEF Consecutive
      <3>3. Len(l) \in Nat /\ i \in Int
        BY <1>1, <1>2, <1>3, <1>6
      <3>4. e[i] = a + 1 + (i - Len(l)) - 1
        BY <3>1, <3>2
      <3>5. \A x, y, z \in Int : (x + y - 1) + 1 + (z - y) - 1 = x + z - 1
        OBVIOUS
      <3>6. l[1] \in Int /\ Len(l) \in Int /\ i \in Int
        BY <1>4, <3>3
      <3>7. e[i] = (l[1] + Len(l) - 1) + 1 + (i - Len(l)) - 1
        BY <1>5, <3>4
      <3>8. e[i] = l[1] + i - 1
        BY <3>5, <3>6, <3>7
      <3>9. QED
        BY <1>7, <3>8
    <2>4. QED
      BY <2>2, <2>3
  <1>9. Len(e) \in 1..BUFFER_SIZE /\ e[1] + Len(e) - 1 = a + Len(b)
    <2>1. Len(l) + Len(b) <= BUFFER_SIZE
      BY DEF l
    <2>2. QED
      BY <1>1, <1>2, <1>3, <1>4, <1>5, <1>6, <1>7, <2>1
  <1>10. ASSUME NEW k \in 1..Len(r)
         PROVE  Len(r[k]) \in 1..BUFFER_SIZE /\ Consecutive(r[k]) /\ r[k][1] + Len(r[k]) - 1 <= a + Len(b)
    <2>1. CASE k = Len(q)
      <3>1. r[k] = e
        BY <2>1 DEF e, l
      <3>2. QED
        BY <1>3, <1>8, <1>9, <3>1
    <2>2. CASE k # Len(q)
      <3>1. k \in 1..(Len(q) - 1) /\ k \in 1..Len(q) /\ r[k] = q[k]
        BY <1>1, <2>2
      <3>2. Len(q[k]) \in 1..BUFFER_SIZE /\ Consecutive(q[k]) /\ q[k][1] + Len(q[k]) - 1 <= a
        BY <3>1 DEF Ordered
      <3>3. q[k] \in Bytes
        BY <3>1, ElementOfSeq
      <3>4. q[k][1] \in Nat
        BY <1>1, <3>2, <3>3, FirstByte
      <3>5. QED
        BY <1>1, <1>3, <3>1, <3>2, <3>4
    <2>3. QED
      BY <2>1, <2>2
  <1>11. ASSUME NEW k \in 1..(Len(r) - 1) PROVE r[k+1][1] = r[k][1] + Len(r[k])
    <2>1. r[k] = q[k] /\ k \in 1..(Len(q) - 1)
      BY <1>1
    <2>2. q[k+1][1] = q[k][1] + Len(q[k])
      BY <2>1 DEF Ordered
    <2>3. r[k+1][1] = q[k+1][1]
      <3>1. CASE k + 1 = Len(q)
        BY <1>7, <3>1 DEF e, l
      <3>2. CASE k + 1 # Len(q)
        <4>1. k + 1 \in 1..(Len(q) - 1)
          BY <1>1, <2>1, <3>2
        <4>2. QED
          BY <4>1
      <3>3. QED
        BY <3>1, <3>2
    <2>4. QED
      BY <2>1, <2>2, <2>3
  <1>12. a + Len(b) = r[Len(r)][1] + Len(r[Len(r)]) - 1
    BY <1>9 DEF e, l
  <1>13. QED
    BY <1>10, <1>11, <1>12 DEF Ordered

-----------------------------------------------------------------------------
\* What Write makes of its bytes is a buffer that continues the stream.
LEMMA BlockContinues ==
    ASSUME TypeOK, NEW n \in 1..BUFFER_SIZE, accepted + n <= MaxBytes
    PROVE  /\ Block(n) \in Bytes /\ Len(Block(n)) = n
           /\ Consecutive(Block(n)) /\ Block(n)[1] = accepted + 1
  <1>1. n \in Nat /\ accepted \in Nat /\ 1 \in 1..n
    BY ConstantsOK DEF TypeOK
  <1>2. /\ Block(n) \in Bytes /\ Len(Block(n)) = n
        /\ \A i \in 1..n : Block(n)[i] = accepted + i
    BY <1>1, BlockType
  <1> HIDE DEF Block
  <1>3. Block(n)[1] = accepted + 1
    BY <1>1, <1>2
  <1>4. Consecutive(Block(n))
    <2>1. SUFFICES ASSUME NEW i \in 1..n PROVE Block(n)[i] = Block(n)[1] + i - 1
      BY <1>2 DEF Consecutive
    <2>2. Block(n)[i] = accepted + i /\ i \in Nat
      BY <1>1, <1>2
    <2>3. QED
      BY <1>1, <1>3, <2>2
  <1>5. QED
    BY <1>2, <1>3, <1>4

\* The first buffer of a queue in order.
LEMMA FirstBuffer ==
    ASSUME TypeOK, Ordered(queue, accepted), Len(queue) > 0
    PROVE  /\ queue[1] \in Bytes /\ Len(queue[1]) \in Nat /\ Len(queue[1]) > 0
           /\ queue[1][1] \in Nat /\ queue[1][1] + Len(queue[1]) - 1 <= accepted
           /\ Consecutive(queue[1])
           /\ Len(wire) \in Nat /\ accepted \in Nat
  <1>1. 1 \in 1..Len(queue) /\ BUFFER_SIZE \in Nat
    BY LenProperties, ConstantsOK DEF TypeOK
  <1>2. queue[1] \in Bytes
    BY <1>1, ElementOfSeq DEF TypeOK
  <1>3. /\ Len(queue[1]) \in 1..BUFFER_SIZE /\ Consecutive(queue[1])
        /\ queue[1][1] + Len(queue[1]) - 1 <= accepted
    BY <1>1 DEF Ordered
  <1>4. queue[1][1] \in Nat
    BY <1>1, <1>2, <1>3, FirstByte
  <1>5. Len(wire) \in Nat /\ accepted \in Nat
    BY LenProperties, ConstantsOK DEF TypeOK, Bytes
  <1>6. QED
    BY <1>1, <1>2, <1>3, <1>4, <1>5

LEMMA Inv2Init == Init => Inv2
  <1> SUFFICES ASSUME Init PROVE Inv2
    OBVIOUS
  <1>1. Len(<<>>) = 0 /\ Len(queue) = 0 /\ Len(done) = 0 /\ Len(wire) = accepted
    BY DEF Init
  <1>2. Ordered(queue, accepted)
    BY <1>1 DEF Ordered
  <1>3. ~broken /\ sent = <<>> /\ \A t \in Threads : pc[t] = "idle"
    BY DEF Init
  <1>4. QED
    BY <1>1, <1>2, <1>3 DEF Inv2, SendsFirst, InStep, Waiting

-----------------------------------------------------------------------------
\* A step that neither sends nor completes anything and keeps the first buffer.
LEMMA QuietStep ==
    ASSUME Inv2, Ordered(queue', accepted'), queue'[1] = queue[1],
           Len(queue') = 0 => Len(queue) = 0 /\ accepted' = accepted,
           Len(queue) > 0 => Len(queue') > 0,
           UNCHANGED <<sent, done, wire, broken>>,
           \A t \in Threads : pc'[t] \in {"addref", "send"} => pc[t] \in {"addref", "send"},
           \A t \in Threads : pc'[t] = "callback" =>
               pc[t] = "callback" /\ ok'[t] = ok[t] /\ size'[t] = size[t]
    PROVE  Inv2'
  <1>1. SendsFirst'
    BY DEF Inv2, SendsFirst
  <1>2. Waiting' => Waiting
    BY DEF Waiting
  <1>3. ~broken' => InStep'
    BY <1>2 DEF Inv2, InStep, Success
  <1>4. broken' => Stopped'
    BY <1>2 DEF Inv2, Stopped, Useless
  <1>5. QED
    BY <1>1, <1>3, <1>4 DEF Inv2

\* Write's critical section.
LEMMA EnqueueOrder ==
    ASSUME Inv1, Inv2, NEW t \in Threads, Enqueue(t) PROVE Inv2'
  <1> DEFINE n == size[t]
             b == Block(n)
  <1>1. /\ n \in 1..BUFFER_SIZE /\ accepted + n <= MaxBytes /\ accepted' = accepted + n
        /\ accepted \in Nat /\ queue \in Seq(Bytes) /\ Ordered(queue, accepted)
        /\ pc \in [Threads -> Labels]
        /\ UNCHANGED <<sent, done, wire, broken, size, ok>>
    BY ConstantsOK DEF Inv1, Inv2, SizeChecked, Enqueue, TypeOK
  <1>2. /\ b \in Bytes /\ Len(b) = n /\ Len(b) \in 1..BUFFER_SIZE
        /\ Consecutive(b) /\ b[1] = accepted + 1
    BY <1>1, BlockContinues DEF Inv1
  <1>3. Len(queue) \in Nat /\ n > 0 /\ n \in Nat
    BY <1>1, LenProperties, ConstantsOK
  <1> HIDE DEF b
  <1>4. CASE PutFirst(t, n)
    <2>1. queue = <<>> /\ queue' = <<b>> /\ pc' = [pc EXCEPT ![t] = "addref"]
      BY <1>4 DEF PutFirst, Goto, b
    <2>2. sent = <<>> /\ done = <<>> /\ \A s \in Threads : pc[s] \notin {"addref", "send", "callback"}
      BY <2>1 DEF Inv1, HeadThere, Driver
    <2>3. Ordered(queue', accepted')
      BY <1>1, <1>2, <2>1, OrderedFirst
    <2>4. Len(queue) = 0 /\ Len(done') = 0
      BY <1>1, <2>1, <2>2, EmptySeq
    <2>5. ~broken /\ Len(wire) = accepted
      BY <2>4 DEF Inv2, InStep, Stopped
    <2>6. Len(queue') = 1 /\ queue'[1] = b
      BY <2>1
    <2>7. \A s \in Threads : pc'[s] # "callback"
      BY <1>1, <2>1, <2>2
    <2>8. InStep'
      BY <1>1, <1>2, <2>4, <2>5, <2>6, <2>7 DEF InStep
    <2>9. QED
      BY <1>1, <2>2, <2>3, <2>5, <2>8 DEF Inv2, SendsFirst
  <1>5. ASSUME Copy(t, n) \/ Link(t, n)
        PROVE  /\ \A s \in Threads : pc'[s] \in {"addref", "send"} => pc[s] \in {"addref", "send"}
               /\ \A s \in Threads : pc'[s] = "callback" => pc[s] = "callback"
    BY <1>1, <1>5 DEF Copy, Link, Goto
  <1>6. CASE Copy(t, n)
    <2>1. /\ Len(queue) > 1 /\ Len(Last(queue)) + n <= BUFFER_SIZE
          /\ queue' = [queue EXCEPT ![Len(queue)] = @ \o Block(n)]
      BY <1>6 DEF Copy, MayCopy
    <2>2. queue # <<>> /\ Len(queue) > 0
      BY <1>3, <2>1, EmptySeq
    <2>3. /\ queue' \in Seq(Bytes) /\ Len(queue') = Len(queue)
          /\ \A k \in 1..(Len(queue) - 1) : queue'[k] = queue[k]
          /\ queue'[Len(queue)] = Last(queue) \o b
      BY <1>1, <1>3, <2>1, <2>2, CopyType DEF Inv1, b
    <2>4. /\ Len(queue[Len(queue)]) + Len(b) <= BUFFER_SIZE
          /\ queue'[Len(queue)] = queue[Len(queue)] \o b
      BY <1>2, <2>1, <2>3 DEF Last
    <2>5. Ordered(queue', accepted + Len(b))
      BY <1>1, <1>2, <1>3, <2>2, <2>3, <2>4, OrderedCopy
    <2>6. 1 \in 1..(Len(queue) - 1)
      BY <1>3, <2>1
    <2>7. queue'[1] = queue[1] /\ Len(queue') > 0
      BY <2>2, <2>3, <2>6
    <2>8. Ordered(queue', accepted')
      BY <1>1, <1>2, <2>5
    <2>9. ~(Len(queue') = 0)
      BY <1>3, <2>2, <2>3
    <2>10. QED
      BY <1>1, <1>5, <1>6, <2>7, <2>8, <2>9, QuietStep
  <1>7. CASE Link(t, n)
    <2>1. queue # <<>> /\ queue' = Append(queue, b)
      BY <1>7 DEF Link, b
    <2>2. Len(queue) > 0
      BY <1>1, <1>3, <2>1, EmptySeq
    <2>3. Ordered(queue', accepted')
      BY <1>1, <1>2, <2>1, OrderedAppend
    <2>4. Len(queue') = Len(queue) + 1 /\ \A k \in 1..Len(queue) : queue'[k] = queue[k]
      BY <1>1, <1>2, <2>1, AppendProperties
    <2>5. 1 \in 1..Len(queue)
      BY <1>3, <2>2
    <2>6. queue'[1] = queue[1] /\ Len(queue') > 0 /\ ~(Len(queue') = 0)
      BY <1>3, <2>4, <2>5
    <2>7. QED
      BY <1>1, <1>5, <1>7, <2>3, <2>6, QuietStep
  <1>8. QED
    BY <1>4, <1>6, <1>7 DEF Enqueue

\* WSASend of the first buffer, or its refusal.
LEMMA SendFirstOrder ==
    ASSUME Inv1, Inv2, NEW t \in Threads, SendFirst(t) PROVE Inv2'
  <1>1. /\ pc[t] = "send" /\ pc \in [Threads -> Labels]
        /\ UNCHANGED <<queue, done, wire, accepted, size, ok>>
    BY DEF SendFirst, Inv1, TypeOK
  <1>2. /\ sent = <<>> /\ done = <<>> /\ queue # <<>>
        /\ \A s \in Threads : pc[s] \in {"addref", "send", "callback"} => s = t
    BY <1>1 DEF Inv1, OneSend, HeadThere, Driver
  <1>3. Waiting /\ ~broken
    BY <1>1 DEF Inv2, Stopped, Waiting
  <1>4. /\ pc' = [pc EXCEPT ![t] = pc'[t]] /\ pc'[t] \in {"idle", "free", "refused"}
    BY <1>1 DEF SendFirst, AfterSend, Goto
  <1>5. \A s \in Threads : pc'[s] \notin {"addref", "send", "callback"}
    BY <1>1, <1>2, <1>4
  <1>6. Ordered(queue', accepted')
    BY <1>1 DEF Inv2
  <1>7. Len(queue) > 0 /\ Len(done) = 0
    BY <1>2, Lengths DEF Inv1
  <1>8. CASE sent' = Append(sent, Head(queue)) /\ broken' = broken
    <2>1. Head(queue) = queue[1] /\ Head(queue) \in Bytes
      BY <1>2, HeadTailProperties DEF Inv1, TypeOK
    <2>2. sent' = <<queue[1]>>
      BY <1>2, <1>8, <2>1
    <2>3. SendsFirst'
      BY <1>1, <2>2 DEF SendsFirst
    <2>4. InStep /\ ~broken'
      BY <1>3, <1>8 DEF Inv2
    <2>5. InStep'
      BY <1>1, <1>3, <1>5, <1>7, <2>4 DEF InStep
    <2>6. QED
      BY <1>6, <2>3, <2>4, <2>5 DEF Inv2
  <1>9. CASE sent' = sent /\ broken' = TRUE
    <2>1. ~Waiting'
      BY <1>2, <1>5, <1>9 DEF Waiting
    <2>2. Stopped'
      BY <1>1, <1>5, <1>7, <2>1 DEF Stopped
    <2>3. QED
      BY <1>2, <1>6, <1>9, <2>2 DEF Inv2, SendsFirst
  <1>10. QED
    BY <1>8, <1>9 DEF SendFirst

\* A worker takes a completion packet.
LEMMA DequeueOrder ==
    ASSUME Inv1, Inv2, NEW t \in Workers, Dequeue(t) PROVE Inv2'
  <1>1. /\ pc \in [Threads -> Labels] /\ size \in [Threads -> Nat] /\ ok \in [Threads -> BOOLEAN]
        /\ t \in Threads /\ done # <<>>
        /\ UNCHANGED <<queue, accepted, sent, wire, broken>>
    BY DEF Dequeue, Inv1, TypeOK, Threads, history
  <1>2. /\ \A s \in Threads : s # t => pc'[s] = pc[s] /\ size'[s] = size[s] /\ ok'[s] = ok[s]
        /\ pc'[t] = "callback" /\ size'[t] = Head(done).n /\ ok'[t] = Head(done).ok
        /\ done' = Tail(done)
    BY <1>1 DEF Dequeue, Goto
  <1>3. Len(done) \in Nat /\ Len(done) > 0 /\ Len(done) < 2 /\ Len(done') = Len(done) - 1
    BY <1>1, <1>2, Alone, HeadTailProperties, Lengths DEF Inv1, TypeOK
  <1>4. Head(done) = done[1] /\ 1 \in 1..Len(done)
    BY <1>3
  <1>5. Len(done') = 0
    BY <1>3
  <1>6. Waiting' => Waiting
    BY <1>1, <1>2 DEF Waiting
  <1>7. Ordered(queue', accepted') /\ SendsFirst'
    BY <1>1 DEF Inv2, SendsFirst
  <1>8. ASSUME ~broken' PROVE InStep'
    <2>1. InStep
      BY <1>1, <1>8 DEF Inv2
    <2>2. \A s \in Threads : pc'[s] = "callback" => Success(ok[s], size[s])'
      BY <1>1, <1>2, <1>4, <2>1 DEF InStep, Success
    <2>3. \A k \in 1..Len(done') : Success(done[k].ok, done[k].n)'
      BY <1>5
    <2>4. QED
      BY <1>1, <1>6, <2>1, <2>2, <2>3 DEF InStep
  <1>9. ASSUME broken' PROVE Stopped'
    <2>1. Stopped
      BY <1>1, <1>9 DEF Inv2
    <2>2. \A s \in Threads : pc'[s] = "callback" => Useless(ok[s], size[s])'
      BY <1>1, <1>2, <1>4, <2>1 DEF Stopped, Useless
    <2>3. \A k \in 1..Len(done') : Useless(done[k].ok, done[k].n)'
      BY <1>5
    <2>4. QED
      BY <1>1, <1>6, <2>1, <2>2, <2>3 DEF Stopped
  <1>10. QED
    BY <1>7, <1>8, <1>9 DEF Inv2

\* A worker unlinks the first buffer, or leaves it in the queue.
LEMMA WriteCallbackOrder ==
    ASSUME Inv1, Inv2, NEW t \in Threads, WriteCallback(t) PROVE Inv2'
  <1>1. /\ pc \in [Threads -> Labels] /\ pc[t] = "callback" /\ ok[t]
        /\ queue \in Seq(Bytes) /\ accepted \in Nat /\ Ordered(queue, accepted)
        /\ UNCHANGED <<accepted, sent, done, wire, broken, size, ok>>
    BY ConstantsOK DEF WriteCallback, Inv1, Inv2, TypeOK, history
  <1>2. /\ sent = <<>> /\ done = <<>> /\ queue # <<>>
        /\ \A s \in Threads : pc[s] \in {"addref", "send", "callback"} => s = t
    BY <1>1 DEF Inv1, OneSend, HeadThere, Driver
  <1>3. Len(queue) > 0 /\ Len(queue) \in Nat /\ Head(queue) = queue[1]
    BY <1>2, Lengths DEF Inv1
  <1>4. CASE ~AllSent(t)
    <2>1. queue' = queue /\ pc' = [pc EXCEPT ![t] = "release"]
      BY <1>1, <1>4 DEF WriteCallback, Goto
    <2>2. \A s \in Threads : pc'[s] = pc[s] \/ pc'[s] = "release"
      BY <1>1, <2>1
    <2>3. QED
      BY <1>1, <2>1, <2>2, QuietStep
  <1>5. CASE AllSent(t)
    <2>1. queue' = Tail(queue) /\ pc' = [pc EXCEPT ![t] = AfterUnlink]
      BY <1>1, <1>5 DEF WriteCallback, Goto
    <2>2. ~broken
      BY <1>1, <1>3, <1>5 DEF Inv2, Stopped, Useless, AllSent
    <2>3. queue[1][1] + Len(queue[1]) - 1 = Len(wire)
      BY <1>1, <2>2 DEF Inv2, InStep, Success
    <2>4. Ordered(queue', accepted')
      BY <1>1, <1>2, <2>1, OrderedTail
    <2>5. /\ Len(queue') = Len(queue) - 1 /\ Len(queue') \in Nat
          /\ \A k \in 1..Len(queue') : queue'[k] = queue[k+1]
      BY <1>1, <1>2, <2>1, HeadTailProperties, LenProperties
    <2>6. queue[1][1] \in Nat /\ Len(queue[1]) \in Nat
      BY <1>1, <1>3, FirstBuffer DEF Inv1
    <2>7. ASSUME Len(queue') = 0 PROVE Len(wire) = accepted
      <3>1. Len(queue) = 1
        BY <1>3, <2>5, <2>7
      <3>2. accepted = queue[Len(queue)][1] + Len(queue[Len(queue)]) - 1
        BY <1>1, <1>3 DEF Ordered
      <3>3. QED
        BY <2>3, <3>1, <3>2
    <2>8. ASSUME Waiting' PROVE queue'[1][1] = Len(wire) + 1
      <3>1. pc'[t] = "addref"
        BY <1>1, <1>2, <2>1, <2>8 DEF Waiting, AfterUnlink
      <3>2. queue' # <<>>
        BY <1>1, <2>1, <3>1 DEF AfterUnlink
      <3>3. Len(queue') > 0
        <4>1. queue' \in Seq(Bytes)
          BY <1>1, <1>2, <2>1, HeadTailProperties
        <4>2. QED
          BY <3>2, <4>1, EmptySeq
      <3>4. 1 \in 1..Len(queue') /\ 1 \in 1..(Len(queue) - 1)
        BY <1>3, <2>5, <3>3
      <3>5. queue'[1] = queue[1+1] /\ queue[1+1][1] = queue[1][1] + Len(queue[1])
        BY <1>1, <2>5, <3>4 DEF Ordered
      <3>6. QED
        BY <2>3, <2>6, <3>5
    <2>9. (\A s \in Threads : pc'[s] # "callback") /\ Len(done) = 0
      BY <1>1, <1>2, <2>1, Lengths, EmptySeq DEF AfterUnlink, Inv1
    <2>10. InStep'
      BY <1>1, <2>7, <2>8, <2>9 DEF InStep
    <2>11. QED
      BY <1>1, <1>2, <2>2, <2>4, <2>10 DEF Inv2, SendsFirst
  <1>6. QED
    BY <1>4, <1>5

-----------------------------------------------------------------------------
\* The first k bytes of the first buffer are the next k bytes of the stream.
LEMMA NextOnes ==
    ASSUME NEW b \in Bytes, Consecutive(b), b[1] = Len(wire) + 1, Len(wire) \in Nat,
           NEW k \in 0..Len(b)
    PROVE  SubSeq(b, 1, k) = Stream!NextBytes(k)
  <1>1. b \in Seq(1..MaxBytes) /\ Len(b) \in Nat /\ k \in Nat
    BY LenProperties DEF Bytes
  <1>2. \A i \in 1..k : i \in 1..Len(b)
    BY <1>1
  <1>3. \A i \in 1..k : b[i] \in 1..MaxBytes
    BY <1>1, <1>2, ElementOfSeq
  <1>4. /\ SubSeq(b, 1, k) \in Seq(1..MaxBytes) /\ Len(SubSeq(b, 1, k)) = k
        /\ \A i \in 1..k : SubSeq(b, 1, k)[i] = b[i]
    BY <1>1, <1>3, SubSeqProperties
  <1>5. \A i \in 1..k : b[i] = Len(wire) + i
    BY <1>1, <1>2 DEF Consecutive
  <1>6. SubSeq(b, 1, k) = [i \in 1..k |-> Len(wire) + i]
    <2>1. SubSeq(b, 1, k) \in [1..k -> 1..MaxBytes]
      BY <1>4, LenProperties
    <2>2. QED
      BY <1>4, <1>5, <2>1
  <1>7. QED
    BY <1>6 DEF Stream!NextBytes

\* What a completion is, before anything of it is used.
LEMMA CompleteFacts ==
    ASSUME Inv1, Inv2, Complete
    PROVE  /\ ~broken /\ sent' = <<>> /\ Len(done) = 0 /\ Len(queue) > 0
           /\ \A t \in Threads : pc[t] \notin {"addref", "send", "callback"}
           /\ Head(sent) = queue[1] /\ queue[1][1] = Len(wire) + 1
           /\ UNCHANGED <<queue, accepted, pc, size, ok>>
  <1>1. sent # <<>> /\ sent' = Tail(sent) /\ UNCHANGED <<queue, accepted, pc, size, ok>>
    BY DEF Complete, local
  <1>2. Waiting /\ ~broken
    BY <1>1 DEF Waiting, Inv2, Stopped
  <1>3. queue[1][1] = Len(wire) + 1 /\ sent[1] = queue[1]
    BY <1>1, <1>2 DEF Inv2, InStep, SendsFirst
  <1>4. Len(sent) > 0 /\ Len(sent) < 2 /\ done = <<>> /\ Len(sent) \in Nat
    BY <1>1, Alone, Lengths DEF Inv1
  <1>5. queue # <<>> /\ \A t \in Threads : pc[t] \notin {"addref", "send", "callback"}
    BY <1>1 DEF Inv1, OneSend, HeadThere, Driver
  <1>6. Len(queue) > 0 /\ Len(done) = 0
    BY <1>4, <1>5, Lengths, EmptySeq DEF Inv1
  <1>7. sent' = <<>>
    <2>1. Len(sent') = Len(sent) - 1 /\ sent' \in Seq(Bytes)
      BY <1>1, HeadTailProperties DEF Inv1, TypeOK
    <2>2. ~(Len(sent') > 0)
      BY <1>4, <2>1
    <2>3. QED
      BY <2>1, <2>2, EmptySeq
  <1>8. Head(sent) = sent[1]
    BY <1>4
  <1>9. QED
    BY <1>1, <1>2, <1>3, <1>5, <1>6, <1>7, <1>8

\* The system completes the send.
LEMMA CompleteOrder ==
    ASSUME Inv1, Inv2, Complete PROVE Inv2'
  <1> DEFINE h == queue[1]
  <1>1. /\ ~broken /\ sent' = <<>> /\ Len(done) = 0 /\ Len(queue) > 0
        /\ \A t \in Threads : pc[t] \notin {"addref", "send", "callback"}
        /\ Head(sent) = h /\ h[1] = Len(wire) + 1
        /\ UNCHANGED <<queue, accepted, pc, size, ok>>
    BY CompleteFacts
  <1>2. /\ h \in Bytes /\ Len(h) \in Nat /\ Len(h) > 0 /\ Len(wire) \in Nat
        /\ h[1] + Len(h) - 1 <= accepted
    BY <1>1, FirstBuffer DEF Inv1, Inv2
  <1>3. Ordered(queue', accepted') /\ SendsFirst' /\ ~Waiting'
    BY <1>1 DEF Inv2, SendsFirst, Waiting
  <1>4. ASSUME NEW r \in [ok : BOOLEAN, n : Nat], done' = Append(done, r)
        PROVE  Len(done') = 1 /\ done'[1] = r
    <2>1. done \in Seq([ok : BOOLEAN, n : Nat])
      BY DEF Inv1, TypeOK
    <2>2. QED
      BY <1>1, <1>4, <2>1, AppendProperties
  <1>5. ASSUME wire' = wire \o h, done' = Append(done, [ok |-> TRUE, n |-> Len(h)]),
               broken' = broken
        PROVE  Inv2'
    <2>1. Len(done') = 1 /\ done'[1] = [ok |-> TRUE, n |-> Len(h)]
      BY <1>2, <1>4, <1>5
    <2>2. Len(wire') = Len(wire) + Len(h)
      BY <1>2, <1>5, ConcatProperties DEF Inv1, TypeOK, Bytes
    <2>3. Len(wire') = h[1] + Len(h) - 1
      <3>1. h[1] = Len(wire) + 1
        BY <1>1
      <3>2. Len(h) \in Nat /\ Len(wire) \in Nat
        BY <1>2
      <3>3. \A x, y \in Nat : x + y = (x + 1) + y - 1
        OBVIOUS
      <3>4. QED
        BY <2>2, <3>1, <3>2, <3>3
    <2>4. \A k \in 1..Len(done') : done'[k].ok /\ done'[k].n = Len(h)
      BY <2>1
    <2>5. \A k \in 1..Len(done') : Success(done[k].ok, done[k].n)'
      <3>1. queue'[1] = h
        BY <1>1
      <3>2. SUFFICES ASSUME NEW k \in 1..Len(done') PROVE Success(done[k].ok, done[k].n)'
        OBVIOUS
      <3>3. done'[k].ok /\ done'[k].n = Len(h)
        BY <2>4
      <3>4. QED
        BY <2>3, <3>1, <3>3 DEF Success
    <2>6. InStep'
      BY <1>1, <1>3, <2>5 DEF InStep
    <2>7. QED
      BY <1>1, <1>3, <1>5, <2>6 DEF Inv2
  <1>6. ASSUME NEW r \in [ok : BOOLEAN, n : Nat], done' = Append(done, r), broken' = TRUE,
               r.ok => r.n # Len(h)
        PROVE  Inv2'
    <2>1. Len(done') = 1 /\ done'[1] = r
      BY <1>4, <1>6
    <2>2. \A k \in 1..Len(done') : Useless(done[k].ok, done[k].n)'
      BY <1>1, <1>6, <2>1 DEF Useless
    <2>3. Stopped'
      BY <1>1, <1>3, <2>2 DEF Stopped
    <2>4. QED
      BY <1>3, <1>6, <2>3 DEF Inv2
  <1>7. \/ /\ wire' = wire \o h /\ broken' = broken
           /\ done' = Append(done, [ok |-> TRUE, n |-> Len(h)])
        \/ done' = Append(done, [ok |-> FALSE, n |-> 0]) /\ broken' = TRUE
        \/ \E k \in 0..(Len(h) - 1) : done' = Append(done, [ok |-> TRUE, n |-> k]) /\ broken' = TRUE
    BY <1>1 DEF Complete
  <1>8. \A k \in 0..(Len(h) - 1) : [ok |-> TRUE, n |-> k] \in [ok : BOOLEAN, n : Nat] /\ k # Len(h)
    BY <1>2
  <1>9. [ok |-> FALSE, n |-> 0] \in [ok : BOOLEAN, n : Nat]
    OBVIOUS
  <1>10. ASSUME NEW k \in 0..(Len(h) - 1), done' = Append(done, [ok |-> TRUE, n |-> k]), broken' = TRUE
         PROVE  Inv2'
    BY <1>6, <1>8, <1>10
  <1>11. ASSUME done' = Append(done, [ok |-> FALSE, n |-> 0]), broken' = TRUE PROVE Inv2'
    BY <1>6, <1>9, <1>11
  <1>12. QED
    BY <1>5, <1>7, <1>10, <1>11

-----------------------------------------------------------------------------
LEMMA Inv2Step == ASSUME Inv1, Inv2, [Next]_vars PROVE Inv2'
  <1>a. pc \in [Threads -> Labels] /\ Workers \subseteq Threads /\ Writers \subseteq Threads
    BY DEF Inv1, TypeOK, Threads
  <1>b. Ordered(queue, accepted)
    BY DEF Inv2
  <1> USE DEF Goto, history, local
  <1>1. ASSUME NEW t \in Writers, NEW n \in 0..MaxMessage, Write(t, n) PROVE Inv2'
    <2>1. UNCHANGED <<queue, accepted, sent, done, wire, broken, ok>>
      BY <1>1 DEF Write
    <2>2. /\ \A s \in Threads : s # t => pc'[s] = pc[s] /\ size'[s] = size[s]
          /\ pc'[t] \in {"free", "enter"}
      BY <1>1, <1>a DEF Write, AfterSizeCheck, Inv1, TypeOK
    <2>3. QED
      BY <1>b, <2>1, <2>2, QuietStep
  <1>2. ASSUME NEW t \in Threads, AddRef(t) \/ Refused(t) \/ WriteFailed(t) \/ Free(t) \/ Release(t)
        PROVE  Inv2'
    <2>1. UNCHANGED <<queue, accepted, sent, done, wire, broken, ok, size>>
      BY <1>2 DEF AddRef, Refused, WriteFailed, Free, Release
    <2>2. \A s \in Threads : \/ pc'[s] = pc[s]
                             \/ pc'[s] \in {"refused", "free", "release", "idle"}
                             \/ pc[s] = "addref" /\ pc'[s] = "send"
      BY <1>2, <1>a DEF AddRef, Refused, WriteFailed, Free, Release, AfterSend
    <2>3. QED
      BY <1>b, <2>1, <2>2, QuietStep
  <1>3. CASE Close \/ UNCHANGED vars
    <2>1. UNCHANGED <<queue, accepted, sent, done, wire, broken, ok, size, pc>>
      BY <1>3 DEF Close, vars
    <2>2. QED
      BY <1>b, <2>1, QuietStep
  <1>4. QED
    BY <1>1, <1>2, <1>3, EnqueueOrder, SendFirstOrder, DequeueOrder, WriteCallbackOrder, CompleteOrder
       DEF Next, Step

LEMMA Inv2Holds == Spec => [](Inv1 /\ Inv2)
  <1>1. Inv1 /\ Inv2 /\ [Next]_vars => Inv1' /\ Inv2'
    BY TypeStep, ControlStep, Inv2Step DEF Inv1
  <1>2. Init => Inv1 /\ Inv2
    BY Inv1Init, Inv2Init
  <1>3. QED
    BY <1>1, <1>2, PTL DEF Spec

\* What is in the list, and in the hands of the system, is in order: Inv2 has
\* BuffersInOrder as a part.
LEMMA InOrder == Inv1 /\ Inv2 => BuffersInOrder
  <1> SUFFICES ASSUME Inv1, Inv2 PROVE BuffersInOrder
    OBVIOUS
  <1>1. Ordered(queue, accepted) /\ SendsFirst
    BY DEF Inv2
  <1>2. /\ Len(queue) \in Nat /\ (queue # <<>> <=> Len(queue) > 0)
        /\ Len(sent) \in Nat /\ (sent # <<>> <=> Len(sent) > 0)
    BY Lengths DEF Inv1
  <1>3. \A k \in 1..Len(queue) : Len(queue[k]) \in 1..BUFFER_SIZE /\ Consecutive(queue[k])
    BY <1>1 DEF Ordered
  <1>4. \A k \in 1..(Len(queue) - 1) : queue[k+1][1] = queue[k][1] + Len(queue[k])
    BY <1>1 DEF Ordered
  <1>5. queue # <<>> => accepted = Last(queue)[1] + Len(Last(queue)) - 1
    BY <1>1, <1>2 DEF Ordered, Last
  <1>6. sent # <<>> => queue # <<>> /\ Head(sent) = Head(queue)
    <2>1. SUFFICES ASSUME sent # <<>> PROVE queue # <<>> /\ Head(sent) = Head(queue)
      OBVIOUS
    <2>2. queue # <<>> /\ sent[1] = queue[1]
      BY <1>1, <2>1 DEF Inv1, HeadThere, SendsFirst
    <2>3. QED
      BY <2>2
  <1>7. QED
    BY <1>3, <1>4, <1>5, <1>6 DEF BuffersInOrder

\* However the callers link and merge them, the buffers of the list follow each
\* other in the stream, and the buffer the system reads is the first of them,
\* unchanged (BGIOSocket.cpp 153-165).
THEOREM QueueInOrder == Spec => []BuffersInOrder
  BY Inv2Holds, InOrder, PTL

-----------------------------------------------------------------------------
\* A step of the send side is a step of the byte stream, or changes none of it.
LEMMA StreamStep ==
    ASSUME Inv1, Inv2, [Next]_vars PROVE [Stream!Next]_(Stream!vars)
  <1> USE DEF Goto, history, local
  <1>a. accepted \in Nat
    BY ConstantsOK DEF Inv1, TypeOK
  <1>1. ASSUME NEW t \in Threads, Enqueue(t) PROVE Stream!Accept
    <2>1. size[t] \in 1..BUFFER_SIZE /\ accepted' = accepted + size[t]
      BY <1>1 DEF Enqueue, Inv1, SizeChecked
    <2>2. accepted' \in Nat /\ accepted' > accepted
      BY <1>a, <2>1, ConstantsOK
    <2>3. QED
      BY <1>1, <2>2 DEF Enqueue, Stream!Accept
  <1>2. ASSUME NEW t \in Threads, SendFirst(t) PROVE Stream!Break \/ UNCHANGED Stream!vars
    <2>1. ~broken
      BY <1>2 DEF SendFirst, Inv2, Stopped, Waiting
    <2>2. QED
      BY <1>2, <2>1, Zenon DEF SendFirst, Stream!Break, Stream!vars
  <1>3. CASE Complete
    <2> DEFINE h == queue[1]
    <2>1. /\ ~broken /\ Len(queue) > 0 /\ Head(sent) = h /\ h[1] = Len(wire) + 1
          /\ UNCHANGED accepted
      BY <1>3, CompleteFacts
    <2>2. /\ h \in Bytes /\ Consecutive(h) /\ Len(h) \in Nat /\ Len(h) > 0 /\ Len(wire) \in Nat
          /\ h[1] + Len(h) - 1 <= accepted
      BY <2>1, FirstBuffer DEF Inv1, Inv2
    <2> HIDE DEF h
    <2>3. Len(h) <= accepted - Len(wire)
      BY <1>a, <2>1, <2>2
    <2>4. ASSUME NEW k \in 0..Len(h), wire' = wire \o SubSeq(h, 1, k)
          PROVE  Stream!Extend \/ wire' = wire
      <3>1. CASE k = 0
        <4>1. SubSeq(h, 1, k) = <<>>
          BY <3>1, SubSeqEmpty
        <4>2. wire' = wire
          BY <2>4, <4>1, ConcatEmptySeq DEF Inv1, TypeOK, Bytes
        <4>3. QED
          BY <4>2
      <3>2. CASE k # 0
        <4>1. k \in 1..(accepted - Len(wire))
          BY <1>a, <2>2, <2>3, <3>2
        <4>2. wire' = wire \o Stream!NextBytes(k)
          BY <2>1, <2>2, <2>4, NextOnes
        <4>3. QED
          BY <4>1, <4>2 DEF Stream!Extend
      <3>3. QED
        BY <3>1, <3>2
    <2>5. CASE wire' = wire \o h /\ broken' = broken
      <3>1. Len(h) \in 0..Len(h) /\ SubSeq(h, 1, Len(h)) = h
        BY <2>2, SubSeqFull DEF Bytes
      <3>2. h = Stream!NextBytes(Len(h))
        BY <2>1, <2>2, <3>1, NextOnes
      <3>3. Len(h) \in 1..(accepted - Len(wire)) /\ wire' = wire \o Stream!NextBytes(Len(h))
        BY <1>a, <2>2, <2>3, <2>5, <3>2
      <3>4. Stream!Extend
        BY <3>3 DEF Stream!Extend
      <3>5. QED
        BY <2>1, <2>5, <3>4 DEF Stream!Deliver, Stream!Next
    <2>6. CASE broken' = TRUE /\ \E k \in 0..Len(h) : wire' = wire \o SubSeq(h, 1, k)
      <3>1. Stream!Extend \/ wire' = wire
        BY <2>4, <2>6
      <3>2. QED
        BY <2>1, <2>6, <3>1 DEF Stream!Break, Stream!Next
    <2>7. 0..(Len(h) - 1) \subseteq 0..Len(h)
      BY <2>2
    <2>8. QED
      BY <1>3, <2>1, <2>5, <2>6, <2>7 DEF Complete
  <1>4. ASSUME \/ \E t \in Writers, n \in 0..MaxMessage : Write(t, n)
               \/ \E t \in Workers : Dequeue(t)
               \/ \E t \in Threads : \/ AddRef(t) \/ Refused(t) \/ WriteFailed(t)
                                     \/ WriteCallback(t) \/ Free(t) \/ Release(t)
               \/ Close \/ UNCHANGED vars
        PROVE  UNCHANGED <<accepted, wire, broken>>
    BY <1>4 DEF Write, Dequeue, AddRef, Refused, WriteFailed, WriteCallback, Free, Release, Close, vars
  <1>5. QED
    BY <1>1, <1>2, <1>3, <1>4 DEF Next, Step, Stream!Next, Stream!vars

\* The send side implements the byte stream: the socket takes the accepted bytes
\* in their order, none lost and none twice, until the first send that fails
\* (BGIOSocket::Write and WriteCallback, BGIOSocket.cpp 120-197, 210-244).
THEOREM ImplementsStream == Spec => StreamSafe
  <1>1. Init => Stream!Init
    BY DEF Init, Stream!Init
  <1>2. Inv1 /\ Inv2 /\ [Next]_vars => [Stream!Next]_(Stream!vars)
    BY StreamStep
  <1>3. QED
    BY <1>1, <1>2, Inv2Holds, PTL DEF Spec, StreamSafe, Stream!Spec

-----------------------------------------------------------------------------
\* The books.

\* Who is counted where.  A caller of Write is never in a callback, and a worker
\* not at the lock of Write: a worker that calls Write is a caller there.
InPosting(l) == l \in {"send", "refused"}
InCompleting(t, l) == t \in Workers /\ l \notin {"idle", "enter"}
InFreeing(t, l) == IF t \in Workers THEN l \in {"addref", "send", "refused", "free"}
                                    ELSE l \in {"enter", "free"}
Roles == \A t \in Threads : IF t \in Workers THEN pc[t] # "enter"
                                             ELSE pc[t] \notin {"callback", "release"}

\* m_nPendingWrite is what is between the first byte of q and byte a.
Outstanding(q, a) == IF q = <<>> THEN 0 ELSE 1 + a - Head(Head(q))

References == m_nRef = 1 + (IF open THEN 1 ELSE 0) + Cardinality(Posting)
                         + Cardinality(Completing) + Len(sent) + Len(done) + lost
Buffers == buffers = Len(queue) + Cardinality(Freeing)

Inv3 == Roles /\ pending = Outstanding(queue, accepted) /\ References /\ Buffers

One(b) == IF b THEN 1 ELSE 0

LEMMA Sizes == \A S \in SUBSET Threads : IsFiniteSet(S) /\ Cardinality(S) \in Nat
  BY ThreadsFinite, FS_Subset, FS_CardinalityType

\* A set of threads in which only t comes or goes.
LEMMA Resized ==
    ASSUME NEW S \in SUBSET Threads, NEW R \in SUBSET Threads, NEW t \in Threads,
           \A s \in Threads : s # t => (s \in R <=> s \in S)
    PROVE  Cardinality(R) = Cardinality(S) + One(t \in R) - One(t \in S)
  <1>1. Cardinality(S) \in Nat /\ IsFiniteSet(S)
    BY Sizes
  <1>2. CASE t \in S /\ t \in R
    <2>1. R = S
      BY <1>2
    <2>2. QED
      BY <1>1, <1>2, <2>1 DEF One
  <1>3. CASE t \notin S /\ t \notin R
    <2>1. R = S
      BY <1>3
    <2>2. QED
      BY <1>1, <1>3, <2>1 DEF One
  <1>4. CASE t \notin S /\ t \in R
    <2>1. R = S \union {t}
      BY <1>4
    <2>2. Cardinality(R) = Cardinality(S) + 1
      BY <1>1, <1>4, <2>1, FS_AddElement
    <2>3. QED
      BY <1>1, <1>4, <2>2 DEF One
  <1>5. CASE t \in S /\ t \notin R
    <2>1. R = S \ {t}
      BY <1>5
    <2>2. Cardinality(R) = Cardinality(S) - 1
      BY <1>1, <1>5, <2>1, FS_RemoveElement
    <2>3. QED
      BY <1>1, <1>5, <2>2 DEF One
  <1>6. QED
    BY <1>2, <1>3, <1>4, <1>5

\* What a step of thread t to l changes in the three counts.
LEMMA Moved ==
    ASSUME TypeOK, Roles, NEW t \in Threads, NEW l \in Labels, pc' = [pc EXCEPT ![t] = l],
           t \in Workers => l # "enter", t \notin Workers => l \notin {"callback", "release"}
    PROVE  /\ Roles'
           /\ Cardinality(Posting)' = Cardinality(Posting) + One(InPosting(l)) - One(InPosting(pc[t]))
           /\ Cardinality(Completing)' =
                  Cardinality(Completing) + One(InCompleting(t, l)) - One(InCompleting(t, pc[t]))
           /\ Cardinality(Freeing)' =
                  Cardinality(Freeing) + One(InFreeing(t, l)) - One(InFreeing(t, pc[t]))
  <1>1. /\ pc'[t] = l /\ \A s \in Threads : s # t => pc'[s] = pc[s]
        /\ Writers \subseteq Threads /\ Workers \subseteq Threads
        /\ \A s \in Threads : s \in Writers <=> s \notin Workers
    BY ConstantsOK DEF TypeOK, Threads
  <1>2. Roles'
    BY <1>1 DEF Roles
  <1>3. Posting \in SUBSET Threads /\ Completing \in SUBSET Threads /\ Freeing \in SUBSET Threads
    BY <1>1 DEF Posting, Completing, Freeing
  <1>4. Posting' \in SUBSET Threads /\ Completing' \in SUBSET Threads /\ Freeing' \in SUBSET Threads
    BY <1>1 DEF Posting, Completing, Freeing
  <1>5. \A s \in Threads : s # t => /\ s \in Posting' <=> s \in Posting
                                    /\ s \in Completing' <=> s \in Completing
                                    /\ s \in Freeing' <=> s \in Freeing
    BY <1>1 DEF Posting, Completing, Freeing
  <1>6. /\ t \in Posting' <=> InPosting(l)
        /\ t \in Completing' <=> InCompleting(t, l)
        /\ t \in Freeing' <=> InFreeing(t, l)
    BY <1>1 DEF Posting, Completing, Freeing, InPosting, InCompleting, InFreeing
  <1>7. /\ t \in Posting <=> InPosting(pc[t])
        /\ t \in Completing <=> InCompleting(t, pc[t])
        /\ t \in Freeing <=> InFreeing(t, pc[t])
    BY <1>1 DEF Posting, Completing, Freeing, InPosting, InCompleting, InFreeing
  <1>8. Cardinality(Posting') = Cardinality(Posting) + One(t \in Posting') - One(t \in Posting)
    BY <1>3, <1>4, <1>5, Resized
  <1>9. Cardinality(Completing') =
            Cardinality(Completing) + One(t \in Completing') - One(t \in Completing)
    BY <1>3, <1>4, <1>5, Resized
  <1>10. Cardinality(Freeing') = Cardinality(Freeing) + One(t \in Freeing') - One(t \in Freeing)
    BY <1>3, <1>4, <1>5, Resized
  <1>11. QED
    BY <1>2, <1>6, <1>7, <1>8, <1>9, <1>10 DEF One

LEMMA Numbers ==
    ASSUME TypeOK
    PROVE  /\ Cardinality(Posting) \in Nat /\ Cardinality(Completing) \in Nat
           /\ Cardinality(Freeing) \in Nat
           /\ Len(queue) \in Nat /\ Len(sent) \in Nat /\ Len(done) \in Nat
           /\ m_nRef \in Int /\ lost \in Nat /\ buffers \in Int /\ open \in BOOLEAN
  <1>1. Posting \in SUBSET Threads /\ Completing \in SUBSET Threads /\ Freeing \in SUBSET Threads
    BY DEF Posting, Completing, Freeing, Threads
  <1>2. QED
    BY <1>1, Sizes, Lengths DEF TypeOK

LEMMA Inv3Init == Init => Inv3
  <1> SUFFICES ASSUME Init PROVE Inv3
    OBVIOUS
  <1> USE DEF Init
  <1>1. Posting = {} /\ Completing = {} /\ Freeing = {}
    BY DEF Posting, Completing, Freeing, Threads
  <1>2. Cardinality({}) = 0 /\ Len(<<>>) = 0
    BY FS_EmptySet
  <1>3. References /\ Buffers
    BY <1>1, <1>2 DEF References, Buffers
  <1>4. Roles /\ pending = Outstanding(queue, accepted)
    BY DEF Roles, Outstanding
  <1>5. QED
    BY <1>3, <1>4 DEF Inv3

LEMMA NotEmpty == \A q \in Seq(Bytes) : q # <<>> <=> Len(q) > 0
  BY EmptySeq, LenProperties

\* m_nPendingWrite in the critical section of Write.
LEMMA EnqueuePending ==
    ASSUME Inv1, Inv2, pending = Outstanding(queue, accepted), NEW t \in Threads, Enqueue(t)
    PROVE  /\ pending' = Outstanding(queue', accepted')
           /\ Len(queue') = Len(queue) + (IF Copy(t, size[t]) THEN 0 ELSE 1)
  <1> DEFINE n == size[t]
             b == Block(n)
  <1>1. /\ n \in 1..BUFFER_SIZE /\ accepted + n <= MaxBytes /\ accepted' = accepted + n
        /\ accepted \in Nat /\ queue \in Seq(Bytes) /\ n \in Nat
        /\ pending' = pending + n /\ pending \in Int
    BY ConstantsOK DEF Inv1, SizeChecked, Enqueue, TypeOK
  <1>2. b \in Bytes /\ b[1] = accepted + 1 /\ Len(b) = n
    BY <1>1, BlockContinues DEF Inv1
  <1>3. Len(queue) \in Nat /\ (queue # <<>> <=> Len(queue) > 0)
    BY Lengths DEF Inv1
  <1> HIDE DEF b
  <1>4. CASE PutFirst(t, n)
    <2>1. queue = <<>> /\ queue' = <<b>>
      BY <1>4 DEF PutFirst, b
    <2>2. ~Copy(t, n)
      BY <1>3, <2>1 DEF Copy, MayCopy
    <2>3. queue' # <<>> /\ Head(queue') = b /\ Len(queue') = 1
      BY <2>1
    <2>4. Head(b) = accepted + 1
      BY <1>2
    <2>5. pending = 0 /\ Len(queue) = 0
      BY <1>3, <2>1 DEF Outstanding
    <2>6. Outstanding(queue', accepted') = 1 + (accepted + n) - (accepted + 1)
      BY <1>1, <2>3, <2>4 DEF Outstanding
    <2>7. pending' = Outstanding(queue', accepted')
      <3>1. pending' = n /\ 1 + (accepted + n) - (accepted + 1) = n
        BY <1>1, <2>5
      <3>2. QED
        BY <2>6, <3>1, Zenon
    <2>8. QED
      BY <2>2, <2>3, <2>5, <2>7
  <1>5. ASSUME queue # <<>>, queue' # <<>>, queue'[1] = queue[1]
        PROVE  pending' = Outstanding(queue', accepted')
    <2>1. Head(queue) = queue[1] /\ Head(queue') = queue[1]
      BY <1>5
    <2>2. Len(queue) > 0 /\ queue[1] \in Bytes /\ queue[1][1] \in Nat /\ Len(queue[1]) > 0
      BY <1>3, <1>5, FirstBuffer DEF Inv1, Inv2
    <2>3. Head(queue[1]) = queue[1][1]
      BY <2>2 DEF Bytes
    <2>4. pending = 1 + accepted - queue[1][1]
      BY <1>5, <2>1, <2>3 DEF Outstanding
    <2>5. Outstanding(queue', accepted') = 1 + (accepted + n) - queue[1][1]
      BY <1>1, <1>5, <2>1, <2>3 DEF Outstanding
    <2>6. pending' = 1 + (accepted + n) - queue[1][1]
      <3>1. PICK h \in Nat : h = queue[1][1]
        BY <2>2
      <3>2. pending = 1 + accepted - h
        BY <2>4, <3>1, Zenon
      <3>3. n \in Nat /\ accepted \in Nat /\ pending' = pending + n
        BY <1>1
      <3>4. pending' = 1 + (accepted + n) - h
        BY <3>2, <3>3
      <3>5. QED
        BY <3>1, <3>4, Zenon
    <2>7. QED
      BY <2>5, <2>6, Zenon
  <1>6. CASE Copy(t, n)
    <2>1. Len(queue) > 1 /\ queue' = [queue EXCEPT ![Len(queue)] = @ \o Block(n)]
      BY <1>6 DEF Copy, MayCopy
    <2>2. queue # <<>>
      BY <1>3, <2>1
    <2>3. /\ queue' \in Seq(Bytes) /\ Len(queue') = Len(queue)
          /\ \A k \in 1..(Len(queue) - 1) : queue'[k] = queue[k]
      BY <1>1, <2>1, <2>2, CopyType DEF Inv1
    <2>4. 1 \in 1..(Len(queue) - 1)
      BY <1>3, <2>1
    <2>5. queue' # <<>> /\ queue'[1] = queue[1]
      <3>1. Len(queue') > 0
        <4>1. Len(queue) > 1 /\ Len(queue') = Len(queue)
          BY <2>1, <2>3, Zenon
        <4>2. QED
          BY <1>3, <4>1
      <3>2. QED
        BY <2>3, <2>4, <3>1, NotEmpty
    <2>6. QED
      BY <1>3, <1>5, <1>6, <2>2, <2>3, <2>5
  <1>7. CASE Link(t, n)
    <2>1. queue # <<>> /\ ~MayCopy(n) /\ queue' = Append(queue, b)
      BY <1>7 DEF Link, b
    <2>2. /\ queue' \in Seq(Bytes) /\ Len(queue') = Len(queue) + 1
          /\ \A k \in 1..Len(queue) : queue'[k] = queue[k]
      BY <1>1, <1>2, <2>1, AppendProperties
    <2>3. 1 \in 1..Len(queue)
      BY <1>3, <2>1
    <2>4. queue' # <<>> /\ queue'[1] = queue[1]
      <3>1. Len(queue') > 0
        BY <1>3, <2>2
      <3>2. QED
        BY <2>2, <2>3, <3>1, NotEmpty
    <2>5. ~Copy(t, n)
      BY <2>1 DEF Copy
    <2>6. QED
      BY <1>5, <2>1, <2>2, <2>4, <2>5
  <1>8. QED
    BY <1>4, <1>6, <1>7 DEF Enqueue

\* m_nPendingWrite when the first buffer leaves the list.
LEMMA UnlinkPending ==
    ASSUME Inv1, Inv2, pending = Outstanding(queue, accepted), queue # <<>>
    PROVE  /\ pending - Len(Head(queue)) = Outstanding(Tail(queue), accepted)
           /\ Len(Tail(queue)) = Len(queue) - 1
  <1>1. Len(queue) \in Nat /\ Len(queue) > 0 /\ queue \in Seq(Bytes) /\ accepted \in Nat
    BY Lengths, ConstantsOK DEF Inv1, TypeOK
  <1>2. /\ queue[1] \in Bytes /\ queue[1][1] \in Nat /\ Len(queue[1]) > 0 /\ Len(queue[1]) \in Nat
        /\ Ordered(queue, accepted)
    BY <1>1, FirstBuffer DEF Inv1, Inv2
  <1>3. Head(queue) = queue[1] /\ Head(queue[1]) = queue[1][1]
    BY <1>2 DEF Bytes
  <1>4. /\ Tail(queue) \in Seq(Bytes) /\ Len(Tail(queue)) = Len(queue) - 1
        /\ \A k \in 1..Len(Tail(queue)) : Tail(queue)[k] = queue[k + 1]
    BY <1>1, HeadTailProperties
  <1>5. pending = 1 + accepted - queue[1][1]
    BY <1>3 DEF Outstanding
  <1>6. CASE Len(queue) = 1
    <2>1. accepted = queue[1][1] + Len(queue[1]) - 1
      BY <1>2, <1>6 DEF Ordered
    <2>2. Tail(queue) = <<>>
      <3>1. ~(Len(Tail(queue)) > 0)
        <4>1. Len(Tail(queue)) = 1 - 1
          BY <1>4, <1>6, Zenon
        <4>2. ~(1 - 1 > 0)
          OBVIOUS
        <4>3. QED
          BY <4>1, <4>2, Zenon
      <3>2. QED
        BY <1>4, <3>1, NotEmpty
    <2>3. Outstanding(Tail(queue), accepted) = 0
      BY <2>2 DEF Outstanding
    <2>4. pending - Len(queue[1]) = 0
      <3>1. PICK h \in Nat, l \in Nat : h = queue[1][1] /\ l = Len(queue[1])
        BY <1>2
      <3>2. accepted = h + l - 1 /\ pending = 1 + accepted - h
        BY <1>5, <2>1, <3>1, Zenon
      <3>3. pending - l = 0
        BY <3>2
      <3>4. QED
        BY <3>1, <3>3, Zenon
    <2>5. QED
      BY <1>3, <1>4, <2>3, <2>4, Zenon
  <1>7. CASE Len(queue) > 1
    <2>1. 1 \in 1..(Len(queue) - 1) /\ 2 \in 1..Len(queue) /\ 1 \in 1..Len(Tail(queue))
      BY <1>1, <1>4, <1>7
    <2>2. queue[1 + 1][1] = queue[1][1] + Len(queue[1])
      BY <1>2, <2>1 DEF Ordered
    <2>3. Tail(queue) # <<>> /\ Tail(queue)[1] = queue[1 + 1]
      <3>1. Len(Tail(queue)) > 0
        BY <1>1, <1>4, <1>7
      <3>2. Tail(queue) # <<>>
        BY <1>4, <3>1, NotEmpty
      <3>3. QED
        BY <1>4, <2>1, <3>2
    <2>4. Head(Tail(queue)) = queue[2]
      BY <2>3
    <2>5. queue[2] \in Bytes /\ Len(queue[2]) \in 1..BUFFER_SIZE
      BY <1>1, <1>2, <2>1, ElementOfSeq DEF Ordered
    <2>6. Head(queue[2]) = queue[2][1]
      BY <2>5, ConstantsOK DEF Bytes
    <2>7. Outstanding(Tail(queue), accepted) = 1 + accepted - queue[2][1]
      BY <2>3, <2>4, <2>6, Zenon DEF Outstanding
    <2>8. pending - Len(queue[1]) = 1 + accepted - queue[1 + 1][1]
      BY <1>1, <1>2, <1>5, <2>2
    <2>9. 1 + 1 = 2
      OBVIOUS
    <2>10. QED
      BY <1>3, <1>4, <2>7, <2>8, <2>9, Zenon
  <1>8. Len(queue) = 1 \/ Len(queue) > 1
    <2>1. \A k \in Nat : k > 0 => k = 1 \/ k > 1
      OBVIOUS
    <2>2. QED
      BY <1>1, <2>1, Zenon
  <1>9. QED
    BY <1>6, <1>7, <1>8, Zenon

\* A step that moves no thread.
LEMMA StillCounts ==
    ASSUME Inv3, UNCHANGED <<pc, queue, pending, accepted, buffers>>, References'
    PROVE  Inv3'
  <1>1. Freeing' = Freeing
    BY DEF Freeing
  <1>2. QED
    BY <1>1 DEF Inv3, Roles, Buffers

\* A thread goes to l, and the counters follow.
LEMMA MovesCounted ==
    ASSUME Inv1, Inv3, TypeOK', NEW t \in Threads, NEW l \in Labels, pc' = [pc EXCEPT ![t] = l],
           t \in Workers => l # "enter", t \notin Workers => l \notin {"callback", "release"},
           pending' = Outstanding(queue', accepted'), open' = open,
           m_nRef' + Len(sent) + Len(done) + lost
                   + One(InPosting(pc[t])) + One(InCompleting(t, pc[t]))
               = m_nRef + Len(sent') + Len(done') + lost'
                   + One(InPosting(l)) + One(InCompleting(t, l)),
           buffers' + Len(queue) + One(InFreeing(t, pc[t]))
               = buffers + Len(queue') + One(InFreeing(t, l))
    PROVE  Inv3'
  <1>1. /\ Roles'
        /\ Cardinality(Posting)' = Cardinality(Posting) + One(InPosting(l)) - One(InPosting(pc[t]))
        /\ Cardinality(Completing)' =
               Cardinality(Completing) + One(InCompleting(t, l)) - One(InCompleting(t, pc[t]))
        /\ Cardinality(Freeing)' =
               Cardinality(Freeing) + One(InFreeing(t, l)) - One(InFreeing(t, pc[t]))
    BY Moved DEF Inv1, Inv3
  <1>2. \A b : One(b) \in {0, 1}
    BY Zenon DEF One
  <1>3. PICK a \in {0, 1}, b \in {0, 1}, c \in {0, 1}, d \in {0, 1}, e \in {0, 1}, f \in {0, 1} :
            /\ a = One(InPosting(pc[t])) /\ b = One(InCompleting(t, pc[t]))
            /\ c = One(InPosting(l)) /\ d = One(InCompleting(t, l))
            /\ e = One(InFreeing(t, pc[t])) /\ f = One(InFreeing(t, l))
    BY <1>2, Zenon
  <1>4. /\ Cardinality(Posting) \in Nat /\ Cardinality(Completing) \in Nat
        /\ Cardinality(Freeing) \in Nat
        /\ Len(queue) \in Nat /\ Len(sent) \in Nat /\ Len(done) \in Nat
        /\ m_nRef \in Int /\ lost \in Nat /\ buffers \in Int /\ open \in BOOLEAN
    BY Numbers DEF Inv1
  <1>n. /\ m_nRef' \in Int /\ Len(sent') \in Nat /\ Len(done') \in Nat /\ lost' \in Nat
        /\ buffers' \in Int /\ Len(queue') \in Nat
    BY LenProperties DEF TypeOK
  <1>5. References'
    <2>1. m_nRef = 1 + (IF open THEN 1 ELSE 0) + Cardinality(Posting)
                     + Cardinality(Completing) + Len(sent) + Len(done) + lost
      BY DEF Inv3, References
    <2>2. m_nRef' + Len(sent) + Len(done) + lost + a + b
              = m_nRef + Len(sent') + Len(done') + lost' + c + d
      BY <1>3, Zenon
    <2>3. /\ Cardinality(Posting)' = Cardinality(Posting) + c - a
          /\ Cardinality(Completing)' = Cardinality(Completing) + d - b
      BY <1>1, <1>3, Zenon
    <2>4. m_nRef' = 1 + (IF open THEN 1 ELSE 0) + Cardinality(Posting)'
                      + Cardinality(Completing)' + Len(sent') + Len(done') + lost'
      <3>1. PICK r \in Int, o \in Nat, p \in Nat, q \in Nat, s \in Nat, n \in Nat, k \in Nat :
                /\ r = m_nRef /\ o = (IF open THEN 1 ELSE 0) /\ p = Cardinality(Posting)
                /\ q = Cardinality(Completing) /\ s = Len(sent) /\ n = Len(done) /\ k = lost
        BY <1>4
      <3>2. PICK r2 \in Int, s2 \in Nat, n2 \in Nat, k2 \in Nat :
                r2 = m_nRef' /\ s2 = Len(sent') /\ n2 = Len(done') /\ k2 = lost'
        BY <1>n
      <3>3. r = 1 + o + p + q + s + n + k
        BY <2>1, <3>1, Zenon
      <3>4. r2 + s + n + k + a + b = r + s2 + n2 + k2 + c + d
        BY <2>2, <3>1, <3>2, Zenon
      <3>5. r2 = 1 + o + (p + c - a) + (q + d - b) + s2 + n2 + k2
        BY <3>3, <3>4
      <3>6. Cardinality(Posting)' = p + c - a /\ Cardinality(Completing)' = q + d - b
        BY <2>3, <3>1, Zenon
      <3>7. QED
        BY <3>1, <3>2, <3>5, <3>6, Zenon
    <2>5. QED
      BY <2>4 DEF References
  <1>6. Buffers'
    <2>1. buffers = Len(queue) + Cardinality(Freeing)
      BY DEF Inv3, Buffers
    <2>2. buffers' + Len(queue) + e = buffers + Len(queue') + f
      BY <1>3, Zenon
    <2>3. Cardinality(Freeing)' = Cardinality(Freeing) + f - e
      BY <1>1, <1>3, Zenon
    <2>4. buffers' = Len(queue') + Cardinality(Freeing)'
      <3>1. PICK r \in Int, s \in Nat, p \in Nat :
                r = buffers /\ s = Len(queue) /\ p = Cardinality(Freeing)
        BY <1>4
      <3>2. PICK r2 \in Int, s2 \in Nat : r2 = buffers' /\ s2 = Len(queue')
        BY <1>n
      <3>3. r = s + p
        BY <2>1, <3>1, Zenon
      <3>4. r2 + s + e = r + s2 + f
        BY <2>2, <3>1, <3>2, Zenon
      <3>5. r2 = s2 + (p + f - e)
        BY <3>3, <3>4
      <3>6. Cardinality(Freeing)' = p + f - e
        BY <2>3, <3>1, Zenon
      <3>7. QED
        BY <3>2, <3>5, <3>6, Zenon
    <2>5. QED
      BY <2>4 DEF Buffers
  <1>7. QED
    BY <1>1, <1>5, <1>6 DEF Inv3

LEMMA WriteCounts ==
    ASSUME Inv1, Inv3, TypeOK', NEW t \in Writers, NEW n \in Nat, Write(t, n) PROVE Inv3'
  <1> DEFINE l == AfterSizeCheck(n)
  <1>1. /\ t \in Threads /\ t \notin Workers /\ l \in {"free", "enter"} /\ l \in Labels
        /\ pc[t] = "idle" /\ pc' = [pc EXCEPT ![t] = l] /\ buffers' = buffers + 1
        /\ UNCHANGED <<queue, pending, accepted, open, m_nRef, sent, done, lost>>
    BY ConstantsOK DEF Write, Goto, AfterSizeCheck, Labels, Threads, history
  <1> HIDE DEF l
  <1>2. /\ One(InPosting(l)) = 0 /\ One(InPosting(pc[t])) = 0
        /\ One(InCompleting(t, l)) = 0 /\ One(InCompleting(t, pc[t])) = 0
        /\ One(InFreeing(t, l)) = 1 /\ One(InFreeing(t, pc[t])) = 0
    BY <1>1 DEF One, InPosting, InCompleting, InFreeing
  <1>3. buffers \in Int /\ Len(queue) \in Nat
    BY Numbers DEF Inv1
  <1>4. buffers' + Len(queue) + 0 = buffers + Len(queue') + 1
    BY <1>1, <1>3
  <1>5. pending' = Outstanding(queue', accepted')
    BY <1>1 DEF Inv3
  <1>6. QED
    BY <1>1, <1>2, <1>4, <1>5, MovesCounted

LEMMA EnqueueCounts ==
    ASSUME Inv1, Inv2, Inv3, TypeOK', NEW t \in Threads, Enqueue(t) PROVE Inv3'
  <1>1. PICK l \in {"addref", "free", "idle"} :
            pc' = [pc EXCEPT ![t] = l] /\ (l = "free" <=> Copy(t, size[t]))
    BY DEF Enqueue, PutFirst, Copy, Link, MayCopy, Goto
  <1>2. /\ l \in Labels /\ pc[t] = "enter" /\ t \notin Workers
        /\ UNCHANGED <<m_nRef, open, sent, done, buffers, lost>>
    BY <1>1 DEF Enqueue, Labels, Inv3, Roles
  <1>3. /\ One(InPosting(l)) = 0 /\ One(InPosting(pc[t])) = 0
        /\ One(InCompleting(t, l)) = 0 /\ One(InCompleting(t, pc[t])) = 0
        /\ One(InFreeing(t, pc[t])) = 1
        /\ One(InFreeing(t, l)) = IF Copy(t, size[t]) THEN 1 ELSE 0
    BY <1>1, <1>2 DEF One, InPosting, InCompleting, InFreeing
  <1>4. /\ pending' = Outstanding(queue', accepted')
        /\ Len(queue') = Len(queue) + (IF Copy(t, size[t]) THEN 0 ELSE 1)
    BY EnqueuePending DEF Inv3
  <1>5. buffers \in Int /\ Len(queue) \in Nat
    BY Numbers DEF Inv1
  <1>6. buffers' + Len(queue) + 1 = buffers + Len(queue') + One(InFreeing(t, l))
    BY <1>2, <1>3, <1>4, <1>5
  <1>7. QED
    BY <1>1, <1>2, <1>3, <1>4, <1>6, MovesCounted

LEMMA AddRefCounts ==
    ASSUME Inv1, Inv3, TypeOK', NEW t \in Threads, AddRef(t) PROVE Inv3'
  <1>1. /\ pc[t] = "addref" /\ pc' = [pc EXCEPT ![t] = "send"] /\ m_nRef' = m_nRef + 1
        /\ "send" \in Labels
        /\ UNCHANGED <<queue, pending, accepted, open, sent, done, lost, buffers>>
    BY DEF AddRef, Goto, Labels, history
  <1>2. /\ One(InPosting("send")) = 1 /\ One(InPosting(pc[t])) = 0
        /\ One(InCompleting(t, "send")) = One(InCompleting(t, pc[t]))
        /\ One(InFreeing(t, "send")) = One(InFreeing(t, pc[t]))
    BY <1>1 DEF One, InPosting, InCompleting, InFreeing
  <1>3. PICK c \in {0, 1} : c = One(InCompleting(t, pc[t]))
    BY Zenon DEF One
  <1>n. m_nRef \in Int /\ Len(sent) \in Nat /\ Len(done) \in Nat /\ lost \in Nat
    BY Numbers DEF Inv1
  <1>m. m_nRef' = m_nRef + 1 /\ Len(sent') = Len(sent) /\ Len(done') = Len(done) /\ lost' = lost
    BY <1>1, Zenon
  <1>4. m_nRef' + Len(sent) + Len(done) + lost + 0 + c
            = m_nRef + Len(sent') + Len(done') + lost' + 1 + c
    BY <1>3, <1>n, <1>m
  <1>5. pending' = Outstanding(queue', accepted') /\ buffers' = buffers /\ Len(queue') = Len(queue)
    BY <1>1 DEF Inv3
  <1>6. QED
    BY <1>1, <1>2, <1>3, <1>4, <1>5, MovesCounted

\* The steps after the send attempt of thread t.
LEMMA AfterSendCounts ==
    ASSUME NEW t \in Threads
    PROVE  /\ AfterSend(t) \in {"free", "idle"}
           /\ One(InPosting(AfterSend(t))) = 0
           /\ \A l \in {"send", "refused"} :
                /\ One(InPosting(l)) = 1
                /\ One(InCompleting(t, AfterSend(t))) = One(InCompleting(t, l))
                /\ One(InFreeing(t, AfterSend(t))) = One(InFreeing(t, l))
  BY DEF AfterSend, One, InPosting, InCompleting, InFreeing

LEMMA SendFirstCounts ==
    ASSUME Inv1, Inv3, TypeOK', NEW t \in Threads, SendFirst(t) PROVE Inv3'
  <1>1. /\ pc[t] = "send" /\ t \in Threads
        /\ UNCHANGED <<queue, pending, accepted, open, m_nRef, done, lost, buffers>>
    BY DEF SendFirst
  <1>2. pending' = Outstanding(queue', accepted') /\ buffers' = buffers /\ Len(queue') = Len(queue)
    BY <1>1 DEF Inv3
  <1>3. PICK c \in {0, 1} : c = One(InCompleting(t, pc[t]))
    BY Zenon DEF One
  <1>4. CASE Goto(t, AfterSend(t)) /\ sent' = Append(sent, Head(queue))
    <2>1. Len(sent') = Len(sent) + 1
      <3>1. queue # <<>> /\ queue \in Seq(Bytes) /\ sent \in Seq(Bytes)
        BY <1>1 DEF Inv1, HeadThere, Driver, TypeOK
      <3>2. Head(queue) \in Bytes
        BY <3>1, HeadTailProperties
      <3>3. QED
        BY <1>4, <3>1, <3>2, AppendProperties
    <2>n. m_nRef \in Int /\ Len(sent) \in Nat /\ Len(done) \in Nat /\ lost \in Nat
      BY Numbers DEF Inv1
    <2>m. m_nRef' = m_nRef /\ Len(done') = Len(done) /\ lost' = lost
      BY <1>1, Zenon
    <2>2. m_nRef' + Len(sent) + Len(done) + lost + 1 + c
              = m_nRef + Len(sent') + Len(done') + lost' + 0 + c
      BY <1>3, <2>1, <2>n, <2>m
    <2>3. AfterSend(t) \in Labels /\ AfterSend(t) \notin {"enter", "callback", "release"}
      BY AfterSendCounts DEF Labels
    <2>4. QED
      BY <1>1, <1>2, <1>3, <1>4, <2>2, <2>3, AfterSendCounts, MovesCounted DEF Goto
  <1>5. CASE Goto(t, "refused") /\ sent' = sent
    <2>1. /\ One(InPosting("refused")) = 1 /\ One(InPosting(pc[t])) = 1
          /\ One(InCompleting(t, "refused")) = One(InCompleting(t, pc[t]))
          /\ One(InFreeing(t, "refused")) = One(InFreeing(t, pc[t]))
      BY <1>1 DEF One, InPosting, InCompleting, InFreeing
    <2>2. "refused" \in Labels
      BY DEF Labels
    <2>3. QED
      BY <1>1, <1>2, <1>5, <2>1, <2>2, MovesCounted DEF Goto
  <1>6. QED
    BY <1>4, <1>5 DEF SendFirst

LEMMA RefusedCounts ==
    ASSUME Inv1, Inv3, TypeOK', NEW t \in Threads, Refused(t) PROVE Inv3'
  <1>1. /\ pc[t] = "refused" /\ m_nRef' = m_nRef - 1 /\ pc' = [pc EXCEPT ![t] = AfterSend(t)]
        /\ UNCHANGED <<queue, pending, accepted, open, sent, done, lost, buffers>>
    BY DEF Refused, Goto, history
  <1>2. pending' = Outstanding(queue', accepted') /\ buffers' = buffers /\ Len(queue') = Len(queue)
    BY <1>1 DEF Inv3
  <1>3. PICK c \in {0, 1} : c = One(InCompleting(t, pc[t]))
    BY Zenon DEF One
  <1>n. m_nRef \in Int /\ Len(sent) \in Nat /\ Len(done) \in Nat /\ lost \in Nat
    BY Numbers DEF Inv1
  <1>m. m_nRef' = m_nRef - 1 /\ Len(sent') = Len(sent) /\ Len(done') = Len(done) /\ lost' = lost
    BY <1>1, Zenon
  <1>4. m_nRef' + Len(sent) + Len(done) + lost + 1 + c
            = m_nRef + Len(sent') + Len(done') + lost' + 0 + c
    BY <1>3, <1>n, <1>m
  <1>5. AfterSend(t) \in Labels /\ AfterSend(t) \notin {"enter", "callback", "release"}
    BY AfterSendCounts DEF Labels
  <1>6. QED
    BY <1>1, <1>2, <1>3, <1>4, <1>5, AfterSendCounts, MovesCounted

LEMMA DequeueCounts ==
    ASSUME Inv1, Inv3, TypeOK', NEW t \in Workers, Dequeue(t) PROVE Inv3'
  <1>1. /\ pc[t] = "idle" /\ done # <<>> /\ done' = Tail(done) /\ t \in Threads
        /\ pc' = [pc EXCEPT ![t] = "callback"] /\ "callback" \in Labels
        /\ UNCHANGED <<queue, pending, accepted, open, sent, m_nRef, lost, buffers>>
    BY DEF Dequeue, Goto, history, Threads, Labels
  <1>2. pending' = Outstanding(queue', accepted') /\ buffers' = buffers /\ Len(queue') = Len(queue)
    BY <1>1 DEF Inv3
  <1>3. /\ One(InPosting("callback")) = 0 /\ One(InPosting(pc[t])) = 0
        /\ One(InCompleting(t, "callback")) = 1 /\ One(InCompleting(t, pc[t])) = 0
        /\ One(InFreeing(t, "callback")) = One(InFreeing(t, pc[t]))
    BY <1>1 DEF One, InPosting, InCompleting, InFreeing
  <1>4. Len(done') = Len(done) - 1
    BY <1>1, HeadTailProperties DEF Inv1, TypeOK
  <1>n. m_nRef \in Int /\ Len(sent) \in Nat /\ Len(done) \in Nat /\ lost \in Nat
    BY Numbers DEF Inv1
  <1>m. m_nRef' = m_nRef /\ Len(sent') = Len(sent) /\ lost' = lost
    BY <1>1, Zenon
  <1>5. m_nRef' + Len(sent) + Len(done) + lost + 0 + 0
            = m_nRef + Len(sent') + Len(done') + lost' + 0 + 1
    BY <1>4, <1>n, <1>m
  <1>6. QED
    BY <1>1, <1>2, <1>3, <1>5, MovesCounted

LEMMA WriteFailedCounts ==
    ASSUME Inv1, Inv3, TypeOK', NEW t \in Threads, WriteFailed(t) PROVE Inv3'
  <1>1. /\ pc[t] = "callback" /\ lost' = lost + 1 /\ t \in Workers
        /\ pc' = [pc EXCEPT ![t] = "idle"] /\ "idle" \in Labels
        /\ UNCHANGED <<queue, pending, accepted, open, sent, done, m_nRef, buffers>>
    BY DEF WriteFailed, Goto, Labels, Inv3, Roles
  <1>2. pending' = Outstanding(queue', accepted') /\ buffers' = buffers /\ Len(queue') = Len(queue)
    BY <1>1 DEF Inv3
  <1>3. /\ One(InPosting("idle")) = 0 /\ One(InPosting(pc[t])) = 0
        /\ One(InCompleting(t, "idle")) = 0 /\ One(InCompleting(t, pc[t])) = 1
        /\ One(InFreeing(t, "idle")) = One(InFreeing(t, pc[t]))
    BY <1>1 DEF One, InPosting, InCompleting, InFreeing
  <1>n. m_nRef \in Int /\ Len(sent) \in Nat /\ Len(done) \in Nat /\ lost \in Nat
    BY Numbers DEF Inv1
  <1>m. m_nRef' = m_nRef /\ Len(sent') = Len(sent) /\ Len(done') = Len(done) /\ lost' = lost + 1
    BY <1>1, Zenon
  <1>4. m_nRef' + Len(sent) + Len(done) + lost + 0 + 1
            = m_nRef + Len(sent') + Len(done') + lost' + 0 + 0
    BY <1>n, <1>m
  <1>5. QED
    BY <1>1, <1>2, <1>3, <1>4, MovesCounted

LEMMA WriteCallbackCounts ==
    ASSUME Inv1, Inv2, Inv3, TypeOK', NEW t \in Threads, WriteCallback(t) PROVE Inv3'
  <1>1. /\ pc[t] = "callback" /\ t \in Workers /\ queue # <<>>
        /\ UNCHANGED <<m_nRef, open, sent, done, buffers, accepted, lost>>
    BY DEF WriteCallback, history, Inv3, Roles, Inv1, HeadThere, Driver
  <1>2. /\ One(InPosting(pc[t])) = 0 /\ One(InCompleting(t, pc[t])) = 1
        /\ One(InFreeing(t, pc[t])) = 0
    BY <1>1 DEF One, InPosting, InCompleting, InFreeing
  <1>3. buffers \in Int /\ Len(queue) \in Nat
    BY Numbers DEF Inv1
  <1>4. CASE Goto(t, "release") /\ UNCHANGED <<queue, pending>>
    <2>1. /\ One(InPosting("release")) = 0 /\ One(InCompleting(t, "release")) = 1
          /\ One(InFreeing(t, "release")) = 0 /\ "release" \in Labels
      BY <1>1 DEF One, InPosting, InCompleting, InFreeing, Labels
    <2>2. pending' = Outstanding(queue', accepted') /\ Len(queue') = Len(queue)
      BY <1>1, <1>4 DEF Inv3
    <2>3. QED
      BY <1>1, <1>2, <1>4, <2>1, <2>2, MovesCounted DEF Goto
  <1>5. CASE /\ pending' = pending - Len(Head(queue)) /\ queue' = Tail(queue)
             /\ Goto(t, AfterUnlink)
    <2>1. pending' = Outstanding(queue', accepted') /\ Len(queue') = Len(queue) - 1
      BY <1>1, <1>5, UnlinkPending DEF Inv3
    <2>2. AfterUnlink \in {"addref", "free"} /\ AfterUnlink \in Labels
      BY DEF AfterUnlink, Labels
    <2>3. /\ One(InPosting(AfterUnlink)) = 0 /\ One(InCompleting(t, AfterUnlink)) = 1
          /\ One(InFreeing(t, AfterUnlink)) = 1
      BY <1>1, <2>2 DEF One, InPosting, InCompleting, InFreeing
    <2>4. buffers' + Len(queue) + 0 = buffers + Len(queue') + 1
      BY <1>1, <1>3, <2>1
    <2>5. QED
      BY <1>1, <1>2, <1>5, <2>1, <2>2, <2>3, <2>4, MovesCounted DEF Goto
  <1>6. QED
    BY <1>4, <1>5 DEF WriteCallback

LEMMA FreeCounts ==
    ASSUME Inv1, Inv3, TypeOK', NEW t \in Threads, Free(t) PROVE Inv3'
  <1> DEFINE l == IF t \in Workers THEN "release" ELSE "idle"
  <1>1. /\ pc[t] = "free" /\ buffers' = buffers - 1 /\ l \in Labels
        /\ pc' = [pc EXCEPT ![t] = l]
        /\ t \in Workers => l # "enter"
        /\ t \notin Workers => l \notin {"callback", "release"}
        /\ UNCHANGED <<queue, pending, accepted, open, sent, done, m_nRef, lost>>
    BY DEF Free, Goto, history, Labels
  <1>2. /\ One(InPosting(l)) = 0 /\ One(InPosting(pc[t])) = 0
        /\ One(InCompleting(t, l)) = One(InCompleting(t, pc[t]))
        /\ One(InFreeing(t, l)) = 0 /\ One(InFreeing(t, pc[t])) = 1
    BY <1>1 DEF One, InPosting, InCompleting, InFreeing
  <1> HIDE DEF l
  <1>3. buffers \in Int /\ Len(queue) \in Nat
    BY Numbers DEF Inv1
  <1>4. buffers' + Len(queue) + 1 = buffers + Len(queue') + 0
    BY <1>1, <1>3
  <1>5. pending' = Outstanding(queue', accepted')
    BY <1>1 DEF Inv3
  <1>6. QED
    BY <1>1, <1>2, <1>4, <1>5, MovesCounted

LEMMA ReleaseCounts ==
    ASSUME Inv1, Inv3, TypeOK', NEW t \in Threads, Release(t) PROVE Inv3'
  <1>1. /\ pc[t] = "release" /\ m_nRef' = m_nRef - 1 /\ t \in Workers
        /\ pc' = [pc EXCEPT ![t] = "idle"] /\ "idle" \in Labels
        /\ UNCHANGED <<queue, pending, accepted, open, sent, done, lost, buffers>>
    BY DEF Release, Goto, history, Labels, Inv3, Roles
  <1>2. pending' = Outstanding(queue', accepted') /\ buffers' = buffers /\ Len(queue') = Len(queue)
    BY <1>1 DEF Inv3
  <1>3. /\ One(InPosting("idle")) = 0 /\ One(InPosting(pc[t])) = 0
        /\ One(InCompleting(t, "idle")) = 0 /\ One(InCompleting(t, pc[t])) = 1
        /\ One(InFreeing(t, "idle")) = One(InFreeing(t, pc[t]))
    BY <1>1 DEF One, InPosting, InCompleting, InFreeing
  <1>n. m_nRef \in Int /\ Len(sent) \in Nat /\ Len(done) \in Nat /\ lost \in Nat
    BY Numbers DEF Inv1
  <1>m. m_nRef' = m_nRef - 1 /\ Len(sent') = Len(sent) /\ Len(done') = Len(done) /\ lost' = lost
    BY <1>1, Zenon
  <1>4. m_nRef' + Len(sent) + Len(done) + lost + 0 + 1
            = m_nRef + Len(sent') + Len(done') + lost' + 0 + 0
    BY <1>n, <1>m
  <1>5. QED
    BY <1>1, <1>2, <1>3, <1>4, MovesCounted

LEMMA CloseCounts == ASSUME Inv1, Inv3, Close PROVE Inv3'
  <1>1. /\ open /\ ~open' /\ m_nRef' = m_nRef - 1
        /\ UNCHANGED <<queue, pending, accepted, pc, sent, done, lost, buffers>>
    BY DEF Close, local, history
  <1>2. Posting' = Posting /\ Completing' = Completing
    BY <1>1 DEF Posting, Completing
  <1>3. PICK p \in Nat, q \in Nat, s \in Nat, n \in Nat, k \in Nat :
            /\ p = Cardinality(Posting) /\ q = Cardinality(Completing)
            /\ s = Len(sent) /\ n = Len(done) /\ k = lost
    BY Numbers DEF Inv1
  <1>4. m_nRef = 1 + 1 + p + q + s + n + k
    BY <1>1, <1>3, Zenon DEF Inv3, References
  <1>5. m_nRef - 1 = 1 + 0 + p + q + s + n + k
    BY <1>4
  <1>6. /\ Cardinality(Posting)' = p /\ Cardinality(Completing)' = q
        /\ Len(sent') = s /\ Len(done') = n /\ lost' = k
    BY <1>1, <1>2, <1>3, Zenon
  <1>7. References'
    BY <1>1, <1>5, <1>6, Zenon DEF References
  <1>8. QED
    BY <1>1, <1>7, StillCounts

LEMMA CompleteCounts == ASSUME Inv1, Inv3, Complete PROVE Inv3'
  <1>1. /\ sent # <<>> /\ sent' = Tail(sent)
        /\ UNCHANGED <<queue, pending, accepted, pc, open, m_nRef, lost, buffers>>
    BY DEF Complete, local
  <1>2. Len(sent') = Len(sent) - 1
    BY <1>1, HeadTailProperties DEF Inv1, TypeOK
  <1>3. Len(done') = Len(done) + 1
    <2>1. sent \in Seq(Bytes) /\ done \in Seq([ok : BOOLEAN, n : Nat])
      BY DEF Inv1, TypeOK
    <2>2. Len(Head(sent)) \in Nat
      BY <1>1, <2>1, HeadTailProperties, LenProperties DEF Bytes
    <2>3. PICK x \in [ok : BOOLEAN, n : Nat] : done' = Append(done, x)
      <3>1. CASE done' = Append(done, [ok |-> TRUE, n |-> Len(Head(sent))])
        BY <2>2, <3>1
      <3>2. CASE done' = Append(done, [ok |-> FALSE, n |-> 0])
        BY <3>2
      <3>3. CASE \E k \in 0..(Len(Head(sent)) - 1) : done' = Append(done, [ok |-> TRUE, n |-> k])
        <4>1. \A k \in 0..(Len(Head(sent)) - 1) : k \in Nat
          BY <2>2
        <4>2. PICK k \in Nat : done' = Append(done, [ok |-> TRUE, n |-> k])
          BY <3>3, <4>1, Zenon
        <4>3. QED
          BY <4>2
      <3>4. QED
        BY <3>1, <3>2, <3>3 DEF Complete
    <2>4. QED
      BY <2>1, <2>3, AppendProperties
  <1>4. Posting' = Posting /\ Completing' = Completing
    BY <1>1 DEF Posting, Completing
  <1>5. PICK o \in {0, 1}, p \in Nat, q \in Nat, s \in Nat, n \in Nat, k \in Nat :
            /\ p = Cardinality(Posting) /\ q = Cardinality(Completing)
            /\ s = Len(sent) /\ n = Len(done) /\ k = lost /\ o = IF open THEN 1 ELSE 0
    BY Numbers DEF Inv1
  <1>6. m_nRef = 1 + o + p + q + s + n + k
    BY <1>5, Zenon DEF Inv3, References
  <1>7. m_nRef = 1 + o + p + q + (s - 1) + (n + 1) + k
    BY <1>6
  <1>8. /\ Cardinality(Posting)' = p /\ Cardinality(Completing)' = q
        /\ Len(sent') = s - 1 /\ Len(done') = n + 1 /\ lost' = k
        /\ open' = open /\ m_nRef' = m_nRef
    BY <1>1, <1>2, <1>3, <1>4, <1>5, Zenon
  <1>9. References'
    BY <1>5, <1>7, <1>8, Zenon DEF References
  <1>10. QED
    BY <1>1, <1>9, StillCounts

LEMMA Inv3Step == ASSUME Inv1, Inv2, Inv3, TypeOK', [Next]_vars PROVE Inv3'
  <1>1. CASE \E t \in Writers, n \in 0..MaxMessage : Write(t, n)
    BY <1>1, WriteCounts, ConstantsOK
  <1>2. CASE \E t \in Workers : Dequeue(t)
    BY <1>2, DequeueCounts
  <1>3. CASE \E t \in Threads : Step(t)
    BY <1>3, EnqueueCounts, AddRefCounts, SendFirstCounts, RefusedCounts,
       WriteFailedCounts, WriteCallbackCounts, FreeCounts, ReleaseCounts DEF Step
  <1>4. CASE Complete
    BY <1>4, CompleteCounts
  <1>5. CASE Close
    BY <1>5, CloseCounts
  <1>6. CASE UNCHANGED vars
    <2>1. UNCHANGED <<pc, queue, pending, accepted, buffers, m_nRef, open, sent, done, lost>>
      BY <1>6 DEF vars, local, history
    <2>2. Posting' = Posting /\ Completing' = Completing
      BY <2>1 DEF Posting, Completing
    <2>3. References'
      BY <2>1, <2>2, Zenon DEF Inv3, References
    <2>4. QED
      BY <2>1, <2>3, StillCounts
  <1>7. QED
    BY <1>1, <1>2, <1>3, <1>4, <1>5, <1>6 DEF Next

\* The books of the connection balance on every path, refused, aborted and short
\* sends and a socket closed meanwhile included: m_nPendingWrite is the bytes in
\* the list, every reference belongs to somebody, every buffer is freed once.
THEOREM BooksBalance == Spec => []CountsExact
  <1>1. Inv1 /\ Inv2 /\ Inv3 /\ [Next]_vars => Inv1' /\ Inv2' /\ Inv3'
    BY TypeStep, ControlStep, Inv2Step, Inv3Step DEF Inv1
  <1>2. Init => Inv1 /\ Inv2 /\ Inv3
    BY Inv1Init, Inv2Init, Inv3Init
  <1>3. Inv3 => CountsExact
    BY Zenon DEF Inv3, CountsExact, Outstanding, References, Buffers
  <1>4. QED
    BY <1>1, <1>2, <1>3, PTL DEF Spec
=============================================================================
