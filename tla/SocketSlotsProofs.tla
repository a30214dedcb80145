-------------------------- MODULE SocketSlotsProofs --------------------------
(***************************************************************************)
(* Machine-checked proofs about SocketSlots, for every number of slots,    *)
(* workers, searches and connections.                                      *)
(*                                                                         *)
(* ChainInv states the chain of reads without counting: who drives a slot  *)
(* drives it alone and finds no read outstanding, an open socket has a     *)
(* read or a driver, and an unused slot has neither.  SocketInv follows    *)
(* the sockets through local variables, slots and closesocket.  RefInv     *)
(* bounds the references of a slot by what reads and workers may still     *)
(* give back; it is a bound, because Close may take the slot's own.        *)
(***************************************************************************)
EXTENDS SocketSlots, SequenceTheorems, FiniteSetTheorems, TLAPS

Results == {"data", "eof", "error"}

\* Where a worker is while it drives the chain of reads of its slot.
DriveLabels == {"initialize", "read", "recv", "onRead", "exchange", "onClose"}
Drives(w) == at[w] \in DriveLabels

\* What the steps need to keep the types: no object that is not deleted has
\* lost its last reference, and a search under way is allowed.
TypeInv == /\ TypeOK
           /\ deleted = {} => \A s \in Slots : m_nRef[s] > 0
           /\ \A w \in Workers : at[w] = "lock" => tries[w] < RetryCnt

LEMMA TypeInit == Init => TypeInv
  <1> SUFFICES ASSUME Init PROVE TypeInv
    OBVIOUS
  <1>1. 0 \in Slots /\ 0 \in 0..NumSlots /\ 0 \in 0..RetryCnt /\ 0 \in 0..MaxConns
    BY SlotsOK DEF Slots
  <1>2. port \in [Slots -> Seq({"data", "eof", "error"})] /\ \A s \in Slots : m_nRef[s] > 0
    BY EmptySeq DEF Init
  <1>3. TypeOK
    BY <1>1, <1>2 DEF Init, TypeOK, Invalid
  <1>4. QED
    BY <1>2, <1>3 DEF Init, TypeInv

LEMMA ReleaseType ==
    ASSUME TypeInv, deleted = {}, NEW s \in Slots, Release(s)
    PROVE  /\ m_nRef' \in [Slots -> Nat] /\ deleted' \subseteq Slots
           /\ deleted' = {} => \A r \in Slots : m_nRef'[r] > 0
  <1>1. m_nRef \in [Slots -> Nat] /\ \A r \in Slots : m_nRef[r] > 0
    BY DEF TypeInv, TypeOK
  <1>2. /\ m_nRef' = [m_nRef EXCEPT ![s] = m_nRef[s] - 1]
        /\ deleted' = IF m_nRef[s] = 1 THEN deleted \union {s} ELSE deleted
    BY DEF Release, Set
  <1>3. QED
    BY <1>1, <1>2

LEMMA ClosedType ==
    ASSUME TypeInv, NEW c \in Conns \union {Invalid} PROVE ClosedNow(c) \in [Conns -> Nat]
  BY DEF ClosedNow, TypeInv, TypeOK, Invalid

LEMMA TypeStep == ASSUME TypeInv, [Next]_vars PROVE TypeInv'
  <1>a. TypeInv /\ TypeOK
    BY DEF TypeInv
  <1> USE DEF Go, Set, local
  <1>1. ASSUME NEW w \in Workers, Accept(w) PROVE TypeInv'
    <2>1. accepted' \in 0..MaxConns /\ hSocket' \in [Workers -> Conns \union {Invalid}]
      <3>1. CASE accepted < MaxConns /\ accepted' = accepted + 1 /\ hSocket' = [hSocket EXCEPT ![w] = accepted']
        <4>1. accepted \in 0..MaxConns
          BY <1>a DEF TypeOK
        <4>2. accepted' \in 0..MaxConns /\ accepted' \in Conns
          BY <3>1, <4>1, SlotsOK DEF Conns
        <4>3. QED
          BY <1>a, <3>1, <4>2 DEF TypeOK
      <3>2. CASE UNCHANGED <<accepted, hSocket>>
        BY <1>a, <3>2 DEF TypeOK
      <3>3. QED
        BY <1>1, <3>1, <3>2 DEF Accept
    <2>2. /\ at' = [at EXCEPT ![w] = "scan"] /\ job' = [job EXCEPT ![w] = "accept"]
          /\ i' = [i EXCEPT ![w] = 0] /\ tries' = [tries EXCEPT ![w] = 0]
          /\ UNCHANGED <<bits, m_nId, m_hSocket, m_nRef, lock, reads, port, deleted, slot, closed>>
      BY <1>1 DEF Accept
    <2>3. 0 \in 0..NumSlots /\ 0 \in 0..RetryCnt
      BY SlotsOK
    <2>4. \A v \in Workers : at'[v] = "lock" => tries'[v] < RetryCnt
      BY <1>a, <2>2 DEF TypeInv, TypeOK
    <2>5. TypeOK'
      BY <1>a, <2>1, <2>2, <2>3 DEF TypeOK
    <2>6. QED
      BY <1>a, <2>2, <2>4, <2>5 DEF TypeInv
  <1>2. ASSUME NEW w \in Workers, Scan(w) PROVE TypeInv'
    <2>1. i[w] + 1 \in 0..NumSlots
      BY <1>2, SlotsOK DEF Scan, Slots
    <2>2. QED
      BY <1>a, <1>2, <2>1 DEF Scan, RetriesLeft, TypeInv, TypeOK
  <1>3. ASSUME NEW w \in Workers, Refuse(w) PROVE TypeInv'
    <2>1. closed' \in [Conns -> Nat]
      BY <1>a, <1>3, ClosedType DEF Refuse, TypeOK
    <2>2. QED
      BY <1>a, <1>3, <2>1, SlotsOK DEF Refuse, TypeInv, TypeOK
  <1>4. ASSUME NEW w \in Workers, Take(w) PROVE TypeInv'
    <2>1. slot[w] \in Slots
      BY <1>a DEF TypeOK
    <2>2. m_nRef' \in [Slots -> Nat] /\ \A s \in Slots : m_nRef'[s] >= m_nRef[s]
      BY <1>a, <1>4, <2>1 DEF Take, TypeOK
    <2>3. /\ bits' \in [Slots -> SUBSET {"NOT_USED", "CONNECTED"}] /\ m_nId' \in [Slots -> Slots]
          /\ m_hSocket' \in [Slots -> Conns \union {Invalid}]
          /\ hSocket' \in [Workers -> Conns \union {Invalid}]
      BY <1>a, <1>4, <2>1 DEF Take, TypeOK
    <2>4. deleted' = {} => \A s \in Slots : m_nRef'[s] > 0
      BY <1>a, <1>4, <2>2 DEF Take, TypeInv, TypeOK
    <2>5. /\ at' = [at EXCEPT ![w] = "initialize"]
          /\ i' = [i EXCEPT ![w] = 0] /\ tries' = [tries EXCEPT ![w] = 0]
          /\ UNCHANGED <<lock, reads, port, deleted, job, slot, accepted, closed>>
      BY <1>4 DEF Take
    <2>6. 0 \in 0..NumSlots /\ 0 \in 0..RetryCnt
      BY SlotsOK
    <2>7. TypeOK'
      BY <1>a, <2>2, <2>3, <2>5, <2>6 DEF TypeOK
    <2>8. \A v \in Workers : at'[v] = "lock" => tries'[v] < RetryCnt
      BY <1>a, <2>5 DEF TypeInv, TypeOK
    <2>9. QED
      BY <2>4, <2>7, <2>8 DEF TypeInv
  <1>5. ASSUME NEW w \in Workers, Retry(w) PROVE TypeInv'
    <2>1. slot[w] \in Slots /\ 0 \in Slots /\ 0 \in 0..NumSlots
      BY <1>a, SlotsOK DEF TypeOK, Slots
    <2>2. tries[w] + 1 \in 0..RetryCnt
      BY <1>a, <1>5, SlotsOK DEF Retry, TypeInv, TypeOK
    <2>3. bits' \in [Slots -> SUBSET {"NOT_USED", "CONNECTED"}] /\ m_nId' \in [Slots -> Slots]
      BY <1>a, <1>5, <2>1 DEF Retry, TypeOK
    <2>4. QED
      BY <1>a, <1>5, <2>1, <2>2, <2>3 DEF Retry, TypeInv, TypeOK
  <1>6. ASSUME NEW w \in Workers, Initialize(w) \/ LoginOn(w) \/ OnRead(w) PROVE TypeInv'
    <2>1. /\ at' = at \/ \E l \in DriveLabels : at' = [at EXCEPT ![w] = l]
          /\ lock' \in [Slots -> Workers \union {Nobody}]
          /\ UNCHANGED <<bits, m_nId, m_hSocket, m_nRef, reads, port, deleted, job, slot, i, tries,
                         hSocket, accepted, closed>>
      <3>1. CASE Initialize(w)
        BY <1>a, <3>1 DEF Initialize, DriveLabels, TypeOK
      <3>2. CASE LoginOn(w)
        BY <1>a, <3>2 DEF LoginOn, TypeOK
      <3>3. CASE OnRead(w)
        BY <1>a, <3>3 DEF OnRead, DriveLabels, TypeOK
      <3>4. QED
        BY <1>6, <3>1, <3>2, <3>3
    <2>2. /\ at' \in [Workers -> {"get", "scan", "lock", "initialize", "read", "recv", "release",
                                  "onRead", "exchange", "onClose", "closesocket"}]
          /\ \A v \in Workers : at'[v] = "lock" => tries'[v] < RetryCnt
      <3>1. CASE at' = at
        BY <1>a, <2>1, <3>1 DEF TypeInv, TypeOK
      <3>2. ASSUME NEW l \in DriveLabels, at' = [at EXCEPT ![w] = l]
            PROVE  /\ at' \in [Workers -> {"get", "scan", "lock", "initialize", "read", "recv", "release",
                                          "onRead", "exchange", "onClose", "closesocket"}]
                   /\ \A v \in Workers : at'[v] = "lock" => tries'[v] < RetryCnt
        BY <1>a, <2>1, <3>2 DEF DriveLabels, TypeInv, TypeOK
      <3>3. QED
        BY <2>1, <3>1, <3>2
    <2>3. QED
      BY <1>a, <2>1, <2>2 DEF TypeInv, TypeOK
  <1>7. ASSUME NEW w \in Workers, Read(w) PROVE TypeInv'
    <2>1. m_nRef' \in [Slots -> Nat] /\ \A s \in Slots : m_nRef'[s] >= m_nRef[s]
      BY <1>a, <1>7 DEF Read, TypeOK
    <2>2. deleted' = {} => \A s \in Slots : m_nRef'[s] > 0
      BY <1>a, <1>7, <2>1 DEF Read, TypeInv, TypeOK
    <2>3. QED
      BY <1>a, <1>7, <2>1, <2>2 DEF Read, TypeInv, TypeOK
  <1>8. ASSUME NEW w \in Workers, Recv(w) PROVE TypeInv'
    <2>1. /\ \E l \in {"get", "release", "exchange"} : at' = [at EXCEPT ![w] = l]
          /\ reads' \in [Slots -> Nat]
          /\ UNCHANGED <<bits, m_nId, m_hSocket, m_nRef, lock, port, deleted, job, slot, i, tries,
                         hSocket, accepted, closed>>
      <3>1. reads' = reads \/ reads' = [reads EXCEPT ![slot[w]] = reads[slot[w]] + 1]
        BY <1>8 DEF Recv
      <3>2. reads \in [Slots -> Nat]
        BY <1>a DEF TypeOK
      <3>3. reads' \in [Slots -> Nat]
        BY <3>1, <3>2
      <3>4. QED
        BY <1>8, <3>3 DEF Recv, AfterReadOrClose
    <2>2. /\ at' \in [Workers -> {"get", "scan", "lock", "initialize", "read", "recv", "release",
                                  "onRead", "exchange", "onClose", "closesocket"}]
          /\ \A v \in Workers : at'[v] = "lock" => tries'[v] < RetryCnt
      BY <1>a, <2>1 DEF TypeInv, TypeOK
    <2>3. QED
      BY <1>a, <2>1, <2>2 DEF TypeInv, TypeOK
  <1>9. ASSUME NEW w \in Workers, OnIOCallback(w) PROVE TypeInv'
    <2>1. PICK s \in Slots :
             /\ port[s] # <<>> /\ port' = [port EXCEPT ![s] = Tail(port[s])]
             /\ slot' = [slot EXCEPT ![w] = s]
             /\ job' = [job EXCEPT ![w] = IF Head(port[s]) = "error" THEN "readFail" ELSE "readOk"]
             /\ at' = [at EXCEPT ![w] = IF Head(port[s]) = "data" THEN "onRead" ELSE "exchange"]
             /\ UNCHANGED <<bits, m_nId, m_hSocket, m_nRef, lock, reads, deleted, i, tries, hSocket,
                            accepted, closed>>
      BY <1>9 DEF OnIOCallback
    <2>2. Tail(port[s]) \in Seq(Results)
      BY <1>a, <2>1, HeadTailProperties DEF TypeOK, Results
    <2>3. port' \in [Slots -> Seq(Results)]
      BY <1>a, <2>1, <2>2 DEF TypeOK, Results
    <2>4. QED
      BY <1>a, <2>1, <2>3 DEF TypeInv, TypeOK, Results
  <1>10. ASSUME NEW w \in Workers, Exchange(w) PROVE TypeInv'
    BY <1>a, <1>10 DEF Exchange, AfterReadOrClose, TypeInv, TypeOK
  <1>11. ASSUME NEW w \in Workers, OnClose(w) PROVE TypeInv'
    <2>1. slot[w] \in Slots /\ 0 \in Slots
      BY <1>a, SlotsOK DEF TypeOK, Slots
    <2>2. bits' \in [Slots -> SUBSET {"NOT_USED", "CONNECTED"}] /\ m_nId' \in [Slots -> Slots]
      BY <1>a, <1>11, <2>1 DEF OnClose, TypeOK
    <2>3. QED
      BY <1>a, <1>11, <2>2 DEF OnClose, TypeInv, TypeOK
  <1>12. ASSUME NEW w \in Workers, deleted = {}, CloseHandle(w) PROVE TypeInv'
    <2>1. /\ m_nRef' \in [Slots -> Nat] /\ deleted' \subseteq Slots
          /\ deleted' = {} => \A r \in Slots : m_nRef'[r] > 0
      BY <1>a, <1>12, ReleaseType DEF CloseHandle, TypeOK
    <2>2. closed' \in [Conns -> Nat]
      BY <1>a, <1>12, ClosedType DEF CloseHandle, TypeOK
    <2>3. QED
      BY <1>a, <1>12, <2>1, <2>2 DEF CloseHandle, AfterReadOrClose, TypeInv, TypeOK
  <1>13. ASSUME NEW w \in Workers, deleted = {}, EndCallback(w) PROVE TypeInv'
    <2>1. /\ m_nRef' \in [Slots -> Nat] /\ deleted' \subseteq Slots
          /\ deleted' = {} => \A r \in Slots : m_nRef'[r] > 0
      BY <1>a, <1>13, ReleaseType DEF EndCallback, TypeOK
    <2>2. QED
      BY <1>a, <1>13, <2>1 DEF EndCallback, TypeInv, TypeOK
  <1>14. ASSUME NEW s \in Slots, Complete(s) PROVE TypeInv'
    <2>1. PICK r \in Results : port' = [port EXCEPT ![s] = Append(port[s], r)]
      BY <1>14 DEF Complete, Results
    <2>2. Append(port[s], r) \in Seq(Results)
      BY <1>a, AppendProperties DEF TypeOK, Results
    <2>3. port' \in [Slots -> Seq(Results)]
      BY <1>a, <2>1, <2>2 DEF TypeOK, Results
    <2>4. reads' \in [Slots -> Nat]
      BY <1>a, <1>14 DEF Complete, TypeOK
    <2>5. QED
      BY <1>a, <1>14, <2>3, <2>4 DEF Complete, TypeInv, TypeOK, Results
  <1>15. CASE UNCHANGED vars
    BY <1>a, <1>15 DEF vars, TypeInv, TypeOK
  <1>16. QED
    BY <1>1, <1>2, <1>3, <1>4, <1>5, <1>6, <1>7, <1>8, <1>9, <1>10, <1>11, <1>12, <1>13, <1>14, <1>15
       DEF Next, Work

\* Type correctness: no reference is taken back twice while nothing is deleted,
\* and CreateSocket searches no more often than it may.
THEOREM TypeCorrect == Spec => []TypeOK
  <1>1. TypeInv => TypeOK
    BY DEF TypeInv
  <1>2. QED
    BY <1>1, TypeInit, TypeStep, PTL DEF Spec

-----------------------------------------------------------------------------
\* The chain of reads.

\* A worker is on its way from the connection of a slot to its next read, or to
\* its close.
Active(w, s) == at[w] \in DriveLabels /\ slot[w] = s

\* An unused slot is clean, and nobody is at work on it.
Clean(s) == /\ m_nId[s] = 0 /\ "CONNECTED" \notin bits[s] /\ m_hSocket[s] = Invalid
            /\ Pending(s) = 0 /\ \A w \in Workers : ~Active(w, s)

SlotInv(s) ==
    /\ \A v, w \in Workers : Active(v, s) /\ Active(w, s) => v = w
    /\ \A w \in Workers : Active(w, s) => Pending(s) = 0
    /\ Pending(s) <= 1
    /\ m_hSocket[s] # Invalid => Pending(s) = 1 \/ \E w \in Workers : Active(w, s)
    /\ "NOT_USED" \in bits[s] => Clean(s)
    /\ \A w \in Workers : Active(w, s) /\ at[w] = "onClose" => m_hSocket[s] = Invalid

ChainInv == \A s \in Slots : SlotInv(s)

LEMMA SlotTypes ==
    ASSUME TypeInv
    PROVE  /\ \A s \in Slots : /\ reads[s] \in Nat /\ Len(port[s]) \in Nat /\ Pending(s) \in Nat
                               /\ port[s] \in Seq(Results)
                               /\ (port[s] # <<>> => Len(port[s]) > 0)
           /\ at \in [Workers -> {"get", "scan", "lock", "initialize", "read", "recv", "release",
                                  "onRead", "exchange", "onClose", "closesocket"}]
           /\ slot \in [Workers -> Slots] /\ reads \in [Slots -> Nat]
           /\ port \in [Slots -> Seq(Results)]
           /\ bits \in [Slots -> SUBSET {"NOT_USED", "CONNECTED"}]
           /\ m_nId \in [Slots -> Slots] /\ m_hSocket \in [Slots -> Conns \union {Invalid}]
           /\ hSocket \in [Workers -> Conns \union {Invalid}]
  <1>1. ASSUME NEW s \in Slots
        PROVE  /\ reads[s] \in Nat /\ Len(port[s]) \in Nat /\ Pending(s) \in Nat
               /\ port[s] \in Seq(Results)
               /\ (port[s] # <<>> => Len(port[s]) > 0)
    <2>1. port[s] \in Seq(Results) /\ reads[s] \in Nat
      BY DEF TypeInv, TypeOK, Results
    <2>2. Len(port[s]) \in Nat
      BY <2>1, LenProperties
    <2>3. port[s] # <<>> => Len(port[s]) > 0
      BY <2>1, EmptySeq
    <2>4. QED
      BY <2>1, <2>2, <2>3 DEF Pending
  <1>2. /\ at \in [Workers -> {"get", "scan", "lock", "initialize", "read", "recv", "release",
                                  "onRead", "exchange", "onClose", "closesocket"}]
        /\ slot \in [Workers -> Slots] /\ reads \in [Slots -> Nat]
        /\ port \in [Slots -> Seq(Results)]
        /\ bits \in [Slots -> SUBSET {"NOT_USED", "CONNECTED"}]
        /\ m_nId \in [Slots -> Slots] /\ m_hSocket \in [Slots -> Conns \union {Invalid}]
        /\ hSocket \in [Workers -> Conns \union {Invalid}]
    BY DEF TypeInv, TypeOK, Results
  <1>3. QED
    BY <1>1, <1>2

LEMMA ChainInit == Init => ChainInv
  <1> SUFFICES ASSUME Init PROVE ChainInv
    OBVIOUS
  <1>1. Len(<<>>) = 0
    OBVIOUS
  <1>2. /\ \A s \in Slots : Pending(s) = 0 /\ m_hSocket[s] = Invalid /\ m_nId[s] = 0 /\ bits[s] = {"NOT_USED"}
        /\ \A w \in Workers : at[w] = "get"
    BY <1>1 DEF Init, Pending
  <1>3. QED
    BY <1>2 DEF ChainInv, SlotInv, Clean, Active, DriveLabels

\* A step that leaves a slot, its reads and those at work on it alone.
LEMMA SlotQuiet ==
    ASSUME NEW s \in Slots, SlotInv(s),
           bits'[s] = bits[s], m_nId'[s] = m_nId[s], m_hSocket'[s] = m_hSocket[s],
           Pending(s)' = Pending(s),
           \A w \in Workers : /\ Active(w, s)' <=> Active(w, s)
                              /\ Active(w, s) /\ at'[w] = "onClose" => at[w] = "onClose"
    PROVE  SlotInv(s)'
  <1>1. \A v, w \in Workers : Active(v, s)' /\ Active(w, s)' => v = w
    BY DEF SlotInv
  <1>2. \A w \in Workers : Active(w, s)' => Pending(s)' = 0
    BY DEF SlotInv
  <1>3. Pending(s)' <= 1
    BY DEF SlotInv
  <1>4. m_hSocket'[s] # Invalid => Pending(s)' = 1 \/ \E w \in Workers : Active(w, s)'
    BY DEF SlotInv
  <1>5. "NOT_USED" \in bits'[s] => Clean(s)'
    BY DEF SlotInv, Clean
  <1>6. \A w \in Workers : Active(w, s)' /\ at'[w] = "onClose" => m_hSocket'[s] = Invalid
    BY DEF SlotInv
  <1>7. QED
    BY <1>1, <1>2, <1>3, <1>4, <1>5, <1>6 DEF SlotInv

\* What a move of one worker means for the slots.
LEMMA Moves ==
    ASSUME TypeInv, NEW w \in Workers, NEW l, NEW s \in Slots,
           at' = [at EXCEPT ![w] = l], slot' = [slot EXCEPT ![w] = s]
    PROVE  /\ \A v \in Workers : v # w => at'[v] = at[v] /\ slot'[v] = slot[v]
           /\ \A v \in Workers, r \in Slots : v # w => (Active(v, r)' <=> Active(v, r))
           /\ at'[w] = l /\ slot'[w] = s
           /\ \A r \in Slots : Active(w, r)' <=> (l \in DriveLabels /\ r = s)
  <1>1. /\ \A v \in Workers : v # w => at'[v] = at[v] /\ slot'[v] = slot[v]
        /\ at'[w] = l /\ slot'[w] = s
    BY SlotTypes
  <1>2. QED
    BY <1>1 DEF Active

\* The same for a worker that keeps its slot.
LEMMA MovesOn ==
    ASSUME TypeInv, NEW w \in Workers, NEW l, NEW s \in Slots, s = slot[w],
           at' = [at EXCEPT ![w] = l], slot' = slot
    PROVE  /\ \A v \in Workers : v # w => at'[v] = at[v] /\ slot'[v] = slot[v]
           /\ \A v \in Workers, r \in Slots : v # w => (Active(v, r)' <=> Active(v, r))
           /\ at'[w] = l /\ slot'[w] = s
           /\ \A r \in Slots : Active(w, r)' <=> (l \in DriveLabels /\ r = s)
  <1>1. slot' = [slot EXCEPT ![w] = s]
    BY SlotTypes
  <1>2. QED
    BY <1>1, Moves

\* A worker moves on, and no slot changes.
LEMMA ChainMove ==
    ASSUME TypeInv, ChainInv, NEW w \in Workers, NEW l, NEW s \in Slots,
           UNCHANGED <<bits, m_nId, m_hSocket, reads, port>>,
           at' = [at EXCEPT ![w] = l], slot' = [slot EXCEPT ![w] = s],
           at[w] \in DriveLabels => slot[w] = s,
           l \in DriveLabels <=> at[w] \in DriveLabels, l # "onClose"
    PROVE  ChainInv'
  <1> SUFFICES ASSUME NEW r \in Slots PROVE SlotInv(r)'
    BY DEF ChainInv
  <1>1. Pending(r)' = Pending(r)
    BY DEF Pending
  <1>2. \A v \in Workers : /\ Active(v, r)' <=> Active(v, r)
                           /\ Active(v, r) /\ at'[v] = "onClose" => at[v] = "onClose"
    <2>1. Active(w, r)' <=> (l \in DriveLabels /\ r = s)
      BY Moves
    <2>2. \A v \in Workers : v # w => (Active(v, r)' <=> Active(v, r)) /\ at'[v] = at[v]
      BY Moves
    <2>3. Active(w, r) <=> (at[w] \in DriveLabels /\ r = s)
      BY DEF Active
    <2>4. at'[w] = l
      BY Moves
    <2>5. Active(w, r)' <=> Active(w, r)
      BY <2>1, <2>3
    <2>6. QED
      BY <2>2, <2>4, <2>5
  <1>3. SlotInv(r)
    BY DEF ChainInv
  <1>4. QED
    BY <1>1, <1>2, <1>3, SlotQuiet

\* A step at one slot leaves the others alone.
LEMMA OtherSlots ==
    ASSUME TypeInv, ChainInv, NEW w \in Workers, NEW l, NEW s \in Slots, NEW r \in Slots, r # s,
           at' = [at EXCEPT ![w] = l], slot' = [slot EXCEPT ![w] = s],
           at[w] \in DriveLabels => slot[w] = s,
           bits'[r] = bits[r], m_nId'[r] = m_nId[r], m_hSocket'[r] = m_hSocket[r],
           reads'[r] = reads[r], port'[r] = port[r]
    PROVE  SlotInv(r)'
  <1>1. Pending(r)' = Pending(r)
    BY DEF Pending
  <1>2. ~Active(w, r)
    BY DEF Active
  <1>3. \A v \in Workers : /\ Active(v, r)' <=> Active(v, r)
                           /\ Active(v, r) /\ at'[v] = "onClose" => at[v] = "onClose"
    <2>1. /\ \A v \in Workers : v # w => (Active(v, r)' <=> Active(v, r)) /\ at'[v] = at[v]
          /\ ~Active(w, r)'
      BY Moves
    <2>2. QED
      BY <1>2, <2>1
  <1>4. SlotInv(r)
    BY DEF ChainInv
  <1>5. QED
    BY <1>1, <1>3, <1>4, SlotQuiet

\* A slot is handed out.
LEMMA ChainTake == ASSUME TypeInv, ChainInv, NEW w \in Workers, Take(w) PROVE ChainInv'
  <1>1. PICK s \in Slots : s = slot[w]
    BY SlotTypes
  <1>2. /\ at[w] = "lock" /\ "NOT_USED" \in bits[s]
        /\ bits' = [bits EXCEPT ![s] = (bits[s] \ {"NOT_USED"}) \union {"CONNECTED"}]
        /\ m_nId' = [m_nId EXCEPT ![s] = s] /\ m_hSocket' = [m_hSocket EXCEPT ![s] = hSocket[w]]
        /\ at' = [at EXCEPT ![w] = "initialize"] /\ reads' = reads /\ port' = port /\ slot' = slot
    BY <1>1 DEF Take, StillUnused, Go, Set
  <1>3. slot' = [slot EXCEPT ![w] = s]
    BY <1>1, <1>2, SlotTypes
  <1>4. SlotInv(s)'
    <2>1. Clean(s)
      BY <1>2 DEF ChainInv, SlotInv
    <2>2. "NOT_USED" \notin bits'[s]
      BY <1>2, SlotTypes
    <2>3. Pending(s)' = 0
      BY <1>2, <2>1 DEF Pending, Clean
    <2>4. \A v \in Workers : Active(v, s)' <=> v = w
      <3>1. "initialize" \in DriveLabels
        BY DEF DriveLabels
      <3>2. /\ \A v \in Workers : v # w => (Active(v, s)' <=> Active(v, s))
            /\ Active(w, s)'
        BY <1>2, <1>3, <3>1, Moves
      <3>3. \A v \in Workers : ~Active(v, s)
        BY <2>1 DEF Clean
      <3>4. QED
        BY <3>2, <3>3
    <2>5. at'[w] # "onClose"
      BY <1>2, <1>3, Moves
    <2>6. QED
      BY <2>2, <2>3, <2>4, <2>5 DEF SlotInv
  <1>5. ASSUME NEW r \in Slots, r # s PROVE SlotInv(r)'
    <2>1. bits'[r] = bits[r] /\ m_nId'[r] = m_nId[r] /\ m_hSocket'[r] = m_hSocket[r]
      BY <1>2, <1>5, SlotTypes
    <2>2. QED
      BY <1>1, <1>2, <1>3, <1>5, <2>1, OtherSlots
  <1>6. QED
    BY <1>4, <1>5 DEF ChainInv

\* Another worker was faster.  A slot that is not used is clean, so that none
\* is reset by force.
LEMMA ChainRetry == ASSUME TypeInv, ChainInv, NEW w \in Workers, Retry(w) PROVE ChainInv'
  <1>1. PICK s \in Slots : s = slot[w]
    BY SlotTypes
  <1>2. /\ at[w] = "lock" /\ ~(StillUnused(s) /\ CheckResetData(s))
        /\ ~StillUnused(s) => bits' = bits /\ m_nId' = m_nId
        /\ at' = [at EXCEPT ![w] = "scan"]
        /\ m_hSocket' = m_hSocket /\ reads' = reads /\ port' = port /\ slot' = slot
    BY <1>1 DEF Retry, Go
  <1>3. ~StillUnused(s)
    BY <1>2 DEF ChainInv, SlotInv, Clean, StillUnused, CheckResetData
  <1>4. slot' = [slot EXCEPT ![w] = s]
    BY <1>1, <1>2, SlotTypes
  <1>5. "scan" \notin DriveLabels /\ at[w] \notin DriveLabels
    BY <1>2 DEF DriveLabels
  <1>6. QED
    BY <1>2, <1>3, <1>4, <1>5, ChainMove

\* WSARecv is accepted, or the connection is closed.
LEMMA ChainRecv == ASSUME TypeInv, ChainInv, NEW w \in Workers, Recv(w) PROVE ChainInv'
  <1>1. PICK s \in Slots : s = slot[w]
    BY SlotTypes
  <1>2. PICK l \in {"get", "release"} : l = AfterReadOrClose(w)
    BY DEF AfterReadOrClose
  <1>3. /\ at[w] = "recv" /\ bits' = bits /\ m_nId' = m_nId /\ m_hSocket' = m_hSocket
        /\ port' = port /\ slot' = slot
    BY DEF Recv, local
  <1>4. slot' = [slot EXCEPT ![w] = s] /\ Active(w, s)
    BY <1>1, <1>3, SlotTypes DEF Active, DriveLabels
  <1>5. CASE at' = [at EXCEPT ![w] = "exchange"] /\ reads' = reads
    <2>1. "exchange" \in DriveLabels /\ at[w] \in DriveLabels
      BY <1>3 DEF DriveLabels
    <2>2. QED
      BY <1>1, <1>3, <1>4, <1>5, <2>1, ChainMove
  <1>6. CASE at' = [at EXCEPT ![w] = l] /\ reads' = [reads EXCEPT ![s] = reads[s] + 1]
    <2>1. SlotInv(s)'
      <3>1. /\ Pending(s) = 0 /\ "NOT_USED" \notin bits[s]
            /\ \A v \in Workers : Active(v, s) => v = w
        BY <1>4 DEF ChainInv, SlotInv, Clean
      <3>2. Pending(s)' = 1
        <4>1. Pending(s)' = (reads[s] + 1) + Len(port[s])
          BY <1>3, <1>6, SlotTypes DEF Pending
        <4>2. reads[s] \in Nat /\ Len(port[s]) \in Nat /\ reads[s] + Len(port[s]) = 0
          BY <3>1, SlotTypes DEF Pending
        <4>3. QED
          BY <4>1, <4>2
      <3>3. \A v \in Workers : ~Active(v, s)'
        <4>1. l \notin DriveLabels
          BY DEF DriveLabels
        <4>2. /\ \A v \in Workers : v # w => (Active(v, s)' <=> Active(v, s))
              /\ ~Active(w, s)'
          BY <1>4, <1>6, <4>1, Moves
        <4>3. QED
          BY <3>1, <4>2
      <3>4. "NOT_USED" \notin bits'[s]
        BY <1>3, <3>1
      <3>5. QED
        BY <3>2, <3>3, <3>4 DEF SlotInv
    <2>2. ASSUME NEW r \in Slots, r # s PROVE SlotInv(r)'
      <3>1. reads'[r] = reads[r]
        BY <1>6, <2>2, SlotTypes
      <3>2. QED
        BY <1>1, <1>3, <1>4, <1>6, <2>2, <3>1, OtherSlots
    <2>3. QED
      BY <2>1, <2>2 DEF ChainInv
  <1>7. QED
    BY <1>1, <1>2, <1>5, <1>6 DEF Recv, Go, Set

\* A read becomes a packet of the port, and is as outstanding as before.
LEMMA PendingComplete ==
    ASSUME TypeInv, NEW s \in Slots, Complete(s), NEW r \in Slots PROVE Pending(r)' = Pending(r)
  <1>1. reads[s] > 0 /\ reads' = [reads EXCEPT ![s] = reads[s] - 1]
    BY DEF Complete, Set
  <1>2. PICK x \in Results : port' = [port EXCEPT ![s] = Append(port[s], x)]
    BY DEF Complete, Set, Results
  <1>3. CASE r # s
    <2>1. reads'[r] = reads[r] /\ port'[r] = port[r]
      BY <1>1, <1>2, <1>3
    <2>2. QED
      BY <2>1 DEF Pending
  <1>4. CASE r = s
    <2>1. reads'[r] = reads[r] - 1 /\ reads[r] \in Nat
      BY <1>1, <1>4, SlotTypes
    <2>2. Len(port'[r]) = Len(port[r]) + 1 /\ Len(port[r]) \in Nat
      <3>1. port \in [Slots -> Seq(Results)]
        BY SlotTypes
      <3>2. port'[r] = Append(port[r], x)
        BY <1>2, <1>4, <3>1
      <3>3. port[r] \in Seq(Results)
        BY <3>1
      <3>4. QED
        BY <3>2, <3>3, AppendProperties, LenProperties
    <2>3. QED
      BY <2>1, <2>2 DEF Pending
  <1>5. QED
    BY <1>3, <1>4

LEMMA ChainComplete == ASSUME TypeInv, ChainInv, NEW s \in Slots, Complete(s) PROVE ChainInv'
  <1> SUFFICES ASSUME NEW r \in Slots PROVE SlotInv(r)'
    BY DEF ChainInv
  <1>1. bits' = bits /\ m_nId' = m_nId /\ m_hSocket' = m_hSocket /\ at' = at /\ slot' = slot
    BY DEF Complete, local
  <1>2. Pending(r)' = Pending(r)
    BY PendingComplete
  <1>3. \A v \in Workers : /\ Active(v, r)' <=> Active(v, r)
                           /\ Active(v, r) /\ at'[v] = "onClose" => at[v] = "onClose"
    BY <1>1 DEF Active
  <1>4. SlotInv(r)
    BY DEF ChainInv
  <1>5. QED
    BY <1>1, <1>2, <1>3, <1>4, SlotQuiet

\* A worker takes a packet, and with it the chain.
LEMMA ChainCallback == ASSUME TypeInv, ChainInv, NEW w \in Workers, OnIOCallback(w) PROVE ChainInv'
  <1>1. PICK s \in Slots, l \in {"onRead", "exchange"} :
           /\ port[s] # <<>> /\ port' = [port EXCEPT ![s] = Tail(port[s])]
           /\ slot' = [slot EXCEPT ![w] = s] /\ at' = [at EXCEPT ![w] = l]
    BY DEF OnIOCallback, Set, Go
  <1>2. /\ at[w] = "get" /\ at[w] \notin DriveLabels /\ l \in DriveLabels
        /\ bits' = bits /\ m_nId' = m_nId /\ m_hSocket' = m_hSocket /\ reads' = reads
    BY DEF OnIOCallback, DriveLabels
  <1>3. SlotInv(s)'
    <2>1. Pending(s) = 1 /\ Pending(s)' = 0
      <3>1. /\ reads[s] \in Nat /\ Len(port[s]) \in Nat /\ Len(port[s]) > 0
            /\ Pending(s) = reads[s] + Len(port[s]) /\ Pending(s) <= 1
        BY <1>1, SlotTypes DEF Pending, ChainInv, SlotInv
      <3>2. port'[s] = Tail(port[s]) /\ port[s] \in Seq(Results)
        BY <1>1, SlotTypes
      <3>3. Len(port'[s]) = Len(port[s]) - 1
        BY <1>1, <3>2, HeadTailProperties
      <3>4. Pending(s)' = reads[s] + Len(port'[s])
        BY <1>2 DEF Pending
      <3>5. QED
        BY <3>1, <3>3, <3>4
    <2>2. "NOT_USED" \notin bits'[s] /\ \A v \in Workers : ~Active(v, s)
      BY <1>2, <2>1 DEF ChainInv, SlotInv, Clean
    <2>3. /\ \A v \in Workers : v # w => (Active(v, s)' <=> Active(v, s))
          /\ Active(w, s)' /\ at'[w] = l
      BY <1>1, <1>2, Moves
    <2>4. \A v \in Workers : Active(v, s)' <=> v = w
      BY <2>2, <2>3
    <2>5. at'[w] # "onClose"
      BY <2>3
    <2>6. QED
      BY <2>1, <2>2, <2>4, <2>5 DEF SlotInv
  <1>4. ASSUME NEW r \in Slots, r # s PROVE SlotInv(r)'
    <2>1. port'[r] = port[r]
      BY <1>1, <1>4, SlotTypes
    <2>2. QED
      BY <1>1, <1>2, <1>4, <2>1, OtherSlots
  <1>5. QED
    BY <1>3, <1>4 DEF ChainInv

\* Close takes the handle, or finds that there is none.
LEMMA ChainExchange == ASSUME TypeInv, ChainInv, NEW w \in Workers, Exchange(w) PROVE ChainInv'
  <1>1. PICK s \in Slots : s = slot[w]
    BY SlotTypes
  <1>2. PICK l : l = IF m_hSocket[s] # Invalid THEN "onClose" ELSE AfterReadOrClose(w)
    OBVIOUS
  <1>3. /\ at[w] = "exchange" /\ at' = [at EXCEPT ![w] = l]
        /\ m_hSocket' = [m_hSocket EXCEPT ![s] = Invalid]
        /\ bits' = bits /\ m_nId' = m_nId /\ reads' = reads /\ port' = port /\ slot' = slot
    BY <1>1, <1>2 DEF Exchange, Set, Go
  <1>4. slot' = [slot EXCEPT ![w] = s] /\ Active(w, s)
    BY <1>1, <1>3, SlotTypes DEF Active, DriveLabels
  <1>5. SlotInv(s)'
    <2>1. /\ Pending(s) = 0 /\ "NOT_USED" \notin bits'[s]
          /\ \A v \in Workers : Active(v, s) => v = w
      BY <1>3, <1>4 DEF ChainInv, SlotInv, Clean
    <2>2. Pending(s)' = 0
      BY <1>3, <2>1 DEF Pending
    <2>3. m_hSocket'[s] = Invalid
      BY <1>3, SlotTypes
    <2>4. \A v \in Workers : v # w => (Active(v, s)' <=> Active(v, s))
      BY <1>3, <1>4, Moves
    <2>5. \A v \in Workers : Active(v, s)' => v = w
      BY <2>1, <2>4
    <2>6. QED
      BY <2>1, <2>2, <2>3, <2>5 DEF SlotInv
  <1>6. ASSUME NEW r \in Slots, r # s PROVE SlotInv(r)'
    <2>1. m_hSocket'[r] = m_hSocket[r]
      BY <1>3, <1>6, SlotTypes
    <2>2. QED
      BY <1>1, <1>3, <1>4, <1>6, <2>1, OtherSlots
  <1>7. QED
    BY <1>5, <1>6 DEF ChainInv

\* OnClose gives the slot back.
LEMMA ChainOnClose == ASSUME TypeInv, ChainInv, NEW w \in Workers, OnClose(w) PROVE ChainInv'
  <1>1. PICK s \in Slots : s = slot[w]
    BY SlotTypes
  <1>2. /\ at[w] = "onClose" /\ at' = [at EXCEPT ![w] = "closesocket"]
        /\ bits' = [bits EXCEPT ![s] = (bits[s] \ {"CONNECTED"}) \union {"NOT_USED"}]
        /\ m_nId' = [m_nId EXCEPT ![s] = 0]
        /\ m_hSocket' = m_hSocket /\ reads' = reads /\ port' = port /\ slot' = slot
    BY <1>1 DEF OnClose, Set, Go, local
  <1>3. slot' = [slot EXCEPT ![w] = s] /\ Active(w, s) /\ "closesocket" \notin DriveLabels
    BY <1>1, <1>2, SlotTypes DEF Active, DriveLabels
  <1>4. SlotInv(s)'
    <2>1. /\ Pending(s) = 0 /\ m_hSocket[s] = Invalid
          /\ \A v \in Workers : Active(v, s) => v = w
      BY <1>2, <1>3 DEF ChainInv, SlotInv
    <2>2. Pending(s)' = 0
      BY <1>2, <2>1 DEF Pending
    <2>3. m_nId'[s] = 0 /\ "CONNECTED" \notin bits'[s] /\ m_hSocket'[s] = Invalid
      BY <1>2, <2>1, SlotTypes
    <2>4. /\ \A v \in Workers : v # w => (Active(v, s)' <=> Active(v, s))
          /\ ~Active(w, s)'
      BY <1>2, <1>3, Moves
    <2>5. \A v \in Workers : ~Active(v, s)'
      BY <2>1, <2>4
    <2>6. QED
      BY <2>2, <2>3, <2>5 DEF SlotInv, Clean
  <1>5. ASSUME NEW r \in Slots, r # s PROVE SlotInv(r)'
    <2>1. bits'[r] = bits[r] /\ m_nId'[r] = m_nId[r]
      BY <1>2, <1>5, SlotTypes
    <2>2. QED
      BY <1>1, <1>2, <1>3, <1>5, <2>1, OtherSlots
  <1>6. QED
    BY <1>4, <1>5 DEF ChainInv

\* The other steps move a worker and leave the slots alone.
LEMMA ChainRest ==
    ASSUME TypeInv, ChainInv, NEW w \in Workers,
           \/ Accept(w) \/ Scan(w) \/ Refuse(w) \/ Initialize(w) \/ Read(w) \/ OnRead(w)
           \/ LoginOn(w) \/ CloseHandle(w) \/ EndCallback(w)
    PROVE  ChainInv'
  <1>1. PICK s \in Slots : s = slot[w]
    BY SlotTypes
  <1>2. slot = [slot EXCEPT ![w] = s] /\ at = [at EXCEPT ![w] = at[w]]
    BY <1>1, SlotTypes
  <1>3. ASSUME NEW l, at' = [at EXCEPT ![w] = l], slot' = slot,
               UNCHANGED <<bits, m_nId, m_hSocket, reads, port>>,
               l \in DriveLabels <=> at[w] \in DriveLabels, l # "onClose"
        PROVE  ChainInv'
    <2>1. slot' = [slot EXCEPT ![w] = s]
      BY <1>2, <1>3
    <2>2. QED
      BY <1>1, <1>3, <2>1, ChainMove
  <1>4. CASE Accept(w)
    BY <1>3, <1>4 DEF Accept, Go, DriveLabels
  <1>5. CASE Scan(w)
    <2>1. at[w] = "scan" /\ i[w] \in Slots /\ UNCHANGED <<bits, m_nId, m_hSocket, reads, port>>
      BY <1>5 DEF Scan
    <2>2. CASE at' = [at EXCEPT ![w] = "lock"] /\ slot' = [slot EXCEPT ![w] = i[w]]
      <3>1. PICK n \in Slots : n = i[w]
        BY <2>1
      <3>2. slot' = [slot EXCEPT ![w] = n]
        BY <2>2, <3>1
      <3>3. "lock" \notin DriveLabels /\ at[w] \notin DriveLabels
        BY <2>1 DEF DriveLabels
      <3>4. QED
        BY <2>1, <2>2, <3>2, <3>3, ChainMove
    <2>3. CASE at' = at /\ slot' = slot
      <3>1. at' = [at EXCEPT ![w] = "scan"]
        BY <1>2, <2>1, <2>3
      <3>2. QED
        BY <1>3, <2>1, <2>3, <3>1 DEF DriveLabels
    <2>4. QED
      BY <1>5, <2>2, <2>3 DEF Scan, Go, Set
  <1>6. CASE Refuse(w)
    BY <1>3, <1>6 DEF Refuse, Go, DriveLabels
  <1>7. CASE Initialize(w)
    BY <1>3, <1>7 DEF Initialize, Go, DriveLabels, local
  <1>8. CASE Read(w)
    BY <1>3, <1>8 DEF Read, Go, DriveLabels, local
  <1>9. CASE OnRead(w)
    BY <1>3, <1>9 DEF OnRead, Go, DriveLabels, local
  <1>10. CASE LoginOn(w)
    <2>1. /\ at' = [at EXCEPT ![w] = "onRead"] /\ at[w] = "onRead" /\ slot' = slot
          /\ UNCHANGED <<bits, m_nId, m_hSocket, reads, port>>
      BY <1>2, <1>10 DEF LoginOn, local
    <2>2. QED
      BY <1>3, <2>1
  <1>11. CASE CloseHandle(w)
    <2>1. PICK l \in {"get", "release"} : l = AfterReadOrClose(w)
      BY DEF AfterReadOrClose
    <2>2. QED
      BY <1>3, <1>11, <2>1 DEF CloseHandle, Go, DriveLabels
  <1>12. CASE EndCallback(w)
    BY <1>3, <1>12 DEF EndCallback, Go, DriveLabels, local
  <1>13. QED
    BY <1>4, <1>5, <1>6, <1>7, <1>8, <1>9, <1>10, <1>11, <1>12

LEMMA ChainStep == ASSUME TypeInv, ChainInv, [Next]_vars PROVE ChainInv'
  <1>1. ASSUME NEW w \in Workers, Work(w) PROVE ChainInv'
    BY <1>1, ChainTake, ChainRetry, ChainRecv, ChainCallback, ChainExchange, ChainOnClose, ChainRest
       DEF Work
  <1>2. CASE UNCHANGED vars
    <2>1. SUFFICES ASSUME NEW r \in Slots PROVE SlotInv(r)'
      BY DEF ChainInv
    <2>2. /\ bits' = bits /\ m_nId' = m_nId /\ m_hSocket' = m_hSocket
          /\ reads' = reads /\ port' = port /\ at' = at /\ slot' = slot
      BY <1>2 DEF vars, local
    <2>3. SlotInv(r) /\ Pending(r)' = Pending(r)
      BY <2>2 DEF ChainInv, Pending
    <2>4. \A v \in Workers : /\ Active(v, r)' <=> Active(v, r)
                             /\ Active(v, r) /\ at'[v] = "onClose" => at[v] = "onClose"
      BY <2>2 DEF Active
    <2>5. QED
      BY <2>2, <2>3, <2>4, SlotQuiet
  <1>3. QED
    BY <1>1, <1>2, ChainComplete DEF Next

LEMMA DrivingIsActive == ASSUME NEW s PROVE Driving(s) = {w \in Workers : Active(w, s)}
  BY DEF Driving, Active, DriveLabels

LEMMA ChainInvariant == Spec => [](TypeInv /\ ChainInv)
  BY TypeInit, TypeStep, ChainInit, ChainStep, PTL DEF Spec

\* A slot that CreateSocket may find is clean: the reset by force in
\* CreateSocket never runs on a slot it hands out, and no read of the connection
\* before can arrive at the next one.
THEOREM UnusedIsClean == Spec => []CleanWhenUnused
  <1>1. ChainInv => CleanWhenUnused
    BY DrivingIsActive DEF ChainInv, SlotInv, Clean, CleanWhenUnused, CheckResetData
  <1>2. QED
    BY <1>1, ChainInvariant, PTL

\* The reads of a connection are one chain, begun in Initialize and kept by
\* every callback until Close (BGIOSocket::Read, OnIOCallback, Close).
THEOREM ReadsAreOneChain == Spec => []OneChain
  <1>1. TypeInv /\ ChainInv => OneChain
    <2>1. SUFFICES ASSUME TypeInv, ChainInv, NEW s \in Slots
                   PROVE  /\ Pending(s) + Cardinality(Driving(s)) <= 1
                          /\ m_hSocket[s] # Invalid => Pending(s) + Cardinality(Driving(s)) = 1
      BY DEF OneChain
    <2>2. SlotInv(s)
      BY <2>1 DEF ChainInv
    <2>3. Pending(s) \in Nat
      BY <2>1, SlotTypes
    <2>4. CASE \E w \in Workers : Active(w, s)
      <3>1. PICK w \in Workers : Active(w, s)
        BY <2>4
      <3>2. Driving(s) = {w} /\ Pending(s) = 0
        BY <2>2, <3>1, DrivingIsActive DEF SlotInv
      <3>3. Cardinality(Driving(s)) = 1
        BY <3>2, FS_Singleton
      <3>4. QED
        BY <3>2, <3>3
    <2>5. CASE \A w \in Workers : ~Active(w, s)
      <3>1. Driving(s) = {}
        BY <2>5, DrivingIsActive
      <3>2. Cardinality(Driving(s)) = 0
        BY <3>1, FS_EmptySet
      <3>3. Pending(s) <= 1 /\ (m_hSocket[s] # Invalid => Pending(s) = 1)
        BY <2>2, <2>5 DEF SlotInv
      <3>4. QED
        BY <2>3, <3>2, <3>3
    <2>6. QED
      BY <2>4, <2>5
  <1>2. QED
    BY <1>1, ChainInvariant, PTL

-----------------------------------------------------------------------------
\* The sockets, from accept to closesocket.

InSlot(s, c) == m_hSocket[s] = c
InWorker(w, c) == hSocket[w] = c

\* Nobody has a socket that was closed or not yet accepted; else one slot or
\* one worker has it.
HeldInv(c) ==
    /\ \A r, s \in Slots : InSlot(r, c) /\ InSlot(s, c) => r = s
    /\ \A v, w \in Workers : InWorker(v, c) /\ InWorker(w, c) => v = w
    /\ \A s \in Slots, w \in Workers : ~(InSlot(s, c) /\ InWorker(w, c))
    /\ closed[c] \in {0, 1} /\ (c > accepted => closed[c] = 0)
    /\ closed[c] = 1 \/ c > accepted =>
           (\A s \in Slots : ~InSlot(s, c)) /\ (\A w \in Workers : ~InWorker(w, c))
    /\ closed[c] = 0 /\ c <= accepted =>
           (\E s \in Slots : InSlot(s, c)) \/ (\E w \in Workers : InWorker(w, c))

\* A local variable has a socket only in CreateSocket and in Close.
HandsEmpty(w) == hSocket[w] # Invalid => at[w] \in {"scan", "lock", "onClose", "closesocket"}

SocketInv == (\A c \in Conns : HeldInv(c)) /\ (\A w \in Workers : HandsEmpty(w))

LEMMA HeldTypes ==
    ASSUME TypeInv
    PROVE  /\ at \in [Workers -> {"get", "scan", "lock", "initialize", "read", "recv", "release",
                                  "onRead", "exchange", "onClose", "closesocket"}]
           /\ slot \in [Workers -> Slots]
           /\ m_hSocket \in [Slots -> Conns \union {Invalid}]
           /\ hSocket \in [Workers -> Conns \union {Invalid}]
           /\ closed \in [Conns -> Nat] /\ accepted \in Nat
           /\ Invalid \notin Conns /\ Conns \subseteq Nat
  <1>1. Invalid \notin Conns /\ Conns \subseteq Nat
    BY SlotsOK DEF Invalid, Conns
  <1>2. accepted \in Nat
    BY SlotsOK DEF TypeInv, TypeOK
  <1>3. QED
    BY <1>1, <1>2 DEF TypeInv, TypeOK

LEMMA SocketInit == Init => SocketInv
  <1> SUFFICES ASSUME Init PROVE SocketInv
    OBVIOUS
  <1>1. \A c \in Conns : c > accepted /\ closed[c] = 0 /\ c # Invalid
    BY SlotsOK DEF Init, Conns, Invalid
  <1>2. (\A s \in Slots : m_hSocket[s] = Invalid) /\ (\A w \in Workers : hSocket[w] = Invalid)
    BY DEF Init
  <1>3. ASSUME NEW c \in Conns PROVE HeldInv(c)
    <2>1. (\A s \in Slots : ~InSlot(s, c)) /\ (\A w \in Workers : ~InWorker(w, c))
      BY <1>1, <1>2 DEF InSlot, InWorker
    <2>2. closed[c] = 0 /\ ~(c <= accepted)
      BY <1>1, SlotsOK DEF Init, Conns
    <2>3. QED
      BY <2>1, <2>2 DEF HeldInv
  <1>4. QED
    BY <1>2, <1>3 DEF SocketInv, HandsEmpty

\* A step that does not touch a socket.
LEMMA HeldQuiet ==
    ASSUME NEW c \in Conns, HeldInv(c), closed'[c] = closed[c],
           c > accepted' <=> c > accepted, c <= accepted' <=> c <= accepted,
           \A s \in Slots : InSlot(s, c)' <=> InSlot(s, c),
           \A w \in Workers : InWorker(w, c)' <=> InWorker(w, c)
    PROVE  HeldInv(c)'
  BY DEF HeldInv

\* A step that touches no socket at all.
LEMMA HeldAll ==
    ASSUME \A c \in Conns : HeldInv(c), UNCHANGED <<m_hSocket, hSocket, accepted, closed>>
    PROVE  \A c \in Conns : HeldInv(c)'
  BY HeldQuiet DEF InSlot, InWorker

LEMMA HandsMove ==
    ASSUME TypeInv, \A v \in Workers : HandsEmpty(v), NEW w \in Workers, NEW l,
           at' = [at EXCEPT ![w] = l],
           \A v \in Workers : v # w => hSocket'[v] = hSocket[v],
           hSocket'[w] # Invalid => l \in {"scan", "lock", "onClose", "closesocket"}
    PROVE  \A v \in Workers : HandsEmpty(v)'
  <1>1. \A v \in Workers : at'[v] = IF v = w THEN l ELSE at[v]
    BY HeldTypes
  <1>2. QED
    BY <1>1 DEF HandsEmpty

\* accept returns a new socket.
LEMMA SocketAccept == ASSUME TypeInv, SocketInv, NEW w \in Workers, Accept(w) PROVE SocketInv'
  <1>1. /\ at[w] = "get" /\ at' = [at EXCEPT ![w] = "scan"] /\ m_hSocket' = m_hSocket /\ closed' = closed
    BY DEF Accept, Go
  <1>2. hSocket[w] = Invalid
    BY <1>1 DEF SocketInv, HandsEmpty
  <1>3. CASE accepted' = accepted + 1 /\ hSocket' = [hSocket EXCEPT ![w] = accepted']
    <2>1. /\ \A v \in Workers : v # w => hSocket'[v] = hSocket[v]
          /\ hSocket'[w] = accepted + 1
      BY <1>3, HeldTypes
    <2>2. ASSUME NEW c \in Conns PROVE HeldInv(c)'
      <3>1. c \in Nat /\ accepted \in Nat /\ c # Invalid
        BY HeldTypes
      <3>2. CASE c = accepted + 1
        <4>1. HeldInv(c) /\ c > accepted
          BY <3>1, <3>2 DEF SocketInv
        <4>2. /\ closed'[c] = 0 /\ \A s \in Slots : ~InSlot(s, c)'
              /\ \A v \in Workers : ~InWorker(v, c)
          BY <1>1, <4>1 DEF HeldInv, InSlot
        <4>3. \A v \in Workers : InWorker(v, c)' <=> v = w
          BY <2>1, <3>2, <4>2 DEF InWorker
        <4>4. ~(c > accepted')
          BY <1>3, <3>1, <3>2
        <4>5. QED
          BY <4>2, <4>3, <4>4 DEF HeldInv
      <3>3. CASE c # accepted + 1
        <4>1. (c > accepted' <=> c > accepted) /\ (c <= accepted' <=> c <= accepted)
          BY <1>3, <3>1, <3>3
        <4>2. \A v \in Workers : InWorker(v, c)' <=> InWorker(v, c)
          BY <1>2, <2>1, <3>1, <3>3 DEF InWorker
        <4>3. HeldInv(c)
          BY DEF SocketInv
        <4>4. QED
          BY <1>1, <4>1, <4>2, <4>3, HeldQuiet DEF InSlot
      <3>4. QED
        BY <3>2, <3>3
    <2>3. \A v \in Workers : HandsEmpty(v)'
      BY <1>1, <2>1, HandsMove DEF SocketInv
    <2>4. QED
      BY <2>2, <2>3 DEF SocketInv
  <1>4. CASE accepted' = accepted /\ hSocket' = hSocket
    <2>1. \A c \in Conns : HeldInv(c)'
      BY <1>1, <1>4, HeldAll DEF SocketInv
    <2>2. \A v \in Workers : HandsEmpty(v)'
      BY <1>1, <1>4, HandsMove DEF SocketInv
    <2>3. QED
      BY <2>1, <2>2 DEF SocketInv
  <1>5. QED
    BY <1>3, <1>4 DEF Accept, Set

\* The slot takes over the socket of the worker.
LEMMA SocketTake ==
    ASSUME TypeInv, ChainInv, SocketInv, NEW w \in Workers, Take(w) PROVE SocketInv'
  <1>1. PICK s \in Slots : s = slot[w]
    BY SlotTypes
  <1>2. /\ "NOT_USED" \in bits[s] /\ at' = [at EXCEPT ![w] = "initialize"]
        /\ m_hSocket' = [m_hSocket EXCEPT ![s] = hSocket[w]]
        /\ hSocket' = [hSocket EXCEPT ![w] = Invalid]
        /\ accepted' = accepted /\ closed' = closed
    BY <1>1 DEF Take, StillUnused, Go, Set
  <1>3. m_hSocket[s] = Invalid
    BY <1>2 DEF ChainInv, SlotInv, Clean
  <1>4. /\ \A r \in Slots : r # s => m_hSocket'[r] = m_hSocket[r]
        /\ \A v \in Workers : v # w => hSocket'[v] = hSocket[v]
        /\ m_hSocket'[s] = hSocket[w] /\ hSocket'[w] = Invalid
    BY <1>2, HeldTypes
  <1>5. ASSUME NEW c \in Conns PROVE HeldInv(c)'
    <2>1. c # Invalid /\ HeldInv(c)
      BY HeldTypes DEF SocketInv
    <2>2. CASE hSocket[w] = c
      <3>1. /\ closed[c] = 0 /\ ~(c > accepted)
            /\ \A v \in Workers : InWorker(v, c) => v = w
            /\ \A r \in Slots : ~InSlot(r, c)
        BY <2>1, <2>2 DEF HeldInv, InWorker
      <3>2. /\ \A v \in Workers : ~InWorker(v, c)'
            /\ \A r \in Slots : InSlot(r, c)' <=> r = s
        BY <1>4, <2>1, <2>2, <3>1 DEF InSlot, InWorker
      <3>3. closed'[c] = 0 /\ ~(c > accepted')
        BY <1>2, <3>1
      <3>4. QED
        BY <3>2, <3>3 DEF HeldInv
    <2>3. CASE hSocket[w] # c
      <3>1. /\ \A v \in Workers : InWorker(v, c)' <=> InWorker(v, c)
            /\ \A r \in Slots : InSlot(r, c)' <=> InSlot(r, c)
        BY <1>3, <1>4, <2>1, <2>3 DEF InSlot, InWorker
      <3>2. QED
        BY <1>2, <2>1, <3>1, HeldQuiet
    <2>4. QED
      BY <2>2, <2>3
  <1>6. \A v \in Workers : HandsEmpty(v)'
    BY <1>2, <1>4, HandsMove DEF SocketInv
  <1>7. QED
    BY <1>5, <1>6 DEF SocketInv

\* Close takes the socket of the slot.
LEMMA SocketExchange == ASSUME TypeInv, SocketInv, NEW w \in Workers, Exchange(w) PROVE SocketInv'
  <1>1. PICK s \in Slots : s = slot[w]
    BY SlotTypes
  <1>2. PICK l : l = IF m_hSocket[s] # Invalid THEN "onClose" ELSE AfterReadOrClose(w)
    OBVIOUS
  <1>3. /\ at[w] = "exchange" /\ at' = [at EXCEPT ![w] = l]
        /\ m_hSocket' = [m_hSocket EXCEPT ![s] = Invalid]
        /\ hSocket' = [hSocket EXCEPT ![w] = m_hSocket[s]]
        /\ accepted' = accepted /\ closed' = closed
    BY <1>1, <1>2 DEF Exchange, Set, Go
  <1>4. hSocket[w] = Invalid
    BY <1>3 DEF SocketInv, HandsEmpty
  <1>5. /\ \A r \in Slots : r # s => m_hSocket'[r] = m_hSocket[r]
        /\ \A v \in Workers : v # w => hSocket'[v] = hSocket[v]
        /\ m_hSocket'[s] = Invalid /\ hSocket'[w] = m_hSocket[s]
    BY <1>3, HeldTypes
  <1>6. ASSUME NEW c \in Conns PROVE HeldInv(c)'
    <2>1. c # Invalid /\ HeldInv(c)
      BY HeldTypes DEF SocketInv
    <2>2. CASE m_hSocket[s] = c
      <3>1. /\ closed[c] = 0 /\ ~(c > accepted)
            /\ \A r \in Slots : InSlot(r, c) => r = s
            /\ \A v \in Workers : ~InWorker(v, c)
        BY <2>1, <2>2 DEF HeldInv, InSlot
      <3>2. /\ \A r \in Slots : ~InSlot(r, c)'
            /\ \A v \in Workers : InWorker(v, c)' <=> v = w
        BY <1>5, <2>1, <2>2, <3>1 DEF InSlot, InWorker
      <3>3. closed'[c] = 0 /\ ~(c > accepted')
        BY <1>3, <3>1
      <3>4. QED
        BY <3>2, <3>3 DEF HeldInv
    <2>3. CASE m_hSocket[s] # c
      <3>1. /\ \A v \in Workers : InWorker(v, c)' <=> InWorker(v, c)
            /\ \A r \in Slots : InSlot(r, c)' <=> InSlot(r, c)
        BY <1>4, <1>5, <2>1, <2>3 DEF InSlot, InWorker
      <3>2. QED
        BY <1>3, <2>1, <3>1, HeldQuiet
    <2>4. QED
      BY <2>2, <2>3
  <1>7. \A v \in Workers : HandsEmpty(v)'
    BY <1>2, <1>3, <1>5, HandsMove DEF SocketInv
  <1>8. QED
    BY <1>6, <1>7 DEF SocketInv

\* closesocket, in Close or when no slot is free.
LEMMA SocketClosed ==
    ASSUME TypeInv, SocketInv, NEW w \in Workers, NEW l, at' = [at EXCEPT ![w] = l],
           closed' = ClosedNow(hSocket[w]), hSocket' = [hSocket EXCEPT ![w] = Invalid],
           m_hSocket' = m_hSocket, accepted' = accepted
    PROVE  SocketInv'
  <1>1. /\ \A v \in Workers : v # w => hSocket'[v] = hSocket[v]
        /\ hSocket'[w] = Invalid
    BY HeldTypes
  <1>2. ASSUME NEW c \in Conns PROVE HeldInv(c)'
    <2>1. c # Invalid /\ HeldInv(c)
      BY HeldTypes DEF SocketInv
    <2>2. CASE hSocket[w] = c
      <3>1. /\ closed[c] = 0 /\ ~(c > accepted)
            /\ \A v \in Workers : InWorker(v, c) => v = w
            /\ \A r \in Slots : ~InSlot(r, c)
        BY <2>1, <2>2 DEF HeldInv, InWorker
      <3>2. /\ \A v \in Workers : ~InWorker(v, c)'
            /\ \A r \in Slots : ~InSlot(r, c)'
        BY <1>1, <2>1, <2>2, <3>1 DEF InSlot, InWorker
      <3>3. closed'[c] = 1 /\ ~(c > accepted')
        BY <2>1, <2>2, <3>1, HeldTypes DEF ClosedNow
      <3>4. QED
        BY <3>2, <3>3 DEF HeldInv
    <2>3. CASE hSocket[w] # c
      <3>1. /\ \A v \in Workers : InWorker(v, c)' <=> InWorker(v, c)
            /\ \A r \in Slots : InSlot(r, c)' <=> InSlot(r, c)
        BY <1>1, <2>1, <2>3 DEF InSlot, InWorker
      <3>2. closed'[c] = closed[c]
        BY <2>3, HeldTypes DEF ClosedNow
      <3>3. QED
        BY <2>1, <3>1, <3>2, HeldQuiet
    <2>4. QED
      BY <2>2, <2>3
  <1>3. \A v \in Workers : HandsEmpty(v)'
    BY <1>1, HandsMove DEF SocketInv
  <1>4. QED
    BY <1>2, <1>3 DEF SocketInv

\* The other steps touch no socket.
LEMMA SocketRest ==
    ASSUME TypeInv, SocketInv, NEW w \in Workers,
           \/ Scan(w) \/ Retry(w) \/ Initialize(w) \/ Read(w) \/ Recv(w) \/ OnIOCallback(w)
           \/ LoginOn(w) \/ OnRead(w) \/ OnClose(w) \/ EndCallback(w)
    PROVE  SocketInv'
  <1>1. UNCHANGED <<m_hSocket, hSocket, accepted, closed>>
    BY DEF Scan, Retry, Initialize, Read, Recv, OnIOCallback, LoginOn, OnRead, OnClose,
           EndCallback, local
  <1>2. \A c \in Conns : HeldInv(c)'
    BY <1>1, HeldAll DEF SocketInv
  <1>3. ASSUME NEW l, at' = [at EXCEPT ![w] = l],
               \/ at[w] \notin {"scan", "lock", "onClose", "closesocket"}
               \/ l \in {"scan", "lock", "onClose", "closesocket"}
        PROVE  \A v \in Workers : HandsEmpty(v)'
    <2>1. hSocket'[w] # Invalid => l \in {"scan", "lock", "onClose", "closesocket"}
      BY <1>1, <1>3 DEF SocketInv, HandsEmpty
    <2>2. QED
      BY <1>1, <1>3, <2>1, HandsMove DEF SocketInv
  <1>4. \A v \in Workers : HandsEmpty(v)'
    <2>1. CASE Scan(w)
      <3>1. CASE at' = at
        BY <1>1, <3>1 DEF SocketInv, HandsEmpty
      <3>2. CASE at' = [at EXCEPT ![w] = "lock"]
        BY <1>3, <3>2
      <3>3. QED
        BY <2>1, <3>1, <3>2 DEF Scan, Go
    <2>2. CASE Retry(w)
      BY <1>3, <2>2 DEF Retry, Go
    <2>3. CASE Initialize(w) \/ Read(w) \/ Recv(w) \/ OnRead(w) \/ EndCallback(w)
      <3>1. /\ at[w] \notin {"scan", "lock", "onClose", "closesocket"}
            /\ \E l : at' = [at EXCEPT ![w] = l]
        BY <2>3 DEF Initialize, Read, Recv, OnRead, EndCallback, Go
      <3>2. QED
        BY <1>3, <3>1
    <2>4. CASE OnIOCallback(w)
      <3>1. at[w] = "get" /\ \E l : at' = [at EXCEPT ![w] = l]
        BY <2>4 DEF OnIOCallback, Go
      <3>2. QED
        BY <1>3, <3>1
    <2>5. CASE LoginOn(w)
      <3>1. at' = at
        BY <2>5 DEF LoginOn
      <3>2. QED
        BY <1>1, <3>1 DEF SocketInv, HandsEmpty
    <2>6. CASE OnClose(w)
      BY <1>3, <2>6 DEF OnClose, Go
    <2>7. QED
      BY <2>1, <2>2, <2>3, <2>4, <2>5, <2>6
  <1>5. QED
    BY <1>2, <1>4 DEF SocketInv

LEMMA SocketStep == ASSUME TypeInv, ChainInv, SocketInv, [Next]_vars PROVE SocketInv'
  <1>1. ASSUME NEW w \in Workers, Refuse(w) PROVE SocketInv'
    <2>1. at' = [at EXCEPT ![w] = "get"]
      BY <1>1 DEF Refuse, Go
    <2>2. QED
      BY <1>1, <2>1, SocketClosed DEF Refuse, Set
  <1>2. ASSUME NEW w \in Workers, CloseHandle(w) PROVE SocketInv'
    <2>1. PICK l \in {"get", "release"} : l = AfterReadOrClose(w)
      BY DEF AfterReadOrClose
    <2>2. at' = [at EXCEPT ![w] = l]
      BY <1>2, <2>1 DEF CloseHandle, Go
    <2>3. QED
      BY <1>2, <2>2, SocketClosed DEF CloseHandle, Set
  <1>3. ASSUME NEW w \in Workers, Work(w) PROVE SocketInv'
    BY <1>1, <1>2, <1>3, SocketAccept, SocketTake, SocketExchange, SocketRest DEF Work
  <1>4. ASSUME UNCHANGED <<m_hSocket, hSocket, accepted, closed, at>> PROVE SocketInv'
    <2>1. \A c \in Conns : HeldInv(c)'
      BY <1>4, HeldAll DEF SocketInv
    <2>2. QED
      BY <1>4, <2>1 DEF SocketInv, HandsEmpty
  <1>5. ASSUME NEW s \in Slots, Complete(s) PROVE SocketInv'
    BY <1>4, <1>5 DEF Complete, local
  <1>6. CASE UNCHANGED vars
    BY <1>4, <1>6 DEF vars, local
  <1>7. QED
    BY <1>3, <1>5, <1>6 DEF Next

\* Every accepted socket is in one slot or in one worker's hands until it is
\* closed, and closed once (CreateSocket, OnIOCallback, Close).
THEOREM SocketsAreHeldOnce == Spec => []SocketHeldOnce
  <1>1. TypeInv /\ SocketInv => SocketHeldOnce
    <2> SUFFICES ASSUME TypeInv, SocketInv, NEW c \in 1..accepted
                 PROVE  Cardinality({s \in Slots : m_hSocket[s] = c})
                            + Cardinality({w \in Workers : hSocket[w] = c}) + closed[c] = 1
      BY DEF SocketHeldOnce
    <2> DEFINE S == {s \in Slots : InSlot(s, c)}
               W == {w \in Workers : InWorker(w, c)}
    <2>1. c \in Conns /\ c <= accepted
      BY SlotsOK DEF Conns, TypeInv, TypeOK
    <2>2. HeldInv(c)
      BY <2>1 DEF SocketInv
    <2>3. CASE closed[c] = 1
      <3>1. S = {} /\ W = {}
        BY <2>2, <2>3 DEF HeldInv
      <3>2. Cardinality(S) = 0 /\ Cardinality(W) = 0
        BY <3>1, FS_EmptySet
      <3>3. QED
        BY <2>3, <3>2 DEF InSlot, InWorker
    <2>4. CASE \E s \in Slots : InSlot(s, c)
      <3>1. PICK s \in Slots : InSlot(s, c)
        BY <2>4
      <3>2. S = {s} /\ W = {} /\ closed[c] = 0
        BY <2>2, <3>1 DEF HeldInv
      <3>3. Cardinality(S) = 1 /\ Cardinality(W) = 0
        BY <3>2, FS_EmptySet, FS_Singleton
      <3>4. QED
        BY <3>2, <3>3 DEF InSlot, InWorker
    <2>5. CASE \E w \in Workers : InWorker(w, c)
      <3>1. PICK w \in Workers : InWorker(w, c)
        BY <2>5
      <3>2. W = {w} /\ S = {} /\ closed[c] = 0
        BY <2>2, <3>1 DEF HeldInv
      <3>3. Cardinality(W) = 1 /\ Cardinality(S) = 0
        BY <3>2, FS_EmptySet, FS_Singleton
      <3>4. QED
        BY <3>2, <3>3 DEF InSlot, InWorker
    <2>6. QED
      BY <2>1, <2>2, <2>3, <2>4, <2>5 DEF HeldInv
  <1>2. QED
    BY <1>1, TypeInit, TypeStep, ChainInit, ChainStep, SocketInit, SocketStep, PTL DEF Spec

-----------------------------------------------------------------------------
\* The references.

\* What a worker at a, in callback j, may still take off the references of its
\* slot, whose socket is h: that of its callback; before Close the one that
\* Close releases, which is the callback's own after a failed read only.
Share(a, j, h) ==
    IF a \notin DriveLabels \union {"closesocket", "release"} THEN 0
    ELSE IF \/ a = "recv"
            \/ j # "readFail" /\ (a \in {"onClose", "closesocket"} \/ (a = "exchange" /\ h # Invalid))
         THEN 2
    ELSE 1

Holders(s) == {w \in Workers : slot[w] = s /\ Share(at[w], job[w], m_hSocket[s]) > 0}
Doubled(s) == {w \in Workers : slot[w] = s /\ Share(at[w], job[w], m_hSocket[s]) = 2}

\* The references of a slot are its own, one for a read outstanding, and the
\* shares of the workers; Close may have taken the slot's own.
RefInv(s) == /\ IsFiniteSet(Holders(s)) /\ IsFiniteSet(Doubled(s))
             /\ m_nRef[s] <= 1 + Pending(s) + Cardinality(Holders(s)) + Cardinality(Doubled(s))

\* While there is something to read, or a read has failed, the socket is open;
\* a failed read leads to Close only.
Standing(w) == /\ \/ at[w] \in {"read", "recv", "onRead"}
                  \/ at[w] = "exchange" /\ job[w] = "readFail"
                  => m_hSocket[slot[w]] # Invalid
               /\ job[w] = "readFail" => at[w] \in {"get", "exchange", "onClose", "closesocket"}
OpenInv == /\ \A w \in Workers : Standing(w)
           /\ \A s \in Slots : Pending(s) # 0 => m_hSocket[s] # Invalid

Alive == \A s \in Slots \ deleted : m_nRef[s] > 0

\* A set that gains or loses at most one element.
LEMMA OneChanges ==
    ASSUME NEW A, NEW B, NEW w, IsFiniteSet(A), \A v : v # w => (v \in B <=> v \in A)
    PROVE  /\ IsFiniteSet(B) /\ Cardinality(A) \in Nat /\ Cardinality(B) \in Nat
           /\ Cardinality(B) + (IF w \in A THEN 1 ELSE 0) = Cardinality(A) + (IF w \in B THEN 1 ELSE 0)
  <1>1. CASE w \in A /\ w \in B
    <2>1. A = B
      BY <1>1
    <2>2. QED
      BY <1>1, <2>1, FS_CardinalityType
  <1>2. CASE w \notin A /\ w \notin B
    <2>1. A = B
      BY <1>2
    <2>2. QED
      BY <1>2, <2>1, FS_CardinalityType
  <1>3. CASE w \in A /\ w \notin B
    <2>1. B = A \ {w}
      BY <1>3
    <2>2. IsFiniteSet(B) /\ Cardinality(B) = Cardinality(A) - 1
      BY <1>3, <2>1, FS_RemoveElement
    <2>3. Cardinality(A) \in Nat /\ Cardinality(B) \in Nat
      BY <2>2, FS_CardinalityType
    <2>4. QED
      BY <1>3, <2>2, <2>3
  <1>4. CASE w \notin A /\ w \in B
    <2>1. B = A \union {w}
      BY <1>4
    <2>2. IsFiniteSet(B) /\ Cardinality(B) = Cardinality(A) + 1
      BY <1>4, <2>1, FS_AddElement
    <2>3. Cardinality(A) \in Nat /\ Cardinality(B) \in Nat
      BY <2>2, FS_CardinalityType
    <2>4. QED
      BY <1>4, <2>2, <2>3
  <1>5. QED
    BY <1>1, <1>2, <1>3, <1>4

LEMMA PendingTypes == ASSUME TypeInv, TypeInv', NEW s \in Slots
                      PROVE  Pending(s) \in Nat /\ Pending(s)' \in Nat
  <1>1. reads[s] \in Nat /\ port[s] \in Seq(Results) /\ reads'[s] \in Nat /\ port'[s] \in Seq(Results)
    BY DEF TypeInv, TypeOK, Results
  <1>2. Len(port[s]) \in Nat /\ Len(port'[s]) \in Nat
    BY <1>1, LenProperties
  <1>3. Pending(s) = reads[s] + Len(port[s]) /\ Pending(s)' = reads'[s] + Len(port'[s])
    BY DEF Pending
  <1>4. QED
    BY <1>1, <1>2, <1>3

\* One worker moves on: its share of its slot may change, and nobody else's.
LEMMA RefMove ==
    ASSUME TypeInv, TypeInv', NEW w \in Workers, NEW l, NEW j, NEW s \in Slots, NEW h,
           \A r \in Slots : RefInv(r),
           at' = [at EXCEPT ![w] = l], slot' = [slot EXCEPT ![w] = s], job' = [job EXCEPT ![w] = j],
           Share(at[w], job[w], m_hSocket[s]) > 0 => slot[w] = s,
           m_hSocket'[s] = h,
           h = m_hSocket[s] \/ \A v \in Workers : Active(v, s) => v = w,
           \A r \in Slots : r # s => /\ m_hSocket'[r] = m_hSocket[r] /\ m_nRef'[r] = m_nRef[r]
                                     /\ Pending(r)' = Pending(r),
           m_nRef'[s] + Pending(s) + Share(at[w], job[w], m_hSocket[s])
               <= m_nRef[s] + Pending(s)' + Share(l, j, h)
    PROVE  \A r \in Slots : RefInv(r)'
  <1>1. /\ \A v \in Workers : v # w => at'[v] = at[v] /\ slot'[v] = slot[v] /\ job'[v] = job[v]
        /\ at'[w] = l /\ slot'[w] = s /\ job'[w] = j
    BY DEF TypeInv, TypeOK
  <1>2. ASSUME NEW a, NEW k, NEW x PROVE Share(a, k, x) \in 0..2
    BY DEF Share
  <1>3. ASSUME NEW r \in Slots, r # s PROVE RefInv(r)'
    <2>1. ~(slot[w] = r /\ Share(at[w], job[w], m_hSocket[r]) > 0)
      BY <1>3 DEF Share
    <2>2. \A v \in Workers : v \in Holders(r)' <=> v \in Holders(r)
      BY <1>1, <1>3, <2>1 DEF Holders
    <2>3. \A v \in Workers : v \in Doubled(r)' <=> v \in Doubled(r)
      BY <1>1, <1>3, <2>1 DEF Doubled
    <2>4. Holders(r)' = Holders(r) /\ Doubled(r)' = Doubled(r)
      BY <2>2, <2>3 DEF Holders, Doubled
    <2>5. RefInv(r) /\ m_nRef'[r] = m_nRef[r] /\ Pending(r)' = Pending(r)
      BY <1>3
    <2>6. QED
      BY <2>4, <2>5 DEF RefInv
  <1>4. RefInv(s)'
    <2>1. ASSUME NEW v \in Workers, v # w
          PROVE  slot[v] = s => Share(at'[v], job'[v], h) = Share(at[v], job[v], m_hSocket[s])
      <3>1. at'[v] = at[v] /\ job'[v] = job[v]
        BY <1>1, <2>1
      <3>2. CASE h = m_hSocket[s]
        BY <3>1, <3>2
      <3>3. CASE slot[v] = s /\ ~Active(v, s)
        BY <3>1, <3>3 DEF Active, Share, DriveLabels
      <3>4. QED
        BY <2>1, <3>2, <3>3
    <2>2. PICK A, B, C, D : A = Holders(s) /\ B = Holders(s)' /\ C = Doubled(s) /\ D = Doubled(s)'
      OBVIOUS
    <2>3. \A v : v # w => (v \in B <=> v \in A) /\ (v \in D <=> v \in C)
      BY <1>1, <2>1, <2>2 DEF Holders, Doubled
    <2>4. PICK x \in 0..2 : x = Share(l, j, h)
      BY <1>2
    <2>5. PICK y \in 0..2 : y = Share(at[w], job[w], m_hSocket[s])
      BY <1>2
    <2>6. (w \in B <=> x > 0) /\ (w \in D <=> x = 2)
      BY <1>1, <2>2, <2>4 DEF Holders, Doubled
    <2>7. (w \in A <=> y > 0) /\ (w \in C <=> y = 2)
      BY <2>2, <2>5 DEF Holders, Doubled
    <2>8. RefInv(s) /\ IsFiniteSet(A) /\ IsFiniteSet(C)
      BY <2>2 DEF RefInv
    <2>9. /\ IsFiniteSet(B) /\ Cardinality(A) \in Nat /\ Cardinality(B) \in Nat
          /\ Cardinality(B) + (IF y > 0 THEN 1 ELSE 0) = Cardinality(A) + (IF x > 0 THEN 1 ELSE 0)
      BY <2>3, <2>6, <2>7, <2>8, OneChanges
    <2>10. /\ IsFiniteSet(D) /\ Cardinality(C) \in Nat /\ Cardinality(D) \in Nat
           /\ Cardinality(D) + (IF y = 2 THEN 1 ELSE 0) = Cardinality(C) + (IF x = 2 THEN 1 ELSE 0)
      BY <2>3, <2>6, <2>7, <2>8, OneChanges
    <2>11. PICK n, m, q, u, a, b, c, d \in Nat :
              /\ n = m_nRef[s] /\ m = m_nRef'[s] /\ q = Pending(s) /\ u = Pending(s)'
              /\ a = Cardinality(A) /\ b = Cardinality(B) /\ c = Cardinality(C) /\ d = Cardinality(D)
      <3>1. m_nRef[s] \in Nat /\ m_nRef'[s] \in Nat
        BY DEF TypeInv, TypeOK
      <3>2. Pending(s) \in Nat /\ Pending(s)' \in Nat
        BY PendingTypes
      <3>3. QED
        BY <2>9, <2>10, <3>1, <3>2
    <2>12. m + q + y <= n + u + x
      BY <2>4, <2>5, <2>11
    <2>13. n <= 1 + q + a + c
      BY <2>2, <2>8, <2>11 DEF RefInv
    <2>14. /\ b + (IF y > 0 THEN 1 ELSE 0) = a + (IF x > 0 THEN 1 ELSE 0)
           /\ d + (IF y = 2 THEN 1 ELSE 0) = c + (IF x = 2 THEN 1 ELSE 0)
      BY <2>9, <2>10, <2>11
    <2>15. m <= 1 + u + b + d
      BY <2>12, <2>13, <2>14
    <2>16. QED
      BY <2>2, <2>9, <2>10, <2>11, <2>15 DEF RefInv
  <1>5. QED
    BY <1>3, <1>4

LEMMA OpenMove ==
    ASSUME TypeInv, TypeInv', OpenInv, NEW w \in Workers, NEW l, NEW j, NEW s \in Slots, NEW h,
           at' = [at EXCEPT ![w] = l], slot' = [slot EXCEPT ![w] = s], job' = [job EXCEPT ![w] = j],
           m_hSocket'[s] = h,
           h = m_hSocket[s] \/ \A v \in Workers : Active(v, s) => v = w,
           \A r \in Slots : r # s => m_hSocket'[r] = m_hSocket[r] /\ Pending(r)' = Pending(r),
           l \in {"read", "recv", "onRead"} \/ (l = "exchange" /\ j = "readFail") => h # Invalid,
           j = "readFail" => l \in {"get", "exchange", "onClose", "closesocket"},
           Pending(s)' # 0 => h # Invalid
    PROVE  OpenInv'
  <1>1. /\ \A v \in Workers : v # w => at'[v] = at[v] /\ slot'[v] = slot[v] /\ job'[v] = job[v]
        /\ at'[w] = l /\ slot'[w] = s /\ job'[w] = j
        /\ \A v \in Workers : slot[v] \in Slots
    BY DEF TypeInv, TypeOK
  <1>2. ASSUME NEW v \in Workers, v # w PROVE Standing(v)'
    <2>1. Standing(v) /\ at'[v] = at[v] /\ slot'[v] = slot[v] /\ job'[v] = job[v]
      BY <1>1, <1>2 DEF OpenInv
    <2>2. CASE slot[v] # s \/ h = m_hSocket[s]
      <3>1. m_hSocket'[slot[v]] = m_hSocket[slot[v]]
        BY <1>1, <2>2
      <3>2. QED
        BY <2>1, <3>1 DEF Standing
    <2>3. CASE slot[v] = s /\ ~Active(v, s)
      <3>1. at[v] \notin DriveLabels
        BY <2>3 DEF Active
      <3>2. QED
        BY <2>1, <3>1 DEF Standing, DriveLabels
    <2>4. QED
      BY <1>2, <2>2, <2>3
  <1>3. Standing(w)'
    BY <1>1 DEF Standing
  <1>4. \A r \in Slots : Pending(r)' # 0 => m_hSocket'[r] # Invalid
    BY DEF OpenInv
  <1>5. QED
    BY <1>2, <1>3, <1>4 DEF OpenInv

\* Where a worker in callback j may stand when the socket of its slot is h.
Fits(l, j, h) == /\ l \in {"read", "recv", "onRead"} \/ (l = "exchange" /\ j = "readFail") => h # Invalid
                 /\ j = "readFail" => l \in {"get", "exchange", "onClose", "closesocket"}

\* A worker may go on without taking a reference.
Keeps(a, j, l, k, h) == Share(a, j, h) <= Share(l, k, h) /\ Fits(l, k, h)

RefsInv == OpenInv /\ \A s \in Slots : RefInv(s)

\* A worker moves on, and no socket and no read changes.
LEMMA QuietMove ==
    ASSUME TypeInv, TypeInv', RefsInv, NEW w \in Workers, NEW l, NEW s \in Slots,
           UNCHANGED <<m_hSocket, reads, port>>,
           at' = [at EXCEPT ![w] = l], slot' = [slot EXCEPT ![w] = s],
           NEW j, job' = [job EXCEPT ![w] = j],
           at[w] \in DriveLabels \union {"closesocket", "release"} => slot[w] = s,
           \A r \in Slots : r # s => m_nRef'[r] = m_nRef[r],
           m_nRef'[s] + Share(at[w], job[w], m_hSocket[s]) <= m_nRef[s] + Share(l, j, m_hSocket[s]),
           Fits(l, j, m_hSocket[s])
    PROVE  RefsInv'
  <1>1. \A r \in Slots : Pending(r)' = Pending(r) /\ m_hSocket'[r] = m_hSocket[r]
    BY DEF Pending
  <1>2. Share(at[w], job[w], m_hSocket[s]) > 0 => slot[w] = s
    BY DEF Share
  <1>3. m_nRef[s] \in Nat /\ m_nRef'[s] \in Nat
    BY DEF TypeInv, TypeOK
  <1>4. Pending(s) \in Nat
    BY PendingTypes
  <1>5. /\ Share(at[w], job[w], m_hSocket[s]) \in 0..2 /\ Share(l, j, m_hSocket[s]) \in 0..2
    BY DEF Share
  <1>6. m_nRef'[s] + Pending(s) + Share(at[w], job[w], m_hSocket[s])
            <= m_nRef[s] + Pending(s)' + Share(l, j, m_hSocket[s])
    BY <1>1, <1>3, <1>4, <1>5
  <1>7. \A r \in Slots : RefInv(r)'
    BY <1>1, <1>2, <1>6, RefMove DEF RefsInv
  <1>8. Pending(s)' # 0 => m_hSocket[s] # Invalid
    BY <1>1 DEF RefsInv, OpenInv
  <1>9. OpenInv'
    BY <1>1, <1>8, OpenMove DEF RefsInv, Fits
  <1>10. QED
    BY <1>7, <1>9 DEF RefsInv

\* Where a worker is, its slot, its callback and the references of its slot.
LEMMA RefTypes ==
    ASSUME TypeInv, NEW w \in Workers
    PROVE  /\ slot[w] \in Slots /\ m_nRef[slot[w]] \in Nat
           /\ at \in [Workers -> {"get", "scan", "lock", "initialize", "read", "recv", "release",
                                  "onRead", "exchange", "onClose", "closesocket"}]
           /\ job \in [Workers -> {"none", "accept", "readOk", "readFail"}]
           /\ slot \in [Workers -> Slots]
           /\ slot = [slot EXCEPT ![w] = slot[w]] /\ at = [at EXCEPT ![w] = at[w]]
           /\ job = [job EXCEPT ![w] = job[w]]
  BY DEF TypeInv, TypeOK

\* The steps that change neither a socket nor a read.
LEMMA RefQuiet ==
    ASSUME TypeInv, TypeInv', RefsInv, deleted = {}, NEW w \in Workers,
           \/ Accept(w) \/ Scan(w) \/ Refuse(w) \/ Retry(w) \/ Initialize(w) \/ OnRead(w)
           \/ LoginOn(w) \/ OnClose(w) \/ Read(w) \/ CloseHandle(w) \/ EndCallback(w)
    PROVE  RefsInv'
  <1>1. PICK s \in Slots : s = slot[w]
    BY RefTypes
  <1>2. PICK n \in Nat : n = m_nRef[s]
    BY <1>1, RefTypes
  <1>3. PICK j \in {"none", "accept", "readOk", "readFail"} : j = job[w]
    BY RefTypes
  <1>4. PICK a : a = at[w]
    OBVIOUS
  <1>5. /\ job = [job EXCEPT ![w] = j] /\ at = [at EXCEPT ![w] = a] /\ slot = [slot EXCEPT ![w] = s]
    BY <1>1, <1>3, <1>4, RefTypes
  <1>6. Standing(w)
    BY DEF RefsInv, OpenInv
  <1>7. ASSUME NEW l, NEW k, slot' = slot, m_nRef' = m_nRef, UNCHANGED <<m_hSocket, reads, port>>,
               at' = [at EXCEPT ![w] = l], job' = [job EXCEPT ![w] = k],
               Keeps(a, j, l, k, m_hSocket[s])
        PROVE  RefsInv'
    <2>1. slot' = [slot EXCEPT ![w] = s]
      BY <1>5, <1>7
    <2>2. Share(a, j, m_hSocket[s]) \in 0..2 /\ Share(l, k, m_hSocket[s]) \in 0..2
      BY DEF Share
    <2>3. n + Share(a, j, m_hSocket[s]) <= n + Share(l, k, m_hSocket[s]) /\ Fits(l, k, m_hSocket[s])
      BY <1>7, <2>2 DEF Keeps
    <2>4. m_nRef'[s] + Share(at[w], job[w], m_hSocket[s]) <= m_nRef[s] + Share(l, k, m_hSocket[s])
      BY <1>2, <1>3, <1>4, <1>7, <2>3
    <2>5. QED
      BY <1>1, <1>4, <1>7, <2>1, <2>3, <2>4, QuietMove
  <1>8. CASE Accept(w)
    <2>1. /\ at[w] = "get" /\ slot' = slot /\ m_nRef' = m_nRef /\ UNCHANGED <<m_hSocket, reads, port>>
          /\ at' = [at EXCEPT ![w] = "scan"] /\ job' = [job EXCEPT ![w] = "accept"]
      BY <1>8 DEF Accept, Go, Set
    <2>2. Keeps(a, j, "scan", "accept", m_hSocket[s])
      BY <1>4, <2>1 DEF Keeps, Share, Fits, DriveLabels
    <2>3. QED
      BY <1>7, <2>1, <2>2
  <1>9. CASE Scan(w)
    <2>1. /\ at[w] = "scan" /\ i[w] \in Slots
          /\ UNCHANGED <<bits, m_nId, m_hSocket, m_nRef, reads, port, job>>
          /\ \/ at' = [at EXCEPT ![w] = "lock"] /\ slot' = [slot EXCEPT ![w] = i[w]]
             \/ at' = at /\ slot' = slot
      BY <1>9 DEF Scan, Go, Set
    <2>2. j # "readFail"
      BY <1>3, <1>6, <2>1 DEF Standing
    <2>3. CASE at' = [at EXCEPT ![w] = "lock"] /\ slot' = [slot EXCEPT ![w] = i[w]]
      <3>1. PICK r \in Slots : r = i[w]
        BY <2>1
      <3>2. slot' = [slot EXCEPT ![w] = r] /\ job' = [job EXCEPT ![w] = j]
        BY <1>5, <2>1, <2>3, <3>1
      <3>3. Share(at[w], job[w], m_hSocket[r]) = 0 /\ Share("lock", j, m_hSocket[r]) = 0
        BY <2>1 DEF Share, DriveLabels
      <3>4. m_nRef[r] \in Nat /\ m_nRef' = m_nRef
        BY <2>1 DEF TypeInv, TypeOK
      <3>5. m_nRef'[r] + Share(at[w], job[w], m_hSocket[r]) <= m_nRef[r] + Share("lock", j, m_hSocket[r])
        BY <3>3, <3>4
      <3>6. Fits("lock", j, m_hSocket[r])
        BY <2>2 DEF Fits
      <3>7. QED
        BY <2>1, <2>3, <3>2, <3>4, <3>5, <3>6, QuietMove DEF DriveLabels
    <2>4. CASE at' = at /\ slot' = slot
      <3>1. at' = [at EXCEPT ![w] = "scan"] /\ job' = [job EXCEPT ![w] = j]
        BY <1>4, <1>5, <2>1, <2>4
      <3>2. Keeps(a, j, "scan", j, m_hSocket[s])
        BY <1>4, <2>1, <2>2 DEF Keeps, Share, Fits, DriveLabels
      <3>3. QED
        BY <1>7, <2>1, <2>4, <3>1, <3>2
    <2>5. QED
      BY <2>1, <2>3, <2>4
  <1>10. CASE Refuse(w)
    <2>1. /\ at[w] = "scan" /\ slot' = slot /\ m_nRef' = m_nRef /\ UNCHANGED <<m_hSocket, reads, port>>
          /\ at' = [at EXCEPT ![w] = "get"] /\ job' = [job EXCEPT ![w] = "none"]
      BY <1>10 DEF Refuse, Go, Set
    <2>2. Keeps(a, j, "get", "none", m_hSocket[s])
      BY <1>4, <2>1 DEF Keeps, Share, Fits, DriveLabels
    <2>3. QED
      BY <1>7, <2>1, <2>2
  <1>11. CASE Retry(w)
    <2>1. /\ at[w] = "lock" /\ slot' = slot /\ m_nRef' = m_nRef /\ job' = [job EXCEPT ![w] = j]
          /\ UNCHANGED <<m_hSocket, reads, port>>
          /\ at' = [at EXCEPT ![w] = "scan"]
      BY <1>1, <1>5, <1>11 DEF Retry, Go, Set
    <2>2. Standing(w) /\ at[w] = a /\ job[w] = j /\ slot[w] = s
      BY <1>1, <1>3, <1>4, <1>6
    <2>3. Keeps(a, j, "scan", j, m_hSocket[s])
      BY <2>1, <2>2 DEF Standing, Keeps, Share, Fits, DriveLabels
    <2>4. QED
      BY <1>7, <2>1, <2>3
  <1>12. CASE Initialize(w)
    <2>1. /\ at[w] = "initialize" /\ slot' = slot /\ m_nRef' = m_nRef /\ job' = [job EXCEPT ![w] = j]
          /\ UNCHANGED <<m_hSocket, reads, port>>
          /\ \/ at' = [at EXCEPT ![w] = "read"] /\ m_hSocket[s] # Invalid
             \/ at' = [at EXCEPT ![w] = "exchange"]
      BY <1>1, <1>5, <1>12 DEF Initialize, local, Go, Set
    <2>2. Standing(w) /\ at[w] = a /\ job[w] = j /\ slot[w] = s
      BY <1>1, <1>3, <1>4, <1>6
    <2>3. m_hSocket[s] # Invalid => Keeps(a, j, "read", j, m_hSocket[s])
      BY <2>1, <2>2 DEF Standing, Keeps, Share, Fits, DriveLabels
    <2>4. Keeps(a, j, "exchange", j, m_hSocket[s])
      BY <2>1, <2>2 DEF Standing, Keeps, Share, Fits, DriveLabels
    <2>5. QED
      BY <1>7, <2>1, <2>3, <2>4
  <1>13. CASE OnRead(w)
    <2>1. /\ at[w] = "onRead" /\ slot' = slot /\ m_nRef' = m_nRef /\ job' = [job EXCEPT ![w] = j]
          /\ UNCHANGED <<m_hSocket, reads, port>>
          /\ at' = [at EXCEPT ![w] = "read"] \/ at' = [at EXCEPT ![w] = "exchange"]
      BY <1>1, <1>5, <1>13 DEF OnRead, local, Go, Set
    <2>2. Standing(w) /\ at[w] = a /\ job[w] = j /\ slot[w] = s
      BY <1>1, <1>3, <1>4, <1>6
    <2>3. Keeps(a, j, "read", j, m_hSocket[s])
      BY <2>1, <2>2 DEF Standing, Keeps, Share, Fits, DriveLabels
    <2>4. Keeps(a, j, "exchange", j, m_hSocket[s])
      BY <2>1, <2>2 DEF Standing, Keeps, Share, Fits, DriveLabels
    <2>5. QED
      BY <1>7, <2>1, <2>3, <2>4
  <1>14. CASE LoginOn(w)
    <2>1. /\ at[w] = "onRead" /\ slot' = slot /\ m_nRef' = m_nRef /\ job' = [job EXCEPT ![w] = j]
          /\ UNCHANGED <<m_hSocket, reads, port>>
          /\ at' = [at EXCEPT ![w] = "onRead"]
      BY <1>4, <1>5, <1>14 DEF LoginOn, local
    <2>2. Standing(w) /\ at[w] = a /\ job[w] = j /\ slot[w] = s
      BY <1>1, <1>3, <1>4, <1>6
    <2>3. Keeps(a, j, "onRead", j, m_hSocket[s])
      BY <2>1, <2>2 DEF Standing, Keeps, Share, Fits, DriveLabels
    <2>4. QED
      BY <1>7, <2>1, <2>3
  <1>15. CASE OnClose(w)
    <2>1. /\ at[w] = "onClose" /\ slot' = slot /\ m_nRef' = m_nRef /\ job' = [job EXCEPT ![w] = j]
          /\ UNCHANGED <<m_hSocket, reads, port>>
          /\ at' = [at EXCEPT ![w] = "closesocket"]
      BY <1>1, <1>5, <1>15 DEF OnClose, local, Go, Set
    <2>2. Standing(w) /\ at[w] = a /\ job[w] = j /\ slot[w] = s
      BY <1>1, <1>3, <1>4, <1>6
    <2>3. Keeps(a, j, "closesocket", j, m_hSocket[s])
      BY <2>1, <2>2 DEF Standing, Keeps, Share, Fits, DriveLabels
    <2>4. QED
      BY <1>7, <2>1, <2>3
  <1>16. ASSUME NEW l, slot' = slot, NEW m \in Nat, m_nRef' = [m_nRef EXCEPT ![s] = m],
                UNCHANGED <<m_hSocket, reads, port, job>>, at' = [at EXCEPT ![w] = l],
                m + Share(a, j, m_hSocket[s]) <= n + Share(l, j, m_hSocket[s]),
                Fits(l, j, m_hSocket[s])
         PROVE  RefsInv'
    <2>1. slot' = [slot EXCEPT ![w] = s] /\ job' = [job EXCEPT ![w] = j]
      BY <1>5, <1>16
    <2>2. m_nRef'[s] = m /\ \A r \in Slots : r # s => m_nRef'[r] = m_nRef[r]
      BY <1>16 DEF TypeInv, TypeOK
    <2>3. m_nRef'[s] + Share(at[w], job[w], m_hSocket[s]) <= m_nRef[s] + Share(l, j, m_hSocket[s])
      BY <1>2, <1>3, <1>4, <1>16, <2>2
    <2>4. QED
      BY <1>1, <1>16, <2>1, <2>2, <2>3, QuietMove
  <1>17. CASE Read(w)
    <2>1. j # "readFail" /\ a = "read" /\ m_hSocket[s] # Invalid
      BY <1>1, <1>3, <1>4, <1>6, <1>17 DEF Standing, Read
    <2>2. Share(a, j, m_hSocket[s]) = 1 /\ Share("recv", j, m_hSocket[s]) = 2
      BY <2>1 DEF Share, DriveLabels
    <2>3. m_nRef' = [m_nRef EXCEPT ![s] = n + 1] /\ n + 1 \in Nat /\ (n + 1) + 1 <= n + 2
      BY <1>1, <1>2, <1>17 DEF Read, Set
    <2>4. Fits("recv", j, m_hSocket[s]) /\ (n + 1) + Share(a, j, m_hSocket[s]) <= n + Share("recv", j, m_hSocket[s])
      BY <2>1, <2>2, <2>3 DEF Fits
    <2>5. slot' = slot /\ UNCHANGED <<m_hSocket, reads, port, job>> /\ at' = [at EXCEPT ![w] = "recv"]
      BY <1>17 DEF Read, Go, local
    <2>6. QED
      BY <1>16, <2>3, <2>4, <2>5
  <1>18. ASSUME Release(s), n > 0 PROVE m_nRef' = [m_nRef EXCEPT ![s] = n - 1] /\ n - 1 \in Nat
    BY <1>2, <1>18 DEF Release, Set
  <1>19. CASE CloseHandle(w)
    <2>1. a = "closesocket" /\ Release(s) /\ at' = [at EXCEPT ![w] = AfterReadOrClose(w)]
      BY <1>1, <1>4, <1>19 DEF CloseHandle, Go
    <2>2. n > 0
      BY <1>2 DEF TypeInv
    <2>3. /\ slot' = slot /\ UNCHANGED <<m_hSocket, reads, port, job>>
          /\ m_nRef' = [m_nRef EXCEPT ![s] = n - 1] /\ n - 1 \in Nat
      BY <1>18, <1>19, <2>1, <2>2 DEF CloseHandle
    <2>4. CASE j = "readFail"
      <3>1. Share(a, j, m_hSocket[s]) = 1 /\ Share("get", j, m_hSocket[s]) = 0
        BY <2>1, <2>4 DEF Share, DriveLabels
      <3>2. at' = [at EXCEPT ![w] = "get"] /\ Fits("get", j, m_hSocket[s])
        BY <1>3, <2>1, <2>4 DEF AfterReadOrClose, Fits
      <3>3. (n - 1) + Share(a, j, m_hSocket[s]) <= n + Share("get", j, m_hSocket[s])
        BY <3>1
      <3>4. QED
        BY <1>16, <2>2, <2>3, <3>2, <3>3
    <2>5. CASE j # "readFail"
      <3>1. Share(a, j, m_hSocket[s]) = 2 /\ Share("release", j, m_hSocket[s]) = 1
        BY <2>1, <2>5 DEF Share, DriveLabels
      <3>2. at' = [at EXCEPT ![w] = "release"] /\ Fits("release", j, m_hSocket[s])
        BY <1>3, <2>1, <2>5 DEF AfterReadOrClose, Fits
      <3>3. (n - 1) + Share(a, j, m_hSocket[s]) <= n + Share("release", j, m_hSocket[s])
        BY <3>1
      <3>4. QED
        BY <1>16, <2>2, <2>3, <3>2, <3>3
    <2>6. QED
      BY <2>4, <2>5
  <1>20. CASE EndCallback(w)
    <2>1. a = "release" /\ Release(s) /\ at' = [at EXCEPT ![w] = "get"]
      BY <1>1, <1>4, <1>20 DEF EndCallback, Go
    <2>2. n > 0
      BY <1>2 DEF TypeInv
    <2>3. Share(a, j, m_hSocket[s]) = 1 /\ Share("get", j, m_hSocket[s]) = 0
      BY <2>1 DEF Share, DriveLabels
    <2>4. (n - 1) + Share(a, j, m_hSocket[s]) <= n + Share("get", j, m_hSocket[s])
      BY <2>3
    <2>5. /\ slot' = slot /\ UNCHANGED <<m_hSocket, reads, port, job>>
          /\ m_nRef' = [m_nRef EXCEPT ![s] = n - 1] /\ n - 1 \in Nat /\ Fits("get", j, m_hSocket[s])
      BY <1>18, <1>20, <2>1, <2>2 DEF EndCallback, local, Fits
    <2>6. QED
      BY <1>16, <2>1, <2>4, <2>5
  <1>21. QED
    BY <1>8, <1>9, <1>10, <1>11, <1>12, <1>13, <1>14, <1>15, <1>17, <1>19, <1>20

\* A worker moves on, and with it the reads or the socket of its slot.
LEMMA BooksMove ==
    ASSUME TypeInv, TypeInv', RefsInv, NEW w \in Workers, NEW l, NEW j, NEW s \in Slots, NEW h,
           at' = [at EXCEPT ![w] = l], slot' = [slot EXCEPT ![w] = s], job' = [job EXCEPT ![w] = j],
           at[w] \in DriveLabels \union {"closesocket", "release"} => slot[w] = s,
           m_hSocket' = [m_hSocket EXCEPT ![s] = h],
           h = m_hSocket[s] \/ \A v \in Workers : Active(v, s) => v = w,
           \A r \in Slots : r # s => m_nRef'[r] = m_nRef[r] /\ Pending(r)' = Pending(r),
           Fits(l, j, h), Pending(s)' # 0 => h # Invalid,
           NEW q, q = Share(at[w], job[w], m_hSocket[s]),
           m_nRef'[s] + Pending(s) + q <= m_nRef[s] + Pending(s)' + Share(l, j, h)
    PROVE  RefsInv'
  <1>1. m_hSocket'[s] = h /\ \A r \in Slots : r # s => m_hSocket'[r] = m_hSocket[r]
    BY SlotTypes
  <1>2. Share(at[w], job[w], m_hSocket[s]) > 0 => slot[w] = s
    BY DEF Share
  <1>3. \A r \in Slots : RefInv(r)'
    BY <1>1, <1>2, RefMove DEF RefsInv
  <1>4. OpenInv'
    BY <1>1, OpenMove DEF RefsInv, Fits
  <1>5. QED
    BY <1>3, <1>4 DEF RefsInv

\* A slot is handed out: the callback of the server takes a reference.
LEMMA RefTake ==
    ASSUME TypeInv, TypeInv', ChainInv, RefsInv, NEW w \in Workers, Take(w) PROVE RefsInv'
  <1>1. PICK s \in Slots : s = slot[w]
    BY RefTypes
  <1>2. PICK n, h, j : n \in Nat /\ n = m_nRef[s] /\ h = hSocket[w] /\ j = job[w]
    BY <1>1, RefTypes
  <1>3. /\ at[w] = "lock" /\ "NOT_USED" \in bits[s] /\ at' = [at EXCEPT ![w] = "initialize"]
        /\ slot' = slot /\ job' = job /\ reads' = reads /\ port' = port
        /\ m_nRef' = [m_nRef EXCEPT ![s] = n + 1] /\ m_hSocket' = [m_hSocket EXCEPT ![s] = h]
    BY <1>1, <1>2 DEF Take, StillUnused, Go, Set
  <1>4. slot' = [slot EXCEPT ![w] = s] /\ job' = [job EXCEPT ![w] = j]
    BY <1>1, <1>2, <1>3, RefTypes
  <1>5. Standing(w)
    BY DEF RefsInv, OpenInv
  <1>6. Fits("initialize", j, h) /\ Share("initialize", j, h) = 1 /\ Share(at[w], job[w], m_hSocket[s]) = 0
    BY <1>2, <1>3, <1>5 DEF Standing, Fits, Share, DriveLabels
  <1>7. Clean(s)
    BY <1>3 DEF ChainInv, SlotInv
  <1>8. Pending(s) = 0 /\ \A r \in Slots : Pending(r)' = Pending(r)
    BY <1>3, <1>7 DEF Clean, Pending
  <1>9. m_nRef'[s] = n + 1 /\ \A r \in Slots : r # s => m_nRef'[r] = m_nRef[r]
    BY <1>3 DEF TypeInv, TypeOK
  <1>10. m_nRef'[s] + Pending(s) + 0 <= m_nRef[s] + Pending(s)' + Share("initialize", j, h)
    BY <1>2, <1>6, <1>8, <1>9
  <1>11. \A v \in Workers : Active(v, s) => v = w
    BY <1>7 DEF Clean
  <1>12. QED
    BY <1>1, <1>3, <1>4, <1>6, <1>8, <1>9, <1>10, <1>11, BooksMove

\* The reference of Read goes to the read, or to the Close that follows.
LEMMA RefRecv ==
    ASSUME TypeInv, TypeInv', ChainInv, ChainInv', RefsInv, NEW w \in Workers, Recv(w) PROVE RefsInv'
  <1>1. PICK s \in Slots : s = slot[w]
    BY RefTypes
  <1>2. PICK n, h, j : n \in Nat /\ n = m_nRef[s] /\ h = m_hSocket[s] /\ j = job[w]
    BY <1>1, RefTypes
  <1>3. /\ at[w] = "recv" /\ slot' = slot /\ job' = job /\ port' = port /\ m_nRef' = m_nRef
        /\ m_hSocket' = m_hSocket
    BY DEF Recv, local
  <1>4. /\ slot' = [slot EXCEPT ![w] = s] /\ job' = [job EXCEPT ![w] = j]
        /\ m_hSocket' = [m_hSocket EXCEPT ![s] = h]
    BY <1>1, <1>2, <1>3, RefTypes, SlotTypes
  <1>5. j # "readFail" /\ h # Invalid
    <2>1. Standing(w)
      BY DEF RefsInv, OpenInv
    <2>2. QED
      BY <1>1, <1>2, <1>3, <2>1 DEF Standing
  <1>6. Share(at[w], job[w], m_hSocket[s]) = 2
    BY <1>2, <1>3, <1>5 DEF Share, DriveLabels
  <1>7. CASE at' = [at EXCEPT ![w] = "exchange"] /\ reads' = reads
    <2>1. Fits("exchange", j, h) /\ Share("exchange", j, h) = 2
      BY <1>5 DEF Fits, Share, DriveLabels
    <2>2. m_nRef'[s] + Share(at[w], job[w], m_hSocket[s]) <= m_nRef[s] + Share("exchange", j, m_hSocket[s])
      BY <1>2, <1>3, <1>6, <2>1
    <2>3. Fits("exchange", j, m_hSocket[s])
      BY <1>2, <2>1
    <2>4. QED
      BY <1>1, <1>3, <1>4, <1>7, <2>2, <2>3, QuietMove
  <1>8. CASE at' = [at EXCEPT ![w] = "release"] /\ reads' = [reads EXCEPT ![s] = reads[s] + 1]
    <2>1. Fits("release", j, h) /\ Share("release", j, h) = 1
      BY <1>5 DEF Fits, Share, DriveLabels
    <2>2. Active(w, s) /\ Pending(s) = 0 /\ \A v \in Workers : Active(v, s) => v = w
      <3>1. Active(w, s)
        BY <1>1, <1>3 DEF Active, DriveLabels
      <3>2. QED
        BY <3>1 DEF ChainInv, SlotInv
    <2>3. \A v \in Workers : ~Active(v, s)'
      <3>1. "release" \notin DriveLabels
        BY DEF DriveLabels
      <3>2. QED
        BY <1>4, <1>8, <2>2, <3>1, Moves
    <2>4. Pending(s)' = 1
      <3>1. m_hSocket'[s] # Invalid
        BY <1>2, <1>3, <1>5
      <3>2. QED
        BY <2>3, <3>1 DEF ChainInv, SlotInv
    <2>5. \A r \in Slots : r # s => m_nRef'[r] = m_nRef[r] /\ Pending(r)' = Pending(r)
      BY <1>3, <1>8, SlotTypes DEF Pending
    <2>6. m_nRef'[s] + Pending(s) + 2 <= m_nRef[s] + Pending(s)' + Share("release", j, h)
      BY <1>2, <1>3, <2>1, <2>2, <2>4
    <2>7. QED
      BY <1>1, <1>2, <1>4, <1>5, <1>6, <1>8, <2>1, <2>5, <2>6, BooksMove
  <1>9. AfterReadOrClose(w) = "release"
    BY <1>2, <1>5 DEF AfterReadOrClose
  <1>10. QED
    BY <1>1, <1>7, <1>8, <1>9 DEF Recv, Go, Set

\* The reference of a read goes to the callback of its packet.
LEMMA RefCallback ==
    ASSUME TypeInv, TypeInv', ChainInv, ChainInv', RefsInv, NEW w \in Workers, OnIOCallback(w)
    PROVE  RefsInv'
  <1>1. PICK s \in Slots, l \in {"onRead", "exchange"}, j \in {"readOk", "readFail"} :
           /\ port[s] # <<>> /\ port' = [port EXCEPT ![s] = Tail(port[s])]
           /\ slot' = [slot EXCEPT ![w] = s] /\ at' = [at EXCEPT ![w] = l]
           /\ job' = [job EXCEPT ![w] = j]
           /\ \/ l = "onRead" /\ j = "readOk"
              \/ l = "exchange" /\ j \in {"readOk", "readFail"}
    BY DEF OnIOCallback, Set, Go
  <1>2. PICK n, h : n \in Nat /\ n = m_nRef[s] /\ h = m_hSocket[s]
    BY DEF TypeInv, TypeOK
  <1>3. /\ at[w] = "get" /\ reads' = reads /\ m_nRef' = m_nRef /\ m_hSocket' = m_hSocket
    BY DEF OnIOCallback
  <1>4. m_hSocket' = [m_hSocket EXCEPT ![s] = h]
    BY <1>2, <1>3, SlotTypes
  <1>5. Pending(s) = 1
    <2>1. reads[s] \in Nat /\ Len(port[s]) \in Nat /\ Len(port[s]) > 0
      BY <1>1, SlotTypes
    <2>2. reads[s] + Len(port[s]) <= 1
      BY DEF ChainInv, SlotInv, Pending
    <2>3. QED
      BY <2>1, <2>2 DEF Pending
  <1>6. h # Invalid
    BY <1>2, <1>5 DEF RefsInv, OpenInv
  <1>7. Pending(s)' = 0
    <2>1. l \in DriveLabels
      BY <1>1 DEF DriveLabels
    <2>2. Active(w, s)'
      BY <1>1, <2>1, Moves
    <2>3. QED
      BY <2>2 DEF ChainInv, SlotInv
  <1>8. \A r \in Slots : r # s => m_nRef'[r] = m_nRef[r] /\ Pending(r)' = Pending(r)
    <2>1. ASSUME NEW r \in Slots, r # s PROVE port'[r] = port[r] /\ reads'[r] = reads[r] /\ m_nRef'[r] = m_nRef[r]
      BY <1>1, <1>3, <2>1, SlotTypes
    <2>2. QED
      BY <2>1 DEF Pending
  <1>9. Share(at[w], job[w], m_hSocket[s]) = 0 /\ Fits(l, j, h) /\ Share(l, j, h) \in {1, 2}
    BY <1>1, <1>3, <1>6 DEF Share, Fits, DriveLabels
  <1>10. m_nRef'[s] + Pending(s) + 0 <= m_nRef[s] + Pending(s)' + Share(l, j, h)
    BY <1>2, <1>3, <1>5, <1>7, <1>9
  <1>11. at[w] \notin DriveLabels \union {"closesocket", "release"}
    BY <1>3 DEF DriveLabels
  <1>12. QED
    BY <1>1, <1>2, <1>4, <1>6, <1>8, <1>9, <1>10, <1>11, BooksMove

\* Close goes on with what it will release only if there is a socket.
LEMMA RefExchange ==
    ASSUME TypeInv, TypeInv', ChainInv, RefsInv, NEW w \in Workers, Exchange(w) PROVE RefsInv'
  <1>1. PICK s \in Slots : s = slot[w]
    BY RefTypes
  <1>2. PICK n, j, l : /\ n \in Nat /\ n = m_nRef[s] /\ j = job[w]
                          /\ l = IF m_hSocket[s] # Invalid THEN "onClose" ELSE AfterReadOrClose(w)
    BY <1>1, RefTypes
  <1>3. /\ at[w] = "exchange" /\ slot' = slot /\ job' = job /\ reads' = reads /\ port' = port
        /\ m_nRef' = m_nRef /\ at' = [at EXCEPT ![w] = l]
        /\ m_hSocket' = [m_hSocket EXCEPT ![s] = Invalid]
    BY <1>1, <1>2 DEF Exchange, Go, Set
  <1>4. slot' = [slot EXCEPT ![w] = s] /\ job' = [job EXCEPT ![w] = j]
    BY <1>1, <1>2, <1>3, RefTypes
  <1>5. Pending(s) = 0 /\ \A v \in Workers : Active(v, s) => v = w
    <2>1. Active(w, s)
      BY <1>1, <1>3 DEF Active, DriveLabels
    <2>2. QED
      BY <2>1 DEF ChainInv, SlotInv
  <1>6. \A r \in Slots : Pending(r)' = Pending(r) /\ m_nRef'[r] = m_nRef[r]
    BY <1>3 DEF Pending
  <1>7. PICK q : q = Share(at[w], job[w], m_hSocket[s])
    OBVIOUS
  <1>8. q \in {1, 2} /\ Share(l, j, Invalid) = q /\ Fits(l, j, Invalid)
    <2>1. Standing(w)
      BY DEF RefsInv, OpenInv
    <2>2. CASE m_hSocket[s] # Invalid
      BY <1>2, <1>3, <1>7, <2>2 DEF Share, Fits, DriveLabels
    <2>3. CASE m_hSocket[s] = Invalid
      <3>1. j # "readFail" /\ l = "release"
        BY <1>1, <1>2, <1>3, <2>1, <2>3 DEF Standing, AfterReadOrClose
      <3>2. QED
        BY <1>2, <1>3, <1>7, <2>3, <3>1 DEF Share, Fits, DriveLabels
    <2>4. QED
      BY <2>2, <2>3
  <1>9. m_nRef'[s] + Pending(s) + q <= m_nRef[s] + Pending(s)' + Share(l, j, Invalid)
    BY <1>2, <1>5, <1>6, <1>8
  <1>10. Pending(s)' = 0
    BY <1>5, <1>6
  <1>11. QED
    BY <1>1, <1>3, <1>4, <1>5, <1>6, <1>7, <1>8, <1>9, <1>10, BooksMove

LEMMA RefSame ==
    ASSUME RefsInv, UNCHANGED <<at, slot, job, m_hSocket, m_nRef>>,
           \A s \in Slots : Pending(s)' = Pending(s)
    PROVE  RefsInv'
  <1>1. ASSUME NEW s \in Slots PROVE RefInv(s)'
    <2>1. Holders(s)' = Holders(s) /\ Doubled(s)' = Doubled(s)
      BY DEF Holders, Doubled
    <2>2. QED
      BY <2>1 DEF RefsInv, RefInv
  <1>2. OpenInv'
    BY DEF RefsInv, OpenInv, Standing
  <1>3. QED
    BY <1>1, <1>2 DEF RefsInv

LEMMA RefStep == ASSUME TypeInv, TypeInv', ChainInv, ChainInv', RefsInv, [Next]_vars PROVE RefsInv'
  <1>1. ASSUME NEW w \in Workers, deleted = {}, Work(w) PROVE RefsInv'
    BY <1>1, RefTake, RefRecv, RefCallback, RefExchange, RefQuiet DEF Work
  <1>2. ASSUME NEW s \in Slots, Complete(s) PROVE RefsInv'
    <2>1. UNCHANGED <<at, slot, job, m_hSocket, m_nRef>>
      BY <1>2 DEF Complete, local
    <2>2. \A r \in Slots : Pending(r)' = Pending(r)
      BY <1>2, PendingComplete
    <2>3. QED
      BY <2>1, <2>2, RefSame
  <1>3. CASE UNCHANGED vars
    <2>1. UNCHANGED <<at, slot, job, m_hSocket, m_nRef, reads, port>>
      BY <1>3 DEF vars, local
    <2>2. \A r \in Slots : Pending(r)' = Pending(r)
      BY <2>1 DEF Pending
    <2>3. QED
      BY <2>1, <2>2, RefSame
  <1>4. QED
    BY <1>1, <1>2, <1>3 DEF Next

LEMMA RefInit == Init => RefsInv
  <1> SUFFICES ASSUME Init PROVE RefsInv
    OBVIOUS
  <1>1. Len(<<>>) = 0
    OBVIOUS
  <1>2. /\ \A s \in Slots : Pending(s) = 0 /\ m_nRef[s] = 1
        /\ \A w \in Workers : at[w] = "get" /\ job[w] = "none"
    BY <1>1 DEF Init, Pending
  <1>3. \A s \in Slots : Holders(s) = {} /\ Doubled(s) = {}
    BY <1>2 DEF Holders, Doubled, Share, DriveLabels
  <1>4. \A s \in Slots : RefInv(s)
    BY <1>2, <1>3, FS_EmptySet DEF RefInv
  <1>5. OpenInv
    BY <1>2 DEF OpenInv, Standing
  <1>6. QED
    BY <1>4, <1>5 DEF RefsInv

\* An object that is not deleted has a reference.
LEMMA AliveStep == ASSUME TypeInv, Alive, [Next]_vars PROVE Alive'
  <1>1. m_nRef \in [Slots -> Nat] /\ (deleted = {} => \A s \in Slots : m_nRef[s] > 0)
    BY DEF TypeInv, TypeOK
  <1>2. ASSUME NEW s \in Slots, deleted = {}, Release(s) PROVE Alive'
    <2>1. /\ m_nRef' = [m_nRef EXCEPT ![s] = m_nRef[s] - 1]
          /\ m_nRef[s] = 1 => s \in deleted'
      BY <1>2 DEF Release, Set
    <2>2. ASSUME NEW r \in Slots \ deleted' PROVE m_nRef'[r] > 0
      BY <1>1, <1>2, <2>1
    <2>3. QED
      BY <2>2 DEF Alive
  <1>3. ASSUME NEW s \in Slots, deleted = {}, m_nRef' = Set(m_nRef, s, m_nRef[s] + 1) PROVE Alive'
    <2>1. \A r \in Slots : m_nRef'[r] > 0
      BY <1>1, <1>3 DEF Set
    <2>2. QED
      BY <2>1 DEF Alive
  <1>4. ASSUME UNCHANGED <<m_nRef, deleted>> PROVE Alive'
    BY <1>4 DEF Alive
  <1>5. ASSUME NEW w \in Workers, deleted = {}, Work(w) PROVE Alive'
    <2>1. slot[w] \in Slots
      BY SlotTypes
    <2>2. CASE Take(w)
      BY <1>3, <1>5, <2>1, <2>2 DEF Take
    <2>3. CASE Read(w)
      BY <1>3, <1>5, <2>1, <2>3 DEF Read
    <2>4. CASE CloseHandle(w)
      BY <1>2, <1>5, <2>1, <2>4 DEF CloseHandle
    <2>5. CASE EndCallback(w)
      BY <1>2, <1>5, <2>1, <2>5 DEF EndCallback
    <2>6. CASE \/ Accept(w) \/ Scan(w) \/ Refuse(w) \/ Retry(w) \/ Initialize(w) \/ Recv(w)
               \/ OnIOCallback(w) \/ LoginOn(w) \/ OnRead(w) \/ Exchange(w) \/ OnClose(w)
      <3>1. UNCHANGED <<m_nRef, deleted>>
        BY <2>6 DEF Accept, Scan, Refuse, Retry, Initialize, Recv, OnIOCallback, LoginOn, OnRead,
                    Exchange, OnClose
      <3>2. QED
        BY <1>4, <3>1
    <2>7. QED
      BY <1>5, <2>2, <2>3, <2>4, <2>5, <2>6 DEF Work
  <1>6. CASE UNCHANGED vars
    BY <1>4, <1>6 DEF vars
  <1>7. QED
    BY <1>4, <1>5, <1>6 DEF Next, Complete

\* A slot that a connection has left has its own reference and no other, unless
\* it was deleted: no path through CreateSocket, Read, OnIOCallback and Close
\* keeps a reference that nobody gives back.
THEOREM NoReferenceIsLeft == Spec => []OwnReference
  <1>1. Init => Alive
    BY DEF Init, Alive
  <1>2. TypeInv /\ ChainInv /\ RefsInv /\ Alive => OwnReference
    <2> SUFFICES ASSUME TypeInv, ChainInv, RefsInv, Alive, NEW s \in Slots \ deleted, AtRest(s)
                 PROVE  m_nRef[s] = 1
      BY DEF OwnReference
    <2>1. Clean(s) /\ RefInv(s) /\ m_nRef[s] > 0 /\ m_nRef[s] \in Nat
      BY DEF AtRest, ChainInv, SlotInv, RefsInv, Alive, TypeInv, TypeOK
    <2>2. \A w \in Workers : slot[w] = s => at[w] \notin DriveLabels \union {"closesocket", "release"}
      BY <2>1 DEF Clean, Active, AtRest
    <2>3. Holders(s) = {} /\ Doubled(s) = {}
      BY <2>2 DEF Holders, Doubled, Share
    <2>4. m_nRef[s] <= 1 + Pending(s) + 0 + 0 /\ Pending(s) = 0
      BY <2>1, <2>3, FS_EmptySet DEF RefInv, Clean
    <2>5. QED
      BY <2>1, <2>4
  <1>3. QED
    BY <1>1, <1>2, TypeInit, TypeStep, ChainInit, ChainStep, RefInit, RefStep, AliveStep, PTL DEF Spec
=============================================================================
