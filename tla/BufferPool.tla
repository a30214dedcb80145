----------------------------- MODULE BufferPool -----------------------------
(***************************************************************************)
(* The pool of BGIOBuffer objects (BGIOBuffer.cpp 4-65): free lists in     *)
(* BUFFER_POOL_SIZE slots, each under its spin lock.  Alloc and Free       *)
(* choose a slot with their own running counters, so that two threads      *)
(* rarely meet at one lock; a buffer freed into one slot may be allocated  *)
(* from it by any thread.                                                  *)
(*                                                                         *)
(* A critical section of a slot is one step, and so is each Interlocked    *)
(* operation on a counter.  Only the low bits of the counters are used,    *)
(* and BUFFER_POOL_SIZE is a power of two, so the counters are kept modulo *)
(* BUFFER_POOL_SIZE and their wrap at 2^32 makes no difference.            *)
(***************************************************************************)
EXTENDS Integers, Sequences, FiniteSets

CONSTANTS Threads,          \* threads that allocate and free buffers
          Buffers,          \* the buffers operator new may return
          NoBuffer,         \* the null pointer
          BUFFER_POOL_SIZE, \* number of slots
          MaxUse            \* bound: buffers the program uses at a time

ASSUME PoolOK == /\ BUFFER_POOL_SIZE \in Nat \ {0}
                 /\ MaxUse \in Nat
                 /\ NoBuffer \notin Buffers
                 /\ IsFiniteSet(Threads) /\ Threads # {} /\ IsFiniteSet(Buffers)

Slots == 0..(BUFFER_POOL_SIZE - 1)

VARIABLES slot,          \* g_slotBuffer: the list of each slot, first buffer first
          g_nAllocBuffer, g_nFreeBuffer, \* the running counters
          g_nStop,       \* set by FreeAll
          used,          \* buffers Alloc returned that Free was not called for
          pc, at, buf,   \* each thread: place, its slot, the buffer in its hands
          drained        \* the slots FreeAll has emptied

counters == <<g_nAllocBuffer, g_nFreeBuffer>>
vars == <<slot, counters, g_nStop, used, pc, at, buf, drained>>

Pooled == {b \in Buffers : \E s \in Slots : \E i \in 1..Len(slot[s]) : slot[s][i] = b}
InHand == {b \in Buffers : \E t \in Threads : buf[t] = b}

\* The buffers that exist: allocated with new and not deleted.
Live == Pooled \union InHand \union used

Goto(t, l) == pc' = [pc EXCEPT ![t] = l]

Init == /\ slot = [s \in Slots |-> <<>>]
        /\ g_nAllocBuffer = BUFFER_POOL_SIZE - 1
        /\ g_nFreeBuffer = 0
        /\ g_nStop = FALSE
        /\ used = {}
        /\ pc = [t \in Threads |-> "idle"]
        /\ at = [t \in Threads |-> 0]
        /\ buf = [t \in Threads |-> NoBuffer]
        /\ drained = {}

-----------------------------------------------------------------------------
\* How many buffers are used, counting the calls of Alloc and Free under way.
InUse == Cardinality(used) + Cardinality({t \in Threads : pc[t] \in {"pop", "new", "stop", "index", "push"}})

\* Fault: the running counter is used without the mask.
NextAllocUnmasked == g_nAllocBuffer + 1

\* The slot the next Alloc looks at: InterlockedIncrement, masked.
NextAlloc == (g_nAllocBuffer + 1) % BUFFER_POOL_SIZE

\* Alloc: choose a slot.
Alloc(t) ==
    /\ pc[t] = "idle" /\ InUse < MaxUse
    /\ g_nAllocBuffer' = NextAlloc
    /\ at' = [at EXCEPT ![t] = NextAlloc]
    /\ Goto(t, "pop")
    /\ UNCHANGED <<slot, g_nFreeBuffer, g_nStop, used, buf, drained>>

\* Fault: Alloc leaves the buffer it takes in the list.
PopLinked(t) ==
    /\ pc[t] = "pop"
    /\ \/ /\ slot[at[t]] # <<>>
          /\ used' = used \union {Head(slot[at[t]])}
          /\ Goto(t, "idle")
       \/ /\ slot[at[t]] = <<>>
          /\ Goto(t, "new")
          /\ UNCHANGED used
    /\ UNCHANGED <<slot, counters, g_nStop, at, buf, drained>>

\* Alloc, under the lock of the slot: take the first buffer if there is one.
\* The thread then owns it: size, count and link are set without a lock.
Pop(t) ==
    /\ pc[t] = "pop"
    /\ \/ /\ slot[at[t]] # <<>>
          /\ used' = used \union {Head(slot[at[t]])}
          /\ slot' = [slot EXCEPT ![at[t]] = Tail(@)]
          /\ Goto(t, "idle")
       \/ /\ slot[at[t]] = <<>>
          /\ Goto(t, "new")
          /\ UNCHANGED <<slot, used>>
    /\ UNCHANGED <<counters, g_nStop, at, buf, drained>>

\* Alloc, after the lock: a new buffer.
New(t) ==
    /\ pc[t] = "new"
    /\ \E b \in Buffers \ Live : used' = used \union {b}
    /\ Goto(t, "idle")
    /\ UNCHANGED <<slot, counters, g_nStop, at, buf, drained>>

\* Free is called with a buffer in use.
Free(t, b) ==
    /\ pc[t] = "idle" /\ b \in used
    /\ used' = used \ {b}
    /\ buf' = [buf EXCEPT ![t] = b]
    /\ Goto(t, "stop")
    /\ UNCHANGED <<slot, counters, g_nStop, at, drained>>

\* Free reads g_nStop: once FreeAll was called, the buffer is deleted.
CheckStop(t) ==
    /\ pc[t] = "stop"
    /\ \/ g_nStop /\ buf' = [buf EXCEPT ![t] = NoBuffer] /\ Goto(t, "idle")
       \/ ~g_nStop /\ Goto(t, "index") /\ UNCHANGED buf
    /\ UNCHANGED <<slot, counters, g_nStop, used, at, drained>>

\* Fault: Free always takes the same slot.
SameFree == g_nFreeBuffer

\* The slot the next Free uses: InterlockedDecrement, masked.
NextFree == (g_nFreeBuffer + BUFFER_POOL_SIZE - 1) % BUFFER_POOL_SIZE

\* Free: choose a slot.
Index(t) ==
    /\ pc[t] = "index"
    /\ g_nFreeBuffer' = NextFree
    /\ at' = [at EXCEPT ![t] = NextFree]
    /\ Goto(t, "push")
    /\ UNCHANGED <<slot, g_nAllocBuffer, g_nStop, used, buf, drained>>

\* Free, under the lock of the slot: the buffer becomes the first of its list.
Push(t) ==
    /\ pc[t] = "push"
    /\ slot' = [slot EXCEPT ![at[t]] = <<buf[t]>> \o @]
    /\ buf' = [buf EXCEPT ![t] = NoBuffer]
    /\ Goto(t, "idle")
    /\ UNCHANGED <<counters, g_nStop, used, at, drained>>

-----------------------------------------------------------------------------
\* FreeAll, called once by the main thread: it sets g_nStop and then empties
\* the slots one by one, each under its lock.
StopPool ==
    /\ ~g_nStop
    /\ g_nStop' = TRUE
    /\ UNCHANGED <<slot, counters, used, pc, at, buf, drained>>

Drain(s) ==
    /\ g_nStop /\ s \notin drained /\ \A r \in Slots : r < s => r \in drained
    /\ slot' = [slot EXCEPT ![s] = <<>>]
    /\ drained' = drained \union {s}
    /\ UNCHANGED <<counters, g_nStop, used, pc, at, buf>>

Next == \/ \E t \in Threads : \/ Alloc(t) \/ Pop(t) \/ New(t)
                              \/ CheckStop(t) \/ Index(t) \/ Push(t)
        \/ \E t \in Threads, b \in Buffers : Free(t, b)
        \/ StopPool
        \/ \E s \in Slots : Drain(s)

Spec == Init /\ [][Next]_vars

-----------------------------------------------------------------------------
\* The type invariant of the pool.
TypeOK == /\ slot \in [Slots -> Seq(Buffers)]
          /\ g_nAllocBuffer \in Slots /\ g_nFreeBuffer \in Slots
          /\ g_nStop \in BOOLEAN
          /\ used \subseteq Buffers
          /\ pc \in [Threads -> {"idle", "pop", "new", "stop", "index", "push"}]
          /\ at \in [Threads -> Slots]
          /\ buf \in [Threads -> Buffers \union {NoBuffer}]
          /\ drained \subseteq Slots

\* A buffer has one owner: it is once in one list, or in the hands of one
\* thread in Free, or in use.  So no two Allocs return the same buffer and
\* m_pNext links one list only (BGIOBuffer.cpp 21-33, 60-64).
OneOwner ==
    /\ \A s, r \in Slots : \A i \in 1..Len(slot[s]) : \A j \in 1..Len(slot[r]) :
          slot[s][i] = slot[r][j] => s = r /\ i = j
    /\ \A s, t \in Threads : buf[s] = buf[t] /\ buf[s] # NoBuffer => s = t
    /\ Pooled \intersect InHand = {}
    /\ used \intersect (Pooled \union InHand) = {}

\* Recycling works although Alloc and Free go round the slots independently:
\* however long the program runs, it never holds more buffers than it used at
\* a time, plus one for each thread and other slot, which delayed pushes and
\* the independent counters can cost (BGIOBuffer.cpp 12-14, ReadMe.txt 54).
NoGrowth == Cardinality(Live) <= MaxUse + (BUFFER_POOL_SIZE - 1) * Cardinality(Threads)
=============================================================================
