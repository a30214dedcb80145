---------------------------- MODULE RWLockProofs ----------------------------
(***************************************************************************)
(* BGRWLock excludes, and its packed counter is exact, for any number of   *)
(* threads that fits its fields.                                           *)
(*                                                                         *)
(* A thread is let in by what the fields say, so MutualExclusion needs     *)
(* CountExact; bit 31 is set and cleared by adding 2^31, which is right    *)
(* only because the copy a reader branches on is still true when it parks  *)
(* (CopyAgrees), and that needs the internal spin lock (SpinExact).        *)
(*                                                                         *)
(* Where no wake-up is lost (WakeInv): a thread that parks while others    *)
(* are counted leaves the waking to them, one that unlocks leaves the      *)
(* readers parked on m_hREvent to the wake-up that runs among them.        *)
(***************************************************************************)
EXTENDS MCRWLock, FiniteSetTheorems, TLAPS

\* The types of the variables without the widths of the fields, which follow
\* from CountExact.
Fields == [readers : Int, writers : Int, parkedReaders : Int,
           parkedWriters : Int, parkedReader : BOOLEAN]

Shape == /\ m_nCount \in Fields
         /\ m_nLock \in BOOLEAN /\ REvent \in BOOLEAN /\ WEvent \in BOOLEAN
         /\ pc \in [Threads -> Labels]
         /\ role \in [Threads -> {"read", "write"}]
         /\ event \in [Threads -> {"R", "W"}]
         /\ bit31 \in [Threads -> BOOLEAN] /\ others \in [Threads -> BOOLEAN]
         /\ pending \in [Threads -> 0..(Word - 1)]

\* The internal spin lock is taken exactly when one thread is in its section.
SpinExact == /\ \A s, t \in InSpin : s = t
             /\ m_nLock <=> \E t \in Threads : t \in InSpin

\* A reader about to park still has the current bit 31.
CopyAgrees == \A t \in Threads : pc[t] = "park" /\ role[t] = "read"
                                    => bit31[t] = m_nCount.parkedReader

IInv == Shape /\ CountExact /\ SpinExact /\ CopyAgrees /\ MutualExclusion

-----------------------------------------------------------------------------
\* Every set of threads is finite and fits its field.
LEMMA Sizes == ASSUME NEW S \in SUBSET Threads
               PROVE  IsFiniteSet(S) /\ Cardinality(S) \in 0..127 /\ (Cardinality(S) = 0 <=> S = {})
  <1>1. IsFiniteSet(S) /\ Cardinality(S) <= Cardinality(Threads)
        BY ThreadsOK, FS_Subset
  <1>2. Cardinality(S) \in Nat /\ Cardinality(Threads) \in Nat
        BY <1>1, ThreadsOK, FS_CardinalityType
  <1>3. Cardinality(S) = 0 <=> S = {}
        BY <1>1, FS_EmptySet
  <1> QED BY <1>1, <1>2, <1>3, ThreadsOK

\* A thread that enters or leaves a counted set changes its size by one.
LEMMA Joins == ASSUME NEW S \in SUBSET Threads, NEW t \in Threads, t \notin S
               PROVE  Cardinality(S \union {t}) = Cardinality(S) + 1
  BY Sizes, FS_AddElement

LEMMA Quits == ASSUME NEW S \in SUBSET Threads, NEW t \in S
               PROVE  Cardinality(S \ {t}) = Cardinality(S) - 1
  BY Sizes, FS_RemoveElement

LEMMA Subsets == /\ CountedReaders \subseteq Threads /\ CountedWriters \subseteq Threads
                 /\ ParkedOnR \subseteq Threads /\ ParkedWriters \subseteq Threads
                 /\ ParkedReader \subseteq Threads
  BY DEF CountedReaders, CountedWriters, ParkedOnR, ParkedWriters, ParkedReader, Parked

\* The widths of the fields.
LEMMA Widths == Shape /\ CountExact => TypeOK
  <1> SUFFICES ASSUME Shape, CountExact PROVE TypeOK
      OBVIOUS
  <1>1. /\ m_nCount.readers \in 0..127 /\ m_nCount.writers \in 0..127
        /\ m_nCount.parkedReaders \in 0..127 /\ m_nCount.parkedWriters \in 0..127
        BY Sizes, Subsets DEF CountExact
  <1>2. m_nCount \in [readers : 0..255, writers : 0..255, parkedReaders : 0..255,
                      parkedWriters : 0..127, parkedReader : BOOLEAN]
        BY <1>1 DEF Shape, Fields
  <1> QED BY <1>2 DEF Shape, TypeOK

\* A field that is zero stands for nobody, and nobody then holds the lock.
LEMMA NobodyIn == ASSUME CountExact
                  PROVE  /\ m_nCount.writers = 0 => CountedWriters = {} /\ Writers = {}
                         /\ m_nCount.readers = 0 => CountedReaders = {} /\ Readers = {}
  <1>1. /\ m_nCount.writers = 0 => CountedWriters = {}
        /\ m_nCount.readers = 0 => CountedReaders = {}
        BY Sizes, Subsets DEF CountExact
  <1>2. Writers \subseteq CountedWriters /\ Readers \subseteq CountedReaders
        BY DEF Writers, CountedWriters, Readers, CountedReaders
  <1> QED BY <1>1, <1>2

-----------------------------------------------------------------------------
LEMMA InvInit == Init => IInv
  <1> SUFFICES ASSUME Init PROVE IInv
      OBVIOUS
  <1>1. \A t \in Threads : pc[t] = "idle"
        BY DEF Init
  <1>2. Shape
        <2>1. 0 \in 0..(Word - 1)
              BY WordOK
        <2>2. pending \in [Threads -> 0..(Word - 1)]
              BY <2>1 DEF Init
        <2>3. m_nCount \in Fields
              BY DEF Init, Fields
        <2>4. m_nLock \in BOOLEAN /\ REvent \in BOOLEAN /\ WEvent \in BOOLEAN
              BY DEF Init
        <2>5. /\ pc \in [Threads -> Labels] /\ role \in [Threads -> {"read", "write"}]
              /\ event \in [Threads -> {"R", "W"}]
              BY DEF Init, Labels
        <2>6. bit31 \in [Threads -> BOOLEAN] /\ others \in [Threads -> BOOLEAN]
              BY DEF Init
        <2> QED BY <2>2, <2>3, <2>4, <2>5, <2>6 DEF Shape
  <1>3. /\ CountedReaders = {} /\ CountedWriters = {} /\ ParkedOnR = {}
        /\ ParkedWriters = {} /\ ParkedReader = {} /\ InSpin = {} /\ Writers = {}
        BY <1>1 DEF CountedReaders, CountedWriters, ParkedOnR, ParkedWriters, ParkedReader,
                    Parked, InSpin, Writers
  <1>4. CountExact
        BY <1>3, FS_EmptySet DEF Init, CountExact
  <1>5. SpinExact /\ CopyAgrees /\ MutualExclusion
        BY <1>1, <1>3 DEF Init, SpinExact, CopyAgrees, MutualExclusion
  <1> QED BY <1>2, <1>4, <1>5 DEF IInv

-----------------------------------------------------------------------------
\* What an Interlocked operation on m_nCount gives.
LEMMA AddFields == ASSUME m_nCount \in Fields
                   PROVE  \A dr, dw, dpr, dpw \in Int : Add(dr, dw, dpr, dpw) \in Fields
  <1> TAKE dr, dw, dpr, dpw \in Int
  <1>1. /\ m_nCount.readers + dr \in Int /\ m_nCount.writers + dw \in Int
        /\ m_nCount.parkedReaders + dpr \in Int /\ m_nCount.parkedWriters + dpw \in Int
        /\ m_nCount.parkedReader \in BOOLEAN
        BY DEF Fields
  <1> QED BY <1>1 DEF Add, Fields

\* The fields with bit 31 inverted.
LEMMA FlipFields == \A c \in Fields : [c EXCEPT !.parkedReader = ~@] \in Fields
  <1> TAKE c \in Fields
  <1>1. (~c.parkedReader) \in BOOLEAN
        OBVIOUS
  <1>2. \A b \in BOOLEAN : [c EXCEPT !.parkedReader = b] \in Fields
        BY DEF Fields
  <1> QED BY <1>1, <1>2

\* The fields after an Interlocked operation.
LEMMA AddValues == ASSUME m_nCount \in Fields, NEW dr, NEW dw, NEW dpr, NEW dpw, NEW c,
                          \/ c = Add(dr, dw, dpr, dpw)
                          \/ c = [Add(dr, dw, dpr, dpw) EXCEPT !.parkedReader = ~@]
                   PROVE  /\ c.readers = m_nCount.readers + dr
                          /\ c.writers = m_nCount.writers + dw
                          /\ c.parkedReaders = m_nCount.parkedReaders + dpr
                          /\ c.parkedWriters = m_nCount.parkedWriters + dpw
  BY DEF Add, Fields

LEMMA AddBit31 == ASSUME m_nCount \in Fields, NEW dr, NEW dw, NEW dpr, NEW dpw
                  PROVE  /\ Add(dr, dw, dpr, dpw).parkedReader = m_nCount.parkedReader
                         /\ [Add(dr, dw, dpr, dpw) EXCEPT !.parkedReader = ~@].parkedReader
                               = ~m_nCount.parkedReader
  BY DEF Add, Fields

LEMMA PendingType == ASSUME Shape, NEW t \in Threads,
                            IncPending(t) \/ DecPending(t) \/ UNCHANGED pending
                     PROVE  pending' \in [Threads -> 0..(Word - 1)]
  <1>1. \A n \in 0..(Word - 1) : (n + 1) % Word \in 0..(Word - 1) /\ (n + Word - 1) % Word \in 0..(Word - 1)
        BY WordOK
  <1> QED BY <1>1 DEF Shape, IncPending, DecPending

LEMMA ShapeStep == Shape /\ [Next]_vars => Shape'
  <1> SUFFICES ASSUME Shape, [Next]_vars PROVE Shape'
      OBVIOUS
  <1> USE DEF Goto, locals
  <1>1. ASSUME NEW t \in Threads, ReadLock(t) PROVE Shape'
        <2>1. m_nCount' \in Fields
              <3>1. m_nCount \in Fields /\ m_nCount' = Add(1, 0, 0, 0)
                    BY <1>1 DEF ReadLock, Shape
              <3>2. -1 \in Int /\ 0 \in Int /\ 1 \in Int
                    OBVIOUS
              <3> QED BY <3>1, <3>2, AddFields, FlipFields
        <2>2. pending' \in [Threads -> 0..(Word - 1)]
              BY <1>1, PendingType DEF ReadLock
        <2>3. m_nLock' \in BOOLEAN /\ REvent' \in BOOLEAN /\ WEvent' \in BOOLEAN
              BY <1>1 DEF ReadLock, Shape
        <2>4. pc' \in [Threads -> Labels] /\ role' \in [Threads -> {"read", "write"}] /\ event' \in [Threads -> {"R", "W"}]
              BY <1>1 DEF ReadLock, Shape, Labels
        <2>5. bit31' \in [Threads -> BOOLEAN] /\ others' \in [Threads -> BOOLEAN]
              BY <1>1 DEF ReadLock, Shape
        <2> QED BY <2>1, <2>2, <2>3, <2>4, <2>5 DEF Shape
  <1>2. ASSUME NEW t \in Threads, WriteLock(t) PROVE Shape'
        <2>1. m_nCount' \in Fields
              <3>1. m_nCount \in Fields /\ m_nCount' = Add(0, 1, 0, 0)
                    BY <1>2 DEF WriteLock, Shape
              <3>2. -1 \in Int /\ 0 \in Int /\ 1 \in Int
                    OBVIOUS
              <3> QED BY <3>1, <3>2, AddFields, FlipFields
        <2>2. pending' \in [Threads -> 0..(Word - 1)]
              BY <1>2, PendingType DEF WriteLock
        <2>3. m_nLock' \in BOOLEAN /\ REvent' \in BOOLEAN /\ WEvent' \in BOOLEAN
              BY <1>2 DEF WriteLock, Shape
        <2>4. pc' \in [Threads -> Labels] /\ role' \in [Threads -> {"read", "write"}] /\ event' \in [Threads -> {"R", "W"}]
              BY <1>2 DEF WriteLock, Shape, Labels
        <2>5. bit31' \in [Threads -> BOOLEAN] /\ others' \in [Threads -> BOOLEAN]
              BY <1>2 DEF WriteLock, Shape
        <2> QED BY <2>1, <2>2, <2>3, <2>4, <2>5 DEF Shape
  <1>3. ASSUME NEW t \in Threads, WriteTryLock(t) PROVE Shape'
        <2>1. m_nCount' \in Fields
              <3>1. m_nCount \in Fields /\ m_nCount' = Add(0, 1, 0, 0)
                    BY <1>3 DEF WriteTryLock, Shape
              <3>2. -1 \in Int /\ 0 \in Int /\ 1 \in Int
                    OBVIOUS
              <3> QED BY <3>1, <3>2, AddFields, FlipFields
        <2>2. pending' \in [Threads -> 0..(Word - 1)]
              BY <1>3, PendingType DEF WriteTryLock
        <2>3. m_nLock' \in BOOLEAN /\ REvent' \in BOOLEAN /\ WEvent' \in BOOLEAN
              BY <1>3 DEF WriteTryLock, Shape
        <2>4. pc' \in [Threads -> Labels] /\ role' \in [Threads -> {"read", "write"}] /\ event' \in [Threads -> {"R", "W"}]
              BY <1>3 DEF WriteTryLock, Shape, Labels
        <2>5. bit31' \in [Threads -> BOOLEAN] /\ others' \in [Threads -> BOOLEAN]
              BY <1>3 DEF WriteTryLock, Shape
        <2> QED BY <2>1, <2>2, <2>3, <2>4, <2>5 DEF Shape
  <1>4. ASSUME NEW t \in Threads, UndoTry(t) PROVE Shape'
        <2>1. m_nCount' \in Fields
              <3>1. m_nCount \in Fields /\ m_nCount' = Add(0, -1, 0, 0)
                    BY <1>4 DEF UndoTry, Shape
              <3>2. -1 \in Int /\ 0 \in Int /\ 1 \in Int
                    OBVIOUS
              <3> QED BY <3>1, <3>2, AddFields, FlipFields
        <2>2. pending' \in [Threads -> 0..(Word - 1)]
              BY <1>4, PendingType DEF UndoTry
        <2>3. m_nLock' \in BOOLEAN /\ REvent' \in BOOLEAN /\ WEvent' \in BOOLEAN
              BY <1>4 DEF UndoTry, Shape
        <2>4. pc' \in [Threads -> Labels] /\ role' \in [Threads -> {"read", "write"}] /\ event' \in [Threads -> {"R", "W"}]
              BY <1>4 DEF UndoTry, Shape, Labels
        <2>5. bit31' \in [Threads -> BOOLEAN] /\ others' \in [Threads -> BOOLEAN]
              BY <1>4 DEF UndoTry, Shape
        <2> QED BY <2>1, <2>2, <2>3, <2>4, <2>5 DEF Shape
  <1>5. ASSUME NEW t \in Threads, Enter(t) PROVE Shape'
        BY <1>5 DEF Enter, Shape, Labels, Fields
  <1>6. ASSUME NEW t \in Threads, ParkReader(t) PROVE Shape'
        <2>1. m_nCount' \in Fields
              <3>1. m_nCount \in Fields /\ (m_nCount' = Add(-1, 0, 1, 0) \/ m_nCount' = [Add(-1, 0, 0, 0) EXCEPT !.parkedReader = ~@])
                    BY <1>6 DEF ParkReader, Shape
              <3>2. -1 \in Int /\ 0 \in Int /\ 1 \in Int
                    OBVIOUS
              <3> QED BY <3>1, <3>2, AddFields, FlipFields
        <2>2. pending' \in [Threads -> 0..(Word - 1)]
              BY <1>6, PendingType DEF ParkReader
        <2>3. m_nLock' \in BOOLEAN /\ REvent' \in BOOLEAN /\ WEvent' \in BOOLEAN
              BY <1>6 DEF ParkReader, Shape
        <2>4. pc' \in [Threads -> Labels] /\ role' \in [Threads -> {"read", "write"}] /\ event' \in [Threads -> {"R", "W"}]
              BY <1>6 DEF ParkReader, Shape, Labels, AfterPark
        <2>5. bit31' \in [Threads -> BOOLEAN] /\ others' \in [Threads -> BOOLEAN]
              BY <1>6 DEF ParkReader, Shape
        <2> QED BY <2>1, <2>2, <2>3, <2>4, <2>5 DEF Shape
  <1>7. ASSUME NEW t \in Threads, ParkWriter(t) PROVE Shape'
        <2>1. m_nCount' \in Fields
              <3>1. m_nCount \in Fields /\ m_nCount' = Add(0, -1, 0, 1)
                    BY <1>7 DEF ParkWriter, Shape
              <3>2. -1 \in Int /\ 0 \in Int /\ 1 \in Int
                    OBVIOUS
              <3> QED BY <3>1, <3>2, AddFields, FlipFields
        <2>2. pending' \in [Threads -> 0..(Word - 1)]
              BY <1>7, PendingType DEF ParkWriter
        <2>3. m_nLock' \in BOOLEAN /\ REvent' \in BOOLEAN /\ WEvent' \in BOOLEAN
              BY <1>7 DEF ParkWriter, Shape
        <2>4. pc' \in [Threads -> Labels] /\ role' \in [Threads -> {"read", "write"}] /\ event' \in [Threads -> {"R", "W"}]
              BY <1>7 DEF ParkWriter, Shape, Labels, AfterPark
        <2>5. bit31' \in [Threads -> BOOLEAN] /\ others' \in [Threads -> BOOLEAN]
              BY <1>7 DEF ParkWriter, Shape
        <2> QED BY <2>1, <2>2, <2>3, <2>4, <2>5 DEF Shape
  <1>8. ASSUME NEW t \in Threads, Leave(t) PROVE Shape'
        BY <1>8 DEF Leave, Shape, Labels, Fields
  <1>9. ASSUME NEW t \in Threads, Signal(t) PROVE Shape'
        BY <1>9 DEF Signal, Shape, Labels, Fields
  <1>10. ASSUME NEW t \in Threads, Wait(t) PROVE Shape'
        BY <1>10 DEF Wait, Shape, Labels, Fields
  <1>11. ASSUME NEW t \in Threads, Reenter(t) PROVE Shape'
        BY <1>11 DEF Reenter, Shape, Labels, Fields
  <1>12. ASSUME NEW t \in Threads, RecheckReader(t) PROVE Shape'
        <2>1. m_nCount' \in Fields
              <3>1. m_nCount \in Fields /\ (m_nCount' = Add(1, 0, -1, 0) \/ m_nCount' = [Add(1, 0, 0, 0) EXCEPT !.parkedReader = ~@])
                    BY <1>12 DEF RecheckReader, Shape
              <3>2. -1 \in Int /\ 0 \in Int /\ 1 \in Int
                    OBVIOUS
              <3> QED BY <3>1, <3>2, AddFields, FlipFields
        <2>2. pending' \in [Threads -> 0..(Word - 1)]
              BY <1>12, PendingType DEF RecheckReader
        <2>3. m_nLock' \in BOOLEAN /\ REvent' \in BOOLEAN /\ WEvent' \in BOOLEAN
              BY <1>12 DEF RecheckReader, Shape
        <2>4. pc' \in [Threads -> Labels] /\ role' \in [Threads -> {"read", "write"}] /\ event' \in [Threads -> {"R", "W"}]
              BY <1>12 DEF RecheckReader, Shape, Labels
        <2>5. bit31' \in [Threads -> BOOLEAN] /\ others' \in [Threads -> BOOLEAN]
              BY <1>12 DEF RecheckReader, Shape
        <2> QED BY <2>1, <2>2, <2>3, <2>4, <2>5 DEF Shape
  <1>13. ASSUME NEW t \in Threads, RecheckWriter(t) PROVE Shape'
        <2>1. m_nCount' \in Fields
              <3>1. m_nCount \in Fields /\ m_nCount' = Add(0, 1, 0, -1)
                    BY <1>13 DEF RecheckWriter, Shape
              <3>2. -1 \in Int /\ 0 \in Int /\ 1 \in Int
                    OBVIOUS
              <3> QED BY <3>1, <3>2, AddFields, FlipFields
        <2>2. pending' \in [Threads -> 0..(Word - 1)]
              BY <1>13, PendingType DEF RecheckWriter
        <2>3. m_nLock' \in BOOLEAN /\ REvent' \in BOOLEAN /\ WEvent' \in BOOLEAN
              BY <1>13 DEF RecheckWriter, Shape
        <2>4. pc' \in [Threads -> Labels] /\ role' \in [Threads -> {"read", "write"}] /\ event' \in [Threads -> {"R", "W"}]
              BY <1>13 DEF RecheckWriter, Shape, Labels
        <2>5. bit31' \in [Threads -> BOOLEAN] /\ others' \in [Threads -> BOOLEAN]
              BY <1>13 DEF RecheckWriter, Shape
        <2> QED BY <2>1, <2>2, <2>3, <2>4, <2>5 DEF Shape
  <1>14. ASSUME NEW t \in Threads, Exit(t) PROVE Shape'
        BY <1>14 DEF Exit, Shape, Labels, Fields
  <1>15. ASSUME NEW t \in Threads, Pass(t) PROVE Shape'
        BY <1>15 DEF Pass, Shape, Labels, Fields
  <1>16. ASSUME NEW t \in Threads, ReadUnlock(t) PROVE Shape'
        <2>1. m_nCount' \in Fields
              <3>1. m_nCount \in Fields /\ m_nCount' = Add(-1, 0, 0, 0)
                    BY <1>16 DEF ReadUnlock, Shape
              <3>2. -1 \in Int /\ 0 \in Int /\ 1 \in Int
                    OBVIOUS
              <3> QED BY <3>1, <3>2, AddFields, FlipFields
        <2>2. pending' \in [Threads -> 0..(Word - 1)]
              BY <1>16, PendingType DEF ReadUnlock
        <2>3. m_nLock' \in BOOLEAN /\ REvent' \in BOOLEAN /\ WEvent' \in BOOLEAN
              BY <1>16 DEF ReadUnlock, Shape
        <2>4. pc' \in [Threads -> Labels] /\ role' \in [Threads -> {"read", "write"}] /\ event' \in [Threads -> {"R", "W"}]
              BY <1>16 DEF ReadUnlock, Shape, Labels
        <2>5. bit31' \in [Threads -> BOOLEAN] /\ others' \in [Threads -> BOOLEAN]
              BY <1>16 DEF ReadUnlock, Shape
        <2> QED BY <2>1, <2>2, <2>3, <2>4, <2>5 DEF Shape
  <1>17. ASSUME NEW t \in Threads, WriteUnlock(t) PROVE Shape'
        <2>1. m_nCount' \in Fields
              <3>1. m_nCount \in Fields /\ m_nCount' = Add(0, -1, 0, 0)
                    BY <1>17 DEF WriteUnlock, Shape
              <3>2. -1 \in Int /\ 0 \in Int /\ 1 \in Int
                    OBVIOUS
              <3> QED BY <3>1, <3>2, AddFields, FlipFields
        <2>2. pending' \in [Threads -> 0..(Word - 1)]
              BY <1>17, PendingType DEF WriteUnlock
        <2>3. m_nLock' \in BOOLEAN /\ REvent' \in BOOLEAN /\ WEvent' \in BOOLEAN
              BY <1>17 DEF WriteUnlock, Shape
        <2>4. pc' \in [Threads -> Labels] /\ role' \in [Threads -> {"read", "write"}] /\ event' \in [Threads -> {"R", "W"}]
              BY <1>17 DEF WriteUnlock, Shape, Labels
        <2>5. bit31' \in [Threads -> BOOLEAN] /\ others' \in [Threads -> BOOLEAN]
              BY <1>17 DEF WriteUnlock, Shape
        <2> QED BY <2>1, <2>2, <2>3, <2>4, <2>5 DEF Shape
  <1>18. ASSUME NEW t \in Threads, SetREvent(t) PROVE Shape'
        BY <1>18 DEF SetREvent, Shape, Labels, Fields
  <1>19. ASSUME NEW t \in Threads, SetWEvent(t) PROVE Shape'
        BY <1>19 DEF SetWEvent, Shape, Labels, Fields
  <1>20. CASE UNCHANGED vars
        BY <1>20 DEF vars, Shape
  <1> QED BY <1>1, <1>2, <1>3, <1>4, <1>5, <1>6, <1>7, <1>8, <1>9, <1>10,
             <1>11, <1>12, <1>13, <1>14, <1>15, <1>16, <1>17, <1>18, <1>19, <1>20
             DEF Next, Call, Step, Park, Resume, Unlock

\* One thread at a time is between Enter and Leave, and only it changes bit 31.
LEMMA SpinStep == ASSUME Shape, SpinExact, CopyAgrees, [Next]_vars PROVE SpinExact' /\ CopyAgrees'
  <1> USE DEF Shape, SpinExact, CopyAgrees, InSpin, Goto, Labels, locals, Add
  <1>1. ASSUME NEW t \in Threads, ReadLock(t) PROVE SpinExact' /\ CopyAgrees'
        BY <1>1 DEF ReadLock
  <1>2. ASSUME NEW t \in Threads, WriteLock(t) PROVE SpinExact' /\ CopyAgrees'
        BY <1>2 DEF WriteLock
  <1>3. ASSUME NEW t \in Threads, WriteTryLock(t) PROVE SpinExact' /\ CopyAgrees'
        BY <1>3 DEF WriteTryLock
  <1>4. ASSUME NEW t \in Threads, UndoTry(t) PROVE SpinExact' /\ CopyAgrees'
        BY <1>4 DEF UndoTry
  <1>5. ASSUME NEW t \in Threads, Enter(t) PROVE SpinExact' /\ CopyAgrees'
        BY <1>5 DEF Enter
  <1>6. ASSUME NEW t \in Threads, ParkReader(t) PROVE SpinExact' /\ CopyAgrees'
        <2>1. pc[t] = "park" /\ t \in InSpin /\ (\A s \in Threads : s # t => s \notin InSpin)
              BY <1>6 DEF ParkReader
        <2>2. /\ pc'[t] \in {"leave", "leaveAndSignal"} /\ m_nLock' = m_nLock /\ role' = role
              /\ \A s \in Threads : s # t => pc'[s] = pc[s]
              BY <1>6 DEF ParkReader, AfterPark
        <2>3. SpinExact'
              BY <2>1, <2>2
        <2>4. CopyAgrees'
              BY <2>1, <2>2
        <2> QED BY <2>3, <2>4
  <1>7. ASSUME NEW t \in Threads, ParkWriter(t) PROVE SpinExact' /\ CopyAgrees'
        <2>1. pc[t] = "park" /\ t \in InSpin /\ (\A s \in Threads : s # t => s \notin InSpin)
              BY <1>7 DEF ParkWriter
        <2>2. /\ pc'[t] \in {"leave", "leaveAndSignal"} /\ m_nLock' = m_nLock /\ role' = role
              /\ \A s \in Threads : s # t => pc'[s] = pc[s]
              BY <1>7 DEF ParkWriter, AfterPark
        <2>3. SpinExact'
              BY <2>1, <2>2
        <2>4. CopyAgrees'
              BY <2>1, <2>2
        <2> QED BY <2>3, <2>4
  <1>8. ASSUME NEW t \in Threads, Leave(t) PROVE SpinExact' /\ CopyAgrees'
        BY <1>8 DEF Leave
  <1>9. ASSUME NEW t \in Threads, Signal(t) PROVE SpinExact' /\ CopyAgrees'
        BY <1>9 DEF Signal
  <1>10. ASSUME NEW t \in Threads, Wait(t) PROVE SpinExact' /\ CopyAgrees'
        BY <1>10 DEF Wait
  <1>11. ASSUME NEW t \in Threads, Reenter(t) PROVE SpinExact' /\ CopyAgrees'
        BY <1>11 DEF Reenter
  <1>12. ASSUME NEW t \in Threads, RecheckReader(t) PROVE SpinExact' /\ CopyAgrees'
        <2>1. pc[t] = "recheck" /\ t \in InSpin /\ (\A s \in Threads : s # t => s \notin InSpin)
              BY <1>12 DEF RecheckReader
        <2>2. /\ pc'[t] \in {"exit", "park"} /\ m_nLock' = m_nLock /\ role' = role
              /\ \A s \in Threads : s # t => pc'[s] = pc[s]
              BY <1>12 DEF RecheckReader
        <2>3. SpinExact'
              BY <2>1, <2>2
        <2>4. CopyAgrees'
              <3>1. pc'[t] = "park" => bit31'[t] = m_nCount'.parkedReader
                    <4>1. m_nCount' \in Fields
                          BY ShapeStep
                    <4>2. CASE m_nCount'.writers = 0
                          BY <1>12, <4>2 DEF RecheckReader
                    <4>3. CASE m_nCount'.writers # 0
                          <5>1. bit31' = [bit31 EXCEPT ![t] = m_nCount'.parkedReader /\ m_nCount'.writers # 0]
                                BY <1>12 DEF RecheckReader
                          <5> QED BY <4>1, <4>3, <5>1 DEF Fields
                    <4> QED BY <4>2, <4>3
              <3> QED BY <2>1, <2>2, <3>1
        <2> QED BY <2>3, <2>4
  <1>13. ASSUME NEW t \in Threads, RecheckWriter(t) PROVE SpinExact' /\ CopyAgrees'
        BY <1>13 DEF RecheckWriter
  <1>14. ASSUME NEW t \in Threads, Exit(t) PROVE SpinExact' /\ CopyAgrees'
        BY <1>14 DEF Exit
  <1>15. ASSUME NEW t \in Threads, Pass(t) PROVE SpinExact' /\ CopyAgrees'
        BY <1>15 DEF Pass
  <1>16. ASSUME NEW t \in Threads, ReadUnlock(t) PROVE SpinExact' /\ CopyAgrees'
        BY <1>16 DEF ReadUnlock
  <1>17. ASSUME NEW t \in Threads, WriteUnlock(t) PROVE SpinExact' /\ CopyAgrees'
        BY <1>17 DEF WriteUnlock
  <1>18. ASSUME NEW t \in Threads, SetREvent(t) PROVE SpinExact' /\ CopyAgrees'
        BY <1>18 DEF SetREvent
  <1>19. ASSUME NEW t \in Threads, SetWEvent(t) PROVE SpinExact' /\ CopyAgrees'
        BY <1>19 DEF SetWEvent
  <1>20. CASE UNCHANGED vars
        BY <1>20 DEF vars
  <1> QED BY <1>1, <1>2, <1>3, <1>4, <1>5, <1>6, <1>7, <1>8, <1>9, <1>10,
             <1>11, <1>12, <1>13, <1>14, <1>15, <1>16, <1>17, <1>18, <1>19, <1>20
             DEF Next, Call, Step, Park, Resume, Unlock
-----------------------------------------------------------------------------
\* The fields stay exact when neither they nor the sets change.
Counted == <<CountedReaders, CountedWriters, ParkedOnR, ParkedWriters, ParkedReader>>

LEMMA SameCount == ASSUME CountExact, UNCHANGED m_nCount, UNCHANGED Counted PROVE CountExact'
  BY DEF CountExact, Counted

\* Every step of a thread moves it between the counted sets as the fields say.
LEMMA CountStep == ASSUME Shape, CountExact, CopyAgrees, [Next]_vars PROVE CountExact'
  <1> USE DEF Goto, locals
  <1>1. ASSUME NEW t \in Threads, ReadLock(t) PROVE CountExact'
        <2>1. /\ t \notin CountedReaders /\ CountedReaders' = CountedReaders \union {t}
              /\ CountedWriters' = CountedWriters
              /\ ParkedOnR' = ParkedOnR
              /\ ParkedWriters' = ParkedWriters
              /\ ParkedReader' = ParkedReader
              BY <1>1 DEF ReadLock, Counted, Shape, CountedReaders, CountedWriters, ParkedOnR, ParkedWriters, ParkedReader, Parked
        <2>2. m_nCount \in Fields /\ m_nCount' = Add(1, 0, 0, 0)
              BY <1>1 DEF ReadLock, Shape
        <2>3. /\ m_nCount'.readers = m_nCount.readers + 1
              /\ m_nCount'.writers = m_nCount.writers
              /\ m_nCount'.parkedReaders = m_nCount.parkedReaders
              /\ m_nCount'.parkedWriters = m_nCount.parkedWriters
              BY <2>2, AddValues DEF Fields
        <2>4. m_nCount'.parkedReader = m_nCount.parkedReader
              BY <2>2, AddBit31
        <2>5. /\ m_nCount'.readers = Cardinality(CountedReaders')
              /\ m_nCount'.writers = Cardinality(CountedWriters')
              /\ m_nCount'.parkedReaders = Cardinality(ParkedOnR')
              /\ m_nCount'.parkedWriters = Cardinality(ParkedWriters')
              BY <2>1, <2>3, Joins, Quits, Subsets DEF CountExact
        <2>6. IF m_nCount'.parkedReader THEN \E u \in Threads : ParkedReader' = {u} ELSE ParkedReader' = {}
              BY <2>1, <2>4 DEF CountExact
        <2> QED BY <2>5, <2>6 DEF CountExact
  <1>2. ASSUME NEW t \in Threads, WriteLock(t) PROVE CountExact'
        <2>1. /\ CountedReaders' = CountedReaders
              /\ t \notin CountedWriters /\ CountedWriters' = CountedWriters \union {t}
              /\ ParkedOnR' = ParkedOnR
              /\ ParkedWriters' = ParkedWriters
              /\ ParkedReader' = ParkedReader
              BY <1>2 DEF WriteLock, Counted, Shape, CountedReaders, CountedWriters, ParkedOnR, ParkedWriters, ParkedReader, Parked
        <2>2. m_nCount \in Fields /\ m_nCount' = Add(0, 1, 0, 0)
              BY <1>2 DEF WriteLock, Shape
        <2>3. /\ m_nCount'.readers = m_nCount.readers
              /\ m_nCount'.writers = m_nCount.writers + 1
              /\ m_nCount'.parkedReaders = m_nCount.parkedReaders
              /\ m_nCount'.parkedWriters = m_nCount.parkedWriters
              BY <2>2, AddValues DEF Fields
        <2>4. m_nCount'.parkedReader = m_nCount.parkedReader
              BY <2>2, AddBit31
        <2>5. /\ m_nCount'.readers = Cardinality(CountedReaders')
              /\ m_nCount'.writers = Cardinality(CountedWriters')
              /\ m_nCount'.parkedReaders = Cardinality(ParkedOnR')
              /\ m_nCount'.parkedWriters = Cardinality(ParkedWriters')
              BY <2>1, <2>3, Joins, Quits, Subsets DEF CountExact
        <2>6. IF m_nCount'.parkedReader THEN \E u \in Threads : ParkedReader' = {u} ELSE ParkedReader' = {}
              BY <2>1, <2>4 DEF CountExact
        <2> QED BY <2>5, <2>6 DEF CountExact
  <1>3. ASSUME NEW t \in Threads, WriteTryLock(t) PROVE CountExact'
        <2>1. /\ CountedReaders' = CountedReaders
              /\ t \notin CountedWriters /\ CountedWriters' = CountedWriters \union {t}
              /\ ParkedOnR' = ParkedOnR
              /\ ParkedWriters' = ParkedWriters
              /\ ParkedReader' = ParkedReader
              BY <1>3 DEF WriteTryLock, Counted, Shape, CountedReaders, CountedWriters, ParkedOnR, ParkedWriters, ParkedReader, Parked
        <2>2. m_nCount \in Fields /\ m_nCount' = Add(0, 1, 0, 0)
              BY <1>3 DEF WriteTryLock, Shape
        <2>3. /\ m_nCount'.readers = m_nCount.readers
              /\ m_nCount'.writers = m_nCount.writers + 1
              /\ m_nCount'.parkedReaders = m_nCount.parkedReaders
              /\ m_nCount'.parkedWriters = m_nCount.parkedWriters
              BY <2>2, AddValues DEF Fields
        <2>4. m_nCount'.parkedReader = m_nCount.parkedReader
              BY <2>2, AddBit31
        <2>5. /\ m_nCount'.readers = Cardinality(CountedReaders')
              /\ m_nCount'.writers = Cardinality(CountedWriters')
              /\ m_nCount'.parkedReaders = Cardinality(ParkedOnR')
              /\ m_nCount'.parkedWriters = Cardinality(ParkedWriters')
              BY <2>1, <2>3, Joins, Quits, Subsets DEF CountExact
        <2>6. IF m_nCount'.parkedReader THEN \E u \in Threads : ParkedReader' = {u} ELSE ParkedReader' = {}
              BY <2>1, <2>4 DEF CountExact
        <2> QED BY <2>5, <2>6 DEF CountExact
  <1>4. ASSUME NEW t \in Threads, UndoTry(t) PROVE CountExact'
        <2>1. /\ CountedReaders' = CountedReaders
              /\ t \in CountedWriters /\ CountedWriters' = CountedWriters \ {t}
              /\ ParkedOnR' = ParkedOnR
              /\ ParkedWriters' = ParkedWriters
              /\ ParkedReader' = ParkedReader
              BY <1>4 DEF UndoTry, Counted, Shape, CountedReaders, CountedWriters, ParkedOnR, ParkedWriters, ParkedReader, Parked
        <2>2. m_nCount \in Fields /\ m_nCount' = Add(0, -1, 0, 0)
              BY <1>4 DEF UndoTry, Shape
        <2>3. /\ m_nCount'.readers = m_nCount.readers
              /\ m_nCount'.writers = m_nCount.writers - 1
              /\ m_nCount'.parkedReaders = m_nCount.parkedReaders
              /\ m_nCount'.parkedWriters = m_nCount.parkedWriters
              BY <2>2, AddValues DEF Fields
        <2>4. m_nCount'.parkedReader = m_nCount.parkedReader
              BY <2>2, AddBit31
        <2>5. /\ m_nCount'.readers = Cardinality(CountedReaders')
              /\ m_nCount'.writers = Cardinality(CountedWriters')
              /\ m_nCount'.parkedReaders = Cardinality(ParkedOnR')
              /\ m_nCount'.parkedWriters = Cardinality(ParkedWriters')
              BY <2>1, <2>3, Joins, Quits, Subsets DEF CountExact
        <2>6. IF m_nCount'.parkedReader THEN \E u \in Threads : ParkedReader' = {u} ELSE ParkedReader' = {}
              BY <2>1, <2>4 DEF CountExact
        <2> QED BY <2>5, <2>6 DEF CountExact
  <1>5. ASSUME NEW t \in Threads, Enter(t) PROVE CountExact'
        <2>1. UNCHANGED m_nCount /\ UNCHANGED Counted
              BY <1>5 DEF Enter, Shape, Counted, CountedReaders, CountedWriters, ParkedOnR, ParkedWriters, ParkedReader, Parked
        <2> QED BY <2>1, SameCount
  <1>6. ASSUME NEW t \in Threads, ParkReader(t) PROVE CountExact'
        <2>1. CASE bit31[t]
              <3>1. /\ t \in CountedReaders /\ CountedReaders' = CountedReaders \ {t}
                    /\ CountedWriters' = CountedWriters
                    /\ t \notin ParkedOnR /\ ParkedOnR' = ParkedOnR \union {t}
                    /\ ParkedWriters' = ParkedWriters
                    /\ ParkedReader' = ParkedReader
                    BY <1>6, <2>1 DEF ParkReader, Counted, Shape, CountedReaders, CountedWriters, ParkedOnR, ParkedWriters, ParkedReader, Parked, AfterPark
              <3>2. m_nCount \in Fields /\ m_nCount' = Add(-1, 0, 1, 0)
                    BY <1>6, <2>1 DEF ParkReader, Shape
              <3>3. /\ m_nCount'.readers = m_nCount.readers - 1
                    /\ m_nCount'.writers = m_nCount.writers
                    /\ m_nCount'.parkedReaders = m_nCount.parkedReaders + 1
                    /\ m_nCount'.parkedWriters = m_nCount.parkedWriters
                    BY <3>2, AddValues DEF Fields
              <3>4. m_nCount'.parkedReader = m_nCount.parkedReader
                    BY <3>2, AddBit31
              <3>5. /\ m_nCount'.readers = Cardinality(CountedReaders')
                    /\ m_nCount'.writers = Cardinality(CountedWriters')
                    /\ m_nCount'.parkedReaders = Cardinality(ParkedOnR')
                    /\ m_nCount'.parkedWriters = Cardinality(ParkedWriters')
                    BY <3>1, <3>3, Joins, Quits, Subsets DEF CountExact
              <3>6. IF m_nCount'.parkedReader THEN \E u \in Threads : ParkedReader' = {u} ELSE ParkedReader' = {}
                    BY <3>1, <3>4 DEF CountExact
              <3> QED BY <3>5, <3>6 DEF CountExact
        <2>2. CASE ~bit31[t]
              <3>0. ~m_nCount.parkedReader
                    BY <1>6, <2>2 DEF ParkReader, CopyAgrees
              <3>1. /\ t \in CountedReaders /\ CountedReaders' = CountedReaders \ {t}
                    /\ CountedWriters' = CountedWriters
                    /\ ParkedOnR' = ParkedOnR
                    /\ ParkedWriters' = ParkedWriters
                    /\ t \notin ParkedReader /\ ParkedReader' = ParkedReader \union {t}
                    BY <1>6, <2>2 DEF ParkReader, Counted, Shape, CountedReaders, CountedWriters, ParkedOnR, ParkedWriters, ParkedReader, Parked, AfterPark
              <3>2. m_nCount \in Fields /\ m_nCount' = [Add(-1, 0, 0, 0) EXCEPT !.parkedReader = ~@]
                    BY <1>6, <2>2 DEF ParkReader, Shape
              <3>3. /\ m_nCount'.readers = m_nCount.readers - 1
                    /\ m_nCount'.writers = m_nCount.writers
                    /\ m_nCount'.parkedReaders = m_nCount.parkedReaders
                    /\ m_nCount'.parkedWriters = m_nCount.parkedWriters
                    BY <3>2, AddValues DEF Fields
              <3>4. m_nCount'.parkedReader = ~m_nCount.parkedReader
                    BY <3>2, AddBit31
              <3>5. /\ m_nCount'.readers = Cardinality(CountedReaders')
                    /\ m_nCount'.writers = Cardinality(CountedWriters')
                    /\ m_nCount'.parkedReaders = Cardinality(ParkedOnR')
                    /\ m_nCount'.parkedWriters = Cardinality(ParkedWriters')
                    BY <3>1, <3>3, Joins, Quits, Subsets DEF CountExact
              <3>6. IF m_nCount'.parkedReader THEN \E u \in Threads : ParkedReader' = {u} ELSE ParkedReader' = {}
                    BY <3>1, <3>4, <3>0 DEF CountExact
              <3> QED BY <3>5, <3>6 DEF CountExact
        <2> QED BY <2>1, <2>2
  <1>7. ASSUME NEW t \in Threads, ParkWriter(t) PROVE CountExact'
        <2>1. /\ CountedReaders' = CountedReaders
              /\ t \in CountedWriters /\ CountedWriters' = CountedWriters \ {t}
              /\ ParkedOnR' = ParkedOnR
              /\ t \notin ParkedWriters /\ ParkedWriters' = ParkedWriters \union {t}
              /\ ParkedReader' = ParkedReader
              BY <1>7 DEF ParkWriter, Counted, Shape, CountedReaders, CountedWriters, ParkedOnR, ParkedWriters, ParkedReader, Parked, AfterPark
        <2>2. m_nCount \in Fields /\ m_nCount' = Add(0, -1, 0, 1)
              BY <1>7 DEF ParkWriter, Shape
        <2>3. /\ m_nCount'.readers = m_nCount.readers
              /\ m_nCount'.writers = m_nCount.writers - 1
              /\ m_nCount'.parkedReaders = m_nCount.parkedReaders
              /\ m_nCount'.parkedWriters = m_nCount.parkedWriters + 1
              BY <2>2, AddValues DEF Fields
        <2>4. m_nCount'.parkedReader = m_nCount.parkedReader
              BY <2>2, AddBit31
        <2>5. /\ m_nCount'.readers = Cardinality(CountedReaders')
              /\ m_nCount'.writers = Cardinality(CountedWriters')
              /\ m_nCount'.parkedReaders = Cardinality(ParkedOnR')
              /\ m_nCount'.parkedWriters = Cardinality(ParkedWriters')
              BY <2>1, <2>3, Joins, Quits, Subsets DEF CountExact
        <2>6. IF m_nCount'.parkedReader THEN \E u \in Threads : ParkedReader' = {u} ELSE ParkedReader' = {}
              BY <2>1, <2>4 DEF CountExact
        <2> QED BY <2>5, <2>6 DEF CountExact
  <1>8. ASSUME NEW t \in Threads, Leave(t) PROVE CountExact'
        <2>1. UNCHANGED m_nCount /\ UNCHANGED Counted
              BY <1>8 DEF Leave, Shape, Counted, CountedReaders, CountedWriters, ParkedOnR, ParkedWriters, ParkedReader, Parked
        <2> QED BY <2>1, SameCount
  <1>9. ASSUME NEW t \in Threads, Signal(t) PROVE CountExact'
        <2>1. UNCHANGED m_nCount /\ UNCHANGED Counted
              BY <1>9 DEF Signal, Shape, Counted, CountedReaders, CountedWriters, ParkedOnR, ParkedWriters, ParkedReader, Parked
        <2> QED BY <2>1, SameCount
  <1>10. ASSUME NEW t \in Threads, Wait(t) PROVE CountExact'
        <2>1. UNCHANGED m_nCount /\ UNCHANGED Counted
              BY <1>10 DEF Wait, Shape, Counted, CountedReaders, CountedWriters, ParkedOnR, ParkedWriters, ParkedReader, Parked
        <2> QED BY <2>1, SameCount
  <1>11. ASSUME NEW t \in Threads, Reenter(t) PROVE CountExact'
        <2>1. UNCHANGED m_nCount /\ UNCHANGED Counted
              BY <1>11 DEF Reenter, Shape, Counted, CountedReaders, CountedWriters, ParkedOnR, ParkedWriters, ParkedReader, Parked
        <2> QED BY <2>1, SameCount
  <1>12. ASSUME NEW t \in Threads, RecheckReader(t) PROVE CountExact'
        <2>1. CASE event[t] # "W"
              <3>1. /\ t \notin CountedReaders /\ CountedReaders' = CountedReaders \union {t}
                    /\ CountedWriters' = CountedWriters
                    /\ t \in ParkedOnR /\ ParkedOnR' = ParkedOnR \ {t}
                    /\ ParkedWriters' = ParkedWriters
                    /\ ParkedReader' = ParkedReader
                    BY <1>12, <2>1 DEF RecheckReader, Counted, Shape, CountedReaders, CountedWriters, ParkedOnR, ParkedWriters, ParkedReader, Parked
              <3>2. m_nCount \in Fields /\ m_nCount' = Add(1, 0, -1, 0)
                    BY <1>12, <2>1 DEF RecheckReader, Shape
              <3>3. /\ m_nCount'.readers = m_nCount.readers + 1
                    /\ m_nCount'.writers = m_nCount.writers
                    /\ m_nCount'.parkedReaders = m_nCount.parkedReaders - 1
                    /\ m_nCount'.parkedWriters = m_nCount.parkedWriters
                    BY <3>2, AddValues DEF Fields
              <3>4. m_nCount'.parkedReader = m_nCount.parkedReader
                    BY <3>2, AddBit31
              <3>5. /\ m_nCount'.readers = Cardinality(CountedReaders')
                    /\ m_nCount'.writers = Cardinality(CountedWriters')
                    /\ m_nCount'.parkedReaders = Cardinality(ParkedOnR')
                    /\ m_nCount'.parkedWriters = Cardinality(ParkedWriters')
                    BY <3>1, <3>3, Joins, Quits, Subsets DEF CountExact
              <3>6. IF m_nCount'.parkedReader THEN \E u \in Threads : ParkedReader' = {u} ELSE ParkedReader' = {}
                    BY <3>1, <3>4 DEF CountExact
              <3> QED BY <3>5, <3>6 DEF CountExact
        <2>2. CASE event[t] = "W"
              <3>1. /\ t \notin CountedReaders /\ CountedReaders' = CountedReaders \union {t}
                    /\ CountedWriters' = CountedWriters
                    /\ ParkedOnR' = ParkedOnR
                    /\ ParkedWriters' = ParkedWriters
                    /\ t \in ParkedReader /\ ParkedReader' = ParkedReader \ {t}
                    BY <1>12, <2>2 DEF RecheckReader, Counted, Shape, CountedReaders, CountedWriters, ParkedOnR, ParkedWriters, ParkedReader, Parked
              <3>2. m_nCount \in Fields /\ m_nCount' = [Add(1, 0, 0, 0) EXCEPT !.parkedReader = ~@]
                    BY <1>12, <2>2 DEF RecheckReader, Shape
              <3>3. /\ m_nCount'.readers = m_nCount.readers + 1
                    /\ m_nCount'.writers = m_nCount.writers
                    /\ m_nCount'.parkedReaders = m_nCount.parkedReaders
                    /\ m_nCount'.parkedWriters = m_nCount.parkedWriters
                    BY <3>2, AddValues DEF Fields
              <3>4. m_nCount'.parkedReader = ~m_nCount.parkedReader
                    BY <3>2, AddBit31
              <3>5. /\ m_nCount'.readers = Cardinality(CountedReaders')
                    /\ m_nCount'.writers = Cardinality(CountedWriters')
                    /\ m_nCount'.parkedReaders = Cardinality(ParkedOnR')
                    /\ m_nCount'.parkedWriters = Cardinality(ParkedWriters')
                    BY <3>1, <3>3, Joins, Quits, Subsets DEF CountExact
              <3>6. IF m_nCount'.parkedReader THEN \E u \in Threads : ParkedReader' = {u} ELSE ParkedReader' = {}
                    BY <3>1, <3>4 DEF CountExact
              <3> QED BY <3>5, <3>6 DEF CountExact
        <2> QED BY <2>1, <2>2
  <1>13. ASSUME NEW t \in Threads, RecheckWriter(t) PROVE CountExact'
        <2>1. /\ CountedReaders' = CountedReaders
              /\ t \notin CountedWriters /\ CountedWriters' = CountedWriters \union {t}
              /\ ParkedOnR' = ParkedOnR
              /\ t \in ParkedWriters /\ ParkedWriters' = ParkedWriters \ {t}
              /\ ParkedReader' = ParkedReader
              BY <1>13 DEF RecheckWriter, Counted, Shape, CountedReaders, CountedWriters, ParkedOnR, ParkedWriters, ParkedReader, Parked
        <2>2. m_nCount \in Fields /\ m_nCount' = Add(0, 1, 0, -1)
              BY <1>13 DEF RecheckWriter, Shape
        <2>3. /\ m_nCount'.readers = m_nCount.readers
              /\ m_nCount'.writers = m_nCount.writers + 1
              /\ m_nCount'.parkedReaders = m_nCount.parkedReaders
              /\ m_nCount'.parkedWriters = m_nCount.parkedWriters - 1
              BY <2>2, AddValues DEF Fields
        <2>4. m_nCount'.parkedReader = m_nCount.parkedReader
              BY <2>2, AddBit31
        <2>5. /\ m_nCount'.readers = Cardinality(CountedReaders')
              /\ m_nCount'.writers = Cardinality(CountedWriters')
              /\ m_nCount'.parkedReaders = Cardinality(ParkedOnR')
              /\ m_nCount'.parkedWriters = Cardinality(ParkedWriters')
              BY <2>1, <2>3, Joins, Quits, Subsets DEF CountExact
        <2>6. IF m_nCount'.parkedReader THEN \E u \in Threads : ParkedReader' = {u} ELSE ParkedReader' = {}
              BY <2>1, <2>4 DEF CountExact
        <2> QED BY <2>5, <2>6 DEF CountExact
  <1>14. ASSUME NEW t \in Threads, Exit(t) PROVE CountExact'
        <2>1. UNCHANGED m_nCount /\ UNCHANGED Counted
              BY <1>14 DEF Exit, Shape, Counted, CountedReaders, CountedWriters, ParkedOnR, ParkedWriters, ParkedReader, Parked
        <2> QED BY <2>1, SameCount
  <1>15. ASSUME NEW t \in Threads, Pass(t) PROVE CountExact'
        <2>1. UNCHANGED m_nCount /\ UNCHANGED Counted
              BY <1>15 DEF Pass, Shape, Counted, CountedReaders, CountedWriters, ParkedOnR, ParkedWriters, ParkedReader, Parked
        <2> QED BY <2>1, SameCount
  <1>16. ASSUME NEW t \in Threads, ReadUnlock(t) PROVE CountExact'
        <2>1. /\ t \in CountedReaders /\ CountedReaders' = CountedReaders \ {t}
              /\ CountedWriters' = CountedWriters
              /\ ParkedOnR' = ParkedOnR
              /\ ParkedWriters' = ParkedWriters
              /\ ParkedReader' = ParkedReader
              BY <1>16 DEF ReadUnlock, Counted, Shape, CountedReaders, CountedWriters, ParkedOnR, ParkedWriters, ParkedReader, Parked
        <2>2. m_nCount \in Fields /\ m_nCount' = Add(-1, 0, 0, 0)
              BY <1>16 DEF ReadUnlock, Shape
        <2>3. /\ m_nCount'.readers = m_nCount.readers - 1
              /\ m_nCount'.writers = m_nCount.writers
              /\ m_nCount'.parkedReaders = m_nCount.parkedReaders
              /\ m_nCount'.parkedWriters = m_nCount.parkedWriters
              BY <2>2, AddValues DEF Fields
        <2>4. m_nCount'.parkedReader = m_nCount.parkedReader
              BY <2>2, AddBit31
        <2>5. /\ m_nCount'.readers = Cardinality(CountedReaders')
              /\ m_nCount'.writers = Cardinality(CountedWriters')
              /\ m_nCount'.parkedReaders = Cardinality(ParkedOnR')
              /\ m_nCount'.parkedWriters = Cardinality(ParkedWriters')
              BY <2>1, <2>3, Joins, Quits, Subsets DEF CountExact
        <2>6. IF m_nCount'.parkedReader THEN \E u \in Threads : ParkedReader' = {u} ELSE ParkedReader' = {}
              BY <2>1, <2>4 DEF CountExact
        <2> QED BY <2>5, <2>6 DEF CountExact
  <1>17. ASSUME NEW t \in Threads, WriteUnlock(t) PROVE CountExact'
        <2>1. /\ CountedReaders' = CountedReaders
              /\ t \in CountedWriters /\ CountedWriters' = CountedWriters \ {t}
              /\ ParkedOnR' = ParkedOnR
              /\ ParkedWriters' = ParkedWriters
              /\ ParkedReader' = ParkedReader
              BY <1>17 DEF WriteUnlock, Counted, Shape, CountedReaders, CountedWriters, ParkedOnR, ParkedWriters, ParkedReader, Parked
        <2>2. m_nCount \in Fields /\ m_nCount' = Add(0, -1, 0, 0)
              BY <1>17 DEF WriteUnlock, Shape
        <2>3. /\ m_nCount'.readers = m_nCount.readers
              /\ m_nCount'.writers = m_nCount.writers - 1
              /\ m_nCount'.parkedReaders = m_nCount.parkedReaders
              /\ m_nCount'.parkedWriters = m_nCount.parkedWriters
              BY <2>2, AddValues DEF Fields
        <2>4. m_nCount'.parkedReader = m_nCount.parkedReader
              BY <2>2, AddBit31
        <2>5. /\ m_nCount'.readers = Cardinality(CountedReaders')
              /\ m_nCount'.writers = Cardinality(CountedWriters')
              /\ m_nCount'.parkedReaders = Cardinality(ParkedOnR')
              /\ m_nCount'.parkedWriters = Cardinality(ParkedWriters')
              BY <2>1, <2>3, Joins, Quits, Subsets DEF CountExact
        <2>6. IF m_nCount'.parkedReader THEN \E u \in Threads : ParkedReader' = {u} ELSE ParkedReader' = {}
              BY <2>1, <2>4 DEF CountExact
        <2> QED BY <2>5, <2>6 DEF CountExact
  <1>18. ASSUME NEW t \in Threads, SetREvent(t) PROVE CountExact'
        <2>1. UNCHANGED m_nCount /\ UNCHANGED Counted
              BY <1>18 DEF SetREvent, Shape, Counted, CountedReaders, CountedWriters, ParkedOnR, ParkedWriters, ParkedReader, Parked
        <2> QED BY <2>1, SameCount
  <1>19. ASSUME NEW t \in Threads, SetWEvent(t) PROVE CountExact'
        <2>1. UNCHANGED m_nCount /\ UNCHANGED Counted
              BY <1>19 DEF SetWEvent, Shape, Counted, CountedReaders, CountedWriters, ParkedOnR, ParkedWriters, ParkedReader, Parked
        <2> QED BY <2>1, SameCount
  <1>20. CASE UNCHANGED vars
        <2>1. UNCHANGED m_nCount /\ UNCHANGED Counted
              BY <1>20 DEF vars, Counted, CountedReaders, CountedWriters, ParkedOnR, ParkedWriters, ParkedReader, Parked
        <2> QED BY <2>1, SameCount
  <1> QED BY <1>1, <1>2, <1>3, <1>4, <1>5, <1>6, <1>7, <1>8, <1>9, <1>10,
             <1>11, <1>12, <1>13, <1>14, <1>15, <1>16, <1>17, <1>18, <1>19, <1>20
             DEF Next, Call, Step, Park, Resume, Unlock

-----------------------------------------------------------------------------
\* Who is let in finds nobody who excludes it: the fields would show it.
LEMMA ExclusionStep == ASSUME Shape, CountExact, MutualExclusion, [Next]_vars PROVE MutualExclusion'
  <1> USE DEF Goto, locals, Shape, MutualExclusion, Readers, Writers
  <1>1. ASSUME NEW t \in Threads, ReadLock(t) PROVE MutualExclusion'
        BY <1>1, NobodyIn DEF ReadLock
  <1>2. ASSUME NEW t \in Threads, WriteLock(t) PROVE MutualExclusion'
        BY <1>2, NobodyIn DEF WriteLock, Free
  <1>3. ASSUME NEW t \in Threads, WriteTryLock(t) PROVE MutualExclusion'
        BY <1>3, NobodyIn DEF WriteTryLock, Free
  <1>4. ASSUME NEW t \in Threads, UndoTry(t) PROVE MutualExclusion'
        BY <1>4 DEF UndoTry
  <1>5. ASSUME NEW t \in Threads, Enter(t) PROVE MutualExclusion'
        BY <1>5 DEF Enter
  <1>6. ASSUME NEW t \in Threads, ParkReader(t) PROVE MutualExclusion'
        BY <1>6 DEF ParkReader, AfterPark
  <1>7. ASSUME NEW t \in Threads, ParkWriter(t) PROVE MutualExclusion'
        BY <1>7 DEF ParkWriter, AfterPark
  <1>8. ASSUME NEW t \in Threads, Leave(t) PROVE MutualExclusion'
        BY <1>8 DEF Leave
  <1>9. ASSUME NEW t \in Threads, Signal(t) PROVE MutualExclusion'
        BY <1>9 DEF Signal
  <1>10. ASSUME NEW t \in Threads, Wait(t) PROVE MutualExclusion'
        BY <1>10 DEF Wait
  <1>11. ASSUME NEW t \in Threads, Reenter(t) PROVE MutualExclusion'
        BY <1>11 DEF Reenter
  <1>12. ASSUME NEW t \in Threads, RecheckReader(t) PROVE MutualExclusion'
        <2>1. \/ pc'[t] = "park"
              \/ pc'[t] = "exit" /\ m_nCount.writers = 0
              <3>1. m_nCount'.writers = m_nCount.writers
                    <4>1. \/ m_nCount' = Add(1, 0, -1, 0)
                          \/ m_nCount' = [Add(1, 0, 0, 0) EXCEPT !.parkedReader = ~@]
                          BY <1>12 DEF RecheckReader
                    <4> QED BY <4>1, AddValues DEF Fields
              <3> QED BY <1>12, <3>1 DEF RecheckReader
        <2>2. role' = role /\ pc[t] = "recheck" /\ role[t] = "read" /\ \A s \in Threads : s # t => pc'[s] = pc[s]
              BY <1>12 DEF RecheckReader
        <2>3. CASE pc'[t] = "park"
              BY <2>2, <2>3
        <2>4. CASE m_nCount.writers = 0
              <3>1. \A u \in Threads : u \notin Writers
                    BY <2>4, NobodyIn
              <3> QED BY <2>1, <2>2, <3>1
        <2> QED BY <2>1, <2>3, <2>4
  <1>13. ASSUME NEW t \in Threads, RecheckWriter(t) PROVE MutualExclusion'
        BY <1>13, NobodyIn DEF RecheckWriter, Free
  <1>14. ASSUME NEW t \in Threads, Exit(t) PROVE MutualExclusion'
        BY <1>14 DEF Exit
  <1>15. ASSUME NEW t \in Threads, Pass(t) PROVE MutualExclusion'
        BY <1>15 DEF Pass
  <1>16. ASSUME NEW t \in Threads, ReadUnlock(t) PROVE MutualExclusion'
        BY <1>16 DEF ReadUnlock
  <1>17. ASSUME NEW t \in Threads, WriteUnlock(t) PROVE MutualExclusion'
        BY <1>17 DEF WriteUnlock
  <1>18. ASSUME NEW t \in Threads, SetREvent(t) PROVE MutualExclusion'
        BY <1>18 DEF SetREvent
  <1>19. ASSUME NEW t \in Threads, SetWEvent(t) PROVE MutualExclusion'
        BY <1>19 DEF SetWEvent
  <1>20. CASE UNCHANGED vars
        BY <1>20 DEF vars
  <1> QED BY <1>1, <1>2, <1>3, <1>4, <1>5, <1>6, <1>7, <1>8, <1>9, <1>10,
             <1>11, <1>12, <1>13, <1>14, <1>15, <1>16, <1>17, <1>18, <1>19, <1>20
             DEF Next, Call, Step, Park, Resume, Unlock

LEMMA InvHolds == Spec => []IInv
  <1>1. IInv /\ [Next]_vars => IInv'
        BY ShapeStep, SpinStep, CountStep, ExclusionStep DEF IInv
  <1> QED BY InvInit, <1>1, PTL DEF Spec

\* No field of the packed m_nCount ever leaves its bits.
THEOREM TypeCorrect == Spec => []TypeOK
  <1>1. IInv => TypeOK
        BY Widths DEF IInv
  <1> QED BY InvHolds, <1>1, PTL

\* Every field of m_nCount is the number of threads it stands for.
THEOREM CountIsExact == Spec => []CountExact
  BY InvHolds, PTL DEF IInv

\* A writer that holds the lock holds it alone.
THEOREM WritersExclude == Spec => []MutualExclusion
  BY InvHolds, PTL DEF IInv

-----------------------------------------------------------------------------
\* No lost wake-up, for the uses of MCRWLock.

\* Only a reader that is parked has m_hREvent as its event.
EventKept == \A t \in Threads : event[t] = "R" => t \in ParkedOnR

\* A thread that will wake the readers parked on m_hREvent, or park on m_hWEvent
\* and so set bit 31 again.
PassesOn(t) == \/ pc[t] = "pass" \/ (pc[t] = "exit" /\ role[t] = "read" /\ others[t])
               \/ pc[t] = "park" /\ role[t] = "read"
               \/ pc[t] \in {"reenter", "recheck"} /\ event[t] = "R"

\* Readers are parked on m_hREvent behind one that is parked on m_hWEvent; when
\* that one is gone, the wake-up is passed on from one to the next.
Passed == ParkedOnR # {} /\ ~m_nCount.parkedReader
              => REvent \/ \E t \in Threads : PassesOn(t)

\* A thread that will take a look at who is parked, or is on its way to do so.
Moving(t) == pc[t] \notin {"idle", "undo", "leave", "wait"}

Roused == Parked # {} => WEvent \/ REvent \/ \E t \in Threads : Moving(t)

\* In the use for writing only there is no reader, and nobody to signal one.
NoReaders == /\ ~REvent
             /\ \A t \in Threads : /\ pc[t] \notin {"reading", "pass", "setR"}
                                   /\ pc[t] \notin {"idle", "setW"} => role[t] = "write"

WakeInv == /\ EventKept /\ Passed
           /\ "try" \notin use => Roused /\ \A t \in Threads : pc[t] # "undo"
           /\ "read" \notin use => NoReaders

LEMMA EventStep == ASSUME Shape, EventKept, [Next]_vars PROVE EventKept'
  <1> USE DEF Shape, EventKept, ParkedOnR, Parked, Goto, Labels, locals
  <1>1. ASSUME NEW t \in Threads, ReadLock(t) PROVE EventKept'
        BY <1>1 DEF ReadLock
  <1>2. ASSUME NEW t \in Threads, WriteLock(t) PROVE EventKept'
        BY <1>2 DEF WriteLock
  <1>3. ASSUME NEW t \in Threads, WriteTryLock(t) PROVE EventKept'
        BY <1>3 DEF WriteTryLock
  <1>4. ASSUME NEW t \in Threads, UndoTry(t) PROVE EventKept'
        BY <1>4 DEF UndoTry
  <1>5. ASSUME NEW t \in Threads, Enter(t) PROVE EventKept'
        BY <1>5 DEF Enter
  <1>6. ASSUME NEW t \in Threads, ParkReader(t) PROVE EventKept'
        BY <1>6 DEF ParkReader, AfterPark
  <1>7. ASSUME NEW t \in Threads, ParkWriter(t) PROVE EventKept'
        BY <1>7 DEF ParkWriter, AfterPark
  <1>8. ASSUME NEW t \in Threads, Leave(t) PROVE EventKept'
        BY <1>8 DEF Leave
  <1>9. ASSUME NEW t \in Threads, Signal(t) PROVE EventKept'
        BY <1>9 DEF Signal
  <1>10. ASSUME NEW t \in Threads, Wait(t) PROVE EventKept'
        BY <1>10 DEF Wait
  <1>11. ASSUME NEW t \in Threads, Reenter(t) PROVE EventKept'
        BY <1>11 DEF Reenter
  <1>12. ASSUME NEW t \in Threads, RecheckReader(t) PROVE EventKept'
        BY <1>12 DEF RecheckReader
  <1>13. ASSUME NEW t \in Threads, RecheckWriter(t) PROVE EventKept'
        BY <1>13 DEF RecheckWriter
  <1>14. ASSUME NEW t \in Threads, Exit(t) PROVE EventKept'
        BY <1>14 DEF Exit
  <1>15. ASSUME NEW t \in Threads, Pass(t) PROVE EventKept'
        BY <1>15 DEF Pass
  <1>16. ASSUME NEW t \in Threads, ReadUnlock(t) PROVE EventKept'
        BY <1>16 DEF ReadUnlock
  <1>17. ASSUME NEW t \in Threads, WriteUnlock(t) PROVE EventKept'
        BY <1>17 DEF WriteUnlock
  <1>18. ASSUME NEW t \in Threads, SetREvent(t) PROVE EventKept'
        BY <1>18 DEF SetREvent
  <1>19. ASSUME NEW t \in Threads, SetWEvent(t) PROVE EventKept'
        BY <1>19 DEF SetWEvent
  <1>20. CASE UNCHANGED vars
        BY <1>20 DEF vars
  <1> QED BY <1>1, <1>2, <1>3, <1>4, <1>5, <1>6, <1>7, <1>8, <1>9, <1>10,
             <1>11, <1>12, <1>13, <1>14, <1>15, <1>16, <1>17, <1>18, <1>19, <1>20
             DEF Next, Call, Step, Park, Resume, Unlock

\* A field that is not zero stands for somebody.
LEMMA SomebodyIn == ASSUME NEW S \in SUBSET Threads
                    PROVE  S # {} <=> Cardinality(S) > 0
  BY Sizes

LEMMA SubsetsNext == /\ (CountedReaders \subseteq Threads)' /\ (CountedWriters \subseteq Threads)'
                     /\ (ParkedOnR \subseteq Threads)' /\ (ParkedWriters \subseteq Threads)'
  BY DEF CountedReaders, CountedWriters, ParkedOnR, ParkedWriters, Parked

\* A reader woken through m_hREvent wakes the next or parks on m_hWEvent.
LEMMA PassedStep == ASSUME Shape, CopyAgrees, EventKept, Passed, [Next]_vars, CountExact, CountExact'
                    PROVE  Passed'
  <1> USE DEF Shape, EventKept, Passed, PassesOn, ParkedOnR, Parked, Goto, Labels, locals
  <1>1. ASSUME NEW t \in Threads, ReadLock(t) PROVE Passed'
        BY <1>1, AddBit31 DEF ReadLock
  <1>2. ASSUME NEW t \in Threads, WriteLock(t) PROVE Passed'
        BY <1>2, AddBit31 DEF WriteLock
  <1>3. ASSUME NEW t \in Threads, WriteTryLock(t) PROVE Passed'
        BY <1>3, AddBit31 DEF WriteTryLock
  <1>4. ASSUME NEW t \in Threads, UndoTry(t) PROVE Passed'
        BY <1>4, AddBit31 DEF UndoTry
  <1>5. ASSUME NEW t \in Threads, Enter(t) PROVE Passed'
        BY <1>5 DEF Enter
  <1>6. ASSUME NEW t \in Threads, ParkReader(t) PROVE Passed'
        <2>1. bit31[t] <=> m_nCount.parkedReader
              BY <1>6 DEF ParkReader, CopyAgrees
        <2>2. CASE bit31[t]
              <3>1. m_nCount' = Add(-1, 0, 1, 0)
                    BY <1>6, <2>2 DEF ParkReader
              <3> QED BY <2>1, <2>2, <3>1, AddBit31
        <2>3. CASE ~bit31[t]
              <3>1. m_nCount' = [Add(-1, 0, 0, 0) EXCEPT !.parkedReader = ~@]
                    BY <1>6, <2>3 DEF ParkReader
              <3>2. m_nCount.parkedReader = FALSE
                    BY <2>1, <2>3 DEF Fields
              <3>3. [Add(-1, 0, 0, 0) EXCEPT !.parkedReader = ~@].parkedReader = TRUE
                    BY <3>2 DEF Add
              <3> QED BY <3>1, <3>3
        <2> QED BY <2>2, <2>3
  <1>7. ASSUME NEW t \in Threads, ParkWriter(t) PROVE Passed'
        BY <1>7, AddBit31 DEF ParkWriter, AfterPark
  <1>8. ASSUME NEW t \in Threads, Leave(t) PROVE Passed'
        BY <1>8 DEF Leave
  <1>9. ASSUME NEW t \in Threads, Signal(t) PROVE Passed'
        BY <1>9 DEF Signal
  <1>10. ASSUME NEW t \in Threads, Wait(t) PROVE Passed'
        BY <1>10 DEF Wait
  <1>11. ASSUME NEW t \in Threads, Reenter(t) PROVE Passed'
        BY <1>11 DEF Reenter
  <1>12. ASSUME NEW t \in Threads, RecheckReader(t) PROVE Passed'
        <2>1. CASE m_nCount'.writers = 0 /\ ParkedOnR' # {}
              <3>1. m_nCount'.parkedReaders > 0
                    BY <2>1, SomebodyIn, SubsetsNext DEF CountExact
              <3>2. PassesOn(t)'
                    BY <1>12, <2>1, <3>1 DEF RecheckReader
              <3> QED BY <3>2
        <2>2. CASE m_nCount'.writers # 0
              <3>1. PassesOn(t)'
                    BY <1>12, <2>2 DEF RecheckReader
              <3> QED BY <3>1
        <2> QED BY <2>1, <2>2
  <1>13. ASSUME NEW t \in Threads, RecheckWriter(t) PROVE Passed'
        BY <1>13, AddBit31 DEF RecheckWriter
  <1>14. ASSUME NEW t \in Threads, Exit(t) PROVE Passed'
        BY <1>14 DEF Exit
  <1>15. ASSUME NEW t \in Threads, Pass(t) PROVE Passed'
        BY <1>15 DEF Pass
  <1>16. ASSUME NEW t \in Threads, ReadUnlock(t) PROVE Passed'
        BY <1>16, AddBit31 DEF ReadUnlock
  <1>17. ASSUME NEW t \in Threads, WriteUnlock(t) PROVE Passed'
        BY <1>17, AddBit31 DEF WriteUnlock
  <1>18. ASSUME NEW t \in Threads, SetREvent(t) PROVE Passed'
        BY <1>18 DEF SetREvent
  <1>19. ASSUME NEW t \in Threads, SetWEvent(t) PROVE Passed'
        BY <1>19 DEF SetWEvent
  <1>20. CASE UNCHANGED vars
        BY <1>20 DEF vars
  <1> QED BY <1>1, <1>2, <1>3, <1>4, <1>5, <1>6, <1>7, <1>8, <1>9, <1>10,
             <1>11, <1>12, <1>13, <1>14, <1>15, <1>16, <1>17, <1>18, <1>19, <1>20
             DEF Next, Call, Step, Park, Resume, Unlock

\* Whoever parks or leaves without a signal leaves somebody behind who is moving.
LEMMA RousedStep == ASSUME Shape, CountExact, Roused, \A t \in Threads : pc[t] # "undo",
                           Shape', CountExact', Passed',
                           \/ UNCHANGED vars
                           \/ \E t \in Threads : ReadLock(t) \/ WriteLock(t) \/ Step(t)
                    PROVE  Roused' /\ \A t \in Threads : pc'[t] # "undo"
  <1> USE DEF Shape, Roused, Moving, Parked, Goto, Labels, locals
  <1>a. ASSUME ~Free(m_nCount)', \A t \in Threads : pc'[t] # "undo"
        PROVE  \E t \in Threads : Moving(t)'
        <2>1. m_nCount'.readers # 0 \/ m_nCount'.writers # 0
              BY <1>a DEF Free
        <2>2. m_nCount'.readers # 0 => CountedReaders' # {}
              BY Sizes, SubsetsNext DEF CountExact
        <2>3. m_nCount'.writers # 0 => CountedWriters' # {}
              BY Sizes, SubsetsNext DEF CountExact
        <2> QED BY <1>a, <2>1, <2>2, <2>3 DEF CountedReaders, CountedWriters
  <1>b. ASSUME (Parked # {})', ~ParkedW(m_nCount)'
        PROVE  REvent' \/ \E t \in Threads : Moving(t)'
        <2>1. (ParkedWriters = {} /\ ParkedReader = {} /\ ~m_nCount.parkedReader)'
              BY <1>b, SomebodyIn, SubsetsNext DEF CountExact, ParkedW, Fields
        <2>2. (ParkedOnR # {})'
              BY <1>b, <2>1 DEF ParkedOnR, ParkedWriters, ParkedReader
        <2>3. \A t \in Threads : PassesOn(t)' => Moving(t)'
              BY DEF PassesOn
        <2> QED BY <2>1, <2>2, <2>3 DEF Passed
  <1>1. ASSUME NEW t \in Threads, ReadLock(t) PROVE Roused' /\ \A u \in Threads : pc'[u] # "undo"
        BY <1>1 DEF ReadLock
  <1>2. ASSUME NEW t \in Threads, WriteLock(t) PROVE Roused' /\ \A u \in Threads : pc'[u] # "undo"
        BY <1>2 DEF WriteLock
  <1>4. ASSUME NEW t \in Threads, UndoTry(t) PROVE Roused' /\ \A u \in Threads : pc'[u] # "undo"
        BY <1>4 DEF UndoTry
  <1>5. ASSUME NEW t \in Threads, Enter(t) PROVE Roused' /\ \A u \in Threads : pc'[u] # "undo"
        BY <1>5 DEF Enter
  <1>6. ASSUME NEW t \in Threads, ParkReader(t) PROVE Roused' /\ \A u \in Threads : pc'[u] # "undo"
        <2>1. \A u \in Threads : pc'[u] # "undo"
              BY <1>6 DEF ParkReader, AfterPark
        <2>2. CASE pc'[t] = "leaveAndSignal"
              BY <2>1, <2>2
        <2>3. CASE ~Free(m_nCount)'
              BY <2>1, <2>3, <1>a
        <2>4. pc'[t] = "leaveAndSignal" \/ ~Free(m_nCount)'
              BY <1>6 DEF ParkReader, AfterPark
        <2> QED BY <2>1, <2>2, <2>3, <2>4
  <1>7. ASSUME NEW t \in Threads, ParkWriter(t) PROVE Roused' /\ \A u \in Threads : pc'[u] # "undo"
        <2>1. \A u \in Threads : pc'[u] # "undo"
              BY <1>7 DEF ParkWriter, AfterPark
        <2>2. CASE pc'[t] = "leaveAndSignal"
              BY <2>1, <2>2
        <2>3. CASE ~Free(m_nCount)'
              BY <2>1, <2>3, <1>a
        <2>4. pc'[t] = "leaveAndSignal" \/ ~Free(m_nCount)'
              BY <1>7 DEF ParkWriter, AfterPark
        <2> QED BY <2>1, <2>2, <2>3, <2>4
  <1>8. ASSUME NEW t \in Threads, Leave(t) PROVE Roused' /\ \A u \in Threads : pc'[u] # "undo"
        BY <1>8 DEF Leave
  <1>9. ASSUME NEW t \in Threads, Signal(t) PROVE Roused' /\ \A u \in Threads : pc'[u] # "undo"
        BY <1>9 DEF Signal
  <1>10. ASSUME NEW t \in Threads, Wait(t) PROVE Roused' /\ \A u \in Threads : pc'[u] # "undo"
        BY <1>10 DEF Wait
  <1>11. ASSUME NEW t \in Threads, Reenter(t) PROVE Roused' /\ \A u \in Threads : pc'[u] # "undo"
        BY <1>11 DEF Reenter
  <1>12. ASSUME NEW t \in Threads, RecheckReader(t) PROVE Roused' /\ \A u \in Threads : pc'[u] # "undo"
        BY <1>12 DEF RecheckReader
  <1>13. ASSUME NEW t \in Threads, RecheckWriter(t) PROVE Roused' /\ \A u \in Threads : pc'[u] # "undo"
        BY <1>13 DEF RecheckWriter
  <1>14. ASSUME NEW t \in Threads, Exit(t) PROVE Roused' /\ \A u \in Threads : pc'[u] # "undo"
        BY <1>14 DEF Exit
  <1>15. ASSUME NEW t \in Threads, Pass(t) PROVE Roused' /\ \A u \in Threads : pc'[u] # "undo"
        BY <1>15 DEF Pass
  <1>16. ASSUME NEW t \in Threads, ReadUnlock(t) PROVE Roused' /\ \A u \in Threads : pc'[u] # "undo"
        <2>1. pc'[t] \in {"idle", "setR"} /\ \A u \in Threads : u # t => pc'[u] = pc[u]
              BY <1>16 DEF ReadUnlock
        <2>2. CASE pc'[t] = "setR"
              BY <2>1, <2>2
        <2>3. CASE ~Free(m_nCount)'
              BY <2>1, <2>3, <1>a
        <2>4. CASE ~ParkedW(m_nCount)'
              BY <2>1, <2>4, <1>b
        <2>5. pc'[t] = "setR" \/ ~Free(m_nCount)' \/ ~ParkedW(m_nCount)'
              BY <1>16 DEF ReadUnlock
        <2> QED BY <2>2, <2>3, <2>4, <2>5
  <1>17. ASSUME NEW t \in Threads, WriteUnlock(t) PROVE Roused' /\ \A u \in Threads : pc'[u] # "undo"
        <2>1. pc'[t] \in {"idle", "setW"} /\ \A u \in Threads : u # t => pc'[u] = pc[u]
              BY <1>17 DEF WriteUnlock
        <2>2. CASE pc'[t] = "setW"
              BY <2>1, <2>2
        <2>3. CASE ~Free(m_nCount)'
              BY <2>1, <2>3, <1>a
        <2>4. CASE ~ParkedW(m_nCount)'
              BY <2>1, <2>4, <1>b
        <2>5. pc'[t] = "setW" \/ ~Free(m_nCount)' \/ ~ParkedW(m_nCount)'
              BY <1>17 DEF WriteUnlock
        <2> QED BY <2>2, <2>3, <2>4, <2>5
  <1>18. ASSUME NEW t \in Threads, SetREvent(t) PROVE Roused' /\ \A u \in Threads : pc'[u] # "undo"
        BY <1>18 DEF SetREvent
  <1>19. ASSUME NEW t \in Threads, SetWEvent(t) PROVE Roused' /\ \A u \in Threads : pc'[u] # "undo"
        BY <1>19 DEF SetWEvent
  <1>20. CASE UNCHANGED vars
        BY <1>20 DEF vars
  <1> QED BY <1>1, <1>2, <1>4, <1>5, <1>6, <1>7, <1>8, <1>9, <1>10,
             <1>11, <1>12, <1>13, <1>14, <1>15, <1>16, <1>17, <1>18, <1>19, <1>20
             DEF Step, Park, Resume, Unlock

LEMMA NoReadersStep == ASSUME Shape, NoReaders, "read" \notin use, [MCNext]_<<vars, use>>
                       PROVE  NoReaders'
  <1> USE DEF Shape, NoReaders, Goto, Labels, locals
  <1>1. ASSUME NEW t \in Threads, ReadLock(t), MayCall(t, "read") PROVE NoReaders'
        BY <1>1 DEF ReadLock, MayCall
  <1>2. ASSUME NEW t \in Threads, WriteLock(t) PROVE NoReaders'
        BY <1>2 DEF WriteLock
  <1>3. ASSUME NEW t \in Threads, WriteTryLock(t) PROVE NoReaders'
        BY <1>3 DEF WriteTryLock
  <1>4. ASSUME NEW t \in Threads, UndoTry(t) PROVE NoReaders'
        BY <1>4 DEF UndoTry
  <1>5. ASSUME NEW t \in Threads, Enter(t) PROVE NoReaders'
        BY <1>5 DEF Enter
  <1>6. ASSUME NEW t \in Threads, ParkReader(t) PROVE NoReaders'
        BY <1>6 DEF ParkReader, AfterPark
  <1>7. ASSUME NEW t \in Threads, ParkWriter(t) PROVE NoReaders'
        BY <1>7 DEF ParkWriter, AfterPark
  <1>8. ASSUME NEW t \in Threads, Leave(t) PROVE NoReaders'
        BY <1>8 DEF Leave
  <1>9. ASSUME NEW t \in Threads, Signal(t) PROVE NoReaders'
        BY <1>9 DEF Signal
  <1>10. ASSUME NEW t \in Threads, Wait(t) PROVE NoReaders'
        BY <1>10 DEF Wait
  <1>11. ASSUME NEW t \in Threads, Reenter(t) PROVE NoReaders'
        BY <1>11 DEF Reenter
  <1>12. ASSUME NEW t \in Threads, RecheckReader(t) PROVE NoReaders'
        BY <1>12 DEF RecheckReader
  <1>13. ASSUME NEW t \in Threads, RecheckWriter(t) PROVE NoReaders'
        BY <1>13 DEF RecheckWriter
  <1>14. ASSUME NEW t \in Threads, Exit(t) PROVE NoReaders'
        BY <1>14 DEF Exit
  <1>15. ASSUME NEW t \in Threads, Pass(t) PROVE NoReaders'
        BY <1>15 DEF Pass
  <1>16. ASSUME NEW t \in Threads, ReadUnlock(t) PROVE NoReaders'
        BY <1>16 DEF ReadUnlock
  <1>17. ASSUME NEW t \in Threads, WriteUnlock(t) PROVE NoReaders'
        BY <1>17 DEF WriteUnlock
  <1>18. ASSUME NEW t \in Threads, SetREvent(t) PROVE NoReaders'
        BY <1>18 DEF SetREvent
  <1>19. ASSUME NEW t \in Threads, SetWEvent(t) PROVE NoReaders'
        BY <1>19 DEF SetWEvent
  <1>20. CASE UNCHANGED <<vars, use>>
        BY <1>20 DEF vars
  <1> QED BY <1>1, <1>2, <1>3, <1>4, <1>5, <1>6, <1>7, <1>8, <1>9, <1>10,
             <1>11, <1>12, <1>13, <1>14, <1>15, <1>16, <1>17, <1>18, <1>19, <1>20
             DEF MCNext, Step, Park, Resume, Unlock

-----------------------------------------------------------------------------
\* The steps of the uses are steps of the lock, and keep the use.
LEMMA UseStep == ASSUME [MCNext]_<<vars, use>>
                 PROVE  /\ [Next]_vars /\ use' = use
                        /\ \/ "try" \in use \/ UNCHANGED vars
                           \/ \E t \in Threads : ReadLock(t) \/ WriteLock(t) \/ Step(t)
  BY DEF MCNext, MayCall, Next, Call, vars

LEMMA WakeInit == MCInit => WakeInv
  BY DEF MCInit, Init, WakeInv, EventKept, Passed, ParkedOnR, Parked, Roused, NoReaders

LEMMA WakeStep == ASSUME IInv, IInv', WakeInv, [MCNext]_<<vars, use>> PROVE WakeInv'
  <1>1. [Next]_vars /\ use' = use
        BY UseStep
  <1>2. EventKept'
        BY <1>1, EventStep DEF IInv, WakeInv
  <1>3. Passed'
        BY <1>1, PassedStep DEF IInv, WakeInv
  <1>4. "try" \notin use => Roused' /\ \A t \in Threads : pc'[t] # "undo"
        BY <1>3, UseStep, RousedStep DEF IInv, WakeInv
  <1>5. "read" \notin use => NoReaders'
        BY NoReadersStep DEF IInv, WakeInv
  <1> QED BY <1>1, <1>2, <1>3, <1>4, <1>5 DEF WakeInv

\* A thread that sleeps while nobody is awake would be woken by m_hWEvent, so
\* all that sleep are parked on m_hREvent, and a wake-up is passed on to them.
LEMMA WakeForgets == ASSUME IInv, WakeInv PROVE ForgottenOnlyBy
  <1> SUFFICES ASSUME "try" \notin use, ~("read" \in use /\ REvent),
                      NEW t \in Threads, pc[t] = "wait",
                      \A u \in Threads : ~Awake(u) /\ ~CanWake(u)
               PROVE  FALSE
      BY DEF ForgottenOnlyBy, NobodyForgotten
  <1>1. \A u \in Threads : pc[u] \in {"idle", "wait"}
        BY DEF Awake
  <1>2. \A u \in Threads : ~Moving(u) /\ ~PassesOn(u)
        BY <1>1 DEF Moving, PassesOn
  <1>3. ~REvent
        BY DEF WakeInv, NoReaders
  <1>4. WEvent
        BY <1>2, <1>3 DEF WakeInv, Roused, Parked
  <1>5. event \in [Threads -> {"R", "W"}]
        BY DEF IInv, Shape
  <1>6. \A u \in Threads : pc[u] = "wait" => event[u] = "R"
        BY <1>4, <1>5 DEF CanWake
  <1>7. ParkedReader = {}
        BY <1>1, <1>6 DEF ParkedReader, Parked
  <1>8. ~m_nCount.parkedReader
        BY <1>7 DEF IInv, CountExact
  <1>9. t \in ParkedOnR
        BY <1>6 DEF WakeInv, EventKept
  <1> QED BY <1>2, <1>3, <1>8, <1>9 DEF WakeInv, Passed

\* A wake-up is lost only with readers, by the signal on the event nobody waits
\* for, or with WriteTryLock.
THEOREM WakeUpsAreLostOnlySo == MCSpec => []ForgottenOnlyBy
  <1>1. MCInit => IInv /\ WakeInv
        BY InvInit, WakeInit DEF MCInit
  <1>2. IInv /\ WakeInv /\ [MCNext]_<<vars, use>> => IInv' /\ WakeInv'
        <2> SUFFICES ASSUME IInv, WakeInv, [MCNext]_<<vars, use>> PROVE IInv' /\ WakeInv'
            OBVIOUS
        <2>1. IInv'
              BY UseStep, ShapeStep, SpinStep, CountStep, ExclusionStep DEF IInv
        <2> QED BY <2>1, WakeStep
  <1>3. IInv /\ WakeInv => ForgottenOnlyBy
        BY WakeForgets
  <1> QED BY <1>1, <1>2, <1>3, PTL DEF MCSpec
=============================================================================
