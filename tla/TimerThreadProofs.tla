-------------------------- MODULE TimerThreadProofs --------------------------
(***************************************************************************)
(* Machine-checked proofs about TimerThread, for every number of entries,  *)
(* all delays and any clock.                                               *)
(*                                                                         *)
(* RefInv counts the references: an entry that is being added is nowhere   *)
(* else, and one that is posted has left the queue (Places).               *)
(*                                                                         *)
(* SleepInv holds for ever, before the 24-hour entry of Init is due and    *)
(* after it: s_n64TopTime is the time of the earliest entry (TopExact),    *)
(* whose caller signals a thread that would sleep past it (Signalled).     *)
(* What the cut to a LONG can do to a difference is said once, in Cut.     *)
(***************************************************************************)
EXTENDS TimerThread, FiniteSetTheorems, WellFoundedInduction, TLAPS

-----------------------------------------------------------------------------
\* The references.  An entry that is being added is nowhere else, one that is
\* posted has left the queue, and a stopped service has an empty queue.
Places == /\ queue \subseteq Entries /\ packets \subseteq Entries
          /\ caller \in [Timers -> {"idle", "lock", "signal"}]
          /\ queue \intersect packets = {}
          /\ Adding \intersect (queue \union packets) = {}

RefInv == /\ Places
          /\ m_nTimerRef \in Int /\ lost \in Nat
          /\ pc = "ended" => s_nStop
          /\ RefExact

LEMMA Finite ==
    ASSUME NEW S \in SUBSET Entries
    PROVE  IsFiniteSet(S) /\ Cardinality(S) \in Nat
  <1>1. IsFiniteSet(Entries)
    BY TimerOK, FS_AddElement DEF Entries
  <1>2. QED
    BY <1>1, FS_Subset, FS_CardinalityType

LEMMA Joins ==
    ASSUME NEW S \in SUBSET Entries, NEW e \in Entries, e \notin S
    PROVE  Cardinality(S \union {e}) = Cardinality(S) + 1
  BY Finite, FS_AddElement

LEMMA Leaves ==
    ASSUME NEW S \in SUBSET Entries, NEW e \in S
    PROVE  Cardinality(S \ {e}) = Cardinality(S) - 1
  BY Finite, FS_RemoveElement

\* Entries that go from the queue to the port are counted there.
LEMMA Moved ==
    ASSUME NEW Q \in SUBSET Entries, NEW P \in SUBSET Entries, Q \intersect P = {},
           NEW B \in SUBSET Q
    PROVE  Cardinality(Q \ B) + Cardinality(P \union B) = Cardinality(Q) + Cardinality(P)
  <1>1. B \in SUBSET Entries /\ Q \ B \in SUBSET Entries /\ P \union B \in SUBSET Entries
    OBVIOUS
  <1>2. IsFiniteSet(B) /\ IsFiniteSet(Q \ B) /\ IsFiniteSet(P)
    BY <1>1, Finite
  <1>3. Cardinality(P \union B) = Cardinality(P) + Cardinality(B)
    <2>1. P \intersect B = {}
      OBVIOUS
    <2>2. Cardinality(P) \in Nat /\ Cardinality(B) \in Nat
      BY <1>1, Finite
    <2>3. Cardinality(P \union B) = Cardinality(P) + Cardinality(B) - Cardinality(P \intersect B)
      BY <1>2, FS_Union
    <2>4. QED
      BY <2>1, <2>2, <2>3, FS_EmptySet
  <1>4. Cardinality(Q) = Cardinality(Q \ B) + Cardinality(B)
    <2>1. (Q \ B) \intersect B = {} /\ (Q \ B) \union B = Q
      OBVIOUS
    <2>2. Cardinality(Q \ B) \in Nat /\ Cardinality(B) \in Nat
      BY <1>1, Finite
    <2>3. Cardinality((Q \ B) \union B) =
              Cardinality(Q \ B) + Cardinality(B) - Cardinality((Q \ B) \intersect B)
      BY <1>2, FS_Union
    <2>4. Cardinality((Q \ B) \intersect B) = 0
      BY <2>1, FS_EmptySet
    <2>5. Cardinality(Q) = Cardinality(Q \ B) + Cardinality(B) - 0
      BY <2>1, <2>3, <2>4
    <2>6. QED
      BY <2>2, <2>5
  <1>5. QED
    BY <1>1, <1>3, <1>4, Finite

LEMMA Counts ==
    ASSUME Places
    PROVE  /\ Adding \in SUBSET Entries
           /\ Cardinality(queue) \in Nat /\ Cardinality(packets) \in Nat
           /\ Cardinality(Adding) \in Nat
  <1>1. Adding \in SUBSET Entries
    BY DEF Adding, Entries
  <1>2. QED
    BY <1>1, Finite DEF Places

LEMMA RefInit == Init => RefInv
  <1> SUFFICES ASSUME Init PROVE RefInv
    OBVIOUS
  <1> USE DEF Init
  <1>1. Adding = {}
    BY DEF Adding
  <1>2. Places
    BY <1>1 DEF Places, Entries
  <1>3. Cardinality(queue) = 1 /\ Cardinality(packets) = 0 /\ Cardinality(Adding) = 0
    BY <1>1, FS_Singleton, FS_EmptySet
  <1>4. RefExact
    BY <1>3 DEF RefExact
  <1>5. QED
    BY <1>2, <1>4 DEF RefInv

\* A step that leaves all entries where they are.
LEMMA RefQuiet ==
    ASSUME RefInv, UNCHANGED <<queue, packets, caller, m_nTimerRef, lost>>,
           pc' = "ended" => pc = "ended", pc' = "ended" => s_nStop'
    PROVE  RefInv'
  <1>1. Adding' = Adding
    BY DEF Adding
  <1>2. Places' /\ RefExact'
    BY <1>1 DEF RefInv, Places, RefExact
  <1>3. QED
    BY <1>2 DEF RefInv

LEMMA RefStep == ASSUME RefInv, [Next]_vars PROVE RefInv'
  <1> USE DEF RefInv
  <1>c. /\ Adding \in SUBSET Entries
        /\ Cardinality(queue) \in Nat /\ Cardinality(packets) \in Nat
        /\ Cardinality(Adding) \in Nat
    BY Counts
  <1>q. Timers \subseteq Entries
    BY DEF Entries
  <1>1. ASSUME NEW e \in Timers, NEW d \in Delays, AddTimer(e, d) PROVE RefInv'
    <2> USE <1>1 DEF AddTimer, run
    <2>1. Adding' = Adding \union {e} /\ e \notin Adding
      BY DEF Adding, Places
    <2>2. Cardinality(Adding') = Cardinality(Adding) + 1
      BY <1>c, <1>q, <2>1, Joins
    <2>3. Places'
      BY <2>1 DEF Places
    <2>4. RefExact'
      BY <1>c, <2>2 DEF RefExact
    <2>5. QED
      BY <2>3, <2>4
  <1>2. ASSUME NEW e \in Timers, Push(e) PROVE RefInv'
    <2> USE <1>2 DEF Push, run
    <2>1. e \in Adding /\ e \notin queue
      BY DEF Adding, Places
    <2>2. Adding' = Adding \ {e}
      BY DEF Adding, Places, AfterPush
    <2>3. Cardinality(Adding') = Cardinality(Adding) - 1
      BY <1>c, <2>1, <2>2, Leaves
    <2>4. caller' \in [Timers -> {"idle", "lock", "signal"}]
      BY DEF Places, AfterPush
    <2>5. CASE s_nStop
      <3>1. Places'
        BY <2>2, <2>4, <2>5 DEF Places
      <3>2. RefExact'
        BY <1>c, <2>3, <2>5 DEF RefExact
      <3>3. QED
        BY <2>5, <3>1, <3>2
    <2>6. CASE ~s_nStop
      <3>1. queue' = queue \union {e}
        BY <2>6
      <3>2. Cardinality(queue') = Cardinality(queue) + 1
        BY <1>q, <2>1, <3>1, Joins DEF Places
      <3>3. Places'
        BY <1>q, <2>1, <2>2, <2>4, <2>6 DEF Places
      <3>4. pc # "ended" /\ pc' = pc /\ s_nStop' = s_nStop
        BY <2>6
      <3>5. RefExact'
        BY <1>c, <2>3, <2>6, <3>2, <3>4 DEF RefExact
      <3>6. QED
        BY <2>6, <3>3, <3>4, <3>5
    <2>7. QED
      BY <2>5, <2>6
  <1>3. ASSUME NEW e \in Timers, Signal(e) PROVE RefInv'
    <2> USE <1>3 DEF Signal, run
    <2>1. Adding' = Adding
      BY DEF Adding, Places
    <2>2. Places'
      BY <2>1 DEF Places
    <2>3. QED
      BY <2>1, <2>2 DEF RefExact
  <1>4. ASSUME NEW e \in Entries, Handle(e) PROVE RefInv'
    <2> USE <1>4 DEF Handle, run
    <2>1. Adding' = Adding
      BY DEF Adding
    <2>2. Cardinality(packets') = Cardinality(packets) - 1
      BY Leaves DEF Places
    <2>3. Places'
      BY <2>1 DEF Places
    <2>4. RefExact'
      BY <1>c, <2>1, <2>2 DEF RefExact
    <2>5. QED
      BY <2>3, <2>4
  <1>5. CASE PostDue
    <2>1. PICK first \in queue :
              /\ queue' = queue \ Batch(first) /\ packets' = packets \union Batch(first)
              /\ pc' \in {"undefined", "wait"}
      BY <1>5 DEF PostDue, Goto
    <2>2. UNCHANGED <<caller, m_nTimerRef, lost, s_nStop>>
      BY <1>5 DEF PostDue
    <2>3. PICK B \in SUBSET queue : queue' = queue \ B /\ packets' = packets \union B
      BY <2>1 DEF Batch
    <2>4. Cardinality(queue') + Cardinality(packets') = Cardinality(queue) + Cardinality(packets)
      BY <2>3, Moved DEF Places
    <2>5. Adding' = Adding
      BY <2>2 DEF Adding
    <2>6. Places'
      BY <2>2, <2>3, <2>5 DEF Places
    <2>7. Cardinality(queue') \in Nat /\ Cardinality(packets') \in Nat
      BY <2>6, Finite DEF Places
    <2>8. RefExact'
      BY <1>c, <2>1, <2>2, <2>4, <2>5, <2>7 DEF RefExact
    <2>9. QED
      BY <2>1, <2>2, <2>6, <2>8
  <1>6. CASE Stop
    <2> USE <1>6 DEF Stop, Goto
    <2>1. Adding' = Adding
      BY DEF Adding
    <2>2. Places'
      BY <2>1 DEF Places
    <2>3. Cardinality(queue') = 0
      BY FS_EmptySet
    <2>4. RefExact'
      BY <1>c, <2>1, <2>3 DEF RefExact
    <2>5. QED
      BY <1>c, <2>2, <2>4
  <1>7. CASE Start \/ ReadTick \/ NothingDue \/ BeginWait \/ Wake
    <2>1. /\ UNCHANGED <<queue, packets, caller, m_nTimerRef, lost>>
          /\ pc' # "ended"
      BY <1>7 DEF Start, ReadTick, NothingDue, BeginWait, Wake, Goto
    <2>2. QED
      BY <2>1, RefQuiet
  <1>8. CASE OnTerminate \/ Clock \/ UNCHANGED vars
    <2>1. UNCHANGED <<queue, packets, caller, m_nTimerRef, lost, pc, s_nStop>>
      BY <1>8 DEF OnTerminate, Clock, vars, run
    <2>2. QED
      BY <2>1, RefQuiet
  <1>9. QED
    BY <1>1, <1>2, <1>3, <1>4, <1>5, <1>6, <1>7, <1>8 DEF Next, Run

LEMMA RefHolds == Spec => []RefInv
  BY RefInit, RefStep, PTL DEF Spec

\* Every timer reference belongs to one entry that is being added, waiting or
\* posted, or was refused by a stopped service; the end of the service returns
\* those in the queue (BGIOTimerThread.cpp 50-54, 112-121).
THEOREM ReferencesExact == Spec => []RefExact
  <1>1. RefInv => RefExact
    BY DEF RefInv
  <1>2. QED
    BY <1>1, RefHolds, PTL

-----------------------------------------------------------------------------
\* The earliest time.
LEMMA Earliest ==
    ASSUME NEW S \in SUBSET Nat, S # {}
    PROVE  Min(S) \in S /\ \A t \in S : Min(S) <= t
  <1> DEFINE R == OpToRel(<, Nat)
  <1>1. IsWellFoundedOn(R, Nat)
    BY NatLessThanWellFounded, Zenon
  <1>2. PICK m \in S : \A t \in S : ~(<<t, m>> \in R)
    <2> HIDE DEF R
    <2>1. QED
      BY <1>1, WFMin
  <1>3. \A t \in S : m <= t
    <2>1. ASSUME NEW t \in S, ~(m <= t) PROVE FALSE
      <3>1. t \in Nat /\ m \in Nat /\ t < m
        BY <2>1
      <3>2. <<t, m>> \in R
        BY <3>1, Zenon DEF OpToRel
      <3>3. QED
        BY <1>2, <3>2
    <2>2. QED
      BY <2>1
  <1>4. QED
    BY <1>3 DEF Min

\* A difference that fits into a LONG is not changed.
LEMMA LongType == \A x \in Int : Long(x) \in Int
  BY TimerOK DEF Long

LEMMA LongExact ==
    ASSUME NEW x \in Int, -Half <= x, x < Half
    PROVE  Long(x) = x
  <1> DEFINE y == x + Half
             m == 2 * Half
  <1>1. y \in Nat /\ m \in Nat \ {0} /\ y < m
    BY TimerOK
  <1>2. y % m = y
    <2> HIDE DEF y, m
    <2>1. QED
      BY <1>1
  <1>3. QED
    BY <1>2, TimerOK DEF Long

\* What the loop of Run leaves in the queue: the earliest entry of the rest is
\* not due.
LEMMA RestNotDue ==
    ASSUME TypeOK, NEW first \in queue, queue \ Batch(first) # {}
    PROVE  LET T == Times(queue \ Batch(first)) IN
           Min(T) \in T /\ (\A t \in T : Min(T) <= t) /\ T \in SUBSET Nat /\ ~Taken(Min(T))
  <1> DEFINE Rest == queue \ Batch(first)
             T == Times(Rest)
  <1>1. T \in SUBSET Nat /\ T # {}
    BY DEF TypeOK, Times
  <1>2. Min(T) \in T /\ \A t \in T : Min(T) <= t
    BY <1>1, Earliest
  <1>3. PICK e \in Rest : time[e] = Min(T)
    BY <1>2 DEF Times
  <1>4. PICK f \in queue \ {first} : time[f] <= time[e] /\ ~Taken(time[f])
    BY DEF Batch
  <1>5. f \in Rest
    <2>1. time[f] \in Nat
      BY DEF TypeOK
    <2>2. time[f] <= time[f]
      BY <2>1
    <2>3. QED
      BY <1>4, <2>2 DEF Batch
  <1>6. time[f] = Min(T)
    <2>1. time[f] \in T
      BY <1>5 DEF Times
    <2>2. time[f] \in Nat /\ Min(T) \in Nat /\ Min(T) <= time[f] /\ time[f] <= Min(T)
      BY <1>1, <1>2, <1>3, <1>4, <2>1
    <2>3. QED
      BY <2>2
  <1>7. QED
    BY <1>1, <1>2, <1>4, <1>6

-----------------------------------------------------------------------------
\* The types, whatever the clock and the delays.
LEMMA TypeInit == Init => TypeOK
  <1>1. Day \in Nat
    BY TimerOK
  <1>2. ASSUME Init PROVE TypeOK
    <2>1. 0 \in 0..MaxTime
      BY TimerOK
    <2>2. time \in [Entries -> Nat]
      BY <1>1, <1>2 DEF Init
    <2>3. /\ queue \subseteq Entries /\ packets \subseteq Entries
          /\ caller \in [Timers -> {"idle", "lock", "signal"}] /\ pc \in Labels
      BY <1>2 DEF Init, Entries, Labels
    <2>4. QED
      BY <1>1, <1>2, <2>1, <2>2, <2>3 DEF Init, TypeOK
  <1>3. QED
    BY <1>2

LEMMA TypePostDue == ASSUME TypeOK, RefInv', PostDue PROVE TypeOK'
  <1>1. PICK first \in queue :
            LET rest == queue \ Batch(first) IN
            /\ queue' = rest /\ packets' = packets \union Batch(first)
            /\ IF rest = {}
               THEN pc' = "undefined" /\ UNCHANGED <<s_n64TopTime, nWait>>
               ELSE /\ s_n64TopTime' = Min(Times(rest))
                    /\ nWait' = Long(Min(Times(rest)) - n64Tick)
                    /\ pc' = "wait"
    BY DEF PostDue, Goto
  <1>2. /\ pc' \in Labels /\ queue' \subseteq Entries /\ packets' \subseteq Entries
        /\ m_nTimerRef' \in Nat
    <2>1. queue' \subseteq Entries /\ packets' \subseteq Entries
      BY DEF RefInv, Places
    <2>2. pc' \in Labels
      BY <1>1 DEF Labels
    <2>3. m_nTimerRef' = m_nTimerRef
      BY DEF PostDue
    <2>4. QED
      BY <2>1, <2>2, <2>3 DEF TypeOK
  <1>3. s_n64TopTime' \in Nat /\ nWait' \in Nat
    <2>1. CASE queue \ Batch(first) = {}
      BY <1>1, <2>1 DEF TypeOK
    <2>2. CASE queue \ Batch(first) # {}
      <3>1. PICK m \in Nat : m = Min(Times(queue \ Batch(first))) /\ ~Taken(m)
        BY <2>2, RestNotDue
      <3>2. Long(m - n64Tick) \in Int /\ ~(Long(m - n64Tick) <= 0)
        BY <3>1, LongType DEF TypeOK, Taken
      <3>3. s_n64TopTime' = m /\ nWait' = Long(m - n64Tick)
        BY <1>1, <2>2, <3>1
      <3>4. QED
        BY <3>2, <3>3
    <2>3. QED
      BY <2>1, <2>2
  <1>4. UNCHANGED <<now, time, s_nStop, hTimer, hStop, n64Tick, until, caller, lost>>
    BY DEF PostDue
  <1>5. QED
    BY <1>2, <1>3, <1>4 DEF TypeOK

LEMMA RefNat == ASSUME RefInv PROVE m_nTimerRef \in Nat
  BY Counts DEF RefInv, RefExact

LEMMA TypeStep ==
    ASSUME TypeOK, RefInv', m_nTimerRef' \in Nat, [Next]_vars
    PROVE  TypeOK'
  <1> USE DEF TypeOK
  <1>1. ASSUME NEW e \in Timers, NEW d \in Delays, AddTimer(e, d) PROVE TypeOK'
    <2>1. now + d \in Nat /\ e \in Entries
      BY TimerOK DEF Entries
    <2>2. QED
      BY <1>1, <2>1 DEF AddTimer, run
  <1>2. ASSUME NEW e \in Timers, Push(e) PROVE TypeOK'
    <2>1. e \in Entries /\ time[e] \in Nat
      BY DEF Entries
    <2>2. QED
      BY <1>2, <2>1 DEF Push, AfterPush, run
  <1>3. ASSUME NEW e \in Timers, Signal(e) PROVE TypeOK'
    BY <1>3 DEF Signal, run
  <1>4. ASSUME NEW e \in Entries, Handle(e) PROVE TypeOK'
    BY <1>4 DEF Handle, run
  <1>5. CASE Start \/ ReadTick
    BY <1>5 DEF Start, ReadTick, Goto, Labels
  <1>6. CASE NothingDue
    <2>1. Long(s_n64TopTime - n64Tick) \in Int
      BY LongType
    <2>2. nWait' \in Nat
      BY <1>6, <2>1 DEF NothingDue
    <2>3. QED
      BY <1>6, <2>2 DEF NothingDue, Goto, Labels
  <1>7. CASE BeginWait
    <2>1. {now + nWait, MaxTime} \in SUBSET Nat /\ {now + nWait, MaxTime} # {}
      BY TimerOK
    <2>2. until' \in {now + nWait, MaxTime} /\ until' <= MaxTime
      BY <1>7, <2>1, Earliest DEF BeginWait
    <2>3. until' \in 0..MaxTime
      BY <2>2, TimerOK
    <2>4. QED
      BY <1>7, <2>3 DEF BeginWait, Goto, Labels
  <1>8. CASE Wake
    <2>1. n64Tick' \in 0..MaxTime /\ nWait' \in Nat /\ until' \in 0..MaxTime
      BY <1>8, TimerOK DEF Wake
    <2>2. pc' \in Labels
      BY <1>8, Zenon DEF Wake, Goto, Labels
    <2>3. hTimer' \in BOOLEAN /\ hStop' \in BOOLEAN
      BY <1>8, Zenon DEF Wake
    <2>4. UNCHANGED <<now, queue, time, s_n64TopTime, s_nStop, caller, packets, m_nTimerRef, lost>>
      BY <1>8 DEF Wake
    <2>5. QED
      BY <2>1, <2>2, <2>3, <2>4
  <1>9. CASE Stop
    BY <1>9 DEF Stop, Goto, Labels
  <1>10. CASE OnTerminate \/ UNCHANGED vars
    BY <1>10 DEF OnTerminate, vars, run
  <1>11. CASE Clock
    <2>1. now' \in 0..MaxTime
      BY <1>11, TimerOK DEF Clock
    <2>2. QED
      BY <1>11, <2>1 DEF Clock, run
  <1>12. QED
    BY <1>1, <1>2, <1>3, <1>4, <1>5, <1>6, <1>7, <1>8, <1>9, <1>10, <1>11, TypePostDue DEF Next, Run

LEMMA TypeHolds == Spec => [](TypeOK /\ RefInv)
  <1>1. RefInv => m_nTimerRef \in Nat
    BY RefNat
  <1>2. TypeOK /\ [Next]_vars /\ RefInv' /\ (m_nTimerRef \in Nat)' => TypeOK'
    BY TypeStep
  <1>3. QED
    BY <1>1, <1>2, TypeInit, RefHolds, PTL DEF Spec

\* The references never fall below zero, and a wait is never negative, for all
\* delays and any clock (BGIOTimerThread.cpp 78-99).
THEOREM TypeCorrect == Spec => []TypeOK
  BY TypeHolds, PTL

-----------------------------------------------------------------------------
\* What is due, before and after the first day.

\* s_n64TopTime is the time of the earliest entry.
TopExact == s_n64TopTime \in Times(queue) /\ \A t \in Times(queue) : s_n64TopTime <= t

Signalled == hTimer \/ \E e \in Timers : caller[e] = "signal"

SleepInv ==
    /\ n64Tick <= now
    /\ time[TimerInstance] = Day
    /\ pc \notin {"ended", "undefined"} => TopExact
    /\ pc \in {"wait", "waiting"} /\ s_n64TopTime < n64Tick + nWait =>
          Signalled \/ n64Tick - s_n64TopTime > Half

\* The cut to a LONG: it makes a difference that is ahead look overdue only when it
\* is Half or more, and never makes it longer; and it makes one that is overdue look
\* ahead only when it is overdue by more than Half.
LEMMA Cut ==
    ASSUME NEW x \in Int
    PROVE  /\ Long(x) \in Int
           /\ Long(x) <= 0 => x <= 0 \/ x >= Half
           /\ Long(x) > x => x < -Half
  <1>1. Half \in Nat /\ 1 <= Half
    BY TimerOK
  <1>2. Long(x) \in -Half..(Half - 1)
    BY <1>1, SMTT(30) DEF Long
  <1>3. CASE -Half <= x /\ x < Half
    BY <1>3, LongExact
  <1>4. CASE x >= Half
    BY <1>1, <1>2, <1>4
  <1>5. CASE x < -Half
    BY <1>1, <1>2, <1>5
  <1>6. QED
    BY <1>1, <1>3, <1>4, <1>5

\* The wait for an entry that is not due yet does not go past it.
LEMMA WaitIsShort ==
    ASSUME TypeOK, NEW t \in Nat, t < n64Tick + Long(t - n64Tick)
    PROVE  n64Tick - t > Half
  <1>1. n64Tick \in Nat /\ Half \in Nat /\ t - n64Tick \in Int
    BY TimerOK DEF TypeOK
  <1>2. Long(t - n64Tick) \in Int /\ (Long(t - n64Tick) > t - n64Tick => t - n64Tick < -Half)
    BY <1>1, Cut
  <1>3. QED
    BY <1>1, <1>2

LEMMA SleepInit == Init => SleepInv
  <1> SUFFICES ASSUME Init PROVE SleepInv
    OBVIOUS
  <1> USE DEF Init
  <1>1. TimerInstance \in Entries /\ time[TimerInstance] = Day /\ Day \in Nat
    BY TimerOK DEF Entries
  <1>2. Times(queue) = {Day}
    BY <1>1 DEF Times
  <1>3. TopExact
    BY <1>1, <1>2 DEF TopExact
  <1>4. QED
    BY <1>1, <1>3 DEF SleepInv

\* The times of the entries in the queue stay.
LEMMA TopQuiet ==
    ASSUME TopExact, UNCHANGED <<queue, s_n64TopTime>>, \A e \in queue : time'[e] = time[e]
    PROVE  TopExact'
  <1>1. Times(queue)' = Times(queue)
    BY DEF Times
  <1>2. QED
    BY <1>1 DEF TopExact

LEMMA SleepPush ==
    ASSUME TypeOK, RefInv, SleepInv, NEW e \in Timers, Push(e)
    PROVE  SleepInv'
  <1> USE DEF Push
  <1>1. UNCHANGED <<now, time, hTimer, pc, n64Tick, nWait, packets>>
    BY DEF run
  <1>2. e \in Entries /\ time[e] \in Nat /\ s_n64TopTime \in Nat
    BY DEF TypeOK, Entries
  <1>3. \A f \in Timers : caller[f] = "signal" => caller'[f] = "signal"
    BY DEF TypeOK
  <1>4. Signalled => Signalled'
    BY <1>1, <1>3 DEF Signalled
  <1>5. CASE s_nStop
    <2>1. UNCHANGED <<queue, s_n64TopTime>>
      BY <1>5
    <2>2. TopExact => TopExact'
      BY <1>1, <2>1, TopQuiet
    <2>3. QED
      BY <1>1, <1>4, <2>1, <2>2 DEF SleepInv
  <1>6. CASE ~s_nStop
    <2>1. /\ queue' = queue \union {e}
          /\ s_n64TopTime' = IF s_n64TopTime > time[e] THEN time[e] ELSE s_n64TopTime
          /\ caller' = [caller EXCEPT ![e] = AfterPush(e)]
      BY <1>6
    <2>2. pc # "ended"
      BY <1>6 DEF RefInv
    <2>3. pc # "undefined" => TopExact'
      <3> SUFFICES ASSUME pc # "undefined" PROVE TopExact'
        OBVIOUS
      <3>1. Times(queue)' = Times(queue) \union {time[e]}
        BY <1>1, <2>1 DEF Times
      <3>2. Times(queue) \subseteq Nat
        BY DEF Times, TypeOK
      <3>3. s_n64TopTime \in Times(queue) /\ \A t \in Times(queue) : s_n64TopTime <= t
        BY <2>2 DEF TopExact, SleepInv
      <3>4. s_n64TopTime' \in Times(queue)' /\ s_n64TopTime' <= time[e] /\ s_n64TopTime' <= s_n64TopTime
        BY <1>2, <2>1, <3>1, <3>3
      <3>5. s_n64TopTime' \in Nat
        BY <1>2, <2>1
      <3>6. ASSUME NEW t \in Times(queue)' PROVE s_n64TopTime' <= t
        BY <1>2, <3>1, <3>2, <3>3, <3>4, <3>5, <3>6
      <3>7. QED
        BY <3>4, <3>6 DEF TopExact
    <2>4. s_n64TopTime' = s_n64TopTime \/ Signalled'
      <3>1. CASE s_n64TopTime > time[e]
        <4>1. caller'[e] = "signal"
          BY <2>1, <3>1 DEF AfterPush, TypeOK
        <4>2. QED
          BY <4>1 DEF Signalled
      <3>2. QED
        BY <2>1, <3>1
    <2>5. QED
      BY <1>1, <1>4, <2>1, <2>3, <2>4 DEF SleepInv
  <1>7. QED
    BY <1>5, <1>6

LEMMA SleepPostDue ==
    ASSUME TypeOK, SleepInv, PostDue PROVE SleepInv'
  <1>1. PICK first \in queue :
            LET rest == queue \ Batch(first) IN
            /\ queue' = rest
            /\ IF rest = {}
               THEN pc' = "undefined"
               ELSE /\ s_n64TopTime' = Min(Times(rest))
                    /\ nWait' = Long(Min(Times(rest)) - n64Tick)
                    /\ pc' = "wait"
    BY DEF PostDue, Goto
  <1>2. UNCHANGED <<now, time, n64Tick>>
    BY DEF PostDue
  <1>3. CASE queue \ Batch(first) = {}
    BY <1>1, <1>2, <1>3 DEF SleepInv
  <1>4. CASE queue \ Batch(first) # {}
    <2>1. PICK T \in SUBSET Nat : T = Times(queue \ Batch(first)) /\ Min(T) \in T /\ \A t \in T : Min(T) <= t
      BY <1>4, RestNotDue
    <2>2. s_n64TopTime' = Min(T) /\ nWait' = Long(Min(T) - n64Tick) /\ pc' = "wait"
      BY <1>1, <1>4, <2>1
    <2>3. Times(queue)' = T
      BY <1>1, <1>2, <2>1 DEF Times
    <2>4. TopExact'
      BY <2>1, <2>2, <2>3 DEF TopExact
    <2>5. s_n64TopTime' < n64Tick' + nWait' => n64Tick' - s_n64TopTime' > Half
      <3>1. Min(T) \in Nat
        BY <2>1
      <3>2. QED
        BY <1>2, <2>2, <3>1, WaitIsShort
    <2>6. QED
      BY <1>2, <2>2, <2>4, <2>5 DEF SleepInv
  <1>5. QED
    BY <1>3, <1>4

LEMMA SleepNothingDue ==
    ASSUME TypeOK, SleepInv, NothingDue PROVE SleepInv'
  <1>1. /\ pc = "lock" /\ pc' = "wait" /\ nWait' = Long(s_n64TopTime - n64Tick)
        /\ UNCHANGED <<now, queue, time, s_n64TopTime, n64Tick>>
    BY DEF NothingDue, Goto
  <1>2. TopExact'
    BY <1>1, TopQuiet DEF SleepInv
  <1>3. s_n64TopTime \in Nat
    BY DEF TypeOK
  <1>4. s_n64TopTime' < n64Tick' + nWait' => n64Tick' - s_n64TopTime' > Half
    BY <1>1, <1>3, WaitIsShort
  <1>5. QED
    BY <1>1, <1>2, <1>4 DEF SleepInv

LEMMA SleepStep ==
    ASSUME TypeOK, RefInv, SleepInv, [Next]_vars PROVE SleepInv'
  <1>1. ASSUME NEW e \in Timers, NEW d \in Delays, AddTimer(e, d) PROVE SleepInv'
    <2>1. /\ UNCHANGED <<now, queue, s_n64TopTime, hTimer, pc, n64Tick, nWait>>
          /\ time' = [time EXCEPT ![e] = now + d] /\ caller' = [caller EXCEPT ![e] = "lock"]
          /\ caller[e] = "idle" /\ e \notin queue
      BY <1>1 DEF AddTimer, run
    <2>2. \A f \in Entries : f # e => time'[f] = time[f]
      BY <2>1 DEF TypeOK
    <2>3. e # TimerInstance /\ TimerInstance \in Entries
      BY TimerOK DEF Entries
    <2>4. TopExact => TopExact'
      <3>1. \A f \in queue : time'[f] = time[f]
        BY <2>1, <2>2 DEF TypeOK
      <3>2. QED
        BY <2>1, <3>1, TopQuiet
    <2>5. Signalled => Signalled'
      <3>1. \A f \in Timers : caller[f] = "signal" => caller'[f] = "signal"
        BY <2>1 DEF TypeOK
      <3>2. QED
        BY <2>1, <3>1 DEF Signalled
    <2>6. QED
      BY <2>1, <2>2, <2>3, <2>4, <2>5 DEF SleepInv
  <1>2. ASSUME NEW e \in Timers, Signal(e) PROVE SleepInv'
    <2>1. hTimer' /\ UNCHANGED <<now, queue, time, s_n64TopTime, pc, n64Tick, nWait>>
      BY <1>2 DEF Signal, run
    <2>2. TopExact => TopExact'
      BY <2>1, TopQuiet
    <2>3. QED
      BY <2>1, <2>2 DEF SleepInv, Signalled
  <1>3. ASSUME NEW e \in Entries, Handle(e) PROVE SleepInv'
    <2>1. UNCHANGED <<now, queue, time, s_n64TopTime, hTimer, caller, pc, n64Tick, nWait>>
      BY <1>3 DEF Handle, run
    <2>2. (TopExact => TopExact') /\ (Signalled => Signalled')
      BY <2>1, TopQuiet DEF Signalled
    <2>3. QED
      BY <2>1, <2>2 DEF SleepInv
  <1>4. CASE Start \/ ReadTick \/ BeginWait \/ Wake
    <2>1. /\ UNCHANGED <<now, queue, time, s_n64TopTime, caller>>
          /\ pc \notin {"ended", "undefined"} /\ n64Tick' <= now
      <3>1. now <= now /\ 0 <= now
        BY TimerOK DEF TypeOK
      <3>2. QED
        BY <1>4, <3>1 DEF Start, ReadTick, BeginWait, Wake, Goto, SleepInv
    <2>2. TopExact'
      BY <2>1, TopQuiet DEF SleepInv
    <2>3. pc' \in {"wait", "waiting"} =>
              pc = "wait" /\ UNCHANGED <<n64Tick, nWait, hTimer>>
      BY <1>4 DEF Start, ReadTick, BeginWait, Wake, Goto
    <2>4. QED
      BY <2>1, <2>2, <2>3 DEF SleepInv, Signalled
  <1>5. CASE Stop
    <2>1. pc' = "ended" /\ UNCHANGED <<now, time, n64Tick>>
      BY <1>5 DEF Stop, Goto
    <2>2. QED
      BY <2>1 DEF SleepInv
  <1>6. CASE OnTerminate \/ Clock \/ UNCHANGED vars
    <2>1. /\ UNCHANGED <<queue, time, s_n64TopTime, hTimer, caller, pc, n64Tick, nWait>>
          /\ now' = now \/ now' = now + 1
      BY <1>6 DEF OnTerminate, Clock, vars, run
    <2>2. (TopExact => TopExact') /\ (Signalled => Signalled')
      BY <2>1, TopQuiet DEF Signalled
    <2>3. now \in Nat /\ n64Tick \in Nat
      BY TimerOK DEF TypeOK
    <2>4. n64Tick' <= now'
      BY <2>1, <2>3 DEF SleepInv
    <2>5. QED
      BY <2>1, <2>2, <2>4 DEF SleepInv
  <1>7. QED
    BY <1>1, <1>2, <1>3, <1>4, <1>5, <1>6, SleepPush, SleepPostDue, SleepNothingDue DEF Next, Run

LEMMA SleepHolds == Spec => [](TypeOK /\ RefInv /\ SleepInv)
  <1>1. TypeOK /\ RefInv /\ SleepInv /\ [Next]_vars => SleepInv'
    BY SleepStep
  <1>2. QED
    BY <1>1, SleepInit, TypeHolds, PTL DEF Spec

\* The timer thread never sleeps past the earliest entry, on the first day and
\* after it: an entry that is earlier than the end of its wait is or will be
\* signalled, or overdue by more than a LONG (BGIOTimerThread.cpp 56-62, 78, 92).
THEOREM SleepsNoLonger == Spec => []NoOversleep
  <1>1. ASSUME TypeOK, RefInv, SleepInv PROVE NoOversleep
    <2>1. ASSUME queue # {}, pc # "undefined" PROVE s_n64TopTime = Min(Times(queue))
      <3>1. pc # "ended"
        BY <1>1, <2>1 DEF RefInv, RefExact
      <3>2. s_n64TopTime \in Times(queue) /\ \A t \in Times(queue) : s_n64TopTime <= t
        BY <1>1, <2>1, <3>1 DEF SleepInv, TopExact
      <3>3. Times(queue) \in SUBSET Nat /\ Times(queue) # {}
        BY <1>1, <2>1 DEF TypeOK, Times
      <3>4. Min(Times(queue)) \in Times(queue) /\ \A t \in Times(queue) : Min(Times(queue)) <= t
        BY <3>3, Earliest
      <3>5. QED
        BY <3>2, <3>3, <3>4
    <2>2. QED
      BY <1>1, <2>1 DEF SleepInv, NoOversleep, Signalled
  <1>2. QED
    BY <1>1, SleepHolds, PTL

-----------------------------------------------------------------------------
\* What is posted.

EarlyFar(e) == time[e] <= now \/ (TimerInstance \notin queue' /\ time[e] - n64Tick >= Half)

\* What looks due is due, or further away than a LONG reaches.
LEMMA LooksDue ==
    ASSUME TypeOK, n64Tick <= now, NEW t \in Nat, Taken(t)
    PROVE  t <= now \/ t - n64Tick >= Half
  <1>1. n64Tick \in Nat /\ now \in Nat /\ t - n64Tick \in Int
    BY TimerOK DEF TypeOK
  <1>2. t - n64Tick <= 0 \/ t - n64Tick >= Half
    BY <1>1, Cut DEF Taken
  <1>3. QED
    BY <1>1, <1>2

\* The 24-hour entry, as long as it is in the queue, is behind everything that is
\* posted, so that it keeps what a LONG does not reach from being looked at.
LEMMA EarlyPost ==
    ASSUME TypeOK, SleepInv, PostDue, NEW e \in packets' \ packets
    PROVE  EarlyFar(e)
  <1>1. PICK first \in queue :
            /\ time[first] = Min(Times(queue))
            /\ queue' = queue \ Batch(first) /\ packets' = packets \union Batch(first)
    BY DEF PostDue
  <1>2. /\ pc = "lock" /\ Taken(s_n64TopTime) /\ n64Tick <= now
        /\ time[TimerInstance] = Day
        /\ s_n64TopTime \in Times(queue) /\ \A t \in Times(queue) : s_n64TopTime <= t
    BY DEF PostDue, Taken, SleepInv, TopExact
  <1>3. time[first] = s_n64TopTime
    <2>1. Times(queue) \in SUBSET Nat /\ Times(queue) # {}
      BY <1>2 DEF Times, TypeOK
    <2>2. Min(Times(queue)) \in Times(queue) /\ \A t \in Times(queue) : Min(Times(queue)) <= t
      BY <2>1, Earliest
    <2>3. QED
      BY <1>1, <1>2, <2>1, <2>2
  <1>4. e \in Batch(first) /\ e \in queue /\ time[e] \in Nat
    BY <1>1 DEF Batch, TypeOK
  <1>5. Taken(time[e])
    <2>1. CASE e = first
      BY <1>2, <1>3, <2>1
    <2>2. CASE e # first
      <3>1. time[e] <= time[e]
        BY <1>4
      <3>2. QED
        BY <1>4, <2>2, <3>1, Zenon DEF Batch
    <2>3. QED
      BY <2>1, <2>2
  <1>6. time[e] <= now \/ time[e] - n64Tick >= Half
    BY <1>2, <1>4, <1>5, LooksDue
  <1>7. CASE TimerInstance \in queue'
    <2>1. TimerInstance \in queue /\ TimerInstance \notin Batch(first)
      BY <1>1, <1>7
    <2>2. Day \in Times(queue)
      BY <1>2, <2>1 DEF Times
    <2>3. time[e] <= Day
      <3>1. CASE e = first
        BY <1>2, <1>3, <2>2, <3>1
      <3>2. CASE e # first
        <4>1. PICK f \in queue \ {first} : time[f] <= Day /\ ~Taken(time[f])
          BY <1>2, <2>1, Zenon DEF Batch
        <4>2. ~(time[f] <= time[e])
          BY <1>4, <3>2, <4>1, Zenon DEF Batch
        <4>3. time[f] \in Nat /\ Day \in Nat
          BY TimerOK DEF TypeOK
        <4>4. QED
          BY <1>4, <4>1, <4>2, <4>3
      <3>3. QED
        BY <3>1, <3>2
    <2>4. ~(time[e] - n64Tick >= Half)
      <3>1. n64Tick \in Nat /\ Half \in Nat /\ Day \in Nat /\ Day < Half
        BY TimerOK DEF TypeOK
      <3>2. QED
        BY <1>4, <2>3, <3>1
    <2>5. QED
      BY <1>6, <2>4 DEF EarlyFar
  <1>8. CASE TimerInstance \notin queue'
    BY <1>6, <1>8 DEF EarlyFar
  <1>9. QED
    BY <1>7, <1>8

\* Before and after the first day, for all delays and any clock: an entry is posted
\* before its time only when it is further away than a LONG reaches and the
\* 24-hour entry is no longer in front of it (BGIOTimerThread.cpp 78-97).
THEOREM PostedInTime == Spec => EarlyOnlyFar
  <1>1. ASSUME TypeOK, SleepInv, [Next]_vars
        PROVE  [\A e \in packets' \ packets : EarlyFar(e)]_vars
    <2>1. CASE PostDue
      BY <1>1, <2>1, EarlyPost
    <2>2. CASE Next /\ ~PostDue
      <3>1. packets' \subseteq packets
        BY <2>2 DEF Next, Run, AddTimer, Push, Signal, Handle, Start, ReadTick, NothingDue,
                    BeginWait, Wake, Stop, OnTerminate, Clock
      <3>2. QED
        BY <3>1
    <2>3. QED
      BY <1>1, <2>1, <2>2
  <1>2. ASSUME [\A e \in packets' \ packets : EarlyFar(e)]_vars
        PROVE  [\A e \in packets' \ packets :
                    time[e] <= now \/ (TimerInstance \notin queue' /\ time[e] - n64Tick >= Half)]_vars
    BY <1>2 DEF EarlyFar
  <1>3. QED
    BY <1>1, <1>2, SleepHolds, PTL DEF Spec, EarlyOnlyFar
=============================================================================
