---------------------------- MODULE MemoryProofs ----------------------------
(***************************************************************************)
(* What the program allocates and when it is free again: objects, which    *)
(* are deleted with their last reference (IOObject), and buffers, which go *)
(* back to the pool (BufferPool).  Machine-checked proofs for any number   *)
(* of references, threads, buffers and slots.                              *)
(*                                                                         *)
(* References.  m_nRef counts every reference from the first step of its   *)
(* AddRef to the last of its Release.  The Release that takes it to zero   *)
(* therefore runs alone (LastAlone), finds both other counters at zero,    *)
(* and nobody can start an AddRef behind it, because that takes a held     *)
(* reference, which would be counted.                                      *)
(*                                                                         *)
(* Buffers.  OneOwner alone is not inductive: Push is safe because the     *)
(* thread at "push" really holds a buffer, which HandsFull says.           *)
(*                                                                         *)
(* NoGrowth speaks of all slots at once, and no step keeps it for a reason *)
(* of its own.  The argument looks at one slot: a buffer is allocated with *)
(* new only when the list Alloc has come to is empty, and since Alloc and  *)
(* Free go round the slots, how often a slot was found empty (Found) can   *)
(* be read off the counters, the length of its list and the threads about  *)
(* to touch it.  FewInv bounds that number slot by slot: it grows only at  *)
(* an empty list, and then what is outside the lists is at most MaxUse     *)
(* (UseInv).  The bounds of all slots add up to NoGrowth (SumAll).         *)
(***************************************************************************)
EXTENDS BufferPool, IOObject, SequenceTheorems, FiniteSetTheorems, WellFoundedInduction, TLAPS

-----------------------------------------------------------------------------
\* References.

\* The references whose Release has taken m_nRef to zero.
Last == {r \in Refs : state[r] \in {"checkTimer", "checkGeneral", "free"}}

\* An AddRef runs under the protection of a held reference.
Protected == \A r \in Refs : state[r] = "adding" => state[by[r]] = "held"

LastAlone == (Last # {} => Counted = {}) /\ \A r, q \in Last : r = q

\* Deleted means that nothing is counted and nobody is left to delete it.
FreedExact == freed = IF Counted = {} /\ Last = {} THEN 1 ELSE 0

CountInv == ObjectTypeOK /\ CountsExact /\ Protected /\ LastAlone /\ FreedExact /\ NoAlarm

-----------------------------------------------------------------------------
\* Sizes of sets of references.
LEMMA Sizes == \A S \in SUBSET Refs : Cardinality(S) \in Nat /\ (Cardinality(S) = 0 <=> S = {})
  <1> SUFFICES ASSUME NEW S \in SUBSET Refs
               PROVE  Cardinality(S) \in Nat /\ (Cardinality(S) = 0 <=> S = {})
      OBVIOUS
  <1>1. IsFiniteSet(S)
        BY RefsFinite, FS_Subset
  <1> QED BY <1>1, FS_CardinalityType, FS_EmptySet

LEMMA Joins == ASSUME NEW S \in SUBSET Refs, NEW r \in Refs, r \notin S
               PROVE  Cardinality(S \union {r}) = Cardinality(S) + 1
  BY RefsFinite, FS_Subset, FS_AddElement

LEMMA Quits == ASSUME NEW S \in SUBSET Refs, NEW r \in S
               PROVE  Cardinality(S \ {r}) = Cardinality(S) - 1
  BY RefsFinite, FS_Subset, FS_RemoveElement

LEMMA Subsets == Counted \subseteq Refs /\ Last \subseteq Refs /\ \A k \in Kinds : Whole(k) \in SUBSET Refs
  BY DEF Counted, Last, Whole

\* Counts in terms of the sets.
LEMMA CountIs == ASSUME CountsExact, NEW k \in Kinds PROVE Count(k) = Cardinality(Whole(k))
  BY DEF CountsExact, Count, Kinds

LEMMA CountInit == ObjectInit => CountInv
  <1> SUFFICES ASSUME ObjectInit PROVE CountInv
      OBVIOUS
  <1>1. PICK r \in Refs : /\ m_nRef = 1 /\ m_nTimerRef = 0 /\ m_nGeneralRef = 1
                          /\ state = [q \in Refs |-> IF q = r THEN "held" ELSE "none"]
                          /\ kind = [q \in Refs |-> "general"]
                          /\ by = [q \in Refs |-> q]
                          /\ freed = 0 /\ alarm = FALSE
        BY DEF ObjectInit
  <1>2. ObjectTypeOK
        BY <1>1 DEF ObjectTypeOK, States, Kinds
  <1>3. Counted = {r} /\ Whole("general") = {r} /\ Whole("timer") = {} /\ Last = {}
        BY <1>1 DEF Counted, Whole, Last
  <1>4. Cardinality({r}) = 1 /\ Cardinality({}) = 0
        BY FS_Singleton, FS_EmptySet
  <1>5. CountsExact
        BY <1>1, <1>3, <1>4 DEF CountsExact
  <1>6. Protected
        BY <1>1 DEF Protected
  <1>7. LastAlone /\ FreedExact /\ NoAlarm
        BY <1>1, <1>3 DEF LastAlone, FreedExact, NoAlarm
  <1> QED BY <1>2, <1>5, <1>6, <1>7 DEF CountInv

-----------------------------------------------------------------------------
\* A change of the state of one reference, and what it does to the sets.
LEMMA Moves ==
    ASSUME ObjectTypeOK, NEW r \in Refs, NEW s \in States, Become(r, s)
    PROVE  /\ state' \in [Refs -> States] /\ state'[r] = s
           /\ \A q \in Refs : q # r => state'[q] = state[q]
  BY DEF ObjectTypeOK, Become

LEMMA CountedMoves ==
    ASSUME ObjectTypeOK, NEW r \in Refs, NEW s \in States, Become(r, s)
    PROVE  /\ s \in {"adding", "held", "out", "dropping"} => Counted' = Counted \union {r}
           /\ s \notin {"adding", "held", "out", "dropping"} => Counted' = Counted \ {r}
  BY Moves DEF Counted

LEMMA LastMoves ==
    ASSUME ObjectTypeOK, NEW r \in Refs, NEW s \in States, Become(r, s)
    PROVE  /\ s \in {"checkTimer", "checkGeneral", "free"} => Last' = Last \union {r}
           /\ s \notin {"checkTimer", "checkGeneral", "free"} => Last' = Last \ {r}
  BY Moves DEF Last

LEMMA WholeMoves ==
    ASSUME ObjectTypeOK, NEW r \in Refs, NEW s \in States, Become(r, s),
           \A q \in Refs : kind'[q] = kind[q] \/ (q = r /\ s \notin {"held", "out"})
    PROVE  \A k \in Kinds : Whole(k)' = IF s \in {"held", "out"} /\ kind[r] = k
                                        THEN Whole(k) \union {r} ELSE Whole(k) \ {r}
  BY Moves DEF Whole

\* Adding a member, or removing what is not one, changes nothing.
LEMMA NoChange == ASSUME NEW S, NEW r
                  PROVE  /\ r \in S => S \union {r} = S
                         /\ r \notin S => S \ {r} = S
  OBVIOUS

\* An object with a counted reference is not deleted and has no last Release.
LEMMA Alive == ASSUME CountInv, NEW r \in Counted
               PROVE  Last = {} /\ freed = 0 /\ m_nRef > 0
  BY Sizes, Subsets DEF CountInv, LastAlone, FreedExact, CountsExact

\* While the last Release runs, all counters are zero.
LEMMA AtTheEnd == ASSUME CountInv, NEW r \in Last
                  PROVE  /\ Counted = {} /\ Last = {r} /\ freed = 0
                         /\ \A k \in Kinds : Count(k) = 0
  <1>1. Counted = {} /\ Last = {r} /\ freed = 0
        BY DEF CountInv, LastAlone, FreedExact
  <1>2. \A k \in Kinds : Whole(k) = {}
        BY <1>1 DEF Whole, Counted
  <1> QED BY <1>1, <1>2, CountIs, FS_EmptySet DEF CountInv

-----------------------------------------------------------------------------
LEMMA CountStep == CountInv /\ [ObjectNext]_objectVars => CountInv'
  <1> SUFFICES ASSUME CountInv, [ObjectNext]_objectVars PROVE CountInv'
      OBVIOUS
  <1>0. ObjectTypeOK /\ CountsExact /\ Protected /\ LastAlone /\ FreedExact /\ NoAlarm
        BY DEF CountInv
  <1>1. ASSUME NEW r \in Refs, NEW q \in Refs, NEW k \in Kinds, AddRef(r, q, k) PROVE CountInv'
        <2>1. /\ state[r] = "none" /\ state[q] = "held" /\ Become(r, "adding")
              /\ kind' = [kind EXCEPT ![r] = k] /\ by' = [by EXCEPT ![r] = q]
              /\ m_nTimerRef' = m_nTimerRef /\ m_nGeneralRef' = m_nGeneralRef /\ freed' = freed
              BY <1>1 DEF AddRef, Idle
        <2>2. q \in Counted /\ r \notin Counted /\ r \notin Last /\ q # r
              BY <2>1 DEF Counted, Last
        <2>3. Last = {} /\ freed = 0 /\ m_nRef > 0 /\ m_nRef \in Nat
              BY <2>2, <1>0, Alive DEF ObjectTypeOK
        <2>4. m_nRef' = m_nRef + 1 /\ alarm' = alarm
              <3>1. m_nRef + 1 # 1
                    BY <2>3
              <3>2. m_nRef' = m_nRef + 1
                    BY <1>1, <3>1 DEF AddRef
              <3>3. alarm' = (alarm \/ FALSE)
                    BY <1>1, <3>1 DEF AddRef
              <3> QED BY <3>2, <3>3, <1>0 DEF ObjectTypeOK
        <2>5. "adding" \in States
              BY DEF States
        <2>6. Counted' = Counted \union {r} /\ Last' = {}
              BY <1>0, <2>1, <2>2, <2>3, <2>5, CountedMoves, LastMoves
        <2>7. \A j \in Kinds : Whole(j)' = Whole(j)
              <3> SUFFICES ASSUME NEW j \in Kinds PROVE Whole(j)' = Whole(j)
                  OBVIOUS
              <3>1. \A u \in Refs : kind'[u] = kind[u] \/ (u = r /\ "adding" \notin {"held", "out"})
                    BY <1>0, <2>1 DEF ObjectTypeOK
              <3>2. r \notin Whole(j)
                    BY <2>1 DEF Whole
              <3> QED BY <1>0, <2>1, <2>5, <3>1, <3>2, WholeMoves, NoChange
        <2>8. ObjectTypeOK'
              BY <1>0, <2>1, <2>3, <2>4, <2>5, Moves DEF ObjectTypeOK
        <2>9. CountsExact'
              BY <1>0, <2>1, <2>2, <2>4, <2>6, <2>7, Subsets, Joins DEF CountsExact, Kinds
        <2>10. Protected'
              BY <1>0, <2>1, <2>2, <2>5, Moves DEF Protected, ObjectTypeOK
        <2>11. LastAlone' /\ FreedExact' /\ NoAlarm'
              BY <1>0, <2>1, <2>3, <2>4, <2>6 DEF LastAlone, FreedExact, NoAlarm
        <2> QED BY <2>8, <2>9, <2>10, <2>11 DEF CountInv
  <1>2. ASSUME NEW r \in Refs, AddKind(r) PROVE CountInv'
        <2>1. /\ state[r] = "adding" /\ Become(r, "held") /\ SetCount(kind[r], Count(kind[r]) + 1)
              /\ m_nRef' = m_nRef /\ kind' = kind /\ by' = by /\ freed' = freed /\ alarm' = alarm
              BY <1>2 DEF AddKind
        <2>2. r \in Counted /\ r \notin Last /\ kind[r] \in Kinds /\ \A j \in Kinds : r \notin Whole(j)
              BY <1>0, <2>1 DEF Counted, Last, Whole, ObjectTypeOK
        <2>3. "held" \in States
              BY DEF States
        <2>4. Counted' = Counted /\ Last' = Last
              <3>1. Counted' = Counted \union {r}
                    BY <1>0, <2>1, <2>3, CountedMoves
              <3>2. Last' = Last \ {r}
                    BY <1>0, <2>1, <2>3, LastMoves
              <3> QED BY <2>2, <3>1, <3>2
        <2>5. \A j \in Kinds : Whole(j)' = IF j = kind[r] THEN Whole(j) \union {r} ELSE Whole(j)
              <3>1. \A j \in Kinds : Whole(j)' = IF kind[r] = j THEN Whole(j) \union {r} ELSE Whole(j) \ {r}
                    BY <1>0, <2>1, <2>3, WholeMoves
              <3>2. \A j \in Kinds : Whole(j) \ {r} = Whole(j)
                    BY <2>2, NoChange
              <3> QED BY <3>1, <3>2
        <2>6. \A j \in Kinds : Count(j)' = IF j = kind[r] THEN Count(j) + 1 ELSE Count(j)
              BY <2>1, <2>2 DEF SetCount, Count, Kinds
        <2>7. ObjectTypeOK'
              BY <1>0, <2>1, <2>3, <2>6, Moves DEF ObjectTypeOK, Count, Kinds
        <2>8. \A j \in Kinds : Count(j)' = Cardinality(Whole(j)')
              <3> SUFFICES ASSUME NEW j \in Kinds PROVE Count(j)' = Cardinality(Whole(j)')
                  OBVIOUS
              <3>1. Count(j) = Cardinality(Whole(j))
                    BY <1>0, CountIs
              <3>2. Cardinality(Whole(j) \union {r}) = Cardinality(Whole(j)) + 1
                    BY <2>2, Subsets, Joins
              <3> QED BY <2>5, <2>6, <3>1, <3>2
        <2>9. CountsExact'
              BY <1>0, <2>1, <2>4, <2>8 DEF CountsExact, Count, Kinds
        <2>10. Protected'
              BY <1>0, <2>1, <2>3, Moves DEF Protected, ObjectTypeOK
        <2>11. LastAlone' /\ FreedExact' /\ NoAlarm'
              BY <1>0, <2>1, <2>4 DEF LastAlone, FreedExact, NoAlarm
        <2> QED BY <2>7, <2>9, <2>10, <2>11 DEF CountInv
  <1>3. ASSUME NEW r \in Refs, HandOut(r) \/ OnIOCallback(r) PROVE CountInv'
        <2>1. PICK s \in {"held", "out"} : /\ Become(r, s) /\ state[r] \in {"held", "out"} \ {s}
                                           /\ UNCHANGED <<refCounters, kind, by, freed, alarm>>
                                           /\ s = "out" => Idle(r)
              BY <1>3 DEF HandOut, OnIOCallback, Idle
        <2>2. s \in States
              BY DEF States
        <2>3. r \in Counted /\ r \notin Last /\ \A j \in Kinds : r \in Whole(j) <=> kind[r] = j
              BY <2>1 DEF Counted, Last, Whole
        <2>4. Counted' = Counted /\ Last' = Last
              <3>1. Counted' = Counted \union {r}
                    BY <1>0, <2>1, <2>2, CountedMoves
              <3>2. Last' = Last \ {r}
                    BY <1>0, <2>1, <2>2, LastMoves
              <3> QED BY <2>3, <3>1, <3>2
        <2>5. kind' = kind
              BY <2>1
        <2>6. \A j \in Kinds : Whole(j)' = Whole(j)
              <3>1. \A j \in Kinds : Whole(j)' = IF kind[r] = j THEN Whole(j) \union {r} ELSE Whole(j) \ {r}
                    BY <1>0, <2>1, <2>2, <2>5, WholeMoves
              <3> QED BY <2>3, <3>1, NoChange
        <2>7. ObjectTypeOK'
              BY <1>0, <2>1, <2>2, Moves DEF ObjectTypeOK, refCounters
        <2>8. CountsExact'
              BY <1>0, <2>1, <2>4, <2>6 DEF CountsExact, refCounters, Kinds
        <2>9. Protected'
              <3> SUFFICES ASSUME NEW u \in Refs, state'[u] = "adding" PROVE state'[by'[u]] = "held"
                  BY DEF Protected
              <3>1. u # r /\ state[u] = "adding" /\ by'[u] = by[u] /\ by[u] \in Refs
                    BY <1>0, <2>1, <2>2, Moves DEF ObjectTypeOK
              <3>2. state[by[u]] = "held"
                    BY <1>0, <3>1 DEF Protected
              <3>3. by[u] # r
                    BY <2>1, <3>1, <3>2 DEF Idle
              <3> QED BY <1>0, <2>1, <2>2, <3>1, <3>2, <3>3, Moves
        <2>10. LastAlone' /\ FreedExact' /\ NoAlarm'
              BY <1>0, <2>1, <2>4 DEF LastAlone, FreedExact, NoAlarm
        <2> QED BY <2>7, <2>8, <2>9, <2>10 DEF CountInv
  <1>4. ASSUME NEW r \in Refs, Release(r) PROVE CountInv'
        <2>1. Idle(r) /\ state[r] = "held" /\ kind[r] \in Kinds
              BY <1>0, <1>4 DEF Release, Idle, ObjectTypeOK
        <2>2. r \in Counted /\ r \notin Last /\ \A j \in Kinds : r \in Whole(j) <=> kind[r] = j
              BY <2>1 DEF Counted, Last, Whole
        <2>3. \A j \in Kinds : Count(j) = Cardinality(Whole(j)) /\ Count(j) \in Nat
              BY <1>0, CountIs, Subsets, Sizes
        <2>4. Count(kind[r]) > 0
              <3>1. Whole(kind[r]) \in SUBSET Refs /\ Whole(kind[r]) # {}
                    BY <2>1, <2>2, Subsets
              <3>2. Cardinality(Whole(kind[r])) # 0
                    BY <3>1, Sizes
              <3> QED BY <2>1, <2>3, <3>2
        <2>5. /\ SetCount(kind[r], Count(kind[r]) - 1) /\ Become(r, "dropping") /\ m_nRef' = m_nRef
              /\ alarm' = alarm /\ kind' = kind /\ by' = by /\ freed' = freed
              BY <1>4, <2>4 DEF Release
        <2>6. "dropping" \in States
              BY DEF States
        <2>7. Counted' = Counted /\ Last' = Last
              <3>1. Counted' = Counted \union {r}
                    BY <1>0, <2>5, <2>6, CountedMoves
              <3>2. Last' = Last \ {r}
                    BY <1>0, <2>5, <2>6, LastMoves
              <3> QED BY <2>2, <3>1, <3>2
        <2>8. \A j \in Kinds : Whole(j)' = Whole(j) \ {r}
              BY <1>0, <2>5, <2>6, WholeMoves
        <2>9. \A j \in Kinds : Count(j)' = IF j = kind[r] THEN Count(j) - 1 ELSE Count(j)
              BY <2>1, <2>5 DEF SetCount, Count, Kinds
        <2>10. \A j \in Kinds : Count(j)' = Cardinality(Whole(j)')
              <3> SUFFICES ASSUME NEW j \in Kinds PROVE Count(j)' = Cardinality(Whole(j)')
                  OBVIOUS
              <3>1. CASE j = kind[r]
                    BY <2>1, <2>2, <2>3, <2>8, <2>9, <3>1, Subsets, Quits
              <3>2. CASE j # kind[r]
                    <4>1. Whole(j) \ {r} = Whole(j)
                          BY <2>2, <3>2
                    <4> QED BY <2>3, <2>8, <2>9, <3>2, <4>1
              <3> QED BY <3>1, <3>2
        <2>11. \A j \in Kinds : Count(j)' \in Nat
              <3> SUFFICES ASSUME NEW j \in Kinds PROVE Count(j)' \in Nat
                  OBVIOUS
              <3> QED BY <2>3, <2>4, <2>9
        <2>12. ObjectTypeOK'
              BY <1>0, <2>5, <2>6, <2>11, Moves DEF ObjectTypeOK, Count, Kinds
        <2>13. CountsExact'
              BY <1>0, <2>5, <2>7, <2>10 DEF CountsExact, Count, Kinds
        <2>14. Protected'
              <3> SUFFICES ASSUME NEW u \in Refs, state'[u] = "adding" PROVE state'[by'[u]] = "held"
                  BY DEF Protected
              <3>1. u # r /\ state[u] = "adding" /\ by'[u] = by[u] /\ by[u] \in Refs
                    BY <1>0, <2>5, <2>6, Moves DEF ObjectTypeOK
              <3>2. state[by[u]] = "held" /\ by[u] # r
                    BY <1>0, <2>1, <3>1 DEF Protected, Idle
              <3> QED BY <1>0, <2>5, <2>6, <3>1, <3>2, Moves
        <2>15. LastAlone' /\ FreedExact' /\ NoAlarm'
              BY <1>0, <2>5, <2>7 DEF LastAlone, FreedExact, NoAlarm
        <2> QED BY <2>12, <2>13, <2>14, <2>15 DEF CountInv
  <1>5. ASSUME NEW r \in Refs, Drop(r) PROVE CountInv'
        <2>1. /\ state[r] = "dropping" /\ m_nRef' = m_nRef - 1 /\ Become(r, AfterDrop(m_nRef'))
              /\ m_nTimerRef' = m_nTimerRef /\ m_nGeneralRef' = m_nGeneralRef
              /\ kind' = kind /\ by' = by /\ freed' = freed
              BY <1>5 DEF Drop
        <2>2. r \in Counted /\ r \notin Last /\ \A j \in Kinds : r \notin Whole(j)
              BY <2>1 DEF Counted, Last, Whole
        <2>3. Last = {} /\ freed = 0 /\ m_nRef > 0 /\ m_nRef \in Nat
              BY <1>0, <2>2, Alive DEF ObjectTypeOK
        <2>4. m_nRef' \in Nat /\ ~(m_nRef' < 0)
              BY <2>1, <2>3
        <2>5. alarm' = (alarm \/ FALSE)
              BY <1>5, <2>4 DEF Drop
        <2>6. AfterDrop(m_nRef') \in {"checkTimer", "none"} /\ AfterDrop(m_nRef') \in States
              BY DEF AfterDrop, States
        <2>7. Counted' = Counted \ {r}
              BY <1>0, <2>1, <2>6, CountedMoves
        <2>8. m_nRef' = Cardinality(Counted')
              BY <1>0, <2>1, <2>2, <2>7, Subsets, Quits DEF CountsExact
        <2>9. \A j \in Kinds : Whole(j)' = Whole(j)
              <3>1. \A j \in Kinds : Whole(j)' = Whole(j) \ {r}
                    BY <1>0, <2>1, <2>6, WholeMoves
              <3>2. \A j \in Kinds : Whole(j) \ {r} = Whole(j)
                    BY <2>2, NoChange
              <3> QED BY <3>1, <3>2
        <2>10. ObjectTypeOK'
              BY <1>0, <2>1, <2>4, <2>5, <2>6, Moves DEF ObjectTypeOK
        <2>11. CountsExact'
              BY <1>0, <2>1, <2>8, <2>9 DEF CountsExact, Kinds
        <2>12. Protected'
              BY <1>0, <2>1, <2>6, Moves DEF Protected, ObjectTypeOK
        <2>13. Counted' \in SUBSET Refs
              BY <2>7, Subsets
        <2>14. IF Counted' = {} THEN Last' = {r} ELSE Last' = {}
              <3>1. Counted' = {} <=> m_nRef' = 0
                    BY <2>8, <2>13, Sizes
              <3>2. m_nRef' = 0 => Last' = Last \union {r}
                    BY <1>0, <2>1, <2>6, LastMoves DEF AfterDrop
              <3>3. m_nRef' # 0 => Last' = Last \ {r}
                    BY <1>0, <2>1, <2>6, LastMoves DEF AfterDrop
              <3> QED BY <2>3, <3>1, <3>2, <3>3
        <2>15. LastAlone' /\ FreedExact'
              BY <2>1, <2>3, <2>14 DEF LastAlone, FreedExact
        <2>16. NoAlarm'
              BY <1>0, <2>5 DEF NoAlarm
        <2> QED BY <2>10, <2>11, <2>12, <2>15, <2>16 DEF CountInv
  <1>6. ASSUME NEW r \in Refs, CheckTimer(r) \/ CheckGeneral(r) PROVE CountInv'
        <2>1. PICK k \in Kinds, s \in {"checkGeneral", "free"} :
                 Check(r, k, s) /\ state[r] \in {"checkTimer", "checkGeneral"}
              BY <1>6 DEF CheckTimer, CheckGeneral, Kinds
        <2>2. r \in Last
              BY <2>1 DEF Last
        <2>3. Counted = {} /\ Last = {r} /\ freed = 0 /\ Count(k) = 0
              BY <2>2, AtTheEnd
        <2>4. ~Remains(k)
              BY <2>3 DEF Remains
        <2>5. /\ Become(r, s) /\ m_nRef' = m_nRef /\ m_nTimerRef' = m_nTimerRef
              /\ m_nGeneralRef' = m_nGeneralRef /\ kind' = kind /\ by' = by /\ freed' = freed
              BY <2>1, <2>4 DEF Check
        <2>6. alarm' = (alarm \/ FALSE)
              BY <2>1, <2>4 DEF Check
        <2>7. s \in States
              BY DEF States
        <2>8. Counted' = {} /\ Last' = {r}
              BY <1>0, <2>3, <2>5, <2>7, CountedMoves, LastMoves
        <2>9. \A j \in Kinds : Whole(j)' = Whole(j)
              <3> SUFFICES ASSUME NEW j \in Kinds PROVE Whole(j)' = Whole(j)
                  OBVIOUS
              <3>1. Whole(j) \subseteq Counted /\ Whole(j)' \subseteq Counted'
                    BY DEF Whole, Counted
              <3> QED BY <2>3, <2>8, <3>1
        <2>10. ObjectTypeOK'
              BY <1>0, <2>5, <2>6, <2>7, Moves DEF ObjectTypeOK
        <2>11. CountsExact'
              BY <1>0, <2>3, <2>5, <2>8, <2>9 DEF CountsExact, Kinds
        <2>12. Protected'
              BY <1>0, <2>1, <2>5, <2>7, Moves DEF Protected, ObjectTypeOK
        <2>13. LastAlone' /\ FreedExact'
              BY <2>3, <2>5, <2>8 DEF LastAlone, FreedExact
        <2>14. NoAlarm'
              BY <1>0, <2>6 DEF NoAlarm
        <2> QED BY <2>10, <2>11, <2>12, <2>13, <2>14 DEF CountInv
  <1>7. ASSUME NEW r \in Refs, OnFree(r) PROVE CountInv'
        <2>1. /\ state[r] = "free" /\ freed' = freed + 1 /\ Become(r, "none")
              /\ UNCHANGED <<refCounters, kind, by, alarm>>
              BY <1>7 DEF OnFree
        <2>2. r \in Last
              BY <2>1 DEF Last
        <2>3. Counted = {} /\ Last = {r} /\ freed = 0
              BY <2>2, AtTheEnd
        <2>4. "none" \in States
              BY DEF States
        <2>5. Counted' = {} /\ Last' = {}
              BY <1>0, <2>1, <2>3, <2>4, CountedMoves, LastMoves
        <2>6. \A j \in Kinds : Whole(j)' = Whole(j)
              <3> SUFFICES ASSUME NEW j \in Kinds PROVE Whole(j)' = Whole(j)
                  OBVIOUS
              <3>1. Whole(j) \subseteq Counted /\ Whole(j)' \subseteq Counted'
                    BY DEF Whole, Counted
              <3> QED BY <2>3, <2>5, <3>1
        <2>7. ObjectTypeOK'
              BY <1>0, <2>1, <2>3, <2>4, Moves DEF ObjectTypeOK, refCounters
        <2>8. CountsExact'
              BY <1>0, <2>1, <2>3, <2>5, <2>6 DEF CountsExact, refCounters, Kinds
        <2>9. Protected'
              BY <1>0, <2>1, <2>4, Moves DEF Protected, ObjectTypeOK
        <2>10. LastAlone' /\ FreedExact' /\ NoAlarm'
              BY <1>0, <2>1, <2>3, <2>5 DEF LastAlone, FreedExact, NoAlarm
        <2> QED BY <2>7, <2>8, <2>9, <2>10 DEF CountInv
  <1>8. CASE UNCHANGED objectVars
        BY <1>0, <1>8 DEF objectVars, refCounters, CountInv, ObjectTypeOK, CountsExact, Protected, LastAlone, FreedExact,
           NoAlarm, Counted, Whole, Last
  <1> QED BY <1>1, <1>2, <1>3, <1>4, <1>5, <1>6, <1>7, <1>8 DEF ObjectNext, Step

LEMMA CountHolds == ObjectSpec => []CountInv
  BY CountInit, CountStep, PTL DEF ObjectSpec

\* No counter of the object ever goes below zero.
THEOREM CountersTyped == ObjectSpec => []ObjectTypeOK
  BY CountHolds, PTL DEF CountInv

\* Each counter is the number of references that have got as far as it.
THEOREM CountsAreExact == ObjectSpec => []CountsExact
  BY CountHolds, PTL DEF CountInv

\* The object is deleted once, and exactly when the last reference to it is gone.
THEOREM FreedOnceAtTheEnd == ObjectSpec => []FreedAtTheEnd
  <1>1. CountInv => FreedAtTheEnd
        BY DEF CountInv, ObjectTypeOK, FreedExact, Counted, Last, FreedAtTheEnd, States
  <1> QED BY <1>1, CountHolds, PTL

\* The error branches of AddRef and Release are never taken.
THEOREM NeverAlarmed == ObjectSpec => []NoAlarm
  BY CountHolds, PTL DEF CountInv

-----------------------------------------------------------------------------
\* Buffers.

\* A thread has a buffer in its hands exactly while it is inside Free.
HandsFull == \A t \in Threads : pc[t] \in {"stop", "index", "push"} <=> buf[t] # NoBuffer

\* OneOwner written out place by place: the lists share no buffer and repeat
\* none, no two threads hold the same one, and none is both at two of a list,
\* a hand and in use.
ListsApart == \A s, r \in Slots : \A i \in 1..Len(slot[s]) : \A j \in 1..Len(slot[r]) :
                 slot[s][i] = slot[r][j] => s = r /\ i = j
HandsApart == \A s, t \in Threads : buf[s] = buf[t] /\ buf[s] # NoBuffer => s = t
NotInHand == \A s \in Slots : \A i \in 1..Len(slot[s]) : \A t \in Threads : slot[s][i] # buf[t]
NotPooled == \A s \in Slots : \A i \in 1..Len(slot[s]) : slot[s][i] \notin used
NotUsed == \A t \in Threads : buf[t] \notin used
Apart == ListsApart /\ HandsApart /\ NotInHand /\ NotPooled /\ NotUsed

IInv == TypeOK /\ HandsFull /\ Apart

-----------------------------------------------------------------------------
\* What taking the first element off a list leaves.
LEMMA TailOf == ASSUME NEW S, NEW q \in Seq(S), q # <<>>
                PROVE  /\ Head(q) \in S /\ Head(q) = q[1] /\ 1 \in 1..Len(q)
                       /\ Tail(q) \in Seq(S)
                       /\ Len(Tail(q)) = Len(q) - 1
                       /\ \A i \in 1..Len(Tail(q)) : i + 1 \in 1..Len(q) /\ Tail(q)[i] = q[i+1]
  OBVIOUS

\* What putting an element in front of a list gives.
LEMMA FrontOf == ASSUME NEW S, NEW q \in Seq(S), NEW b \in S
                 PROVE  /\ <<b>> \o q \in Seq(S)
                        /\ Len(<<b>> \o q) = Len(q) + 1
                        /\ (<<b>> \o q)[1] = b
                        /\ \A i \in 1..Len(<<b>> \o q) :
                              i # 1 => i - 1 \in 1..Len(q) /\ (<<b>> \o q)[i] = q[i-1]
  OBVIOUS

\* The counters stay slots.
LEMMA NextSlots == ASSUME TypeOK PROVE NextAlloc \in Slots /\ NextFree \in Slots
  BY PoolOK DEF TypeOK, NextAlloc, NextFree, Slots

-----------------------------------------------------------------------------
\* The type invariant and HandsFull hold at the start and after every step.
LEMMA TypeInit == Init => TypeOK /\ HandsFull
  <1>1. 0 \in Slots /\ BUFFER_POOL_SIZE - 1 \in Slots
        BY PoolOK DEF Slots
  <1>2. <<>> \in Seq(Buffers)
        OBVIOUS
  <1>3. Init => slot \in [Slots -> Seq(Buffers)]
        BY <1>2 DEF Init
  <1> QED BY PoolOK, <1>1, <1>3 DEF Init, TypeOK, HandsFull

LEMMA TypeStep == TypeOK /\ HandsFull /\ [Next]_vars => TypeOK' /\ HandsFull'
  <1> SUFFICES ASSUME TypeOK, HandsFull, [Next]_vars PROVE TypeOK' /\ HandsFull'
      OBVIOUS
  <1> USE PoolOK
  <1>1. ASSUME NEW t \in Threads, Alloc(t) PROVE TypeOK' /\ HandsFull'
        BY <1>1, NextSlots DEF TypeOK, HandsFull, Alloc, Goto
  <1>2. ASSUME NEW t \in Threads, Pop(t) PROVE TypeOK' /\ HandsFull'
        <2>1. CASE slot[at[t]] # <<>>
              <3>1. at[t] \in Slots /\ slot[at[t]] \in Seq(Buffers)
                    BY DEF TypeOK
              <3>2. Head(slot[at[t]]) \in Buffers /\ Tail(slot[at[t]]) \in Seq(Buffers)
                    BY <2>1, <3>1, TailOf
              <3>3. /\ used' = used \union {Head(slot[at[t]])}
                    /\ slot' = [slot EXCEPT ![at[t]] = Tail(slot[at[t]])]
                    /\ pc' = [pc EXCEPT ![t] = "idle"] /\ pc[t] = "pop"
                    BY <1>2, <2>1 DEF Pop, Goto
              <3>4. used' \subseteq Buffers
                    BY <3>2, <3>3 DEF TypeOK
              <3>5. slot' \in [Slots -> Seq(Buffers)]
                    BY <3>1, <3>2, <3>3 DEF TypeOK
              <3> QED BY <1>2, <3>3, <3>4, <3>5 DEF TypeOK, HandsFull, Pop, counters
        <2>2. CASE slot[at[t]] = <<>>
              BY <1>2, <2>2 DEF TypeOK, HandsFull, Pop, Goto, counters
        <2> QED BY <2>1, <2>2
  <1>3. ASSUME NEW t \in Threads, New(t) PROVE TypeOK' /\ HandsFull'
        BY <1>3 DEF TypeOK, HandsFull, New, Goto, counters
  <1>4. ASSUME NEW t \in Threads, NEW b \in Buffers, Free(t, b) PROVE TypeOK' /\ HandsFull'
        BY <1>4 DEF TypeOK, HandsFull, Free, Goto, counters
  <1>5. ASSUME NEW t \in Threads, CheckStop(t) PROVE TypeOK' /\ HandsFull'
        BY <1>5 DEF TypeOK, HandsFull, CheckStop, Goto, counters
  <1>6. ASSUME NEW t \in Threads, Index(t) PROVE TypeOK' /\ HandsFull'
        BY <1>6, NextSlots DEF TypeOK, HandsFull, Index, Goto
  <1>7. ASSUME NEW t \in Threads, Push(t) PROVE TypeOK' /\ HandsFull'
        <2>1. at[t] \in Slots /\ slot[at[t]] \in Seq(Buffers) /\ buf[t] \in Buffers
              BY <1>7 DEF TypeOK, HandsFull, Push
        <2>2. <<buf[t]>> \o slot[at[t]] \in Seq(Buffers)
              BY <2>1, FrontOf
        <2> QED BY <1>7, <2>1, <2>2 DEF TypeOK, HandsFull, Push, Goto, counters
  <1>8. CASE StopPool
        BY <1>8 DEF TypeOK, HandsFull, StopPool, counters
  <1>9. ASSUME NEW s \in Slots, Drain(s) PROVE TypeOK' /\ HandsFull'
        BY <1>9 DEF TypeOK, HandsFull, Drain, counters
  <1>10. CASE UNCHANGED vars
        BY <1>10 DEF TypeOK, HandsFull, vars, counters
  <1> QED BY <1>1, <1>2, <1>3, <1>4, <1>5, <1>6, <1>7, <1>8, <1>9, <1>10 DEF Next

\* The type invariant: in particular the masked counters always name a slot.
THEOREM TypeCorrect == Spec => []TypeOK
  <1>1. TypeOK /\ HandsFull /\ [Next]_vars => (TypeOK /\ HandsFull)'
        BY TypeStep
  <1> QED BY <1>1, TypeInit, PTL DEF Spec

-----------------------------------------------------------------------------
\* Apart is OneOwner.
LEMMA ApartIsOneOwner == ASSUME TypeOK, Apart PROVE OneOwner
  <1>1. \A b \in Pooled : \E s \in Slots : \E i \in 1..Len(slot[s]) : slot[s][i] = b
        BY DEF Pooled
  <1>2. \A b \in InHand : \E t \in Threads : buf[t] = b
        BY DEF InHand
  <1>3. Pooled \intersect InHand = {}
        BY <1>1, <1>2 DEF Apart, NotInHand
  <1>4. used \intersect Pooled = {}
        BY <1>1 DEF Apart, NotPooled
  <1>5. used \intersect InHand = {}
        BY <1>2 DEF Apart, NotUsed
  <1> QED BY <1>3, <1>4, <1>5 DEF OneOwner, Apart, ListsApart, HandsApart

\* A buffer operator new returns is nowhere in the pool.
LEMMA FreshIsApart == ASSUME TypeOK, NEW b \in Buffers \ Live
                      PROVE  /\ b \notin used
                             /\ \A t \in Threads : buf[t] # b
                             /\ \A s \in Slots : \A i \in 1..Len(slot[s]) : slot[s][i] # b
  BY DEF Live, Pooled, InHand

\* Apart is kept by every step.
LEMMA ApartStep == IInv /\ [Next]_vars => Apart'
  <1> SUFFICES ASSUME TypeOK, HandsFull, Apart, [Next]_vars PROVE Apart'
      BY DEF IInv
  <1> USE DEF Apart
  <1>0. ASSUME UNCHANGED <<slot, buf, used>> PROVE Apart'
        BY <1>0 DEF ListsApart, HandsApart, NotInHand, NotPooled, NotUsed
  <1>1. ASSUME NEW t \in Threads, Alloc(t) PROVE Apart'
        BY <1>0, <1>1 DEF Alloc
  <1>2. ASSUME NEW t \in Threads, Pop(t) PROVE Apart'
        <2>1. CASE slot[at[t]] = <<>>
              BY <1>0, <1>2, <2>1 DEF Pop
        <2>2. CASE slot[at[t]] # <<>>
              <3> DEFINE z == at[t]
                         q == slot[z]
              <3>1. z \in Slots /\ q \in Seq(Buffers) /\ q # <<>>
                    BY <2>2 DEF TypeOK
              <3>2. /\ Head(q) = q[1] /\ 1 \in 1..Len(q)
                    /\ \A i \in 1..Len(Tail(q)) : i + 1 \in 1..Len(q) /\ Tail(q)[i] = q[i+1] /\ i + 1 # 1
                    BY <3>1, TailOf
              <3>3. slot' = [slot EXCEPT ![z] = Tail(q)] /\ used' = used \union {q[1]} /\ buf' = buf
                    BY <1>2, <2>2, <3>2 DEF Pop
              <3>4. slot'[z] = Tail(q) /\ \A s \in Slots : s # z => slot'[s] = slot[s]
                    BY <3>1, <3>3 DEF TypeOK
              <3> HIDE DEF z, q
              <3>5. \A s \in Slots : \A i \in 1..Len(slot'[s]) :
                       \E k \in 1..Len(slot[s]) : /\ slot'[s][i] = slot[s][k]
                                                 /\ k = IF s = z THEN i + 1 ELSE i
                    BY <3>2, <3>4 DEF q
              <3>6. \A s \in Slots : \A i \in 1..Len(slot'[s]) : slot'[s][i] # q[1]
                    <4> SUFFICES ASSUME NEW s \in Slots, NEW i \in 1..Len(slot'[s]) PROVE slot'[s][i] # q[1]
                        OBVIOUS
                    <4>1. PICK k \in 1..Len(slot[s]) :
                             slot'[s][i] = slot[s][k] /\ k = IF s = z THEN i + 1 ELSE i
                          BY <3>5
                    <4>2. s = z => k # 1
                          BY <4>1
                    <4>3. 1 \in 1..Len(slot[z]) /\ q[1] = slot[z][1]
                          BY <3>2 DEF q
                    <4>4. slot[s][k] = slot[z][1] => s = z /\ k = 1
                          BY <3>1, <4>3 DEF ListsApart
                    <4> QED BY <4>1, <4>2, <4>3, <4>4
              <3>7. ListsApart'
                    BY <3>5 DEF ListsApart
              <3>8. NotInHand' /\ HandsApart'
                    <4>1. HandsApart'
                          BY <3>3 DEF HandsApart
                    <4>2. NotInHand'
                          <5> SUFFICES ASSUME NEW s \in Slots, NEW i \in 1..Len(slot'[s]), NEW u \in Threads
                                       PROVE  slot'[s][i] # buf'[u]
                              BY DEF NotInHand
                          <5>1. PICK k \in 1..Len(slot[s]) : slot'[s][i] = slot[s][k]
                                BY <3>5
                          <5>2. slot[s][k] # buf[u]
                                BY DEF NotInHand
                          <5> QED BY <3>3, <5>1, <5>2
                    <4> QED BY <4>1, <4>2
              <3>9. NotPooled'
                    <4> SUFFICES ASSUME NEW s \in Slots, NEW i \in 1..Len(slot'[s])
                                 PROVE  slot'[s][i] \notin used'
                        BY DEF NotPooled
                    <4>1. PICK k \in 1..Len(slot[s]) : slot'[s][i] = slot[s][k]
                          BY <3>5
                    <4>2. slot[s][k] \notin used
                          BY DEF NotPooled
                    <4>3. slot'[s][i] # q[1]
                          BY <3>6
                    <4> QED BY <3>3, <4>1, <4>2, <4>3
              <3>10. NotUsed'
                    BY <3>1, <3>2, <3>3 DEF NotUsed, NotInHand, q
              <3> QED BY <3>7, <3>8, <3>9, <3>10
        <2> QED BY <2>1, <2>2
  <1>3. ASSUME NEW t \in Threads, New(t) PROVE Apart'
        <2>1. PICK b \in Buffers \ Live : used' = used \union {b}
              BY <1>3 DEF New
        <2>2. slot' = slot /\ buf' = buf
              BY <1>3 DEF New
        <2> QED BY <2>1, <2>2, FreshIsApart DEF ListsApart, HandsApart, NotInHand, NotPooled, NotUsed
  <1>4. ASSUME NEW t \in Threads, NEW b \in Buffers, Free(t, b) PROVE Apart'
        <2>1. b \in used /\ used' = used \ {b} /\ slot' = slot /\ buf' = [buf EXCEPT ![t] = b]
              BY <1>4 DEF Free
        <2>2. buf'[t] = b /\ \A s \in Threads : s # t => buf'[s] = buf[s]
              BY <2>1 DEF TypeOK
        <2>3. HandsApart'
              BY <2>1, <2>2 DEF HandsApart, NotUsed
        <2>4. NotInHand' /\ ListsApart' /\ NotPooled'
              BY <2>1, <2>2 DEF NotInHand, ListsApart, NotPooled
        <2>5. NotUsed'
              BY <2>1, <2>2 DEF NotUsed
        <2> QED BY <2>3, <2>4, <2>5
  <1>5. ASSUME NEW t \in Threads, CheckStop(t) PROVE Apart'
        <2>1. slot' = slot /\ used' = used /\ (buf' = buf \/ buf' = [buf EXCEPT ![t] = NoBuffer])
              BY <1>5 DEF CheckStop
        <2>2. \A s \in Threads : buf'[s] = buf[s] \/ buf'[s] = NoBuffer
              BY <2>1 DEF TypeOK
        <2>3. \A s \in Slots : \A i \in 1..Len(slot[s]) : slot[s][i] # NoBuffer
              BY PoolOK, ElementOfSeq DEF TypeOK
        <2>4. NoBuffer \notin used
              BY PoolOK DEF TypeOK
        <2> QED BY <2>1, <2>2, <2>3, <2>4 DEF ListsApart, HandsApart, NotInHand, NotPooled, NotUsed
  <1>6. ASSUME NEW t \in Threads, Index(t) PROVE Apart'
        BY <1>0, <1>6 DEF Index
  <1>7. ASSUME NEW t \in Threads, Push(t) PROVE Apart'
        <2> DEFINE z == at[t]
                   q == slot[z]
                   b == buf[t]
        <2>1. z \in Slots /\ q \in Seq(Buffers) /\ b \in Buffers
              BY <1>7 DEF TypeOK, HandsFull, Push
        <2>2. /\ (<<b>> \o q)[1] = b
              /\ \A i \in 1..Len(<<b>> \o q) : i # 1 => i - 1 \in 1..Len(q) /\ (<<b>> \o q)[i] = q[i-1]
              BY <2>1, FrontOf
        <2>3. slot' = [slot EXCEPT ![z] = <<b>> \o q] /\ used' = used /\ buf' = [buf EXCEPT ![t] = NoBuffer]
              BY <1>7 DEF Push
        <2>4. slot'[z] = <<b>> \o q /\ \A s \in Slots : s # z => slot'[s] = slot[s]
              BY <2>1, <2>3 DEF TypeOK
        <2>5. buf'[t] = NoBuffer /\ \A s \in Threads : s # t => buf'[s] = buf[s]
              BY <2>3 DEF TypeOK
        <2>6. \A s \in Slots : \A i \in 1..Len(slot[s]) : slot[s][i] # b
              BY DEF NotInHand
        <2>7. b \notin used /\ \A s \in Threads : s # t => buf[s] # b
              BY <2>1, PoolOK DEF NotUsed, HandsApart
        <2>8. NoBuffer \notin used /\ b # NoBuffer
              BY <2>1, PoolOK DEF TypeOK
        <2>9. \A s \in Slots : \A i \in 1..Len(slot[s]) : slot[s][i] # NoBuffer
              BY PoolOK, ElementOfSeq DEF TypeOK
        <2> HIDE DEF z, q, b
        <2>10. \A s \in Slots : \A i \in 1..Len(slot'[s]) :
                  \/ s = z /\ i = 1 /\ slot'[s][i] = b
                  \/ \E k \in 1..Len(slot[s]) : /\ slot'[s][i] = slot[s][k]
                                                /\ k = IF s = z THEN i - 1 ELSE i
              BY <2>2, <2>4 DEF q
        <2>11. ListsApart'
              <3> SUFFICES ASSUME NEW r \in Slots, NEW u \in Slots, NEW i \in 1..Len(slot'[r]),
                                  NEW j \in 1..Len(slot'[u]), slot'[r][i] = slot'[u][j]
                           PROVE  r = u /\ i = j
                  BY DEF ListsApart
              <3>1. CASE r = z /\ i = 1 /\ slot'[r][i] = b
                    BY <2>6, <2>10, <3>1
              <3>2. ASSUME NEW k \in 1..Len(slot[r]), slot'[r][i] = slot[r][k],
                           k = IF r = z THEN i - 1 ELSE i
                    PROVE  r = u /\ i = j
                    <4>1. PICK m \in 1..Len(slot[u]) : slot'[u][j] = slot[u][m]
                                                       /\ m = IF u = z THEN j - 1 ELSE j
                          BY <2>6, <2>10, <3>2
                    <4>2. slot[r][k] = slot[u][m]
                          BY <3>2, <4>1
                    <4>3. r = u /\ k = m
                          BY <4>2 DEF ListsApart
                    <4>4. i \in Int /\ j \in Int
                          OBVIOUS
                    <4> QED BY <3>2, <4>1, <4>3, <4>4
              <3> QED BY <2>10, <3>1, <3>2
        <2>12. HandsApart'
              BY <2>5 DEF HandsApart
        <2>13. NotInHand'
              <3> SUFFICES ASSUME NEW r \in Slots, NEW i \in 1..Len(slot'[r]), NEW u \in Threads
                           PROVE  slot'[r][i] # buf'[u]
                  BY DEF NotInHand
              <3>1. CASE slot'[r][i] = b
                    BY <2>5, <2>7, <2>8, <3>1
              <3>2. CASE \E k \in 1..Len(slot[r]) : slot'[r][i] = slot[r][k]
                    BY <2>5, <2>9, <3>2 DEF NotInHand
              <3> QED BY <2>10, <3>1, <3>2
        <2>14. NotPooled'
              <3> SUFFICES ASSUME NEW r \in Slots, NEW i \in 1..Len(slot'[r])
                           PROVE  slot'[r][i] \notin used'
                  BY DEF NotPooled
              <3>1. CASE slot'[r][i] = b
                    BY <2>3, <2>7, <3>1
              <3>2. CASE \E k \in 1..Len(slot[r]) : slot'[r][i] = slot[r][k]
                    BY <2>3, <3>2 DEF NotPooled
              <3> QED BY <2>10, <3>1, <3>2
        <2>15. NotUsed'
              BY <2>3, <2>5, <2>8 DEF NotUsed
        <2> QED BY <2>11, <2>12, <2>13, <2>14, <2>15
  <1>8. CASE StopPool
        BY <1>0, <1>8 DEF StopPool
  <1>9. ASSUME NEW s \in Slots, Drain(s) PROVE Apart'
        <2>1. slot' = [slot EXCEPT ![s] = <<>>] /\ buf' = buf /\ used' = used
              BY <1>9 DEF Drain
        <2>2. \A r \in Slots : \A i \in 1..Len(slot'[r]) : slot'[r] = slot[r]
              BY <2>1 DEF TypeOK
        <2> QED BY <2>1, <2>2 DEF ListsApart, HandsApart, NotInHand, NotPooled, NotUsed
  <1>10. CASE UNCHANGED vars
        BY <1>0, <1>10 DEF vars
  <1> QED BY <1>1, <1>2, <1>3, <1>4, <1>5, <1>6, <1>7, <1>8, <1>9, <1>10 DEF Next

\* A buffer never has two owners: no two callers of Alloc hold the same one,
\* and no list contains a buffer twice or one that is in use.
THEOREM NeverShared == Spec => []OneOwner
  <1>1. Init => IInv
        <2>1. Init => Apart
              BY DEF Init, Apart, ListsApart, HandsApart, NotInHand, NotPooled, NotUsed
        <2> QED BY <2>1, TypeInit DEF IInv
  <1>2. IInv /\ [Next]_vars => IInv'
        BY TypeStep, ApartStep DEF IInv
  <1>3. IInv => OneOwner
        BY ApartIsOneOwner DEF IInv
  <1> QED BY <1>1, <1>2, <1>3, PTL DEF Spec

-----------------------------------------------------------------------------
\* Why the pool does not grow.

P == BUFFER_POOL_SIZE

At(l, r) == {t \in Threads : pc[t] = l /\ at[t] = r}
In(L) == {t \in Threads : pc[t] \in L}

\* The calls of Alloc that began, less those of Free that have chosen a slot.
Under == {"pop", "new", "stop", "index"}
Out == Cardinality(used) + Cardinality(In(Under))

\* Alloc and Free go round the slots, so the counters tell how often each slot
\* was chosen, and so how often Alloc found it empty: P times that number is
\* this function of the list's length x, the u threads about to push to the slot
\* and the o about to pop from it, c = Out, the next slot k of Alloc and f of Free.
Found(x, u, o, c, k, f, r) ==
    P * (x + u - o + (IF r < k THEN 1 ELSE 0) - (IF r > f THEN 1 ELSE 0)) + c - k + (P - 1 - f)

Limit(r) == MaxUse + (Cardinality(Threads) - 1) * (P - 1) + 2 * (P - 1 - r)

Few(r) == Found(Len(slot[r]), Cardinality(At("push", r)), Cardinality(At("pop", r)), Out,
                NextAlloc, NextFree, r) <= Limit(r)

FewInv == \A r \in Slots : Few(r)

UseInv == Out + Cardinality(In({"push"})) <= MaxUse

GrowInv == FewInv /\ UseInv

-----------------------------------------------------------------------------
\* Arithmetic.
LEMMA PoolSize == P \in Nat \ {0}
  BY PoolOK DEF P

LEMMA Scale == /\ \A a \in Int : P * a \in Int
               /\ \A a, b \in Int : a <= b => P * a <= P * b
               /\ \A a, b \in Int : P * (a + b) = P * a + P * b
               /\ \A a, b \in Int : P * (a - b) = P * a - P * b
               /\ P * 0 = 0 /\ P * 1 = P
  BY PoolSize


LEMMA FoundLess ==
    ASSUME NEW x \in Int, NEW u \in Int, NEW o \in Int, NEW c \in Int,
           NEW x1 \in Int, NEW u1 \in Int, NEW o1 \in Int, NEW c1 \in Int,
           NEW k \in Slots, NEW f \in Slots, NEW r \in Slots,
           x1 + u1 - o1 <= x + u - o, c1 <= c
    PROVE  Found(x1, u1, o1, c1, k, f, r) <= Found(x, u, o, c, k, f, r)
  <1>1. PICK d \in Int : d = (IF r < k THEN 1 ELSE 0) - (IF r > f THEN 1 ELSE 0)
        OBVIOUS
  <1>2. k \in Int /\ f \in Int /\ P \in Int
        BY PoolSize DEF Slots
  <1>3. x1 + u1 - o1 + d <= x + u - o + d
        BY <1>1
  <1>4. PICK y \in Int, z \in Int : y = x1 + u1 - o1 + d /\ z = x + u - o + d
        BY <1>1
  <1>5. P * y <= P * z /\ P * y \in Int /\ P * z \in Int
        BY <1>3, <1>4, Scale
  <1>6. /\ Found(x1, u1, o1, c1, k, f, r) = P * y + c1 - k + (P - 1 - f)
        /\ Found(x, u, o, c, k, f, r) = P * z + c - k + (P - 1 - f)
        <2>1. /\ x1 + u1 - o1 + (IF r < k THEN 1 ELSE 0) - (IF r > f THEN 1 ELSE 0) = y
              /\ x + u - o + (IF r < k THEN 1 ELSE 0) - (IF r > f THEN 1 ELSE 0) = z
              BY <1>1, <1>4
        <2> QED BY <2>1 DEF Found
  <1> QED BY <1>2, <1>5, <1>6

\* The next slot, and a number with one more, for each slot or for one of them.
Up(k, k1) == k1 = IF k + 1 = P THEN 0 ELSE k + 1
OneMore(n, n1) == n1 = n + 1
OneMoreAt(s, r, n, n1) == n1 = IF r = s THEN n + 1 ELSE n

\* Alloc goes on to the next slot.
LEMMA FoundAlloc ==
    ASSUME NEW x \in Int, NEW u \in Int, NEW o \in Int, NEW c \in Int,
           NEW k \in Slots, NEW f \in Slots, NEW r \in Slots, NEW k1 \in Slots,
           NEW o1 \in Int, NEW c1 \in Int,
           OneMore(c, c1), Up(k, k1), OneMoreAt(k, r, o, o1)
    PROVE  Found(x, u, o1, c1, k1, f, r) <= Found(x, u, o, c, k, f, r)
  <1>1. k \in 0..(P - 1) /\ f \in 0..(P - 1) /\ r \in 0..(P - 1) /\ P \in Nat \ {0}
        BY PoolSize DEF Slots, P
  <1>0. /\ c1 = c + 1 /\ (r = k => o1 = o + 1) /\ (r # k => o1 = o)
        /\ (k + 1 = P => k1 = 0) /\ (k + 1 # P => k1 = k + 1)
        BY DEF OneMore, Up, OneMoreAt
  <1>2. o1 \in Int /\ k1 \in Int /\ r \in Int /\ f \in Int /\ k \in Int
        BY <1>1
  <1>3. PICK a, b, a1 \in {0, 1} : /\ a = (IF r < k THEN 1 ELSE 0) /\ b = (IF r > f THEN 1 ELSE 0)
                                  /\ a1 = (IF r < k1 THEN 1 ELSE 0)
        OBVIOUS
  <1>4. PICK y, y1 \in Int : y = x + u - o + a - b /\ y1 = x + u - o1 + a1 - b
        BY <1>2
  <1>5. /\ Found(x, u, o1, c1, k1, f, r) = P * y1 + (c + 1) - k1 + (P - 1 - f)
        /\ Found(x, u, o, c, k, f, r) = P * y + c - k + (P - 1 - f)
        BY <1>0, <1>3, <1>4 DEF Found
  <1>6. CASE k + 1 # P
        <2>1. y1 = y /\ k1 = k + 1
              BY <1>0, <1>1, <1>3, <1>4, <1>6
        <2>2. P * y1 = P * y /\ P * y \in Int
              BY <2>1, Scale
        <2> QED BY <1>1, <1>5, <2>1, <2>2
  <1>7. CASE k + 1 = P
        <2>1. y1 = y - 1 /\ k1 = 0
              BY <1>0, <1>1, <1>3, <1>4, <1>7
        <2>2. P * y1 = P * y - P /\ P * y \in Int
              <3>1. P * (y - 1) = P * y - P /\ P * y \in Int
                    BY PoolSize
              <3> QED BY <2>1, <3>1
        <2> QED BY <1>1, <1>5, <1>7, <2>1, <2>2
  <1> QED BY <1>6, <1>7

\* Free goes on to the next slot.
LEMMA FoundIndex ==
    ASSUME NEW x \in Int, NEW u \in Int, NEW o \in Int, NEW c \in Int,
           NEW k \in Slots, NEW f \in Slots, NEW r \in Slots, NEW f1 \in Slots,
           NEW u1 \in Int, NEW c1 \in Int,
           OneMore(c1, c), Up(f1, f), OneMoreAt(f, r, u, u1)
    PROVE  Found(x, u1, o, c1, k, f1, r) <= Found(x, u, o, c, k, f, r)
  <1>1. k \in 0..(P - 1) /\ f \in 0..(P - 1) /\ r \in 0..(P - 1) /\ P \in Nat \ {0}
        BY PoolSize DEF Slots, P
  <1>0. /\ c1 = c - 1 /\ (r = f => u1 = u + 1) /\ (r # f => u1 = u)
        /\ (f = 0 => f1 = P - 1) /\ (f # 0 => f1 = f - 1)
        BY <1>1 DEF OneMore, Up, OneMoreAt, Slots, P
  <1>2. u1 \in Int /\ f1 \in Int /\ r \in Int /\ f \in Int /\ k \in Int
        BY <1>1
  <1>3. PICK a, b, b1 \in {0, 1} : /\ a = (IF r < k THEN 1 ELSE 0) /\ b = (IF r > f THEN 1 ELSE 0)
                                  /\ b1 = (IF r > f1 THEN 1 ELSE 0)
        OBVIOUS
  <1>4. PICK y, y1 \in Int : y = x + u - o + a - b /\ y1 = x + u1 - o + a - b1
        BY <1>2
  <1>5. /\ Found(x, u1, o, c1, k, f1, r) = P * y1 + (c - 1) - k + (P - 1 - f1)
        /\ Found(x, u, o, c, k, f, r) = P * y + c - k + (P - 1 - f)
        BY <1>0, <1>3, <1>4 DEF Found
  <1>6. CASE f # 0
        <2>1. y1 = y /\ f1 = f - 1
              BY <1>0, <1>1, <1>3, <1>4, <1>6
        <2>2. P * y1 = P * y /\ P * y \in Int
              BY <2>1, Scale
        <2> QED BY <1>1, <1>5, <2>1, <2>2
  <1>7. CASE f = 0
        <2>1. y1 = y + 1 /\ f1 = P - 1
              BY <1>0, <1>1, <1>3, <1>4, <1>7
        <2>2. P * y1 = P * y + P /\ P * y \in Int
              <3>1. P * (y + 1) = P * y + P /\ P * y \in Int
                    BY PoolSize
              <3> QED BY <2>1, <3>1
        <2> QED BY <1>1, <1>5, <1>7, <2>1, <2>2
  <1> QED BY <1>6, <1>7

\* Alloc has found the slot empty: what is outside the lists is bounded.
LEMMA FoundEmpty ==
    ASSUME NEW u \in Nat, NEW o \in Nat, NEW c \in Int,
           NEW k \in Slots, NEW f \in Slots, NEW r \in Slots,
           u <= Cardinality(Threads) - 1, c + u <= MaxUse
    PROVE  Found(0, u, o, c, k, f, r) <= Limit(r)
  <1>1. k \in 0..(P - 1) /\ f \in 0..(P - 1) /\ r \in 0..(P - 1) /\ P \in Nat \ {0} /\ MaxUse \in Nat
        BY PoolSize, PoolOK DEF Slots, P
  <1>2. PICK n \in Nat : n = Cardinality(Threads)
        BY PoolOK, FS_CardinalityType
  <1>3. PICK e \in {0, 1}, g \in {0, 1} :
           e = (IF r < k THEN 1 ELSE 0) /\ g = (IF r > f THEN 1 ELSE 0)
        OBVIOUS
  <1>4. Found(0, u, o, c, k, f, r) = P * (0 + u - o + e - g) + c - k + (P - 1 - f)
        BY <1>3 DEF Found
  <1>5. P * (0 + u - o + e - g) = P * u - P * o + P * e - P * g
        BY <1>1
  <1>6. /\ P * u \in Int /\ P * o \in Int /\ P * o >= 0 /\ P * e \in Int /\ P * g \in Int
        /\ P * u = (P - 1) * u + u
        BY <1>1
  <1>7. (P - 1) * u <= (n - 1) * (P - 1) /\ (P - 1) * u \in Int /\ (n - 1) * (P - 1) \in Int
        <2>1. PICK p \in Nat : p = P - 1
              BY <1>1
        <2>2. u <= n - 1
              BY <1>2
        <2>3. p * u <= (n - 1) * p /\ p * u \in Int /\ (n - 1) * p \in Int
              BY <2>2
        <2> QED BY <2>1, <2>3
  <1>8. P * e - k <= P - 1 - r
        BY <1>1, <1>3
  <1>9. P - 1 - f - P * g <= P - 1 - r
        BY <1>1, <1>3
  <1>10. Limit(r) = MaxUse + (n - 1) * (P - 1) + 2 * (P - 1 - r)
        BY <1>2 DEF Limit
  <1>11. PICK pu, po, pe, pg, q, w \in Int :
            /\ pu = P * u /\ po = P * o /\ pe = P * e /\ pg = P * g
            /\ q = (P - 1) * u /\ w = (n - 1) * (P - 1)
        BY <1>6, <1>7
  <1>12. Found(0, u, o, c, k, f, r) = pu - po + pe - pg + c - k + (P - 1 - f)
        BY <1>4, <1>5, <1>11
  <1>13. po >= 0 /\ pu = q + u /\ q <= w /\ pe - k <= P - 1 - r /\ P - 1 - f - pg <= P - 1 - r
        BY <1>6, <1>7, <1>8, <1>9, <1>11
  <1>14. pu - po + pe - pg + c - k + (P - 1 - f) <= MaxUse + w + 2 * (P - 1 - r)
        BY <1>1, <1>13
  <1> QED BY <1>10, <1>11, <1>12, <1>14

-----------------------------------------------------------------------------
\* Sets of threads.
LEMMA ThreadSets == ASSUME NEW A \in SUBSET Threads
                    PROVE  IsFiniteSet(A) /\ Cardinality(A) \in Nat /\ Cardinality(A) <= Cardinality(Threads)
  BY PoolOK, FS_Subset, FS_CardinalityType

One(b) == IF b THEN 1 ELSE 0
Hit(l, z, m, r) == IF l = m /\ z = r THEN 1 ELSE 0

LEMMA OneMoves ==
    ASSUME NEW A \in SUBSET Threads, NEW B \in SUBSET Threads, NEW t \in Threads,
           \A v \in Threads : v # t => (v \in B <=> v \in A)
    PROVE  Cardinality(B) + One(t \in A) = Cardinality(A) + One(t \in B)
  <1>1. IsFiniteSet(A) /\ IsFiniteSet(B) /\ Cardinality(A) \in Nat /\ Cardinality(B) \in Nat
        BY ThreadSets
  <1>2. CASE t \in A /\ t \in B
        <2>1. A = B
              BY <1>2
        <2> QED BY <1>2, <2>1
  <1>3. CASE t \notin A /\ t \notin B
        <2>1. A = B
              BY <1>3
        <2> QED BY <1>3, <2>1
  <1>4. CASE t \in A /\ t \notin B
        <2>1. B = A \ {t}
              BY <1>4
        <2>2. Cardinality(B) = Cardinality(A) - 1
              BY <1>1, <1>4, <2>1, FS_RemoveElement
        <2> QED BY <1>1, <1>4, <2>2 DEF One
  <1>5. CASE t \notin A /\ t \in B
        <2>1. B = A \union {t}
              BY <1>5
        <2>2. Cardinality(B) = Cardinality(A) + 1
              BY <1>1, <1>5, <2>1, FS_AddElement
        <2> QED BY <1>1, <1>5, <2>2 DEF One
  <1> QED BY <1>2, <1>3, <1>4, <1>5

\* What the step of one thread does to the numbers of threads.
LEMMA ThreadSteps ==
    ASSUME TypeOK, NEW t \in Threads, NEW l, pc' = [pc EXCEPT ![t] = l], NEW L
    PROVE  Cardinality(In(L))' + One(pc[t] \in L) = Cardinality(In(L)) + One(l \in L)
  <1>1. pc'[t] = l /\ \A v \in Threads : v # t => pc'[v] = pc[v]
        BY DEF TypeOK
  <1>2. PICK A \in SUBSET Threads : A = In(L)
        BY DEF In
  <1>3. PICK B \in SUBSET Threads : B = In(L)'
        BY DEF In
  <1>4. \A v \in Threads : v # t => (v \in B <=> v \in A)
        BY <1>1, <1>2, <1>3 DEF In
  <1>5. (t \in A <=> pc[t] \in L) /\ (t \in B <=> l \in L)
        BY <1>1, <1>2, <1>3 DEF In
  <1>6. Cardinality(B) + One(t \in A) = Cardinality(A) + One(t \in B)
        BY <1>4, OneMoves
  <1> QED BY <1>2, <1>3, <1>5, <1>6 DEF One

LEMMA ThreadMoves ==
    ASSUME TypeOK, NEW t \in Threads, NEW l, NEW z,
           pc' = [pc EXCEPT ![t] = l], at' = [at EXCEPT ![t] = z]
    PROVE  \A m, r : Cardinality(At(m, r))' + Hit(pc[t], at[t], m, r)
                         = Cardinality(At(m, r)) + Hit(l, z, m, r)
  <1>1. /\ pc'[t] = l /\ at'[t] = z
        /\ \A v \in Threads : v # t => pc'[v] = pc[v] /\ at'[v] = at[v]
        BY DEF TypeOK
  <1> SUFFICES ASSUME NEW m, NEW r
               PROVE  Cardinality(At(m, r))' + Hit(pc[t], at[t], m, r)
                          = Cardinality(At(m, r)) + Hit(l, z, m, r)
      OBVIOUS
  <1>2. PICK A \in SUBSET Threads : A = At(m, r)
        BY DEF At
  <1>3. PICK B \in SUBSET Threads : B = At(m, r)'
        BY DEF At
  <1>4. \A v \in Threads : v # t => (v \in B <=> v \in A)
        BY <1>1, <1>2, <1>3 DEF At
  <1>5. (t \in A <=> pc[t] = m /\ at[t] = r) /\ (t \in B <=> l = m /\ z = r)
        BY <1>1, <1>2, <1>3 DEF At
  <1>6. Cardinality(B) + One(t \in A) = Cardinality(A) + One(t \in B)
        BY <1>4, OneMoves
  <1> QED BY <1>2, <1>3, <1>5, <1>6 DEF One, Hit

LEMMA Counts ==
    ASSUME TypeOK
    PROVE  /\ Cardinality(used) \in Nat /\ IsFiniteSet(used)
           /\ \A m, r : Cardinality(At(m, r)) \in Nat
           /\ \A L : Cardinality(In(L)) \in Nat
           /\ \A r \in Slots : Len(slot[r]) \in Nat
           /\ Out \in Nat /\ NextAlloc \in Slots /\ NextFree \in Slots
  <1>1. Cardinality(used) \in Nat /\ IsFiniteSet(used)
        BY PoolOK, FS_Subset, FS_CardinalityType DEF TypeOK
  <1>2. \A m, r : At(m, r) \in SUBSET Threads
        BY DEF At
  <1>3. \A L : In(L) \in SUBSET Threads
        BY DEF In
  <1>4. \A r \in Slots : Len(slot[r]) \in Nat
        BY LenProperties DEF TypeOK
  <1>5. /\ \A m, r : Cardinality(At(m, r)) \in Nat
        /\ \A L : Cardinality(In(L)) \in Nat
        BY <1>2, <1>3, ThreadSets
  <1>6. Out \in Nat
        BY <1>1, <1>5 DEF Out
  <1> QED BY <1>1, <1>4, <1>5, <1>6, NextSlots

LEMMA CountsNext ==
    ASSUME TypeOK'
    PROVE  /\ Cardinality(used') \in Nat
           /\ \A m, r : Cardinality(At(m, r))' \in Nat
           /\ \A L : Cardinality(In(L))' \in Nat
           /\ \A r \in Slots : Len(slot'[r]) \in Nat
           /\ Out' \in Nat /\ NextAlloc' \in Slots /\ NextFree' \in Slots
  <1>1. Cardinality(used') \in Nat
        BY PoolOK, FS_Subset, FS_CardinalityType DEF TypeOK
  <1>2. \A m, r : At(m, r)' \in SUBSET Threads
        BY DEF At
  <1>3. \A L : In(L)' \in SUBSET Threads
        BY DEF In
  <1>4. \A r \in Slots : Len(slot'[r]) \in Nat
        BY LenProperties DEF TypeOK
  <1>5. /\ \A m, r : Cardinality(At(m, r))' \in Nat
        /\ \A L : Cardinality(In(L))' \in Nat
        BY <1>2, <1>3, ThreadSets
  <1>6. Out' \in Nat
        BY <1>1, <1>5 DEF Out
  <1>7. NextAlloc' \in Slots /\ NextFree' \in Slots
        <2>1. PICK a, b \in Slots : a = g_nAllocBuffer' /\ b = g_nFreeBuffer'
              BY DEF TypeOK
        <2>2. (a + 1) % BUFFER_POOL_SIZE \in Slots /\ (b + BUFFER_POOL_SIZE - 1) % BUFFER_POOL_SIZE \in Slots
              BY PoolOK DEF Slots
        <2> QED BY <2>1, <2>2 DEF NextAlloc, NextFree
  <1> QED BY <1>1, <1>4, <1>5, <1>6, <1>7

LEMMA LimitType == \A r \in Slots : Limit(r) \in Int
  <1>1. Cardinality(Threads) \in Int /\ MaxUse \in Int
        BY PoolOK, FS_CardinalityType
  <1>2. P \in Int /\ \A r \in Slots : r \in Int
        BY PoolSize DEF Slots
  <1> QED BY <1>1, <1>2 DEF Limit

LEMMA FoundType == ASSUME NEW x \in Int, NEW u \in Int, NEW o \in Int, NEW c \in Int,
                          NEW k \in Slots, NEW f \in Slots, NEW r \in Slots
                   PROVE  Found(x, u, o, c, k, f, r) \in Int
  <1>1. PICK a, b \in {0, 1} : a = (IF r < k THEN 1 ELSE 0) /\ b = (IF r > f THEN 1 ELSE 0)
        OBVIOUS
  <1>2. Found(x, u, o, c, k, f, r) = P * (x + u - o + a - b) + c - k + (P - 1 - f)
        BY <1>1 DEF Found
  <1>3. k \in Int /\ f \in Int /\ r \in Int /\ P \in Int
        BY PoolSize DEF Slots
  <1>4. P * (x + u - o + a - b) \in Int
        BY Scale
  <1> QED BY <1>2, <1>3, <1>4

\* A step of one thread that moves no counter, and after which no more buffers
\* are outside the lists or in the list of a slot.
LEMMA FewMove ==
    ASSUME TypeOK, TypeOK', FewInv, NEW t \in Threads, NEW l, NEW z,
           pc' = [pc EXCEPT ![t] = l], at' = [at EXCEPT ![t] = z], UNCHANGED counters,
           Cardinality(used') + One(l \in Under) <= Cardinality(used) + One(pc[t] \in Under),
           NEW r \in Slots,
           Len(slot'[r]) + Hit(l, z, "push", r) + Hit(pc[t], at[t], "pop", r)
               <= Len(slot[r]) + Hit(pc[t], at[t], "push", r) + Hit(l, z, "pop", r)
    PROVE  Few(r)'
  <1>1. PICK x, u, o, c, n, m \in Nat :
           /\ x = Len(slot[r]) /\ u = Cardinality(At("push", r)) /\ o = Cardinality(At("pop", r))
           /\ c = Out /\ n = Cardinality(used) /\ m = Cardinality(In(Under))
        BY Counts
  <1>2. PICK x1, u1, o1, c1, n1, m1 \in Nat :
           /\ x1 = Len(slot'[r]) /\ u1 = Cardinality(At("push", r))' /\ o1 = Cardinality(At("pop", r))'
           /\ c1 = Out' /\ n1 = Cardinality(used') /\ m1 = Cardinality(In(Under))'
        BY CountsNext
  <1>3. PICK k \in Slots, f \in Slots : k = NextAlloc /\ f = NextFree
        BY Counts
  <1>4. NextAlloc' = k /\ NextFree' = f
        BY <1>3 DEF NextAlloc, NextFree, counters
  <1>5. PICK a, b, d, e, g, h \in {0, 1} :
           /\ a = Hit(l, z, "push", r) /\ b = Hit(pc[t], at[t], "pop", r)
           /\ d = Hit(pc[t], at[t], "push", r) /\ e = Hit(l, z, "pop", r)
           /\ g = One(l \in Under) /\ h = One(pc[t] \in Under)
        BY DEF One, Hit
  <1>6. u1 + d = u + a /\ o1 + b = o + e /\ m1 + h = m + g
        <2>0. \A m0, r0 : Cardinality(At(m0, r0))' + Hit(pc[t], at[t], m0, r0)
                               = Cardinality(At(m0, r0)) + Hit(l, z, m0, r0)
              BY ThreadMoves
        <2>1. Cardinality(At("push", r))' + Hit(pc[t], at[t], "push", r)
                  = Cardinality(At("push", r)) + Hit(l, z, "push", r)
              BY <2>0
        <2>2. Cardinality(At("pop", r))' + Hit(pc[t], at[t], "pop", r)
                  = Cardinality(At("pop", r)) + Hit(l, z, "pop", r)
              BY <2>0
        <2>3. Cardinality(In(Under))' + One(pc[t] \in Under) = Cardinality(In(Under)) + One(l \in Under)
              BY ThreadSteps
        <2> QED BY <1>1, <1>2, <1>5, <2>1, <2>2, <2>3
  <1>7. x1 + a + b <= x + d + e /\ n1 + g <= n + h
        BY <1>1, <1>2, <1>5
  <1>8. c = n + m /\ c1 = n1 + m1
        BY <1>1, <1>2 DEF Out
  <1>9. x1 + u1 - o1 <= x + u - o /\ c1 <= c
        BY <1>6, <1>7, <1>8
  <1>10. Found(x1, u1, o1, c1, k, f, r) <= Found(x, u, o, c, k, f, r)
        <2>1. /\ x \in Int /\ u \in Int /\ o \in Int /\ c \in Int
              /\ x1 \in Int /\ u1 \in Int /\ o1 \in Int /\ c1 \in Int
              OBVIOUS
        <2> QED BY <1>9, <2>1, FoundLess
  <1>11. Found(x, u, o, c, k, f, r) <= Limit(r)
        BY <1>1, <1>3 DEF FewInv, Few
  <1>12. Found(x1, u1, o1, c1, k, f, r) <= Limit(r)
        <2>1. /\ Found(x1, u1, o1, c1, k, f, r) \in Int /\ Found(x, u, o, c, k, f, r) \in Int
              /\ Limit(r) \in Int
              <3>1. /\ x \in Int /\ u \in Int /\ o \in Int /\ c \in Int
                    /\ x1 \in Int /\ u1 \in Int /\ o1 \in Int /\ c1 \in Int
                    OBVIOUS
              <3>2. Found(x1, u1, o1, c1, k, f, r) \in Int
                    BY <3>1, FoundType
              <3>3. Found(x, u, o, c, k, f, r) \in Int
                    BY <3>1, FoundType
              <3> QED BY <3>2, <3>3, LimitType
        <2> QED BY <1>10, <1>11, <2>1
  <1> QED BY <1>2, <1>4, <1>12 DEF Few

LEMMA UseMove ==
    ASSUME TypeOK, TypeOK', UseInv, NEW t \in Threads, NEW l,
           pc' = [pc EXCEPT ![t] = l],
           Cardinality(used') + One(l \in Under) + One(l = "push")
               <= Cardinality(used) + One(pc[t] \in Under) + One(pc[t] = "push")
    PROVE  UseInv'
  <1>1. PICK n, m, q \in Nat :
           n = Cardinality(used) /\ m = Cardinality(In(Under)) /\ q = Cardinality(In({"push"}))
        BY Counts
  <1>2. PICK n1, m1, q1 \in Nat :
           n1 = Cardinality(used') /\ m1 = Cardinality(In(Under))' /\ q1 = Cardinality(In({"push"}))'
        BY CountsNext
  <1>3. PICK a, b, d, e \in {0, 1} :
           /\ a = One(l \in Under) /\ b = One(l = "push")
           /\ d = One(pc[t] \in Under) /\ e = One(pc[t] = "push")
        BY DEF One
  <1>4. m1 + d = m + a /\ q1 + e = q + b
        <2>1. \A L : Cardinality(In(L))' + One(pc[t] \in L) = Cardinality(In(L)) + One(l \in L)
              BY ThreadSteps
        <2>2. One(pc[t] \in {"push"}) = e /\ One(l \in {"push"}) = b
              BY <1>3 DEF One
        <2> QED BY <1>1, <1>2, <1>3, <2>1, <2>2
  <1>5. n1 + a + b <= n + d + e
        BY <1>1, <1>2, <1>3
  <1>6. n + m + q <= MaxUse /\ MaxUse \in Int
        BY <1>1, PoolOK DEF UseInv, Out
  <1>7. n1 + m1 + q1 <= MaxUse
        BY <1>4, <1>5, <1>6
  <1> QED BY <1>2, <1>7 DEF UseInv, Out

-----------------------------------------------------------------------------
\* GrowInv holds at the start and after every step.
LEMMA GrowQuiet ==
    ASSUME TypeOK, TypeOK', GrowInv, UNCHANGED <<counters, used, pc, at>>,
           \A r \in Slots : Len(slot'[r]) <= Len(slot[r])
    PROVE  GrowInv'
  <1>1. /\ Out' = Out /\ NextAlloc' = NextAlloc /\ NextFree' = NextFree
        /\ \A m, r : At(m, r)' = At(m, r)
        /\ \A L : In(L)' = In(L)
        BY DEF Out, NextAlloc, NextFree, counters, At, In
  <1>2. UseInv'
        BY <1>1 DEF GrowInv, UseInv
  <1>3. ASSUME NEW r \in Slots PROVE Few(r)'
        <2>1. PICK x \in Int, u \in Int, o \in Int, c \in Int :
                 /\ x = Len(slot[r]) /\ u = Cardinality(At("push", r)) /\ o = Cardinality(At("pop", r))
                 /\ c = Out
              BY Counts
        <2>2. PICK x1 \in Int : x1 = Len(slot'[r])
              BY CountsNext
        <2>3. PICK k \in Slots, f \in Slots : k = NextAlloc /\ f = NextFree
              BY Counts
        <2>4. x1 <= x
              BY <2>1, <2>2
        <2>5. Found(x1, u, o, c, k, f, r) <= Found(x, u, o, c, k, f, r)
              <3>1. x1 + u - o <= x + u - o /\ c <= c
                    BY <2>4
              <3> QED BY <3>1, FoundLess
        <2>6. Found(x, u, o, c, k, f, r) <= Limit(r)
              BY <2>1, <2>3 DEF GrowInv, FewInv, Few
        <2>7. /\ Found(x, u, o, c, k, f, r) \in Int /\ Found(x1, u, o, c, k, f, r) \in Int
              /\ Limit(r) \in Int
              BY FoundType, LimitType
        <2>8. Found(x1, u, o, c, k, f, r) <= Limit(r)
              BY <2>5, <2>6, <2>7
        <2> QED BY <1>1, <2>1, <2>2, <2>3, <2>8 DEF Few
  <1> QED BY <1>2, <1>3 DEF GrowInv, FewInv

\* A step of one thread as in FewMove and UseMove that leaves its slot alone.
LEMMA GrowMove ==
    ASSUME TypeOK, TypeOK', GrowInv, NEW t \in Threads, NEW l,
           pc' = [pc EXCEPT ![t] = l], at' = at, UNCHANGED counters,
           l # "pop", l # "push",
           Cardinality(used') + One(l \in Under) <= Cardinality(used) + One(pc[t] \in Under),
           \A r \in Slots : Len(slot'[r]) + Hit(pc[t], at[t], "pop", r)
                               <= Len(slot[r]) + Hit(pc[t], at[t], "push", r)
    PROVE  GrowInv'
  <1>1. at' = [at EXCEPT ![t] = at[t]]
        BY DEF TypeOK
  <1>2. \A r \in Slots : Hit(l, at[t], "push", r) = 0 /\ Hit(l, at[t], "pop", r) = 0
        BY DEF Hit
  <1>3. ASSUME NEW r \in Slots PROVE Few(r)'
        <2>1. Len(slot'[r]) \in Nat /\ Len(slot[r]) \in Nat
              BY Counts, CountsNext
        <2>2. Hit(pc[t], at[t], "pop", r) \in {0, 1} /\ Hit(pc[t], at[t], "push", r) \in {0, 1}
              BY DEF Hit
        <2>3. Len(slot'[r]) + Hit(pc[t], at[t], "pop", r) <= Len(slot[r]) + Hit(pc[t], at[t], "push", r)
              OBVIOUS
        <2>4. Len(slot'[r]) + Hit(l, at[t], "push", r) + Hit(pc[t], at[t], "pop", r)
                 <= Len(slot[r]) + Hit(pc[t], at[t], "push", r) + Hit(l, at[t], "pop", r)
              BY <1>2, <2>1, <2>2, <2>3
        <2> QED BY <1>1, <2>4, FewMove DEF GrowInv
  <1>4. UseInv'
        <2>1. Cardinality(used) \in Nat /\ Cardinality(used') \in Nat
              BY Counts, CountsNext
        <2>2. /\ One(l \in Under) \in {0, 1} /\ One(pc[t] \in Under) \in {0, 1}
              /\ One(pc[t] = "push") \in {0, 1} /\ One(l = "push") = 0
              BY DEF One
        <2>3. Cardinality(used') + One(l \in Under) + One(l = "push")
                  <= Cardinality(used) + One(pc[t] \in Under) + One(pc[t] = "push")
              BY <2>1, <2>2
        <2> QED BY <2>3, UseMove DEF GrowInv
  <1> QED BY <1>3, <1>4 DEF GrowInv, FewInv

\* The running counters go round the slots, Alloc's upwards and Free's downwards.
LEMMA Wraps == /\ \A k \in Slots : (k + 1) % P = IF k + 1 = P THEN 0 ELSE k + 1
               /\ \A f \in Slots : (f + P - 1) % P = IF f = 0 THEN P - 1 ELSE f - 1
  <1>1. P \in Nat \ {0} /\ Slots = 0..(P - 1)
        BY PoolSize DEF Slots, P
  <1>2. ASSUME NEW n \in Nat \ {0} PROVE /\ \A a \in 0..(n - 1) : a % n = a /\ (a + n) % n = a
        OBVIOUS
  <1>3. ASSUME NEW k \in Slots PROVE (k + 1) % P = IF k + 1 = P THEN 0 ELSE k + 1
        <2>1. CASE k + 1 = P
              <3>1. (0 + P) % P = 0
                    BY <1>1, <1>2
              <3> QED BY <1>1, <2>1, <3>1
        <2>2. CASE k + 1 # P
              <3>1. k + 1 \in 0..(P - 1)
                    BY <1>1, <2>2
              <3> QED BY <1>1, <1>2, <2>2, <3>1
        <2> QED BY <2>1, <2>2
  <1>4. ASSUME NEW f \in Slots PROVE (f + P - 1) % P = IF f = 0 THEN P - 1 ELSE f - 1
        <2>1. CASE f = 0
              <3>1. P - 1 \in 0..(P - 1) /\ f + P - 1 = P - 1
                    BY <1>1, <2>1
              <3> QED BY <1>1, <1>2, <2>1, <3>1
        <2>2. CASE f # 0
              <3>1. f - 1 \in 0..(P - 1) /\ f + P - 1 = (f - 1) + P
                    BY <1>1, <2>2
              <3> QED BY <1>1, <1>2, <2>2, <3>1
        <2> QED BY <2>1, <2>2
  <1> QED BY <1>3, <1>4

\* The threads in a call, by the place where they are.
LEMMA InSplit ==
    ASSUME NEW A, NEW B, A \intersect B = {}
    PROVE  Cardinality(In(A \union B)) = Cardinality(In(A)) + Cardinality(In(B))
  <1>1. /\ In(A) \in SUBSET Threads /\ In(B) \in SUBSET Threads
        /\ In(A \union B) = In(A) \union In(B) /\ In(A) \intersect In(B) = {}
        BY DEF In
  <1>2. IsFiniteSet(In(A)) /\ IsFiniteSet(In(B)) /\ Cardinality(In(A)) \in Nat /\ Cardinality(In(B)) \in Nat
        BY <1>1, ThreadSets
  <1>3. Cardinality(In(A) \intersect In(B)) = 0
        BY <1>1, FS_EmptySet
  <1>4. Cardinality(In(A) \union In(B))
            = Cardinality(In(A)) + Cardinality(In(B)) - Cardinality(In(A) \intersect In(B))
        BY <1>2, FS_Union
  <1>5. PICK x, y, z \in Nat : x = Cardinality(In(A)) /\ y = Cardinality(In(B))
                              /\ z = Cardinality(In(A) \intersect In(B))
        BY <1>2, <1>3
  <1>6. Cardinality(In(A \union B)) = x + y - z
        BY <1>1, <1>4, <1>5
  <1>7. z = 0
        BY <1>3, <1>5
  <1> QED BY <1>5, <1>6, <1>7

LEMMA GrowAlloc ==
    ASSUME TypeOK, TypeOK', GrowInv, NEW t \in Threads, Alloc(t)
    PROVE  GrowInv'
  <1>1. /\ pc[t] = "idle" /\ pc' = [pc EXCEPT ![t] = "pop"] /\ at' = [at EXCEPT ![t] = NextAlloc]
        /\ slot' = slot /\ used' = used /\ g_nAllocBuffer' = NextAlloc
        /\ g_nFreeBuffer' = g_nFreeBuffer /\ InUse < MaxUse
        BY DEF Alloc, Goto
  <1>2. PICK k \in Slots, f \in Slots : k = NextAlloc /\ f = NextFree
        BY Counts
  <1>3. PICK k1 \in Slots : k1 = NextAlloc'
        BY CountsNext
  <1>4. k1 = (IF k + 1 = P THEN 0 ELSE k + 1) /\ NextFree' = f
        BY <1>1, <1>2, <1>3, Wraps DEF NextAlloc, NextFree, P
  <1>5. PICK n, m, q \in Nat :
           n = Cardinality(used) /\ m = Cardinality(In(Under)) /\ q = Cardinality(In({"push"}))
        BY Counts
  <1>6. PICK m1, q1 \in Nat : m1 = Cardinality(In(Under))' /\ q1 = Cardinality(In({"push"}))'
        BY CountsNext
  <1>7. m1 = m + 1 /\ q1 = q
        <2>1. Cardinality(In(Under))' + One(pc[t] \in Under) = Cardinality(In(Under)) + One("pop" \in Under)
              BY <1>1, ThreadSteps
        <2>2. Cardinality(In({"push"}))' + One(pc[t] \in {"push"})
                  = Cardinality(In({"push"})) + One("pop" \in {"push"})
              BY <1>1, ThreadSteps
        <2>3. /\ One(pc[t] \in Under) = 0 /\ One("pop" \in Under) = 1
              /\ One(pc[t] \in {"push"}) = 0 /\ One("pop" \in {"push"}) = 0
              BY <1>1 DEF One, Under
        <2> QED BY <1>5, <1>6, <2>1, <2>2, <2>3
  <1>8. Out = n + m /\ Out' = n + m + 1
        BY <1>1, <1>5, <1>6, <1>7 DEF Out
  <1>9. UseInv'
        <2>1. InUse = n + m + q
              <3>1. InUse = Cardinality(used) + Cardinality(In(Under \union {"push"}))
                    <4>1. {"pop", "new", "stop", "index", "push"} = Under \union {"push"}
                          BY DEF Under
                    <4>2. {v \in Threads : pc[v] \in {"pop", "new", "stop", "index", "push"}}
                             = In(Under \union {"push"})
                          BY <4>1 DEF In
                    <4> QED BY <4>2 DEF InUse
              <3>2. Under \intersect {"push"} = {}
                    BY DEF Under
              <3>3. Cardinality(In(Under \union {"push"})) = Cardinality(In(Under)) + Cardinality(In({"push"}))
                    BY <3>2, InSplit
              <3> QED BY <1>5, <3>1, <3>3
        <2>2. n + m + 1 + q <= MaxUse
              BY <1>1, <2>1, PoolOK
        <2> QED BY <1>6, <1>7, <1>8, <2>2 DEF UseInv
  <1>10. ASSUME NEW r \in Slots PROVE Few(r)'
        <2>1. PICK x \in Int, u \in Int, o \in Int, c \in Int :
                 /\ x = Len(slot[r]) /\ u = Cardinality(At("push", r)) /\ o = Cardinality(At("pop", r))
                 /\ c = Out
              BY Counts
        <2>2. PICK u1 \in Int, o1 \in Int : u1 = Cardinality(At("push", r))' /\ o1 = Cardinality(At("pop", r))'
              BY CountsNext
        <2>3. u1 = u /\ o1 = IF r = k THEN o + 1 ELSE o
              <3>1. \A m0, r0 : Cardinality(At(m0, r0))' + Hit(pc[t], at[t], m0, r0)
                                  = Cardinality(At(m0, r0)) + Hit("pop", k, m0, r0)
                    <4>1. at' = [at EXCEPT ![t] = k] /\ pc' = [pc EXCEPT ![t] = "pop"]
                          BY <1>1, <1>2
                    <4> QED BY <4>1, ThreadMoves
              <3>2. /\ Hit(pc[t], at[t], "push", r) = 0 /\ Hit("pop", k, "push", r) = 0
                    /\ Hit(pc[t], at[t], "pop", r) = 0
                    /\ Hit("pop", k, "pop", r) = IF r = k THEN 1 ELSE 0
                    BY <1>1, <1>2 DEF Hit
              <3>3. /\ Cardinality(At("push", r))' + Hit(pc[t], at[t], "push", r)
                          = Cardinality(At("push", r)) + Hit("pop", k, "push", r)
                    /\ Cardinality(At("pop", r))' + Hit(pc[t], at[t], "pop", r)
                          = Cardinality(At("pop", r)) + Hit("pop", k, "pop", r)
                    BY <3>1
              <3> QED BY <2>1, <2>2, <3>2, <3>3
        <2>6. PICK c1 \in Int : c1 = c + 1 /\ Out' = c1 /\ Len(slot'[r]) = x
              BY <1>1, <1>8, <2>1
        <2>4. Found(x, u, o1, c1, k1, f, r) <= Found(x, u, o, c, k, f, r)
              <3>1. OneMoreAt(k, r, o, o1)
                    BY <2>3 DEF OneMoreAt
              <3>2. Up(k, k1)
                    BY <1>1, <1>4 DEF Up, Slots, P
              <3>3. OneMore(c, c1)
                    BY <2>6 DEF OneMore
              <3> QED BY <3>1, <3>2, <3>3, FoundAlloc
        <2>5. Found(x, u, o, c, k, f, r) <= Limit(r)
              BY <1>2, <2>1 DEF GrowInv, FewInv, Few
        <2>7. Found(x, u, o1, c1, k1, f, r) <= Limit(r)
              <3>1. Found(x, u, o1, c1, k1, f, r) \in Int
                    BY FoundType
              <3>2. Found(x, u, o, c, k, f, r) \in Int
                    BY FoundType
              <3> QED BY <2>4, <2>5, <3>1, <3>2, LimitType
        <2> QED BY <1>3, <1>4, <2>1, <2>2, <2>3, <2>6, <2>7 DEF Few
  <1> QED BY <1>9, <1>10 DEF GrowInv, FewInv

LEMMA GrowIndex ==
    ASSUME TypeOK, TypeOK', GrowInv, NEW t \in Threads, Index(t)
    PROVE  GrowInv'
  <1>1. /\ pc[t] = "index" /\ pc' = [pc EXCEPT ![t] = "push"] /\ at' = [at EXCEPT ![t] = NextFree]
        /\ slot' = slot /\ used' = used /\ g_nFreeBuffer' = NextFree
        /\ g_nAllocBuffer' = g_nAllocBuffer
        BY DEF Index, Goto
  <1>2. PICK k \in Slots, f \in Slots : k = NextAlloc /\ f = NextFree
        BY Counts
  <1>3. PICK f1 \in Slots : f1 = NextFree'
        BY CountsNext
  <1>4. f1 = (IF f = 0 THEN P - 1 ELSE f - 1) /\ NextAlloc' = k
        BY <1>1, <1>2, <1>3, Wraps DEF NextAlloc, NextFree, P
  <1>5. PICK n, m \in Nat : n = Cardinality(used) /\ m = Cardinality(In(Under))
        BY Counts
  <1>6. PICK m1 \in Nat : m1 = Cardinality(In(Under))'
        BY CountsNext
  <1>7. m1 = m - 1
        <2>1. Cardinality(In(Under))' + One(pc[t] \in Under) = Cardinality(In(Under)) + One("push" \in Under)
              BY <1>1, ThreadSteps
        <2>2. One(pc[t] \in Under) = 1 /\ One("push" \in Under) = 0
              BY <1>1 DEF One, Under
        <2> QED BY <1>5, <1>6, <2>1, <2>2
  <1>8. Out = n + m /\ Out' = n + m - 1
        BY <1>1, <1>5, <1>6, <1>7 DEF Out
  <1>9. UseInv'
        <2>1. Cardinality(used) \in Nat /\ used' = used
              BY <1>1, Counts
        <2>2. /\ One("push" \in Under) = 0 /\ One("push" = "push") = 1
              /\ One(pc[t] \in Under) = 1 /\ One(pc[t] = "push") = 0
              BY <1>1 DEF One, Under
        <2>3. Cardinality(used') + One("push" \in Under) + One("push" = "push")
                  <= Cardinality(used) + One(pc[t] \in Under) + One(pc[t] = "push")
              BY <2>1, <2>2
        <2> QED BY <1>1, <2>3, UseMove DEF GrowInv
  <1>10. ASSUME NEW r \in Slots PROVE Few(r)'
        <2>1. PICK x \in Int, u \in Int, o \in Int, c \in Int :
                 /\ x = Len(slot[r]) /\ u = Cardinality(At("push", r)) /\ o = Cardinality(At("pop", r))
                 /\ c = Out
              BY Counts
        <2>2. PICK u1 \in Int, o1 \in Int : u1 = Cardinality(At("push", r))' /\ o1 = Cardinality(At("pop", r))'
              BY CountsNext
        <2>3. o1 = o /\ u1 = IF r = f THEN u + 1 ELSE u
              <3>1. \A m0, r0 : Cardinality(At(m0, r0))' + Hit(pc[t], at[t], m0, r0)
                                  = Cardinality(At(m0, r0)) + Hit("push", f, m0, r0)
                    <4>1. at' = [at EXCEPT ![t] = f] /\ pc' = [pc EXCEPT ![t] = "push"]
                          BY <1>1, <1>2
                    <4> QED BY <4>1, ThreadMoves
              <3>2. /\ Hit(pc[t], at[t], "pop", r) = 0 /\ Hit("push", f, "pop", r) = 0
                    /\ Hit(pc[t], at[t], "push", r) = 0
                    /\ Hit("push", f, "push", r) = IF r = f THEN 1 ELSE 0
                    BY <1>1, <1>2 DEF Hit
              <3>3. /\ Cardinality(At("push", r))' + Hit(pc[t], at[t], "push", r)
                          = Cardinality(At("push", r)) + Hit("push", f, "push", r)
                    /\ Cardinality(At("pop", r))' + Hit(pc[t], at[t], "pop", r)
                          = Cardinality(At("pop", r)) + Hit("push", f, "pop", r)
                    BY <3>1
              <3> QED BY <2>1, <2>2, <3>2, <3>3
        <2>6. PICK c1 \in Int : c1 = c - 1 /\ Out' = c1 /\ Len(slot'[r]) = x
              BY <1>1, <1>8, <2>1
        <2>4. Found(x, u1, o, c1, k, f1, r) <= Found(x, u, o, c, k, f, r)
              <3>1. OneMoreAt(f, r, u, u1)
                    BY <2>3 DEF OneMoreAt
              <3>2. Up(f1, f)
                    <4>1. P \in Nat \ {0} /\ f \in 0..(P - 1)
                          BY PoolSize DEF Slots, P
                    <4>2. f1 = IF f = 0 THEN P - 1 ELSE f - 1
                          BY <1>4
                    <4> QED BY <4>1, <4>2 DEF Up
              <3>3. OneMore(c1, c)
                    BY <2>6 DEF OneMore
              <3> QED BY <3>1, <3>2, <3>3, FoundIndex
        <2>5. Found(x, u, o, c, k, f, r) <= Limit(r)
              BY <1>2, <2>1 DEF GrowInv, FewInv, Few
        <2>7. Found(x, u1, o, c1, k, f1, r) <= Limit(r)
              <3>1. Found(x, u1, o, c1, k, f1, r) \in Int
                    BY FoundType
              <3>2. Found(x, u, o, c, k, f, r) \in Int
                    BY FoundType
              <3> QED BY <2>4, <2>5, <3>1, <3>2, LimitType
        <2> QED BY <1>3, <1>4, <2>1, <2>2, <2>3, <2>6, <2>7 DEF Few
  <1> QED BY <1>9, <1>10 DEF GrowInv, FewInv

LEMMA GrowPop ==
    ASSUME IInv, TypeOK', GrowInv, NEW t \in Threads, Pop(t)
    PROVE  GrowInv'
  <1>1. /\ pc[t] = "pop" /\ at' = at /\ UNCHANGED counters /\ at[t] \in Slots
        /\ slot[at[t]] \in Seq(Buffers) /\ TypeOK
        BY DEF Pop, IInv, TypeOK
  <1>2. One(pc[t] \in Under) = 1 /\ \A r \in Slots : Hit(pc[t], at[t], "push", r) = 0
        BY <1>1 DEF One, Under, Hit
  <1>3. CASE slot[at[t]] # <<>>
        <2>1. PICK h \in Buffers, q \in Seq(Buffers) :
                 /\ h = Head(slot[at[t]]) /\ q = Tail(slot[at[t]]) /\ Len(q) = Len(slot[at[t]]) - 1
                 /\ h = slot[at[t]][1] /\ 1 \in 1..Len(slot[at[t]])
              BY <1>1, <1>3, TailOf
        <2>2. /\ used' = used \union {h} /\ slot' = [slot EXCEPT ![at[t]] = q]
              /\ pc' = [pc EXCEPT ![t] = "idle"]
              BY <1>3, <2>1 DEF Pop, Goto
        <2>3. h \notin used
              BY <1>1, <2>1 DEF IInv, Apart, NotPooled
        <2>4. Cardinality(used') = Cardinality(used) + 1 /\ Cardinality(used) \in Nat
              BY <1>1, <2>2, <2>3, Counts, FS_AddElement
        <2>5. One("idle" \in Under) = 0
              BY DEF One, Under
        <2>6. Cardinality(used') + One("idle" \in Under) <= Cardinality(used) + One(pc[t] \in Under)
              BY <1>2, <2>4, <2>5
        <2>7. ASSUME NEW r \in Slots
              PROVE  Len(slot'[r]) + Hit(pc[t], at[t], "pop", r) <= Len(slot[r]) + Hit(pc[t], at[t], "push", r)
              <3>1. PICK x, y \in Nat : x = Len(slot[r]) /\ y = Len(slot'[r])
                    BY <1>1, Counts, CountsNext
              <3>2. y + Hit(pc[t], at[t], "pop", r) <= x
                    <4>1. CASE r = at[t]
                          <5>1. slot'[r] = q
                                BY <1>1, <2>2, <4>1 DEF TypeOK
                          <5>2. y = x - 1
                                BY <2>1, <3>1, <4>1, <5>1
                          <5>3. Hit(pc[t], at[t], "pop", r) = 1
                                BY <1>1, <4>1 DEF Hit
                          <5> QED BY <5>2, <5>3
                    <4>2. CASE r # at[t]
                          <5>1. slot'[r] = slot[r]
                                BY <1>1, <2>2, <4>2 DEF TypeOK
                          <5>2. Hit(pc[t], at[t], "pop", r) = 0
                                BY <4>2 DEF Hit
                          <5> QED BY <3>1, <5>1, <5>2
                    <4> QED BY <4>1, <4>2
              <3> QED BY <1>2, <3>1, <3>2
        <2> QED BY <1>1, <2>2, <2>6, <2>7, GrowMove
  <1>4. CASE slot[at[t]] = <<>>
        <2>1. used' = used /\ slot' = slot /\ pc' = [pc EXCEPT ![t] = "new"]
              BY <1>4 DEF Pop, Goto
        <2>2. at' = [at EXCEPT ![t] = at[t]]
              BY <1>1 DEF TypeOK
        <2>3. Cardinality(used) \in Nat /\ One("new" \in Under) = 1
              BY <1>1, Counts DEF One, Under
        <2>4. UseInv'
              <3>1. One("new" = "push") = 0 /\ One(pc[t] = "push") = 0
                    BY <1>1 DEF One
              <3>2. Cardinality(used') + One("new" \in Under) + One("new" = "push")
                       <= Cardinality(used) + One(pc[t] \in Under) + One(pc[t] = "push")
                    BY <1>2, <2>1, <2>3, <3>1
              <3> QED BY <1>1, <2>1, <3>2, UseMove DEF GrowInv
        <2>5. ASSUME NEW r \in Slots, r # at[t] PROVE Few(r)'
              <3>1. Len(slot'[r]) = Len(slot[r]) /\ Len(slot[r]) \in Nat
                    BY <1>1, <2>1, Counts
              <3>2. /\ Hit("new", at[t], "push", r) = 0 /\ Hit("new", at[t], "pop", r) = 0
                    /\ Hit(pc[t], at[t], "pop", r) = 0
                    BY <2>5 DEF Hit
              <3>3. Len(slot'[r]) + Hit("new", at[t], "push", r) + Hit(pc[t], at[t], "pop", r)
                       <= Len(slot[r]) + Hit(pc[t], at[t], "push", r) + Hit("new", at[t], "pop", r)
                    BY <1>2, <3>1, <3>2
              <3>4. Cardinality(used') + One("new" \in Under) <= Cardinality(used) + One(pc[t] \in Under)
                    BY <1>2, <2>1, <2>3
              <3> QED BY <1>1, <2>1, <2>2, <3>3, <3>4, FewMove DEF GrowInv
        <2>6. Few(at[t])'
              <3>1. PICK r \in Slots : r = at[t]
                    BY <1>1
              <3>2. PICK k \in Slots, f \in Slots : k = NextAlloc' /\ f = NextFree'
                    BY CountsNext
              <3>3. PICK u1, o1, c1 \in Nat : /\ u1 = Cardinality(At("push", r))' /\ c1 = Out'
                                             /\ o1 = Cardinality(At("pop", r))'
                    BY CountsNext
              <3>4. c1 + u1 <= MaxUse
                    <4>1. PICK p1 \in Nat : p1 = Cardinality(In({"push"}))'
                          BY CountsNext
                    <4>2. c1 + p1 <= MaxUse
                          BY <2>4, <3>3, <4>1 DEF UseInv
                    <4>3. u1 <= p1
                          <5>1. PICK A, B \in SUBSET Threads : A = At("push", r)' /\ B = In({"push"})'
                                BY DEF At, In
                          <5>2. A \subseteq B
                                BY <5>1 DEF At, In
                          <5>3. Cardinality(A) <= Cardinality(B)
                                BY <5>2, ThreadSets, FS_Subset
                          <5> QED BY <3>3, <4>1, <5>1, <5>3
                    <4> QED BY <4>2, <4>3, PoolOK
              <3>5. u1 <= Cardinality(Threads) - 1
                    <4>1. PICK A \in SUBSET Threads : A = At("push", r)'
                          BY DEF At
                    <4>2. t \notin A
                          BY <1>1, <2>1, <4>1 DEF At, TypeOK
                    <4>3. A \subseteq Threads \ {t} /\ IsFiniteSet(Threads \ {t})
                          BY <4>2, PoolOK, FS_RemoveElement
                    <4>4. Cardinality(A) <= Cardinality(Threads \ {t})
                          BY <4>3, FS_Subset
                    <4>5. Cardinality(Threads \ {t}) = Cardinality(Threads) - 1
                          BY PoolOK, FS_RemoveElement
                    <4> QED BY <3>3, <4>1, <4>4, <4>5
              <3>6. Found(0, u1, o1, c1, k, f, r) <= Limit(r)
                    <4>1. c1 \in Int
                          OBVIOUS
                    <4> QED BY <3>4, <3>5, <4>1, FoundEmpty
              <3>7. Len(slot'[r]) = 0
                    BY <1>4, <2>1, <3>1
              <3>8. Few(r)'
                    BY <3>2, <3>3, <3>6, <3>7 DEF Few
              <3>9. at'[t] = r
                    BY <1>1, <3>1
              <3> QED BY <3>8, <3>9
        <2> QED BY <1>1, <2>4, <2>5, <2>6 DEF GrowInv, FewInv
  <1> QED BY <1>3, <1>4

\* New, Free, CheckStop and Push.
LEMMA GrowOthers ==
    ASSUME IInv, TypeOK', GrowInv, NEW t \in Threads,
           New(t) \/ (\E b \in Buffers : Free(t, b)) \/ CheckStop(t) \/ Push(t)
    PROVE  GrowInv'
  <1>1. TypeOK /\ at' = at /\ UNCHANGED counters /\ Cardinality(used) \in Nat /\ IsFiniteSet(used)
        BY Counts DEF New, Free, CheckStop, Push, IInv
  <1>2. ASSUME slot' = slot, pc[t] # "pop"
        PROVE  \A r \in Slots : Len(slot'[r]) + Hit(pc[t], at[t], "pop", r)
                                   <= Len(slot[r]) + Hit(pc[t], at[t], "push", r)
        <2> SUFFICES ASSUME NEW r \in Slots
                     PROVE  Len(slot'[r]) + Hit(pc[t], at[t], "pop", r)
                               <= Len(slot[r]) + Hit(pc[t], at[t], "push", r)
            OBVIOUS
        <2>1. PICK x \in Nat : x = Len(slot[r]) /\ x = Len(slot'[r])
              BY <1>1, <1>2, Counts
        <2>2. Hit(pc[t], at[t], "pop", r) = 0 /\ Hit(pc[t], at[t], "push", r) \in {0, 1}
              BY <1>2 DEF Hit
        <2> QED BY <2>1, <2>2
  <1>3. CASE New(t)
        <2>1. PICK b \in Buffers \ Live : used' = used \union {b}
              BY <1>3 DEF New
        <2>2. pc[t] = "new" /\ pc' = [pc EXCEPT ![t] = "idle"] /\ slot' = slot
              BY <1>3 DEF New, Goto
        <2>3. Cardinality(used') = Cardinality(used) + 1
              BY <1>1, <2>1, FreshIsApart, FS_AddElement
        <2>4. One("idle" \in Under) = 0 /\ One(pc[t] \in Under) = 1
              BY <2>2 DEF One, Under
        <2>5. Cardinality(used') + One("idle" \in Under) <= Cardinality(used) + One(pc[t] \in Under)
              BY <1>1, <2>3, <2>4
        <2> QED BY <1>1, <1>2, <2>2, <2>5, GrowMove
  <1>4. ASSUME NEW b \in Buffers, Free(t, b) PROVE GrowInv'
        <2>1. /\ pc[t] = "idle" /\ pc' = [pc EXCEPT ![t] = "stop"] /\ slot' = slot
              /\ b \in used /\ used' = used \ {b}
              BY <1>4 DEF Free, Goto
        <2>2. Cardinality(used') = Cardinality(used) - 1
              BY <1>1, <2>1, FS_RemoveElement
        <2>3. One("stop" \in Under) = 1 /\ One(pc[t] \in Under) = 0
              BY <2>1 DEF One, Under
        <2>4. Cardinality(used') + One("stop" \in Under) <= Cardinality(used) + One(pc[t] \in Under)
              BY <1>1, <2>2, <2>3
        <2> QED BY <1>1, <1>2, <2>1, <2>4, GrowMove
  <1>5. CASE CheckStop(t)
        <2>1. PICK l \in {"idle", "index"} : pc' = [pc EXCEPT ![t] = l]
              BY <1>5 DEF CheckStop, Goto
        <2>2. pc[t] = "stop" /\ slot' = slot /\ used' = used
              BY <1>5 DEF CheckStop
        <2>3. One(l \in Under) \in {0, 1} /\ One(pc[t] \in Under) = 1
              BY <2>2 DEF One, Under
        <2>4. Cardinality(used') + One(l \in Under) <= Cardinality(used) + One(pc[t] \in Under)
              BY <1>1, <2>2, <2>3
        <2> QED BY <1>1, <1>2, <2>1, <2>2, <2>4, GrowMove
  <1>6. CASE Push(t)
        <2>1. /\ pc[t] = "push" /\ pc' = [pc EXCEPT ![t] = "idle"] /\ used' = used
              /\ slot' = [slot EXCEPT ![at[t]] = <<buf[t]>> \o slot[at[t]]]
              /\ at[t] \in Slots /\ slot[at[t]] \in Seq(Buffers) /\ buf[t] \in Buffers
              BY <1>1, <1>6 DEF Push, Goto, TypeOK, IInv, HandsFull
        <2>2. PICK q : q = <<buf[t]>> \o slot[at[t]] /\ Len(q) = Len(slot[at[t]]) + 1
              <3>1. Len(<<buf[t]>> \o slot[at[t]]) = Len(slot[at[t]]) + 1
                    BY <2>1, FrontOf
              <3> QED BY <3>1
        <2>3. ASSUME NEW r \in Slots
              PROVE  Len(slot'[r]) + Hit(pc[t], at[t], "pop", r) <= Len(slot[r]) + Hit(pc[t], at[t], "push", r)
              <3>1. PICK x, y \in Nat : x = Len(slot[r]) /\ y = Len(slot'[r])
                    BY <1>1, Counts, CountsNext
              <3>2. Hit(pc[t], at[t], "pop", r) = 0
                    BY <2>1 DEF Hit
              <3>3. y <= x + Hit(pc[t], at[t], "push", r)
                    <4>1. CASE r = at[t]
                          <5>1. slot'[r] = q
                                BY <1>1, <2>1, <2>2, <4>1 DEF TypeOK
                          <5>2. y = x + 1
                                BY <2>2, <3>1, <4>1, <5>1
                          <5>3. Hit(pc[t], at[t], "push", r) = 1
                                BY <2>1, <4>1 DEF Hit
                          <5> QED BY <5>2, <5>3
                    <4>2. CASE r # at[t]
                          <5>1. slot'[r] = slot[r]
                                BY <1>1, <2>1, <4>2 DEF TypeOK
                          <5>2. Hit(pc[t], at[t], "push", r) = 0
                                BY <4>2 DEF Hit
                          <5> QED BY <3>1, <5>1, <5>2
                    <4> QED BY <4>1, <4>2
              <3> QED BY <3>1, <3>2, <3>3
        <2>4. One("idle" \in Under) = 0 /\ One(pc[t] \in Under) = 0
              BY <2>1 DEF One, Under
        <2>5. Cardinality(used') + One("idle" \in Under) <= Cardinality(used) + One(pc[t] \in Under)
              BY <1>1, <2>1, <2>4
        <2> QED BY <1>1, <2>1, <2>3, <2>5, GrowMove
  <1> QED BY <1>3, <1>4, <1>5, <1>6

LEMMA GrowStep == IInv /\ TypeOK' /\ GrowInv /\ [Next]_vars => GrowInv'
  <1> SUFFICES ASSUME IInv, TypeOK', GrowInv, [Next]_vars PROVE GrowInv'
      OBVIOUS
  <1>1. TypeOK
        BY DEF IInv
  <1>2. ASSUME NEW t \in Threads, Alloc(t) PROVE GrowInv'
        BY <1>1, <1>2, GrowAlloc
  <1>3. ASSUME NEW t \in Threads, Pop(t) PROVE GrowInv'
        BY <1>3, GrowPop
  <1>4. ASSUME NEW t \in Threads, Index(t) PROVE GrowInv'
        BY <1>1, <1>4, GrowIndex
  <1>5. ASSUME NEW t \in Threads, New(t) \/ CheckStop(t) \/ Push(t) \/ (\E b \in Buffers : Free(t, b))
        PROVE  GrowInv'
        BY <1>5, GrowOthers
  <1>6. CASE StopPool \/ UNCHANGED vars
        <2>1. UNCHANGED <<counters, used, pc, at>> /\ slot' = slot
              BY <1>6 DEF StopPool, vars
        <2>2. \A r \in Slots : Len(slot'[r]) <= Len(slot[r])
              BY <1>1, <2>1, Counts
        <2> QED BY <1>1, <2>1, <2>2, GrowQuiet
  <1>7. ASSUME NEW s \in Slots, Drain(s) PROVE GrowInv'
        <2>1. UNCHANGED <<counters, used, pc, at>> /\ slot' = [slot EXCEPT ![s] = <<>>]
              BY <1>7 DEF Drain
        <2>2. ASSUME NEW r \in Slots PROVE Len(slot'[r]) <= Len(slot[r])
              <3>1. slot'[r] = <<>> \/ slot'[r] = slot[r]
                    BY <1>1, <2>1 DEF TypeOK
              <3>2. Len(slot[r]) \in Nat
                    BY <1>1, Counts
              <3>3. Len(<<>>) = 0
                    OBVIOUS
              <3> QED BY <3>1, <3>2, <3>3
        <2> QED BY <1>1, <2>1, <2>2, GrowQuiet
  <1> QED BY <1>2, <1>3, <1>4, <1>5, <1>6, <1>7 DEF Next

LEMMA GrowInit == Init => GrowInv
  <1> SUFFICES ASSUME Init PROVE GrowInv
      OBVIOUS
  <1>1. TypeOK /\ used = {} /\ g_nAllocBuffer = P - 1 /\ g_nFreeBuffer = 0
        BY TypeInit DEF Init, P
  <1>2. P \in Nat \ {0}
        BY PoolSize
  <1>3. NextAlloc = 0 /\ NextFree = P - 1
        <2>1. P - 1 \in Slots /\ 0 \in Slots
              BY <1>2 DEF Slots, P
        <2>2. PICK k, f \in Slots : k = P - 1 /\ f = 0
              BY <2>1
        <2>3. (k + 1) % P = (IF k + 1 = P THEN 0 ELSE k + 1) /\ (f + P - 1) % P = IF f = 0 THEN P - 1 ELSE f - 1
              BY Wraps
        <2>4. (k + 1) % P = 0 /\ (f + P - 1) % P = P - 1
              BY <1>2, <2>2, <2>3
        <2>5. g_nAllocBuffer = k /\ g_nFreeBuffer = f
              BY <1>1, <2>2
        <2> QED BY <2>4, <2>5 DEF NextAlloc, NextFree, P
  <1>4. /\ \A m, r : m # "idle" => At(m, r) = {}
        /\ In(Under) = {} /\ In({"push"}) = {}
        BY DEF Init, At, In, Under
  <1>5. Cardinality({}) = 0
        BY FS_EmptySet
  <1>6. Out = 0
        BY <1>1, <1>4, <1>5 DEF Out
  <1>7. UseInv
        BY <1>4, <1>5, <1>6, PoolOK DEF UseInv
  <1>8. ASSUME NEW r \in Slots PROVE Few(r)
        <2>1. /\ Len(slot[r]) = 0 /\ Cardinality(At("push", r)) = 0 /\ Cardinality(At("pop", r)) = 0
              BY <1>4, <1>5 DEF Init
        <2>2. PICK n \in Nat : n = Cardinality(Threads) /\ n >= 1
              <3>1. Cardinality(Threads) \in Nat /\ Cardinality(Threads) # 0
                    BY PoolOK, FS_CardinalityType, FS_EmptySet
              <3> QED BY <3>1
        <2>3. NextAlloc \in Slots /\ NextFree \in Slots
              BY <1>1, NextSlots
        <2>4. Found(0, 0, 0, 0, NextAlloc, NextFree, r) <= Limit(r)
              <3>1. 0 <= n - 1 /\ 0 + 0 <= MaxUse /\ 0 \in Nat /\ 0 \in Int
                    BY <2>2, PoolOK
              <3> QED BY <2>2, <2>3, <3>1, FoundEmpty
        <2> QED BY <1>6, <2>1, <2>4 DEF Few
  <1> QED BY <1>7, <1>8 DEF GrowInv, FewInv

-----------------------------------------------------------------------------
\* From the slots to the pool: the bounds are added up slot by slot.
Listed(r) == {b \in Buffers : \E i \in 1..Len(slot[r]) : slot[r][i] = b}
Lists(n) == {b \in Buffers : \E r \in Slots : r < n /\ b \in Listed(r)}
AtBelow(l, n) == {t \in Threads : pc[t] = l /\ at[t] < n}

Weight(n) == Cardinality(Lists(n)) + Cardinality(AtBelow("push", n)) - Cardinality(AtBelow("pop", n))
Shift(n) == (IF n < NextAlloc THEN n ELSE NextAlloc) - (IF n - 1 > NextFree THEN n - 1 - NextFree ELSE 0)

Spare == MaxUse + (Cardinality(Threads) - 1) * (P - 1)
Ahead == Out - NextAlloc + (P - 1 - NextFree)

\* The sum of FewInv over the slots below n.
SumUpTo(n) == P * (Weight(n) + Shift(n)) + n * Ahead <= n * Spare + n * (2 * P - 1 - n)

\* A set that each element of a finite set gives at most one element to.
LEMMA Covered ==
    ASSUME NEW S, IsFiniteSet(S), NEW T, NEW e \in [S -> T], \A y \in T : \E x \in S : e[x] = y
    PROVE  IsFiniteSet(T) /\ Cardinality(T) <= Cardinality(S)
  <1>1. e \in Surjection(S, T)
        BY DEF Surjection
  <1> QED BY <1>1, FS_Surjection

LEMMA ListSize == ASSUME TypeOK, NEW r \in Slots
                  PROVE  IsFiniteSet(Listed(r)) /\ Cardinality(Listed(r)) <= Len(slot[r])
  <1>1. slot[r] \in Seq(Buffers) /\ Len(slot[r]) \in Nat
        BY Counts DEF TypeOK
  <1>2. PICK n \in Nat : n = Len(slot[r])
        BY <1>1
  <1>3. IsFiniteSet(1..n) /\ Cardinality(1..n) = n
        BY FS_Interval
  <1> DEFINE e == [i \in 1..n |-> slot[r][i]]
  <1>4. e \in [1..n -> Listed(r)]
        BY <1>1, <1>2, ElementOfSeq DEF Listed
  <1>5. \A b \in Listed(r) : \E i \in 1..n : e[i] = b
        BY <1>2 DEF Listed
  <1> HIDE DEF e
  <1> QED BY <1>2, <1>3, <1>4, <1>5, Covered

LEMMA ListsGrow == ASSUME TypeOK, NEW n \in Slots
                   PROVE  /\ Cardinality(Lists(n)) \in Nat /\ Cardinality(Lists(n + 1)) \in Nat
                          /\ Cardinality(Lists(n + 1)) <= Cardinality(Lists(n)) + Len(slot[n])
  <1>1. Slots \subseteq Nat
        BY DEF Slots
  <1>2. Lists(n + 1) = Lists(n) \union Listed(n)
        <2>1. \A r \in Slots : r < n + 1 <=> r < n \/ r = n
              BY <1>1
        <2>2. Listed(n) \subseteq Buffers
              BY DEF Listed
        <2> QED BY <2>1, <2>2 DEF Lists
  <1>3. /\ IsFiniteSet(Lists(n)) /\ IsFiniteSet(Listed(n)) /\ IsFiniteSet(Lists(n + 1))
        /\ IsFiniteSet(Lists(n) \intersect Listed(n))
        <2>1. /\ Lists(n) \subseteq Buffers /\ Listed(n) \subseteq Buffers /\ Lists(n + 1) \subseteq Buffers
              /\ Lists(n) \intersect Listed(n) \subseteq Buffers
              BY DEF Lists, Listed
        <2> QED BY <2>1, PoolOK, FS_Subset
  <1>4. PICK x, x1, y, z, l \in Nat :
           /\ x = Cardinality(Lists(n)) /\ x1 = Cardinality(Lists(n + 1)) /\ y = Cardinality(Listed(n))
           /\ z = Cardinality(Lists(n) \intersect Listed(n)) /\ l = Len(slot[n])
        BY <1>3, FS_CardinalityType, Counts
  <1>5. Cardinality(Lists(n) \union Listed(n))
            = Cardinality(Lists(n)) + Cardinality(Listed(n)) - Cardinality(Lists(n) \intersect Listed(n))
        BY <1>3, FS_Union
  <1>6. x1 = x + y - z
        BY <1>2, <1>4, <1>5
  <1>7. y <= l
        BY <1>4, ListSize
  <1>8. x1 <= x + l
        BY <1>6, <1>7
  <1> QED BY <1>4, <1>8

LEMMA PlacesGrow ==
    ASSUME TypeOK, NEW n \in Slots, NEW l
    PROVE  /\ Cardinality(AtBelow(l, n)) \in Nat /\ Cardinality(AtBelow(l, n + 1)) \in Nat
           /\ Cardinality(AtBelow(l, n + 1)) = Cardinality(AtBelow(l, n)) + Cardinality(At(l, n))
  <1>1. Slots \subseteq Nat /\ \A t \in Threads : at[t] \in Slots
        BY DEF Slots, TypeOK
  <1>2. PICK A, B, C \in SUBSET Threads : A = AtBelow(l, n) /\ B = At(l, n) /\ C = AtBelow(l, n + 1)
        BY DEF AtBelow, At
  <1>3. \A t \in Threads : at[t] < n + 1 <=> at[t] < n \/ at[t] = n
        <2>1. \A k \in Nat : k < n + 1 <=> k < n \/ k = n
              BY <1>1
        <2>2. \A t \in Threads : at[t] \in Nat
              BY <1>1
        <2> QED BY <2>1, <2>2
  <1>4. C = A \union B
        BY <1>2, <1>3 DEF AtBelow, At
  <1>5. A \intersect B = {}
        BY <1>1, <1>2 DEF AtBelow, At
  <1>6. IsFiniteSet(A) /\ IsFiniteSet(B)
        BY ThreadSets
  <1>7. PICK x, y, z \in Nat : x = Cardinality(A) /\ y = Cardinality(B) /\ z = Cardinality(C)
        BY ThreadSets
  <1>8. z = x + y - 0
        BY <1>4, <1>5, <1>6, <1>7, FS_Union, FS_EmptySet
  <1> QED BY <1>2, <1>7, <1>8

\* Adding the bound of one slot.
LEMMA SumOfTwo ==
    ASSUME NEW w \in Int, NEW w1 \in Int, NEW y \in Int, NEW n \in Int, NEW d \in Int, NEW c \in Int,
           w1 <= w + y,
           P * w + n * d <= n * c + n * (2 * P - 1 - n), P * y + d <= c + 2 * (P - 1 - n)
    PROVE  P * w1 + (n + 1) * d <= (n + 1) * c + (n + 1) * (2 * P - 1 - (n + 1))
  <1>1. P \in Int
        BY PoolSize
  <1>2. P * w1 <= P * (w + y) /\ P * (w + y) = P * w + P * y
        BY Scale
  <1>3. (n + 1) * d = n * d + d /\ (n + 1) * c = n * c + c
        OBVIOUS
  <1>4. (n + 1) * (2 * P - 1 - (n + 1)) = n * (2 * P - 1 - n) + 2 * (P - 1 - n)
        BY <1>1
  <1>5. PICK pw, pw1, py, nd, nc, nn, mm \in Int :
           /\ pw = P * w /\ pw1 = P * w1 /\ py = P * y /\ nd = n * d /\ nc = n * c
           /\ nn = n * (2 * P - 1 - n) /\ mm = (n + 1) * (2 * P - 1 - (n + 1))
        BY <1>1, Scale
  <1>6. PICK l \in Int : l = 2 * (P - 1 - n)
        BY <1>1
  <1>7. pw1 <= pw + py /\ mm = nn + l /\ pw + nd <= nc + nn /\ py + d <= c + l
        BY <1>2, <1>4, <1>5, <1>6
  <1>8. pw1 + (nd + d) <= (nc + c) + mm
        BY <1>7
  <1> QED BY <1>3, <1>5, <1>8

LEMMA SumStep == ASSUME TypeOK, FewInv, NEW n \in Slots, SumUpTo(n)
                 PROVE  SumUpTo(n + 1)
  <1>1. PICK k \in Slots, f \in Slots : k = NextAlloc /\ f = NextFree
        BY Counts
  <1>2. /\ n \in 0..(P - 1) /\ k \in 0..(P - 1) /\ f \in 0..(P - 1) /\ P \in Nat \ {0}
        BY PoolSize DEF Slots, P
  <1>3. PICK x, u, o, c \in Nat :
           /\ x = Len(slot[n]) /\ u = Cardinality(At("push", n)) /\ o = Cardinality(At("pop", n)) /\ c = Out
        BY Counts
  <1>4. PICK v, v1, p, p1, q, q1 \in Nat :
           /\ v = Cardinality(Lists(n)) /\ v1 = Cardinality(Lists(n + 1))
           /\ p = Cardinality(AtBelow("push", n)) /\ p1 = Cardinality(AtBelow("push", n + 1))
           /\ q = Cardinality(AtBelow("pop", n)) /\ q1 = Cardinality(AtBelow("pop", n + 1))
        BY ListsGrow, PlacesGrow
  <1>5. v1 <= v + x /\ p1 = p + u /\ q1 = q + o
        <2>1. v1 <= v + x
              BY <1>3, <1>4, ListsGrow
        <2>2. p1 = p + u
              BY <1>3, <1>4, PlacesGrow
        <2>3. q1 = q + o
              BY <1>3, <1>4, PlacesGrow
        <2> QED BY <2>1, <2>2, <2>3
  <1>6. PICK a, b \in {0, 1} : a = (IF n < k THEN 1 ELSE 0) /\ b = (IF n > f THEN 1 ELSE 0)
        OBVIOUS
  <1>7. PICK h, h1 \in Int : h = Shift(n) /\ h1 = Shift(n + 1)
        <2>1. k \in Int /\ f \in Int /\ n \in Int
              BY <1>2
        <2>2. Shift(n) \in Int /\ Shift(n + 1) \in Int
              BY <1>1, <2>1 DEF Shift
        <2> QED BY <2>2
  <1>8. h1 = h + a - b
        BY <1>1, <1>2, <1>6, <1>7 DEF Shift
  <1>9. PICK m \in Int, d \in Int : m = Spare /\ d = Ahead /\ d = c - k + (P - 1 - f)
        <2>1. Cardinality(Threads) \in Int /\ MaxUse \in Int
              BY PoolOK, FS_CardinalityType
        <2>2. Ahead = c - k + (P - 1 - f)
              BY <1>1, <1>3 DEF Ahead
        <2>3. c - k + (P - 1 - f) \in Int
              BY <1>2
        <2>4. Spare \in Int
              BY <1>2, <2>1 DEF Spare
        <2> QED BY <2>2, <2>3, <2>4
  <1>10. P * (x + u - o + a - b) + d <= m + 2 * (P - 1 - n)
        <2>1. Found(x, u, o, c, k, f, n) <= Limit(n)
              BY <1>1, <1>3 DEF FewInv, Few
        <2>2. Limit(n) = m + 2 * (P - 1 - n)
              BY <1>9 DEF Limit, Spare
        <2>3. Found(x, u, o, c, k, f, n) = P * (x + u - o + a - b) + c - k + (P - 1 - f)
              BY <1>6 DEF Found
        <2>4. PICK y \in Int : y = P * (x + u - o + a - b)
              <3>1. x + u - o + a - b \in Int
                    BY <1>6
              <3> QED BY <3>1, Scale
        <2> QED BY <1>2, <1>9, <2>1, <2>2, <2>3, <2>4
  <1>11. PICK w, w1, y \in Int : /\ w = v + p - q + h /\ w1 = v1 + p1 - q1 + h1
                                /\ y = x + u - o + a - b
        BY <1>6
  <1>12. w1 <= w + y
        BY <1>5, <1>6, <1>8, <1>11
  <1>13. P * w + n * d <= n * m + n * (2 * P - 1 - n)
        BY <1>4, <1>7, <1>9, <1>11 DEF SumUpTo, Weight
  <1>14. P * y + d <= m + 2 * (P - 1 - n)
        BY <1>10, <1>11
  <1>15. P * w1 + (n + 1) * d <= (n + 1) * m + (n + 1) * (2 * P - 1 - (n + 1))
        <2>1. n \in Int
              BY <1>2
        <2> QED BY <1>12, <1>13, <1>14, <2>1, SumOfTwo
  <1> QED BY <1>4, <1>7, <1>9, <1>11, <1>15 DEF SumUpTo, Weight

LEMMA SumAll == ASSUME TypeOK, FewInv PROVE SumUpTo(P)
  <1> DEFINE R == OpToRel(<, Nat)
             Bad == {n \in 0..P : ~SumUpTo(n)}
  <1>1. P \in Nat \ {0} /\ Slots = 0..(P - 1)
        BY PoolSize DEF Slots, P
  <1>2. SumUpTo(0)
        <2>1. Lists(0) = {} /\ AtBelow("push", 0) = {} /\ AtBelow("pop", 0) = {}
              <3>1. \A r \in Slots : ~(r < 0)
                    BY <1>1
              <3>2. \A t \in Threads : at[t] \in Slots
                    BY DEF TypeOK
              <3> QED BY <3>1, <3>2 DEF Lists, AtBelow
        <2>2. Weight(0) = 0
              BY <2>1, FS_EmptySet DEF Weight
        <2>3. Shift(0) = 0
              <3>1. NextAlloc \in Slots /\ NextFree \in Slots
                    BY Counts
              <3> QED BY <1>1, <3>1 DEF Shift
        <2>4. Ahead \in Int /\ Spare \in Int
              <3>1. /\ Cardinality(Threads) \in Int /\ MaxUse \in Int /\ Out \in Int
                    /\ NextAlloc \in Slots /\ NextFree \in Slots
                    BY PoolOK, FS_CardinalityType, Counts
              <3> QED BY <1>1, <3>1 DEF Ahead, Spare
        <2>5. P * (0 + 0) = 0 /\ 0 * Ahead = 0 /\ 0 * Spare = 0 /\ 0 * (2 * P - 1 - 0) = 0
              BY <1>1, <2>4
        <2> QED BY <2>2, <2>3, <2>5 DEF SumUpTo
  <1>3. ASSUME Bad # {} PROVE FALSE
        <2>1. Bad \subseteq Nat
              BY <1>1
        <2>2. IsWellFoundedOn(R, Nat)
              BY NatLessThanWellFounded, Zenon
        <2>3. PICK m \in Bad : \A n \in Bad : ~(<<n, m>> \in R)
              <3> HIDE DEF R, Bad
              <3> QED BY <1>3, <2>1, <2>2, WFMin
        <2>4. m \in 0..P /\ ~SumUpTo(m) /\ m # 0
              <3>1. m \in 0..P /\ ~SumUpTo(m)
                    OBVIOUS
              <3> QED BY <1>2, <3>1
        <2>5. m - 1 \in Slots /\ m - 1 \in 0..P /\ (m - 1) + 1 = m /\ m \in Nat /\ m - 1 \in Nat /\ m - 1 < m
              BY <1>1, <2>4
        <2>6. <<m - 1, m>> \in R
              BY <2>5, Zenon DEF OpToRel
        <2>7. SumUpTo(m - 1)
              <3>1. m - 1 \notin Bad
                    <4> HIDE DEF R, Bad
                    <4> QED BY <2>3, <2>6
              <3> QED BY <2>5, <3>1
        <2>8. SumUpTo((m - 1) + 1)
              BY <2>5, <2>7, SumStep
        <2> QED BY <2>4, <2>5, <2>8
  <1>4. P \in 0..P
        BY <1>1
  <1> QED BY <1>3, <1>4

\* All slots together.
LEMMA PoolBounded ==
    ASSUME TypeOK, FewInv
    PROVE  Cardinality(Lists(P)) + Cardinality(In({"push"})) - Cardinality(In({"pop"})) + Out
              <= MaxUse + (P - 1) * Cardinality(Threads)
  <1>1. PICK k \in Slots, f \in Slots : k = NextAlloc /\ f = NextFree
        BY Counts
  <1>2. P \in Nat \ {0} /\ k \in 0..(P - 1) /\ f \in 0..(P - 1) /\ Slots = 0..(P - 1)
        BY PoolSize DEF Slots, P
  <1>3. AtBelow("push", P) = In({"push"}) /\ AtBelow("pop", P) = In({"pop"})
        <2>1. \A r \in Slots : r < P
              BY <1>2
        <2>2. \A t \in Threads : at[t] < P
              BY <2>1 DEF TypeOK
        <2> QED BY <2>2 DEF AtBelow, In
  <1>4. Cardinality(Lists(P)) \in Nat
        <2>1. Lists(P) \subseteq Buffers
              BY DEF Lists
        <2> QED BY <2>1, PoolOK, FS_Subset, FS_CardinalityType
  <1>5. PICK v, p, q, c, m, n \in Nat :
           /\ v = Cardinality(Lists(P)) /\ p = Cardinality(In({"push"})) /\ q = Cardinality(In({"pop"}))
           /\ c = Out /\ m = MaxUse /\ n = Cardinality(Threads)
        BY <1>4, Counts, PoolOK, FS_CardinalityType
  <1>6. Weight(P) = v + p - q
        BY <1>3, <1>5 DEF Weight
  <1>7. Shift(P) = k - (P - 1 - f)
        BY <1>1, <1>2 DEF Shift
  <1>8. Ahead = c - k + (P - 1 - f)
        BY <1>1, <1>5 DEF Ahead
  <1>9. Spare = m + (n - 1) * (P - 1)
        BY <1>5 DEF Spare
  <1>10. (n - 1) * (P - 1) = (P - 1) * n - (P - 1) /\ (P - 1) * n \in Int
        BY <1>2
  <1>11. PICK w, h, d, s, g \in Int : /\ w = Weight(P) /\ h = Shift(P) /\ d = Ahead /\ s = Spare
                                     /\ g = (P - 1) * n
        <2>1. v + p - q \in Int /\ k - (P - 1 - f) \in Int /\ c - k + (P - 1 - f) \in Int
              BY <1>2
        <2>2. m + (n - 1) * (P - 1) \in Int
              BY <1>2
        <2> QED BY <1>6, <1>7, <1>8, <1>9, <1>10, <2>1, <2>2
  <1>12. P * (w + h) + P * d <= P * s + P * (2 * P - 1 - P)
        BY <1>11, SumAll DEF SumUpTo
  <1>13. w + h + d <= s + (P - 1)
        <2>1. P * (w + h) + P * d = P * (w + h + d)
              BY <1>2
        <2>2. P * s + P * (2 * P - 1 - P) = P * (s + (P - 1))
              BY <1>2
        <2>3. PICK a, b \in Int : a = w + h + d /\ b = s + (P - 1)
              BY <1>2
        <2>4. P * a <= P * b
              BY <1>12, <2>1, <2>2, <2>3
        <2>5. ASSUME b + 1 <= a PROVE FALSE
              <3>1. PICK z \in Int : z = b + 1
                    OBVIOUS
              <3>2. P * z <= P * a /\ P * b \in Int /\ P * a \in Int /\ P * z \in Int
                    BY <2>5, <3>1, Scale
              <3>3. P * z = P * b + P
                    BY <1>2, <3>1
              <3> QED BY <1>2, <2>4, <3>2, <3>3
        <2> QED BY <2>3, <2>5
  <1>14. v + p - q + c <= m + g
        BY <1>2, <1>6, <1>7, <1>8, <1>9, <1>10, <1>11, <1>13
  <1> QED BY <1>5, <1>11, <1>14

LEMMA HandsCounted ==
    ASSUME TypeOK, HandsFull
    PROVE  /\ IsFiniteSet(InHand)
           /\ Cardinality(InHand) <= Cardinality(In({"stop", "index"})) + Cardinality(In({"push"}))
  <1> DEFINE S == In({"stop", "index"} \union {"push"})
             e == [t \in S |-> buf[t]]
  <1>1. S \in SUBSET Threads /\ IsFiniteSet(S)
        <2>1. S \in SUBSET Threads
              BY DEF In
        <2> QED BY <2>1, ThreadSets
  <1>2. \A t \in Threads : t \in S <=> buf[t] # NoBuffer
        BY DEF In, HandsFull
  <1>3. e \in [S -> InHand]
        BY <1>1, <1>2 DEF InHand, TypeOK
  <1>4. \A b \in InHand : \E t \in S : e[t] = b
        BY <1>2, PoolOK DEF InHand
  <1>5. Cardinality(S) = Cardinality(In({"stop", "index"})) + Cardinality(In({"push"}))
        BY InSplit
  <1> HIDE DEF e, S
  <1> QED BY <1>1, <1>3, <1>4, <1>5, Covered

LEMMA UnionSize ==
    ASSUME NEW A, NEW B, IsFiniteSet(A), IsFiniteSet(B)
    PROVE  IsFiniteSet(A \union B) /\ Cardinality(A \union B) <= Cardinality(A) + Cardinality(B)
  <1>1. IsFiniteSet(A \union B) /\ IsFiniteSet(A \intersect B)
        BY FS_Union, FS_Subset
  <1>2. PICK a, b, i, u \in Nat : /\ a = Cardinality(A) /\ b = Cardinality(B)
                                 /\ i = Cardinality(A \intersect B) /\ u = Cardinality(A \union B)
        BY <1>1, FS_CardinalityType
  <1>3. Cardinality(A \union B) = Cardinality(A) + Cardinality(B) - Cardinality(A \intersect B)
        BY FS_Union
  <1>4. u = a + b - i
        BY <1>2, <1>3
  <1> QED BY <1>1, <1>2, <1>4

\* What is outside the lists is in use or in the hands of a thread in Free.
LEMMA LiveBounded == ASSUME IInv, GrowInv PROVE NoGrowth
  <1>1. TypeOK /\ HandsFull /\ FewInv
        BY DEF IInv, GrowInv
  <1>2. Pooled \subseteq Lists(P)
        <2>1. P \in Nat \ {0} /\ Slots = 0..(P - 1)
              BY PoolSize DEF Slots, P
        <2>2. \A r \in Slots : r < P
              BY <2>1
        <2> QED BY <2>2 DEF Pooled, Lists, Listed
  <1>3. IsFiniteSet(Lists(P)) /\ IsFiniteSet(Pooled) /\ IsFiniteSet(used) /\ IsFiniteSet(InHand)
        <2>1. Lists(P) \subseteq Buffers /\ Pooled \subseteq Buffers /\ used \subseteq Buffers
              BY <1>1 DEF Lists, Pooled, TypeOK
        <2>2. InHand \subseteq Buffers
              BY DEF InHand
        <2> QED BY <2>1, <2>2, PoolOK, FS_Subset
  <1>4. PICK v, l, h, n \in Nat : /\ v = Cardinality(Lists(P)) /\ l = Cardinality(Pooled)
                                 /\ h = Cardinality(InHand) /\ n = Cardinality(used)
        BY <1>3, FS_CardinalityType
  <1>5. PICK p, q, s, a \in Nat : /\ p = Cardinality(In({"push"})) /\ q = Cardinality(In({"pop"}))
                                 /\ s = Cardinality(In({"stop", "index"}))
                                 /\ a = Cardinality(In({"new"}))
        BY <1>1, Counts
  <1>6. l <= v
        BY <1>2, <1>3, <1>4, FS_Subset
  <1>7. h <= s + p
        BY <1>1, <1>4, <1>5, HandsCounted
  <1>8. Out = n + q + a + s
        <2>1. Under = {"pop"} \union ({"new"} \union {"stop", "index"})
              BY DEF Under
        <2>2. Cardinality(In({"new"} \union {"stop", "index"})) = a + s
              <3>1. {"new"} \intersect {"stop", "index"} = {}
                    OBVIOUS
              <3>2. Cardinality(In({"new"} \union {"stop", "index"}))
                       = Cardinality(In({"new"})) + Cardinality(In({"stop", "index"}))
                    BY <3>1, InSplit
              <3> QED BY <1>5, <3>2
        <2>3. Cardinality(In(Under)) = q + (a + s)
              <3>1. {"pop"} \intersect ({"new"} \union {"stop", "index"}) = {}
                    OBVIOUS
              <3>2. Cardinality(In({"pop"} \union ({"new"} \union {"stop", "index"})))
                       = Cardinality(In({"pop"})) + Cardinality(In({"new"} \union {"stop", "index"}))
                    BY <3>1, InSplit
              <3> QED BY <1>5, <2>1, <2>2, <3>2
        <2> QED BY <1>4, <2>3 DEF Out
  <1>9. PICK g \in Int : g = MaxUse + (P - 1) * Cardinality(Threads)
        <2>1. Cardinality(Threads) \in Nat /\ MaxUse \in Nat /\ P \in Nat
              BY PoolOK, PoolSize, FS_CardinalityType
        <2>2. (P - 1) * Cardinality(Threads) \in Int
              BY <2>1
        <2> QED BY <2>1, <2>2
  <1>10. v + p - q + (n + q + a + s) <= g
        BY <1>1, <1>4, <1>5, <1>8, <1>9, PoolBounded
  <1>11. PICK x, y \in Nat : x = Cardinality(Pooled \union InHand) /\ y = Cardinality(Live)
        <2>1. IsFiniteSet(Pooled \union InHand)
              BY <1>3, UnionSize
        <2>2. IsFiniteSet(Live)
              BY <1>3, <2>1, UnionSize DEF Live
        <2> QED BY <2>1, <2>2, FS_CardinalityType
  <1>12. x <= l + h /\ y <= x + n
        <2>1. IsFiniteSet(Pooled \union InHand) /\ x <= l + h
              BY <1>3, <1>4, <1>11, UnionSize
        <2>2. y <= x + n
              BY <1>3, <1>4, <1>11, <2>1, UnionSize DEF Live
        <2> QED BY <2>1, <2>2
  <1>13. y <= g
        BY <1>6, <1>7, <1>10, <1>12
  <1> QED BY <1>9, <1>11, <1>13 DEF NoGrowth, P

\* However long the program runs, the pool does not grow: recycling works for
\* any number of threads, buffers and slots, although Alloc and Free go round
\* the slots each with its own counter (BGIOBuffer.cpp 12-14, 42-64).
THEOREM RecyclingWorks == Spec => []NoGrowth
  <1>1. Init => IInv /\ GrowInv
        <2>1. Init => Apart
              BY DEF Init, Apart, ListsApart, HandsApart, NotInHand, NotPooled, NotUsed
        <2> QED BY <2>1, TypeInit, GrowInit DEF IInv
  <1>2. IInv /\ GrowInv /\ [Next]_vars => (IInv /\ GrowInv)'
        BY TypeStep, ApartStep, GrowStep DEF IInv
  <1>3. IInv /\ GrowInv => NoGrowth
        BY LiveBounded
  <1> QED BY <1>1, <1>2, <1>3, PTL DEF Spec
=============================================================================
