------------------------------ MODULE IOObject ------------------------------
(***************************************************************************)
(* The life of one BGIOObject (BGIOObject.cpp 5-86): AddRef, Release,      *)
(* AddTimer and the Release that ends OnIOCallback.                        *)
(*                                                                         *)
(* m_nRef counts all references; m_nTimerRef and m_nGeneralRef count those *)
(* of a kind.  AddRef and Release change m_nRef and the counter pRef of    *)
(* the kind with two Interlocked operations, and the last Release reads    *)
(* both counters before it calls OnFree, which deletes the object.         *)
(*                                                                         *)
(* A reference is an actor of its own and goes through the steps of the    *)
(* AddRef and the Release that make and end it, so that any number of      *)
(* threads may be inside these calls.  A reference is held by a thread, or *)
(* it is out: an I/O operation, a posted packet or an entry of the timer   *)
(* queue stands for it until a worker enters OnIOCallback with it.  A      *)
(* thread calls AddRef only while it holds a reference, and keeps that one *)
(* until the call returns.                                                 *)
(*                                                                         *)
(* Names that BufferPool has too begin with Object here (ObjectInit), so   *)
(* that MemoryProofs can extend both.                                      *)
(***************************************************************************)
EXTENDS Integers, FiniteSets

CONSTANT Refs  \* bound: the references that exist at a time

ASSUME RefsFinite == IsFiniteSet(Refs)

Kinds == {"general", "timer"}

VARIABLES
    m_nRef, m_nTimerRef, m_nGeneralRef,
    state,   \* how far each reference is
    kind,    \* which counter pRef points to
    by,      \* the reference held by the thread that is adding this one
    freed,   \* history: calls of OnFree
    alarm    \* history: a branch that logs an error was taken

refCounters == <<m_nRef, m_nTimerRef, m_nGeneralRef>>
objectVars == <<refCounters, state, kind, by, freed, alarm>>

\* The constructor: one general reference, held by the creator.
ObjectInit == \E r \in Refs :
    /\ m_nRef = 1 /\ m_nTimerRef = 0 /\ m_nGeneralRef = 1
    /\ state = [q \in Refs |-> IF q = r THEN "held" ELSE "none"]
    /\ kind = [q \in Refs |-> "general"]
    /\ by = [q \in Refs |-> q]
    /\ freed = 0 /\ alarm = FALSE

Become(r, s) == state' = [state EXCEPT ![r] = s]

\* *pRef and its change: the counter of kind k.
Count(k) == IF k = "timer" THEN m_nTimerRef ELSE m_nGeneralRef

SetCount(k, n) == IF k = "timer" THEN m_nTimerRef' = n /\ UNCHANGED m_nGeneralRef
                                 ELSE m_nGeneralRef' = n /\ UNCHANGED m_nTimerRef

-----------------------------------------------------------------------------
\* A held reference whose thread is not inside AddRef.
Idle(q) == state[q] = "held" /\ \A r \in Refs : state[r] = "adding" => by[r] # q

\* AddRef, first half: m_nRef.  A count that was zero means that the object
\* is gone; the code logs it and stores 100 for good.
AddRef(r, q, k) ==
    /\ state[r] = "none" /\ Idle(q)
    /\ m_nRef' = IF m_nRef + 1 = 1 THEN 100 ELSE m_nRef + 1
    /\ alarm' = (alarm \/ m_nRef + 1 = 1)
    /\ kind' = [kind EXCEPT ![r] = k]
    /\ by' = [by EXCEPT ![r] = q]
    /\ Become(r, "adding")
    /\ UNCHANGED <<m_nTimerRef, m_nGeneralRef, freed>>

\* AddRef, second half: the counter of the kind.
AddKind(r) ==
    /\ state[r] = "adding"
    /\ SetCount(kind[r], Count(kind[r]) + 1)
    /\ Become(r, "held")
    /\ UNCHANGED <<m_nRef, kind, by, freed, alarm>>

\* The operation that stands for the reference is posted, or, at the end of
\* AddTimer, its entry is pushed into the timer queue.
HandOut(r) ==
    /\ Idle(r)
    /\ Become(r, "out")
    /\ UNCHANGED <<refCounters, kind, by, freed, alarm>>

\* A worker enters OnIOCallback, or the timer thread takes the entry out.
OnIOCallback(r) ==
    /\ state[r] = "out"
    /\ Become(r, "held")
    /\ UNCHANGED <<refCounters, kind, by, freed, alarm>>

-----------------------------------------------------------------------------
\* Release, first half: the counter of the kind.  Below zero is an error,
\* and both counters are set to 100 for good.
Release(r) ==
    /\ Idle(r)
    /\ IF Count(kind[r]) > 0
       THEN /\ SetCount(kind[r], Count(kind[r]) - 1)
            /\ Become(r, "dropping")
            /\ UNCHANGED <<m_nRef, alarm>>
       ELSE /\ SetCount(kind[r], 100) /\ m_nRef' = 100
            /\ Become(r, "none")
            /\ alarm' = TRUE
    /\ UNCHANGED <<kind, by, freed>>

\* Fault: the thread that leaves one reference behind goes on to free.
AfterDropEarly(n) == IF n <= 1 THEN "checkTimer" ELSE "none"

\* Only the thread that takes m_nRef to zero goes on.
AfterDrop(n) == IF n = 0 THEN "checkTimer" ELSE "none"

\* Fault: m_nRef is decremented twice.
DropTwice(r) ==
    /\ state[r] = "dropping"
    /\ m_nRef' = m_nRef - 2
    /\ alarm' = (alarm \/ m_nRef' < 0)
    /\ Become(r, AfterDrop(m_nRef'))
    /\ UNCHANGED <<m_nTimerRef, m_nGeneralRef, kind, by, freed>>

\* Release, second half: m_nRef.
Drop(r) ==
    /\ state[r] = "dropping"
    /\ m_nRef' = m_nRef - 1
    /\ alarm' = (alarm \/ m_nRef' < 0)
    /\ Become(r, AfterDrop(m_nRef'))
    /\ UNCHANGED <<m_nTimerRef, m_nGeneralRef, kind, by, freed>>

\* A counter that is not zero now means that AddRef and Release do not match.
Remains(k) == Count(k) > 0

\* The last Release reads m_nTimerRef, then m_nGeneralRef; if one of them is
\* not zero it stores 100 and never frees.
Check(r, k, next) ==
    /\ Become(r, IF Remains(k) THEN "none" ELSE next)
    /\ m_nRef' = IF Remains(k) THEN 100 ELSE m_nRef
    /\ alarm' = (alarm \/ Remains(k))
    /\ UNCHANGED <<m_nTimerRef, m_nGeneralRef, kind, by, freed>>

CheckTimer(r) == state[r] = "checkTimer" /\ Check(r, "timer", "checkGeneral")
CheckGeneral(r) == state[r] = "checkGeneral" /\ Check(r, "general", "free")

\* OnFree: delete this.
OnFree(r) ==
    /\ state[r] = "free"
    /\ freed' = freed + 1
    /\ Become(r, "none")
    /\ UNCHANGED <<refCounters, kind, by, alarm>>

-----------------------------------------------------------------------------
\* The steps of a call that has begun.
Step(r) == \/ AddKind(r) \/ Drop(r) \/ CheckTimer(r) \/ CheckGeneral(r) \/ OnFree(r)

ObjectNext == \/ \E r, q \in Refs, k \in Kinds : AddRef(r, q, k)
              \/ \E r \in Refs : HandOut(r) \/ OnIOCallback(r) \/ Release(r) \/ Step(r)

ObjectSpec == ObjectInit /\ [][ObjectNext]_objectVars

-----------------------------------------------------------------------------
States == {"none", "adding", "held", "out", "dropping", "checkTimer", "checkGeneral", "free"}

\* The type invariant: no counter is ever below zero.
ObjectTypeOK == /\ m_nRef \in Nat /\ m_nTimerRef \in Nat /\ m_nGeneralRef \in Nat
                /\ state \in [Refs -> States]
                /\ kind \in [Refs -> Kinds]
                /\ by \in [Refs -> Refs]
                /\ freed \in Nat
                /\ alarm \in BOOLEAN

\* The references in m_nRef, and those in the counter of a kind.
Counted == {r \in Refs : state[r] \in {"adding", "held", "out", "dropping"}}
Whole(k) == {r \in Refs : state[r] \in {"held", "out"} /\ kind[r] = k}

\* m_nRef is never smaller than the counters of the kinds together, because
\* AddRef counts it first and Release last: each counter is the number of the
\* references that are as far as it (BGIOObject.cpp 12, 18, 28, 38).
CountsExact == /\ m_nRef = Cardinality(Counted)
               /\ m_nTimerRef = Cardinality(Whole("timer"))
               /\ m_nGeneralRef = Cardinality(Whole("general"))

\* The object is deleted once, and exactly when nothing refers to it any more: no
\* thread holds a reference, no operation or timer stands for one, and nobody is
\* inside AddRef or Release.  So the last Release never takes its own counters for
\* somebody else's, and nobody else deletes meanwhile (BGIOObject.cpp 38-56).
FreedAtTheEnd == freed = IF \A r \in Refs : state[r] = "none" THEN 1 ELSE 0

\* While AddRef and Release match, none of the branches that log an error and
\* pin the object with 100 is taken (12-16, 29-36, 41-46, 48-54).
NoAlarm == ~alarm
=============================================================================
