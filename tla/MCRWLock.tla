------------------------------ MODULE MCRWLock ------------------------------
(***************************************************************************)
(* Instances of RWLock for TLC.  The variable use, constant through a      *)
(* behaviour, is the set of operations that are called: for writing only,  *)
(* as the program uses BGILock::s_rwLock; for reading and writing; and all *)
(* of them.  In the first case all threads take part, in the others all    *)
(* but the fourth.                                                         *)
(***************************************************************************)
EXTENDS RWLock

CONSTANT Fourth  \* a thread that takes part in the use for writing only

VARIABLE use

MCInit == Init /\ use \in {{"write"}, {"read", "write"}, Ops}

MayCall(t, op) == op \in use /\ (use = {"write"} \/ t # Fourth)

MCNext == /\ \E t \in Threads : \/ MayCall(t, "read") /\ ReadLock(t)
                                \/ MayCall(t, "write") /\ WriteLock(t)
                                \/ MayCall(t, "try") /\ WriteTryLock(t)
                                \/ Step(t)
          /\ UNCHANGED use

MCSpec == MCInit /\ [][MCNext]_<<vars, use>> /\ Fairness

\* A wake-up is lost in two ways only: with readers, when the signal lies on the
\* event nobody waits for, because ReadUnlock signals m_hREvent for threads that
\* are parked on m_hWEvent (BGLock.cpp 262-265); and with WriteTryLock, whose
\* failing call is counted for a moment, so that a thread that parks or leaves
\* leaves the signal to it (313-317).  With writers only none is lost (276-309).
ForgottenOnlyBy == NobodyForgotten \/ ("read" \in use /\ REvent) \/ "try" \in use

\* With writers only, as long as threads want the lock, somebody gets it
\* (BGILock::s_rwLock, BGLock.cpp 22 and 57).
SomeWriterGetsIt == (use = {"write"} /\ \E t \in Threads : Waiting(t)) ~>
                        (\E t \in Threads : pc[t] = "writing")
=============================================================================
