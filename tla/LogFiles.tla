------------------------------ MODULE LogFiles ------------------------------
(***************************************************************************)
(* What the log manager promises: entries are accepted one after the       *)
(* other, all of them are written to the default file in that order, the   *)
(* serious ones to the err file too, and the files are closed when         *)
(* everything accepted before the request to stop is written.  What is     *)
(* accepted later is lost.                                                 *)
(***************************************************************************)
EXTENDS Integers, Sequences

CONSTANTS Entry,     \* what can be logged
          Serious(_) \* the entries that go to the err file too

VARIABLES accepted,  \* the entries accepted, in order
          logFile,   \* the entries in the default file
          errFile,   \* the entries in the err file
          stopAt,    \* how many were accepted before the request to stop, or -1
          closed     \* the files are closed

vars == <<accepted, logFile, errFile, stopAt, closed>>

Init == accepted = <<>> /\ logFile = <<>> /\ errFile = <<>> /\ stopAt = -1 /\ closed = FALSE

Accept == /\ \E e \in Entry : accepted' = Append(accepted, e)
          /\ UNCHANGED <<logFile, errFile, stopAt, closed>>

Stop == /\ stopAt = -1 /\ stopAt' = Len(accepted)
        /\ UNCHANGED <<accepted, logFile, errFile, closed>>

ToWrite == IF stopAt = -1 THEN Len(accepted) ELSE stopAt

Write == /\ Len(logFile) < ToWrite
         /\ LET e == accepted[Len(logFile) + 1] IN
               /\ logFile' = Append(logFile, e)
               /\ errFile' = IF Serious(e) THEN Append(errFile, e) ELSE errFile
         /\ UNCHANGED <<accepted, stopAt, closed>>

Close == /\ stopAt # -1 /\ Len(logFile) = stopAt
         /\ ~closed /\ closed' = TRUE
         /\ UNCHANGED <<accepted, logFile, errFile, stopAt>>

Next == Accept \/ Stop \/ Write \/ Close

Spec == Init /\ [][Next]_vars
=============================================================================
