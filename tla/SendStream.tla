----------------------------- MODULE SendStream -----------------------------
(***************************************************************************)
(* What one connection promises to the callers of BGIOSocket::Write: the   *)
(* bytes they hand over form one stream, in the order in which the calls   *)
(* took m_lock, and the stream reaches the socket in that order, without a *)
(* gap and without a repetition, until a send fails.                       *)
(*                                                                         *)
(* A byte is named by its position in the stream of accepted bytes, so the *)
(* accepted stream is 1, 2, ..., accepted and needs no variable of its own.*)
(***************************************************************************)
EXTENDS Naturals, Sequences

VARIABLES accepted, \* number of bytes accepted by Write
          wire,     \* the bytes the socket has taken, in order
          broken    \* a send has failed: nothing more is promised

vars == <<accepted, wire, broken>>

Init == accepted = 0 /\ wire = <<>> /\ broken = FALSE

\* One Write adds its bytes to the end of the stream.
Accept == /\ accepted' \in Nat
          /\ accepted' > accepted
          /\ UNCHANGED <<wire, broken>>

\* The next n bytes of the accepted stream.
NextBytes(n) == [i \in 1..n |-> Len(wire) + i]

\* The socket takes some of the accepted bytes: the next ones.
Extend == \E n \in 1..(accepted - Len(wire)) : wire' = wire \o NextBytes(n)

Deliver == ~broken /\ Extend /\ UNCHANGED <<accepted, broken>>

\* A send fails, possibly after some of its bytes were taken.
Break == /\ ~broken
         /\ broken' = TRUE
         /\ Extend \/ UNCHANGED wire
         /\ UNCHANGED accepted

Next == Accept \/ Deliver \/ Break

Spec == Init /\ [][Next]_vars

\* Accepted bytes do not wait for ever while no send has failed.
Live == WF_vars(Deliver)
=============================================================================
