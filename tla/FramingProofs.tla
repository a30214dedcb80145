---------------------------- MODULE FramingProofs ----------------------------
(***************************************************************************)
(* Packets arrive whole and in order, the server closes for a reason, and  *)
(* what waits to be sent is bounded: machine-checked proofs for any        *)
(* scripts, any buffer and any cut of the streams.                         *)
(*                                                                         *)
(* No sum over a script is needed.  For each direction there is a stream T *)
(* of bytes, and each buffer on the way is said to carry what T has behind *)
(* its first p bytes (Lies).  A cut or a join of buffers keeps that        *)
(* (LiesCut, LiesJoin), wherever it is.  The answers are all alike, so     *)
(* their stream is periodic (Answers).  The packets of a client are not:   *)
(* that places c exist at which they begin (Cuts) is part of the           *)
(* invariant, and each packet that is sent puts one more place behind      *)
(* them.                                                                   *)
(***************************************************************************)
EXTENDS Framing, SequenceTheorems, TLAPS

\* q is what the stream T carries behind its first p bytes.
Lies(T, p, q) == \A i \in 1..Len(q) : q[i] = T[p + i]

LEMMA Cut == ASSUME NEW q \in Seq(Nat), NEW n \in 0..Len(q)
             PROVE  /\ Take(q, n) \in Seq(Nat) /\ Len(Take(q, n)) = n
                    /\ Drop(q, n) \in Seq(Nat) /\ Len(Drop(q, n)) = Len(q) - n
                    /\ \A i \in 1..n : Take(q, n)[i] = q[i]
                    /\ \A i \in 1..(Len(q) - n) : Drop(q, n)[i] = q[n + i]
  <1>1. Len(q) \in Nat /\ \A i \in 1..Len(q) : q[i] \in Nat
    BY LenProperties, ElementOfSeq
  <1>2. /\ Take(q, n) \in Seq(Nat) /\ Len(Take(q, n)) = n
        /\ \A i \in 1..n : Take(q, n)[i] = q[i]
    <2>1. \A i \in 1..n : q[i] \in Nat
      BY <1>1
    <2>2. 1 \in Int /\ n \in Int
      BY <1>1
    <2>3. /\ SubSeq(q, 1, n) \in Seq(Nat)
          /\ Len(SubSeq(q, 1, n)) = IF 1 <= n THEN n - 1 + 1 ELSE 0
          /\ \A i \in 1..(n - 1 + 1) : SubSeq(q, 1, n)[i] = q[1 + i - 1]
      BY <2>1, <2>2, SubSeqProperties
    <2> QED BY <1>1, <2>3 DEF Take
  <1>3. /\ Drop(q, n) \in Seq(Nat) /\ Len(Drop(q, n)) = Len(q) - n
        /\ \A i \in 1..(Len(q) - n) : Drop(q, n)[i] = q[n + i]
    <2>1. \A i \in (n + 1)..Len(q) : q[i] \in Nat
      BY <1>1
    <2>2. n + 1 \in Int /\ Len(q) \in Int
      BY <1>1
    <2>3. /\ SubSeq(q, n + 1, Len(q)) \in Seq(Nat)
          /\ Len(SubSeq(q, n + 1, Len(q))) = IF n + 1 <= Len(q) THEN Len(q) - (n + 1) + 1 ELSE 0
          /\ \A i \in 1..(Len(q) - (n + 1) + 1) : SubSeq(q, n + 1, Len(q))[i] = q[n + 1 + i - 1]
      BY <2>1, <2>2, SubSeqProperties
    <2> QED BY <1>1, <2>3 DEF Drop
  <1> QED BY <1>2, <1>3

LEMMA LiesCut == ASSUME NEW T, NEW p \in Nat, NEW q \in Seq(Nat), NEW n \in 0..Len(q), Lies(T, p, q)
                 PROVE  Lies(T, p, Take(q, n)) /\ Lies(T, p + n, Drop(q, n))
  <1>1. Len(q) \in Nat
    BY LenProperties
  <1>2. ASSUME NEW i \in 1..n PROVE Take(q, n)[i] = T[p + i]
    <2>1. i \in 1..Len(q)
      BY <1>1
    <2> QED BY <2>1, Cut DEF Lies
  <1>3. ASSUME NEW i \in 1..(Len(q) - n) PROVE Drop(q, n)[i] = T[(p + n) + i]
    <2>1. n + i \in 1..Len(q) /\ p + (n + i) = (p + n) + i
      BY <1>1
    <2>2. q[n + i] = T[p + (n + i)]
      BY <2>1 DEF Lies
    <2> QED BY <2>1, <2>2, Cut
  <1> QED BY <1>2, <1>3, Cut DEF Lies

LEMMA LiesJoin == ASSUME NEW T, NEW p \in Nat, NEW q \in Seq(Nat), NEW r \in Seq(Nat),
                         Lies(T, p, q), Lies(T, p + Len(q), r)
                  PROVE  /\ q \o r \in Seq(Nat) /\ Len(q \o r) = Len(q) + Len(r)
                         /\ Lies(T, p, q \o r)
  <1>1. Len(q) \in Nat /\ Len(r) \in Nat
    BY LenProperties
  <1>2. /\ q \o r \in Seq(Nat) /\ Len(q \o r) = Len(q) + Len(r)
        /\ \A i \in 1..(Len(q) + Len(r)) : (q \o r)[i] = IF i <= Len(q) THEN q[i] ELSE r[i - Len(q)]
    BY ConcatProperties
  <1>3. ASSUME NEW i \in 1..(Len(q) + Len(r)) PROVE (q \o r)[i] = T[p + i]
    <2>1. CASE i <= Len(q)
      BY <1>1, <1>2, <2>1 DEF Lies
    <2>2. CASE i > Len(q)
      <3>1. i - Len(q) \in 1..Len(r) /\ (p + Len(q)) + (i - Len(q)) = p + i
        BY <1>1, <2>2
      <3>2. r[i - Len(q)] = T[(p + Len(q)) + (i - Len(q))]
        BY <3>1 DEF Lies
      <3>3. (q \o r)[i] = r[i - Len(q)]
        BY <1>1, <1>2, <2>2
      <3> QED BY <3>1, <3>2, <3>3
    <2>3. i <= Len(q) \/ i > Len(q)
      BY <1>1
    <2> QED BY <2>1, <2>2, <2>3
  <1> QED BY <1>2, <1>3 DEF Lies

LEMMA LiesJoinAt == ASSUME NEW T, NEW p \in Nat, NEW e \in Nat, NEW q \in Seq(Nat), NEW r \in Seq(Nat),
                           e = p + Len(q), Lies(T, p, q), Lies(T, e, r)
                    PROVE  Len(q \o r) = Len(q) + Len(r) /\ Lies(T, p, q \o r)
  BY LiesJoin

\* The packets as bytes.
Size(p) == IF p.size < 3 THEN 3 ELSE p.size

LEMMA BytesOf == ASSUME NEW p \in Headers
                 PROVE  /\ Size(p) \in Nat /\ Size(p) >= 3 /\ Size(p) >= p.size /\ p.size \in Nat
                        /\ p.size <= BUFFER_SIZE
                        /\ Bytes(p) \in Seq(Nat) /\ Len(Bytes(p)) = Size(p)
                        /\ Bytes(p)[1] = p.size
  <1>1. p.size \in 0..BUFFER_SIZE /\ p.type \in Nat /\ BUFFER_SIZE \in Nat
    BY FramingOK DEF Headers
  <1>2. Size(p) \in Nat /\ Size(p) >= 3 /\ Size(p) >= p.size
    BY <1>1 DEF Size
  <1>3. Bytes(p) = [i \in 1..Size(p) |-> IF i = 1 THEN p.size ELSE IF i = 2 THEN p.type ELSE 0]
    BY DEF Bytes, Size
  <1>4. Bytes(p) \in [1..Size(p) -> Nat]
    BY <1>1, <1>2, <1>3
  <1>5. Bytes(p) \in Seq(Nat)
    BY <1>2, <1>4, SeqDef
  <1>6. DOMAIN Bytes(p) = 1..Size(p) /\ DOMAIN Bytes(p) = 1..Len(Bytes(p)) /\ Len(Bytes(p)) \in Nat
    BY <1>3, <1>5, LenProperties
  <1>7. Len(Bytes(p)) = Size(p)
    BY <1>2, <1>6
  <1>8. 1 \in 1..Size(p)
    BY <1>2
  <1> QED BY <1>1, <1>2, <1>3, <1>5, <1>7, <1>8

LEMMA PongIs == /\ Pong \in Seq(Nat) /\ Len(Pong) = 3
                /\ Pong[1] = 3 /\ Pong[2] = 0 /\ Pong[3] = 0
  <1>1. [size |-> PingSize, type |-> SC_PingTest] \in Headers
    BY FramingOK DEF Headers, PingSize, SC_PingTest, PACKET_RESERVED_LENGTH
  <1>2. Size([size |-> PingSize, type |-> SC_PingTest]) = 3
    BY DEF Size, PingSize
  <1>3. /\ Pong \in Seq(Nat) /\ Len(Pong) = 3 /\ Pong[1] = 3
    BY <1>1, <1>2, BytesOf DEF Pong, PingSize
  <1>4. Pong = [i \in 1..3 |-> IF i = 1 THEN 3 ELSE IF i = 2 THEN 0 ELSE 0]
    BY DEF Pong, Bytes, PingSize, SC_PingTest
  <1> QED BY <1>3, <1>4

\* The stream of answers repeats with every answer.
Answers == [n \in Nat |-> PongAt(n)]

LEMMA PongsRepeat == ASSUME NEW n \in Nat, n > 0
                     PROVE  /\ PongAt(n) \in Nat /\ PongAt(n + 3) = PongAt(n)
                            /\ n \in 1..3 => PongAt(n) = Pong[n]
  <1>1. (n - 1) % 3 \in 0..2 /\ (n + 3 - 1) % 3 = (n - 1) % 3
    OBVIOUS
  <1>2. n \in 1..3 => 1 + ((n - 1) % 3) = n
    OBVIOUS
  <1>3. 1 + ((n - 1) % 3) \in 1..3
    BY <1>1
  <1>4. Pong[1 + ((n - 1) % 3)] \in Nat
    BY <1>3, PongIs, ElementOfSeq
  <1> QED BY <1>1, <1>2, <1>4 DEF PongAt, PingSize

LEMMA PongsFollow == ASSUME NEW n \in Nat, n > 0, NEW m \in Nat
                     PROVE  PongAt(3 * m + n) = PongAt(n)
  <1>1. (3 * m + n - 1) % 3 = (n - 1) % 3
    OBVIOUS
  <1> QED BY <1>1 DEF PongAt, PingSize

LEMMA AnswersRepeat == ASSUME NEW p \in Nat, NEW q \in Seq(Nat), Lies(Answers, p + 3, q)
                       PROVE  Lies(Answers, p, q)
  <1>1. Len(q) \in Nat
    BY LenProperties
  <1>2. ASSUME NEW i \in 1..Len(q) PROVE q[i] = Answers[p + i]
    <2>1. p + i \in Nat /\ p + i > 0 /\ (p + 3) + i = (p + i) + 3 /\ (p + i) + 3 \in Nat
      BY <1>1
    <2>2. Answers[(p + i) + 3] = PongAt((p + i) + 3) /\ Answers[p + i] = PongAt(p + i)
      BY <2>1 DEF Answers
    <2>3. q[i] = Answers[(p + 3) + i]
      BY DEF Lies
    <2> QED BY <2>1, <2>2, <2>3, PongsRepeat
  <1> QED BY <1>2 DEF Lies

\* k answers at the place of the next one.
LEMMA PongsLie == ASSUME NEW k \in Nat, NEW m \in Nat
                  PROVE  /\ Pongs(k) \in Seq(Nat) /\ Len(Pongs(k)) = 3 * k
                         /\ Lies(Answers, 3 * m, Pongs(k))
  <1>1. 3 * k \in Nat /\ Pongs(k) = [n \in 1..(3 * k) |-> PongAt(n)]
    BY DEF Pongs, PingSize
  <1>2. \A n \in 1..(3 * k) : PongAt(n) \in Nat
    BY <1>1, PongsRepeat
  <1>3. Pongs(k) \in [1..(3 * k) -> Nat]
    BY <1>1, <1>2
  <1>4. Pongs(k) \in Seq(Nat)
    BY <1>1, <1>3, SeqDef
  <1>5. DOMAIN Pongs(k) = 1..(3 * k) /\ DOMAIN Pongs(k) = 1..Len(Pongs(k)) /\ Len(Pongs(k)) \in Nat
    BY <1>1, <1>4, LenProperties
  <1>6. Len(Pongs(k)) = 3 * k
    BY <1>1, <1>5
  <1>7. ASSUME NEW i \in 1..(3 * k) PROVE Pongs(k)[i] = Answers[3 * m + i]
    <2>1. i \in Nat /\ i > 0 /\ 3 * m + i \in Nat
      BY <1>1
    <2>2. Pongs(k)[i] = PongAt(i) /\ Answers[3 * m + i] = PongAt(3 * m + i)
      BY <1>1, <2>1 DEF Answers
    <2> QED BY <2>1, <2>2, PongsFollow
  <1> QED BY <1>4, <1>6, <1>7 DEF Lies

\* The packet at the front of the answers.
LEMMA FirstAnswer == ASSUME NEW q \in Seq(Nat), Len(q) = 3, Lies(Answers, 0, q)
                     PROVE  q = Pong
  <1>1. ASSUME NEW i \in 1..3 PROVE q[i] = Pong[i]
    <2>1. i \in Nat /\ i > 0 /\ 0 + i = i
      OBVIOUS
    <2>2. q[i] = Answers[0 + i]
      BY DEF Lies
    <2> QED BY <2>1, <2>2, PongsRepeat DEF Answers
  <1>2. Len(Pong) = Len(q) /\ Pong \in Seq(Nat) /\ \A i \in 1..Len(q) : q[i] = Pong[i]
    BY <1>1, PongIs
  <1> QED BY <1>2, SeqEqual

-----------------------------------------------------------------------------
\* The client and what is on its way to it.

ClientTypes ==
    /\ script \in Scripts /\ sent \in 0..Len(script)
    /\ client \in {"off", "posted", "assemble", "over"} /\ hungUp \in BOOLEAN
    /\ io \in Seq(Nat) /\ part \in Seq(Nat) /\ shown \in Seq(Seq(Nat))
    /\ up \in Seq(Nat) /\ down \in Seq(Nat)
    /\ queued \in Nat /\ answered \in Nat
    /\ client = "off" => sent = 0 /\ up = <<>>

\* Whole answers are on the way, but for the part the client has of one.
DownInv ==
    /\ Len(part) + Len(io) + Len(down) = 3 * (answered - queued - Len(shown))
    /\ Len(part) < 3 /\ current = IF part = <<>> THEN 0 ELSE 3
    /\ client # "assemble" => io = <<>>
    /\ Lies(Answers, 0, part)
    /\ Lies(Answers, Len(part), io)
    /\ Lies(Answers, Len(part) + Len(io), down)

ClientInv == ClientTypes /\ DownInv

LEMMA ScriptTypes == ASSUME NEW s \in Scripts
                     PROVE  /\ s \in Seq(Headers) /\ Len(s) \in Nat /\ Len(s) > 0
                            /\ \A k \in 1..Len(s) : s[k] \in Headers
  <1>1. s \in Seq(Headers) /\ s # <<>>
    BY FramingOK
  <1> QED BY <1>1, EmptySeq, LenProperties, ElementOfSeq

LEMMA Empty == <<>> \in Seq(Nat) /\ <<>> \in Seq(Seq(Nat)) /\ Len(<<>>) = 0 /\ \A T, p : Lies(T, p, <<>>)
  <1>1. <<>> \in Seq(Nat) /\ <<>> \in Seq(Seq(Nat)) /\ Len(<<>>) = 0
    BY EmptySeq
  <1> QED BY <1>1 DEF Lies

LEMMA NotEmpty == ASSUME NEW q \in Seq(Nat)
                  PROVE  Len(q) \in Nat /\ (q = <<>> <=> Len(q) = 0)
  BY EmptySeq, LenProperties

LEMMA ClientInit == Init => ClientInv
  <1> SUFFICES ASSUME Init PROVE ClientInv
    OBVIOUS
  <1>1. script \in Scripts /\ sent = 0 /\ client = "off" /\ hungUp = FALSE /\ current = 0
    BY DEF Init
  <1>2. io = <<>> /\ part = <<>> /\ shown = <<>> /\ up = <<>> /\ down = <<>> /\ queued = 0 /\ answered = 0
    BY DEF Init
  <1>3. ClientTypes
    <2>1. Len(script) \in Nat
      BY <1>1, ScriptTypes
    <2>2. 0 \in 0..Len(script)
      BY <2>1
    <2> QED BY <1>1, <1>2, <2>2, Empty DEF ClientTypes
  <1>4. DownInv
    BY <1>1, <1>2, Empty DEF DownInv
  <1> QED BY <1>3, <1>4 DEF ClientInv

\* A step that leaves the answers alone.
LEMMA DownSame == ASSUME DownInv, UNCHANGED <<part, io, down, current, shown, queued, answered>>,
                         client' # "assemble" => io = <<>>
                  PROVE  DownInv'
  BY DEF DownInv, Lies

LEMMA StepConnect == ASSUME ClientInv, Connect PROVE ClientInv'
  <1>1. /\ script' = script /\ hungUp' = hungUp
        /\ UNCHANGED <<part, io, down, current, shown, queued, answered>>
        /\ client' \in {"over", "posted"} /\ client = "off"
    BY DEF Connect, sendVars
  <1>2. (sent' = sent /\ up' = up) \/ (sent' = 1 /\ up' = Bytes(script[1]))
    BY DEF Connect
  <1>3. script[1] \in Headers /\ 1 \in 0..Len(script)
    BY ScriptTypes DEF ClientInv, ClientTypes
  <1>4. ClientTypes'
    BY <1>1, <1>2, <1>3, BytesOf DEF ClientInv, ClientTypes
  <1>5. DownInv'
    BY <1>1, DownSame DEF ClientInv, DownInv
  <1> QED BY <1>4, <1>5 DEF ClientInv

LEMMA StepSendPacket == ASSUME ClientInv, SendPacket PROVE ClientInv'
  <1>1. /\ script' = script /\ hungUp' = hungUp /\ client' = client /\ client # "off"
        /\ UNCHANGED <<part, io, down, current, shown, queued, answered>>
    BY DEF SendPacket, sendVars
  <1>2. /\ sent' = sent + 1 /\ sent < Len(script) /\ up' = up \o Bytes(script[sent + 1])
    BY DEF SendPacket
  <1>3. Len(script) \in Nat /\ sent \in Nat /\ sent + 1 \in 1..Len(script)
    BY <1>2, ScriptTypes DEF ClientInv, ClientTypes
  <1>4. script[sent + 1] \in Headers
    BY <1>3, ScriptTypes DEF ClientInv, ClientTypes
  <1>5. up' \in Seq(Nat)
    BY <1>2, <1>4, BytesOf, ConcatProperties DEF ClientInv, ClientTypes
  <1>6. ClientTypes'
    BY <1>1, <1>2, <1>3, <1>5 DEF ClientInv, ClientTypes
  <1>7. DownInv'
    BY <1>1, DownSame DEF ClientInv, DownInv
  <1> QED BY <1>6, <1>7 DEF ClientInv

LEMMA StepClientRecv == ASSUME ClientInv, ClientRecv PROVE ClientInv'
  <1>1. PICK n \in 1..Len(down) : io' = Take(down, n) /\ down' = Drop(down, n)
    BY DEF ClientRecv
  <1>2. /\ client = "posted" /\ client' = "assemble"
        /\ UNCHANGED <<script, sent, part, current, shown, hungUp, up, queued, answered>>
    BY DEF ClientRecv, sendVars
  <1>3. /\ part \in Seq(Nat) /\ io \in Seq(Nat) /\ down \in Seq(Nat) /\ io = <<>> /\ Len(io) = 0
        /\ Len(part) \in Nat /\ Len(down) \in Nat /\ n \in 0..Len(down)
    BY <1>2, NotEmpty, Empty DEF ClientInv, ClientTypes, DownInv
  <1>4. /\ io' \in Seq(Nat) /\ Len(io') = n /\ down' \in Seq(Nat) /\ Len(down') = Len(down) - n
    BY <1>1, <1>3, Cut
  <1>5. Lies(Answers, Len(part), down)
    <2>1. Len(part) + Len(io) = Len(part)
      BY <1>3
    <2> QED BY <2>1 DEF ClientInv, DownInv
  <1>6. Lies(Answers, Len(part), io') /\ Lies(Answers, Len(part) + Len(io'), down')
    BY <1>1, <1>3, <1>4, <1>5, LiesCut
  <1>7. Len(part') + Len(io') + Len(down') = 3 * (answered' - queued' - Len(shown'))
    <2>1. Len(part) + Len(io') + Len(down') = Len(part) + Len(io) + Len(down)
      BY <1>3, <1>4
    <2> QED BY <1>2, <2>1 DEF ClientInv, DownInv
  <1>8. DownInv'
    BY <1>2, <1>6, <1>7 DEF ClientInv, DownInv, Lies
  <1>9. ClientTypes'
    BY <1>2, <1>4 DEF ClientInv, ClientTypes
  <1> QED BY <1>8, <1>9 DEF ClientInv

\* ProcessPacket is given an answer that was sent and not yet shown.
LEMMA StepAssemble ==
    ASSUME ClientInv, Assemble
    PROVE  ClientInv' /\ (shown' = shown \/ (Len(shown) < answered /\ shown' = Append(shown, Pong)))
  <1>1. PICK p, d, n, m : /\ p = Len(part) /\ d = Len(down) /\ n = Len(io)
                          /\ m = answered - queued - Len(shown)
    OBVIOUS
  <1>2. /\ part \in Seq(Nat) /\ io \in Seq(Nat) /\ down \in Seq(Nat) /\ shown \in Seq(Seq(Nat))
        /\ p \in Nat /\ d \in Nat /\ n \in Nat /\ m \in Int /\ Len(shown) \in Nat
        /\ p + n + d = 3 * m /\ p < 3 /\ current = IF part = <<>> THEN 0 ELSE 3
        /\ Lies(Answers, 0, part) /\ Lies(Answers, p, io) /\ Lies(Answers, p + n, down)
    BY <1>1, NotEmpty DEF ClientInv, ClientTypes, DownInv
  <1>3. /\ client = "assemble" /\ io # <<>>
        /\ UNCHANGED <<script, sent, client, hungUp, up, down, queued, answered>>
    BY DEF Assemble, sendVars
  <1>4. n > 0
    BY <1>1, <1>2, <1>3, NotEmpty
  <1>5. (IF current = 0 THEN io[1] ELSE current) = 3
    <2>1. CASE part = <<>>
      <3>1. p = 0 /\ 1 \in 1..Len(io) /\ p + 1 = 1
        BY <1>1, <1>2, <1>4, <2>1, Empty
      <3>2. io[1] = Answers[p + 1]
        BY <1>2, <3>1 DEF Lies
      <3>3. Answers[1] = Pong[1]
        BY PongsRepeat DEF Answers
      <3> QED BY <1>2, <2>1, <3>1, <3>2, <3>3, PongIs
    <2>2. CASE part # <<>>
      BY <1>2, <2>2
    <2> QED BY <2>1, <2>2
  <1>6. /\ 3 - p <= n => /\ shown' = Append(shown, part \o Take(io, 3 - p))
                         /\ part' = <<>> /\ current' = 0 /\ io' = Drop(io, 3 - p)
        /\ ~(3 - p <= n) => part' = part \o io /\ current' = 3 /\ io' = <<>> /\ shown' = shown
    BY <1>1, <1>2, <1>5 DEF Assemble, Remained
  <1>7. CASE 3 - p <= n
    <2>1. 3 - p \in 0..Len(io) /\ p + (3 - p) = 3
      BY <1>1, <1>2, <1>7
    <2>2. /\ Take(io, 3 - p) \in Seq(Nat) /\ Len(Take(io, 3 - p)) = 3 - p
          /\ Drop(io, 3 - p) \in Seq(Nat) /\ Len(Drop(io, 3 - p)) = n - (3 - p)
      BY <1>1, <1>2, <2>1, Cut
    <2>3. Lies(Answers, p, Take(io, 3 - p)) /\ Lies(Answers, p + (3 - p), Drop(io, 3 - p))
      BY <1>2, <2>1, LiesCut
    <2>4. /\ part \o Take(io, 3 - p) \in Seq(Nat) /\ Len(part \o Take(io, 3 - p)) = 3
          /\ Lies(Answers, 0, part \o Take(io, 3 - p))
      <3>1. 0 \in Nat /\ Lies(Answers, 0 + Len(part), Take(io, 3 - p))
        BY <1>1, <1>2, <2>3
      <3>2. /\ part \o Take(io, 3 - p) \in Seq(Nat)
            /\ Len(part \o Take(io, 3 - p)) = Len(part) + Len(Take(io, 3 - p))
            /\ Lies(Answers, 0, part \o Take(io, 3 - p))
        BY <1>2, <2>2, <3>1, LiesJoin
      <3> QED BY <1>1, <1>2, <2>2, <3>2
    <2>5. shown' \in Seq(Seq(Nat)) /\ Len(shown') = Len(shown) + 1
      <3>1. shown' = Append(shown, part \o Take(io, 3 - p)) /\ part \o Take(io, 3 - p) \in Seq(Nat)
        BY <1>6, <1>7, <2>4
      <3>2. shown \in Seq(Seq(Nat))
        BY <1>2
      <3> QED BY <3>1, <3>2, AppendProperties
    <2>6. part' = <<>> /\ current' = 0 /\ io' \in Seq(Nat) /\ Len(io') = n - (3 - p)
      BY <1>6, <1>7, <2>2
    <2>7. Lies(Answers, 0, io') /\ Lies(Answers, n - (3 - p), down)
      <3>1. Lies(Answers, 0 + 3, io') /\ io' \in Seq(Nat)
        BY <1>6, <1>7, <2>1, <2>3, <2>6
      <3>2. p + n = (n - (3 - p)) + 3 /\ n - (3 - p) \in Nat
        BY <1>2, <1>7
      <3>3. Lies(Answers, (n - (3 - p)) + 3, down)
        BY <1>2, <3>2
      <3> QED BY <1>2, <3>1, <3>2, <3>3, AnswersRepeat
    <2>8. Len(part') = 0
      BY <2>6, Empty
    <2>9. Len(part') + Len(io') + Len(down') = 3 * (answered' - queued' - Len(shown'))
      <3>1. answered' - queued' - Len(shown') = m - 1
        BY <1>1, <1>2, <1>3, <2>5 DEF ClientInv, ClientTypes
      <3>2. Len(part') + Len(io') + Len(down') = 0 + (n - (3 - p)) + d
        BY <1>1, <1>3, <2>6, <2>8
      <3>3. 0 + (n - (3 - p)) + d = 3 * (m - 1)
        BY <1>2
      <3> QED BY <3>1, <3>2, <3>3
    <2>10. /\ Lies(Answers, 0, part')
           /\ Lies(Answers, Len(part'), io')
           /\ Lies(Answers, Len(part') + Len(io'), down')
      <3>1. Len(part') + Len(io') = n - (3 - p)
        BY <1>2, <2>6, <2>8
      <3> QED BY <1>3, <2>6, <2>7, <2>8, <3>1, Empty
    <2>11. ClientTypes'
      BY <1>3, <2>5, <2>6, Empty DEF ClientInv, ClientTypes
    <2>12. DownInv'
      BY <1>3, <2>6, <2>8, <2>9, <2>10 DEF DownInv, Lies
    <2>13. Len(shown) < answered
      <3>1. queued \in Nat /\ answered \in Nat /\ 3 * m > 0
        BY <1>2, <1>7 DEF ClientInv, ClientTypes
      <3>2. m > 0
        BY <1>2, <3>1
      <3> QED BY <1>1, <1>2, <3>1, <3>2
    <2>14. shown' = Append(shown, Pong)
      BY <1>6, <1>7, <2>4, FirstAnswer
    <2> QED BY <2>11, <2>12, <2>13, <2>14 DEF ClientInv
  <1>8. CASE ~(3 - p <= n)
    <2>1. part' = part \o io /\ current' = 3 /\ io' = <<>> /\ shown' = shown
      BY <1>6, <1>8
    <2>2. 0 \in Nat /\ Lies(Answers, 0 + Len(part), io)
      BY <1>1, <1>2
    <2>3. part' \in Seq(Nat) /\ Len(part') = p + n /\ Lies(Answers, 0, part')
      BY <1>1, <1>2, <2>1, <2>2, LiesJoin
    <2>4. Len(io') = 0 /\ Len(part') + Len(io') = p + n
      BY <1>2, <2>1, <2>3, Empty
    <2>5. Len(part') < 3 /\ Len(part') > 0 /\ part' # <<>>
      BY <1>2, <1>4, <1>8, <2>3, Empty
    <2>6. Len(part') + Len(io') + Len(down') = 3 * (answered' - queued' - Len(shown'))
      BY <1>1, <1>2, <1>3, <2>1, <2>4
    <2>7. Lies(Answers, Len(part'), io') /\ Lies(Answers, Len(part') + Len(io'), down')
      BY <1>2, <1>3, <2>1, <2>4, Empty
    <2>8. ClientTypes'
      BY <1>3, <2>1, <2>3, Empty DEF ClientInv, ClientTypes
    <2>9. DownInv'
      BY <1>3, <2>1, <2>3, <2>5, <2>6, <2>7 DEF DownInv, Lies
    <2> QED BY <2>1, <2>8, <2>9 DEF ClientInv
  <1> QED BY <1>7, <1>8

LEMMA StepTransmit == ASSUME ClientInv, Transmit PROVE ClientInv'
  <1>1. PICK k \in 1..queued : down' = down \o Pongs(k) /\ queued' = queued - k
    BY DEF Transmit
  <1>2. UNCHANGED <<script, sent, client, io, part, current, shown, hungUp, up, answered>>
    BY DEF Transmit, clientVars
  <1>3. PICK m : m = answered - queued - Len(shown)
    OBVIOUS
  <1>4. /\ part \in Seq(Nat) /\ io \in Seq(Nat) /\ down \in Seq(Nat) /\ queued \in Nat /\ answered \in Nat
        /\ Len(part) \in Nat /\ Len(io) \in Nat /\ Len(down) \in Nat /\ Len(shown) \in Nat
        /\ m \in Int /\ k \in Nat
    BY <1>3, NotEmpty, LenProperties DEF ClientInv, ClientTypes
  <1>5. PICK a \in Nat, d \in Nat : a = Len(part) + Len(io) /\ d = Len(down)
    BY <1>4
  <1> DEFINE b == Pongs(k)
  <1>6. a + d = 3 * m /\ m \in Nat
    <2>1. a + d = 3 * m
      BY <1>3, <1>5 DEF ClientInv, DownInv
    <2> QED BY <1>4, <1>5, <2>1
  <1>7. b \in Seq(Nat) /\ Len(b) = 3 * k /\ Lies(Answers, a + d, b)
    BY <1>4, <1>5, <1>6, PongsLie
  <1>8. Lies(Answers, a, down)
    BY <1>5 DEF ClientInv, DownInv
  <1>9. down' \in Seq(Nat) /\ Len(down') = d + 3 * k /\ Lies(Answers, a, down')
    <2>1. Lies(Answers, a + Len(down), b)
      BY <1>5, <1>7
    <2>2. down \o b \in Seq(Nat) /\ Len(down \o b) = Len(down) + Len(b) /\ Lies(Answers, a, down \o b)
      BY <1>4, <1>7, <1>8, <2>1, LiesJoin
    <2> QED BY <1>1, <1>5, <1>7, <2>2
  <1>10. Len(part') + Len(io') + Len(down') = 3 * (answered' - queued' - Len(shown'))
    <2>1. answered' - queued' - Len(shown') = m + k
      BY <1>1, <1>2, <1>3, <1>4
    <2>2. Len(part') + Len(io') = a
      BY <1>2, <1>5
    <2>3. Len(part') + Len(io') + Len(down') = a + (d + 3 * k)
      BY <1>9, <2>2
    <2>4. 3 * (answered' - queued' - Len(shown')) = 3 * (m + k)
      BY <2>1
    <2>5. a + (d + 3 * k) = 3 * (m + k)
      <3>1. a \in Nat /\ d \in Nat /\ k \in Nat /\ m \in Nat
        BY <1>4, <1>5, <1>6
      <3>2. a + d = 3 * m
        BY <1>6
      <3>3. a + (d + 3 * k) = (a + d) + 3 * k
        BY <3>1
      <3>4. 3 * (m + k) = 3 * m + 3 * k
        BY <3>1
      <3> QED BY <3>2, <3>3, <3>4
    <2> QED BY <2>3, <2>4, <2>5
  <1>11. queued' \in Nat
    BY <1>1, <1>4
  <1>12. ClientTypes'
    BY <1>2, <1>9, <1>11 DEF ClientInv, ClientTypes
  <1>13. DownInv'
    <2>1. Lies(Answers, Len(part') + Len(io'), down')
      BY <1>2, <1>5, <1>9
    <2> QED BY <1>2, <1>10, <2>1 DEF ClientInv, DownInv, Lies
  <1> QED BY <1>12, <1>13 DEF ClientInv

\* Only pings change what is to be sent; the rest leaves it alone.
LEMMA StepOther ==
    ASSUME ClientInv,
           UNCHANGED <<script, sent, io, part, current, shown, down>>,
           client' = client \/ (client # "off" /\ client' \in {"posted", "over"} /\ io = <<>>),
           hungUp' \in BOOLEAN, up' \in Seq(Nat), client = "off" => up' = up,
           answered' - queued' = answered - queued, queued' \in Nat, answered' \in Nat
    PROVE  ClientInv'
  <1>1. ClientTypes'
    BY DEF ClientInv, ClientTypes
  <1>2. Len(part') + Len(io') + Len(down') = 3 * (answered' - queued' - Len(shown'))
    BY DEF ClientInv, DownInv
  <1>3. DownInv'
    BY <1>2 DEF ClientInv, DownInv, Lies
  <1> QED BY <1>1, <1>3 DEF ClientInv

LEMMA ClientStepHolds == ASSUME ClientInv, [Next]_vars PROVE ClientInv'
  <1>1. ClientTypes /\ up \in Seq(Nat) /\ hungUp \in BOOLEAN /\ queued \in Nat /\ answered \in Nat
    BY DEF ClientInv, ClientTypes
  <1>2. CASE HangUp
    BY <1>1, <1>2, StepOther DEF HangUp, sendVars
  <1>3. CASE ClientRead
    BY <1>1, <1>3, StepOther DEF ClientRead, sendVars
  <1>4. CASE ClientEnds
    <2>1. io = <<>>
      BY <1>4 DEF ClientEnds, ClientInv, DownInv
    <2> QED BY <1>1, <1>4, <2>1, StepOther DEF ClientEnds, sendVars
  <1>5. CASE Complete
    <2>1. up' \in Seq(Nat) /\ (up = <<>> => up' = up)
      <3>1. CASE up' = up
        BY <1>1, <3>1
      <3>2. CASE \E n \in 1..Len(up) : up' = Drop(up, n)
        <4>1. PICK n \in 1..Len(up) : up' = Drop(up, n)
          BY <3>2
        <4>2. n \in 0..Len(up) /\ Len(up) # 0
          BY <1>1, <4>1, NotEmpty
        <4> QED BY <1>1, <4>1, <4>2, Cut, Empty
      <3> QED BY <1>5, <3>1, <3>2 DEF Complete
    <2> QED BY <1>1, <1>5, <2>1, StepOther DEF Complete, clientVars, sendVars, ClientTypes
  <1>6. ASSUME NEW w \in Workers, Process(w) PROVE ClientInv'
    <2>1. UNCHANGED <<clientVars, up, down>>
      BY <1>6 DEF Process, Advance
    <2>2. (queued' = queued + 1 /\ answered' = answered + 1) \/ UNCHANGED <<queued, answered>>
      BY <1>6 DEF Process
    <2>3. answered' - queued' = answered - queued /\ queued' \in Nat /\ answered' \in Nat
      BY <1>1, <2>2
    <2> QED BY <1>1, <2>1, <2>3, StepOther DEF clientVars
  <1>7. CASE UNCHANGED <<clientVars, up, down, queued, answered>>
    BY <1>1, <1>7, StepOther DEF clientVars
  <1>8. CASE FirstRead
    BY <1>7, <1>8 DEF FirstRead, sendVars
  <1>9. ASSUME NEW w \in Workers,
               ReadCallback(w) \/ Read(w) \/ BadSize(w) \/ CloseHandle(w) \/ DequeueWrite(w) \/ WriteCallback(w)
        PROVE  ClientInv'
    BY <1>7, <1>9 DEF ReadCallback, Read, BadSize, CloseHandle, DequeueWrite, WriteCallback, sendVars
  <1>10. CASE UNCHANGED vars
    BY <1>7, <1>10 DEF vars, sendVars
  <1> QED BY <1>2, <1>3, <1>4, <1>5, <1>6, <1>8, <1>9, <1>10, StepConnect, StepSendPacket,
             StepClientRecv, StepAssemble, StepTransmit DEF Next, ClientStep, OnRead

-----------------------------------------------------------------------------
\* The read buffer of the server.

ReadTypes ==
    /\ chain \in {"off", "posted", "completed", "framing", "closing", "over"}
    /\ closed \in {"no", "end", "pending", "size"} /\ hungUp \in BOOLEAN
    /\ reader \in Workers \union {Nobody}
    /\ got \in Seq(Nat) /\ m_pReadBuf \in Seq(Nat) /\ handled \in Seq(Seq(Nat))
    /\ szBuffer \in Nat /\ dwSize \in Nat

\* A read that is posted has room, so one that takes nothing is the end of the
\* stream; OnRead has what is behind szBuffer left of the buffer.
RoomInv ==
    /\ chain # "completed" => got = <<>>
    /\ chain = "off" => m_pReadBuf = <<>>
    /\ chain = "posted" => Len(m_pReadBuf) < BUFFER_SIZE
    /\ chain = "completed" /\ got = <<>> => hungUp
    /\ chain = "framing" => szBuffer + dwSize = Len(m_pReadBuf)
    /\ Len(m_pReadBuf) + Len(got) <= BUFFER_SIZE
    /\ szBuffer + dwSize <= BUFFER_SIZE
    /\ closed = "end" => hungUp

ReadInv == ReadTypes /\ RoomInv

LEMMA ReadInit == Init => ReadInv
  <1> SUFFICES ASSUME Init PROVE ReadInv
    OBVIOUS
  <1>1. /\ chain = "off" /\ got = <<>> /\ m_pReadBuf = <<>> /\ szBuffer = 0 /\ dwSize = 0
        /\ reader = Nobody /\ handled = <<>> /\ closed = "no" /\ hungUp = FALSE
    BY DEF Init
  <1>2. BUFFER_SIZE \in Nat /\ BUFFER_SIZE > 3
    BY FramingOK DEF PACKET_RESERVED_LENGTH
  <1>3. RoomInv
    BY <1>1, <1>2, Empty DEF RoomInv
  <1>4. ReadTypes
    BY <1>1, Empty DEF ReadTypes
  <1> QED BY <1>3, <1>4 DEF ReadInv

LEMMA ReadComplete == ASSUME ReadInv, ClientInv, Complete PROVE ReadInv'
  <1>1. /\ chain = "posted" /\ chain' = "completed"
        /\ UNCHANGED <<hungUp, m_pReadBuf, szBuffer, dwSize, reader, handled, closed>>
    BY DEF Complete, clientVars
  <1>2. Len(m_pReadBuf) \in Nat /\ BUFFER_SIZE \in Nat /\ up \in Seq(Nat) /\ Len(up) \in Nat
    BY FramingOK, NotEmpty DEF ReadInv, ReadTypes, ClientInv, ClientTypes
  <1>3. CASE \E n \in 1..Len(up) : n <= Room /\ got' = Take(up, n)
    <2>1. PICK n \in 1..Len(up) : n <= Room /\ got' = Take(up, n)
      BY <1>3
    <2>2. n \in 0..Len(up) /\ n > 0
      BY <1>2
    <2>3. got' \in Seq(Nat) /\ Len(got') = n
      BY <1>2, <2>1, <2>2, Cut
    <2>4. got' # <<>> /\ Len(m_pReadBuf) + Len(got') <= BUFFER_SIZE
      BY <1>2, <2>1, <2>2, <2>3, Empty DEF Room
    <2> QED BY <1>1, <2>3, <2>4 DEF ReadInv, ReadTypes, RoomInv
  <1>4. CASE ((hungUp /\ up = <<>>) \/ Room = 0) /\ got' = <<>>
    <2>1. Room # 0
      BY <1>1, <1>2 DEF Room, ReadInv, RoomInv
    <2>2. hungUp
      BY <1>4, <2>1
    <2>3. Len(m_pReadBuf) + Len(got') <= BUFFER_SIZE
      BY <1>1, <1>2, <1>4, Empty DEF ReadInv, RoomInv
    <2> QED BY <1>1, <1>4, <2>2, <2>3, Empty DEF ReadInv, ReadTypes, RoomInv
  <1> QED BY <1>3, <1>4 DEF Complete

LEMMA ReadReadCallback == ASSUME ReadInv, NEW w \in Workers, ReadCallback(w) PROVE ReadInv'
  <1>1. /\ chain = "completed" /\ reader' = w /\ hungUp' = hungUp /\ handled' = handled
        /\ m_pReadBuf' = m_pReadBuf \o got /\ got' = <<>> /\ szBuffer' = 0 /\ dwSize' = Len(m_pReadBuf')
    BY DEF ReadCallback, clientVars
  <1>2. /\ got \in Seq(Nat) /\ m_pReadBuf \in Seq(Nat) /\ Len(got) \in Nat /\ Len(m_pReadBuf) \in Nat
        /\ Len(m_pReadBuf) + Len(got) <= BUFFER_SIZE
    BY NotEmpty DEF ReadInv, ReadTypes, RoomInv
  <1>3. m_pReadBuf' \in Seq(Nat) /\ Len(m_pReadBuf') = Len(m_pReadBuf) + Len(got)
    BY <1>1, <1>2, ConcatProperties
  <1>4. /\ chain' \in {"framing", "closing"}
        /\ closed' \in {closed, "end", "pending"} /\ (closed' = "end" /\ closed # "end" => got = <<>>)
    BY DEF ReadCallback, Close
  <1>5. closed' = "end" => hungUp
    BY <1>1, <1>4 DEF ReadInv, RoomInv
  <1>6. RoomInv'
    BY <1>1, <1>2, <1>3, <1>4, <1>5, Empty, FramingOK DEF RoomInv
  <1>7. ReadTypes'
    BY <1>1, <1>2, <1>3, <1>4, Empty DEF ReadInv, ReadTypes
  <1> QED BY <1>6, <1>7 DEF ReadInv

LEMMA ReadRead == ASSUME ReadInv, NEW w \in Workers, Read(w) PROVE ReadInv'
  <1>1. /\ chain = "framing" /\ chain' \in {"posted", "closing"} /\ reader' \in {reader, Nobody}
        /\ UNCHANGED <<hungUp, got, szBuffer, dwSize, handled>> /\ m_pReadBuf' = Rest(dwSize)
        /\ closed' = closed \/ (closed' = "end" /\ hungUp)
    BY DEF Read, PostRead, Close, clientVars
  <1>2. PICK l : l = Len(m_pReadBuf)
    OBVIOUS
  <1>3. /\ m_pReadBuf \in Seq(Nat) /\ l \in Nat /\ szBuffer \in Nat /\ dwSize \in Nat
        /\ szBuffer + dwSize = l /\ l - dwSize = szBuffer /\ szBuffer \in 0..Len(m_pReadBuf) /\ l <= BUFFER_SIZE
        /\ BUFFER_SIZE \in Nat /\ BUFFER_SIZE > 3 /\ got = <<>>
    BY <1>1, <1>2, NotEmpty, FramingOK, Empty DEF ReadInv, ReadTypes, RoomInv, PACKET_RESERVED_LENGTH
  <1>4. m_pReadBuf' = Drop(m_pReadBuf, szBuffer)
    BY <1>1, <1>2, <1>3 DEF Rest
  <1>5. m_pReadBuf' \in Seq(Nat) /\ Len(m_pReadBuf') = dwSize
    <2>0. PICK q \in Seq(Nat) : q = m_pReadBuf
      BY <1>3
    <2>1. PICK o \in 0..Len(q), d \in Nat : o = szBuffer /\ d = dwSize
      BY <1>3, <2>0
    <2>2. Drop(q, o) \in Seq(Nat) /\ Len(Drop(q, o)) = Len(q) - o
      BY Cut
    <2>3. Len(q) - o = d
      BY <1>2, <1>3, <2>0, <2>1
    <2> QED BY <1>4, <2>0, <2>1, <2>2, <2>3
  <1>6. dwSize < BUFFER_SIZE
    <2>1. ~PacketThere /\ (HeaderThere => nSize <= BUFFER_SIZE)
      BY DEF Read
    <2>2. CASE ~HeaderThere
      BY <1>3, <2>2 DEF HeaderThere, PACKET_RESERVED_LENGTH
    <2>3. CASE HeaderThere
      <3>1. szBuffer + 1 \in 1..Len(m_pReadBuf)
        BY <1>2, <1>3, <2>3 DEF HeaderThere, PACKET_RESERVED_LENGTH
      <3>2. nSize \in Nat
        BY <1>3, <3>1, ElementOfSeq DEF nSize
      <3>3. ~(dwSize >= nSize) /\ nSize <= BUFFER_SIZE
        BY <2>1, <2>3 DEF PacketThere
      <3> QED BY <1>3, <3>2, <3>3
    <2> QED BY <2>2, <2>3
  <1>7. RoomInv'
    BY <1>1, <1>2, <1>3, <1>5, <1>6, Empty DEF ReadInv, RoomInv
  <1>8. ReadTypes'
    BY <1>1, <1>3, <1>5 DEF ReadInv, ReadTypes
  <1> QED BY <1>7, <1>8 DEF ReadInv

LEMMA ReadProcess == ASSUME ReadInv, NEW w \in Workers, Process(w) PROVE ReadInv'
  <1>1. /\ chain = "framing" /\ UNCHANGED <<chain, got, m_pReadBuf, reader, closed, hungUp>>
        /\ PacketThere /\ nSize >= 3
        /\ handled' = Append(handled, SubSeq(m_pReadBuf, szBuffer + 1, szBuffer + nSize))
        /\ dwSize' = dwSize - nSize /\ szBuffer' = szBuffer + nSize
    BY DEF Process, Advance, clientVars, PACKET_RESERVED_LENGTH
  <1>2. PICK l : l = Len(m_pReadBuf)
    OBVIOUS
  <1>3. /\ m_pReadBuf \in Seq(Nat) /\ l \in Nat /\ szBuffer \in Nat /\ dwSize \in Nat
        /\ szBuffer + dwSize = l /\ dwSize >= 3 /\ handled \in Seq(Seq(Nat))
    BY <1>1, <1>2, NotEmpty
       DEF ReadInv, ReadTypes, RoomInv, PacketThere, HeaderThere, PACKET_RESERVED_LENGTH
  <1>4. PICK n : n = nSize
    OBVIOUS
  <1>5. n \in Nat /\ n >= 3 /\ dwSize >= n
    <2>1. szBuffer + 1 \in 1..Len(m_pReadBuf)
      BY <1>2, <1>3
    <2>2. nSize \in Nat
      BY <1>3, <2>1, ElementOfSeq DEF nSize
    <2> QED BY <1>1, <1>4, <2>2 DEF PacketThere
  <1>6. SubSeq(m_pReadBuf, szBuffer + 1, szBuffer + n) \in Seq(Nat)
    <2>1. \A i \in (szBuffer + 1)..(szBuffer + n) : m_pReadBuf[i] \in Nat
      <3>1. \A i \in (szBuffer + 1)..(szBuffer + n) : i \in 1..Len(m_pReadBuf)
        BY <1>2, <1>3, <1>5
      <3> QED BY <1>3, <3>1, ElementOfSeq
    <2>2. szBuffer + 1 \in Int /\ szBuffer + n \in Int
      BY <1>3, <1>5
    <2> QED BY <2>1, <2>2, SubSeqProperties
  <1>7. handled' \in Seq(Seq(Nat))
    BY <1>1, <1>3, <1>4, <1>6, AppendProperties
  <1>8. dwSize' \in Nat /\ szBuffer' \in Nat /\ szBuffer' + dwSize' = szBuffer + dwSize
    BY <1>1, <1>3, <1>4, <1>5
  <1>9. RoomInv'
    BY <1>1, <1>8 DEF ReadInv, RoomInv
  <1>10. ReadTypes'
    BY <1>1, <1>7, <1>8 DEF ReadInv, ReadTypes
  <1> QED BY <1>9, <1>10 DEF ReadInv

LEMMA ReadStep == ASSUME ReadInv, ClientInv, [Next]_vars PROVE ReadInv'
  <1>1. CASE UNCHANGED <<readVars, hungUp>>
    BY <1>1 DEF readVars, ReadInv, ReadTypes, RoomInv
  <1>2. CASE HangUp
    BY <1>2 DEF HangUp, readVars, ReadInv, ReadTypes, RoomInv
  <1>3. CASE Connect \/ SendPacket \/ ClientStep \/ Transmit
    <2>1. UNCHANGED readVars /\ UNCHANGED hungUp
      BY <1>3
         DEF Connect, SendPacket, ClientStep, ClientRecv, Assemble, ClientRead, ClientEnds, Transmit,
             clientVars
    <2> QED BY <1>1, <2>1
  <1>4. CASE FirstRead
    <2>1. /\ chain = "off" /\ chain' = "posted"
          /\ UNCHANGED <<got, m_pReadBuf, szBuffer, dwSize, reader, handled, closed, hungUp>>
      BY <1>4 DEF FirstRead, clientVars
    <2>2. Len(m_pReadBuf') < BUFFER_SIZE
      BY <2>1, FramingOK, Empty DEF ReadInv, RoomInv, PACKET_RESERVED_LENGTH
    <2> QED BY <2>1, <2>2 DEF ReadInv, ReadTypes, RoomInv
  <1>5. ASSUME NEW w \in Workers, BadSize(w) \/ CloseHandle(w) PROVE ReadInv'
    <2>1. /\ chain \in {"framing", "closing"} /\ chain' \in {"closing", "over"} /\ reader' \in {reader, Nobody}
          /\ UNCHANGED <<got, m_pReadBuf, szBuffer, dwSize, handled, hungUp>> /\ closed' \in {closed, "size"}
      BY <1>5 DEF BadSize, CloseHandle, Close, clientVars
    <2> QED BY <2>1 DEF ReadInv, ReadTypes, RoomInv
  <1>6. ASSUME NEW w \in Workers, DequeueWrite(w) \/ WriteCallback(w) PROVE ReadInv'
    BY <1>1, <1>6 DEF DequeueWrite, WriteCallback, clientVars
  <1>7. CASE UNCHANGED vars
    BY <1>1, <1>7 DEF vars, clientVars
  <1> QED BY <1>2, <1>3, <1>4, <1>5, <1>6, <1>7, ReadComplete, ReadReadCallback, ReadRead, ReadProcess
       DEF Next, OnRead

-----------------------------------------------------------------------------
\* The answers that wait to be sent.

SendTypes ==
    /\ {writer, m_lock} \subseteq Workers \union {Nobody}
    /\ queued \in Nat /\ inFlight \in Nat
    /\ m_nPendingWrite = 3 * queued + inFlight

\* What OnRead may have added to what it found: it queues three bytes for at
\* least three it goes on in the buffer.
PendInv == m_nPendingWrite <= PENDING_WRITE + (IF chain = "framing" THEN szBuffer ELSE BUFFER_SIZE)

SendInv == SendTypes /\ PendInv

LEMMA SendInit == Init => SendInv
  <1> SUFFICES ASSUME Init PROVE SendInv
    OBVIOUS
  <1>1. /\ chain = "off" /\ writer = Nobody /\ m_lock = Nobody
        /\ queued = 0 /\ inFlight = 0 /\ m_nPendingWrite = 0
    BY DEF Init
  <1>2. BUFFER_SIZE \in Nat /\ PENDING_WRITE \in Nat
    BY FramingOK
  <1>3. PendInv
    BY <1>1, <1>2 DEF PendInv
  <1>4. SendTypes
    BY <1>1 DEF SendTypes
  <1> QED BY <1>3, <1>4 DEF SendInv

LEMMA SendStep == ASSUME SendInv, ReadInv, ReadInv', [Next]_vars PROVE SendInv'
  <1>1. /\ BUFFER_SIZE \in Nat /\ PENDING_WRITE \in Nat /\ szBuffer \in Nat /\ szBuffer <= BUFFER_SIZE
        /\ queued \in Nat /\ inFlight \in Nat /\ m_nPendingWrite \in Nat
        /\ m_nPendingWrite = 3 * queued + inFlight
        /\ m_nPendingWrite <= PENDING_WRITE + (IF chain = "framing" THEN szBuffer ELSE BUFFER_SIZE)
        /\ m_nPendingWrite <= PENDING_WRITE + BUFFER_SIZE
    <2>1. BUFFER_SIZE \in Nat /\ PENDING_WRITE \in Nat
      BY FramingOK
    <2>2. szBuffer \in Nat /\ dwSize \in Nat /\ szBuffer + dwSize <= BUFFER_SIZE
      BY DEF ReadInv, ReadTypes, RoomInv
    <2>3. queued \in Nat /\ inFlight \in Nat /\ m_nPendingWrite = 3 * queued + inFlight
      BY DEF SendInv, SendTypes
    <2>4. m_nPendingWrite <= PENDING_WRITE + (IF chain = "framing" THEN szBuffer ELSE BUFFER_SIZE)
      BY DEF SendInv, PendInv
    <2>5. m_nPendingWrite \in Nat /\ szBuffer <= BUFFER_SIZE
      BY <2>1, <2>2, <2>3
    <2>6. m_nPendingWrite <= PENDING_WRITE + BUFFER_SIZE
      BY <2>1, <2>2, <2>4, <2>5
    <2> QED BY <2>1, <2>2, <2>3, <2>4, <2>5, <2>6
  <1>2. SendTypes
    BY DEF SendInv
  <1>3. ASSUME UNCHANGED sendVars, UNCHANGED m_lock, UNCHANGED <<chain, szBuffer>> PROVE SendInv'
    BY <1>3 DEF sendVars, SendInv, SendTypes, PendInv
  <1>4. ASSUME UNCHANGED sendVars, UNCHANGED m_lock, chain' # "framing" PROVE SendInv'
    <2>1. PendInv'
      BY <1>1, <1>4 DEF sendVars, PendInv
    <2> QED BY <1>2, <1>4, <2>1 DEF sendVars, SendInv, SendTypes
  <1>5. CASE Connect \/ SendPacket \/ HangUp \/ ClientStep
    <2>1. UNCHANGED sendVars /\ UNCHANGED m_lock /\ UNCHANGED <<chain, szBuffer>>
      BY <1>5
         DEF Connect, SendPacket, HangUp, ClientStep, ClientRecv, Assemble, ClientRead, ClientEnds,
             readVars
    <2> QED BY <1>3, <2>1
  <1>6. CASE FirstRead \/ Complete
    <2>1. UNCHANGED sendVars /\ UNCHANGED m_lock /\ chain' # "framing"
      BY <1>6 DEF FirstRead, Complete
    <2> QED BY <1>4, <2>1
  <1>7. CASE Transmit
    <2>1. PICK k \in 1..queued : queued' = queued - k /\ inFlight' = k * PingSize
      BY <1>7 DEF Transmit
    <2>2. /\ UNCHANGED <<m_nPendingWrite, writer, m_lock, chain, szBuffer>> /\ inFlight = 0
      BY <1>7 DEF Transmit, readVars
    <2>3. inFlight' = 3 * k /\ k \in Nat /\ queued' \in Nat
      BY <1>1, <2>1 DEF PingSize
    <2>4. m_nPendingWrite' = 3 * queued' + inFlight'
      BY <1>1, <2>1, <2>2, <2>3
    <2>5. inFlight' \in Nat
      BY <2>3
    <2>6. SendTypes'
      BY <1>2, <2>2, <2>3, <2>4, <2>5 DEF SendTypes
    <2>7. PendInv'
      BY <2>2 DEF SendInv, PendInv
    <2> QED BY <2>6, <2>7 DEF SendInv
  <1>8. ASSUME NEW w \in Workers, ReadCallback(w) PROVE SendInv'
    <2>1. UNCHANGED sendVars /\ UNCHANGED m_lock /\ szBuffer' = 0
      BY <1>8 DEF ReadCallback
    <2>2. CASE chain' # "framing"
      BY <1>4, <2>1, <2>2
    <2>3. CASE chain' = "framing"
      <3>1. ~TooMuchPending
        BY <1>8, <2>3 DEF ReadCallback, Close
      <3>2. PendInv'
        BY <1>1, <2>1, <2>3, <3>1 DEF TooMuchPending, PendInv, sendVars
      <3> QED BY <1>2, <2>1, <3>2 DEF sendVars, SendInv, SendTypes
    <2> QED BY <2>2, <2>3
  <1>9. ASSUME NEW w \in Workers, Read(w) \/ BadSize(w) \/ CloseHandle(w) PROVE SendInv'
    <2>1. UNCHANGED sendVars /\ UNCHANGED m_lock /\ chain' # "framing"
      BY <1>9 DEF Read, BadSize, CloseHandle, PostRead, Close
    <2> QED BY <1>4, <2>1
  <1>10. ASSUME NEW w \in Workers, Process(w) PROVE SendInv'
    <2>1. /\ chain = "framing" /\ chain' = "framing" /\ szBuffer' = szBuffer + nSize /\ nSize >= 3
          /\ UNCHANGED <<writer, inFlight>> /\ m_lock' \in {w, m_lock}
      BY <1>10 DEF Process, Advance, PACKET_RESERVED_LENGTH
    <2>2. \/ m_nPendingWrite' = m_nPendingWrite + 3 /\ queued' = queued + 1
          \/ UNCHANGED <<m_nPendingWrite, queued>>
      BY <1>10 DEF Process, PingSize
    <2>3. PICK a : a = nSize
      OBVIOUS
    <2>4. a \in Nat /\ a >= 3 /\ szBuffer' = szBuffer + a
      <3>1. szBuffer + 1 \in 1..Len(m_pReadBuf) /\ m_pReadBuf \in Seq(Nat)
        <4>1. dwSize >= 3
          BY <1>10 DEF Process, PacketThere, HeaderThere, PACKET_RESERVED_LENGTH
        <4>2. dwSize \in Nat /\ szBuffer + dwSize = Len(m_pReadBuf) /\ m_pReadBuf \in Seq(Nat)
          BY <2>1 DEF ReadInv, ReadTypes, RoomInv
        <4> QED BY <1>1, <4>1, <4>2, NotEmpty
      <3>2. nSize \in Nat
        BY <3>1, ElementOfSeq DEF nSize
      <3> QED BY <2>1, <2>3, <3>2
    <2>5. m_nPendingWrite' = 3 * queued' + inFlight' /\ queued' \in Nat
      <3>1. CASE m_nPendingWrite' = m_nPendingWrite + 3 /\ queued' = queued + 1
        <4>1. queued' \in Nat /\ 3 * queued' = 3 * queued + 3
          BY <1>1, <3>1
        <4>2. inFlight' = inFlight
          BY <2>1
        <4> QED BY <1>1, <3>1, <4>1, <4>2
      <3>2. CASE UNCHANGED <<m_nPendingWrite, queued>>
        BY <1>1, <2>1, <3>2
      <3> QED BY <2>2, <3>1, <3>2
    <2>6. m_nPendingWrite' <= PENDING_WRITE + szBuffer'
      BY <1>1, <2>1, <2>2, <2>4
    <2>7. PendInv'
      BY <2>1, <2>6 DEF PendInv
    <2>8. SendTypes'
      BY <1>2, <2>1, <2>5 DEF SendTypes
    <2> QED BY <2>7, <2>8 DEF SendInv
  <1>11. ASSUME NEW w \in Workers, DequeueWrite(w) PROVE SendInv'
    BY <1>11 DEF DequeueWrite, readVars, SendInv, SendTypes, PendInv
  <1>12. ASSUME NEW w \in Workers, WriteCallback(w) PROVE SendInv'
    <2>1. /\ m_nPendingWrite' = m_nPendingWrite - inFlight /\ inFlight' = 0 /\ writer' = Nobody
          /\ UNCHANGED <<queued, m_lock, chain, szBuffer>>
      BY <1>12 DEF WriteCallback, readVars
    <2>2. m_nPendingWrite' = 3 * queued' + inFlight'
      BY <1>1, <2>1
    <2>3. PendInv'
      BY <1>1, <2>1 DEF PendInv
    <2>4. SendTypes'
      BY <1>2, <2>1, <2>2 DEF SendTypes
    <2> QED BY <2>3, <2>4 DEF SendInv
  <1>13. CASE UNCHANGED vars
    BY <1>3, <1>13 DEF vars, readVars
  <1> QED BY <1>5, <1>6, <1>7, <1>8, <1>9, <1>10, <1>11, <1>12, <1>13 DEF Next, OnRead

-----------------------------------------------------------------------------
\* The packets of the client on their way through the read buffer.

\* The first n packets of s, one behind the other, are the stream T: packet k
\* begins behind the first c[k - 1] bytes.
Cuts(c, T, s, n) ==
    /\ c \in [0..n -> Nat] /\ \A k \in 0..n : c[k] <= c[n]
    /\ \A k \in 1..n : c[k] = c[k - 1] + Size(s[k]) /\ Lies(T, c[k - 1], Bytes(s[k]))

\* What is behind the first h packets is in l, g and u.
Carried(c, T, n, h, l, g, u) ==
    /\ h \in 0..n
    /\ c[h] + Len(l) + Len(g) + Len(u) = c[n]
    /\ Lies(T, c[h], l)
    /\ Lies(T, c[h] + Len(l), g)
    /\ Lies(T, c[h] + Len(l) + Len(g), u)

\* A longer stream agrees with the old one as far as that goes.
LEMMA Longer == ASSUME NEW T, NEW e \in Nat, NEW b \in Seq(Nat)
                PROVE  \E U : /\ Lies(U, e, b)
                              /\ \A p \in Nat, q \in Seq(Nat) : p + Len(q) <= e /\ Lies(T, p, q) => Lies(U, p, q)
  <1> DEFINE U == [i \in Nat |-> IF i <= e THEN T[i] ELSE b[i - e]]
  <1>1. Lies(U, e, b)
    <2>1. ASSUME NEW i \in 1..Len(b) PROVE b[i] = U[e + i]
      <3>1. Len(b) \in Nat
        BY LenProperties
      <3>2. e + i \in Nat /\ ~(e + i <= e) /\ (e + i) - e = i
        BY <3>1
      <3> QED BY <3>2
    <2> QED BY <2>1 DEF Lies
  <1>2. ASSUME NEW p \in Nat, NEW q \in Seq(Nat), p + Len(q) <= e, Lies(T, p, q) PROVE Lies(U, p, q)
    <2>1. ASSUME NEW i \in 1..Len(q) PROVE q[i] = U[p + i]
      <3>1. Len(q) \in Nat
        BY LenProperties
      <3>2. p + i \in Nat /\ p + i <= e
        BY <1>2, <3>1
      <3>3. q[i] = T[p + i]
        BY <1>2 DEF Lies
      <3> QED BY <3>2, <3>3
    <2> QED BY <2>1 DEF Lies
  <1> QED BY <1>1, <1>2

LEMMA CutsTypes == ASSUME NEW c, NEW T, NEW s, NEW n \in Nat, Cuts(c, T, s, n), NEW k \in 0..n
                   PROVE  c[k] \in Nat /\ c[n] \in Nat /\ c[k] <= c[n]
  <1>1. n \in 0..n
    OBVIOUS
  <1> QED BY <1>1 DEF Cuts

\* The client sends one more.
LEMMA CarrySend ==
    ASSUME NEW s, NEW n \in Nat, NEW h, NEW c, NEW T,
           \A k \in 1..(n + 1) : s[k] \in Headers,
           NEW l \in Seq(Nat), NEW g \in Seq(Nat), NEW u \in Seq(Nat),
           Cuts(c, T, s, n), Carried(c, T, n, h, l, g, u)
    PROVE  \E d, U : Cuts(d, U, s, n + 1) /\ Carried(d, U, n + 1, h, l, g, u \o Bytes(s[n + 1]))
  <1>1. PICK b, z : b = Bytes(s[n + 1]) /\ z = Size(s[n + 1])
    OBVIOUS
  <1>2. b \in Seq(Nat) /\ Len(b) = z /\ z \in Nat /\ z >= 3
    <2>1. s[n + 1] \in Headers
      BY SMT
    <2> QED BY <1>1, <2>1, BytesOf
  <1>3. PICK e \in Nat : e = c[n]
    BY CutsTypes
  <1>4. PICK U : /\ Lies(U, e, b)
                 /\ \A p \in Nat, q \in Seq(Nat) : p + Len(q) <= e /\ Lies(T, p, q) => Lies(U, p, q)
    BY <1>2, Longer
  <1> DEFINE d == [k \in 0..(n + 1) |-> IF k = n + 1 THEN e + z ELSE c[k]]
  <1>5. /\ \A k \in 0..n : d[k] = c[k] /\ c[k] \in Nat /\ c[k] <= e
        /\ d[n + 1] = e + z /\ d[n] = e /\ d \in [0..(n + 1) -> Nat]
    <2>1. \A k \in 0..n : c[k] \in Nat /\ c[k] <= e
      BY <1>3, CutsTypes
    <2>2. \A k \in 0..(n + 1) : k = n + 1 \/ k \in 0..n
      OBVIOUS
    <2>3. \A k \in 0..n : k \in 0..(n + 1) /\ k # n + 1
      OBVIOUS
    <2>4. n + 1 \in 0..(n + 1) /\ n \in 0..n /\ e + z \in Nat
      BY <1>2
    <2>5. \A k \in 0..n : d[k] = c[k]
      BY <2>3
    <2>6. d[n + 1] = e + z /\ d[n] = e
      BY <1>3, <2>4, <2>5
    <2>7. d \in [0..(n + 1) -> Nat]
      BY <2>1, <2>2, <2>4
    <2> QED BY <2>1, <2>5, <2>6, <2>7
  <1> HIDE DEF d
  <1>6. Cuts(d, U, s, n + 1)
    <2>1. ASSUME NEW k \in 0..(n + 1) PROVE d[k] <= d[n + 1]
      <3>1. CASE k = n + 1
        BY <1>2, <1>5, <3>1
      <3>2. CASE k \in 0..n
        <4>1. d[k] \in Nat /\ d[k] <= e /\ d[n + 1] = e + z
          BY <1>5, <3>2
        <4> QED BY <1>2, <1>3, <4>1
      <3> QED BY <3>1, <3>2
    <2>2. ASSUME NEW k \in 1..(n + 1)
          PROVE  d[k] = d[k - 1] + Size(s[k]) /\ Lies(U, d[k - 1], Bytes(s[k]))
      <3>1. CASE k = n + 1
        <4>1. k - 1 = n
          BY <3>1
        <4> QED BY <1>1, <1>4, <1>5, <3>1, <4>1
      <3>2. CASE k # n + 1
        <4>1. k \in 1..n /\ k \in 0..n /\ k - 1 \in 0..n /\ s[k] \in Headers
          BY <3>2
        <4>2. c[k] = c[k - 1] + Size(s[k]) /\ Lies(T, c[k - 1], Bytes(s[k]))
          BY <4>1 DEF Cuts
        <4>3. d[k] = c[k] /\ d[k - 1] = c[k - 1] /\ c[k - 1] \in Nat /\ c[k] <= e
          BY <1>5, <4>1
        <4>4. Bytes(s[k]) \in Seq(Nat) /\ Len(Bytes(s[k])) = Size(s[k])
          BY <4>1, BytesOf
        <4>5. c[k - 1] + Len(Bytes(s[k])) <= e
          BY <4>2, <4>3, <4>4
        <4>6. Lies(U, c[k - 1], Bytes(s[k]))
          BY <1>4, <4>2, <4>3, <4>4, <4>5
        <4> QED BY <4>2, <4>3, <4>6
      <3> QED BY <3>1, <3>2
    <2> QED BY <1>5, <2>1, <2>2 DEF Cuts
  <1>7. Carried(d, U, n + 1, h, l, g, u \o b)
    <2>1. PICK p : p = c[h]
      OBVIOUS
    <2>2. PICK x, y, w : x = Len(l) /\ y = Len(g) /\ w = Len(u)
      OBVIOUS
    <2>3. h \in 0..n /\ p \in Nat /\ x \in Nat /\ y \in Nat /\ w \in Nat /\ d[h] = p
      BY <1>5, <2>1, <2>2, LenProperties DEF Carried
    <2>4. p + x + y + w = e /\ Lies(T, p, l) /\ Lies(T, p + x, g) /\ Lies(T, p + x + y, u)
      BY <1>3, <2>1, <2>2 DEF Carried
    <2>5. PICK i \in Nat, j \in Nat : i = p + x /\ j = p + x + y
      BY <2>3
    <2>6. i \in Nat /\ j \in Nat /\ j + w = e /\ p + x <= e /\ i + y <= e /\ j + w <= e
      BY <2>3, <2>4, <2>5
    <2>7. Lies(T, i, g) /\ Lies(T, j, u)
      BY <2>4, <2>5
    <2>8. Lies(U, p, l) /\ Lies(U, i, g) /\ Lies(U, j, u)
      BY <1>4, <2>2, <2>3, <2>4, <2>6, <2>7
    <2>10. Len(u \o b) = w + z /\ Lies(U, j, u \o b)
      <3>1. e = j + Len(u)
        BY <2>2, <2>6
      <3>2. Len(u \o b) = Len(u) + Len(b) /\ Lies(U, j, u \o b)
        BY <1>2, <1>4, <2>8, <3>1, LiesJoinAt
      <3> QED BY <1>2, <2>2, <3>2
    <2>11. d[h] + Len(l) + Len(g) + Len(u \o b) = d[n + 1]
      <3>1. d[n + 1] = e + z
        BY <1>5
      <3>2. d[h] + Len(l) + Len(g) + Len(u \o b) = p + x + y + (w + z)
        BY <2>2, <2>3, <2>10
      <3>3. p + x + y + (w + z) = e + z
        BY <1>2, <1>3, <2>3, <2>4
      <3> QED BY <3>1, <3>2, <3>3
    <2>12. h \in 0..(n + 1)
      BY <2>3
    <2> QED BY <2>2, <2>3, <2>5, <2>8, <2>10, <2>11, <2>12 DEF Carried
  <1> QED BY <1>1, <1>6, <1>7

\* A read takes some of what is on the way, and joins what is left.
LEMMA CarryRecv ==
    ASSUME NEW c, NEW T, NEW s, NEW n \in Nat, NEW h, Cuts(c, T, s, n),
           NEW l \in Seq(Nat), NEW g, g = <<>>, NEW u \in Seq(Nat), NEW k \in 0..Len(u),
           Carried(c, T, n, h, l, g, u)
    PROVE  Carried(c, T, n, h, l, Take(u, k), Drop(u, k))
  <1>1. h \in 0..n
    BY DEF Carried
  <1>2. PICK p \in Nat, x \in Nat, w \in Nat : p = c[h] /\ x = Len(l) /\ w = Len(u)
    BY <1>1, CutsTypes, LenProperties
  <1>3. Len(g) = 0
    BY Empty
  <1>4. /\ p + x + w = c[n] /\ Lies(T, p, l) /\ Lies(T, p + x, u)
    <2>1. p + x + 0 = p + x
      OBVIOUS
    <2> QED BY <1>2, <1>3, <2>1 DEF Carried
  <1>5. PICK j \in Nat : j = p + x
    OBVIOUS
  <1>6. Lies(T, j, Take(u, k)) /\ Lies(T, j + k, Drop(u, k))
    BY <1>4, <1>5, LiesCut
  <1>7. Len(Take(u, k)) = k /\ Len(Drop(u, k)) = w - k
    BY <1>2, Cut
  <1>8. c[h] + Len(l) + Len(Take(u, k)) + Len(Drop(u, k)) = c[n]
    <2>1. k \in Nat
      BY LenProperties
    <2>2. p + x + k + (w - k) = p + x + w
      BY <2>1
    <2> QED BY <1>2, <1>4, <1>7, <2>2
  <1> QED BY <1>1, <1>2, <1>4, <1>5, <1>6, <1>7, <1>8 DEF Carried

LEMMA CarryJoin ==
    ASSUME NEW c, NEW T, NEW s, NEW n \in Nat, NEW h, Cuts(c, T, s, n),
           NEW l \in Seq(Nat), NEW g \in Seq(Nat), NEW u \in Seq(Nat),
           Carried(c, T, n, h, l, g, u)
    PROVE  Carried(c, T, n, h, l \o g, <<>>, u)
  <1>1. h \in 0..n
    BY DEF Carried
  <1>2. PICK p \in Nat, x \in Nat, y \in Nat, w \in Nat : p = c[h] /\ x = Len(l) /\ y = Len(g) /\ w = Len(u)
    BY <1>1, CutsTypes, LenProperties
  <1>3. /\ p + x + y + w = c[n] /\ Lies(T, p, l) /\ Lies(T, p + x, g) /\ Lies(T, p + x + y, u)
    BY <1>2 DEF Carried
  <1>4. PICK i \in Nat, j \in Nat : i = p + x /\ j = p + x + y
    OBVIOUS
  <1>5. i = p + Len(l) /\ Lies(T, i, g)
    BY <1>2, <1>3, <1>4
  <1>6. Len(l \o g) = x + y /\ Lies(T, p, l \o g)
    <2>1. Len(l \o g) = Len(l) + Len(g) /\ Lies(T, p, l \o g)
      BY <1>3, <1>5, LiesJoinAt
    <2> QED BY <1>2, <2>1
  <1>7. p + (x + y) = j /\ p + (x + y) + 0 = j /\ p + (x + y) + 0 + w = p + x + y + w
    BY <1>4
  <1> QED BY <1>1, <1>2, <1>3, <1>4, <1>6, <1>7, Empty DEF Carried

\* A header in front, and a whole packet in front.
HeaderFirst(l) == Len(l) >= 3
PacketFirst(l) == Len(l) >= 3 /\ l[1] >= 3 /\ Len(l) >= l[1]

AreHeaders(s, n) == \A k \in 1..n : s[k] \in Headers

\* Packet k follows packet h, and l begins with its header.
HeaderIs(s, h, l, k) == k = h + 1 /\ h = k - 1 /\ h \in Nat /\ l[1] = s[k].size

\* A header in front is that of the next packet.
LEMMA CarryHeader ==
    ASSUME NEW s, NEW n \in Nat, NEW h, NEW c, NEW T,
           AreHeaders(s, n),
           NEW l \in Seq(Nat), NEW u \in Seq(Nat), HeaderFirst(l),
           Cuts(c, T, s, n), Carried(c, T, n, h, l, <<>>, u)
    PROVE  \E k \in 1..n : HeaderIs(s, h, l, k)
  <1>0. PICK g \in Seq(Nat) : g = <<>>
    BY Empty
  <1>1. h \in 0..n /\ Len(g) = 0
    BY <1>0, Empty DEF Carried
  <1>2. PICK p \in Nat, x \in Nat, w \in Nat, e \in Nat : p = c[h] /\ x = Len(l) /\ w = Len(u) /\ e = c[n]
    BY <1>1, CutsTypes, LenProperties
  <1>3. /\ p + x + w = e /\ Lies(T, p, l) /\ x >= 3
    <2>1. p + x + 0 = p + x
      OBVIOUS
    <2> QED BY <1>0, <1>1, <1>2, <2>1 DEF Carried, HeaderFirst
  <1>4. h # n
    BY <1>2, <1>3
  <1>5. PICK k \in 1..n : k = h + 1
    BY <1>1, <1>4
  <1>6. h \in Nat /\ k - 1 = h
    BY <1>1, <1>5
  <1>7. Lies(T, p, Bytes(s[k]))
    BY <1>2, <1>6 DEF Cuts
  <1>8. /\ Bytes(s[k]) \in Seq(Nat) /\ Len(Bytes(s[k])) >= 3 /\ Bytes(s[k])[1] = s[k].size
    BY BytesOf DEF AreHeaders
  <1>9. Len(Bytes(s[k])) \in Nat
    BY <1>8, LenProperties
  <1>10. 1 \in 1..Len(l) /\ 1 \in 1..Len(Bytes(s[k]))
    <2>1. PICK y \in Nat : y = Len(Bytes(s[k]))
      BY <1>9
    <2>2. 1 \in 1..x /\ 1 \in 1..y
      BY <1>3, <1>8, <2>1
    <2> QED BY <1>2, <2>1, <2>2
  <1>11. l[1] = T[p + 1] /\ Bytes(s[k])[1] = T[p + 1]
    BY <1>3, <1>7, <1>10 DEF Lies
  <1> QED BY <1>5, <1>6, <1>8, <1>11 DEF HeaderIs

\* Packet k is at the front of l, behind packet h, and l goes on with k + 1.
NextIs(c, T, s, n, h, l, u, k) ==
    /\ k = h + 1 /\ h = k - 1 /\ h \in Nat
    /\ Take(l, l[1]) = Bytes(s[k]) /\ Carried(c, T, n, k, Drop(l, l[1]), <<>>, u)

\* A whole packet in front is the next one, and the stream goes on behind it.
LEMMA CarryNext ==
    ASSUME NEW s, NEW n \in Nat, NEW h, NEW c, NEW T,
           AreHeaders(s, n),
           NEW l \in Seq(Nat), NEW u \in Seq(Nat), PacketFirst(l),
           Cuts(c, T, s, n), Carried(c, T, n, h, l, <<>>, u)
    PROVE  \E k \in 1..n : NextIs(c, T, s, n, h, l, u, k)
  <1>0. PICK g \in Seq(Nat) : g = <<>>
    BY Empty
  <1>1. HeaderFirst(l)
    BY DEF PacketFirst, HeaderFirst
  <1>2. PICK k \in 1..n : k = h + 1 /\ h = k - 1 /\ h \in Nat /\ l[1] = s[k].size
    BY <1>0, <1>1, CarryHeader DEF HeaderIs
  <1>3. h \in 0..n /\ Len(g) = 0
    BY <1>0, Empty DEF Carried
  <1>4. PICK p \in Nat, x \in Nat, w \in Nat, e \in Nat : p = c[h] /\ x = Len(l) /\ w = Len(u) /\ e = c[n]
    BY <1>3, CutsTypes, LenProperties
  <1>5. p + x + w = e /\ Lies(T, p, l) /\ Lies(T, p + x, u)
    <2>1. p + x + 0 = p + x
      OBVIOUS
    <2> QED BY <1>0, <1>3, <1>4, <2>1 DEF Carried
  <1>6. PICK z \in Nat : z = Size(s[k])
    BY BytesOf DEF AreHeaders
  <1>7. PICK b \in Seq(Nat) : b = Bytes(s[k])
    BY BytesOf DEF AreHeaders
  <1>8. Len(b) = z /\ z >= 3 /\ s[k].size \in Nat
    BY <1>6, <1>7, BytesOf DEF AreHeaders
  <1>9. c[k] = p + z /\ Lies(T, p, b)
    BY <1>2, <1>4, <1>6, <1>7 DEF Cuts
  <1>10. l[1] = z
    <2>1. PICK y \in Nat : y = s[k].size
      BY <1>8
    <2>2. l[1] = y /\ y >= 3 /\ z = IF y < 3 THEN 3 ELSE y
      BY <1>2, <1>6, <2>1 DEF Size, PacketFirst
    <2> QED BY <2>2
  <1>11. z \in 0..Len(l) /\ z <= x
    BY <1>4, <1>10 DEF PacketFirst
  <1>12. /\ Take(l, z) \in Seq(Nat) /\ Len(Take(l, z)) = z /\ Len(Drop(l, z)) = x - z
    BY <1>4, <1>11, Cut
  <1>13. Lies(T, p, Take(l, z)) /\ Lies(T, p + z, Drop(l, z))
    BY <1>5, <1>11, LiesCut
  <1>14. Take(l, z) = b
    <2>1. ASSUME NEW i \in 1..z PROVE Take(l, z)[i] = b[i]
      <3>1. Take(l, z)[i] = T[p + i]
        BY <1>12, <1>13 DEF Lies
      <3>2. b[i] = T[p + i]
        BY <1>8, <1>9 DEF Lies
      <3> QED BY <3>1, <3>2
    <2>2. Len(Take(l, z)) = Len(b) /\ \A i \in 1..Len(Take(l, z)) : Take(l, z)[i] = b[i]
      BY <1>8, <1>12, <2>1
    <2> QED BY <1>12, <2>2, SeqEqual
  <1>15. (p + z) + (x - z) = p + x /\ (p + z) + (x - z) + 0 = p + x /\ (p + z) + (x - z) + 0 + w = e
    BY <1>5
  <1>16. Carried(c, T, n, k, Drop(l, z), g, u)
    <2>1. k \in 0..n
      OBVIOUS
    <2>2. c[k] + Len(Drop(l, z)) + Len(g) + Len(u) = c[n]
      BY <1>3, <1>4, <1>9, <1>12, <1>15
    <2>3. Lies(T, c[k], Drop(l, z))
      BY <1>9, <1>13
    <2>4. Lies(T, c[k] + Len(Drop(l, z)), g)
      BY <1>0, Empty
    <2>5. Lies(T, c[k] + Len(Drop(l, z)) + Len(g), u)
      BY <1>3, <1>5, <1>9, <1>12, <1>15
    <2> QED BY <2>1, <2>2, <2>3, <2>4, <2>5 DEF Carried
  <1> QED BY <1>0, <1>2, <1>7, <1>10, <1>14, <1>16 DEF NextIs

\* What of the read buffer is still to be processed.
Left == IF chain = "framing" THEN Drop(m_pReadBuf, szBuffer) ELSE m_pReadBuf

Going == chain \in {"off", "posted", "completed", "framing"}

\* While the server goes on, what is behind the processed packets of the client
\* is what is left in the read buffer, what a read has got and what is on the way.
UpInv == Going => \E c, T : /\ Cuts(c, T, script, sent)
                            /\ Carried(c, T, sent, Len(handled), Left, got, up)

LEMMA LeftTypes == ASSUME ReadInv PROVE /\ Left \in Seq(Nat) /\ got \in Seq(Nat) /\ Len(handled) \in Nat
                                        /\ chain = "framing" => Len(Left) = dwSize
  <1>1. m_pReadBuf \in Seq(Nat) /\ Len(m_pReadBuf) \in Nat /\ szBuffer \in Nat /\ dwSize \in Nat
    BY LenProperties DEF ReadInv, ReadTypes
  <1>2. CASE chain = "framing"
    <2>1. szBuffer + dwSize = Len(m_pReadBuf)
      BY <1>2 DEF ReadInv, RoomInv
    <2>2. szBuffer \in 0..Len(m_pReadBuf) /\ Len(m_pReadBuf) - szBuffer = dwSize
      BY <1>1, <2>1
    <2>3. Left = Drop(m_pReadBuf, szBuffer)
      BY <1>2 DEF Left
    <2>4. Left \in Seq(Nat) /\ Len(Left) = dwSize
      BY <1>1, <2>2, <2>3, Cut
    <2> QED BY <2>4, LenProperties DEF ReadInv, ReadTypes
  <1>3. CASE chain # "framing"
    BY <1>1, <1>3, LenProperties DEF Left, ReadInv, ReadTypes
  <1> QED BY <1>2, <1>3

LEMMA SentTypes == ASSUME ClientInv
                   PROVE  sent \in Nat /\ AreHeaders(script, sent) /\ up \in Seq(Nat)
  <1>1. sent \in 0..Len(script) /\ script \in Scripts /\ up \in Seq(Nat)
    BY DEF ClientInv, ClientTypes
  <1>2. Len(script) \in Nat /\ \A k \in 1..Len(script) : script[k] \in Headers
    BY <1>1, ScriptTypes
  <1> QED BY <1>1, <1>2 DEF AreHeaders

LEMMA UpInit == Init => UpInv
  <1> SUFFICES ASSUME Init PROVE UpInv
    OBVIOUS
  <1>1. /\ chain = "off" /\ sent = 0 /\ handled = <<>> /\ got = <<>> /\ up = <<>> /\ m_pReadBuf = <<>>
    BY DEF Init
  <1> DEFINE c == [k \in 0..0 |-> 0]
  <1>2. c \in [0..0 -> Nat] /\ c[0] = 0 /\ \A k \in 0..0 : c[k] <= c[0]
    OBVIOUS
  <1>3. \A k \in 1..0 : FALSE
    OBVIOUS
  <1>4. Cuts(c, c, script, 0)
    BY <1>2, <1>3 DEF Cuts
  <1>5. Left = <<>> /\ Len(handled) = 0
    BY <1>1, Empty DEF Left
  <1>6. Carried(c, c, 0, 0, <<>>, <<>>, <<>>)
    <2>1. 0 \in 0..0 /\ c[0] + 0 + 0 + 0 = c[0]
      BY <1>2
    <2> QED BY <2>1, Empty DEF Carried
  <1> QED BY <1>1, <1>4, <1>5, <1>6 DEF UpInv

\* A step of others.
LEMMA UpSame == ASSUME UpInv, Going' => Going, UNCHANGED <<script, sent, handled, got, up>>, Left' = Left
                PROVE  UpInv'
  BY DEF UpInv, Cuts

\* The client sends a packet.
LEMMA UpSend == ASSUME UpInv, ReadInv, ClientInv, sent < Len(script), sent' = sent + 1,
                       up' = up \o Bytes(script[sent + 1]),
                       UNCHANGED <<script, handled, got, chain, m_pReadBuf, szBuffer>>
                PROVE  UpInv'
  <1> SUFFICES ASSUME Going' PROVE UpInv'
    BY DEF UpInv
  <1>1. PICK c, T : Cuts(c, T, script, sent) /\ Carried(c, T, sent, Len(handled), Left, got, up)
    BY DEF UpInv, Going
  <1>2. PICK n \in Nat, l \in Seq(Nat), g \in Seq(Nat), u \in Seq(Nat) : n = sent /\ l = Left /\ g = got /\ u = up
    BY SentTypes, LeftTypes
  <1>3. \A k \in 1..(n + 1) : script[k] \in Headers
    <2>1. Len(script) \in Nat /\ \A k \in 1..Len(script) : script[k] \in Headers
      BY ScriptTypes DEF ClientInv, ClientTypes
    <2> QED BY <1>2, <2>1
  <1>4. PICK s, h : s = script /\ h = Len(handled)
    OBVIOUS
  <1>5. \E d, U : Cuts(d, U, s, n + 1) /\ Carried(d, U, n + 1, h, l, g, u \o Bytes(s[n + 1]))
    BY <1>1, <1>2, <1>3, <1>4, CarrySend
  <1>6. Left' = Left
    BY DEF Left
  <1>7. /\ script' = s /\ sent' = n + 1 /\ Len(handled') = h /\ Left' = l /\ got' = g
        /\ up' = u \o Bytes(s[n + 1])
    BY <1>2, <1>4, <1>6
  <1> QED BY <1>5, <1>7 DEF UpInv, Cuts

LEMMA UpComplete == ASSUME UpInv, ReadInv, ClientInv, Complete PROVE UpInv'
  <1>1. /\ chain = "posted" /\ chain' = "completed" /\ UNCHANGED <<script, sent, handled, m_pReadBuf, szBuffer>>
        /\ got = <<>>
    BY DEF Complete, clientVars, ReadInv, RoomInv
  <1>2. Left' = Left
    BY <1>1 DEF Left
  <1>3. PICK c, T : Cuts(c, T, script, sent) /\ Carried(c, T, sent, Len(handled), Left, got, up)
    BY <1>1 DEF UpInv, Going
  <1>4. CASE \E n \in 1..Len(up) : got' = Take(up, n) /\ up' = Drop(up, n)
    <2>1. PICK n \in 1..Len(up) : got' = Take(up, n) /\ up' = Drop(up, n)
      BY <1>4
    <2>2. n \in 0..Len(up)
      BY SentTypes, LenProperties
    <2>3. Carried(c, T, sent, Len(handled), Left, Take(up, n), Drop(up, n))
      BY <1>1, <1>3, <2>2, SentTypes, LeftTypes, CarryRecv
    <2> QED BY <1>1, <1>2, <1>3, <2>1, <2>3 DEF UpInv, Cuts
  <1>5. CASE got' = <<>> /\ up' = up
    BY <1>1, <1>2, <1>5, UpSame DEF Going
  <1> QED BY <1>4, <1>5 DEF Complete

LEMMA UpReadCallback == ASSUME UpInv, ReadInv, ReadInv', ClientInv, NEW w \in Workers, ReadCallback(w) PROVE UpInv'
  <1> SUFFICES ASSUME Going' PROVE UpInv'
    BY DEF UpInv
  <1>1. /\ chain = "completed" /\ chain' = "framing" /\ UNCHANGED <<script, sent, handled, up>>
        /\ m_pReadBuf' = m_pReadBuf \o got /\ got' = <<>> /\ szBuffer' = 0
    BY DEF ReadCallback, clientVars, Close, Going
  <1>2. PICK c, T : Cuts(c, T, script, sent) /\ Carried(c, T, sent, Len(handled), m_pReadBuf, got, up)
    BY <1>1 DEF UpInv, Going, Left
  <1>3. m_pReadBuf \in Seq(Nat) /\ got \in Seq(Nat) /\ m_pReadBuf' \in Seq(Nat)
    BY DEF ReadInv, ReadTypes
  <1>4. Carried(c, T, sent, Len(handled), m_pReadBuf \o got, <<>>, up)
    BY <1>2, <1>3, SentTypes, LeftTypes, CarryJoin
  <1>5. Left' = m_pReadBuf'
    <2>1. Left' = SubSeq(m_pReadBuf', 1, Len(m_pReadBuf'))
      BY <1>1 DEF Left, Drop
    <2> QED BY <1>3, <2>1, SubSeqFull
  <1> QED BY <1>1, <1>2, <1>4, <1>5 DEF UpInv, Cuts

LEMMA UpRead == ASSUME UpInv, ReadInv, NEW w \in Workers, Read(w) PROVE UpInv'
  <1>1. /\ chain = "framing" /\ chain' \in {"posted", "closing"} /\ UNCHANGED <<script, sent, handled, up, got>>
        /\ m_pReadBuf' = Rest(dwSize)
    BY DEF Read, clientVars, PostRead, Close
  <1>2. Len(m_pReadBuf) - dwSize = szBuffer
    <2>1. szBuffer + dwSize = Len(m_pReadBuf) /\ szBuffer \in Nat /\ dwSize \in Nat /\ Len(m_pReadBuf) \in Nat
      BY <1>1, LenProperties DEF ReadInv, ReadTypes, RoomInv
    <2> QED BY <2>1
  <1>3. Left' = Left
    BY <1>1, <1>2 DEF Left, Rest
  <1> QED BY <1>1, <1>3, UpSame DEF Going

\* Process is given the next packet of the client.
LEMMA UpProcess ==
    ASSUME UpInv, ReadInv, ClientInv, NEW w \in Workers, Process(w)
    PROVE  /\ UpInv' /\ Len(handled) + 1 \in 1..sent
           /\ handled' = Append(handled, Bytes(script[Len(handled) + 1]))
  <1>1. /\ chain = "framing" /\ chain' = "framing" /\ UNCHANGED <<script, sent, up, got, m_pReadBuf>> /\ got = <<>>
        /\ szBuffer' = szBuffer + nSize /\ PacketThere /\ nSize >= 3
        /\ handled' = Append(handled, SubSeq(m_pReadBuf, szBuffer + 1, szBuffer + nSize))
    BY DEF Process, Advance, clientVars, ReadInv, RoomInv, PACKET_RESERVED_LENGTH
  <1>2. PICK c, T : Cuts(c, T, script, sent) /\ Carried(c, T, sent, Len(handled), Left, got, up)
    BY <1>1 DEF UpInv, Going
  <1>3. PICK o \in Nat, x \in Nat, y \in Nat : o = szBuffer /\ x = dwSize /\ y = Len(m_pReadBuf)
    BY LenProperties DEF ReadInv, ReadTypes
  <1>4. PICK q \in Seq(Nat) : q = m_pReadBuf
    BY DEF ReadInv, ReadTypes
  <1>5. o + x = y /\ x >= 3 /\ y = Len(q)
    BY <1>1, <1>3, <1>4 DEF ReadInv, RoomInv, PacketThere, HeaderThere, PACKET_RESERVED_LENGTH
  <1>6. PICK l \in Seq(Nat) : l = Drop(q, o)
    BY <1>3, <1>5, Cut
  <1>7. Left = l /\ Len(l) = x /\ \A i \in 1..x : l[i] = q[o + i]
    <2>1. o \in 0..Len(q) /\ Len(q) - o = x
      BY <1>3, <1>5
    <2>2. Len(Drop(q, o)) = Len(q) - o /\ \A i \in 1..(Len(q) - o) : Drop(q, o)[i] = q[o + i]
      BY <2>1, Cut
    <2>3. Left = Drop(m_pReadBuf, szBuffer)
      BY <1>1 DEF Left
    <2> QED BY <1>3, <1>4, <1>6, <2>1, <2>2, <2>3
  <1>8. PICK z \in Nat : z = nSize /\ z = l[1] /\ z = q[o + 1]
    <2>1. 1 \in 1..Len(l) /\ 1 \in 1..x
      BY <1>5, <1>7
    <2> QED BY <1>3, <1>4, <1>7, <2>1, ElementOfSeq DEF nSize
  <1>9. z >= 3 /\ x >= z
    BY <1>1, <1>3, <1>8 DEF PacketThere
  <1>10. PacketFirst(l)
    BY <1>5, <1>7, <1>8, <1>9 DEF PacketFirst
  <1>11. PICK n \in Nat, u \in Seq(Nat), h \in Nat : n = sent /\ u = up /\ h = Len(handled)
    BY SentTypes, LeftTypes
  <1>12. PICK s : s = script
    OBVIOUS
  <1>13. AreHeaders(s, n) /\ Cuts(c, T, s, n) /\ Carried(c, T, n, h, l, <<>>, u)
    BY <1>1, <1>2, <1>7, <1>11, <1>12, SentTypes
  <1>20. \E k \in 1..n : NextIs(c, T, s, n, h, l, u, k)
    BY <1>10, <1>13, CarryNext
  <1>14. PICK k \in 1..n : /\ k = h + 1 /\ h = k - 1 /\ h \in Nat
                           /\ Take(l, l[1]) = Bytes(s[k]) /\ Carried(c, T, n, k, Drop(l, l[1]), <<>>, u)
    BY <1>20 DEF NextIs
  <1>15. SubSeq(q, o + 1, o + z) = Take(l, z)
    <2>1. z \in 0..Len(l)
      BY <1>7, <1>9
    <2>2. /\ Take(l, z) \in Seq(Nat) /\ Len(Take(l, z)) = z /\ \A i \in 1..z : Take(l, z)[i] = l[i]
      BY <2>1, Cut
    <2>3. \A i \in (o + 1)..(o + z) : q[i] \in Nat
      <3>1. \A i \in (o + 1)..(o + z) : i \in 1..Len(q)
        BY <1>5, <1>9
      <3> QED BY <3>1, ElementOfSeq
    <2>4. o + 1 \in Int /\ o + z \in Int
      OBVIOUS
    <2>5. /\ SubSeq(q, o + 1, o + z) \in Seq(Nat)
          /\ Len(SubSeq(q, o + 1, o + z)) = IF o + 1 <= o + z THEN o + z - (o + 1) + 1 ELSE 0
          /\ \A i \in 1..(o + z - (o + 1) + 1) : SubSeq(q, o + 1, o + z)[i] = q[o + 1 + i - 1]
      BY <2>3, <2>4, SubSeqProperties
    <2>6. Len(SubSeq(q, o + 1, o + z)) = z
      BY <1>9, <2>5
    <2>7. ASSUME NEW i \in 1..z PROVE SubSeq(q, o + 1, o + z)[i] = Take(l, z)[i]
      <3>1. i \in 1..(o + z - (o + 1) + 1) /\ o + 1 + i - 1 = o + i /\ i \in 1..x
        BY <1>9
      <3> QED BY <1>7, <2>2, <2>5, <3>1
    <2> QED BY <2>2, <2>5, <2>6, <2>7, SeqEqual
  <1>16. handled' = Append(handled, Bytes(s[k]))
    BY <1>1, <1>3, <1>4, <1>8, <1>14, <1>15
  <1>17. Left' = Drop(l, z)
    <2>1. Left' = Drop(q, o + z)
      BY <1>1, <1>3, <1>4, <1>8 DEF Left
    <2>2. z \in 0..Len(l) /\ o + z \in 0..Len(q) /\ o \in 0..Len(q) /\ Len(l) - z = x - z /\ Len(q) - (o + z) = x - z
      BY <1>5, <1>7, <1>9
    <2>3. /\ Drop(l, z) \in Seq(Nat) /\ Len(Drop(l, z)) = x - z
          /\ \A i \in 1..(x - z) : Drop(l, z)[i] = l[z + i]
      <3>1. /\ Drop(l, z) \in Seq(Nat) /\ Len(Drop(l, z)) = Len(l) - z
            /\ \A i \in 1..(Len(l) - z) : Drop(l, z)[i] = l[z + i]
        BY <2>2, Cut
      <3> QED BY <2>2, <3>1
    <2>4. /\ Drop(q, o + z) \in Seq(Nat) /\ Len(Drop(q, o + z)) = x - z
          /\ \A i \in 1..(x - z) : Drop(q, o + z)[i] = q[(o + z) + i]
      <3>1. PICK j \in 0..Len(q) : j = o + z
        BY <2>2
      <3>2. /\ Drop(q, j) \in Seq(Nat) /\ Len(Drop(q, j)) = Len(q) - j
            /\ \A i \in 1..(Len(q) - j) : Drop(q, j)[i] = q[j + i]
        BY Cut
      <3> QED BY <2>2, <3>1, <3>2
    <2>5. ASSUME NEW i \in 1..(x - z) PROVE Drop(q, o + z)[i] = Drop(l, z)[i]
      <3>1. z + i \in 1..x /\ (o + z) + i = o + (z + i)
        BY <1>9
      <3> QED BY <1>7, <2>3, <2>4, <3>1
    <2> QED BY <2>1, <2>3, <2>4, <2>5, SeqEqual
  <1>18. Len(handled') = k
    <2>1. handled \in Seq(Seq(Nat)) /\ Bytes(s[k]) \in Seq(Nat)
      BY <1>13, BytesOf DEF ReadInv, ReadTypes, AreHeaders
    <2> QED BY <1>11, <1>14, <1>16, <2>1, AppendProperties
  <1>19. UpInv'
    BY <1>1, <1>8, <1>11, <1>12, <1>13, <1>14, <1>17, <1>18 DEF UpInv, Cuts
  <1> QED BY <1>11, <1>12, <1>14, <1>16, <1>19

LEMMA UpStep == ASSUME UpInv, ReadInv, ReadInv', ClientInv, [Next]_vars PROVE UpInv'
  <1>1. CASE Connect
    <2>1. client = "off" /\ UNCHANGED <<script, handled, got, chain, m_pReadBuf, szBuffer>>
      BY <1>1 DEF Connect, readVars
    <2>2. sent = 0 /\ up = <<>> /\ script \in Scripts
      BY <2>1 DEF ClientInv, ClientTypes
    <2>3. CASE UNCHANGED <<sent, up>>
      <3>1. Left' = Left /\ (Going' => Going)
        BY <2>1 DEF Left, Going
      <3> QED BY <2>1, <2>3, <3>1, UpSame
    <2>4. CASE sent' = 1 /\ up' = Bytes(script[1])
      <3>1. Len(script) \in Nat /\ Len(script) > 0 /\ script[1] \in Headers
        BY <2>2, ScriptTypes
      <3>2. Bytes(script[1]) = <<>> \o Bytes(script[1])
        BY <3>1, BytesOf, ConcatEmptySeq
      <3>3. sent < Len(script) /\ sent' = sent + 1 /\ script[sent + 1] = script[1]
        BY <2>2, <2>4, <3>1
      <3>4. up' = up \o Bytes(script[sent + 1])
        BY <2>2, <2>4, <3>2, <3>3
      <3> QED BY <2>1, <3>3, <3>4, UpSend
    <2> QED BY <1>1, <2>3, <2>4 DEF Connect
  <1>2. CASE SendPacket
    BY <1>2, UpSend DEF SendPacket, readVars
  <1>3. ASSUME UNCHANGED <<script, sent, handled, got, up, m_pReadBuf, szBuffer>>,
               chain' = chain \/ (chain = "off" /\ chain' = "posted") \/ chain' \in {"closing", "over"}
        PROVE  UpInv'
    <2>1. CASE ~Going'
      BY <2>1 DEF UpInv
    <2>2. CASE Going'
      <3>1. Going /\ Left' = Left
        BY <1>3, <2>2 DEF Going, Left
      <3> QED BY <1>3, <3>1, UpSame
    <2> QED BY <2>1, <2>2
  <1>4. CASE HangUp \/ ClientStep
    <2>1. UNCHANGED <<script, sent, up, readVars>>
      BY <1>4 DEF HangUp, ClientStep, ClientRecv, Assemble, ClientRead, ClientEnds
    <2> QED BY <1>3, <2>1 DEF readVars
  <1>5. CASE FirstRead \/ Transmit
    <2>1. /\ UNCHANGED <<script, sent, handled, got, up, m_pReadBuf, szBuffer>>
          /\ chain' = chain \/ (chain = "off" /\ chain' = "posted")
      BY <1>5 DEF FirstRead, Transmit, clientVars, readVars
    <2> QED BY <1>3, <2>1
  <1>6. ASSUME NEW w \in Workers, BadSize(w) \/ CloseHandle(w) \/ DequeueWrite(w) \/ WriteCallback(w) PROVE UpInv'
    <2>1. /\ UNCHANGED <<script, sent, handled, got, up, m_pReadBuf, szBuffer>>
          /\ chain' = chain \/ chain' \in {"closing", "over"}
      BY <1>6 DEF BadSize, Close, CloseHandle, DequeueWrite, WriteCallback, clientVars, readVars
    <2> QED BY <1>3, <2>1
  <1>7. CASE UNCHANGED vars
    BY <1>3, <1>7 DEF vars, clientVars, readVars
  <1> QED BY <1>1, <1>2, <1>4, <1>5, <1>6, <1>7, UpComplete, UpReadCallback, UpRead, UpProcess
       DEF Next, OnRead

-----------------------------------------------------------------------------
\* A size no packet has is one the client has sent: what OnRead takes for a
\* header is a header, and no packet of the client is larger than the buffer.
SizeInv == closed = "size" => \E k \in 1..sent : script[k].size < 3

LEMMA SizeFirst ==
    ASSUME UpInv, ReadInv, ClientInv, NEW w \in Workers, BadSize(w)
    PROVE  \E k \in 1..sent : script[k].size < 3
  <1>1. /\ chain = "framing" /\ dwSize >= 3 /\ got = <<>>
        /\ (dwSize < nSize /\ nSize > BUFFER_SIZE) \/ nSize < 3
    BY DEF BadSize, HeaderThere, PACKET_RESERVED_LENGTH, ReadInv, RoomInv
  <1>2. PICK c, T : Cuts(c, T, script, sent) /\ Carried(c, T, sent, Len(handled), Left, got, up)
    BY <1>1 DEF UpInv, Going
  <1>3. PICK o \in Nat, x \in Nat, y \in Nat : o = szBuffer /\ x = dwSize /\ y = Len(m_pReadBuf)
    BY LenProperties DEF ReadInv, ReadTypes
  <1>4. PICK q \in Seq(Nat) : q = m_pReadBuf
    BY DEF ReadInv, ReadTypes
  <1>5. o + x = y /\ x >= 3 /\ y = Len(q)
    BY <1>1, <1>3, <1>4 DEF ReadInv, RoomInv
  <1>6. PICK l \in Seq(Nat) : l = Drop(q, o)
    BY <1>3, <1>5, Cut
  <1>7. Left = l /\ Len(l) = x /\ l[1] = q[o + 1]
    <2>1. o \in 0..Len(q) /\ Len(q) - o = x /\ 1 \in 1..(Len(q) - o)
      BY <1>3, <1>5
    <2>2. Len(Drop(q, o)) = Len(q) - o /\ \A i \in 1..(Len(q) - o) : Drop(q, o)[i] = q[o + i]
      BY <2>1, Cut
    <2>3. Left = Drop(m_pReadBuf, szBuffer)
      BY <1>1 DEF Left
    <2> QED BY <1>3, <1>4, <1>6, <2>1, <2>2, <2>3
  <1>8. nSize = l[1] /\ HeaderFirst(l)
    BY <1>3, <1>4, <1>5, <1>7 DEF nSize, HeaderFirst
  <1>9. PICK n \in Nat, u \in Seq(Nat), h \in Nat : n = sent /\ u = up /\ h = Len(handled)
    BY SentTypes, LeftTypes
  <1>10. PICK s : s = script
    OBVIOUS
  <1>11. AreHeaders(s, n) /\ Cuts(c, T, s, n) /\ Carried(c, T, n, h, l, <<>>, u)
    BY <1>1, <1>2, <1>7, <1>9, <1>10, SentTypes
  <1>12. \E k \in 1..n : HeaderIs(s, h, l, k)
    BY <1>8, <1>11, CarryHeader
  <1>13. PICK k \in 1..n : l[1] = s[k].size
    BY <1>12 DEF HeaderIs
  <1>14. s[k].size \in Nat /\ s[k].size <= BUFFER_SIZE /\ BUFFER_SIZE \in Nat
    BY <1>11, BytesOf, FramingOK DEF AreHeaders
  <1>15. s[k].size < 3
    BY <1>1, <1>8, <1>13, <1>14
  <1> QED BY <1>9, <1>10, <1>15

\* The client's packets stay what they are, and what was sent stays sent.
LEMMA SentGrows == ASSUME ClientInv, [Next]_vars
                   PROVE  /\ script' = script /\ sent \in Nat
                          /\ sent' = sent \/ (sent' = sent + 1 /\ sent < Len(script) /\ handled' = handled
                                                /\ UNCHANGED <<answered, shown>>)
  <1>1. script' = script
    BY DEF Next, vars, clientVars, Connect, SendPacket, HangUp, ClientStep, ClientRecv, Assemble, ClientRead,
       ClientEnds, FirstRead, Complete, Transmit, ReadCallback, OnRead, Read, BadSize, Process, Advance,
       CloseHandle, DequeueWrite, WriteCallback
  <1>2. sent \in Nat
    BY SentTypes
  <1>3. CASE Connect
    <2>1. sent = 0 /\ 0 < Len(script)
      BY <1>3, ScriptTypes DEF Connect, ClientInv, ClientTypes
    <2> QED BY <1>1, <1>2, <1>3, <2>1 DEF Connect, readVars, sendVars
  <1>4. CASE SendPacket
    BY <1>1, <1>2, <1>4 DEF SendPacket, readVars, sendVars
  <1>5. CASE ~(Connect \/ SendPacket)
    <2>1. sent' = sent
      BY <1>5 DEF Next, vars, clientVars, HangUp, ClientStep, ClientRecv, Assemble, ClientRead,
       ClientEnds, FirstRead, Complete, Transmit, ReadCallback, OnRead, Read, BadSize, Process, Advance,
       CloseHandle, DequeueWrite, WriteCallback
    <2> QED BY <1>1, <1>2, <2>1
  <1> QED BY <1>3, <1>4, <1>5

LEMMA SizeStep == ASSUME SizeInv, UpInv, ReadInv, ClientInv, [Next]_vars PROVE SizeInv'
  <1>1. script' = script /\ sent \in Nat /\ (sent' = sent \/ sent' = sent + 1)
    BY SentGrows
  <1>2. CASE closed' # "size"
    BY <1>2 DEF SizeInv
  <1>3. CASE closed' = closed
    BY <1>1, <1>3 DEF SizeInv
  <1>4. ASSUME NEW w \in Workers, BadSize(w) PROVE SizeInv'
    <2>1. \E k \in 1..sent : script[k].size < 3
      BY <1>4, SizeFirst
    <2> QED BY <1>1, <2>1 DEF SizeInv
  <1>5. ASSUME ~(\E w \in Workers : BadSize(w)) PROVE closed' # "size" \/ closed' = closed
    BY <1>5 DEF Next, vars, Close, readVars, Connect, SendPacket, HangUp, ClientStep, ClientRecv, Assemble,
       ClientRead, ClientEnds, FirstRead, Complete, Transmit, ReadCallback, OnRead, Read, PostRead, Process,
       Advance, CloseHandle, DequeueWrite, WriteCallback
  <1> QED BY <1>2, <1>3, <1>4, <1>5

-----------------------------------------------------------------------------
\* The inductive invariant.
IInv == ClientInv /\ ReadInv /\ SendInv /\ UpInv /\ SizeInv

LEMMA InvInit == Init => IInv
  <1>1. Init => SizeInv
    BY DEF Init, SizeInv
  <1> QED BY <1>1, ClientInit, ReadInit, SendInit, UpInit DEF IInv

LEMMA InvStep == IInv /\ [Next]_vars => IInv'
  <1> SUFFICES ASSUME IInv, [Next]_vars PROVE IInv'
    OBVIOUS
  <1>1. ClientInv /\ ReadInv /\ SendInv /\ UpInv /\ SizeInv
    BY DEF IInv
  <1>2. ClientInv' /\ ReadInv'
    BY <1>1, ClientStepHolds, ReadStep
  <1>3. SendInv' /\ UpInv' /\ SizeInv'
    BY <1>1, <1>2, SendStep, UpStep, SizeStep
  <1> QED BY <1>2, <1>3 DEF IInv

LEMMA InvHolds == Spec => []IInv
  BY InvInit, InvStep, PTL DEF Spec

\* The state of both ends, whatever the clients send and however the streams
\* are cut: in particular the read buffer never holds more than it can, and the
\* bytes that are counted are those in the queue and in the send under way.
THEOREM TypeCorrect == Spec => []TypeOK
  <1>1. IInv => TypeOK
    <2> SUFFICES ASSUME IInv PROVE TypeOK
      OBVIOUS
    <2>1. ClientTypes /\ ReadTypes /\ SendTypes /\ RoomInv /\ DownInv
      BY DEF IInv, ClientInv, ReadInv, SendInv
    <2>2. current >= Len(part)
      <3>1. Len(part) \in Nat /\ (part = <<>> => Len(part) = 0) /\ Len(part) < 3
        BY <2>1, Empty, NotEmpty DEF ClientTypes, DownInv
      <3>2. current = IF part = <<>> THEN 0 ELSE 3
        BY <2>1 DEF DownInv
      <3> QED BY <3>1, <3>2
    <2>3. dwSize \in 0..(BUFFER_SIZE - szBuffer) /\ szBuffer \in 0..BUFFER_SIZE
      <3>1. szBuffer \in Nat /\ dwSize \in Nat /\ szBuffer + dwSize <= BUFFER_SIZE /\ BUFFER_SIZE \in Nat
        BY <2>1, FramingOK DEF ReadTypes, RoomInv
      <3> QED BY <3>1
    <2>4. {reader, writer, m_lock} \subseteq Workers \union {Nobody}
      BY <2>1 DEF ReadTypes, SendTypes
    <2>5. Len(m_pReadBuf) + Len(got) <= BUFFER_SIZE
      BY <2>1 DEF RoomInv
    <2>6. m_nPendingWrite = PingSize * queued + inFlight /\ inFlight >= 0
      BY <2>1 DEF SendTypes, PingSize
    <2>7. /\ script \in Scripts /\ sent \in 0..Len(script)
          /\ client \in {"off", "posted", "assemble", "over"}
          /\ chain \in {"off", "posted", "completed", "framing", "closing", "over"}
          /\ closed \in {"no", "end", "pending", "size"} /\ hungUp \in BOOLEAN
      BY <2>1 DEF ClientTypes, ReadTypes
    <2> QED BY <2>2, <2>3, <2>4, <2>5, <2>6, <2>7 DEF TypeOK
  <1> QED BY <1>1, InvHolds, PTL

\* The server closes for a reason the client has given: it has hung up, or it
\* has sent a size that no packet has.  A rest in the read buffer never takes
\* the room of the next read (BGIOSocket.cpp 103, BGTestSocket.cpp 139).
THEOREM ClosesForAReason == Spec => []ClosedForAReason
  <1>1. IInv => ClosedForAReason
    BY DEF IInv, ReadInv, RoomInv, SizeInv, ClosedForAReason, PACKET_RESERVED_LENGTH
  <1> QED BY <1>1, InvHolds, PTL

\* What waits to be sent is bounded by the limit and one buffer of pings, though
\* OnRead looks at the limit only once per read (BGTestSocket.cpp 118).
THEOREM PendingIsBounded == Spec => []PendingBounded
  <1>1. IInv => PendingBounded
    <2> SUFFICES ASSUME IInv PROVE PendingBounded
      OBVIOUS
    <2>1. /\ szBuffer \in Nat /\ szBuffer <= BUFFER_SIZE /\ BUFFER_SIZE \in Nat /\ PENDING_WRITE \in Nat
          /\ m_nPendingWrite \in Nat
      <3>1. szBuffer \in Nat /\ dwSize \in Nat /\ szBuffer + dwSize <= BUFFER_SIZE
        BY DEF IInv, ReadInv, ReadTypes, RoomInv
      <3>2. m_nPendingWrite = 3 * queued + inFlight /\ queued \in Nat /\ inFlight \in Nat
        BY DEF IInv, SendInv, SendTypes
      <3> QED BY <3>1, <3>2, FramingOK
    <2>2. m_nPendingWrite <= PENDING_WRITE + (IF chain = "framing" THEN szBuffer ELSE BUFFER_SIZE)
      BY DEF IInv, SendInv, PendInv
    <2> QED BY <2>1, <2>2 DEF PendingBounded
  <1> QED BY <1>1, InvHolds, PTL

-----------------------------------------------------------------------------
\* Both directions implement the channel of packets.

LEMMA SentSoFar ==
    ASSUME NEW s, NEW n \in Nat
    PROVE  /\ [k \in 1..(n + 1) |-> Bytes(s[k])] = Append([k \in 1..n |-> Bytes(s[k])], Bytes(s[n + 1]))
           /\ Len([k \in 1..n |-> Bytes(s[k])]) = n
  OBVIOUS

LEMMA AnsweredSoFar ==
    ASSUME NEW n \in Nat
    PROVE  /\ [k \in 1..(n + 1) |-> Pong] = Append([k \in 1..n |-> Pong], Pong)
           /\ Len([k \in 1..n |-> Pong]) = n
  OBVIOUS

LEMMA CanBeSent == /\ Pong \in Packets
                   /\ \A s \in Scripts : \A k \in DOMAIN s : Bytes(s[k]) \in Packets
  BY DEF Packets

LEMMA UpImplements ==
    ASSUME ClientInv, ReadInv, UpInv, [Next]_vars
    PROVE  [Up!Send \/ Up!Receive]_(Up!vars)
  <1>1. PICK n \in Nat, s \in Scripts : n = sent /\ s = script
    BY DEF ClientInv, ClientTypes
  <1>2. script' = s
    BY <1>1, SentGrows
  <1>3. CASE sent' = sent + 1 /\ sent < Len(script) /\ handled' = handled
    <2>1. Bytes(s[n + 1]) \in Packets
      <3>1. n + 1 \in DOMAIN s
        <4>1. s \in Seq(Headers) /\ Len(s) \in Nat
          BY ScriptTypes
        <4> QED BY <1>1, <1>3, <4>1
      <3> QED BY <1>1, <3>1, CanBeSent
    <2>2. [k \in 1..(n + 1) |-> Bytes(s[k])] = Append([k \in 1..n |-> Bytes(s[k])], Bytes(s[n + 1]))
      BY SentSoFar
    <2>3. [k \in 1..sent |-> Bytes(script[k])]' = Append([k \in 1..sent |-> Bytes(script[k])], Bytes(s[n + 1]))
      BY <1>1, <1>2, <1>3, <2>2
    <2> QED BY <1>3, <2>1, <2>3 DEF Up!Send
  <1>4. ASSUME NEW w \in Workers, Process(w) PROVE Up!Receive
    <2>1. PICK h : h = Len(handled) + 1
      OBVIOUS
    <2>2. h \in 1..n /\ handled' = Append(handled, Bytes(s[h]))
      BY <1>1, <1>4, <2>1, UpProcess
    <2>3. Len(handled) < n
      BY <2>1, <2>2, LeftTypes
    <2>4. [k \in 1..n |-> Bytes(s[k])][h] = Bytes(s[h]) /\ Len([k \in 1..n |-> Bytes(s[k])]) = n
      BY <2>2, SentSoFar
    <2>5. sent' = n
      BY <1>1, <1>4 DEF Process, Advance, clientVars
    <2>6. [k \in 1..sent |-> Bytes(script[k])] = [k \in 1..n |-> Bytes(s[k])]
      BY <1>1
    <2>7. [k \in 1..sent |-> Bytes(script[k])]' = [k \in 1..sent |-> Bytes(script[k])]
      BY <1>1, <1>2, <2>5
    <2> QED BY <2>1, <2>2, <2>3, <2>4, <2>6, <2>7 DEF Up!Receive
  <1>5. CASE sent' = sent /\ handled' = handled
    BY <1>1, <1>2, <1>5 DEF Up!vars
  <1>6. sent' = sent => handled' = handled \/ \E w \in Workers : Process(w)
    BY DEF Next, vars, readVars, Connect, SendPacket, HangUp, ClientStep, ClientRecv, Assemble, ClientRead,
       ClientEnds, FirstRead, Complete, Transmit, ReadCallback, OnRead, Read, BadSize, CloseHandle,
       DequeueWrite, WriteCallback
  <1> QED BY <1>3, <1>4, <1>5, <1>6, SentGrows

LEMMA DownImplements ==
    ASSUME ClientInv, [Next]_vars
    PROVE  [Down!Send \/ Down!Receive]_(Down!vars)
  <1>1. PICK n \in Nat : n = answered
    BY DEF ClientInv, ClientTypes
  <1>2. CASE answered' = answered + 1 /\ shown' = shown
    <2>1. [k \in 1..(n + 1) |-> Pong] = Append([k \in 1..n |-> Pong], Pong)
      BY AnsweredSoFar
    <2>2. [k \in 1..answered |-> Pong]' = Append([k \in 1..answered |-> Pong], Pong)
      BY <1>1, <1>2, <2>1
    <2>3. Pong \in Packets
      BY CanBeSent
    <2> QED BY <1>2, <2>2, <2>3 DEF Down!Send
  <1>3. CASE answered' = answered /\ Len(shown) < answered /\ shown' = Append(shown, Pong)
    <2>1. Len(shown) \in Nat
      BY LenProperties DEF ClientInv, ClientTypes
    <2>2. PICK h \in 1..n : h = Len(shown) + 1
      BY <1>1, <1>3, <2>1
    <2>3. [k \in 1..n |-> Pong][h] = Pong /\ Len([k \in 1..n |-> Pong]) = n
      BY AnsweredSoFar
    <2>4. /\ [k \in 1..answered |-> Pong] = [k \in 1..n |-> Pong]
          /\ [k \in 1..answered |-> Pong]' = [k \in 1..answered |-> Pong]
      BY <1>1, <1>3
    <2> QED BY <1>1, <1>3, <2>2, <2>3, <2>4 DEF Down!Receive
  <1>4. CASE answered' = answered /\ shown' = shown
    BY <1>4 DEF Down!vars
  <1>5. CASE Assemble
    BY <1>3, <1>4, <1>5, StepAssemble DEF Assemble, sendVars
  <1>6. ASSUME NEW w \in Workers, Process(w) PROVE shown' = shown /\ (answered' = answered + 1 \/ answered' = answered)
    BY <1>6 DEF Process, Advance, clientVars
  <1>7. ASSUME ~Assemble, ~(\E w \in Workers : Process(w)) PROVE answered' = answered /\ shown' = shown
    BY <1>7 DEF Next, vars, clientVars, sendVars, Connect, SendPacket, HangUp, ClientStep, ClientRecv,
       ClientRead, ClientEnds, FirstRead, Complete, Transmit, ReadCallback, OnRead, Read, BadSize, CloseHandle,
       DequeueWrite, WriteCallback
  <1> QED BY <1>2, <1>4, <1>5, <1>6, <1>7

\* What Process is given is what the client sent, and what ProcessPacket is given
\* is what Process answered: whole packets, in order, each once, at any cut of the
\* streams (BGTestSocket.cpp 124-161, BGThreadFunc.cpp 32-56).
THEOREM ImplementsBothChannels == Spec => BothChannels
  <1>1. Init => Up!Init /\ Down!Init
    <2>1. [k \in 1..0 |-> Pong] = <<>> /\ \A s : [k \in 1..0 |-> Bytes(s[k])] = <<>>
      OBVIOUS
    <2> QED BY <2>1 DEF Init, Up!Init, Down!Init
  <1>2. IInv /\ [Next]_vars => [Up!Send \/ Up!Receive]_(Up!vars) /\ [Down!Send \/ Down!Receive]_(Down!vars)
    BY UpImplements, DownImplements DEF IInv
  <1> QED BY <1>1, <1>2, InvHolds, PTL DEF Spec, BothChannels, Up!Spec, Down!Spec
=============================================================================
