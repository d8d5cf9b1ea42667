--------------------------- MODULE FlagPipe_proofs ---------------------------
(***************************************************************************)
(* Proofs about the pipe and the event flag as FlagPipe composes them, for *)
(* any threads, lengths, capacity, patterns and modes.                     *)
(*                                                                         *)
(* The pipe is a bounded FIFO, its ends are there exactly while somebody   *)
(* holds them, end of file is final, and small writes go in whole.         *)
(* PipeInv is not inductive.  That nothing comes in after an end of file   *)
(* holds because the writing end is then gone, and gone for good: no       *)
(* descriptor and no call holds it (EndHeld), so no write is in its loop.  *)
(*                                                                         *)
(* The event flag's queue points to live records, nobody sleeps on bits    *)
(* that are there, and what set commits to a wait is what it returns.      *)
(* QueueInv needs two things besides itself: that a committed result       *)
(* matches its pattern (CommittedMatch), and what one run of the loop in   *)
(* EventFlag::Set has done after i waiters (LoopState), by induction on i. *)
(***************************************************************************)
EXTENDS FlagPipe, SequenceTheorems, WellFoundedInduction, TLAPS

\* A call in its loop has an end and something to do; one that has returned has
\* neither.
Calls ==
  /\ pret = [t \in Threads |-> pret[t]]
  /\ \A t \in Threads : ppc[t] = "run" => end[t] = P!NoEnd
  /\ \A t \in Threads : ppc[t] \in {"enter", "wait"} => end[t] \in P!Ends /\ length[t] > 0

\* A read that answers end of file has seen the writing end go.
WriterGone ==
  \A t \in Threads :
    ppc[t] = "leave" /\ end[t] = "reader" /\ pret[t] = P!Count(0) => bytes = <<>> /\ ~alive["writer"]

PipeIInv == P!TypeOK /\ P!BytesInOrder /\ P!EndHeld /\ Calls /\ WriterGone

-----------------------------------------------------------------------------
(* Answers and bytes.                                                       *)

\* Answers differ in their kind or their count.
LEMMA Answers ==
  /\ \A n \in Nat : P!Count(n) # <<>> /\ (P!Count(n) = P!Count(0) => n = 0) /\ P!Count(n)[1] = "count"
  /\ \A e \in {"EBADF", "EFAULT", "EAGAIN", "EINTR", "EPIPE"} :
       P!Err(e) # <<>> /\ P!Err(e) # P!Count(0) /\ P!Err(e)[1] # "count"
  BY DEF P!Count, P!Err

\* Taking n bytes out at the front.
LEMMA TakenOut ==
  ASSUME P!TypeOK, P!BytesInOrder, NEW n \in 0 .. Len(bytes),
         bytes' = SubSeq(bytes, n + 1, Len(bytes)), got' = got + n, sent' = sent,
         P!PipeAssumptions
  PROVE  bytes' \in Seq(Nat) /\ got' \in Nat /\ P!BytesInOrder'
  <1> DEFINE L == Len(bytes)
             m == n + 1
  <1>1. /\ L \in Nat /\ DOMAIN bytes = 1 .. L /\ \A i \in 1 .. L : bytes[i] \in Nat /\ bytes[i] = got + i
        /\ got \in Nat /\ sent \in Nat /\ L = sent - got /\ L <= Capacity
    BY LenProperties, ElementOfSeq DEF P!TypeOK, P!BytesInOrder
  <1>2. n \in Nat /\ n <= L /\ m \in Int /\ L \in Int /\ m \in 1 .. L + 1
    BY <1>1
  <1>3. \A i \in m .. L : bytes[i] \in Nat
    BY <1>1, <1>2
  <1>4. /\ bytes' \in Seq(Nat)
        /\ Len(bytes') = IF m <= L THEN L - m + 1 ELSE 0
        /\ \A i \in 1 .. L - m + 1 : bytes'[i] = bytes[m + i - 1]
    <2> HIDE DEF m, L
    <2>1. bytes' = SubSeq(bytes, m, L)
      BY DEF m, L
    <2>2. m \in Int /\ L \in Int
      BY <1>2
    <2>3. /\ SubSeq(bytes, m, L) \in Seq(Nat)
          /\ Len(SubSeq(bytes, m, L)) = IF m <= L THEN L - m + 1 ELSE 0
          /\ \A i \in 1 .. L - m + 1 : SubSeq(bytes, m, L)[i] = bytes[m + i - 1]
      BY <1>3, <2>2, SubSeqProperties
    <2>4. QED
      BY <2>1, <2>3, Zenon
  <1>5. Len(bytes') = L - n /\ \A i \in 1 .. L - n : bytes'[i] = bytes[n + i]
    <2>1. L - m + 1 = L - n /\ (~(m <= L) => L - n = 0)
      BY <1>1, <1>2
    <2>2. \A i \in 1 .. L - n : m + i - 1 = n + i
      BY <1>1, <1>2
    <2>3. QED
      BY <1>4, <2>1, <2>2
  <1>6. DOMAIN bytes' = 1 .. Len(bytes')
    BY <1>4, LenProperties
  <1>7. got' \in Nat /\ Len(bytes') = sent' - got' /\ Len(bytes') <= Capacity
    BY <1>1, <1>2, <1>5 DEF P!PipeAssumptions
  <1>8. \A i \in DOMAIN bytes' : bytes'[i] = got' + i
    <2>1. SUFFICES ASSUME NEW i \in 1 .. L - n PROVE bytes'[i] = got' + i
      BY <1>5, <1>6
    <2>2. n + i \in 1 .. L
      BY <1>1, <1>2
    <2>3. bytes'[i] = got + (n + i)
      BY <1>1, <1>5, <2>2
    <2>4. QED
      BY <1>1, <1>2, <2>3
  <1>9. QED
    BY <1>4, <1>7, <1>8 DEF P!BytesInOrder

\* Putting n bytes in at the back.
LEMMA Put ==
  ASSUME P!TypeOK, P!BytesInOrder, NEW n \in Nat, n <= P!Room,
         bytes' = bytes \o P!NewBytes(n), sent' = sent + n, got' = got, P!PipeAssumptions
  PROVE  bytes' \in Seq(Nat) /\ sent' \in Nat /\ P!BytesInOrder'
  <1> DEFINE L == Len(bytes)
  <1>1. /\ L \in Nat /\ DOMAIN bytes = 1 .. L /\ \A i \in 1 .. L : bytes[i] = got + i
        /\ got \in Nat /\ sent \in Nat /\ L = sent - got
    BY LenProperties DEF P!TypeOK, P!BytesInOrder
  <1>2. P!NewBytes(n) \in Seq(Nat) /\ Len(P!NewBytes(n)) = n
    BY DEF P!NewBytes, P!TypeOK
  <1>3. /\ bytes' \in Seq(Nat) /\ Len(bytes') = L + n
        /\ \A i \in 1 .. L + n :
             bytes'[i] = IF i <= L THEN bytes[i] ELSE P!NewBytes(n)[i - L]
    BY <1>2, ConcatProperties DEF P!TypeOK
  <1>4. \A i \in 1 .. n : P!NewBytes(n)[i] = sent + i
    BY DEF P!NewBytes
  <1>5. DOMAIN bytes' = 1 .. Len(bytes')
    BY <1>3, LenProperties
  <1>6. sent' \in Nat /\ Len(bytes') = sent' - got' /\ Len(bytes') <= Capacity
    BY <1>1, <1>3 DEF P!PipeAssumptions, P!Room
  <1>7. \A i \in DOMAIN bytes' : bytes'[i] = got' + i
    <2>1. SUFFICES ASSUME NEW i \in 1 .. L + n PROVE bytes'[i] = got + i
      BY <1>3, <1>5
    <2>2. CASE i <= L
      <3>1. i \in 1 .. L
        BY <1>1, <2>2
      <3>2. QED
        BY <1>1, <1>3, <2>2, <3>1
    <2>3. CASE ~(i <= L)
      <3>1. i - L \in 1 .. n
        BY <1>1, <2>3
      <3>2. bytes'[i] = sent + (i - L)
        BY <1>3, <1>4, <2>3, <3>1
      <3>3. QED
        BY <1>1, <3>2
    <2>4. QED
      BY <2>2, <2>3
  <1>8. QED
    BY <1>3, <1>6, <1>7 DEF P!BytesInOrder

-----------------------------------------------------------------------------
(* One lemma for each way a step can go.                                    *)

\* The loop refuses: nothing moves but the call, which waits or answers.
LEMMA Refused ==
  ASSUME PipeIInv, NEW t \in Threads, NEW e \in P!Ends, NEW o \in P!Ends, NEW gone,
         P!InLoop(t, e), P!LoopAgain(t, P!Refusal(t, o, gone)),
         \/ e = "writer" /\ gone = P!Err("EPIPE")
         \/ e = "reader" /\ o = "writer" /\ gone = P!Count(0) /\ bytes = <<>>
  PROVE  PipeIInv'
  <1> DEFINE r == P!Refusal(t, o, gone)
  <1>1. /\ bytes' = bytes /\ alive' = alive /\ handle' = handle
        /\ nonblocking' = nonblocking /\ end' = end /\ length' = length
        /\ sent' = sent /\ got' = got /\ stopping' = stopping
    BY DEF P!LoopAgain, P!Answer
  <1>2. P!TypeOK' /\ P!BytesInOrder' /\ P!EndHeld'
    BY <1>1 DEF PipeIInv, P!LoopAgain, P!Answer, P!TypeOK, P!BytesInOrder, P!EndHeld, P!Holders
  <1>3. Calls'
    BY <1>1 DEF PipeIInv, P!LoopAgain, P!Answer, Calls, P!TypeOK, P!InLoop
  <1>4. WriterGone'
    <2>1. SUFFICES ASSUME NEW u \in Threads, ppc'[u] = "leave", end[u] = "reader", pret'[u] = P!Count(0)
                   PROVE  bytes = <<>> /\ ~alive["writer"]
      BY <1>1 DEF WriterGone
    <2>2. CASE u = t
      <3>1. r # <<>> /\ pret'[t] = r
        BY <2>1, <2>2 DEF P!LoopAgain, P!Answer, PipeIInv, P!TypeOK, Calls
      <3>2. e = "reader" /\ r = P!Count(0)
        BY <2>1, <2>2, <3>1 DEF P!InLoop
      <3>3. QED
        BY <3>1, <3>2, Answers DEF P!Refusal
    <2>3. CASE u # t
      <3>1. ppc[u] = "leave" /\ pret[u] = P!Count(0)
        BY <2>1, <2>3 DEF P!LoopAgain, P!Answer, PipeIInv, P!TypeOK, Calls
      <3>2. QED
        BY <2>1, <3>1 DEF PipeIInv, WriterGone
    <2>4. QED
      BY <2>2, <2>3
  <1>5. QED
    BY <1>2, <1>3, <1>4 DEF PipeIInv

\* A call answers with r, which is no end of file; what it did to the bytes keeps
\* them in order, and it put none in unless it writes.
LEMMA Answered ==
  ASSUME PipeIInv, NEW t \in Threads, NEW r, P!Answer(t, r), P!InLoop(t, "reader") \/ P!InLoop(t, "writer"),
         r # P!Count(0), bytes' \in Seq(Nat), sent' \in Nat, got' \in Nat, P!BytesInOrder',
         P!InLoop(t, "reader") => bytes # <<>>
  PROVE  PipeIInv'
  <1>1. /\ alive' = alive /\ handle' = handle /\ nonblocking' = nonblocking
        /\ end' = end /\ length' = length /\ stopping' = stopping
        /\ ppc' = [ppc EXCEPT ![t] = "leave"] /\ pret' = [pret EXCEPT ![t] = r]
    BY DEF P!Answer
  <1>2. P!TypeOK'
    BY <1>1 DEF PipeIInv, P!TypeOK
  <1>3. P!EndHeld'
    BY <1>1 DEF PipeIInv, P!EndHeld, P!Holders
  <1>4. Calls'
    BY <1>1 DEF PipeIInv, Calls, P!TypeOK
  <1>5. WriterGone'
    <2>1. SUFFICES ASSUME NEW u \in Threads, ppc'[u] = "leave", end[u] = "reader", pret'[u] = P!Count(0)
                   PROVE  bytes' = <<>> /\ ~alive["writer"]
      BY <1>1 DEF WriterGone
    <2>2. u # t
      BY <1>1, <2>1 DEF PipeIInv, P!TypeOK, Calls
    <2>3. ppc[u] = "leave" /\ pret[u] = P!Count(0)
      BY <1>1, <2>1, <2>2 DEF PipeIInv, P!TypeOK, Calls
    <2>4. bytes = <<>> /\ ~alive["writer"]
      BY <2>1, <2>3 DEF PipeIInv, WriterGone
    <2>5. P!Holders("writer") = {}
      BY <2>4 DEF PipeIInv, P!EndHeld, P!Ends
    <2>6. QED
      BY <2>4, <2>5 DEF P!Holders, P!InLoop
  <1>6. QED
    BY <1>2, <1>3, <1>4, <1>5 DEF PipeIInv

\* PipeDevice::Read.
LEMMA ReadStep ==
  ASSUME PipeIInv, P!PipeAssumptions, NEW t \in Threads, P!Read(t)
  PROVE  PipeIInv'
  <1>1. P!InLoop(t, "reader") /\ "reader" \in P!Ends /\ "writer" \in P!Ends
    BY DEF P!Read, P!Ends
  <1>2. CASE bytes = <<>>
    BY <1>1, <1>2, Refused DEF P!Read
  <1>3. CASE bytes # <<>>
    <2> DEFINE n == IF length[t] < Len(bytes) THEN length[t] ELSE Len(bytes)
    <2>1. Len(bytes) \in Nat /\ Len(bytes) > 0
      BY <1>3, EmptySeq DEF PipeIInv, P!TypeOK
    <2>2. length[t] \in Nat /\ length[t] > 0
      BY <1>1 DEF PipeIInv, P!TypeOK, Calls, P!InLoop, P!PipeAssumptions
    <2>3. n \in 0 .. Len(bytes) /\ n \in Nat /\ n # 0
      BY <2>1, <2>2
    <2>4. /\ bytes' = SubSeq(bytes, n + 1, Len(bytes)) /\ got' = got + n /\ sent' = sent
          /\ P!Answer(t, P!Count(n))
      BY <1>3 DEF P!Read
    <2> HIDE DEF n
    <2>5. bytes' \in Seq(Nat) /\ got' \in Nat /\ P!BytesInOrder'
      BY <2>3, <2>4, TakenOut DEF PipeIInv
    <2>6. P!Count(n) # P!Count(0)
      BY <2>3, Answers
    <2>7. sent' \in Nat
      BY <2>4 DEF PipeIInv, P!TypeOK
    <2>8. QED
      BY <1>1, <1>3, <2>4, <2>5, <2>6, <2>7, Answered
  <1>4. QED
    BY <1>2, <1>3

\* What a write that goes ahead puts in: at least one byte, all of a small write,
\* no more than there is room for.
LEMMA Fits ==
  ASSUME PipeIInv, P!PipeAssumptions, NEW t \in Threads, P!InLoop(t, "writer"), ~(P!Room < P!Needed(t)),
         NEW n, n = IF length[t] < P!Room THEN length[t] ELSE P!Room
  PROVE  n \in Nat /\ n # 0 /\ n <= P!Room /\ (n = length[t] \/ length[t] > AtomicWrite)
  <1>1. Len(bytes) \in Nat /\ Len(bytes) <= Capacity
    BY LenProperties DEF PipeIInv, P!TypeOK, P!BytesInOrder
  <1>2. length[t] \in Nat /\ length[t] > 0
    BY DEF PipeIInv, P!TypeOK, Calls, P!InLoop, P!PipeAssumptions
  <1>3. QED
    BY <1>1, <1>2 DEF P!Room, P!Needed, P!PipeAssumptions

\* PipeDevice::Write.
LEMMA WriteStep ==
  ASSUME PipeIInv, P!PipeAssumptions, NEW t \in Threads, P!Write(t)
  PROVE  PipeIInv'
  <1>1. P!InLoop(t, "writer") /\ "reader" \in P!Ends /\ "writer" \in P!Ends
    BY DEF P!Write, P!Ends
  <1>2. CASE P!Room < P!Needed(t)
    BY <1>1, <1>2, Refused DEF P!Write
  <1>3. CASE ~(P!Room < P!Needed(t)) /\ ~alive["reader"]
    <2>1. P!Answer(t, P!Err("EPIPE")) /\ bytes' = bytes /\ sent' = sent /\ got' = got
      BY <1>3 DEF P!Write
    <2>2. bytes' \in Seq(Nat) /\ sent' \in Nat /\ got' \in Nat /\ P!BytesInOrder'
      BY <2>1 DEF PipeIInv, P!TypeOK, P!BytesInOrder
    <2>3. ~P!InLoop(t, "reader")
      BY <1>1 DEF P!InLoop
    <2>4. QED
      BY <1>1, <2>1, <2>2, <2>3, Answers, Answered
  <1>4. CASE ~(P!Room < P!Needed(t)) /\ alive["reader"]
    <2> DEFINE n == IF length[t] < P!Room THEN length[t] ELSE P!Room
    <2>1. n \in Nat /\ n # 0 /\ n <= P!Room
      BY <1>1, <1>4, Fits
    <2>2. bytes' = bytes \o P!NewBytes(n) /\ sent' = sent + n /\ got' = got /\ P!Answer(t, P!Count(n))
      BY <1>4 DEF P!Write
    <2> HIDE DEF n
    <2>3. bytes' \in Seq(Nat) /\ sent' \in Nat /\ P!BytesInOrder'
      BY <2>1, <2>2, Put DEF PipeIInv
    <2>4. got' \in Nat /\ P!Count(n) # P!Count(0) /\ ~P!InLoop(t, "reader")
      BY <1>1, <2>1, <2>2, Answers DEF PipeIInv, P!TypeOK, P!InLoop
    <2>5. QED
      BY <1>1, <2>2, <2>3, <2>4, Answered
  <1>5. QED
    BY <1>2, <1>3, <1>4

\* A call comes in; the end it takes is open.
LEMMA CallStep ==
  ASSUME PipeIInv, P!PipeAssumptions, NEW t \in Threads, NEW d \in P!Ends, NEW op \in P!Ends,
         NEW n \in Lengths, NEW m \in BOOLEAN, P!Call(t, d, op, n, m)
  PROVE  PipeIInv'
  <1>1. /\ bytes' = bytes /\ alive' = alive /\ handle' = handle
        /\ nonblocking' = nonblocking /\ sent' = sent /\ got' = got
        /\ stopping' = stopping /\ ppc[t] = "run" /\ end[t] = P!NoEnd
    BY DEF P!Call, PipeIInv, Calls
  <1>2. CASE P!Early(d, op, n, m) # <<>>
    <2>1. /\ ppc' = [ppc EXCEPT ![t] = "leave"] /\ end' = end /\ length' = length
          /\ pret' = [pret EXCEPT ![t] = P!Early(d, op, n, m)]
      BY <1>2 DEF P!Call
    <2>2. P!TypeOK' /\ P!BytesInOrder'
      BY <1>1, <2>1 DEF PipeIInv, P!TypeOK, P!BytesInOrder
    <2>3. P!EndHeld'
      BY <1>1, <2>1 DEF PipeIInv, P!EndHeld, P!Holders
    <2>4. Calls'
      BY <2>1 DEF PipeIInv, P!TypeOK, Calls
    <2>5. WriterGone'
      BY <1>1, <2>1 DEF PipeIInv, P!TypeOK, Calls, WriterGone, P!NoEnd
    <2>6. QED
      BY <2>2, <2>3, <2>4, <2>5 DEF PipeIInv
  <1>3. CASE P!Early(d, op, n, m) = <<>>
    <2>1. /\ ppc' = [ppc EXCEPT ![t] = "enter"] /\ end' = [end EXCEPT ![t] = d]
          /\ length' = [length EXCEPT ![t] = n] /\ pret' = pret
      BY <1>3 DEF P!Call
    <2>2. handle[d] /\ n # 0
      BY <1>3, Answers DEF P!Early
    <2>3. P!TypeOK' /\ P!BytesInOrder'
      BY <1>1, <2>1 DEF PipeIInv, P!TypeOK, P!BytesInOrder
    <2>4. P!EndHeld'
      <3>1. SUFFICES ASSUME NEW e \in P!Ends PROVE alive[e] <=> handle[e] \/ P!Holders(e)' # {}
        BY <1>1 DEF P!EndHeld
      <3>2. CASE e = d
        BY <2>2, <3>2 DEF PipeIInv, P!EndHeld
      <3>3. CASE e # d
        <4>1. P!Holders(e)' = P!Holders(e)
          BY <1>1, <2>1, <3>3 DEF P!Holders, PipeIInv, P!TypeOK, P!Ends, P!NoEnd
        <4>2. QED
          BY <4>1 DEF PipeIInv, P!EndHeld
      <3>4. QED
        BY <3>2, <3>3
    <2>5. Calls'
      BY <2>1, <2>2 DEF PipeIInv, P!TypeOK, Calls, P!PipeAssumptions
    <2>6. WriterGone'
      BY <1>1, <2>1 DEF PipeIInv, P!TypeOK, WriterGone
    <2>7. QED
      BY <2>3, <2>4, <2>5, <2>6 DEF PipeIInv
  <1>4. QED
    BY <1>2, <1>3

\* A call returns; the end goes with its last reference.
LEMMA ReturnStep ==
  ASSUME PipeIInv, NEW t \in Threads, P!Return(t)
  PROVE  PipeIInv'
  <1>1. /\ ppc[t] = "leave" /\ ppc' = [ppc EXCEPT ![t] = "run"] /\ end' = [end EXCEPT ![t] = P!NoEnd]
        /\ length' = [length EXCEPT ![t] = 0] /\ pret' = [pret EXCEPT ![t] = <<>>]
        /\ bytes' = bytes /\ handle' = handle /\ nonblocking' = nonblocking
        /\ sent' = sent /\ got' = got /\ stopping' = stopping
    BY DEF P!Return
  <1>2. \A e \in P!Ends : P!Holders(e)' = P!Holders(e) \ {t}
    BY <1>1 DEF P!Holders, PipeIInv, P!TypeOK, P!Ends, P!NoEnd
  <1>3. /\ alive' \in [P!Ends -> BOOLEAN]
        /\ \A e \in P!Ends : alive'[e] <=> handle[e] \/ P!Holders(e) \ {t} # {}
    <2>1. CASE end[t] = P!NoEnd
      <3>1. \A e \in P!Ends : P!Holders(e) \ {t} = P!Holders(e)
        BY <2>1 DEF P!Holders, P!Ends, P!NoEnd
      <3>2. alive' = alive
        BY <2>1 DEF P!Return
      <3>3. QED
        BY <3>1, <3>2 DEF PipeIInv, P!TypeOK, P!EndHeld
    <2>2. CASE end[t] # P!NoEnd
      <3>1. end[t] \in P!Ends
        BY <2>2 DEF PipeIInv, P!TypeOK
      <3>2. alive' = [alive EXCEPT ![end[t]] = alive[end[t]] /\ (handle[end[t]] \/ P!Holders(end[t]) \ {t} # {})]
        BY <2>2 DEF P!Return, P!Destroyed
      <3>3. alive[end[t]]
        BY <3>1 DEF PipeIInv, P!EndHeld, P!Holders
      <3>4. \A e \in P!Ends \ {end[t]} : P!Holders(e) \ {t} = P!Holders(e)
        BY DEF P!Holders
      <3>5. alive' \in [P!Ends -> BOOLEAN]
        BY <3>1, <3>2 DEF PipeIInv, P!TypeOK
      <3>6. \A e \in P!Ends \ {end[t]} : alive'[e] = alive[e]
        BY <3>1, <3>2 DEF PipeIInv, P!TypeOK
      <3>7. alive'[end[t]] <=> handle[end[t]] \/ P!Holders(end[t]) \ {t} # {}
        BY <3>1, <3>2, <3>3 DEF PipeIInv, P!TypeOK
      <3>8. QED
        BY <3>4, <3>5, <3>6, <3>7 DEF PipeIInv, P!EndHeld
    <2>3. QED
      BY <2>1, <2>2
  <1>4. P!TypeOK' /\ P!BytesInOrder'
    BY <1>1, <1>3 DEF PipeIInv, P!TypeOK, P!BytesInOrder
  <1>5. P!EndHeld'
    BY <1>1, <1>2, <1>3 DEF P!EndHeld
  <1>6. Calls'
    BY <1>1 DEF PipeIInv, P!TypeOK, Calls
  <1>7. WriterGone'
    <2>1. ~alive["writer"] => ~alive'["writer"]
      BY <1>3 DEF PipeIInv, P!EndHeld, P!Ends
    <2>2. QED
      BY <1>1, <2>1 DEF PipeIInv, P!TypeOK, Calls, WriterGone
  <1>8. QED
    BY <1>4, <1>5, <1>6, <1>7 DEF PipeIInv

\* sys_close.
LEMMA CloseStep ==
  ASSUME PipeIInv, NEW d \in P!Ends, P!Close(d)
  PROVE  PipeIInv'
  <1>1. /\ handle[d] /\ handle' = [handle EXCEPT ![d] = FALSE]
        /\ alive' = [alive EXCEPT ![d] = alive[d] /\ P!Holders(d) # {}]
        /\ bytes' = bytes /\ nonblocking' = nonblocking /\ ppc' = ppc /\ end' = end
        /\ length' = length /\ pret' = pret /\ sent' = sent /\ got' = got /\ stopping' = stopping
    BY DEF P!Close, P!Destroyed
  <1>2. alive[d]
    BY <1>1 DEF PipeIInv, P!EndHeld
  <1>3. alive' \in [P!Ends -> BOOLEAN] /\ handle' \in [P!Ends -> BOOLEAN]
    BY <1>1 DEF PipeIInv, P!TypeOK
  <1>4. /\ alive'[d] <=> P!Holders(d) # {}
        /\ ~handle'[d]
        /\ \A e \in P!Ends \ {d} : alive'[e] = alive[e] /\ handle'[e] = handle[e]
    BY <1>1, <1>2 DEF PipeIInv, P!TypeOK
  <1>5. P!TypeOK' /\ P!BytesInOrder' /\ Calls'
    BY <1>1, <1>3 DEF PipeIInv, P!TypeOK, P!BytesInOrder, Calls
  <1>6. P!EndHeld'
    <2>1. \A e \in P!Ends : P!Holders(e)' = P!Holders(e)
      BY <1>1 DEF P!Holders
    <2>2. QED
      BY <1>4, <2>1 DEF PipeIInv, P!EndHeld
  <1>7. WriterGone'
    <2>1. ~alive["writer"] => ~alive'["writer"]
      BY <1>2, <1>4 DEF P!Ends
    <2>2. QED
      BY <1>1, <2>1 DEF PipeIInv, WriterGone
  <1>8. QED
    BY <1>5, <1>6, <1>7 DEF PipeIInv

-----------------------------------------------------------------------------
(* The induction and its theorems.                                          *)

LEMMA InitHolds == ASSUME P!PipeAssumptions PROVE P!Init => PipeIInv
  <1>1. SUFFICES ASSUME P!Init PROVE PipeIInv
    OBVIOUS
  <1>2. bytes \in Seq(Nat) /\ Len(bytes) = 0 /\ DOMAIN bytes = 1 .. 0
    BY <1>1, EmptySeq, LenProperties DEF P!Init
  <1>3. P!TypeOK /\ Calls /\ WriterGone
    BY <1>1, <1>2 DEF P!Init, P!TypeOK, Calls, WriterGone, P!Ends
  <1>4. P!EndHeld
    BY <1>1 DEF P!Init, P!EndHeld
  <1>5. QED
    BY <1>1, <1>2, <1>3, <1>4 DEF P!Init, PipeIInv, P!BytesInOrder, P!PipeAssumptions

LEMMA StepHolds == ASSUME P!PipeAssumptions PROVE PipeIInv /\ [P!Next]_(P!vars) => PipeIInv'
  <1>1. SUFFICES ASSUME PipeIInv, [P!Next]_(P!vars) PROVE PipeIInv'
    OBVIOUS
  <1>2. CASE P!Stop
    BY <1>1, <1>2 DEF P!Stop, PipeIInv, P!TypeOK, P!BytesInOrder, P!EndHeld, P!Holders, Calls, WriterGone
  <1>3. ASSUME NEW e \in P!Ends, P!Close(e) PROVE PipeIInv'
    BY <1>1, <1>3, CloseStep
  <1>4. ASSUME NEW e \in P!Ends, NEW b \in BOOLEAN, P!SetFlags(e, b) PROVE PipeIInv'
    BY <1>1, <1>4 DEF P!SetFlags, PipeIInv, P!TypeOK, P!BytesInOrder, P!EndHeld, P!Holders, Calls, WriterGone
  <1>5. ASSUME NEW t \in Threads, NEW d \in P!Ends, NEW op \in P!Ends, NEW n \in Lengths,
               NEW m \in BOOLEAN, P!Call(t, d, op, n, m)
        PROVE  PipeIInv'
    BY <1>1, <1>5, CallStep
  <1>6. ASSUME NEW t \in Threads, P!Read(t) PROVE PipeIInv'
    BY <1>1, <1>6, ReadStep
  <1>7. ASSUME NEW t \in Threads, P!Write(t) PROVE PipeIInv'
    BY <1>1, <1>7, WriteStep
  <1>8. ASSUME NEW t \in Threads, P!Return(t) PROVE PipeIInv'
    BY <1>1, <1>8, ReturnStep
  <1>9. CASE UNCHANGED P!vars
    BY <1>1, <1>9 DEF P!vars, PipeIInv, P!TypeOK, P!BytesInOrder, P!EndHeld, P!Holders, Calls, WriterGone
  <1>10. QED
    BY <1>1, <1>2, <1>3, <1>4, <1>5, <1>6, <1>7, <1>8, <1>9 DEF P!Next

\* A step of a behaviour about the pipe is the pipe's; any other leaves it alone.
LEMMA PipeMoves ==
  ASSUME [AllNext]_allVars
  PROVE  used' = used /\ (used = "pipe" => [P!Next]_(P!vars)) /\ (used # "pipe" => UNCHANGED pipeOnly)
  <1>1. CASE InFlag(Next)
    BY <1>1 DEF InFlag
  <1>2. CASE InPipe(P!Next)
    BY <1>2 DEF InPipe
  <1>3. CASE UNCHANGED allVars
    BY <1>3 DEF allVars, pipeOnly, P!vars
  <1>4. QED
    BY <1>1, <1>2, <1>3 DEF AllNext

\* In every behaviour about the pipe.
LEMMA PipeAlways ==
  /\ P!Spec => []PipeIInv
  /\ AllSpec => [](used = "pipe" => PipeIInv)
  <1>1. P!Init => PipeIInv
    BY FlagPipeAssumption, InitHolds
  <1>2. PipeIInv /\ [P!Next]_(P!vars) => PipeIInv'
    BY FlagPipeAssumption, StepHolds
  <1> DEFINE I == used = "pipe" => PipeIInv
  <1>3. AllInit => I
    BY <1>1 DEF AllInit
  <1>4. I /\ [AllNext]_allVars => I'
    <2>1. SUFFICES ASSUME I, [AllNext]_allVars, used' = "pipe" PROVE PipeIInv'
      OBVIOUS
    <2>2. used = "pipe" /\ [P!Next]_(P!vars)
      BY <2>1, PipeMoves
    <2>3. QED
      BY <1>2, <2>1, <2>2
  <1> HIDE DEF I
  <1>5. AllSpec => []I
    BY <1>3, <1>4, PTL DEF AllSpec
  <1>6. P!Spec => []PipeIInv
    BY <1>1, <1>2, PTL DEF P!Spec
  <1>7. QED
    BY <1>5, <1>6 DEF I

\* The pipe is a bounded FIFO: it holds what was written and not yet read, in the
\* order of the writes, within kCapacity; an end is there exactly while its
\* descriptor is open or a call on it is under way; and once a read has decided
\* on end of file nothing comes in before it returns.
THEOREM PipeSafe ==
  /\ P!Spec => []P!PipeInv
  /\ AllSpec => []PipeInv
  <1>1. PipeIInv => P!PipeInv
    BY DEF PipeIInv, P!PipeInv, WriterGone, P!EofIsFinal
  <1>2. (used = "pipe" => PipeIInv) => PipeInv
    BY <1>1 DEF PipeInv
  <1>3. QED
    BY <1>1, <1>2, PipeAlways, PTL

\* What a write does when it ends: PipeDevice::Write stores nothing or, up to
\* kAtomicWrite, all of the buffer, only while somebody can read it, and answers
\* with a count exactly then.
WholeStep(t) ==
  P!InLoop(t, "writer") /\ ppc'[t] = "leave" =>
    /\ sent' # sent => alive["reader"]
    /\ sent' - sent \in {0, length[t]} \/ length[t] > AtomicWrite
    /\ (pret'[t][1] = "count") <=> (sent' # sent)

LEMMA WriteIsWhole ==
  ASSUME PipeIInv, P!PipeAssumptions, NEW t \in Threads, P!Write(t)
  PROVE  WholeStep(t)
  <1>1. SUFFICES ASSUME ppc'[t] = "leave"
                 PROVE  /\ sent' # sent => alive["reader"]
                        /\ sent' - sent \in {0, length[t]} \/ length[t] > AtomicWrite
                        /\ (pret'[t][1] = "count") <=> (sent' # sent)
    BY DEF WholeStep
  <1>2. P!InLoop(t, "writer") /\ sent \in Nat
    BY DEF P!Write, PipeIInv, P!TypeOK
  <1>3. ASSUME NEW e \in {"EAGAIN", "EINTR", "EPIPE"}, sent' = sent, P!Answer(t, P!Err(e))
        PROVE  sent' - sent = 0 /\ pret'[t][1] # "count"
    <2>1. pret'[t] = P!Err(e)
      BY <1>3 DEF P!Answer, PipeIInv, Calls
    <2>2. QED
      BY <1>2, <1>3, <2>1, Answers
  <1>4. CASE P!Room < P!Needed(t)
    <2>1. P!LoopAgain(t, P!Refusal(t, "reader", P!Err("EPIPE")))
      BY <1>4 DEF P!Write
    <2>2. sent' = sent /\ P!Answer(t, P!Refusal(t, "reader", P!Err("EPIPE")))
          /\ P!Refusal(t, "reader", P!Err("EPIPE")) # <<>>
      BY <1>1, <2>1 DEF P!LoopAgain, PipeIInv, P!TypeOK
    <2>3. PICK e \in {"EAGAIN", "EINTR", "EPIPE"} : P!Refusal(t, "reader", P!Err("EPIPE")) = P!Err(e)
      BY <2>2 DEF P!Refusal
    <2>4. QED
      BY <1>3, <2>2, <2>3
  <1>5. CASE ~(P!Room < P!Needed(t)) /\ ~alive["reader"]
    BY <1>3, <1>5 DEF P!Write
  <1>6. CASE ~(P!Room < P!Needed(t)) /\ alive["reader"]
    <2> DEFINE n == IF length[t] < P!Room THEN length[t] ELSE P!Room
    <2>1. n \in Nat /\ n # 0 /\ (n = length[t] \/ length[t] > AtomicWrite)
      BY <1>2, <1>6, Fits
    <2>2. sent' = sent + n /\ P!Answer(t, P!Count(n))
      BY <1>6 DEF P!Write
    <2> HIDE DEF n
    <2>3. sent' - sent = n /\ sent' # sent
      BY <1>2, <2>1, <2>2
    <2>4. pret'[t][1] = "count"
      BY <2>1, <2>2, Answers DEF P!Answer, PipeIInv, Calls
    <2>5. QED
      BY <1>6, <2>1, <2>3, <2>4
  <1>7. QED
    BY <1>4, <1>5, <1>6

\* No other step ends a write.
LEMMA OnlyWrites ==
  ASSUME PipeIInv, [P!Next]_(P!vars), NEW t \in Threads, P!InLoop(t, "writer"), ppc'[t] = "leave"
  PROVE  P!Write(t)
  <1>1. ppc[t] \in {"enter", "wait"} /\ end[t] = "writer"
    BY DEF P!InLoop
  <1>2. ppc \in [Threads -> {"run", "enter", "wait", "leave"}]
    BY DEF PipeIInv, P!TypeOK
  <1>3. ppc' # ppc
    BY <1>1
  <1>4. ~UNCHANGED P!vars /\ ~P!Stop /\ \A e \in P!Ends : ~P!Close(e) /\ \A b \in BOOLEAN : ~P!SetFlags(e, b)
    BY <1>3 DEF P!vars, P!Stop, P!Close, P!SetFlags
  <1>5. ASSUME NEW u \in Threads, NEW d \in P!Ends, NEW op \in P!Ends, NEW n \in Lengths,
               NEW m \in BOOLEAN, P!Call(u, d, op, n, m)
        PROVE  FALSE
    <2>1. ppc[u] = "run" /\ (ppc' = [ppc EXCEPT ![u] = "leave"] \/ ppc' = [ppc EXCEPT ![u] = "enter"])
      BY <1>5 DEF P!Call
    <2>2. QED
      BY <1>1, <1>2, <2>1
  <1>6. ASSUME NEW u \in Threads, P!Read(u) PROVE FALSE
    <2>1. u # t
      BY <1>1, <1>6 DEF P!Read, P!InLoop
    <2>2. ppc' = [ppc EXCEPT ![u] = "wait"] \/ ppc' = [ppc EXCEPT ![u] = "leave"]
      BY <1>6 DEF P!Read, P!LoopAgain, P!Answer
    <2>3. QED
      BY <1>1, <1>2, <2>1, <2>2
  <1>7. ASSUME NEW u \in Threads, P!Return(u) PROVE FALSE
    BY <1>1, <1>2, <1>7 DEF P!Return
  <1>8. ASSUME NEW u \in Threads, P!Write(u) PROVE u = t
    <2>1. ppc' = [ppc EXCEPT ![u] = "wait"] \/ ppc' = [ppc EXCEPT ![u] = "leave"]
      BY <1>8 DEF P!Write, P!LoopAgain, P!Answer
    <2>2. QED
      BY <1>1, <1>2, <2>1
  <1>9. QED
    BY <1>4, <1>5, <1>6, <1>7, <1>8 DEF P!Next

\* Writes of at most kAtomicWrite bytes are whole or nothing in every behaviour,
\* however readers, writers, closes, O_NONBLOCK and the session stop interleave,
\* and a byte goes only into a pipe somebody can still read.
THEOREM WritesAreWhole ==
  /\ P!Spec => P!WritesWhole
  /\ AllSpec => WritesWhole
  <1>1. PipeIInv /\ [P!Next]_(P!vars) => [\A t \in Threads : WholeStep(t)]_(P!vars)
    <2>1. SUFFICES ASSUME PipeIInv, [P!Next]_(P!vars), NEW t \in Threads,
                          P!InLoop(t, "writer"), ppc'[t] = "leave"
                   PROVE  WholeStep(t)
      BY DEF WholeStep
    <2>2. QED
      BY <2>1, FlagPipeAssumption, OnlyWrites, WriteIsWhole
  <1> DEFINE I == used = "pipe" => PipeIInv
  <1>2. I /\ [AllNext]_allVars => [\A t \in Threads : WholeStep(t)]_(P!vars)
    <2>1. SUFFICES ASSUME I, [AllNext]_allVars
                   PROVE  [\A t \in Threads : WholeStep(t)]_(P!vars)
      OBVIOUS
    <2>2. CASE used = "pipe"
      BY <1>1, <2>1, <2>2, PipeMoves
    <2>3. CASE used # "pipe"
      <3>1. ppc' = ppc
        BY <2>1, <2>3, PipeMoves DEF pipeOnly
      <3>2. QED
        BY <3>1 DEF WholeStep, P!InLoop
    <2>4. QED
      BY <2>2, <2>3
  <1> HIDE DEF I
  <1>3. AllSpec => []I
    BY PipeAlways DEF I
  <1>4. AllSpec => [][\A t \in Threads : WholeStep(t)]_(P!vars)
    BY <1>2, <1>3, PTL DEF AllSpec
  <1>5. P!Spec => [][\A t \in Threads : WholeStep(t)]_(P!vars)
    BY <1>1, PipeAlways, PTL DEF P!Spec
  <1>6. QED
    BY <1>4, <1>5 DEF WritesWhole, P!WritesWhole, WholeStep

-----------------------------------------------------------------------------
(* The event flag: waiters_ points to live records, no wait sleeps through *)
(* a pattern that holds, and a wait returns what set committed to it.      *)
(*                                                                         *)
(* The work is in EventFlag::Set: what its loop over the queue has done    *)
(* after i waiters (LoopState) is shown by induction on i.                 *)

\* Counting up from zero reaches every number up to n.
LEMMA UpTo ==
  ASSUME NEW n \in Nat, NEW T, 0 \in T,
         \A i \in 1 .. n : i - 1 \in T => i \in T
  PROVE  \A i \in 0 .. n : i \in T
  <1> DEFINE R == OpToRel(<, Nat)
             Missing == {i \in 0 .. n : i \notin T}
  <1>1. \A x, y \in Nat : <<x, y>> \in R <=> x < y
    BY DEF OpToRel
  <1>2. IsWellFoundedOn(R, Nat)
    BY NatLessThanWellFounded
  <1> HIDE DEF R
  <1>3. SUFFICES ASSUME Missing # {} PROVE FALSE
    OBVIOUS
  <1>4. \E x \in Missing : \A y \in Missing : ~ (<<y, x>> \in R)
    <2>1. Missing \subseteq Nat
      OBVIOUS
    <2> HIDE DEF Missing
    <2>2. QED
      BY <1>2, <1>3, <2>1, WFMin
  <1>5. PICK x \in Missing : \A y \in Missing : ~ (y < x)
    <2>1. Missing \subseteq Nat
      OBVIOUS
    <2> HIDE DEF Missing
    <2>2. QED
      BY <1>1, <1>4, <2>1
  <1>6. x \in 1 .. n
    BY <1>5
  <1>7. x - 1 \in T
    BY <1>5, <1>6
  <1>8. QED
    BY <1>5, <1>6, <1>7

\* Nobody is twice in a queue.
Once(s) == \A i, j \in DOMAIN s : s[i] = s[j] => i = j

\* Erasing the entry of t at place i moves the later ones up.
LEMMA ErasedAt ==
  ASSUME NEW S, NEW s \in Seq(S), NEW i \in 1 .. Len(s)
  PROVE  /\ RemoveAt(s, i) \in Seq(S) /\ Len(RemoveAt(s, i)) = Len(s) - 1
         /\ \A k \in 1 .. Len(s) - 1 : RemoveAt(s, i)[k] = IF k < i THEN s[k] ELSE s[k + 1]
  <1> DEFINE n == Len(s)
             a == SubSeq(s, 1, i - 1)
             z == SubSeq(s, i + 1, n)
  <1>1. n \in Nat /\ i \in Nat /\ 1 <= i /\ i <= n /\ \A k \in 1 .. n : s[k] \in S
    BY LenProperties, ElementOfSeq
  <1>2. a \in Seq(S) /\ Len(a) = i - 1 /\ \A k \in 1 .. i - 1 : a[k] = s[k]
    <2>1. \A k \in 1 .. i - 1 : s[k] \in S
      BY <1>1
    <2>2. /\ a \in Seq(S) /\ Len(a) = IF 1 <= i - 1 THEN i - 1 - 1 + 1 ELSE 0
          /\ \A k \in 1 .. i - 1 - 1 + 1 : a[k] = s[1 + k - 1]
      BY <1>1, <2>1, SubSeqProperties
    <2>3. i - 1 - 1 + 1 = i - 1 /\ (~(1 <= i - 1) => i - 1 = 0)
      BY <1>1
    <2>4. \A k \in 1 .. i - 1 : 1 + k - 1 = k
      BY <1>1
    <2>5. QED
      BY <2>2, <2>3, <2>4
  <1>3. z \in Seq(S) /\ Len(z) = n - i /\ \A k \in 1 .. n - i : z[k] = s[i + k]
    <2>1. \A k \in i + 1 .. n : s[k] \in S
      BY <1>1
    <2>2. /\ z \in Seq(S) /\ Len(z) = IF i + 1 <= n THEN n - (i + 1) + 1 ELSE 0
          /\ \A k \in 1 .. n - (i + 1) + 1 : z[k] = s[(i + 1) + k - 1]
      BY <1>1, <2>1, SubSeqProperties
    <2>3. n - (i + 1) + 1 = n - i /\ (~(i + 1 <= n) => n - i = 0)
      BY <1>1
    <2>4. \A k \in 1 .. n - i : (i + 1) + k - 1 = i + k
      BY <1>1
    <2>5. QED
      BY <2>2, <2>3, <2>4
  <1> HIDE DEF a, z, n
  <1>4. /\ a \o z \in Seq(S) /\ Len(a \o z) = Len(a) + Len(z)
        /\ \A k \in 1 .. Len(a) + Len(z) : (a \o z)[k] = IF k <= Len(a) THEN a[k] ELSE z[k - Len(a)]
    BY <1>2, <1>3, ConcatProperties
  <1>5. RemoveAt(s, i) = a \o z
    BY DEF RemoveAt, a, z, n
  <1>6. ASSUME NEW k \in 1 .. n - 1
        PROVE  (a \o z)[k] = IF k < i THEN s[k] ELSE s[k + 1]
    <2>1. Len(a) + Len(z) = n - 1
      BY <1>1, <1>2, <1>3
    <2>2. CASE k < i
      BY <1>1, <1>2, <1>4, <2>1, <2>2
    <2>3. CASE ~(k < i)
      <3>1. ~(k <= Len(a)) /\ k - Len(a) \in 1 .. n - i /\ i + (k - Len(a)) = k + 1
        BY <1>1, <1>2, <2>3
      <3>2. QED
        BY <1>2, <1>3, <1>4, <2>1, <2>3, <3>1
    <2>4. QED
      BY <2>2, <2>3
  <1>7. Len(a \o z) = n - 1
    BY <1>1, <1>2, <1>3, <1>4
  <1>8. QED
    BY <1>4, <1>5, <1>6, <1>7 DEF n

\* RemoveWaiter takes the one entry of t out and leaves the others in order.
LEMMA Erased ==
  ASSUME NEW S, NEW s \in Seq(S), Once(s), NEW t
  PROVE  LET r == RemoveFirst(s, t)
         IN  r \in Seq(S) /\ Once(r) /\ ToSet(r) = ToSet(s) \ {t}
  <1> DEFINE n == Len(s)
             r == RemoveFirst(s, t)
  <1>1. n \in Nat /\ DOMAIN s = 1 .. n /\ \A k \in 1 .. n : s[k] \in S
    BY LenProperties, ElementOfSeq
  <1>2. CASE ~\E i \in 1 .. n : s[i] = t
    <2>1. r = s
      BY <1>2 DEF RemoveFirst
    <2>2. t \notin ToSet(s)
      BY <1>1, <1>2 DEF ToSet
    <2>3. QED
      BY <2>1, <2>2
  <1>3. CASE \E i \in 1 .. n : s[i] = t
    <2>1. PICK i \in 1 .. n : s[i] = t
      BY <1>3
    <2>2. {k \in 1 .. n : s[k] = t} = {i}
      BY <1>1, <2>1 DEF Once
    <2>3. Min({i}) = i
      BY <1>1, <2>1 DEF Min
    <2>4. SelectInSeq(s, LAMBDA v : v = t) = i
      BY <2>2, <2>3 DEF SelectInSeq
    <2>5. r = RemoveAt(s, i)
      BY <1>3, <2>4 DEF RemoveFirst
    <2> HIDE DEF r
    <2>6. /\ r \in Seq(S) /\ Len(r) = n - 1
          /\ \A k \in 1 .. n - 1 : r[k] = IF k < i THEN s[k] ELSE s[k + 1]
      BY <2>5, ErasedAt
    <2>7. DOMAIN r = 1 .. n - 1
      BY <2>6, LenProperties
    <2>8. Once(r)
      <3>1. SUFFICES ASSUME NEW j \in 1 .. n - 1, NEW k \in 1 .. n - 1, r[j] = r[k]
                     PROVE  j = k
        BY <2>7 DEF Once
      <3> DEFINE up(x) == IF x < i THEN x ELSE x + 1
      <3>2. up(j) \in 1 .. n /\ up(k) \in 1 .. n /\ (up(j) = up(k) => j = k)
        BY <1>1, <2>1
      <3>3. r[j] = s[up(j)] /\ r[k] = s[up(k)]
        BY <2>6
      <3> HIDE DEF up
      <3>4. QED
        BY <1>1, <3>1, <3>2, <3>3 DEF Once
    <2>9. ToSet(r) = ToSet(s) \ {t}
      <3>1. ASSUME NEW k \in 1 .. n - 1 PROVE r[k] \in ToSet(s) \ {t}
        <4>1. CASE k < i
          <5>1. k \in 1 .. n /\ k # i /\ r[k] = s[k]
            BY <1>1, <2>1, <2>6, <4>1
          <5>2. QED
            BY <1>1, <2>1, <5>1 DEF ToSet, Once
        <4>2. CASE ~(k < i)
          <5>1. k + 1 \in 1 .. n /\ k + 1 # i /\ r[k] = s[k + 1]
            BY <1>1, <2>1, <2>6, <4>2
          <5>2. QED
            BY <1>1, <2>1, <5>1 DEF ToSet, Once
        <4>3. QED
          BY <4>1, <4>2
      <3>2. ASSUME NEW k \in 1 .. n, s[k] # t PROVE s[k] \in ToSet(r)
        <4>1. CASE k < i
          <5>1. k \in 1 .. n - 1 /\ r[k] = s[k]
            BY <1>1, <2>1, <2>6, <4>1
          <5>2. QED
            BY <2>7, <5>1 DEF ToSet
        <4>2. CASE k > i
          <5>1. k - 1 \in 1 .. n - 1 /\ ~(k - 1 < i) /\ (k - 1) + 1 = k
            BY <1>1, <2>1, <4>2
          <5>2. r[k - 1] = s[k]
            BY <2>6, <5>1
          <5>3. QED
            BY <2>7, <5>1, <5>2 DEF ToSet
        <4>3. QED
          BY <1>1, <2>1, <3>2, <4>1, <4>2
      <3>3. ToSet(r) \subseteq ToSet(s) \ {t}
        BY <2>7, <3>1 DEF ToSet
      <3>4. ToSet(s) \ {t} \subseteq ToSet(r)
        <4>1. SUFFICES ASSUME NEW x \in ToSet(s), x # t PROVE x \in ToSet(r)
          OBVIOUS
        <4>2. PICK k \in 1 .. n : x = s[k]
          BY <1>1, <4>1 DEF ToSet
        <4>3. QED
          BY <3>2, <4>1, <4>2
      <3>5. QED
        BY <3>3, <3>4
    <2>10. QED
      BY <2>6, <2>8, <2>9 DEF r
  <1>4. QED
    BY <1>2, <1>3

\* The types of a Waiter record and of the loop's state.
Record == [pat : SUBSET Bits, mode : Modes \cup {NoMode}, timed : BOOLEAN, poll : BOOLEAN,
           result : SUBSET Bits, done : BOOLEAN, cancelled : BOOLEAN]
LoopType == [bits : SUBSET Bits, rec : [Threads -> Record]]

\* set has committed the wait of u by the time the loop's state is s.
Committed(s, u) == ~w[u].done /\ s.rec[u].done

\* What holds after the first i waiters: a record is as it was or committed, and
\* then by one of those waiters and with bits that match; a wait that clears has
\* left none of its pattern; no wait that was passed over is satisfied by what
\* the later ones left, unless there are sticky bits.
LoopState(s, i) ==
  /\ s \in LoopType
  /\ \A u \in Threads :
       \/ s.rec[u] = w[u]
       \/ /\ Committed(s, u) /\ \E j \in 1 .. i : waiters[j] = u
          /\ s.rec[u] = [w[u] EXCEPT !.result = s.rec[u].result, !.done = TRUE]
          /\ Satisfied(s.rec[u].result, w[u].pat, w[u].mode)
  /\ \A u \in Threads :
       Committed(s, u) /\ w[u].mode.clear # "none" => s.bits \cap w[u].pat \subseteq Sticky
  /\ \A t, u \in Threads :
       /\ t # u /\ Committed(s, t) /\ Committed(s, u)
       /\ w[t].mode.clear # "none" /\ w[u].mode.clear # "none"
       => w[t].pat \cap w[u].pat \cap s.rec[t].result \cap s.rec[u].result \subseteq Sticky
  /\ Sticky = {} => \A j \in 1 .. i :
       s.rec[waiters[j]].done \/ ~Satisfied(s.bits, w[waiters[j]].pat, w[waiters[j]].mode)

\* The loop does run: CommitOne takes its state from each waiter to the next.
LEMMA LoopRuns ==
  ASSUME NEW b, waiters \in Seq(Threads)
  PROVE  /\ CommitLoop(b)[0] = [bits |-> b, rec |-> w]
         /\ \A i \in 1 .. Len(waiters) :
              CommitLoop(b)[i] = CommitOne(CommitLoop(b)[i - 1], waiters[i])
  <1> DEFINE n == Len(waiters)
             s0 == [bits |-> b, rec |-> w]
             Runs(g, k) == g = [i \in 0 .. k |-> IF i = 0 THEN s0 ELSE CommitOne(g[i - 1], waiters[i])]
             T == {k \in Nat : \E g : Runs(g, k)}
  <1>1. n \in Nat
    BY LenProperties
  <1>2. 0 \in T
    <2> DEFINE g == [i \in 0 .. 0 |-> s0]
    <2>1. Runs(g, 0)
      OBVIOUS
    <2>2. QED
      BY <2>1
  <1>3. ASSUME NEW k \in 1 .. n, k - 1 \in T
        PROVE  k \in T
    <2>1. PICK g : Runs(g, k - 1)
      BY <1>3
    <2> DEFINE h == [i \in 0 .. k |-> IF i = k THEN CommitOne(g[k - 1], waiters[k]) ELSE g[i]]
    <2>2. ASSUME NEW i \in 0 .. k
          PROVE  h[i] = IF i = 0 THEN s0 ELSE CommitOne(h[i - 1], waiters[i])
      <3>1. CASE i = 0
        <4>1. i # k /\ i \in 0 .. k - 1
          BY <1>1, <3>1
        <4>2. h[i] = g[i] /\ g[i] = s0
          BY <2>1, <3>1, <4>1
        <4>3. QED
          BY <3>1, <4>2
      <3>2. CASE i # 0
        <4>1. i - 1 \in 0 .. k - 1 /\ i - 1 # k /\ i - 1 \in 0 .. k
          BY <1>1, <3>2
        <4>2. h[i - 1] = g[i - 1]
          BY <4>1
        <4>3. CASE i = k
          BY <3>2, <4>2, <4>3
        <4>4. CASE i # k
          <5>1. i \in 0 .. k - 1
            BY <1>1, <4>4
          <5>2. g[i] = CommitOne(g[i - 1], waiters[i])
            BY <2>1, <3>2, <5>1
          <5>3. QED
            BY <3>2, <4>2, <4>4, <5>2
        <4>5. QED
          BY <4>3, <4>4
      <3>3. QED
        BY <3>1, <3>2
    <2>3. h = [i \in 0 .. k |-> h[i]]
      OBVIOUS
    <2> HIDE DEF h, s0
    <2>4. Runs(h, k)
      BY <2>2, <2>3
    <2>5. k \in Nat
      BY <1>1
    <2>6. QED
      BY <2>4, <2>5
  <1>4. \A k \in 0 .. n : k \in T
    <2> HIDE DEF T
    <2>1. QED
      BY <1>1, <1>2, <1>3, UpTo
  <1>5. n \in T
    BY <1>1, <1>4
  <1>6. PICK g : Runs(g, n)
    BY <1>5
  <1>7. Runs(CommitLoop(b), n)
    BY <1>6, Zenon DEF CommitLoop
  <1> DEFINE r == CommitLoop(b)
  <1> HIDE DEF r, s0
  <1>8. r = [i \in 0 .. n |-> IF i = 0 THEN s0 ELSE CommitOne(r[i - 1], waiters[i])]
    BY <1>7 DEF r
  <1>9. r[0] = s0 /\ \A i \in 1 .. n : r[i] = CommitOne(r[i - 1], waiters[i])
    BY <1>1, <1>8
  <1>10. QED
    BY <1>9 DEF r, s0

\* What a Take leaves.
LEMMA Takes ==
  ASSUME NEW b \in SUBSET Bits, NEW pat \in SUBSET Bits, NEW mode \in Modes \cup {NoMode}
  PROVE  /\ Taken(b, pat, mode) \in SUBSET Bits
         /\ Taken(b, pat, mode) \subseteq b \cup Sticky
         /\ mode.clear # "none" => Taken(b, pat, mode) \cap pat \subseteq Sticky
  <1>1. Sticky \subseteq Bits
    BY EventFlagAssumptions
  <1>2. mode.clear \in {"none", "all", "pat"}
    BY EventFlagAssumptions DEF NoMode
  <1>3. QED
    BY <1>1, <1>2 DEF Taken

\* Fewer bits satisfy fewer waits.
LEMMA FewerBits ==
  ASSUME NEW b, NEW c, c \subseteq b, NEW pat, NEW mode, ~Satisfied(b, pat, mode)
  PROVE  ~Satisfied(c, pat, mode)
  BY DEF Satisfied

\* A record that is committed.
LEMMA CommitRecord ==
  ASSUME NEW q \in Record, NEW b \in SUBSET Bits
  PROVE  /\ [q EXCEPT !.result = b, !.done = TRUE] \in Record
         /\ [q EXCEPT !.result = b, !.done = TRUE].result = b
         /\ [q EXCEPT !.result = b, !.done = TRUE].done = TRUE
  BY DEF Record

\* Setting its two fields one after the other is setting it once.
LEMMA CommitFields ==
  ASSUME NEW f \in [Threads -> Record], NEW x \in Threads, NEW b \in SUBSET Bits
  PROVE  [f EXCEPT ![x].result = b, ![x].done = TRUE]
           = [f EXCEPT ![x] = [f[x] EXCEPT !.result = b, !.done = TRUE]]
  BY DEF Record

\* The next waiter of the queue.
LEMMA LoopStep ==
  ASSUME TypeOK, Once(waiters), NEW i \in 1 .. Len(waiters), NEW s, LoopState(s, i - 1)
  PROVE  LoopState(CommitOne(s, waiters[i]), i)
  <1> DEFINE x == waiters[i]
             c == CommitOne(s, x)
  <1>1. /\ x \in Threads /\ Len(waiters) \in Nat /\ DOMAIN waiters = 1 .. Len(waiters)
        /\ \A j \in 1 .. Len(waiters) : waiters[j] \in Threads
    BY LenProperties, ElementOfSeq DEF TypeOK
  <1>2. /\ w \in [Threads -> Record] /\ s.bits \in SUBSET Bits /\ s.rec \in [Threads -> Record]
        /\ s \in LoopType
    BY DEF TypeOK, Record, LoopState, LoopType
  <1>3. \A j \in 1 .. i - 1 : waiters[j] # x /\ j \in 1 .. i
    BY <1>1 DEF Once
  <1>4. s.rec[x] = w[x]
    BY <1>1, <1>3 DEF LoopState
  <1>5. CASE w[x].done \/ ~Satisfied(s.bits, w[x].pat, w[x].mode)
    <2>1. c = s
      BY <1>5 DEF CommitOne
    <2>2. \A u \in Threads :
            \/ s.rec[u] = w[u]
            \/ /\ Committed(s, u) /\ \E j \in 1 .. i : waiters[j] = u
               /\ s.rec[u] = [w[u] EXCEPT !.result = s.rec[u].result, !.done = TRUE]
               /\ Satisfied(s.rec[u].result, w[u].pat, w[u].mode)
      BY <1>3 DEF LoopState
    <2>3. ASSUME Sticky = {}, NEW j \in 1 .. i
          PROVE  s.rec[waiters[j]].done \/ ~Satisfied(s.bits, w[waiters[j]].pat, w[waiters[j]].mode)
      <3>1. CASE j = i
        BY <1>4, <1>5, <3>1
      <3>2. CASE j # i
        <4>1. j \in 1 .. i - 1
          BY <1>1, <3>2
        <4>2. QED
          BY <2>3, <4>1 DEF LoopState
      <3>3. QED
        BY <3>1, <3>2
    <2> HIDE DEF x, c
    <2>4. LoopState(s, i)
      BY <2>2, <2>3, Zenon DEF LoopState
    <2>5. QED
      BY <2>1, <2>4 DEF c, x
  <1>6. CASE ~w[x].done /\ Satisfied(s.bits, w[x].pat, w[x].mode)
    <2> DEFINE rx == [w[x] EXCEPT !.result = s.bits, !.done = TRUE]
    <2>1. /\ c = [bits |-> Taken(s.bits, w[x].pat, w[x].mode),
                  rec |-> [s.rec EXCEPT ![x].result = s.bits, ![x].done = TRUE]]
      BY <1>6 DEF CommitOne
    <2>2. rx \in Record /\ rx.result = s.bits /\ rx.done = TRUE
      <3>1. w[x] \in Record
        BY <1>1, <1>2
      <3>2. QED
        BY <1>2, <3>1, CommitRecord, Zenon
    <2>3. /\ c.bits = Taken(s.bits, w[x].pat, w[x].mode)
          /\ c.rec \in [Threads -> Record] /\ c.rec[x] = rx
          /\ \A u \in Threads : u # x => c.rec[u] = s.rec[u]
      <3>1. [s.rec EXCEPT ![x].result = s.bits, ![x].done = TRUE] = [s.rec EXCEPT ![x] = rx]
        BY <1>1, <1>2, <1>4, CommitFields
      <3>2. c.bits = Taken(s.bits, w[x].pat, w[x].mode) /\ c.rec = [s.rec EXCEPT ![x] = rx]
        BY <2>1, <3>1
      <3> HIDE DEF rx, c
      <3>3. QED
        BY <1>1, <1>2, <2>2, <3>2
    <2>4. w[x].pat \in SUBSET Bits /\ w[x].mode \in Modes \cup {NoMode}
      BY <1>1, <1>2 DEF Record
    <2>5. /\ c.bits \in SUBSET Bits /\ c.bits \subseteq s.bits \cup Sticky
          /\ w[x].mode.clear # "none" => c.bits \cap w[x].pat \subseteq Sticky
      BY <1>2, <2>3, <2>4, Takes
    <2>6. c \in LoopType
      BY <2>1, <2>3, <2>5 DEF LoopType
    <2>7. Committed(c, x) /\ \A u \in Threads : u # x => (Committed(c, u) <=> Committed(s, u))
      BY <1>6, <2>2, <2>3 DEF Committed
    <2> HIDE DEF c, rx
    <2>8. ASSUME NEW u \in Threads
          PROVE  \/ c.rec[u] = w[u]
                 \/ /\ Committed(c, u) /\ \E j \in 1 .. i : waiters[j] = u
                    /\ c.rec[u] = [w[u] EXCEPT !.result = c.rec[u].result, !.done = TRUE]
                    /\ Satisfied(c.rec[u].result, w[u].pat, w[u].mode)
      <3>1. CASE u = x
        <4>1. i \in 1 .. i
          BY <1>1
        <4>2. c.rec[u] = [w[u] EXCEPT !.result = c.rec[u].result, !.done = TRUE]
          BY <2>2, <2>3, <3>1 DEF rx
        <4>3. Satisfied(c.rec[u].result, w[u].pat, w[u].mode)
          BY <1>6, <2>2, <2>3, <3>1
        <4>4. QED
          BY <2>7, <3>1, <4>1, <4>2, <4>3
      <3>2. CASE u # x
        <4>1. \/ s.rec[u] = w[u]
              \/ /\ Committed(s, u) /\ \E j \in 1 .. i - 1 : waiters[j] = u
                 /\ s.rec[u] = [w[u] EXCEPT !.result = s.rec[u].result, !.done = TRUE]
                 /\ Satisfied(s.rec[u].result, w[u].pat, w[u].mode)
          BY DEF LoopState
        <4>2. c.rec[u] = s.rec[u] /\ (Committed(c, u) <=> Committed(s, u))
          BY <2>3, <2>7, <3>2
        <4>3. (\E j \in 1 .. i - 1 : waiters[j] = u) => \E j \in 1 .. i : waiters[j] = u
          BY <1>3
        <4>4. QED
          BY <4>1, <4>2, <4>3
      <3>3. QED
        BY <3>1, <3>2
    <2>9. ASSUME NEW u \in Threads, Committed(c, u), w[u].mode.clear # "none"
          PROVE  c.bits \cap w[u].pat \subseteq Sticky
      <3>1. CASE u = x
        BY <2>5, <2>9, <3>1
      <3>2. CASE u # x
        <4>1. s.bits \cap w[u].pat \subseteq Sticky
          BY <2>7, <2>9, <3>2 DEF LoopState
        <4>2. QED
          BY <2>5, <4>1
      <3>3. QED
        BY <3>1, <3>2
    <2>10. ASSUME NEW t \in Threads, NEW u \in Threads, t # u, Committed(c, t), Committed(c, u),
                  w[t].mode.clear # "none", w[u].mode.clear # "none"
           PROVE  w[t].pat \cap w[u].pat \cap c.rec[t].result \cap c.rec[u].result \subseteq Sticky
      <3>1. c.rec[x].result = s.bits
        BY <2>2, <2>3
      <3>2. ASSUME NEW v \in Threads, v # x, Committed(c, v), w[v].mode.clear # "none"
            PROVE  s.bits \cap w[v].pat \subseteq Sticky
        BY <2>7, <3>2 DEF LoopState
      <3>3. CASE t = x
        <4>1. s.bits \cap w[u].pat \subseteq Sticky
          BY <2>10, <3>2, <3>3
        <4>2. QED
          BY <3>1, <3>3, <4>1
      <3>4. CASE u = x
        <4>1. s.bits \cap w[t].pat \subseteq Sticky
          BY <2>10, <3>2, <3>4
        <4>2. QED
          BY <3>1, <3>4, <4>1
      <3>5. CASE t # x /\ u # x
        <4>1. c.rec[t] = s.rec[t] /\ c.rec[u] = s.rec[u] /\ Committed(s, t) /\ Committed(s, u)
          BY <2>3, <2>7, <2>10, <3>5
        <4>2. QED
          BY <2>10, <4>1 DEF LoopState
      <3>6. QED
        BY <3>3, <3>4, <3>5
    <2>11. ASSUME Sticky = {}, NEW j \in 1 .. i
           PROVE  c.rec[waiters[j]].done \/ ~Satisfied(c.bits, w[waiters[j]].pat, w[waiters[j]].mode)
      <3>1. CASE j = i
        BY <2>2, <2>3, <3>1
      <3>2. CASE j # i
        <4>1. j \in 1 .. i - 1 /\ waiters[j] # x /\ waiters[j] \in Threads
          BY <1>1, <1>3, <3>2
        <4>2. s.rec[waiters[j]].done \/ ~Satisfied(s.bits, w[waiters[j]].pat, w[waiters[j]].mode)
          BY <2>11, <4>1 DEF LoopState
        <4>3. c.bits \subseteq s.bits
          BY <2>5, <2>11
        <4>4. QED
          BY <2>3, <4>1, <4>2, <4>3, FewerBits
      <3>3. QED
        BY <3>1, <3>2
    <2> HIDE DEF x
    <2>12. LoopState(c, i)
      BY <2>6, <2>8, <2>9, <2>10, <2>11, Zenon DEF LoopState
    <2>13. QED
      BY <2>12 DEF c, x
  <1>7. QED
    BY <1>5, <1>6

\* The whole loop of EventFlag::Set, from any bits.
LEMMA LoopEnds ==
  ASSUME TypeOK, Once(waiters), NEW b \in SUBSET Bits
  PROVE  LoopState(Commit(b), Len(waiters))
  <1> DEFINE n == Len(waiters)
             s0 == [bits |-> b, rec |-> w]
             T == {i \in 0 .. n : LoopState(CommitLoop(b)[i], i)}
  <1>1. n \in Nat /\ waiters \in Seq(Threads)
    BY LenProperties DEF TypeOK
  <1>2. LoopState(s0, 0)
    <2>1. s0.bits = b /\ s0.rec = w /\ s0 \in LoopType
      BY DEF TypeOK, LoopType, Record
    <2>2. \A u \in Threads : ~Committed(s0, u)
      BY <2>1 DEF Committed
    <2>3. 1 .. 0 = {}
      OBVIOUS
    <2> HIDE DEF s0
    <2>4. QED
      BY <2>1, <2>2, <2>3 DEF LoopState
  <1>3. 0 \in T
    BY <1>1, <1>2, LoopRuns
  <1>4. ASSUME NEW i \in 1 .. n, i - 1 \in T PROVE i \in T
    <2>1. LoopState(CommitLoop(b)[i - 1], i - 1) /\ i \in 0 .. n
      BY <1>1, <1>4
    <2>2. CommitLoop(b)[i] = CommitOne(CommitLoop(b)[i - 1], waiters[i])
      BY <1>1, LoopRuns
    <2>3. LoopState(CommitLoop(b)[i], i)
      BY <2>1, <2>2, LoopStep
    <2>4. QED
      BY <2>1, <2>3
  <1>5. \A i \in 0 .. n : i \in T
    <2> HIDE DEF T
    <2>1. QED
      BY <1>1, <1>3, <1>4, UpTo
  <1>6. n \in 0 .. n
    BY <1>1
  <1>7. QED
    BY <1>5, <1>6 DEF Commit

-----------------------------------------------------------------------------
(* The steps of the flag.                                                  *)

\* What set has committed to a wait matches its pattern.
CommittedMatch ==
  \A t \in Threads : pc[t] = "wait" /\ w[t].done /\ ~w[t].cancelled
                       => Satisfied(w[t].result, w[t].pat, w[t].mode)

FlagIInv == TypeOK /\ WaitersAreLive /\ CommittedMatch /\ (Sticky = {} => NoMissedWake)

\* The type invariant, by parts.
Outcomes == {"none", "ok", "timedout", "busy", "canceled"}
Outs == [t : Threads \cup {NoThread}, bits : SUBSET Bits, r : Outcomes]
Places == {"run", "wait", "grace"}
Scalars == bits \in SUBSET Bits /\ out \in Outs /\ lastSet \in Threads \cup {NoThread}
           /\ stopping \in BOOLEAN

LEMMA FlagTypes ==
  /\ TypeOK <=> /\ Scalars /\ waiters \in Seq(Threads) /\ w \in [Threads -> Record]
                /\ pc \in [Threads -> Places]
  /\ TypeOK' <=> /\ Scalars' /\ waiters' \in Seq(Threads) /\ w' \in [Threads -> Record]
                 /\ pc' \in [Threads -> Places]
  BY Zenon DEF TypeOK, Scalars, Record, Outs, Outcomes, Places

\* A result that is returned is well typed.
LEMMA OutTyped ==
  /\ NoOut \in Outs
  /\ \A t \in Threads, r \in Outcomes, b \in SUBSET Bits : Out(t, r, b) \in Outs
  BY DEF NoOut, Out, Outs, Outcomes

\* The record of no wait, and the one of a new wait.
LEMMA BlankTyped == Blank \in Record /\ ~Blank.done
  BY DEF Blank, Record

LEMMA RecordTyped ==
  ASSUME NEW p \in SUBSET Bits, NEW md \in Modes \cup {NoMode},
         NEW timed \in BOOLEAN, NEW poll \in BOOLEAN
  PROVE  LET r == [Blank EXCEPT !.pat = p, !.mode = md, !.timed = timed, !.poll = poll]
         IN  /\ r \in Record /\ ~r.done /\ r.pat = p /\ r.mode = md
             /\ [Blank EXCEPT !.pat = p, !.mode = md] \in Record
  <1>1. ASSUME NEW q \in Record
        PROVE  LET r == [q EXCEPT !.pat = p, !.mode = md, !.timed = timed, !.poll = poll]
               IN  /\ r \in Record /\ r.done = q.done /\ r.pat = p /\ r.mode = md
                   /\ [q EXCEPT !.pat = p, !.mode = md] \in Record
    BY DEF Record
  <1>2. QED
    BY <1>1, BlankTyped

\* Before the first call.
LEMMA FlagInit == Init => FlagIInv
  <1> SUFFICES ASSUME Init PROVE FlagIInv
    OBVIOUS
  <1>1. waiters = <<>> /\ <<>> \in Seq(Threads) /\ ToSet(waiters) = {} /\ DOMAIN waiters = {}
    BY DEF Init, ToSet
  <1>2. Scalars
    BY EventFlagAssumptions, OutTyped DEF Init, Scalars
  <1>3. w \in [Threads -> Record] /\ pc \in [Threads -> Places] /\ \A t \in Threads : pc[t] = "run"
    BY BlankTyped DEF Init, Places
  <1>4. TypeOK
    BY <1>1, <1>2, <1>3, FlagTypes
  <1>5. WaitersAreLive /\ CommittedMatch /\ NoMissedWake
    BY <1>1, <1>3 DEF WaitersAreLive, CommittedMatch, NoMissedWake
  <1>6. QED
    BY <1>4, <1>5 DEF FlagIInv

\* A sleeper leaves EventFlag::Wait, whatever it returns.
LEMMA Leaves ==
  ASSUME FlagIInv, NEW t \in Threads, pc[t] = "wait", NEW r \in Outcomes, NEW b \in SUBSET Bits,
         Return(t, r, b), RemoveWaiter(t), UNCHANGED <<bits, lastSet, stopping>>
  PROVE  FlagIInv'
  <1>1. /\ Scalars /\ waiters \in Seq(Threads) /\ w \in [Threads -> Record] /\ pc \in [Threads -> Places]
        /\ Once(waiters) /\ ToSet(waiters) = {u \in Threads : pc[u] = "wait"}
    BY FlagTypes DEF FlagIInv, WaitersAreLive, Once
  <1>2. /\ pc' = [pc EXCEPT ![t] = "run"] /\ out' = Out(t, r, b)
        /\ waiters' = RemoveFirst(waiters, t) /\ w' = [w EXCEPT ![t] = Blank]
    BY DEF Return, RemoveWaiter
  <1>3. waiters' \in Seq(Threads) /\ Once(waiters') /\ ToSet(waiters') = ToSet(waiters) \ {t}
    BY <1>1, <1>2, Erased
  <1>4. Scalars' /\ w' \in [Threads -> Record] /\ pc' \in [Threads -> Places]
    BY <1>1, <1>2, OutTyped, BlankTyped DEF Scalars, Places
  <1>5. pc'[t] = "run" /\ \A u \in Threads : u # t => pc'[u] = pc[u] /\ w'[u] = w[u]
    BY <1>1, <1>2
  <1>6. WaitersAreLive'
    BY <1>1, <1>3, <1>5 DEF WaitersAreLive, Once
  <1>7. CommittedMatch'
    BY <1>5 DEF FlagIInv, CommittedMatch
  <1>8. Sticky = {} => NoMissedWake'
    BY <1>1, <1>3, <1>5 DEF FlagIInv, NoMissedWake
  <1>9. QED
    BY <1>3, <1>4, <1>6, <1>7, <1>8, FlagTypes DEF FlagIInv

\* A thread that is not asleep takes its bits at once.
LEMMA TakesAtOnce ==
  ASSUME FlagIInv, NEW t \in Threads, pc[t] # "wait",
         NEW p \in SUBSET Bits, NEW md \in Modes \cup {NoMode},
         bits' = Taken(bits, p, md), Return(t, "ok", bits),
         w' \in [Threads -> Record], \A u \in Threads : u # t => w'[u] = w[u],
         UNCHANGED <<waiters, lastSet, stopping>>
  PROVE  FlagIInv'
  <1>1. /\ Scalars /\ waiters \in Seq(Threads) /\ w \in [Threads -> Record] /\ pc \in [Threads -> Places]
        /\ ToSet(waiters) = {u \in Threads : pc[u] = "wait"}
    BY FlagTypes DEF FlagIInv, WaitersAreLive
  <1>2. pc' = [pc EXCEPT ![t] = "run"] /\ out' = Out(t, "ok", bits)
    BY DEF Return
  <1>3. /\ bits' \in SUBSET Bits /\ bits' \subseteq bits \cup Sticky
    BY <1>1, Takes DEF Scalars
  <1>4. Scalars' /\ pc' \in [Threads -> Places]
    BY <1>1, <1>2, <1>3, OutTyped DEF Scalars, Places, Outcomes
  <1>5. pc'[t] = "run" /\ \A u \in Threads : u # t => pc'[u] = pc[u]
    BY <1>1, <1>2
  <1>6. WaitersAreLive'
    BY <1>1, <1>5 DEF FlagIInv, WaitersAreLive
  <1>7. CommittedMatch'
    BY <1>5 DEF FlagIInv, CommittedMatch
  <1>8. ASSUME Sticky = {} PROVE NoMissedWake'
    <2>1. SUFFICES ASSUME NEW u \in ToSet(waiters), ~w'[u].done
                   PROVE  ~Satisfied(bits', w'[u].pat, w'[u].mode)
      BY DEF NoMissedWake
    <2>2. u \in Threads /\ u # t /\ w'[u] = w[u]
      BY <1>1, <2>1
    <2>3. ~Satisfied(bits, w[u].pat, w[u].mode)
      BY <1>8, <2>1, <2>2 DEF FlagIInv, NoMissedWake
    <2>4. bits' \subseteq bits
      BY <1>3, <1>8
    <2>5. QED
      BY <2>2, <2>3, <2>4, FewerBits
  <1>9. QED
    BY <1>1, <1>4, <1>6, <1>7, <1>8, FlagTypes DEF FlagIInv

\* A thread that is not asleep and stays so, whatever its record is for.
LEMMA StaysAwake ==
  ASSUME FlagIInv, NEW t \in Threads, pc[t] # "wait", NEW l \in {"run", "grace"},
         pc' = [pc EXCEPT ![t] = l], out' \in Outs,
         w' \in [Threads -> Record], \A u \in Threads : u # t => w'[u] = w[u],
         UNCHANGED <<bits, waiters, lastSet, stopping>>
  PROVE  FlagIInv'
  <1>1. /\ Scalars /\ waiters \in Seq(Threads) /\ w \in [Threads -> Record] /\ pc \in [Threads -> Places]
        /\ ToSet(waiters) = {u \in Threads : pc[u] = "wait"}
    BY FlagTypes DEF FlagIInv, WaitersAreLive
  <1>2. Scalars' /\ pc' \in [Threads -> Places]
    BY <1>1 DEF Scalars, Places
  <1>3. pc'[t] = l /\ \A u \in Threads : u # t => pc'[u] = pc[u]
    BY <1>1
  <1>4. WaitersAreLive'
    BY <1>1, <1>3 DEF FlagIInv, WaitersAreLive
  <1>5. CommittedMatch'
    BY <1>3 DEF FlagIInv, CommittedMatch
  <1>6. Sticky = {} => NoMissedWake'
    BY <1>1 DEF FlagIInv, NoMissedWake
  <1>7. QED
    BY <1>1, <1>2, <1>4, <1>5, <1>6, FlagTypes DEF FlagIInv

\* A wait that is not satisfied is queued, once, behind the others.
LEMMA Queues ==
  ASSUME FlagIInv, NEW t \in Threads, pc[t] # "wait",
         NEW p \in SUBSET Bits, NEW md \in Modes \cup {NoMode},
         NEW timed \in BOOLEAN, NEW poll \in BOOLEAN, ~Satisfied(bits, p, md),
         waiters' = Append(waiters, t),
         w' = [w EXCEPT ![t] = [Blank EXCEPT !.pat = p, !.mode = md,
                                             !.timed = timed, !.poll = poll]],
         pc' = [pc EXCEPT ![t] = "wait"], out' = NoOut,
         UNCHANGED <<bits, lastSet, stopping>>
  PROVE  FlagIInv'
  <1> DEFINE r == [Blank EXCEPT !.pat = p, !.mode = md, !.timed = timed, !.poll = poll]
             n == Len(waiters)
  <1>1. /\ Scalars /\ waiters \in Seq(Threads) /\ w \in [Threads -> Record] /\ pc \in [Threads -> Places]
        /\ Once(waiters) /\ ToSet(waiters) = {u \in Threads : pc[u] = "wait"}
    BY FlagTypes DEF FlagIInv, WaitersAreLive, Once
  <1>2. r \in Record /\ ~r.done /\ r.pat = p /\ r.mode = md
    <2>1. ASSUME NEW q \in Record
          PROVE  LET c == [q EXCEPT !.pat = p, !.mode = md, !.timed = timed, !.poll = poll]
                 IN  c \in Record /\ c.done = q.done /\ c.pat = p /\ c.mode = md
      BY DEF Record
    <2>2. QED
      BY <2>1, BlankTyped
  <1> HIDE DEF r
  <1>3. w' = [w EXCEPT ![t] = r]
    BY DEF r
  <1>4. Scalars' /\ w' \in [Threads -> Record] /\ pc' \in [Threads -> Places]
    BY <1>1, <1>2, <1>3, OutTyped DEF Scalars, Places
  <1>5. /\ pc'[t] = "wait" /\ w'[t] = r
        /\ \A u \in Threads : u # t => pc'[u] = pc[u] /\ w'[u] = w[u]
    BY <1>1, <1>3
  <1>6. /\ n \in Nat /\ DOMAIN waiters = 1 .. n
        /\ waiters' \in Seq(Threads) /\ DOMAIN waiters' = 1 .. n + 1
        /\ waiters'[n + 1] = t /\ \A i \in 1 .. n : waiters'[i] = waiters[i]
    BY <1>1, LenProperties, AppendProperties
  <1>7. ToSet(waiters') = ToSet(waiters) \cup {t}
    <2>1. \A i \in 1 .. n + 1 : i \in 1 .. n \/ i = n + 1
      BY <1>6
    <2>2. \A i \in 1 .. n : i \in 1 .. n + 1
      BY <1>6
    <2>3. n + 1 \in 1 .. n + 1
      BY <1>6
    <2> HIDE DEF n
    <2>4. ASSUME NEW u \in ToSet(waiters') PROVE u \in ToSet(waiters) \cup {t}
      <3>1. PICK i \in 1 .. n + 1 : waiters'[i] = u
        BY <1>6, <2>4 DEF ToSet
      <3>2. QED
        BY <1>6, <2>1, <3>1 DEF ToSet
    <2>5. ASSUME NEW u \in ToSet(waiters) PROVE u \in ToSet(waiters')
      <3>1. PICK i \in 1 .. n : waiters[i] = u
        BY <1>6, <2>5 DEF ToSet
      <3>2. QED
        BY <1>6, <2>2, <3>1 DEF ToSet
    <2>6. t \in ToSet(waiters')
      BY <1>6, <2>3 DEF ToSet
    <2>7. QED
      BY <2>4, <2>5, <2>6
  <1>8. t \notin ToSet(waiters)
    BY <1>1
  <1>9. Once(waiters')
    <2>1. \A i \in 1 .. n + 1 : i \in 1 .. n \/ i = n + 1
      BY <1>6
    <2>2. \A i \in 1 .. n : waiters[i] # t
      BY <1>6, <1>8 DEF ToSet
    <2> HIDE DEF n
    <2>3. QED
      BY <1>1, <1>6, <2>1, <2>2 DEF Once
  <1>10. WaitersAreLive'
    BY <1>1, <1>5, <1>7, <1>9 DEF WaitersAreLive, Once
  <1>11. CommittedMatch'
    BY <1>2, <1>5 DEF FlagIInv, CommittedMatch
  <1>12. Sticky = {} => NoMissedWake'
    BY <1>1, <1>2, <1>5, <1>7 DEF FlagIInv, NoMissedWake
  <1>13. QED
    BY <1>4, <1>6, <1>10, <1>11, <1>12, FlagTypes DEF FlagIInv

\* The entry of EventFlag::Wait.
LEMMA EntryStep ==
  ASSUME FlagIInv, NEW t \in Threads, pc[t] # "wait",
         NEW p \in SUBSET Bits, NEW md \in Modes \cup {NoMode},
         NEW timed \in BOOLEAN, NEW poll \in BOOLEAN,
         WaitEntry(t, p, md, timed, poll), UNCHANGED <<lastSet, stopping>>
  PROVE  FlagIInv'
  <1>1. w \in [Threads -> Record]
    BY FlagTypes DEF FlagIInv
  <1>2. CASE Satisfied(bits, p, md)
    <2>1. /\ bits' = Taken(bits, p, md) /\ Return(t, "ok", bits)
          /\ w' = [w EXCEPT ![t] = Blank] /\ UNCHANGED waiters
      BY <1>2 DEF WaitEntry
    <2>2. w' \in [Threads -> Record] /\ \A u \in Threads : u # t => w'[u] = w[u]
      BY <1>1, <2>1, BlankTyped
    <2>3. QED
      BY <2>1, <2>2, TakesAtOnce
  <1>3. CASE ~Satisfied(bits, p, md)
    BY <1>3, Queues DEF WaitEntry
  <1>4. QED
    BY <1>2, <1>3

\* sys_evf_trywait.
LEMMA TryStep ==
  ASSUME FlagIInv, NEW t \in Threads, NEW p \in Patterns, NEW md \in Modes, TryWait(t, p, md)
  PROVE  FlagIInv'
  <1>1. w \in [Threads -> Record] /\ pc[t] = "run" /\ p \in SUBSET Bits
    BY FlagTypes, EventFlagAssumptions DEF FlagIInv, TryWait
  <1>2. CASE Satisfied(bits, p, md)
    <2>1. bits' = Taken(bits, p, md) /\ Return(t, "ok", bits) /\ UNCHANGED <<w, waiters, lastSet, stopping>>
      BY <1>2 DEF TryWait
    <2>2. QED
      BY <1>1, <2>1, TakesAtOnce
  <1>3. CASE ~Satisfied(bits, p, md) /\ lastSet = t
    <2>1. /\ pc' = [pc EXCEPT ![t] = "grace"] /\ out' = NoOut
          /\ w' = [w EXCEPT ![t] = [Blank EXCEPT !.pat = p, !.mode = md]]
          /\ UNCHANGED <<bits, waiters, lastSet, stopping>>
      BY <1>3 DEF TryWait
    <2>2. [Blank EXCEPT !.pat = p, !.mode = md] \in Record
      BY <1>1, RecordTyped
    <2>3. w' \in [Threads -> Record] /\ \A u \in Threads : u # t => w'[u] = w[u]
      BY <1>1, <2>1, <2>2
    <2>4. QED
      BY <1>1, <2>1, <2>3, OutTyped, StaysAwake
  <1>4. CASE ~Satisfied(bits, p, md) /\ lastSet # t
    <2>1. /\ pc' = [pc EXCEPT ![t] = "run"] /\ out' = Out(t, "busy", {})
          /\ UNCHANGED <<w, bits, waiters, lastSet, stopping>>
      BY <1>4 DEF TryWait, Return
    <2>2. out' \in Outs
      BY <2>1, OutTyped DEF Outcomes
    <2>3. QED
      BY <1>1, <2>1, <2>2, StaysAwake
  <1>5. QED
    BY <1>2, <1>3, <1>4

\* EventFlag::Set, by a thread or by the host.
LEMMA SetStep ==
  ASSUME FlagIInv, NEW b \in SUBSET Bits, bits' = Commit(bits \cup b).bits,
         w' = Commit(bits \cup b).rec, lastSet' \in Threads \cup {NoThread}, out' = NoOut,
         UNCHANGED <<waiters, pc, stopping>>
  PROVE  FlagIInv'
  <1> DEFINE s == Commit(bits \cup b)
  <1>1. /\ TypeOK /\ Scalars /\ waiters \in Seq(Threads) /\ w \in [Threads -> Record]
        /\ pc \in [Threads -> Places]
        /\ Once(waiters) /\ ToSet(waiters) = {u \in Threads : pc[u] = "wait"}
    BY FlagTypes DEF FlagIInv, WaitersAreLive, Once
  <1>2. LoopState(s, Len(waiters))
    BY <1>1, LoopEnds DEF Scalars
  <1> HIDE DEF s
  <1>3. bits' = s.bits /\ w' = s.rec
    BY DEF s
  <1>4. bits' \in SUBSET Bits /\ w' \in [Threads -> Record]
    BY <1>2, <1>3 DEF LoopState, LoopType
  <1>5. Scalars'
    BY <1>1, <1>4, OutTyped DEF Scalars
  <1>6. ASSUME NEW u \in Threads
        PROVE  \/ w'[u] = w[u]
               \/ /\ w'[u] = [w[u] EXCEPT !.result = w'[u].result, !.done = TRUE]
                  /\ Satisfied(w'[u].result, w[u].pat, w[u].mode)
    BY <1>2, <1>3 DEF LoopState
  <1>7. \A u \in Threads : w'[u].pat = w[u].pat /\ w'[u].mode = w[u].mode
    BY <1>1, <1>6 DEF Record
  <1>8. CommittedMatch'
    <2>1. SUFFICES ASSUME NEW u \in Threads, pc[u] = "wait", w'[u].done, ~w'[u].cancelled
                   PROVE  Satisfied(w'[u].result, w'[u].pat, w'[u].mode)
      BY DEF CommittedMatch
    <2>2. CASE w'[u] = w[u]
      BY <2>1, <2>2 DEF FlagIInv, CommittedMatch
    <2>3. CASE w'[u] # w[u]
      BY <1>6, <1>7, <2>3
    <2>4. QED
      BY <2>2, <2>3
  <1>9. ASSUME Sticky = {} PROVE NoMissedWake'
    <2>1. SUFFICES ASSUME NEW u \in ToSet(waiters), ~w'[u].done
                   PROVE  ~Satisfied(bits', w'[u].pat, w'[u].mode)
      BY DEF NoMissedWake
    <2>2. PICK j \in 1 .. Len(waiters) : waiters[j] = u
      BY <1>1, LenProperties DEF ToSet
    <2>3. s.rec[waiters[j]].done \/ ~Satisfied(s.bits, w[waiters[j]].pat, w[waiters[j]].mode)
      BY <1>2, <1>9, <2>2 DEF LoopState
    <2>4. ~Satisfied(bits', w[u].pat, w[u].mode)
      BY <1>3, <2>1, <2>2, <2>3
    <2>5. QED
      BY <1>1, <1>7, <2>1, <2>4
  <1>10. QED
    BY <1>1, <1>4, <1>5, <1>8, <1>9, FlagTypes DEF FlagIInv, WaitersAreLive

\* EventFlag::Clear, by a thread or by the host.
LEMMA ClearStep ==
  ASSUME FlagIInv, NEW b, bits' = bits \cap b, out' = NoOut,
         UNCHANGED <<waiters, w, pc, lastSet, stopping>>
  PROVE  FlagIInv'
  <1>1. Scalars /\ waiters \in Seq(Threads) /\ w \in [Threads -> Record] /\ pc \in [Threads -> Places]
    BY FlagTypes DEF FlagIInv
  <1>2. Scalars'
    BY <1>1, OutTyped DEF Scalars
  <1>3. WaitersAreLive' /\ CommittedMatch'
    BY DEF FlagIInv, WaitersAreLive, CommittedMatch
  <1>4. Sticky = {} => NoMissedWake'
    <2>1. bits' \subseteq bits
      OBVIOUS
    <2>2. QED
      BY <2>1, FewerBits DEF FlagIInv, NoMissedWake
  <1>5. QED
    BY <1>1, <1>2, <1>3, <1>4, FlagTypes DEF FlagIInv

\* sys_evf_cancel.
LEMMA CancelStep ==
  ASSUME FlagIInv, NEW t \in Threads, Cancel(t)
  PROVE  FlagIInv'
  <1>1. /\ Scalars /\ waiters \in Seq(Threads) /\ w \in [Threads -> Record] /\ pc \in [Threads -> Places]
        /\ ToSet(waiters) = {u \in Threads : pc[u] = "wait"}
    BY FlagTypes DEF FlagIInv, WaitersAreLive
  <1>2. /\ w' = [u \in Threads |-> IF u \in ToSet(waiters) /\ ~w[u].done
                                   THEN [w[u] EXCEPT !.cancelled = TRUE, !.done = TRUE] ELSE w[u]]
        /\ out' = NoOut /\ UNCHANGED <<bits, waiters, pc, lastSet, stopping>>
    BY DEF Cancel
  <1>3. ASSUME NEW q \in Record
        PROVE  LET c == [q EXCEPT !.cancelled = TRUE, !.done = TRUE]
               IN  c \in Record /\ c.done /\ c.cancelled
    BY DEF Record
  <1>4. ASSUME NEW u \in Threads
        PROVE  w'[u] \in Record /\ (w'[u] = w[u] \/ (w'[u].done /\ w'[u].cancelled))
    <2>1. w[u] \in Record
      BY <1>1
    <2>2. QED
      BY <1>2, <1>3, <2>1
  <1>5. w' \in [Threads -> Record]
    BY <1>2, <1>4
  <1>6. Scalars'
    BY <1>1, <1>2, OutTyped DEF Scalars
  <1>7. WaitersAreLive'
    BY <1>2 DEF FlagIInv, WaitersAreLive
  <1>8. CommittedMatch'
    BY <1>2, <1>4 DEF FlagIInv, CommittedMatch
  <1>9. Sticky = {} => NoMissedWake'
    BY <1>1, <1>2, <1>4 DEF FlagIInv, NoMissedWake
  <1>10. QED
    BY <1>1, <1>2, <1>5, <1>6, <1>7, <1>8, <1>9, FlagTypes DEF FlagIInv

\* Every step of the flag.
LEMMA FlagStep == FlagIInv /\ [Next]_vars => FlagIInv'
  <1> SUFFICES ASSUME FlagIInv, [Next]_vars PROVE FlagIInv'
    OBVIOUS
  <1>1. /\ Scalars /\ waiters \in Seq(Threads) /\ w \in [Threads -> Record] /\ pc \in [Threads -> Places]
    BY FlagTypes DEF FlagIInv
  <1>2. \A p \in Patterns : p \in SUBSET Bits
    BY EventFlagAssumptions
  <1>3. ASSUME NEW t \in Threads, WaitDone(t) \/ WaitTimeout(t) \/ WaitStopped(t) PROVE FlagIInv'
    <2>1. w[t].result \in SUBSET Bits
      BY <1>1 DEF Record
    <2>2. PICK r \in Outcomes, b \in SUBSET Bits : Return(t, r, b)
      BY <1>3, <2>1 DEF WaitDone, WaitTimeout, WaitStopped, Outcomes
    <2>3. pc[t] = "wait" /\ RemoveWaiter(t) /\ UNCHANGED <<bits, lastSet, stopping>>
      BY <1>3 DEF WaitDone, WaitTimeout, WaitStopped
    <2>4. QED
      BY <2>2, <2>3, Leaves
  <1>4. ASSUME NEW t \in Threads, NEW p \in Patterns, NEW md \in Modes, NEW timed \in BOOLEAN,
               EvfWait(t, p, md, timed)
        PROVE  FlagIInv'
    <2>1. pc[t] # "wait" /\ WaitEntry(t, p, md, timed, FALSE) /\ UNCHANGED <<lastSet, stopping>>
      BY <1>4 DEF EvfWait
    <2>2. QED
      BY <1>2, <2>1, EntryStep
  <1>5. ASSUME NEW t \in Threads, Grace(t) PROVE FlagIInv'
    <2>1. w[t].pat \in SUBSET Bits /\ w[t].mode \in Modes \cup {NoMode}
      BY <1>1 DEF Record
    <2>2. pc[t] # "wait" /\ WaitEntry(t, w[t].pat, w[t].mode, TRUE, TRUE) /\ UNCHANGED <<lastSet, stopping>>
      BY <1>5 DEF Grace
    <2>3. QED
      BY <2>1, <2>2, EntryStep
  <1>6. ASSUME NEW p \in Patterns, HostSet(p) \/ \E t \in Threads : Set(t, p) PROVE FlagIInv'
    <2>1. /\ bits' = Commit(bits \cup p).bits /\ w' = Commit(bits \cup p).rec
          /\ lastSet' \in Threads \cup {NoThread} /\ out' = NoOut /\ UNCHANGED <<waiters, pc, stopping>>
      BY <1>6 DEF HostSet, Set
    <2>2. QED
      BY <1>2, <2>1, SetStep
  <1>7. ASSUME NEW b, HostClear(b) \/ \E t \in Threads : Clear(t, b) PROVE FlagIInv'
    BY <1>7, ClearStep DEF HostClear, Clear
  <1>8. CASE Stop
    <2>1. /\ stopping' = TRUE /\ out' = NoOut /\ UNCHANGED <<bits, waiters, w, pc, lastSet>>
      BY <1>8 DEF Stop
    <2>2. Scalars'
      BY <1>1, <2>1, OutTyped DEF Scalars
    <2>3. TypeOK'
      BY <1>1, <2>1, <2>2, FlagTypes
    <2>4. QED
      BY <2>1, <2>3 DEF FlagIInv, WaitersAreLive, CommittedMatch, NoMissedWake
  <1>9. CASE UNCHANGED vars
    BY <1>9 DEF vars, FlagIInv, TypeOK, WaitersAreLive, CommittedMatch, NoMissedWake
  <1>10. QED
    BY <1>3, <1>4, <1>5, <1>6, <1>7, <1>8, <1>9, TryStep, CancelStep DEF Next

\* A step of a behaviour about the flag is the flag's; any other leaves it alone.
LEMMA FlagMoves ==
  ASSUME [AllNext]_allVars
  PROVE  used' = used /\ (used = "flag" => [Next]_vars) /\ (used # "flag" => UNCHANGED flagOnly)
  <1>1. CASE InFlag(Next)
    BY <1>1 DEF InFlag
  <1>2. CASE InPipe(P!Next)
    BY <1>2 DEF InPipe
  <1>3. CASE UNCHANGED allVars
    BY <1>3 DEF allVars, flagOnly, vars
  <1>4. QED
    BY <1>1, <1>2, <1>3 DEF AllNext

\* In every behaviour, the flag being used or not.
LEMMA FlagAlways ==
  /\ Spec => []FlagIInv
  /\ AllSpec => []FlagIInv
  <1>1. Spec => []FlagIInv
    BY FlagInit, FlagStep, PTL DEF Spec
  <1> DEFINE Piped == used = "pipe" => PipeIInv
             Used == used \in {"flag", "pipe"}
  <1>2. AllInit => FlagIInv /\ Used
    BY FlagInit DEF AllInit
  <1>3. Used /\ FlagIInv /\ Piped' /\ [AllNext]_allVars => (FlagIInv /\ Used)'
    <2>1. SUFFICES ASSUME Used, FlagIInv, Piped', [AllNext]_allVars PROVE FlagIInv' /\ Used'
      OBVIOUS
    <2>2. CASE used = "flag"
      BY <2>1, <2>2, FlagMoves, FlagStep
    <2>3. CASE used = "pipe"
      <3>1. used' = "pipe" /\ UNCHANGED <<bits, waiters, w, pc, out, lastSet>>
        BY <2>1, <2>3, FlagMoves DEF flagOnly
      <3>2. stopping' \in BOOLEAN
        BY <2>1, <3>1 DEF PipeIInv, P!TypeOK
      <3>3. TypeOK'
        BY <2>1, <3>1, <3>2 DEF FlagIInv, TypeOK
      <3>4. QED
        BY <2>1, <2>3, <3>1, <3>3 DEF FlagIInv, WaitersAreLive, CommittedMatch, NoMissedWake
    <2>4. QED
      BY <2>1, <2>2, <2>3
  <1> HIDE DEF Piped, Used
  <1>4. AllSpec => []Piped
    BY PipeAlways DEF Piped
  <1>5. AllSpec => [](FlagIInv /\ Used)
    BY <1>2, <1>3, <1>4, PTL DEF AllSpec
  <1>6. QED
    BY <1>1, <1>5, PTL

\* waiters_ points to the records of exactly the threads inside EventFlag::Wait,
\* each once, and on a flag whose bits stay taken (every flag but the system
\* flags with pre-asserted bits) no wait that set has not committed sleeps while
\* the bits satisfy it.
THEOREM FlagQueueSafe ==
  /\ Spec => [](TypeOK /\ WaitersAreLive)
  /\ AllSpec => [](TypeOK /\ WaitersAreLive)
  /\ Sticky = {} => (Spec => []QueueInv) /\ (AllSpec => []QueueInv)
  <1>1. FlagIInv => TypeOK /\ WaitersAreLive
    BY DEF FlagIInv
  <1>2. Sticky = {} => (FlagIInv => QueueInv)
    BY DEF FlagIInv, QueueInv
  <1>3. Spec => [](TypeOK /\ WaitersAreLive)
    BY <1>1, FlagAlways, PTL
  <1>4. AllSpec => [](TypeOK /\ WaitersAreLive)
    BY <1>1, FlagAlways, PTL
  <1>5. ASSUME Sticky = {} PROVE (Spec => []QueueInv) /\ (AllSpec => []QueueInv)
    <2>1. FlagIInv => QueueInv
      BY <1>2, <1>5
    <2>2. QED
      BY <2>1, FlagAlways, PTL
  <1>6. QED
    BY <1>3, <1>4, <1>5

\* What any step but a set does to the record and the place of thread x: it
\* leaves them, ends the call of a sleeper, moves a thread that is awake, or
\* cancels a wait.
Quiet(x) ==
  \/ pc'[x] = pc[x] /\ w'[x] = w[x]
  \/ WaitDone(x) \/ WaitTimeout(x) \/ WaitStopped(x)
  \/ pc[x] # "wait" /\ (w'[x] = w[x] \/ ~w'[x].done)
  \/ pc'[x] = pc[x] /\ ~w[x].done /\ w'[x].done /\ w'[x].cancelled

\* The step of EventFlag::Set.
Sets == \E p \in Patterns : w' = Commit(bits \cup p).rec /\ pc' = pc

\* A step is a set, or quiet for every thread.
LEMMA SetOrQuiet ==
  ASSUME FlagIInv, [Next]_vars, NEW x \in Threads
  PROVE  Sets \/ Quiet(x)
  <1>1. w \in [Threads -> Record] /\ pc \in [Threads -> Places]
    BY FlagTypes DEF FlagIInv
  <1>2. ASSUME NEW t \in Threads, WaitDone(t) \/ WaitTimeout(t) \/ WaitStopped(t) PROVE Quiet(x)
    <2>1. CASE t = x
      BY <1>2, <2>1 DEF Quiet
    <2>2. CASE t # x
      <3>1. \E r, b : Return(t, r, b)
        BY <1>2 DEF WaitDone, WaitTimeout, WaitStopped
      <3>2. pc' = [pc EXCEPT ![t] = "run"] /\ w' = [w EXCEPT ![t] = Blank]
        BY <1>2, <3>1 DEF WaitDone, WaitTimeout, WaitStopped, Return, RemoveWaiter
      <3>3. QED
        BY <1>1, <2>2, <3>2 DEF Quiet
    <2>3. QED
      BY <2>1, <2>2
  <1>3. ASSUME NEW t \in Threads, NEW p \in SUBSET Bits, NEW md \in Modes \cup {NoMode},
               NEW timed \in BOOLEAN, NEW poll \in BOOLEAN,
               pc[t] # "wait", WaitEntry(t, p, md, timed, poll)
        PROVE  Quiet(x)
    <2>1. PICK l \in {"run", "wait"}, r \in Record : 
            ~r.done /\ pc' = [pc EXCEPT ![t] = l] /\ w' = [w EXCEPT ![t] = r]
      <3>1. CASE Satisfied(bits, p, md)
        BY <1>3, <3>1, BlankTyped DEF WaitEntry, Return
      <3>2. CASE ~Satisfied(bits, p, md)
        <4> DEFINE r == [Blank EXCEPT !.pat = p, !.mode = md, !.timed = timed, !.poll = poll]
        <4>1. ASSUME NEW q \in Record
              PROVE  LET c == [q EXCEPT !.pat = p, !.mode = md, !.timed = timed, !.poll = poll]
                     IN  c \in Record /\ c.done = q.done
          BY DEF Record
        <4>2. r \in Record /\ ~r.done
          BY <4>1, BlankTyped
        <4>3. pc' = [pc EXCEPT ![t] = "wait"] /\ w' = [w EXCEPT ![t] = r]
          BY <1>3, <3>2 DEF WaitEntry
        <4> HIDE DEF r
        <4>4. QED
          BY <4>2, <4>3
      <3>3. QED
        BY <3>1, <3>2
    <2>2. QED
      BY <1>1, <1>3, <2>1 DEF Quiet
  <1>4. ASSUME NEW t \in Threads, NEW p \in Patterns, NEW md \in Modes, NEW timed \in BOOLEAN,
               EvfWait(t, p, md, timed)
        PROVE  Quiet(x)
    <2>1. pc[t] # "wait" /\ WaitEntry(t, p, md, timed, FALSE) /\ p \in SUBSET Bits
      BY <1>4, EventFlagAssumptions DEF EvfWait
    <2>2. QED
      BY <1>3, <2>1
  <1>5. ASSUME NEW t \in Threads, Grace(t) PROVE Quiet(x)
    <2>1. w[t].pat \in SUBSET Bits /\ w[t].mode \in Modes \cup {NoMode}
      BY <1>1 DEF Record
    <2>2. pc[t] # "wait" /\ WaitEntry(t, w[t].pat, w[t].mode, TRUE, TRUE)
      BY <1>5 DEF Grace
    <2>3. QED
      BY <1>3, <2>1, <2>2
  <1>6. ASSUME NEW t \in Threads, NEW p \in Patterns, NEW md \in Modes, TryWait(t, p, md)
        PROVE  Quiet(x)
    <2>1. pc[t] = "run" /\ p \in SUBSET Bits
      BY <1>6, EventFlagAssumptions DEF TryWait
    <2>2. ASSUME NEW q \in Record PROVE [q EXCEPT !.pat = p, !.mode = md].done = q.done
      BY DEF Record
    <2>3. ~[Blank EXCEPT !.pat = p, !.mode = md].done
      BY <2>2, BlankTyped
    <2>4. PICK l \in {"run", "grace"} : pc' = [pc EXCEPT ![t] = l]
      BY <1>6 DEF TryWait, Return
    <2>5. w' = w \/ w' = [w EXCEPT ![t] = [Blank EXCEPT !.pat = p, !.mode = md]]
      BY <1>6 DEF TryWait
    <2>6. x # t => pc'[x] = pc[x] /\ w'[x] = w[x]
      BY <1>1, <2>4, <2>5
    <2>7. w'[t] = w[t] \/ ~w'[t].done
      BY <1>1, <2>3, <2>5
    <2>8. QED
      BY <2>1, <2>6, <2>7 DEF Quiet
  <1>7. ASSUME NEW p \in Patterns, HostSet(p) \/ \E t \in Threads : Set(t, p) PROVE Sets
    BY <1>7 DEF HostSet, Set, Sets
  <1>8. ASSUME NEW t \in Threads, Cancel(t) PROVE Quiet(x)
    <2>1. ASSUME NEW q \in Record
          PROVE  LET c == [q EXCEPT !.cancelled = TRUE, !.done = TRUE] IN c.done /\ c.cancelled
      BY DEF Record
    <2>2. w[x] \in Record /\ pc' = pc
      BY <1>1, <1>8 DEF Cancel
    <2>3. w'[x] = w[x] \/ (~w[x].done /\ w'[x] = [w[x] EXCEPT !.cancelled = TRUE, !.done = TRUE])
      BY <1>8 DEF Cancel
    <2>4. QED
      BY <2>1, <2>2, <2>3 DEF Quiet
  <1>9. ASSUME NEW b, HostClear(b) \/ \E t \in Threads : Clear(t, b) PROVE Quiet(x)
    BY <1>9 DEF HostClear, Clear, Quiet
  <1>10. CASE Stop
    BY <1>10 DEF Stop, Quiet
  <1>11. CASE UNCHANGED vars
    BY <1>11 DEF vars, Quiet
  <1>12. QED
    BY <1>2, <1>4, <1>5, <1>6, <1>7, <1>8, <1>9, <1>10, <1>11 DEF Next

\* What a set does, from any state of the flag.
LEMMA SetsLoop ==
  ASSUME FlagIInv, Sets
  PROVE  pc' = pc /\ \E s : LoopState(s, Len(waiters)) /\ w' = s.rec
  <1>1. PICK p \in Patterns : w' = Commit(bits \cup p).rec /\ pc' = pc
    BY DEF Sets
  <1>2. TypeOK /\ Once(waiters) /\ bits \cup p \in SUBSET Bits
    BY EventFlagAssumptions DEF FlagIInv, WaitersAreLive, Once, TypeOK
  <1>3. LoopState(Commit(bits \cup p), Len(waiters))
    BY <1>2, LoopEnds
  <1>4. QED
    BY <1>1, <1>3

\* A step neither revokes nor changes what a wait was given, and the wait returns
\* that.
LEMMA CommitStep ==
  ASSUME FlagIInv, [Next]_vars, NEW t \in Threads
  PROVE  CommitStands(t) /\ OkMeansMatch(t)
  <1>1. CASE Sets
    <2>1. PICK s : LoopState(s, Len(waiters)) /\ w' = s.rec
      BY <1>1, SetsLoop
    <2>2. s.rec[t] = w[t] \/ ~w[t].done
      BY <2>1 DEF LoopState, Committed
    <2>3. pc' = pc
      BY <1>1, SetsLoop
    <2>4. QED
      BY <2>1, <2>2, <2>3 DEF CommitStands, OkMeansMatch
  <1>2. CASE WaitDone(t) \/ WaitTimeout(t) \/ WaitStopped(t)
    <2>1. pc[t] = "wait" /\ pc \in [Threads -> Places]
      BY <1>2, FlagTypes DEF WaitDone, WaitTimeout, WaitStopped, FlagIInv
    <2>2. w[t].done => WaitDone(t)
      BY <1>2 DEF WaitTimeout, WaitStopped
    <2>3. CommitStands(t)
      BY <2>1, <2>2 DEF CommitStands, WaitDone, Return
    <2>4. CASE WaitDone(t) /\ ~w[t].cancelled
      <3>1. out'.bits = w[t].result
        BY <2>4 DEF WaitDone, Return, Out
      <3>2. Satisfied(w[t].result, w[t].pat, w[t].mode)
        BY <2>1, <2>4 DEF FlagIInv, CommittedMatch, WaitDone
      <3>3. QED
        BY <2>3, <3>1, <3>2 DEF OkMeansMatch
    <2>5. CASE ~(WaitDone(t) /\ ~w[t].cancelled)
      <3>1. out'.r # "ok" \/ stopping
        BY <1>2, <2>5 DEF WaitDone, WaitTimeout, WaitStopped, Return, Out
      <3>2. QED
        BY <2>3, <3>1 DEF OkMeansMatch
    <2>6. QED
      BY <2>4, <2>5
  <1>3. CASE ~Sets /\ ~(WaitDone(t) \/ WaitTimeout(t) \/ WaitStopped(t))
    <2>1. Quiet(t)
      BY <1>3, SetOrQuiet
    <2>2. QED
      BY <1>3, <2>1 DEF Quiet, CommitStands, OkMeansMatch
  <1>4. QED
    BY <1>1, <1>2, <1>3

\* What a wait returns is what set committed to it: no clear, cancel, deadline or
\* stop that comes before its thread runs takes it back, and a wait that returns 0
\* in a session that is not stopping returns bits that match its pattern.
THEOREM WaitsReturnCommit ==
  /\ Spec => WaitsReturnTheirCommit
  /\ AllSpec => WaitsReturnTheirCommit
  <1> DEFINE A == \A t \in Threads : CommitStands(t) /\ OkMeansMatch(t)
  <1>1. FlagIInv /\ [Next]_vars => [A]_vars
    BY CommitStep
  <1>2. FlagIInv /\ [AllNext]_allVars => [A]_vars
    <2>1. SUFFICES ASSUME FlagIInv, [AllNext]_allVars PROVE [A]_vars
      OBVIOUS
    <2>2. CASE used = "flag"
      BY <1>1, <2>1, <2>2, FlagMoves
    <2>3. CASE used # "flag"
      <3>1. pc' = pc /\ w' = w
        BY <2>1, <2>3, FlagMoves DEF flagOnly
      <3>2. QED
        BY <3>1 DEF CommitStands, OkMeansMatch
    <2>4. QED
      BY <2>2, <2>3
  <1> HIDE DEF A
  <1>3. Spec => [][A]_vars
    BY <1>1, FlagAlways, PTL DEF Spec
  <1>4. AllSpec => [][A]_vars
    BY <1>2, FlagAlways, PTL DEF AllSpec
  <1>5. QED
    BY <1>3, <1>4 DEF A, WaitsReturnTheirCommit

\* The step property that ClearedBitTakenOnce states.
BothTake(t, u) ==
  /\ t # u /\ ~w[t].done /\ ~w[u].done
  /\ w'[t].done /\ w'[u].done /\ ~w'[t].cancelled /\ ~w'[u].cancelled
  /\ w[t].mode.clear # "none" /\ w[u].mode.clear # "none"

LEMMA BothTakeStep ==
  ASSUME FlagIInv, [Next]_vars, NEW t \in Threads, NEW u \in Threads, BothTake(t, u)
  PROVE  w[t].pat \cap w[u].pat \cap w'[t].result \cap w'[u].result \subseteq Sticky
  <1>1. ~Quiet(t)
    <2>1. w \in [Threads -> Record]
      BY FlagTypes DEF FlagIInv
    <2>2. ASSUME WaitDone(t) \/ WaitTimeout(t) \/ WaitStopped(t) PROVE FALSE
      <3>1. w' = [w EXCEPT ![t] = Blank]
        BY <2>2 DEF WaitDone, WaitTimeout, WaitStopped, RemoveWaiter
      <3>2. QED
        BY <2>1, <3>1, BlankTyped DEF BothTake
    <2>3. QED
      BY <2>2 DEF Quiet, BothTake
  <1>2. PICK s : LoopState(s, Len(waiters)) /\ w' = s.rec
    BY <1>1, SetOrQuiet, SetsLoop
  <1>3. Committed(s, t) /\ Committed(s, u)
    BY <1>2 DEF BothTake, Committed
  <1>4. QED
    BY <1>2, <1>3 DEF BothTake, LoopState

\* However many waits one set wakes, two that clear what they take never both get
\* a bit of both their patterns, save the bits a system flag asserts again.
THEOREM ClearedOnce ==
  /\ Spec => ClearedBitTakenOnce
  /\ AllSpec => ClearedBitTakenOnce
  <1> DEFINE A == \A t, u \in Threads :
                    BothTake(t, u)
                      => w[t].pat \cap w[u].pat \cap w'[t].result \cap w'[u].result \subseteq Sticky
  <1>1. FlagIInv /\ [Next]_vars => [A]_vars
    BY BothTakeStep
  <1>2. FlagIInv /\ [AllNext]_allVars => [A]_vars
    <2>1. SUFFICES ASSUME FlagIInv, [AllNext]_allVars PROVE [A]_vars
      OBVIOUS
    <2>2. CASE used = "flag"
      BY <1>1, <2>1, <2>2, FlagMoves
    <2>3. CASE used # "flag"
      <3>1. w' = w
        BY <2>1, <2>3, FlagMoves DEF flagOnly
      <3>2. QED
        BY <3>1 DEF BothTake
    <2>4. QED
      BY <2>2, <2>3
  <1> HIDE DEF A
  <1>3. Spec => [][A]_vars
    BY <1>1, FlagAlways, PTL DEF Spec
  <1>4. AllSpec => [][A]_vars
    BY <1>2, FlagAlways, PTL DEF AllSpec
  <1>5. QED
    BY <1>3, <1>4 DEF A, BothTake, ClearedBitTakenOnce
=============================================================================
