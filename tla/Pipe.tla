-------------------------------- MODULE Pipe --------------------------------
(***************************************************************************)
(* A guest pipe (delta/kern/ps4/dev/pipe_dev.cc): two PipeDevice objects,  *)
(* the reading and the writing end, over one PipeState.                    *)
(*                                                                         *)
(* A call resolves its descriptor (FdToDevice) and holds a reference to    *)
(* the end until it returns, so an end is destroyed by whoever drops the   *)
(* last reference: sys_close or a call that was still under way.           *)
(* Everything between taking and releasing PipeState::mutex is one action. *)
(* changed.wait_for comes back on a notification or after 5 ms, so a       *)
(* blocked call evaluates its loop again at any time.                      *)
(*                                                                         *)
(* The bytes are numbered in the order they were written, which tells any  *)
(* two of them apart.                                                      *)
(***************************************************************************)
EXTENDS Integers, Sequences, FiniteSets

CONSTANTS
  Threads,      \* guest threads that read and write
  Lengths,      \* the lengths they pass to read and write
  Capacity,     \* kCapacity
  AtomicWrite,  \* kAtomicWrite
  MaxBytes      \* bound: bytes written in one behaviour

PipeAssumptions ==
  /\ Lengths \subseteq Nat
  /\ Capacity \in Nat /\ AtomicWrite \in Nat
  /\ 0 < AtomicWrite /\ AtomicWrite <= Capacity
  /\ MaxBytes \in Nat

Ends == {"reader", "writer"}

VARIABLES
  bytes,        \* PipeState::bytes
  alive,        \* PipeState::reader and ::writer
  handle,       \* the end's handle is in the object table
  nonblocking,  \* PipeDevice::nonblocking_ of each end
  pc,           \* "run", "enter", "wait" or "leave": where the call is
  end,          \* the end a call holds a reference to
  length,       \* the length argument of the call
  ret,          \* what the call under way answers: a kind and a count
  sent,         \* how many bytes were ever written
  got,          \* how many bytes were ever read
  stopping      \* guest::Stopping()

vars == <<bytes, alive, handle, nonblocking, pc, end, length, ret, sent, got,
          stopping>>

NoEnd == "none"
Count(n) == <<"count", n>>
Err(e) == <<e, 0>>

\* CreatePipe.
Init ==
  /\ bytes = <<>>
  /\ alive = [e \in Ends |-> TRUE]
  /\ handle = [e \in Ends |-> TRUE]
  /\ nonblocking = [e \in Ends |-> FALSE]
  /\ pc = [t \in Threads |-> "run"]
  /\ end = [t \in Threads |-> NoEnd]
  /\ length = [t \in Threads |-> 0]
  /\ ret = [t \in Threads |-> <<>>]
  /\ sent = 0
  /\ got = 0
  /\ stopping = FALSE

Room == Capacity - Len(bytes)

\* The threads whose call still holds a reference to end e.
Holders(e) == {t \in Threads : end[t] = e}

-----------------------------------------------------------------------------
\* The answers that need no lock: a closed descriptor or the wrong end, no
\* length, a buffer that is not mapped.  d is the end, op the end it serves.
Early(d, op, n, mapped) ==
  IF ~handle[d] \/ d # op THEN Err("EBADF")
  ELSE IF n = 0 THEN Count(0)
  ELSE IF ~mapped THEN Err("EFAULT") ELSE <<>>

\* Bytes that the writes under way may still add; bounds the model only.
Underway == {t \in Threads : end[t] = "writer" /\ pc[t] # "leave"}
MayWrite(n) == sent + n + Capacity * Cardinality(Underway) <= MaxBytes

\* sys_read (op = "reader") or sys_write (op = "writer") on descriptor d.
Call(t, d, op, n, mapped) ==
  /\ pc[t] = "run"
  /\ LET early == Early(d, op, n, mapped)
     IN IF early # <<>>
        THEN /\ pc' = [pc EXCEPT ![t] = "leave"]
             /\ ret' = [ret EXCEPT ![t] = early]
             /\ UNCHANGED <<end, length>>
        ELSE /\ op = "reader" \/ MayWrite(n)
             /\ pc' = [pc EXCEPT ![t] = "enter"]
             /\ end' = [end EXCEPT ![t] = d]
             /\ length' = [length EXCEPT ![t] = n]
             /\ UNCHANGED ret
  /\ UNCHANGED <<bytes, alive, handle, nonblocking, sent, got, stopping>>

\* The call's critical section ends with r and the call is about to return.
Answer(t, r) ==
  /\ pc' = [pc EXCEPT ![t] = "leave"]
  /\ ret' = [ret EXCEPT ![t] = r]
  /\ UNCHANGED <<alive, handle, nonblocking, end, length, stopping>>

\* Mutant of Refusal: the loop does not look at the other end.
Refusal_NoEnd(t, other, gone) ==
  IF ~alive[other] /\ nonblocking[end[t]] THEN gone
  ELSE IF nonblocking[end[t]] THEN Err("EAGAIN")
  ELSE IF stopping THEN Err("EINTR") ELSE <<>>

\* What a loop that cannot go on answers; other is the opposite end's flag.
\* <<>> means wait.
Refusal(t, other, gone) ==
  IF ~alive[other] THEN gone
  ELSE IF nonblocking[end[t]] THEN Err("EAGAIN")
  ELSE IF stopping THEN Err("EINTR") ELSE <<>>

LoopAgain(t, refusal) ==
  IF refusal = <<>>
  THEN /\ pc' = [pc EXCEPT ![t] = "wait"]
       /\ UNCHANGED <<bytes, alive, handle, nonblocking, end, length, ret,
                      sent, got, stopping>>
  ELSE Answer(t, refusal) /\ UNCHANGED <<bytes, sent, got>>

InLoop(t, e) == pc[t] \in {"enter", "wait"} /\ end[t] = e

\* PipeDevice::Read, one turn of the loop under the lock.
Read(t) ==
  /\ InLoop(t, "reader")
  /\ IF bytes = <<>>
     THEN LoopAgain(t, Refusal(t, "writer", Count(0)))
     ELSE LET n == IF length[t] < Len(bytes) THEN length[t] ELSE Len(bytes)
          IN /\ bytes' = SubSeq(bytes, n + 1, Len(bytes))
             /\ got' = got + n
             /\ Answer(t, Count(n))
             /\ UNCHANGED sent

\* Mutant of Needed: a small write starts as soon as one byte fits.
Needed_One(t) == IF length[t] > 0 THEN 1 ELSE 0

\* The room a write waits for: all of a small one, some of a large one.
Needed(t) == IF length[t] <= AtomicWrite THEN length[t] ELSE 1

\* The bytes a write of n appends, in the order of its buffer.
NewBytes(n) == [i \in 1 .. n |-> sent + i]

\* PipeDevice::Write, one turn of the loop under the lock.
Write(t) ==
  /\ InLoop(t, "writer")
  /\ IF Room < Needed(t)
     THEN LoopAgain(t, Refusal(t, "reader", Err("EPIPE")))
     ELSE IF ~alive["reader"]
     THEN Answer(t, Err("EPIPE")) /\ UNCHANGED <<bytes, sent, got>>
     ELSE LET n == IF length[t] < Room THEN length[t] ELSE Room
          IN /\ bytes' = bytes \o NewBytes(n)
             /\ sent' = sent + n
             /\ Answer(t, Count(n))
             /\ UNCHANGED got

\* ~PipeDevice, when the last reference to e goes.
Destroyed(e, holders, inTable) ==
  alive' = [alive EXCEPT ![e] = @ /\ (inTable \/ holders # {})]

\* The call returns and drops its reference.
Return(t) ==
  /\ pc[t] = "leave"
  /\ pc' = [pc EXCEPT ![t] = "run"]
  /\ end' = [end EXCEPT ![t] = NoEnd]
  /\ length' = [length EXCEPT ![t] = 0]
  /\ ret' = [ret EXCEPT ![t] = <<>>]
  /\ IF end[t] = NoEnd THEN UNCHANGED alive
     ELSE Destroyed(end[t], Holders(end[t]) \ {t}, handle[end[t]])
  /\ UNCHANGED <<bytes, handle, nonblocking, sent, got, stopping>>

\* Mutant of Close: closing marks the end as gone under calls on it.
Close_AtOnce(e) ==
  /\ handle[e]
  /\ handle' = [handle EXCEPT ![e] = FALSE]
  /\ Destroyed(e, {}, FALSE)
  /\ UNCHANGED <<bytes, nonblocking, pc, end, length, ret, sent, got, stopping>>

\* sys_close of one end, by a thread that is in no other call.
Close(e) ==
  /\ handle[e]
  /\ handle' = [handle EXCEPT ![e] = FALSE]
  /\ Destroyed(e, Holders(e), FALSE)
  /\ UNCHANGED <<bytes, nonblocking, pc, end, length, ret, sent, got, stopping>>

\* SetFlags through fcntl, likewise.
SetFlags(e, flag) ==
  /\ handle[e]
  /\ nonblocking' = [nonblocking EXCEPT ![e] = flag]
  /\ UNCHANGED <<bytes, alive, handle, pc, end, length, ret, sent, got,
                 stopping>>

\* guest::RequestStop.
Stop ==
  /\ ~stopping
  /\ stopping' = TRUE
  /\ UNCHANGED <<bytes, alive, handle, nonblocking, pc, end, length, ret, sent,
                 got>>

Next ==
  \/ Stop
  \/ \E e \in Ends : Close(e) \/ \E b \in BOOLEAN : SetFlags(e, b)
  \/ \E t \in Threads :
       \/ \E d, op \in Ends, n \in Lengths, m \in BOOLEAN : Call(t, d, op, n, m)
       \/ Read(t) \/ Write(t) \/ Return(t)

\* The 5 ms tick brings a blocked call back to its loop; a call that can go
\* on is scheduled.
Fairness ==
  \A t \in Threads : WF_vars(Read(t)) /\ WF_vars(Write(t)) /\ WF_vars(Return(t))

Spec == Init /\ [][Next]_vars /\ Fairness

-----------------------------------------------------------------------------
TypeOK ==
  /\ bytes \in Seq(Nat)
  /\ alive \in [Ends -> BOOLEAN] /\ handle \in [Ends -> BOOLEAN]
  /\ nonblocking \in [Ends -> BOOLEAN]
  /\ pc \in [Threads -> {"run", "enter", "wait", "leave"}]
  /\ end \in [Threads -> Ends \cup {NoEnd}]
  /\ length \in [Threads -> Lengths \cup {0}]
  /\ sent \in Nat /\ got \in Nat
  /\ stopping \in BOOLEAN

\* The pipe holds exactly the bytes written and not yet read, in the order
\* they were written, and never more than its capacity.
BytesInOrder ==
  /\ Len(bytes) = sent - got
  /\ \A i \in DOMAIN bytes : bytes[i] = got + i
  /\ Len(bytes) <= Capacity

\* An end counts as there exactly while its descriptor is open or a call on it
\* is under way.
EndHeld == \A e \in Ends : alive[e] <=> handle[e] \/ Holders(e) # {}

\* End of file is final: once a read has decided to answer 0 (the writer gone,
\* the pipe drained) and as long as it takes to return, no byte comes in, however
\* a blocked write, a close from another thread and the destruction of the end
\* interleave.
EofIsFinal ==
  \A t \in Threads :
    pc[t] = "leave" /\ end[t] = "reader" /\ ret[t] = Count(0) => bytes = <<>>

\* The state of the pipe: a bounded FIFO whose ends are counted right, and whose
\* end of file is final.
PipeInv == TypeOK /\ BytesInOrder /\ EndHeld /\ EofIsFinal

\* A write of at most kAtomicWrite bytes goes in whole or not at all; a byte
\* goes only into a pipe somebody can still read.
WritesWhole ==
  [][\A t \in Threads :
       InLoop(t, "writer") /\ pc'[t] = "leave" =>
         /\ sent' # sent => alive["reader"]
         /\ sent' - sent \in {0, length[t]} \/ length[t] > AtomicWrite
         /\ (ret'[t][1] = "count") <=> (sent' # sent)]_vars

\* A call does not stay blocked while what it waits for is there: bytes or room
\* for it, the other end gone, O_NONBLOCK set meanwhile, the session stopping.
CanAnswer(t) ==
  \/ InLoop(t, "reader") /\ (bytes # <<>> \/ ~alive["writer"])
  \/ InLoop(t, "writer") /\ (Room >= Needed(t) \/ ~alive["reader"])
  \/ pc[t] = "wait" /\ (nonblocking[end[t]] \/ stopping)

BlockedCallsEnd == \A t \in Threads : []<>~CanAnswer(t)
=============================================================================
