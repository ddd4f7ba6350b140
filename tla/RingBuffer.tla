----------------------------- MODULE RingBuffer -----------------------------
(***************************************************************************)
(* ringbuffer.c as the firmware uses it: one interrupt that writes, the    *)
(* main loop that reads.  The 8 and the 16 bit buffers differ in the items *)
(* and in the length only.                                                 *)
(*                                                                         *)
(* rbuf_write, rbuf_read and rbuf_reset mask interrupts, so each is one    *)
(* action.  rbuf_is_empty and rbuf_peek do not.  Sniffer_run finds the     *)
(* buffer not empty and reads in a call of its own (sniffer.c:1028-1029):  *)
(* the interrupt may write in between.  mode_cardemu.c:952-958 masks       *)
(* interrupts around both, which gives fewer of the behaviours below.      *)
(***************************************************************************)
EXTENDS Integers, Sequences

CONSTANTS
  RING_BUFLEN,  \* RING_BUFLEN or RING16_BUFLEN
  Items         \* what a slot can hold

ASSUME LengthAssumption == RING_BUFLEN \in Nat \ {0} /\ Items # {}

VARIABLES
  buf, ird, iwr,  \* struct ringbuf
  rc,             \* what the last rbuf_write returned
  got,            \* what the last rbuf_read or rbuf_peek returned
  pc              \* main loop: about to check for data, or to read

vars == <<buf, ird, iwr, rc, got, pc>>

Slots == 0..(RING_BUFLEN - 1)

Succ(i) == (i + 1) % RING_BUFLEN

\* seeded fault: the slot before the end is not seen as the last free one
IsFullNoWrap == ird = iwr + 1

IsEmpty == ird = iwr
IsFull == ird = Succ(iwr)

Init ==
  /\ buf \in [Slots -> Items]
  /\ ird = 0 /\ iwr = 0
  /\ rc = 0 /\ got \in Items
  /\ pc = "check"

-----------------------------------------------------------------------------
(* The interrupt.                                                           *)

Write(x) ==
  /\ ~IsFull
  /\ buf' = [buf EXCEPT ![iwr] = x] /\ iwr' = Succ(iwr)
  /\ rc' = 0
  /\ UNCHANGED <<ird, got, pc>>

WriteFull ==
  /\ IsFull
  /\ rc' = -1
  /\ UNCHANGED <<buf, ird, iwr, got, pc>>

-----------------------------------------------------------------------------
(* The main loop.                                                           *)

FoundData ==
  /\ pc = "check" /\ ~IsEmpty
  /\ pc' = "read"
  /\ UNCHANGED <<buf, ird, iwr, rc, got>>

Peek ==
  /\ pc = "read"
  /\ got' = buf[ird]
  /\ UNCHANGED <<buf, ird, iwr, rc, pc>>

Read ==
  /\ pc = "read"
  /\ got' = buf[ird] /\ ird' = Succ(ird)
  /\ pc' = "check"
  /\ UNCHANGED <<buf, iwr, rc>>

\* seeded fault: the interrupt resets the buffer too
ResetFromIrq ==
  /\ ird' = 0 /\ iwr' = 0
  /\ UNCHANGED <<buf, rc, got, pc>>

\* rbuf_reset, which all the callers call from the context that reads
Reset ==
  /\ pc = "check"
  /\ ird' = 0 /\ iwr' = 0
  /\ UNCHANGED <<buf, rc, got, pc>>

Next == (\E x \in Items : Write(x)) \/ WriteFull \/ FoundData \/ Peek \/ Read \/ Reset

Spec == Init /\ [][Next]_vars

-----------------------------------------------------------------------------
\* Type correctness; the indices stay inside the array.
TypeOK ==
  /\ buf \in [Slots -> Items] /\ ird \in Slots /\ iwr \in Slots
  /\ rc \in {0, -1} /\ got \in Items /\ pc \in {"check", "read"}

\* What the unprotected check found out is still true when the main loop acts on
\* it: only the reader takes or resets.
ReadHasData == pc = "read" => ~IsEmpty

\* The items the buffer holds, oldest first.
Count == (iwr + RING_BUFLEN - ird) % RING_BUFLEN
Contents == [k \in 1..Count |-> buf[(ird + k - 1) % RING_BUFLEN]]

\* The buffer is a bounded queue: with one slot less than the array has, a write
\* is refused exactly when it is full, and nothing is lost, doubled or reordered
\* whatever the interrupt does to the main loop.
Queue == INSTANCE Fifo WITH queue <- Contents, Capacity <- RING_BUFLEN - 1
IsQueue == Queue!Spec
=============================================================================
