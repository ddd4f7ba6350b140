-------------------------- MODULE RingBuffer_proofs --------------------------
(***************************************************************************)
(* The ring buffer implements the bounded queue, for every length of the   *)
(* array and every set of items.                                           *)
(***************************************************************************)
EXTENDS RingBuffer, TLAPS

\* Sums of two indices are reduced once at most.
LEMMA ModSmall ==
  ASSUME NEW n \in Nat \ {0}, NEW x \in Nat, x < n
  PROVE  x % n = x
OBVIOUS

LEMMA ModWrap ==
  ASSUME NEW n \in Nat \ {0}, NEW x \in Nat, n <= x, x < 2 * n
  PROVE  x % n = x - n
OBVIOUS

\* The slot of the k-th item behind the read index, without the division.
Slot(r, k) == IF r + k < RING_BUFLEN THEN r + k ELSE r + k - RING_BUFLEN

LEMMA SlotIs ==
  ASSUME NEW r \in Slots, NEW k \in 0..RING_BUFLEN
  PROVE  (r + k) % RING_BUFLEN = Slot(r, k) /\ Slot(r, k) \in Slots
<1>1. CASE r + k < RING_BUFLEN
  BY <1>1, LengthAssumption, ModSmall DEF Slot, Slots
<1>2. CASE r + k >= RING_BUFLEN
  BY <1>2, LengthAssumption, ModWrap DEF Slot, Slots
<1> QED  BY <1>1, <1>2, LengthAssumption DEF Slots

LEMMA SuccIs ==
  ASSUME NEW i \in Slots
  PROVE  Succ(i) = Slot(i, 1) /\ Succ(i) \in Slots
BY SlotIs, LengthAssumption DEF Succ, Slots

\* How many items there are between two indices, and what they are.
CountOf(r, w) == (w + RING_BUFLEN - r) % RING_BUFLEN
ContentsOf(b, r, w) == [k \in 1..CountOf(r, w) |-> b[(r + k - 1) % RING_BUFLEN]]

LEMMA CountIs ==
  ASSUME NEW r \in Slots, NEW w \in Slots
  PROVE  /\ CountOf(r, w) \in Slots
         /\ CountOf(r, w) \in Nat /\ CountOf(r, w) < RING_BUFLEN
         /\ r <= w => CountOf(r, w) = w - r
         /\ r > w => CountOf(r, w) = w + RING_BUFLEN - r
<1>1. CASE r <= w
  <2>1. /\ w + RING_BUFLEN - r \in Nat /\ RING_BUFLEN <= w + RING_BUFLEN - r
        /\ w + RING_BUFLEN - r < 2 * RING_BUFLEN
    BY <1>1, LengthAssumption DEF Slots
  <2>2. CountOf(r, w) = w + RING_BUFLEN - r - RING_BUFLEN
    <3> DEFINE x == w + RING_BUFLEN - r
    <3>1. x \in Nat /\ RING_BUFLEN <= x /\ x < 2 * RING_BUFLEN
      BY <2>1
    <3>2. CountOf(r, w) = x % RING_BUFLEN
      BY DEF CountOf
    <3> HIDE DEF x
    <3>3. x % RING_BUFLEN = x - RING_BUFLEN
      BY <3>1, ModWrap, LengthAssumption
    <3> QED  BY <3>2, <3>3, LengthAssumption DEF x, Slots
  <2> QED  BY <1>1, <2>2, LengthAssumption DEF Slots
<1>2. CASE r > w
  <2>1. w + RING_BUFLEN - r \in Nat /\ w + RING_BUFLEN - r < RING_BUFLEN
    BY <1>2, LengthAssumption DEF Slots
  <2>2. CountOf(r, w) = w + RING_BUFLEN - r
    BY <2>1, ModSmall, LengthAssumption DEF CountOf
  <2> QED  BY <1>2, <2>2, LengthAssumption DEF Slots
<1> QED  BY <1>1, <1>2 DEF Slots

\* The contents, with the slots of SlotIs.
LEMMA ContentsIs ==
  ASSUME NEW b \in [Slots -> Items], NEW r \in Slots, NEW w \in Slots
  PROVE  LET c == ContentsOf(b, r, w) IN
         /\ c = [k \in 1..CountOf(r, w) |-> b[Slot(r, k - 1)]]
         /\ c \in Seq(Items) /\ Len(c) = CountOf(r, w)
<1> DEFINE n == CountOf(r, w)
           c == ContentsOf(b, r, w)
<1>1. n \in Slots
  BY CountIs
<1>c. c = [k \in 1..n |-> b[(r + k - 1) % RING_BUFLEN]]
  BY DEF ContentsOf
<1> HIDE DEF n, c
<1>2. \A k \in 1..n : (r + k - 1) % RING_BUFLEN = Slot(r, k - 1) /\ Slot(r, k - 1) \in Slots
  <2> SUFFICES ASSUME NEW k \in 1..n
               PROVE  (r + k - 1) % RING_BUFLEN = Slot(r, k - 1) /\ Slot(r, k - 1) \in Slots
    OBVIOUS
  <2>1. k - 1 \in 0..RING_BUFLEN /\ r + k - 1 = r + (k - 1)
    BY <1>1, LengthAssumption DEF Slots
  <2> QED  BY <2>1, SlotIs
<1>3. c = [k \in 1..n |-> b[Slot(r, k - 1)]]
  BY <1>c, <1>2
<1>4. n \in Nat
  BY <1>1, LengthAssumption DEF Slots
<1>5. \A k \in 1..n : b[Slot(r, k - 1)] \in Items
  BY <1>2
<1>6. c \in Seq(Items) /\ Len(c) = n
  BY <1>3, <1>4, <1>5
<1> QED  BY <1>3, <1>6 DEF n, c

\* Count and Contents in these terms, now and after a step.
LEMMA InTerms ==
  /\ Count = CountOf(ird, iwr) /\ Count' = CountOf(ird', iwr')
  /\ Contents = ContentsOf(buf, ird, iwr) /\ Contents' = ContentsOf(buf', ird', iwr')
BY DEF Count, Contents, CountOf, ContentsOf

\* The numbers a step is about.
LEMMA Numbers ==
  ASSUME TypeOK
  PROVE  /\ RING_BUFLEN \in Nat \ {0}
         /\ ird \in Nat /\ ird < RING_BUFLEN /\ iwr \in Nat /\ iwr < RING_BUFLEN
         /\ Count \in Nat /\ Count < RING_BUFLEN
         /\ ird <= iwr => Count = iwr - ird
         /\ ird > iwr => Count = iwr + RING_BUFLEN - ird
<1>1. ird \in Slots /\ iwr \in Slots /\ RING_BUFLEN \in Nat \ {0}
  BY LengthAssumption DEF TypeOK
<1>2. /\ CountOf(ird, iwr) \in Nat /\ CountOf(ird, iwr) < RING_BUFLEN
      /\ ird <= iwr => CountOf(ird, iwr) = iwr - ird
      /\ ird > iwr => CountOf(ird, iwr) = iwr + RING_BUFLEN - ird
  BY <1>1, CountIs
<1>3. ird \in Nat /\ ird < RING_BUFLEN /\ iwr \in Nat /\ iwr < RING_BUFLEN
  BY <1>1 DEF Slots
<1> QED  BY <1>1, <1>2, <1>3, InTerms

LEMMA NumbersNext ==
  ASSUME TypeOK'
  PROVE  /\ Count' \in Nat /\ Count' < RING_BUFLEN
         /\ ird' <= iwr' => Count' = iwr' - ird'
         /\ ird' > iwr' => Count' = iwr' + RING_BUFLEN - ird'
<1>1. ird' \in Slots /\ iwr' \in Slots
  BY DEF TypeOK
<1>2. /\ CountOf(ird', iwr') \in Nat /\ CountOf(ird', iwr') < RING_BUFLEN
      /\ ird' <= iwr' => CountOf(ird', iwr') = iwr' - ird'
      /\ ird' > iwr' => CountOf(ird', iwr') = iwr' + RING_BUFLEN - ird'
  BY <1>1, CountIs
<1> QED  BY <1>2, InTerms

-----------------------------------------------------------------------------
(* The invariants.                                                          *)

\* The types and the reader's certainty are inductive together.
RInv == TypeOK /\ ReadHasData

LEMMA RInvInit == Init => RInv
BY LengthAssumption DEF Init, RInv, TypeOK, ReadHasData, Slots

LEMMA RInvNext == RInv /\ [Next]_vars => RInv'
<1> SUFFICES ASSUME RInv, [Next]_vars PROVE RInv'
  OBVIOUS
<1> USE DEF RInv, TypeOK, ReadHasData, IsEmpty, IsFull
<1>0. Succ(ird) \in Slots /\ Succ(iwr) \in Slots /\ 0 \in Slots
  BY SuccIs, LengthAssumption DEF Slots
<1>1. ASSUME NEW x \in Items, Write(x) PROVE RInv'
  BY <1>0, <1>1 DEF Write
<1>2. CASE WriteFull
  BY <1>2 DEF WriteFull
<1>3. CASE FoundData
  BY <1>3 DEF FoundData
<1>4. CASE Peek
  BY <1>4 DEF Peek
<1>5. CASE Read
  BY <1>0, <1>5 DEF Read
<1>6. CASE Reset
  BY <1>0, <1>6 DEF Reset
<1>7. CASE UNCHANGED vars
  BY <1>7 DEF vars
<1> QED  BY <1>1, <1>2, <1>3, <1>4, <1>5, <1>6, <1>7 DEF Next

\* The indices never leave the array, whatever its length.
THEOREM TypeCorrect == Spec => []TypeOK
<1>1. RInv => TypeOK
  BY DEF RInv
<1> QED  BY <1>1, RInvInit, RInvNext, PTL DEF Spec

\* The buffer still has data when the main loop reads what rbuf_is_empty, which
\* masks no interrupt, found there.
THEOREM ReadHasDataAlways == Spec => []ReadHasData
<1>1. RInv => ReadHasData
  BY DEF RInv
<1> QED  BY <1>1, RInvInit, RInvNext, PTL DEF Spec

-----------------------------------------------------------------------------
(* The refinement.                                                          *)

\* The check for the last free slot counts the items.
LEMMA FullIs ==
  ASSUME TypeOK
  PROVE  IsFull <=> Count = RING_BUFLEN - 1
<1>1. ird \in Slots /\ iwr \in Slots
  BY DEF TypeOK
<1>2. IsFull <=> ird = Slot(iwr, 1)
  BY <1>1, SuccIs DEF IsFull
<1> QED  BY <1>2, Numbers DEF Slot

LEMMA EmptyIs ==
  ASSUME TypeOK
  PROVE  IsEmpty <=> Count = 0
BY Numbers DEF IsEmpty

\* An empty buffer is the empty queue.
LEMMA InitIsQueue == Init => Queue!Init
<1> SUFFICES ASSUME Init PROVE Queue!Init
  OBVIOUS
<1>1. TypeOK /\ Count = 0
  BY RInvInit, EmptyIs DEF RInv, Init, IsEmpty
<1>2. Contents = <<>>
  BY <1>1, ContentsIs, InTerms DEF TypeOK
<1> QED  BY <1>2 DEF Queue!Init, Init

\* A write appends.
LEMMA WriteIsPut ==
  ASSUME TypeOK, TypeOK', NEW x \in Items, Write(x)
  PROVE  Queue!Put(x)
<1>1. /\ ird' = ird /\ iwr' = Slot(iwr, 1) /\ buf' = [buf EXCEPT ![iwr] = x]
      /\ rc' = 0 /\ got' = got
  BY SuccIs DEF Write, TypeOK
<1>2. Count \in Nat /\ Count < RING_BUFLEN - 1
  BY FullIs, Numbers DEF Write
<1>3. Count' = Count + 1
  BY <1>1, <1>2, Numbers, NumbersNext DEF Slot
<1>4. Slot(ird, Count) = iwr /\ \A k \in 1..Count : Slot(ird, k - 1) # iwr /\ Slot(ird, k - 1) \in Slots
  BY <1>2, Numbers DEF Slot, Slots
<1>5. Contents' = [k \in 1..(Count + 1) |-> buf'[Slot(ird, k - 1)]]
  <2>1. Contents' = [k \in 1..Count' |-> buf'[Slot(ird', k - 1)]]
    BY ContentsIs, InTerms DEF TypeOK
  <2> QED  BY <1>1, <1>3, <2>1
<1>6. Contents = [k \in 1..Count |-> buf[Slot(ird, k - 1)]]
  BY ContentsIs, InTerms DEF TypeOK
<1>9. Contents \in Seq(Items) /\ Len(Contents) = Count
  BY ContentsIs, InTerms DEF TypeOK
<1>7. iwr \in Slots /\ buf \in [Slots -> Items]
  BY DEF TypeOK
<1>8. Contents' = Append(Contents, x)
  <2> HIDE DEF Contents
  <2>1. Append(Contents, x) \in Seq(Items) /\ Len(Append(Contents, x)) = Count + 1
    BY <1>9
  <2>2. /\ Contents' \in Seq(Items) /\ Len(Contents') = Count + 1
    BY <1>3, ContentsIs, InTerms DEF TypeOK
  <2>3. \A k \in 1..(Count + 1) : Contents'[k] = Append(Contents, x)[k]
    <3> SUFFICES ASSUME NEW k \in 1..(Count + 1)
                 PROVE  Contents'[k] = Append(Contents, x)[k]
      OBVIOUS
    <3>1. Contents'[k] = buf'[Slot(ird, k - 1)]
      BY <1>5
    <3>2. CASE k = Count + 1
      <4>1. Append(Contents, x)[k] = x
        BY <1>9, <3>2
      <4>2. Contents'[k] = x
        BY <1>1, <1>2, <1>4, <1>7, <3>1, <3>2
      <4> QED  BY <4>1, <4>2
    <3>3. CASE k \in 1..Count
      <4>1. Append(Contents, x)[k] = Contents[k]
        BY <1>2, <1>9, <3>3
      <4>2. Contents'[k] = buf[Slot(ird, k - 1)]
        BY <1>1, <1>4, <1>7, <3>1, <3>3
      <4> QED  BY <1>6, <3>3, <4>1, <4>2
    <3>4. k = Count + 1 \/ k \in 1..Count
      BY <1>2
    <3> QED  BY <3>2, <3>3, <3>4
  <2> QED  BY <2>1, <2>2, <2>3
<1> QED  BY <1>1, <1>2, <1>9, <1>8 DEF Queue!Put

\* A read takes the oldest item; a peek leaves it.
LEMMA HeadIs ==
  ASSUME TypeOK, Count > 0
  PROVE  Contents # <<>> /\ Head(Contents) = buf[ird]
<1>1. Count \in Nat /\ Slot(ird, 0) = ird
  BY CountIs, InTerms, LengthAssumption DEF TypeOK, Slot, Slots
<1>2. Contents[1] = buf[ird] /\ Len(Contents) = Count /\ Contents \in Seq(Items)
  BY <1>1, ContentsIs, InTerms DEF TypeOK
<1> HIDE DEF Contents
<1> QED  BY <1>1, <1>2

LEMMA ReadIsGet ==
  ASSUME RInv, TypeOK', Read
  PROVE  Queue!Get
<1>0. TypeOK /\ Count > 0
  BY EmptyIs, Numbers DEF RInv, ReadHasData, Read
<1>1. ird' = Slot(ird, 1) /\ iwr' = iwr /\ buf' = buf /\ rc' = rc /\ got' = buf[ird]
  BY <1>0, SuccIs DEF Read, TypeOK
<1>2. Count \in Nat /\ Count < RING_BUFLEN
  BY <1>0, Numbers
<1>3. Count' = Count - 1
  BY <1>0, <1>1, <1>2, Numbers, NumbersNext DEF Slot
<1>4. \A k \in 1..(Count - 1) : Slot(Slot(ird, 1), k - 1) = Slot(ird, (k + 1) - 1)
  BY <1>0, <1>2, Numbers DEF Slot
<1>5. Contents' = [k \in 1..(Count - 1) |-> buf[Slot(Slot(ird, 1), k - 1)]]
  <2>1. Contents' = [k \in 1..Count' |-> buf'[Slot(ird', k - 1)]]
    BY ContentsIs, InTerms DEF TypeOK
  <2> QED  BY <1>1, <1>3, <2>1
<1>6. Contents = [k \in 1..Count |-> buf[Slot(ird, k - 1)]]
  BY <1>0, ContentsIs, InTerms DEF TypeOK
<1>9. Contents \in Seq(Items) /\ Len(Contents) = Count
  BY <1>0, ContentsIs, InTerms DEF TypeOK
<1>7. Contents' = Tail(Contents)
  <2> HIDE DEF Contents
  <2>1. Contents' \in Seq(Items) /\ Len(Contents') = Count - 1
    BY <1>3, ContentsIs, InTerms DEF TypeOK
  <2>2. Tail(Contents) \in Seq(Items) /\ Len(Tail(Contents)) = Count - 1
    BY <1>0, <1>2, <1>9
  <2>3. \A k \in 1..(Count - 1) : Contents'[k] = Tail(Contents)[k]
    <3> SUFFICES ASSUME NEW k \in 1..(Count - 1) PROVE Contents'[k] = Tail(Contents)[k]
      OBVIOUS
    <3>1. Contents'[k] = buf[Slot(ird, (k + 1) - 1)]
      BY <1>4, <1>5
    <3>2. Tail(Contents)[k] = Contents[k + 1] /\ k + 1 \in 1..Count
      BY <1>0, <1>2, <1>9
    <3> QED  BY <1>6, <3>1, <3>2
  <2> QED  BY <2>1, <2>2, <2>3
<1> QED  BY <1>0, <1>1, <1>7, HeadIs DEF Queue!Get

\* Every step of the buffer is a step of the queue, or none.
LEMMA StepIsQueue == RInv /\ RInv' /\ [Next]_vars => [Queue!Next]_(Queue!vars)
<1> SUFFICES ASSUME RInv, RInv', [Next]_vars
             PROVE  Queue!Next \/ UNCHANGED Queue!vars
  OBVIOUS
<1>0. TypeOK /\ TypeOK'
  BY DEF RInv
<1>1. ASSUME NEW x \in Items, Write(x) PROVE Queue!Next
  BY <1>0, <1>1, WriteIsPut DEF Queue!Next
<1>2. CASE WriteFull
  <2>1. Contents' = Contents /\ rc' = -1 /\ got' = got
    BY <1>2 DEF WriteFull, Contents, Count
  <2>2. Len(Contents) = RING_BUFLEN - 1
    BY <1>0, <1>2, FullIs, ContentsIs, InTerms DEF WriteFull, TypeOK
  <2> QED  BY <2>1, <2>2 DEF Queue!Next, Queue!PutRefused
<1>3. CASE FoundData
  BY <1>3 DEF FoundData, Queue!vars, Contents, Count
<1>4. CASE Peek
  <2>1. Count > 0
    BY <1>4, EmptyIs, Numbers DEF RInv, ReadHasData, Peek
  <2>2. Contents' = Contents /\ rc' = rc /\ got' = buf[ird]
    BY <1>4 DEF Peek, Contents, Count
  <2> QED  BY <1>0, <2>1, <2>2, HeadIs DEF Queue!Next, Queue!Peek
<1>5. CASE Read
  BY <1>0, <1>5, ReadIsGet DEF Queue!Next
<1>6. CASE Reset
  <2>1. Count' = 0
    BY <1>0, <1>6, CountIs, InTerms DEF Reset, TypeOK
  <2>2. Contents' = <<>>
    BY <1>0, <2>1, ContentsIs, InTerms DEF TypeOK
  <2>3. rc' = rc /\ got' = got
    BY <1>6 DEF Reset
  <2> QED  BY <2>2, <2>3 DEF Queue!Next, Queue!Clear
<1>7. CASE UNCHANGED vars
  BY <1>7 DEF vars, Queue!vars, Contents, Count
<1> QED  BY <1>1, <1>2, <1>3, <1>4, <1>5, <1>6, <1>7 DEF Next

\* The ring buffer implements the bounded queue of RING_BUFLEN - 1 items: nothing
\* is lost but what rbuf_write refuses, nothing is doubled or reordered, though the
\* interrupt writes at any moment.
THEOREM Refinement == Spec => IsQueue
<1>1. Spec => Queue!Init /\ [][Queue!Next]_(Queue!vars)
  BY InitIsQueue, StepIsQueue, RInvInit, RInvNext, PTL DEF Spec
<1> QED  BY <1>1 DEF IsQueue, Queue!Spec
=============================================================================
