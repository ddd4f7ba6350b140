--------------------------- MODULE UsbBuf_proofs ----------------------------
(***************************************************************************)
(* The USB buffers, for every pool, every queue limit and every set of     *)
(* message lengths: types, counts, owners and what becomes of a transfer,  *)
(* then the refinement of the lossy queues.                                *)
(***************************************************************************)
EXTENDS UsbBuf, SequenceTheorems, TLAPS

LEMMA InvInit == Init => IInv
BY UsbAssumption DEF Init, IInv, TypeOK, MainHolds, TransferHolds, Ep, InEps, Xfer,
   Quiet, NoCmd, NoWork

\* A queue after a message left it at the head, and its length.
LEMMA DequeueIs ==
  ASSUME IInv, NEW e \in Ep
  PROVE  /\ Dequeue(e) \in [Ep -> Seq(Bufs)]
         /\ Dequeue(e) = [queue EXCEPT ![e] = Dequeue(e)[e]]
         /\ Dequeue(e)[e] \in Seq(Bufs)
         /\ queue[e] = <<>> => Dequeue(e)[e] = <<>>
         /\ queue[e] # <<>> => Dequeue(e)[e] = Tail(queue[e])
BY DEF IInv, TypeOK, Dequeue

LEMMA UncountIs ==
  ASSUME IInv, NEW e \in InEps
  PROVE  /\ Uncount(e) \in [InEps -> 0..QlenMod - 1]
         /\ \A d \in InEps : d # e => Uncount(e)[d] = qlen[d]
         /\ queue[e] = <<>> => Uncount(e)[e] = qlen[e]
         /\ queue[e] # <<>> => Uncount(e)[e] = (qlen[e] - 1) % QlenMod
BY UsbAssumption DEF IInv, TypeOK, Uncount

\* usb_buf_submit keeps the types.
LEMMA SubmitIs ==
  ASSUME IInv, NEW e \in InEps, NEW b \in Bufs, Submit(e, b)
  PROVE  /\ queue' \in [Ep -> Seq(Bufs)] /\ qlen' \in [InEps -> 0..QlenMod - 1]
         /\ inUse' \subseteq Bufs
<1>1. e \in Ep
  BY DEF Ep
<1>2. Append(IF Full(e) THEN Dequeue(e)[e] ELSE queue[e], b) \in Seq(Bufs)
  BY <1>1, DequeueIs DEF IInv, TypeOK
<1>3. queue' \in [Ep -> Seq(Bufs)]
  BY <1>1, <1>2 DEF Submit, IInv, TypeOK
<1>4. (IF Full(e) THEN Uncount(e)[e] ELSE qlen[e]) \in 0..QlenMod - 1
  BY UncountIs DEF IInv, TypeOK
<1>5. ((IF Full(e) THEN Uncount(e)[e] ELSE qlen[e]) + 1) % QlenMod \in 0..QlenMod - 1
  BY <1>4, UsbAssumption
<1>6. qlen' \in [InEps -> 0..QlenMod - 1]
  BY <1>5 DEF Submit, IInv, TypeOK
<1> QED  BY <1>3, <1>6 DEF Submit, IInv, TypeOK

\* An endpoint without a transfer.
LEMMA QuietIs == Quiet \in Xfer /\ Quiet.state = "IDLE" /\ Quiet.inProgress = 0
BY DEF Quiet, Xfer

\* The end of a transfer leaves its endpoint either with a zero-length packet under
\* way or quiet.
LEMMA WriteEndedZlp ==
  ASSUME NEW x \in Xfer, NEW one, NEW ok, NeedsZlp(x, one)
  PROVE  WriteEnded(x, one, ok) \in {y \in Xfer : /\ y.inProgress = x.inProgress
                                                /\ y.msg = x.msg /\ y.state = x.state}
BY DEF WriteEnded, Xfer

LEMMA WriteEndedQuiet ==
  ASSUME NEW x \in Xfer, x.inProgress = 1, NEW one, NEW ok, ~NeedsZlp(x, one)
  PROVE  WriteEnded(x, one, ok) = Quiet
<1>1. WriteEnded(x, one, ok) = [Quiet EXCEPT !.inProgress = 0]
  BY DEF WriteEnded
<1> QED  BY <1>1 DEF Quiet

\* Aborting transfers: no endpoint of es is busy afterwards, the others are as before.
LEMMA AbortIs ==
  ASSUME IInv, NEW es \in SUBSET Ep, NEW s \in {"IDLE", "HALTED"}, Abort(es, s)
  PROVE  /\ xfer' \in [Ep -> Xfer] /\ inUse' \subseteq Bufs
         /\ \A e \in es : xfer'[e].state = s
         /\ \A e \in Ep \ es : xfer'[e] = xfer[e]
         /\ \A e \in Ep : xfer[e].state # "BUSY" => xfer'[e].inProgress = xfer[e].inProgress
         /\ cut' \subseteq Ep
<1> DEFINE busy == {e \in es : xfer[e].state = "BUSY"}
<1>1. PICK one \in [Ep -> BOOLEAN] :
        /\ xfer' = [e \in Ep |->
             CASE e \in busy -> [WriteEnded(xfer[e], one[e], FALSE) EXCEPT !.state = s]
               [] e \in es \ busy -> [xfer[e] EXCEPT !.state = s]
               [] e \notin es -> xfer[e]]
        /\ inUse' \subseteq inUse
  BY DEF Abort
<1>2. ASSUME NEW e \in Ep
      PROVE  /\ xfer'[e] \in Xfer
             /\ e \in es => xfer'[e].state = s
             /\ e \notin es => xfer'[e] = xfer[e]
             /\ xfer[e].state # "BUSY" => xfer'[e].inProgress = xfer[e].inProgress
  <2> xfer[e] \in Xfer
    BY DEF IInv, TypeOK
  <2>1. CASE e \in busy
    <3>1. xfer'[e] = [WriteEnded(xfer[e], one[e], FALSE) EXCEPT !.state = s]
      BY <1>1, <2>1
    <3>2. WriteEnded(xfer[e], one[e], FALSE) \in Xfer
      <4>1. xfer[e].inProgress = 1
        BY <2>1 DEF IInv, TransferHolds
      <4>2. CASE NeedsZlp(xfer[e], one[e])
        BY <4>2, WriteEndedZlp
      <4>3. CASE ~NeedsZlp(xfer[e], one[e])
        BY <4>1, <4>3, WriteEndedQuiet, QuietIs
      <4> QED  BY <4>2, <4>3
    <3>3. xfer'[e] \in Xfer /\ xfer'[e].state = s
      BY <3>1, <3>2 DEF Xfer
    <3> QED  BY <2>1, <3>3
  <2>2. CASE e \in es \ busy
    <3>1. xfer'[e] = [xfer[e] EXCEPT !.state = s]
      BY <1>1, <2>2
    <3> QED  BY <2>2, <3>1 DEF Xfer
  <2>3. CASE e \notin es
    BY <1>1, <2>3
  <2> QED  BY <2>1, <2>2, <2>3
<1>3. xfer' \in [Ep -> Xfer]
  BY <1>1, <1>2
<1>4. cut' \subseteq Ep
  BY DEF Abort, IInv, TypeOK
<1> QED  BY <1>1, <1>2, <1>3, <1>4 DEF IInv, TypeOK

\* Every step keeps the invariant.
LEMMA InvNext == IInv /\ [Next]_vars => IInv'
<1> SUFFICES ASSUME IInv, [Next]_vars PROVE IInv'
  OBVIOUS
<1> USE UsbAssumption DEF Ep, InEps
<1>1. ASSUME NEW e \in InEps, WantMsg(e) PROVE IInv'
  BY <1>1 DEF IInv, TypeOK, MainHolds, TransferHolds, pool, holders, main, history, WantMsg
<1>2. ASSUME NEW x \in Bufs, AllocOk(x) PROVE IInv'
  BY <1>2 DEF IInv, TypeOK, MainHolds, TransferHolds, pool, holders, main, history, AllocOk
<1>3. CASE AllocFails
  BY <1>3 DEF IInv, TypeOK, MainHolds, TransferHolds, pool, holders, main, history, AllocFails, NoWork
<1>4. CASE DropOldest
  <2>1. cur.ep \in InEps
    BY <1>4 DEF DropOldest, IInv, MainHolds
  <2>2. Dequeue(cur.ep) \in [Ep -> Seq(Bufs)] /\ Uncount(cur.ep) \in [InEps -> 0..QlenMod - 1]
    BY <2>1, DequeueIs, UncountIs
  <2> QED  BY <1>4, <2>2 DEF IInv, TypeOK, MainHolds, TransferHolds, pool, holders, main, history, DropOldest
<1>5. CASE KeepForReader
  BY <1>5 DEF IInv, TypeOK, MainHolds, TransferHolds, pool, holders, main, history, KeepForReader, NoWork
<1>6. CASE SubmitNow
  <2>1. cur.ep \in InEps /\ cur.msg \in Bufs /\ Submit(cur.ep, cur.msg)
    BY <1>6 DEF SubmitNow, IInv, MainHolds
  <2>2. queue' \in [Ep -> Seq(Bufs)] /\ qlen' \in [InEps -> 0..QlenMod - 1] /\ inUse' \subseteq Bufs
    BY <2>1, SubmitIs
  <2> QED  BY <1>6, <2>2 DEF IInv, TypeOK, MainHolds, TransferHolds, pool, holders, main, history, SubmitNow, NoWork
<1>7. CASE FlushRx
  <2>1. rxMsg \in Bufs /\ Submit(InEp, rxMsg)
    BY <1>7 DEF FlushRx, IInv, TypeOK
  <2>2. queue' \in [Ep -> Seq(Bufs)] /\ qlen' \in [InEps -> 0..QlenMod - 1] /\ inUse' \subseteq Bufs
    BY <2>1, SubmitIs
  <2> QED  BY <1>7, <2>2 DEF IInv, TypeOK, MainHolds, TransferHolds, pool, holders, main, history, FlushRx
<1>8. ASSUME NEW e \in InEps, RefillTake(e) PROVE IInv'
  <2>1. Dequeue(e) \in [Ep -> Seq(Bufs)] /\ Uncount(e) \in [InEps -> 0..QlenMod - 1]
    BY DequeueIs, UncountIs
  <2>2. xfer[e] \in Xfer /\ xfer[e].inProgress = 0 /\ xfer[e].state # "BUSY"
    BY <1>8 DEF RefillTake, IInv, TypeOK, TransferHolds
  <2>3. xfer' = [xfer EXCEPT ![e].inProgress = 1]
    BY <1>8, <2>2 DEF RefillTake, IInv, TypeOK
  <2>4. xfer' \in [Ep -> Xfer] /\ xfer'[e].inProgress = 1 /\ xfer'[e].state # "BUSY"
    <3> DEFINE y == [xfer[e] EXCEPT !.inProgress = 1]
    <3>1. y \in Xfer /\ y.inProgress = 1 /\ y.state # "BUSY"
      BY <2>2 DEF Xfer
    <3>2. xfer' = [xfer EXCEPT ![e] = y]
      BY <2>3
    <3> QED  BY <3>1, <3>2 DEF IInv, TypeOK
  <2>5. queue[e] \in Seq(Bufs) /\ queue[e] # <<>> /\ Head(queue[e]) \in Bufs
    BY <1>8 DEF RefillTake, IInv, TypeOK
  <2>6. TypeOK'
    BY <1>8, <2>1, <2>4, <2>5 DEF IInv, TypeOK, RefillTake, holders, history
  <2>7. MainHolds'
    BY <1>8, <2>4, <2>5 DEF MainHolds, RefillTake
  <2>8. TransferHolds'
    BY <2>2, <2>3 DEF IInv, TypeOK, TransferHolds, Xfer
  <2> QED  BY <2>6, <2>7, <2>8 DEF IInv
<1>9. CASE WriteOk
  <2>1. /\ cur.ep \in InEps /\ cur.msg \in Bufs
        /\ xfer[cur.ep] \in Xfer /\ xfer[cur.ep].inProgress = 1
    BY <1>9 DEF WriteOk, IInv, TypeOK, MainHolds
  <2>2. PICK z \in Sizes :
          xfer' = [xfer EXCEPT ![cur.ep].state = "BUSY", ![cur.ep].msg = cur.msg,
                               ![cur.ep].size = z]
    BY <1>9 DEF WriteOk
  <2>3. xfer' \in [Ep -> Xfer]
    BY <2>1, <2>2 DEF IInv, TypeOK, Xfer
  <2>4. TransferHolds'
    BY <2>1, <2>2 DEF IInv, TypeOK, TransferHolds, Xfer
  <2> QED  BY <1>9, <2>3, <2>4 DEF IInv, TypeOK, MainHolds, WriteOk, NoWork, pool, holders, history
<1>10. CASE WriteLocked
  <2>1. /\ cur.ep \in InEps /\ cur.msg \in Bufs
        /\ xfer[cur.ep] \in Xfer /\ xfer[cur.ep].inProgress = 1
        /\ xfer[cur.ep].state = "HALTED"
    BY <1>10 DEF WriteLocked, IInv, TypeOK, MainHolds
  <2>2. xfer' = [xfer EXCEPT ![cur.ep].inProgress = 0]
    BY <1>10, <2>1 DEF WriteLocked, IInv, TypeOK
  <2>3. xfer' \in [Ep -> Xfer]
    <3> DEFINE y == [xfer[cur.ep] EXCEPT !.inProgress = 0]
    <3>1. y \in Xfer
      BY <2>1 DEF Xfer
    <3>2. xfer' = [xfer EXCEPT ![cur.ep] = y]
      BY <2>2
    <3> QED  BY <3>1, <3>2 DEF IInv, TypeOK
  <2>4. TransferHolds'
    BY <2>1, <2>2 DEF IInv, TypeOK, TransferHolds, Xfer
  <2>5. <<cur.msg>> \o queue[cur.ep] \in Seq(Bufs)
    BY <2>1 DEF IInv, TypeOK
  <2>6. queue' \in [Ep -> Seq(Bufs)]
    BY <1>10, <2>5 DEF WriteLocked, IInv, TypeOK
  <2> QED  BY <1>10, <2>3, <2>4, <2>6 DEF IInv, TypeOK, MainHolds, WriteLocked, NoWork, holders, history
<1>11. ASSUME NEW x \in Bufs, RefillFromHost(x) PROVE IInv'
  <2>1. xfer[OutEp] \in Xfer
    BY DEF IInv, TypeOK
  <2>2. xfer' \in [Ep -> Xfer]
    BY <1>11, <2>1 DEF RefillFromHost, IInv, TypeOK, Xfer
  <2>3. TransferHolds'
    BY <1>11, <2>1 DEF RefillFromHost, IInv, TypeOK, TransferHolds, Xfer
  <2> QED  BY <1>11, <2>2, <2>3 DEF IInv, TypeOK, MainHolds, RefillFromHost, holders, main, history
<1>12. CASE CmdTake
  <2>1. queue[OutEp] \in Seq(Bufs) /\ queue[OutEp] # <<>> /\ Head(queue[OutEp]) \in Bufs
    BY <1>12 DEF CmdTake, IInv, TypeOK
  <2>2. Dequeue(OutEp) \in [Ep -> Seq(Bufs)]
    BY DequeueIs
  <2> QED  BY <1>12, <2>1, <2>2 DEF IInv, TypeOK, MainHolds, TransferHolds, pool, holders, main, history, CmdTake
<1>13. CASE CmdKeep
  BY <1>13 DEF IInv, TypeOK, MainHolds, TransferHolds, pool, holders, main, history, CmdKeep, NoCmd
<1>14. CASE CmdFree
  BY <1>14 DEF IInv, TypeOK, MainHolds, TransferHolds, pool, holders, main, history, CmdFree, NoCmd
<1>15. ASSUME NEW x \in Bufs, SegmentAlloc(x) PROVE IInv'
  BY <1>15 DEF IInv, TypeOK, MainHolds, TransferHolds, pool, holders, main, history, SegmentAlloc
<1>16. CASE SegmentKeep
  BY <1>16 DEF IInv, TypeOK, MainHolds, TransferHolds, pool, holders, main, history, SegmentKeep
<1>17. CASE SegmentFree
  BY <1>17 DEF IInv, TypeOK, MainHolds, TransferHolds, pool, holders, main, history, SegmentFree
<1>18. ASSUME NEW x \in Bufs, AnswerSent(x) PROVE IInv'
  BY <1>18 DEF IInv, TypeOK, MainHolds, TransferHolds, pool, holders, main, history, AnswerSent
<1>19. CASE HandleReset
  BY <1>19 DEF IInv, TypeOK, MainHolds, TransferHolds, pool, holders, main, history, HandleReset
<1>20. ASSUME NEW e \in InEps, TxDone(e) PROVE IInv'
  <2>1. /\ xfer[e] \in Xfer /\ xfer[e].state = "BUSY" /\ xfer[e].inProgress = 1
        /\ xfer[e].msg \in Bufs
    BY <1>20 DEF TxDone, IInv, TypeOK, TransferHolds
  <2>2. PICK one \in BOOLEAN : one = (xfer[e].size = "one")
    OBVIOUS
  <2> DEFINE y == WriteEnded(xfer[e], one, TRUE)
  <2>3. xfer' = [xfer EXCEPT ![e] = y]
    BY <1>20, <2>2 DEF TxDone
  <2>4. y \in Xfer /\ (y.state = "BUSY" => y.inProgress = 1 /\ y.msg \in Bufs)
    <3>1. CASE NeedsZlp(xfer[e], one)
      <4>1. y \in {z \in Xfer : z.inProgress = xfer[e].inProgress
                               /\ z.msg = xfer[e].msg /\ z.state = xfer[e].state}
        BY <2>1, <3>1, WriteEndedZlp
      <4> QED  BY <2>1, <4>1
    <3>2. CASE ~NeedsZlp(xfer[e], one)
      <4>1. y = Quiet
        BY <2>1, <3>2, WriteEndedQuiet
      <4> QED  BY <4>1, QuietIs
    <3> QED  BY <3>1, <3>2
  <2> HIDE DEF y
  <2>5. xfer' \in [Ep -> Xfer] /\ TransferHolds'
    BY <2>3, <2>4 DEF IInv, TypeOK, TransferHolds
  <2>6. ended' \in [InEps -> BOOLEAN]
    BY <1>20, <2>1 DEF TxDone, IInv, TypeOK, Xfer
  <2>7. pc = "write" => cur.ep # e
    BY <2>1 DEF IInv, MainHolds
  <2>8. MainHolds'
    BY <1>20, <2>3, <2>7 DEF TxDone, IInv, TypeOK, MainHolds, main
  <2> QED  BY <1>20, <2>5, <2>6, <2>8 DEF TxDone, IInv, TypeOK, holders, main, history
<1>21. CASE RxDone
  <2>1. xfer[OutEp].msg \in Bufs /\ queue[OutEp] \in Seq(Bufs)
    BY <1>21 DEF RxDone, IInv, TypeOK, TransferHolds
  <2>2. queue' \in [Ep -> Seq(Bufs)]
    BY <1>21, <2>1 DEF RxDone, IInv, TypeOK
  <2>3. xfer' \in [Ep -> Xfer] /\ TransferHolds'
    BY <1>21 DEF RxDone, IInv, TypeOK, TransferHolds, Xfer, Quiet
  <2>4. MainHolds'
    BY <1>21 DEF RxDone, IInv, TypeOK, MainHolds, main
  <2> QED  BY <1>21, <2>2, <2>3, <2>4 DEF RxDone, IInv, TypeOK, holders, main, history
<1>22. ASSUME NEW e \in Ep, SetHalt(e) PROVE IInv'
  <2>1. Abort({e}, "HALTED")
    BY <1>22 DEF SetHalt
  <2>2. /\ xfer' \in [Ep -> Xfer] /\ inUse' \subseteq Bufs
        /\ \A d \in {e} : xfer'[d].state = "HALTED"
        /\ \A d \in Ep \ {e} : xfer'[d] = xfer[d]
        /\ cut' \subseteq Ep
        /\ \A d \in Ep : xfer[d].state # "BUSY" => xfer'[d].inProgress = xfer[d].inProgress
    BY <2>1, AbortIs
  <2>3. TransferHolds'
    BY <2>2 DEF IInv, TransferHolds
  <2>4. MainHolds'
    BY <1>22, <2>2 DEF SetHalt, IInv, MainHolds, main
  <2> QED  BY <1>22, <2>2, <2>3, <2>4 DEF SetHalt, IInv, TypeOK, holders, main, history
<1>23. ASSUME NEW e \in Ep, ClearHalt(e) PROVE IInv'
  <2>1. xfer' = [xfer EXCEPT ![e].state = "IDLE"] /\ xfer[e] \in Xfer
    BY <1>23 DEF ClearHalt, IInv, TypeOK
  <2>2. xfer' \in [Ep -> Xfer] /\ TransferHolds'
    BY <2>1 DEF IInv, TypeOK, TransferHolds, Xfer
  <2>3. MainHolds'
    BY <1>23, <2>1 DEF ClearHalt, IInv, TypeOK, MainHolds, Xfer, pool, main, history
  <2> QED  BY <1>23, <2>2, <2>3 DEF ClearHalt, IInv, TypeOK, pool, holders, main, history
<1>24. CASE SetConfiguration
  <2>1. Abort(Ep, "IDLE")
    BY <1>24 DEF SetConfiguration
  <2>2. /\ xfer' \in [Ep -> Xfer] /\ inUse' \subseteq Bufs
        /\ \A d \in Ep : xfer'[d].state = "IDLE"
        /\ \A d \in Ep \ Ep : xfer'[d] = xfer[d]
        /\ cut' \subseteq Ep
        /\ \A d \in Ep : xfer[d].state # "BUSY" => xfer'[d].inProgress = xfer[d].inProgress
    BY <2>1, AbortIs
  <2>3. TransferHolds'
    BY <2>2 DEF IInv, TransferHolds
  <2>4. MainHolds'
    BY <1>24, <2>2 DEF SetConfiguration, IInv, MainHolds, main
  <2> QED  BY <1>24, <2>2, <2>3, <2>4 DEF SetConfiguration, IInv, TypeOK, holders, main, history
<1>25. CASE UNCHANGED vars
  BY <1>25 DEF IInv, TypeOK, MainHolds, TransferHolds, pool, holders, main, history, vars
<1> QED
  BY <1>1, <1>2, <1>3, <1>4, <1>5, <1>6, <1>7, <1>8, <1>9, <1>10, <1>11, <1>12, <1>13, <1>14, <1>15, <1>16, <1>17, <1>18, <1>19, <1>20, <1>21, <1>22, <1>23, <1>24, <1>25 DEF Next, ToHost, FromHost, UsbIrq

THEOREM Invariance == Spec => []IInv
BY InvInit, InvNext, PTL DEF Spec

\* Type correctness for every pool: above all, in_progress never leaves 0..1
\* (usb_refill_to_host, usb_write_cb), so that no endpoint is written to while its
\* transfer runs and none is released twice.
THEOREM TypeCorrect == Spec => []TypeOK
BY Invariance, PTL DEF IInv

-----------------------------------------------------------------------------
(* Until a write is refused, queue_len is the length of the queue.          *)

LEMMA CountDown ==
  ASSUME NEW n \in 1..UsbMaxQlen
  PROVE  (n - 1) % QlenMod = n - 1
BY UsbAssumption

LEMMA CountUp ==
  ASSUME NEW n \in 0..UsbMaxQlen - 1
  PROVE  (n + 1) % QlenMod = n + 1
BY UsbAssumption

\* Taking a message changes no other queue and no other count.
LEMMA OthersKept ==
  ASSUME IInv, NEW e \in InEps, NEW d \in InEps, d # e
  PROVE  Dequeue(e)[d] = queue[d] /\ Uncount(e)[d] = qlen[d]
BY UncountIs DEF Dequeue, Ep, IInv, TypeOK

\* A message taken from a counted queue leaves it counted.
LEMMA DequeueCounted ==
  ASSUME IInv, NEW e \in InEps, Counted(e), queue[e] # <<>>
  PROVE  /\ Dequeue(e)[e] \in Seq(Bufs)
         /\ Len(Dequeue(e)[e]) = Len(queue[e]) - 1
         /\ Uncount(e)[e] = Len(queue[e]) - 1
<1>1. e \in Ep /\ queue[e] \in Seq(Bufs)
  BY DEF Ep, IInv, TypeOK
<1>2. Dequeue(e)[e] = Tail(queue[e])
  BY <1>1, DequeueIs
<1>3. Len(queue[e]) \in 1..UsbMaxQlen /\ qlen[e] = Len(queue[e])
  BY <1>1, UsbAssumption DEF Counted
<1>4. Uncount(e)[e] = Len(queue[e]) - 1
  BY <1>3, CountDown, UncountIs
<1> QED  BY <1>1, <1>2, <1>4

LEMMA TakenCounted ==
  ASSUME IInv, QueuesBounded, NEW e \in InEps, queue[e] # <<>>,
         queue' = Dequeue(e), qlen' = Uncount(e), refused' = refused
  PROVE  QueuesBounded'
<1> SUFFICES ASSUME NEW d \in InEps, ~refused[d] PROVE Counted(d)'
  BY DEF QueuesBounded
<1>1. Counted(d)
  BY DEF QueuesBounded
<1>2. CASE d # e
  BY <1>1, <1>2, OthersKept DEF Counted
<1>3. CASE d = e
  <2>1. Len(queue[e]) \in Nat
    BY DEF IInv, TypeOK, Ep
  <2>2. qlen'[e] = Len(queue'[e]) /\ Len(queue'[e]) = Len(queue[e]) - 1
    BY <1>1, <1>3, DequeueCounted
  <2> QED  BY <1>1, <1>3, <2>1, <2>2, UsbAssumption DEF Counted
<1> QED  BY <1>2, <1>3

\* usb_buf_submit evicts before it appends, so that the limit holds.
LEMMA SubmitCounted ==
  ASSUME IInv, QueuesBounded, NEW e \in InEps, NEW b \in Bufs, Submit(e, b),
         refused' = refused
  PROVE  QueuesBounded'
<1> DEFINE q == IF Full(e) THEN Dequeue(e)[e] ELSE queue[e]
           n == IF Full(e) THEN Uncount(e)[e] ELSE qlen[e]
<1>1. e \in Ep /\ queue[e] \in Seq(Bufs)
  BY DEF Ep, IInv, TypeOK
<1>2. queue' = [queue EXCEPT ![e] = Append(q, b)] /\ qlen' = [qlen EXCEPT ![e] = (n + 1) % QlenMod]
  BY DEF Submit
<1>3. ASSUME Counted(e)
      PROVE  q \in Seq(Bufs) /\ n = Len(q) /\ n \in 0..UsbMaxQlen - 1
  <2>1. CASE Full(e)
    <3>1. queue[e] # <<>> /\ Len(queue[e]) = UsbMaxQlen
      BY <1>1, <1>3, <2>1, UsbAssumption DEF Full, Counted
    <3>2. Dequeue(e)[e] \in Seq(Bufs) /\ Len(Dequeue(e)[e]) = UsbMaxQlen - 1
          /\ Uncount(e)[e] = UsbMaxQlen - 1
      BY <1>3, <3>1, DequeueCounted
    <3> QED  BY <2>1, <3>2, UsbAssumption
  <2>2. CASE ~Full(e)
    BY <1>1, <1>3, <2>2, UsbAssumption DEF Full, Counted
  <2> QED  BY <2>1, <2>2
<1> HIDE DEF q, n
<1>4. ASSUME Counted(e) PROVE Counted(e)'
  <2>1. (n + 1) % QlenMod = n + 1 /\ Len(Append(q, b)) = n + 1
    BY <1>3, <1>4, CountUp
  <2>2. qlen'[e] = n + 1 /\ queue'[e] = Append(q, b)
    BY <1>1, <1>2, <2>1 DEF IInv, TypeOK
  <2> QED  BY <1>3, <1>4, <2>1, <2>2, UsbAssumption DEF Counted
<1>5. ASSUME NEW d \in InEps, d # e
      PROVE  queue'[d] = queue[d] /\ qlen'[d] = qlen[d]
  BY <1>2, <1>5 DEF IInv, TypeOK, Ep
<1> QED  BY <1>4, <1>5 DEF QueuesBounded, Counted

LEMMA CountNext ==
  ASSUME IInv, QueuesBounded, [Next]_vars
  PROVE  QueuesBounded'
<1>1. CASE UNCHANGED <<queue, qlen, refused>>
  BY <1>1 DEF QueuesBounded, Counted
<1>2. CASE DropOldest
  <2>1. cur.ep \in InEps /\ queue[cur.ep] # <<>>
    BY <1>2 DEF DropOldest, IInv, MainHolds
  <2>2. queue' = Dequeue(cur.ep) /\ qlen' = Uncount(cur.ep) /\ refused' = refused
    BY <1>2 DEF DropOldest, history
  <2> QED  BY <2>1, <2>2, TakenCounted
<1>3. CASE SubmitNow
  BY <1>3, SubmitCounted DEF SubmitNow, IInv, MainHolds, history
<1>4. CASE FlushRx
  BY <1>4, SubmitCounted DEF FlushRx, IInv, TypeOK, InEps, history
<1>5. ASSUME NEW e \in InEps, RefillTake(e) PROVE QueuesBounded'
  <2>1. queue[e] # <<>> /\ queue' = Dequeue(e) /\ qlen' = Uncount(e) /\ refused' = refused
    BY <1>5 DEF RefillTake, history
  <2> QED  BY <2>1, TakenCounted
<1>6. CASE WriteLocked
  <2>1. cur.ep \in InEps
    BY <1>6 DEF WriteLocked, IInv, MainHolds
  <2>2. refused'[cur.ep] /\ qlen' = qlen
        /\ \A d \in InEps : d # cur.ep => refused'[d] = refused[d] /\ queue'[d] = queue[d]
    BY <1>6, <2>1 DEF WriteLocked, IInv, TypeOK, Ep
  <2> QED  BY <2>1, <2>2 DEF QueuesBounded, Counted
<1>7. CASE CmdTake
  <2>1. qlen' = qlen /\ refused' = refused /\ \A d \in InEps : queue'[d] = queue[d]
    BY <1>7, UsbAssumption DEF CmdTake, Dequeue, IInv, TypeOK, Ep, InEps, history
  <2> QED  BY <2>1 DEF QueuesBounded, Counted
<1>8. CASE RxDone
  <2>1. qlen' = qlen /\ refused' = refused /\ \A d \in InEps : queue'[d] = queue[d]
    BY <1>8, UsbAssumption DEF RxDone, IInv, TypeOK, Ep, InEps, history
  <2> QED  BY <2>1 DEF QueuesBounded, Counted
<1> QED
  BY <1>1, <1>2, <1>3, <1>4, <1>5, <1>6, <1>7, <1>8
     DEF Next, ToHost, FromHost, UsbIrq, vars, pool, history, WantMsg, AllocOk, AllocFails,
         KeepForReader, WriteOk, RefillFromHost, CmdKeep, CmdFree, SegmentAlloc,
         SegmentKeep, SegmentFree, AnswerSent, HandleReset, TxDone, SetHalt, ClearHalt,
         SetConfiguration

\* As long as USBD_Write has refused no message of an endpoint, queue_len is the length
\* of its queue (usb_buf.h), for every limit and every width of the counter.
THEOREM CountCorrect == Spec => []QueueLenIsLength
<1>1. Init => QueuesBounded
  BY UsbAssumption DEF Init, QueuesBounded, Counted, Ep
<1>2. IInv /\ QueuesBounded /\ [Next]_vars => QueuesBounded'
  BY CountNext
<1>3. QueuesBounded => QueueLenIsLength
  BY DEF QueuesBounded, Counted, QueueLenIsLength
<1> QED  BY <1>1, <1>2, <1>3, Invariance, PTL DEF Spec

-----------------------------------------------------------------------------
(* Every buffer in use has one owner.                                       *)

\* The sets F[p], p in D, are disjoint and u is their union.
Partition(F, D, u) ==
  /\ u = UNION {F[p] : p \in D}
  /\ \A p, q \in D : p # q => F[p] \cap F[q] = {}

\* Adding a new element to one of the sets.
LEMMA TakeKeeps ==
  ASSUME NEW D, NEW F, NEW G, NEW u, Partition(F, D, u),
         NEW q \in D, NEW b, b \notin u,
         G[q] = F[q] \cup {b}, \A r \in D : r # q => G[r] = F[r]
  PROVE  Partition(G, D, u \cup {b})
<1>1. \A r \in D : b \notin F[r]
  BY DEF Partition
<1>2. \A r, s \in D : r # s => G[r] \cap G[s] = {}
  BY <1>1 DEF Partition
<1>3. u \cup {b} = UNION {G[p] : p \in D}
  BY DEF Partition
<1> QED  BY <1>2, <1>3 DEF Partition

\* Removing elements wherever they are.
LEMMA DropKeeps ==
  ASSUME NEW D, NEW F, NEW G, NEW u, Partition(F, D, u),
         NEW L, \A r \in D : G[r] = F[r] \ L
  PROVE  Partition(G, D, u \ L)
<1>2. \A r, s \in D : r # s => G[r] \cap G[s] = {}
  BY DEF Partition
<1>3. u \ L = UNION {G[p] : p \in D}
  BY DEF Partition
<1> QED  BY <1>2, <1>3 DEF Partition

\* Moving an element to another set, which may lose some of its own.
LEMMA MoveKeeps ==
  ASSUME NEW D, NEW F, NEW G, NEW u, Partition(F, D, u),
         NEW p \in D, NEW q \in D, p # q, NEW b \in F[p], NEW L \in SUBSET F[q],
         G[p] = F[p] \ {b}, G[q] = (F[q] \ L) \cup {b},
         \A r \in D : r # p /\ r # q => G[r] = F[r]
  PROVE  Partition(G, D, u \ L)
<1>1. \A r \in D : r # p => b \notin F[r]
  BY DEF Partition
<1>2. \A r \in D : r # q => F[r] \cap L = {}
  BY DEF Partition
<1>3. \A r, s \in D : r # s => G[r] \cap G[s] = {}
  BY <1>1 DEF Partition
<1>4. \A x : x \in u \ L <=> \E r \in D : x \in G[r]
  BY <1>1, <1>2 DEF Partition
<1>5. u \ L = UNION {G[r] : r \in D}
  BY <1>4
<1> QED  BY <1>3, <1>5 DEF Partition

\* The elements of a queue, and that it has no duplicates.
Elems(q) == {q[i] : i \in DOMAIN q}
Distinct(q) == \A i, j \in DOMAIN q : i # j => q[i] # q[j]

\* A queue without duplicates after its head left.
LEMMA TailDistinct ==
  ASSUME NEW S, NEW q \in Seq(S), q # <<>>, Distinct(q)
  PROVE  /\ Distinct(Tail(q)) /\ Elems(Tail(q)) = Elems(q) \ {Head(q)}
         /\ Head(q) \in Elems(q)
<1>1. Len(q) \in Nat \ {0} /\ DOMAIN q = 1..Len(q) /\ Head(q) = q[1]
  OBVIOUS
<1>2. /\ Len(Tail(q)) = Len(q) - 1 /\ DOMAIN Tail(q) = 1..(Len(q) - 1)
      /\ \A i \in 1..(Len(q) - 1) : Tail(q)[i] = q[i + 1]
  OBVIOUS
<1>3. Distinct(Tail(q))
  BY <1>1, <1>2 DEF Distinct
<1>4. \A x : x \in Elems(Tail(q)) <=> \E i \in 1..(Len(q) - 1) : x = q[i + 1]
  BY <1>2 DEF Elems
<1>5. \A x : x \in Elems(q) \ {Head(q)} <=> \E i \in 2..Len(q) : x = q[i]
  BY <1>1 DEF Elems, Distinct
<1>6. \A x : (\E i \in 1..(Len(q) - 1) : x = q[i + 1]) <=> (\E i \in 2..Len(q) : x = q[i])
  <2> TAKE x
  <2>1. ASSUME NEW i \in 2..Len(q), x = q[i] PROVE \E j \in 1..(Len(q) - 1) : x = q[j + 1]
    <3>1. i - 1 \in 1..(Len(q) - 1) /\ x = q[(i - 1) + 1]
      BY <1>1, <2>1
    <3> QED  BY <3>1
  <2>2. ASSUME NEW i \in 1..(Len(q) - 1), x = q[i + 1] PROVE \E j \in 2..Len(q) : x = q[j]
    BY <1>1, <2>2
  <2> QED  BY <2>1, <2>2
<1>7. Elems(Tail(q)) = Elems(q) \ {Head(q)}
  BY <1>4, <1>5, <1>6
<1>8. Head(q) \in Elems(q)
  <2>1. 1 \in DOMAIN q
    BY <1>1
  <2> QED  BY <1>1, <2>1 DEF Elems
<1> QED  BY <1>3, <1>7, <1>8

\* A queue without duplicates after a new message joined at the end.
LEMMA AppendDistinct ==
  ASSUME NEW S, NEW q \in Seq(S), NEW b \in S, Distinct(q), b \notin Elems(q)
  PROVE  Distinct(Append(q, b)) /\ Elems(Append(q, b)) = Elems(q) \cup {b}
<1>1. /\ DOMAIN q = 1..Len(q) /\ Len(q) \in Nat /\ DOMAIN Append(q, b) = 1..(Len(q) + 1)
      /\ \A i \in 1..Len(q) : Append(q, b)[i] = q[i]
      /\ Append(q, b)[Len(q) + 1] = b
  OBVIOUS
<1>2. Distinct(Append(q, b))
  BY <1>1 DEF Distinct, Elems
<1>3. \A x : x \in Elems(Append(q, b)) <=> x \in Elems(q) \cup {b}
  BY <1>1 DEF Elems
<1> QED  BY <1>2, <1>3

\* A queue without duplicates after a new message joined at the head.
LEMMA PrependDistinct ==
  ASSUME NEW S, NEW q \in Seq(S), NEW b \in S, Distinct(q), b \notin Elems(q)
  PROVE  Distinct(<<b>> \o q) /\ Elems(<<b>> \o q) = {b} \cup Elems(q)
<1>1. /\ DOMAIN q = 1..Len(q) /\ Len(q) \in Nat /\ DOMAIN (<<b>> \o q) = 1..(Len(q) + 1)
      /\ (<<b>> \o q)[1] = b
      /\ \A i \in 2..(Len(q) + 1) : (<<b>> \o q)[i] = q[i - 1]
  OBVIOUS
<1>2. Distinct(<<b>> \o q)
  BY <1>1 DEF Distinct, Elems
<1>3. ASSUME NEW i \in 1..Len(q) PROVE q[i] \in Elems(<<b>> \o q)
  <2>1. i + 1 \in DOMAIN (<<b>> \o q) /\ (<<b>> \o q)[i + 1] = q[i]
    BY <1>1
  <2> QED  BY <2>1 DEF Elems
<1>4. \A x : x \in Elems(<<b>> \o q) => x \in {b} \cup Elems(q)
  BY <1>1 DEF Elems
<1>5. \A x : x \in {b} \cup Elems(q) => x \in Elems(<<b>> \o q)
  BY <1>1, <1>3 DEF Elems
<1> QED  BY <1>2, <1>4, <1>5

\* What every place holds.
Hold == [p \in Place |-> Held(p)]

\* The places, one by one.
LEMMA PlaceIs ==
  ASSUME NEW p \in Place
  PROVE  \/ \E e \in Ep : p = <<"queue", e>>
         \/ \E e \in Ep : p = <<"transfer", e>>
         \/ p \in {<<"card", "rx">>, <<"card", "tx">>, <<"command", "message">>,
                   <<"command", "segment">>, <<"main", "loop">>}
BY DEF Place

\* Each of them is a place.
LEMMA PlacesAre ==
  /\ \A e \in Ep : <<"queue", e>> \in Place /\ <<"transfer", e>> \in Place
  /\ {<<"card", "rx">>, <<"card", "tx">>, <<"command", "message">>,
                   <<"command", "segment">>, <<"main", "loop">>} \subseteq Place
BY DEF Place

\* What each place holds, in this state and in the next.
LEMMA HoldIs ==
  /\ \A e \in Ep : Hold[<<"queue", e>>] = Queued(e) /\ Hold[<<"transfer", e>>] = {xfer[e].msg} \ {NoBuf}
  /\ Hold[<<"card", "rx">>] = {rxMsg} \ {NoBuf}
  /\ Hold[<<"card", "tx">>] = txMsgs
  /\ Hold[<<"command", "message">>] = {cmd.msg} \ {NoBuf}
  /\ Hold[<<"command", "segment">>] = {cmd.segm} \ {NoBuf}
  /\ Hold[<<"main", "loop">>] = {cur.msg} \ {NoBuf}
BY PlacesAre DEF Hold, Held

LEMMA HoldNext ==
  /\ \A e \in Ep : Hold'[<<"queue", e>>] = Queued(e)' /\ Hold'[<<"transfer", e>>] = {xfer'[e].msg} \ {NoBuf}
  /\ Hold'[<<"card", "rx">>] = {rxMsg'} \ {NoBuf}
  /\ Hold'[<<"card", "tx">>] = txMsgs'
  /\ Hold'[<<"command", "message">>] = {cmd'.msg} \ {NoBuf}
  /\ Hold'[<<"command", "segment">>] = {cmd'.segm} \ {NoBuf}
  /\ Hold'[<<"main", "loop">>] = {cur'.msg} \ {NoBuf}
BY PlacesAre DEF Hold, Held

\* No queue holds a message twice.
QueuesDistinct == \A e \in Ep : Distinct(queue[e])

\* What holds no buffer names none: no stale pointer is taken for an owner.
Clean ==
  /\ pc \notin {"fill", "write"} => cur.msg = NoBuf
  /\ pc = "write" => xfer[cur.ep].msg = NoBuf
  /\ \A e \in Ep : xfer[e].inProgress = 0 => xfer[e].msg = NoBuf
  /\ ~cmd.slow => cmd.segm = NoBuf

\* The inductive invariant of ownership.
Own == IInv /\ Clean /\ QueuesDistinct /\ Partition(Hold, Place, inUse)

\* The messages of a queue, in this state and in the next.
LEMMA QueuedIs == \A e \in Ep : Queued(e) = Elems(queue[e])
BY DEF Queued, Elems

LEMMA QueuedNext == \A e \in Ep : Queued(e)' = Elems(queue'[e])
BY DEF Queued, Elems

\* The invariant implies the property.
LEMMA OwnIs == Own => OneOwner
<1> SUFFICES ASSUME Own PROVE OneOwner
  OBVIOUS
<1>1. \A p \in Place : Hold[p] = Held(p)
  BY DEF Hold
<1>2. \A p \in Place : Held(p) \subseteq inUse
  BY <1>1 DEF Own, Partition
<1>3. ASSUME NEW b \in inUse
      PROVE  \E p \in Place : b \in Held(p) /\ \A q \in Place \ {p} : b \notin Held(q)
  <2>1. PICK p \in Place : b \in Hold[p]
    BY DEF Own, Partition
  <2>2. \A q \in Place \ {p} : b \notin Hold[q]
    BY <2>1 DEF Own, Partition
  <2> QED  BY <1>1, <2>1, <2>2
<1>4. \A e \in Ep : \A i, j \in DOMAIN queue[e] : i # j => queue[e][i] # queue[e][j]
  BY DEF Own, QueuesDistinct, Distinct
<1> QED  BY <1>2, <1>3, <1>4 DEF OneOwner

\* What a place holds is in use.
LEMMA HoldInUse ==
  ASSUME Own, NEW p \in Place, NEW b \in Hold[p]
  PROVE  b \in inUse /\ \A q \in Place : q # p => b \notin Hold[q]
BY DEF Own, Partition

\* A place whose part of the state is unchanged holds what it held.
LEMMA QueueSame ==
  ASSUME NEW e \in Ep, queue'[e] = queue[e]
  PROVE  Hold'[<<"queue", e>>] = Hold[<<"queue", e>>]
<1>1. Hold[<<"queue", e>>] = Elems(queue[e])
  BY HoldIs, QueuedIs
<1>2. Hold'[<<"queue", e>>] = Elems(queue'[e])
  BY HoldNext, QueuedNext
<1> QED  BY <1>1, <1>2

LEMMA TransferSame ==
  ASSUME NEW e \in Ep, xfer'[e].msg = xfer[e].msg
  PROVE  Hold'[<<"transfer", e>>] = Hold[<<"transfer", e>>]
<1>1. Hold[<<"transfer", e>>] = {xfer[e].msg} \ {NoBuf}
  BY HoldIs
<1>2. Hold'[<<"transfer", e>>] = {xfer'[e].msg} \ {NoBuf}
  BY HoldNext
<1> QED  BY <1>1, <1>2

\* The places whose contents a step does not touch.
LEMMA OthersSame ==
  ASSUME NEW p \in Place,
         \A e \in Ep : p = <<"queue", e>> => queue'[e] = queue[e],
         \A e \in Ep : p = <<"transfer", e>> => xfer'[e].msg = xfer[e].msg,
         p = <<"card", "rx">> => rxMsg' = rxMsg,
         p = <<"card", "tx">> => txMsgs' = txMsgs,
         p = <<"command", "message">> => cmd'.msg = cmd.msg,
         p = <<"command", "segment">> => cmd'.segm = cmd.segm,
         p = <<"main", "loop">> => cur'.msg = cur.msg
  PROVE  Hold'[p] = Hold[p]
<1>1. ASSUME NEW e \in Ep, p = <<"queue", e>> PROVE Hold'[p] = Hold[p]
  <2>1. queue'[e] = queue[e]
    BY <1>1
  <2>2. Hold'[<<"queue", e>>] = Hold[<<"queue", e>>]
    BY <2>1, QueueSame
  <2> QED  BY <1>1, <2>2
<1>2. ASSUME NEW e \in Ep, p = <<"transfer", e>> PROVE Hold'[p] = Hold[p]
  <2>1. xfer'[e].msg = xfer[e].msg
    BY <1>2
  <2>2. Hold'[<<"transfer", e>>] = Hold[<<"transfer", e>>]
    BY <2>1, TransferSame
  <2> QED  BY <1>2, <2>2
<1>3. CASE p \in {<<"card", "rx">>, <<"card", "tx">>, <<"command", "message">>,
                   <<"command", "segment">>, <<"main", "loop">>}
  BY <1>3, HoldIs, HoldNext
<1> QED  BY <1>1, <1>2, <1>3, PlaceIs

\* A step that moves no buffer keeps the partition.
LEMMA SameKeeps ==
  ASSUME Own, queue' = queue, \A e \in Ep : xfer'[e].msg = xfer[e].msg,
         rxMsg' = rxMsg, txMsgs' = txMsgs, cmd'.msg = cmd.msg, cmd'.segm = cmd.segm,
         cur'.msg = cur.msg, inUse' = inUse
  PROVE  Partition(Hold, Place, inUse)'
<1>1. \A p \in Place : Hold'[p] = Hold[p] \ {}
  BY OthersSame
<1>2. inUse' = inUse \ {}
  OBVIOUS
<1>3. Partition(Hold', Place, inUse \ {})
  BY <1>1, DropKeeps DEF Own
<1> QED  BY <1>2, <1>3 DEF Partition, Place, Ep, InEps

\* So does one that releases buffers of one place,
LEMMA DroppedKeeps ==
  ASSUME Own, NEW p \in Place, NEW L \in SUBSET Hold[p], inUse' = inUse \ L,
         Hold'[p] = Hold[p] \ L, \A r \in Place : r # p => Hold'[r] = Hold[r]
  PROVE  Partition(Hold, Place, inUse)'
<1>1. \A r \in Place : Hold'[r] = Hold[r] \ L
  BY DEF Own, Partition
<1>2. Partition(Hold', Place, inUse \ L)
  BY <1>1, DropKeeps DEF Own
<1> QED  BY <1>2 DEF Partition, Place, Ep, InEps

\* one that takes a free buffer,
LEMMA TakenKeeps ==
  ASSUME Own, NEW q \in Place, NEW b, b \notin inUse, inUse' = inUse \cup {b},
         Hold'[q] = Hold[q] \cup {b}, \A r \in Place : r # q => Hold'[r] = Hold[r]
  PROVE  Partition(Hold, Place, inUse)'
<1>2. Partition(Hold', Place, inUse \cup {b})
  BY TakeKeeps DEF Own
<1> QED  BY <1>2 DEF Partition, Place, Ep, InEps

\* one that moves a buffer to a place that may lose some of its own,
LEMMA MovedKeeps ==
  ASSUME Own, NEW p \in Place, NEW q \in Place, p # q, NEW b \in Hold[p],
         NEW L \in SUBSET Hold[q], inUse' = inUse \ L,
         Hold'[p] = Hold[p] \ {b}, Hold'[q] = (Hold[q] \ L) \cup {b},
         \A r \in Place : r # p /\ r # q => Hold'[r] = Hold[r]
  PROVE  Partition(Hold, Place, inUse)'
<1>2. Partition(Hold', Place, inUse \ L)
  BY MoveKeeps, SMTT(30) DEF Own
<1> QED  BY <1>2 DEF Partition, Place, Ep, InEps

\* usb_buf_submit: the queue gets a message from elsewhere and may lose its head.
LEMMA SubmitMoves ==
  ASSUME Own, NEW e \in InEps, NEW b \in Bufs, b \notin Queued(e), Submit(e, b)
  PROVE  /\ Evicted(e) \in SUBSET Hold[<<"queue", e>>] /\ inUse' = inUse \ Evicted(e)
         /\ Hold'[<<"queue", e>>] = (Hold[<<"queue", e>>] \ Evicted(e)) \cup {b}
         /\ Distinct(queue'[e])
         /\ \A d \in Ep : d # e => queue'[d] = queue[d]
<1> DEFINE q == IF Full(e) THEN Dequeue(e)[e] ELSE queue[e]
<1>1. e \in Ep /\ queue[e] \in Seq(Bufs) /\ Distinct(queue[e]) /\ Queued(e) = Elems(queue[e])
  BY QueuedIs DEF Ep, Own, IInv, TypeOK, QueuesDistinct
<1>2. queue' = [queue EXCEPT ![e] = Append(q, b)]
  BY DEF Submit
<1>3. /\ q \in Seq(Bufs) /\ Distinct(q) /\ Elems(q) = Elems(queue[e]) \ Evicted(e)
      /\ Evicted(e) \subseteq Elems(queue[e])
  <2>1. CASE Full(e) /\ queue[e] # <<>>
    <3>1. q = Tail(queue[e]) /\ Evicted(e) = {Head(queue[e])}
      BY <1>1, <2>1, DequeueIs DEF Own, Evicted
    <3>2. /\ Distinct(Tail(queue[e])) /\ Elems(Tail(queue[e])) = Elems(queue[e]) \ {Head(queue[e])}
          /\ Head(queue[e]) \in Elems(queue[e])
      BY <1>1, <2>1, TailDistinct
    <3>3. Tail(queue[e]) \in Seq(Bufs)
      BY <1>1, <2>1
    <3> HIDE DEF q
    <3> QED  BY <3>1, <3>2, <3>3
  <2>2. CASE ~(Full(e) /\ queue[e] # <<>>)
    <3>1. q = queue[e] /\ Evicted(e) = {}
      BY <1>1, <2>2, DequeueIs DEF Own, Evicted
    <3> QED  BY <1>1, <3>1
  <2> QED  BY <2>1, <2>2
<1>4. queue'[e] = Append(q, b) /\ \A d \in Ep : d # e => queue'[d] = queue[d]
  BY <1>1, <1>2 DEF Own, IInv, TypeOK
<1> HIDE DEF q
<1>5. b \notin Elems(q)
  BY <1>1, <1>3
<1>6. Distinct(Append(q, b)) /\ Elems(Append(q, b)) = Elems(q) \cup {b}
  BY <1>3, <1>5, AppendDistinct
<1>7. Hold[<<"queue", e>>] = Elems(queue[e]) /\ Hold'[<<"queue", e>>] = Elems(queue'[e])
  BY <1>1, HoldIs, HoldNext, QueuedIs, QueuedNext
<1> QED  BY <1>1, <1>3, <1>4, <1>6, <1>7 DEF Submit

\* msgb_dequeue_count: the queue loses its head.
LEMMA DequeueMoves ==
  ASSUME Own, NEW e \in Ep, queue[e] # <<>>, queue' = Dequeue(e)
  PROVE  /\ Head(queue[e]) \in Hold[<<"queue", e>>] /\ Head(queue[e]) \in Bufs
         /\ Hold'[<<"queue", e>>] = Hold[<<"queue", e>>] \ {Head(queue[e])}
         /\ Distinct(queue'[e])
         /\ \A d \in Ep : d # e => queue'[d] = queue[d]
<1>1. queue[e] \in Seq(Bufs) /\ Distinct(queue[e])
  BY DEF Own, IInv, TypeOK, QueuesDistinct
<1>2. queue'[e] = Tail(queue[e]) /\ \A d \in Ep : d # e => queue'[d] = queue[d]
  BY DEF Dequeue, Own, IInv, TypeOK
<1>3. Hold[<<"queue", e>>] = Elems(queue[e]) /\ Hold'[<<"queue", e>>] = Elems(queue'[e])
  BY HoldIs, HoldNext, QueuedIs, QueuedNext
<1>4. /\ Distinct(Tail(queue[e])) /\ Elems(Tail(queue[e])) = Elems(queue[e]) \ {Head(queue[e])}
      /\ Head(queue[e]) \in Elems(queue[e])
  BY <1>1, TailDistinct
<1> QED  BY <1>1, <1>2, <1>3, <1>4

\* Aborted transfers: what they held is released, unless they wait for a zero-length
\* packet.
LEMMA AbortDrops ==
  ASSUME Own, NEW es \in SUBSET Ep, NEW s \in {"IDLE", "HALTED"}, Abort(es, s)
  PROVE  \E L : /\ inUse' = inUse \ L /\ \A p \in Place : p[1] # "transfer" => Hold[p] \cap L = {}
                /\ \A e \in Ep :
                     /\ {xfer'[e].msg} \ {NoBuf} = ({xfer[e].msg} \ {NoBuf}) \ L
                     /\ xfer'[e].inProgress = 0 => xfer'[e].msg = NoBuf
                     /\ xfer[e].state # "BUSY" => xfer'[e].msg = xfer[e].msg
<1> DEFINE busy == {e \in es : xfer[e].state = "BUSY"}
<1>1. PICK one \in [Ep -> BOOLEAN] :
        /\ xfer' = [e \in Ep |->
             CASE e \in busy -> [WriteEnded(xfer[e], one[e], FALSE) EXCEPT !.state = s]
               [] e \in es \ busy -> [xfer[e] EXCEPT !.state = s]
               [] e \notin es -> xfer[e]]
        /\ inUse' = inUse \ {xfer[e].msg : e \in {d \in busy : ~NeedsZlp(xfer[d], one[d])}}
  BY DEF Abort
<1> DEFINE gone == {d \in busy : ~NeedsZlp(xfer[d], one[d])}
           L == {xfer[e].msg : e \in gone}
<1>2. ASSUME NEW e \in Ep
      PROVE  /\ xfer[e] \in Xfer
             /\ xfer[e].state = "BUSY" => xfer[e].inProgress = 1 /\ xfer[e].msg \in Bufs
             /\ xfer[e].inProgress = 0 => xfer[e].msg = NoBuf
             /\ Hold[<<"transfer", e>>] = {xfer[e].msg} \ {NoBuf}
             /\ <<"transfer", e>> \in Place
  BY HoldIs, PlacesAre DEF Own, IInv, TypeOK, TransferHolds, Clean
<1>3. ASSUME NEW e \in gone
      PROVE  /\ e \in Ep /\ xfer'[e].msg = NoBuf /\ xfer[e].msg \in Bufs /\ xfer[e].msg \in L
             /\ xfer[e].state = "BUSY"
  <2>1. e \in Ep /\ e \in busy /\ xfer[e].inProgress = 1 /\ xfer[e].msg \in Bufs
    BY <1>2
  <2>2. WriteEnded(xfer[e], one[e], FALSE) = Quiet
    BY <1>2, <2>1, WriteEndedQuiet
  <2>3. xfer'[e] = [Quiet EXCEPT !.state = s]
    BY <1>1, <2>1, <2>2
  <2> QED  BY <2>1, <2>3 DEF Quiet
<1>4. ASSUME NEW e \in Ep, e \notin gone
      PROVE  xfer'[e].msg = xfer[e].msg /\ xfer'[e].inProgress = xfer[e].inProgress
  <2>1. CASE e \in busy
    <3>1. NeedsZlp(xfer[e], one[e])
      BY <1>4, <2>1
    <3>2. WriteEnded(xfer[e], one[e], FALSE) = [xfer[e] EXCEPT !.zlp = TRUE]
      BY <3>1 DEF WriteEnded
    <3>3. xfer'[e] = [[xfer[e] EXCEPT !.zlp = TRUE] EXCEPT !.state = s]
      BY <1>1, <2>1, <3>2
    <3> QED  BY <1>2, <3>3 DEF Xfer
  <2>2. CASE e \in es \ busy
    <3>1. xfer'[e] = [xfer[e] EXCEPT !.state = s]
      BY <1>1, <2>2
    <3> QED  BY <1>2, <3>1 DEF Xfer
  <2>3. CASE e \notin es
    BY <1>1, <2>3
  <2> QED  BY <2>1, <2>2, <2>3
<1>5. ASSUME NEW e \in Ep, e \notin gone PROVE ({xfer[e].msg} \ {NoBuf}) \cap L = {}
  <2> SUFFICES ASSUME NEW d \in gone, xfer[d].msg = xfer[e].msg, xfer[e].msg # NoBuf
               PROVE  FALSE
    OBVIOUS
  <2>1. d \in Ep /\ d # e /\ xfer[d].msg \in Bufs
    BY <1>3, <1>5
  <2>2. xfer[e].msg \in Hold[<<"transfer", e>>] /\ xfer[d].msg \in Hold[<<"transfer", d>>]
    BY <1>2, <2>1, UsbAssumption
  <2>3. <<"transfer", e>> # <<"transfer", d>>
    BY <2>1
  <2> QED  BY <1>2, <2>1, <2>2, <2>3, HoldInUse
<1>6. ASSUME NEW p \in Place, p[1] # "transfer" PROVE Hold[p] \cap L = {}
  <2> SUFFICES ASSUME NEW d \in gone, xfer[d].msg \in Hold[p] PROVE FALSE
    OBVIOUS
  <2>1. d \in Ep /\ xfer[d].msg \in Bufs
    BY <1>3
  <2>2. xfer[d].msg \in Hold[<<"transfer", d>>] /\ <<"transfer", d>> \in Place
    BY <1>2, <2>1, UsbAssumption
  <2>3. p # <<"transfer", d>>
    BY <1>6
  <2> QED  BY <2>2, <2>3, HoldInUse
<1>7. inUse' = inUse \ L
  BY <1>1
<1>8. ASSUME NEW e \in Ep
      PROVE  /\ {xfer'[e].msg} \ {NoBuf} = ({xfer[e].msg} \ {NoBuf}) \ L
             /\ xfer'[e].inProgress = 0 => xfer'[e].msg = NoBuf
             /\ xfer[e].state # "BUSY" => xfer'[e].msg = xfer[e].msg
  <2> HIDE DEF gone, L, busy
  <2>1. CASE e \in gone
    BY <1>3, <2>1
  <2>2. CASE e \notin gone
    BY <1>2, <1>4, <1>5, <2>2
  <2> QED  BY <2>1, <2>2
<1> HIDE DEF L
<1> QED  BY <1>6, <1>7, <1>8

\* No step leaves a stale pointer.
LEMMA CleanNext ==
  ASSUME Own, [Next]_vars
  PROVE  Clean'
<1> USE UsbAssumption DEF Ep, InEps
<1> USE DEF Own, Clean
<1>1. ASSUME NEW e \in InEps, WantMsg(e) PROVE Clean'
  BY <1>1 DEF WantMsg, holders
<1>2. ASSUME NEW b \in Bufs, AllocOk(b) PROVE Clean'
  BY <1>2 DEF AllocOk, holders
<1>3. CASE AllocFails
  BY <1>3 DEF AllocFails, holders, NoWork
<1>4. CASE DropOldest
  BY <1>4 DEF DropOldest, holders
<1>5. CASE KeepForReader
  BY <1>5 DEF KeepForReader, NoWork
<1>6. CASE SubmitNow
  BY <1>6 DEF SubmitNow, holders, NoWork
<1>7. CASE FlushRx
  BY <1>7 DEF FlushRx, main
<1>8. ASSUME NEW e \in InEps, RefillTake(e) PROVE Clean'
  <2>1. xfer[e] \in Xfer /\ xfer[e].inProgress = 0 /\ xfer[e].msg = NoBuf
    BY <1>8 DEF RefillTake, IInv, TypeOK
  <2>2. xfer' = [xfer EXCEPT ![e] = [xfer[e] EXCEPT !.inProgress = 1]]
    BY <1>8, <2>1 DEF RefillTake, IInv, TypeOK
  <2>3. xfer'[e].msg = NoBuf /\ \A d \in Ep : d # e => xfer'[d] = xfer[d]
    BY <2>1, <2>2 DEF IInv, TypeOK, Xfer
  <2> QED  BY <1>8, <2>3 DEF RefillTake, holders
<1>9. CASE WriteOk
  <2>1. /\ cur.ep \in InEps /\ xfer[cur.ep] \in Xfer /\ xfer[cur.ep].inProgress = 1
    BY <1>9 DEF WriteOk, IInv, TypeOK, MainHolds
  <2>2. PICK z \in Sizes :
          xfer' = [xfer EXCEPT ![cur.ep].state = "BUSY", ![cur.ep].msg = cur.msg,
                               ![cur.ep].size = z]
    BY <1>9 DEF WriteOk
  <2>3. xfer'[cur.ep].inProgress = 1 /\ \A d \in Ep : d # cur.ep => xfer'[d] = xfer[d]
    BY <2>1, <2>2 DEF IInv, TypeOK, Xfer
  <2>4. pc' = "idle" /\ cur'.msg = NoBuf /\ cmd' = cmd
    BY <1>9 DEF WriteOk, NoWork, holders
  <2>5. \A e \in Ep : xfer'[e].inProgress = 0 => xfer'[e].msg = NoBuf
    BY <2>1, <2>3
  <2> QED  BY <2>4, <2>5
<1>10. CASE WriteLocked
  <2>1. /\ cur.ep \in InEps /\ xfer[cur.ep] \in Xfer /\ xfer[cur.ep].msg = NoBuf
    BY <1>10 DEF WriteLocked, IInv, TypeOK, MainHolds
  <2>2. xfer' = [xfer EXCEPT ![cur.ep].inProgress = @ - 1]
    BY <1>10 DEF WriteLocked
  <2>3. xfer'[cur.ep].msg = NoBuf /\ \A d \in Ep : d # cur.ep => xfer'[d] = xfer[d]
    BY <2>1, <2>2 DEF IInv, TypeOK, Xfer
  <2> QED  BY <1>10, <2>3 DEF WriteLocked, NoWork, holders
<1>11. ASSUME NEW b \in Bufs, RefillFromHost(b) PROVE Clean'
  <2>1. xfer[OutEp] \in Xfer
    BY DEF IInv, TypeOK
  <2>2. xfer'[OutEp].inProgress = 1 /\ \A d \in Ep : d # OutEp => xfer'[d] = xfer[d]
    BY <1>11, <2>1 DEF RefillFromHost, IInv, TypeOK, Xfer
  <2> QED  BY <1>11, <2>2 DEF RefillFromHost, holders, main
<1>12. CASE CmdTake
  BY <1>12 DEF CmdTake, main
<1>13. CASE CmdKeep
  BY <1>13 DEF CmdKeep, main, NoCmd
<1>14. CASE CmdFree
  BY <1>14 DEF CmdFree, main, NoCmd
<1>15. ASSUME NEW b \in Bufs, SegmentAlloc(b) PROVE Clean'
  BY <1>15 DEF SegmentAlloc, main, IInv, TypeOK
<1>16. CASE SegmentKeep
  BY <1>16 DEF SegmentKeep, main, IInv, TypeOK
<1>17. CASE SegmentFree
  BY <1>17 DEF SegmentFree, main, IInv, TypeOK
<1>18. ASSUME NEW b \in Bufs, AnswerSent(b) PROVE Clean'
  BY <1>18 DEF AnswerSent, main
<1>19. CASE HandleReset
  BY <1>19 DEF HandleReset, main
<1>20. ASSUME NEW e \in InEps, TxDone(e) PROVE Clean'
  <2>1. /\ xfer[e] \in Xfer /\ xfer[e].state = "BUSY" /\ xfer[e].inProgress = 1
    BY <1>20 DEF TxDone, IInv, TypeOK, TransferHolds
  <2>2. PICK one \in BOOLEAN : one = (xfer[e].size = "one")
    OBVIOUS
  <2> DEFINE y == WriteEnded(xfer[e], one, TRUE)
  <2>3. xfer' = [xfer EXCEPT ![e] = y]
    BY <1>20, <2>2 DEF TxDone
  <2>4. y.inProgress = 0 => y.msg = NoBuf
    <3>1. NeedsZlp(xfer[e], one) => y \in {z \in Xfer : /\ z.inProgress = xfer[e].inProgress
                                               /\ z.msg = xfer[e].msg /\ z.state = xfer[e].state}
      BY <2>1, WriteEndedZlp
    <3>2. ~NeedsZlp(xfer[e], one) => y = Quiet
      BY <2>1, WriteEndedQuiet
    <3>3. Quiet.msg = NoBuf
      BY DEF Quiet
    <3> HIDE DEF y
    <3> QED  BY <2>1, <3>1, <3>2, <3>3
  <2> HIDE DEF y
  <2>5. xfer'[e] = y /\ \A d \in Ep : d # e => xfer'[d] = xfer[d]
    BY <2>3 DEF IInv, TypeOK
  <2>6. pc = "write" => cur.ep # e
    BY <2>1 DEF IInv, MainHolds
  <2>7. pc = "write" => cur.ep \in Ep
    BY DEF IInv, MainHolds
  <2> QED  BY <1>20, <2>4, <2>5, <2>6, <2>7, ZenonT(60) DEF TxDone, holders, main
<1>21. CASE RxDone
  <2>1. xfer' = [xfer EXCEPT ![OutEp] = Quiet]
    BY <1>21 DEF RxDone
  <2>2. xfer'[OutEp].msg = NoBuf /\ \A d \in Ep : d # OutEp => xfer'[d] = xfer[d]
    BY <2>1 DEF IInv, TypeOK, Quiet
  <2>3. pc = "write" => cur.ep \in InEps
    BY DEF IInv, MainHolds
  <2> QED  BY <1>21, <2>2, <2>3 DEF RxDone, holders, main
<1>22. ASSUME NEW es \in SUBSET Ep, NEW s \in {"IDLE", "HALTED"}, Abort(es, s),
              UNCHANGED <<queue, qlen, holders, main>>
       PROVE  Clean'
  <2>1. \A e \in Ep : /\ xfer'[e].inProgress = 0 => xfer'[e].msg = NoBuf
                      /\ xfer[e].state # "BUSY" => xfer'[e].msg = xfer[e].msg
    <3>1. PICK L : \A e \in Ep :
                     /\ xfer'[e].inProgress = 0 => xfer'[e].msg = NoBuf
                     /\ xfer[e].state # "BUSY" => xfer'[e].msg = xfer[e].msg
      BY <1>22, AbortDrops
    <3> QED  BY <3>1
  <2>2. pc = "write" => cur.ep \in Ep /\ xfer[cur.ep].state # "BUSY"
    BY DEF IInv, MainHolds
  <2> QED  BY <1>22, <2>1, <2>2 DEF holders, main
<1>23. ASSUME NEW e \in Ep, SetHalt(e) PROVE Clean'
  <2>1. {e} \in SUBSET Ep /\ Abort({e}, "HALTED")
    BY <1>23 DEF SetHalt
  <2> QED  BY <1>22, <1>23, <2>1 DEF SetHalt
<1>24. ASSUME NEW e \in Ep, ClearHalt(e) PROVE Clean'
  <2>1. xfer' = [xfer EXCEPT ![e].state = "IDLE"] /\ xfer[e] \in Xfer
    BY <1>24 DEF ClearHalt, IInv, TypeOK
  <2>2. \A d \in Ep : xfer'[d].msg = xfer[d].msg /\ xfer'[d].inProgress = xfer[d].inProgress
    BY <2>1 DEF IInv, TypeOK, Xfer
  <2>3. pc = "write" => cur.ep \in InEps
    BY DEF IInv, MainHolds
  <2> QED  BY <1>24, <2>2, <2>3 DEF ClearHalt, holders, main
<1>25. CASE SetConfiguration
  <2>1. Ep \in SUBSET Ep /\ Abort(Ep, "IDLE")
    BY <1>25 DEF SetConfiguration
  <2> QED  BY <1>22, <1>25, <2>1 DEF SetConfiguration
<1>26. CASE UNCHANGED vars
  BY <1>26 DEF vars
<1> QED
  BY <1>1, <1>2, <1>3, <1>4, <1>5, <1>6, <1>7, <1>8, <1>9, <1>10, <1>11, <1>12, <1>13,
     <1>14, <1>15, <1>16, <1>17, <1>18, <1>19, <1>20, <1>21, <1>23, <1>24, <1>25, <1>26
     DEF Next, ToHost, FromHost, UsbIrq

\* A step that touches no queue.
LEMMA StepKeeps ==
  ASSUME QueuesDistinct, queue' = queue
  PROVE  QueuesDistinct'
BY DEF QueuesDistinct, Ep, InEps

\* and one that moves a buffer.
LEMMA PlainMove ==
  ASSUME Own, NEW p \in Place, NEW q \in Place, p # q, NEW b \in Hold[p], inUse' = inUse,
         Hold'[p] = Hold[p] \ {b}, Hold'[q] = Hold[q] \cup {b},
         \A r \in Place : r # p /\ r # q => Hold'[r] = Hold[r]
  PROVE  Partition(Hold, Place, inUse)'
<1>1. /\ {} \in SUBSET Hold[q] /\ inUse' = inUse \ {}
      /\ Hold'[q] = (Hold[q] \ {}) \cup {b}
  OBVIOUS
<1> QED  BY <1>1, MovedKeeps

\* Every step keeps the partition, and the queues without duplicates.
LEMMA OwnedNext ==
  ASSUME Own, [Next]_vars
  PROVE  Partition(Hold, Place, inUse)' /\ QueuesDistinct'
<1> DEFINE Goal == Partition(Hold, Place, inUse)' /\ QueuesDistinct'
           Rx == <<"card", "rx">>
           Tx == <<"card", "tx">>
           Message == <<"command", "message">>
           Segment == <<"command", "segment">>
           Loop == <<"main", "loop">>
<1>0. /\ Clean /\ MainHolds /\ TypeOK /\ QueuesDistinct /\ NoBuf \notin Bufs
      /\ InEps \subseteq Ep /\ OutEp \in Ep /\ OutEp \notin InEps /\ InEp \in InEps
  BY UsbAssumption DEF Own, IInv, Ep, InEps
<1>1. {Rx, Tx, Message, Segment, Loop} \subseteq Place
      /\ \A e \in Ep : <<"queue", e>> \in Place /\ <<"transfer", e>> \in Place
  BY PlacesAre
<1>2. ASSUME NEW e \in InEps, WantMsg(e) PROVE Goal
  BY <1>0, <1>2, SameKeeps, StepKeeps DEF WantMsg, Clean, pool, holders, history
<1>3. ASSUME NEW b \in Bufs, AllocOk(b) PROVE Goal
  <2>1. /\ cur.msg = NoBuf /\ cur'.msg = b /\ b \notin inUse /\ inUse' = inUse \cup {b}
        /\ UNCHANGED <<queue, xfer, rxMsg, txMsgs, cmd>>
    BY <1>0, <1>3 DEF AllocOk, Clean, TypeOK, holders
  <2>2. Hold'[Loop] = Hold[Loop] \cup {b}
    BY <1>0, <2>1, HoldIs, HoldNext
  <2>3. \A p \in Place : p # Loop => Hold'[p] = Hold[p]
    BY <2>1, OthersSame
  <2> QED  BY <1>0, <1>1, <2>1, <2>2, <2>3, TakenKeeps, StepKeeps
<1>4. CASE AllocFails
  BY <1>0, <1>4, SameKeeps, StepKeeps DEF AllocFails, Clean, NoWork, pool, holders, history
<1>5. CASE DropOldest
  <2> DEFINE e == cur.ep
             b == Head(queue[e])
  <2>1. /\ e \in Ep /\ queue[e] # <<>> /\ queue' = Dequeue(e) /\ inUse' = inUse \ {b}
        /\ UNCHANGED <<xfer, rxMsg, txMsgs, cmd, cur>>
    BY <1>0, <1>5 DEF DropOldest, MainHolds, holders
  <2> HIDE DEF e
  <2>2. /\ b \in Hold[<<"queue", e>>] /\ Hold'[<<"queue", e>>] = Hold[<<"queue", e>>] \ {b}
        /\ Distinct(queue'[e]) /\ \A d \in Ep : d # e => queue'[d] = queue[d]
    BY <2>1, DequeueMoves
  <2>3. \A p \in Place : p # <<"queue", e>> => Hold'[p] = Hold[p]
    BY <2>1, <2>2, OthersSame
  <2> HIDE DEF b
  <2>4. Partition(Hold, Place, inUse)'
    BY <1>1, <2>1, <2>2, <2>3, DroppedKeeps, ZenonT(60)
  <2>5. QueuesDistinct'
    BY <1>0, <2>2 DEF QueuesDistinct, Ep, InEps
  <2> QED  BY <2>4, <2>5
<1>6. CASE KeepForReader
  <2>1. /\ cur.msg \in Bufs /\ cur'.msg = NoBuf /\ rxMsg = NoBuf /\ rxMsg' = cur.msg
        /\ UNCHANGED <<inUse, queue, xfer, txMsgs, cmd>>
    BY <1>0, <1>6 DEF KeepForReader, MainHolds, NoWork, pool
  <2>2. /\ cur.msg \in Hold[Loop] /\ Hold'[Loop] = Hold[Loop] \ {cur.msg}
        /\ Hold'[Rx] = Hold[Rx] \cup {cur.msg}
    BY <1>0, <2>1, HoldIs, HoldNext
  <2>3. \A p \in Place : p # Loop /\ p # Rx => Hold'[p] = Hold[p]
    BY <2>1, OthersSame
  <2>4. Loop # Rx
    OBVIOUS
  <2>5. Partition(Hold, Place, inUse)'
    BY <1>1, <2>1, <2>2, <2>3, <2>4, PlainMove
  <2> QED  BY <1>0, <2>1, <2>5, StepKeeps
<1>7. ASSUME NEW e \in InEps, NEW b \in Bufs, Submit(e, b), NEW p \in {Loop, Rx},
             b \in Hold[p], Hold'[p] = Hold[p] \ {b},
             p = Loop => rxMsg' = rxMsg, p = Rx => cur'.msg = cur.msg,
             UNCHANGED <<xfer, txMsgs, cmd>>
      PROVE  Goal
  <2> DEFINE q == <<"queue", e>>
  <2>1. e \in Ep /\ q \in Place /\ p \in Place /\ q # p
    <3>1. q # Loop /\ q # Rx
      OBVIOUS
    <3> QED  BY <1>0, <1>1, <1>7, <3>1
  <2>2. b \notin Queued(e)
    <3>1. b \notin Hold[q]
      BY <1>7, <2>1, HoldInUse
    <3> QED  BY <2>1, <3>1, HoldIs
  <2>3. /\ Evicted(e) \in SUBSET Hold[q] /\ inUse' = inUse \ Evicted(e)
        /\ Hold'[q] = (Hold[q] \ Evicted(e)) \cup {b}
        /\ Distinct(queue'[e]) /\ \A d \in Ep : d # e => queue'[d] = queue[d]
    BY <1>7, <2>2, SubmitMoves
  <2>4. \A r \in Place : r # p /\ r # q => Hold'[r] = Hold[r]
    BY <1>7, <2>3, OthersSame
  <2>5. b \in Hold[p] /\ Hold'[p] = Hold[p] \ {b}
    BY <1>7
  <2> HIDE DEF q, Loop, Rx
  <2>6. Partition(Hold, Place, inUse)'
    <3>1. /\ p \in Place /\ q \in Place /\ p # q
          /\ \A r \in Place : r # p /\ r # q => Hold'[r] = Hold[r]
      BY <2>1, <2>4
    <3>2. PICK L \in SUBSET Hold[q] : inUse' = inUse \ L /\ Hold'[q] = (Hold[q] \ L) \cup {b}
      BY <2>3
    <3> QED  BY <3>1, <3>2, <2>5, MovedKeeps
  <2>7. QueuesDistinct'
    BY <1>0, <2>3 DEF QueuesDistinct, Ep, InEps
  <2> QED  BY <2>6, <2>7
<1>8. CASE SubmitNow
  <2>1. /\ cur.ep \in InEps /\ cur.msg \in Bufs /\ cur'.msg = NoBuf /\ Submit(cur.ep, cur.msg)
        /\ UNCHANGED <<xfer, rxMsg, txMsgs, cmd>>
    BY <1>0, <1>8 DEF SubmitNow, MainHolds, NoWork, holders
  <2>2. cur.msg \in Hold[Loop] /\ Hold'[Loop] = Hold[Loop] \ {cur.msg}
    BY <1>0, <2>1, HoldIs, HoldNext
  <2> QED  BY <1>7, <2>1, <2>2
<1>9. CASE FlushRx
  <2>1. /\ rxMsg \in Bufs /\ rxMsg' = NoBuf /\ Submit(InEp, rxMsg)
        /\ UNCHANGED <<xfer, txMsgs, cmd, cur>>
    BY <1>0, <1>9 DEF FlushRx, TypeOK, main
  <2>2. rxMsg \in Hold[Rx] /\ Hold'[Rx] = Hold[Rx] \ {rxMsg}
    BY <1>0, <2>1, HoldIs, HoldNext
  <2> QED  BY <1>0, <1>7, <2>1, <2>2
<1>10. ASSUME NEW e \in Ep, queue[e] # <<>>, queue' = Dequeue(e),
              NEW q \in {Loop, Message}, Hold[q] = {}, Hold'[q] = {Head(queue[e])},
              q = Loop => cmd' = cmd, q = Message => cur'.msg = cur.msg /\ cmd'.segm = cmd.segm,
              \A d \in Ep : xfer'[d].msg = xfer[d].msg,
              UNCHANGED <<inUse, rxMsg, txMsgs>>
       PROVE  Goal
  <2> DEFINE p == <<"queue", e>>
             b == Head(queue[e])
  <2>1. p \in Place /\ q \in Place /\ p # q
    <3>1. p # Loop /\ p # Message
      OBVIOUS
    <3> QED  BY <1>1, <1>10, <3>1
  <2>2. /\ b \in Hold[p] /\ Hold'[p] = Hold[p] \ {b} /\ Distinct(queue'[e])
        /\ \A d \in Ep : d # e => queue'[d] = queue[d]
    BY <1>10, DequeueMoves
  <2>3. \A r \in Place : r # p /\ r # q => Hold'[r] = Hold[r]
    BY <1>10, <2>2, OthersSame
  <2>4. Hold'[q] = Hold[q] \cup {b} /\ inUse' = inUse
    BY <1>10
  <2> HIDE DEF p, b
  <2>5. Partition(Hold, Place, inUse)'
    BY <2>1, <2>2, <2>3, <2>4, PlainMove
  <2>6. QueuesDistinct'
    BY <1>0, <2>2 DEF QueuesDistinct, Ep, InEps
  <2> QED  BY <2>5, <2>6
<1>11. ASSUME NEW e \in InEps, RefillTake(e) PROVE Goal
  <2>1. /\ e \in Ep /\ queue[e] # <<>> /\ queue' = Dequeue(e)
        /\ cur.msg = NoBuf /\ cur'.msg = Head(queue[e]) /\ Head(queue[e]) \in Bufs
        /\ UNCHANGED <<inUse, rxMsg, txMsgs, cmd>>
        /\ xfer' = [xfer EXCEPT ![e].inProgress = @ + 1]
    BY <1>0, <1>11 DEF RefillTake, Clean, TypeOK, holders
  <2>2. \A d \in Ep : xfer'[d].msg = xfer[d].msg
    <3>1. xfer[e] \in Xfer /\ xfer' = [xfer EXCEPT ![e] = [xfer[e] EXCEPT !.inProgress = @ + 1]]
      BY <1>0, <2>1 DEF TypeOK
    <3> QED  BY <1>0, <3>1 DEF TypeOK, Xfer
  <2>3. Hold[Loop] = {} /\ Hold'[Loop] = {Head(queue[e])}
    BY <1>0, <2>1, HoldIs, HoldNext
  <2> QED  BY <1>10, <2>1, <2>2, <2>3
<1>12. CASE WriteOk
  <2>1. /\ cur.ep \in Ep /\ cur.msg \in Bufs /\ cur'.msg = NoBuf
        /\ xfer[cur.ep].msg = NoBuf /\ xfer[cur.ep] \in Xfer
        /\ UNCHANGED <<inUse, queue, rxMsg, txMsgs, cmd>>
    BY <1>0, <1>12 DEF WriteOk, MainHolds, Clean, TypeOK, NoWork, pool, holders
  <2>2. PICK z \in Sizes :
          xfer' = [xfer EXCEPT ![cur.ep].state = "BUSY", ![cur.ep].msg = cur.msg,
                               ![cur.ep].size = z]
    BY <1>12 DEF WriteOk
  <2>3. xfer'[cur.ep].msg = cur.msg /\ \A d \in Ep : d # cur.ep => xfer'[d].msg = xfer[d].msg
    BY <1>0, <2>1, <2>2 DEF TypeOK, Xfer
  <2> DEFINE q == <<"transfer", cur.ep>>
  <2>4. /\ q \in Place /\ q # Loop
        /\ cur.msg \in Hold[Loop] /\ Hold'[Loop] = Hold[Loop] \ {cur.msg}
        /\ Hold'[q] = Hold[q] \cup {cur.msg}
    <3>1. cur.msg \in Hold[Loop] /\ Hold'[Loop] = Hold[Loop] \ {cur.msg}
      BY <1>0, <2>1, HoldIs, HoldNext
    <3>2. Hold[q] = {xfer[cur.ep].msg} \ {NoBuf} /\ Hold'[q] = {xfer'[cur.ep].msg} \ {NoBuf}
      BY <2>1, HoldIs, HoldNext
    <3>3. Hold'[q] = Hold[q] \cup {cur.msg}
      BY <1>0, <2>1, <2>3, <3>2
    <3>4. q # Loop
      OBVIOUS
    <3> QED  BY <1>1, <2>1, <3>1, <3>3, <3>4
  <2>5. \A p \in Place : p # Loop /\ p # q => Hold'[p] = Hold[p]
    BY <2>1, <2>3, OthersSame
  <2> HIDE DEF q
  <2>6. Partition(Hold, Place, inUse)'
    BY <1>1, <2>1, <2>4, <2>5, PlainMove
  <2> QED  BY <1>0, <2>1, <2>6, StepKeeps
<1>13. CASE WriteLocked
  <2> DEFINE e == cur.ep
             b == cur.msg
             q == <<"queue", e>>
  <2>1. /\ e \in Ep /\ b \in Bufs /\ cur'.msg = NoBuf /\ queue[e] \in Seq(Bufs)
        /\ Distinct(queue[e]) /\ xfer[e] \in Xfer /\ q \in Place /\ q # Loop
        /\ UNCHANGED <<inUse, rxMsg, txMsgs, cmd>>
        /\ queue' = [queue EXCEPT ![e] = <<b>> \o @]
        /\ xfer' = [xfer EXCEPT ![e].inProgress = @ - 1]
    BY <1>0, <1>1, <1>13 DEF WriteLocked, MainHolds, TypeOK, QueuesDistinct, NoWork, holders
  <2>2. queue'[e] = <<b>> \o queue[e] /\ \A d \in Ep : d # e => queue'[d] = queue[d]
    BY <1>0, <2>1 DEF TypeOK
  <2>3. \A d \in Ep : xfer'[d].msg = xfer[d].msg
    <3>1. xfer' = [xfer EXCEPT ![e] = [xfer[e] EXCEPT !.inProgress = @ - 1]]
      BY <1>0, <2>1 DEF TypeOK
    <3> QED  BY <1>0, <2>1, <3>1 DEF TypeOK, Xfer
  <2>4. b \in Hold[Loop] /\ Hold'[Loop] = Hold[Loop] \ {b}
    BY <1>0, <2>1, HoldIs, HoldNext
  <2>5. Hold[q] = Elems(queue[e]) /\ Hold'[q] = Elems(queue'[e])
    BY <2>1, HoldIs, HoldNext, QueuedIs, QueuedNext
  <2>6. b \notin Elems(queue[e])
    BY <1>1, <2>1, <2>4, <2>5, HoldInUse
  <2> HIDE DEF e, b
  <2>7. Distinct(<<b>> \o queue[e]) /\ Elems(<<b>> \o queue[e]) = {b} \cup Elems(queue[e])
    BY <2>1, <2>6, PrependDistinct
  <2>8. Hold'[q] = Hold[q] \cup {b} /\ inUse' = inUse
    BY <2>1, <2>2, <2>5, <2>7
  <2>9. \A p \in Place : p # Loop /\ p # q => Hold'[p] = Hold[p]
    BY <2>1, <2>2, <2>3, OthersSame
  <2> HIDE DEF q
  <2>10. Partition(Hold, Place, inUse)'
    BY <1>1, <2>1, <2>4, <2>8, <2>9, PlainMove
  <2>11. QueuesDistinct'
    BY <1>0, <2>2, <2>7 DEF QueuesDistinct, Ep, InEps
  <2> QED  BY <2>10, <2>11
<1>14. ASSUME NEW b \in Bufs, RefillFromHost(b) PROVE Goal
  <2> DEFINE q == <<"transfer", OutEp>>
  <2>1. /\ xfer[OutEp].msg = NoBuf /\ b \notin inUse /\ inUse' = inUse \cup {b}
        /\ xfer[OutEp] \in Xfer /\ UNCHANGED <<queue, rxMsg, txMsgs, cmd, cur>>
    BY <1>0, <1>14 DEF RefillFromHost, Clean, TypeOK, holders, main
  <2>2. xfer'[OutEp].msg = b /\ \A d \in Ep : d # OutEp => xfer'[d].msg = xfer[d].msg
    BY <1>0, <1>14, <2>1 DEF RefillFromHost, TypeOK, Xfer
  <2>3. Hold'[q] = Hold[q] \cup {b}
    <3>1. Hold[q] = {xfer[OutEp].msg} \ {NoBuf} /\ Hold'[q] = {xfer'[OutEp].msg} \ {NoBuf}
      BY <1>0, HoldIs, HoldNext
    <3> QED  BY <1>0, <2>1, <2>2, <3>1
  <2>4. \A p \in Place : p # q => Hold'[p] = Hold[p]
    BY <2>1, <2>2, OthersSame
  <2>5. q \in Place
    BY <1>0, <1>1
  <2> HIDE DEF q
  <2> QED  BY <1>0, <2>1, <2>3, <2>4, <2>5, TakenKeeps, StepKeeps
<1>15. CASE CmdTake
  <2>1. /\ queue[OutEp] # <<>> /\ queue' = Dequeue(OutEp) /\ cmd = NoCmd
        /\ cmd'.msg = Head(queue[OutEp]) /\ cmd'.segm = NoBuf /\ Head(queue[OutEp]) \in Bufs
        /\ UNCHANGED <<inUse, rxMsg, txMsgs, cur, xfer>>
    BY <1>0, <1>15 DEF CmdTake, TypeOK, main
  <2>2. Hold[Message] = {} /\ Hold'[Message] = {Head(queue[OutEp])}
    BY <1>0, <2>1, HoldIs, HoldNext DEF NoCmd
  <2>3. cmd'.segm = cmd.segm
    BY <2>1 DEF NoCmd
  <2> QED  BY <1>0, <1>10, <2>1, <2>2, <2>3
<1>16. ASSUME NEW p \in {Message, Segment}, NEW b \in Bufs, Hold[p] = {b}, Hold'[p] = {},
              p = Message => cmd'.segm = cmd.segm, p = Segment => cmd'.msg = cmd.msg,
              txMsgs' = txMsgs \cup {b}, UNCHANGED <<inUse, queue, xfer, rxMsg, cur>>
       PROVE  Goal
  <2>1. p \in Place /\ p # Tx /\ b \in Hold[p] /\ Hold'[p] = Hold[p] \ {b}
    BY <1>1, <1>16
  <2>2. Hold'[Tx] = Hold[Tx] \cup {b} /\ inUse' = inUse
    BY <1>16, HoldIs, HoldNext
  <2>3. \A r \in Place : r # p /\ r # Tx => Hold'[r] = Hold[r]
    BY <1>16, OthersSame
  <2>4. Partition(Hold, Place, inUse)'
    BY <1>1, <2>1, <2>2, <2>3, PlainMove
  <2> QED  BY <1>0, <1>16, <2>4, StepKeeps
<1>17. CASE CmdKeep
  <2>1. /\ cmd.msg \in Bufs /\ cmd.segm = NoBuf /\ cmd'.msg = NoBuf /\ cmd'.segm = NoBuf
        /\ txMsgs' = txMsgs \cup {cmd.msg} /\ UNCHANGED <<inUse, queue, xfer, rxMsg, cur>>
    BY <1>0, <1>17 DEF CmdKeep, Clean, TypeOK, NoCmd, pool, main
  <2>2. Hold[Message] = {cmd.msg} /\ Hold'[Message] = {}
    BY <1>0, <2>1, HoldIs, HoldNext
  <2> QED  BY <1>16, <2>1, <2>2
<1>18. CASE SegmentKeep
  <2>1. /\ cmd.segm \in Bufs /\ cmd'.msg = cmd.msg /\ cmd'.segm = NoBuf
        /\ txMsgs' = txMsgs \cup {cmd.segm} /\ UNCHANGED <<inUse, queue, xfer, rxMsg, cur>>
    BY <1>0, <1>18 DEF SegmentKeep, TypeOK, pool, main
  <2>2. Hold[Segment] = {cmd.segm} /\ Hold'[Segment] = {}
    BY <1>0, <2>1, HoldIs, HoldNext
  <2> QED  BY <1>16, <2>1, <2>2
<1>19. CASE CmdFree
  <2>1. /\ cmd.msg \in Bufs /\ cmd.segm = NoBuf /\ cmd'.msg = NoBuf /\ cmd'.segm = NoBuf
        /\ inUse' = inUse \ {cmd.msg} /\ UNCHANGED <<queue, xfer, rxMsg, txMsgs, cur>>
    BY <1>0, <1>19 DEF CmdFree, TypeOK, NoCmd, main
  <2>2. {cmd.msg} \in SUBSET Hold[Message] /\ Hold'[Message] = Hold[Message] \ {cmd.msg}
    BY <1>0, <2>1, HoldIs, HoldNext
  <2>3. \A p \in Place : p # Message => Hold'[p] = Hold[p]
    BY <2>1, OthersSame
  <2>4. Partition(Hold, Place, inUse)'
    BY <1>1, <2>1, <2>2, <2>3, DroppedKeeps
  <2> QED  BY <1>0, <2>1, <2>4, StepKeeps
<1>20. ASSUME NEW b \in Bufs, SegmentAlloc(b) PROVE Goal
  <2>1. /\ cmd.segm = NoBuf /\ cmd'.segm = b /\ cmd'.msg = cmd.msg /\ b \notin inUse
        /\ inUse' = inUse \cup {b} /\ UNCHANGED <<queue, xfer, rxMsg, txMsgs, cur>>
    BY <1>0, <1>20 DEF SegmentAlloc, TypeOK, main
  <2>2. Hold'[Segment] = Hold[Segment] \cup {b}
    BY <1>0, <2>1, HoldIs, HoldNext
  <2>3. \A p \in Place : p # Segment => Hold'[p] = Hold[p]
    BY <2>1, OthersSame
  <2> QED  BY <1>0, <1>1, <2>1, <2>2, <2>3, TakenKeeps, StepKeeps
<1>21. CASE SegmentFree
  <2>1. /\ cmd.segm \in Bufs /\ cmd'.segm = NoBuf /\ cmd'.msg = cmd.msg
        /\ inUse' = inUse \ {cmd.segm} /\ UNCHANGED <<queue, xfer, rxMsg, txMsgs, cur>>
    BY <1>0, <1>21 DEF SegmentFree, TypeOK, main
  <2>2. {cmd.segm} \in SUBSET Hold[Segment] /\ Hold'[Segment] = Hold[Segment] \ {cmd.segm}
    BY <1>0, <2>1, HoldIs, HoldNext
  <2>3. \A p \in Place : p # Segment => Hold'[p] = Hold[p]
    BY <2>1, OthersSame
  <2>4. Partition(Hold, Place, inUse)'
    BY <1>1, <2>1, <2>2, <2>3, DroppedKeeps
  <2> QED  BY <1>0, <2>1, <2>4, StepKeeps
<1>22. ASSUME NEW b \in Bufs, AnswerSent(b) PROVE Goal
  <2>1. /\ b \in txMsgs /\ txMsgs' = txMsgs \ {b} /\ inUse' = inUse \ {b}
        /\ UNCHANGED <<queue, xfer, rxMsg, cmd, cur>>
    BY <1>22 DEF AnswerSent, main
  <2>2. {b} \in SUBSET Hold[Tx] /\ Hold'[Tx] = Hold[Tx] \ {b}
    BY <2>1, HoldIs, HoldNext
  <2>3. \A p \in Place : p # Tx => Hold'[p] = Hold[p]
    BY <2>1, OthersSame
  <2>4. Partition(Hold, Place, inUse)'
    BY <1>1, <2>1, <2>2, <2>3, DroppedKeeps
  <2> QED  BY <1>0, <2>1, <2>4, StepKeeps
<1>23. CASE HandleReset
  <2> DEFINE L == Hold[Tx] \cup Hold[Rx]
  <2>1. /\ inUse' = (inUse \ txMsgs) \ {rxMsg} /\ txMsgs' = {} /\ rxMsg' = NoBuf
        /\ UNCHANGED <<queue, xfer, cmd, cur>>
    BY <1>23 DEF HandleReset, main
  <2>2. Hold[Tx] = txMsgs /\ Hold[Rx] = {rxMsg} \ {NoBuf} /\ Hold'[Tx] = {} /\ Hold'[Rx] = {}
    BY <2>1, HoldIs, HoldNext
  <2>3. inUse' = inUse \ L
    BY <1>0, <2>1, <2>2 DEF TypeOK
  <2>4. ASSUME NEW p \in Place PROVE Hold'[p] = Hold[p] \ L
    <3>1. CASE p \in {Tx, Rx}
      BY <2>2, <3>1
    <3>2. CASE p \notin {Tx, Rx}
      <4>1. Hold'[p] = Hold[p]
        BY <2>1, <3>2, OthersSame
      <4>2. Hold[p] \cap L = {}
        BY <1>1, <3>2, HoldInUse
      <4> QED  BY <4>1, <4>2
    <3> QED  BY <3>1, <3>2
  <2> HIDE DEF L
  <2>5. Partition(Hold', Place, inUse \ L)
    BY <2>4, DropKeeps DEF Own
  <2>6. Partition(Hold, Place, inUse)'
    BY <2>3, <2>5 DEF Partition, Place, Ep, InEps
  <2> QED  BY <1>0, <2>1, <2>6, StepKeeps
<1>24. ASSUME NEW e \in InEps, TxDone(e) PROVE Goal
  <2> DEFINE p == <<"transfer", e>>
             x == xfer[e]
  <2>1. /\ e \in Ep /\ x \in Xfer /\ x.inProgress = 1 /\ x.msg \in Bufs /\ p \in Place
        /\ UNCHANGED <<queue, rxMsg, txMsgs, cmd, cur>>
    BY <1>0, <1>1, <1>24 DEF TxDone, Own, IInv, TypeOK, TransferHolds, holders, main
  <2>2. PICK one \in BOOLEAN : one = (x.size = "one")
    OBVIOUS
  <2>3. /\ xfer' = [xfer EXCEPT ![e] = WriteEnded(x, one, TRUE)]
        /\ inUse' = IF NeedsZlp(x, one) THEN inUse ELSE inUse \ {x.msg}
    BY <1>24, <2>2 DEF TxDone
  <2> HIDE DEF x
  <2>4. CASE NeedsZlp(x, one)
    <3>1. WriteEnded(x, one, TRUE).msg = x.msg
      BY <2>1, <2>4, WriteEndedZlp
    <3>2. inUse' = inUse /\ \A d \in Ep : xfer'[d].msg = xfer[d].msg
      BY <1>0, <2>1, <2>3, <2>4, <3>1 DEF TypeOK, x
    <3> QED  BY <1>0, <2>1, <3>2, SameKeeps, StepKeeps
  <2>5. CASE ~NeedsZlp(x, one)
    <3>1. WriteEnded(x, one, TRUE).msg = NoBuf
      <4>1. WriteEnded(x, one, TRUE) = Quiet
        BY <2>1, <2>5, WriteEndedQuiet
      <4>2. Quiet.msg = NoBuf
        BY DEF Quiet
      <4> QED  BY <4>1, <4>2, Zenon
    <3>2. /\ inUse' = inUse \ {x.msg} /\ xfer'[e].msg = NoBuf
          /\ \A d \in Ep : d # e => xfer'[d].msg = xfer[d].msg
      BY <1>0, <2>1, <2>3, <2>5, <3>1 DEF TypeOK
    <3>3. {x.msg} \in SUBSET Hold[p] /\ Hold'[p] = Hold[p] \ {x.msg}
      <4>1. Hold[p] = {xfer[e].msg} \ {NoBuf} /\ Hold'[p] = {xfer'[e].msg} \ {NoBuf}
        BY <2>1, HoldIs, HoldNext
      <4> QED  BY <1>0, <2>1, <3>2, <4>1 DEF x
    <3>4. \A r \in Place : r # p => Hold'[r] = Hold[r]
      BY <2>1, <3>2, OthersSame
    <3> HIDE DEF p
    <3>5. Partition(Hold, Place, inUse)'
      BY <2>1, <3>2, <3>3, <3>4, DroppedKeeps
    <3> QED  BY <1>0, <2>1, <3>5, StepKeeps
  <2> QED  BY <2>4, <2>5
<1>25. CASE RxDone
  <2> DEFINE p == <<"transfer", OutEp>>
             q == <<"queue", OutEp>>
             b == xfer[OutEp].msg
  <2>1. /\ b \in Bufs /\ xfer' = [xfer EXCEPT ![OutEp] = Quiet]
        /\ queue' = [queue EXCEPT ![OutEp] = Append(@, b)]
        /\ queue[OutEp] \in Seq(Bufs) /\ Distinct(queue[OutEp])
        /\ UNCHANGED <<inUse, rxMsg, txMsgs, cmd, cur>>
    BY <1>0, <1>25 DEF RxDone, Own, IInv, TypeOK, TransferHolds, QueuesDistinct, holders, main
  <2>2. /\ xfer'[OutEp].msg = NoBuf /\ \A d \in Ep : d # OutEp => xfer'[d].msg = xfer[d].msg
        /\ queue'[OutEp] = Append(queue[OutEp], b)
        /\ \A d \in Ep : d # OutEp => queue'[d] = queue[d]
    BY <1>0, <2>1 DEF TypeOK, Quiet
  <2>3. b \in Hold[p] /\ Hold'[p] = Hold[p] \ {b} /\ p \in Place /\ q \in Place /\ p # q
    BY <1>0, <1>1, <2>1, <2>2, HoldIs, HoldNext
  <2>4. Hold[q] = Elems(queue[OutEp]) /\ Hold'[q] = Elems(queue'[OutEp])
    BY <1>0, HoldIs, HoldNext, QueuedIs, QueuedNext
  <2> HIDE DEF b
  <2>5. b \notin Elems(queue[OutEp])
    BY <2>3, <2>4, HoldInUse
  <2>6. /\ Distinct(Append(queue[OutEp], b))
        /\ Elems(Append(queue[OutEp], b)) = Elems(queue[OutEp]) \cup {b}
    BY <2>1, <2>5, AppendDistinct
  <2>7. Hold'[q] = Hold[q] \cup {b} /\ inUse' = inUse
    BY <2>1, <2>2, <2>4, <2>6
  <2>8. \A r \in Place : r # p /\ r # q => Hold'[r] = Hold[r]
    BY <2>1, <2>2, OthersSame
  <2> HIDE DEF p, q
  <2>9. Partition(Hold, Place, inUse)'
    BY <2>3, <2>7, <2>8, PlainMove
  <2>10. QueuesDistinct'
    BY <1>0, <2>2, <2>6 DEF QueuesDistinct, Ep, InEps
  <2> QED  BY <2>9, <2>10
<1>26. ASSUME NEW es \in SUBSET Ep, NEW s \in {"IDLE", "HALTED"}, Abort(es, s),
              UNCHANGED <<queue, qlen, holders, main>>
       PROVE  Goal
  <2>1. PICK L : /\ inUse' = inUse \ L
                 /\ \A p \in Place : p[1] # "transfer" => Hold[p] \cap L = {}
                 /\ \A e \in Ep : {xfer'[e].msg} \ {NoBuf} = ({xfer[e].msg} \ {NoBuf}) \ L
    BY <1>26, AbortDrops
  <2>2. UNCHANGED <<queue, rxMsg, txMsgs, cmd, cur>>
    BY <1>26 DEF holders, main
  <2>3. ASSUME NEW p \in Place PROVE Hold'[p] = Hold[p] \ L
    <3>1. ASSUME NEW e \in Ep, p = <<"transfer", e>> PROVE Hold'[p] = Hold[p] \ L
      <4>1. Hold'[<<"transfer", e>>] = Hold[<<"transfer", e>>] \ L
        BY <2>1, HoldIs, HoldNext, ZenonT(60)
      <4> QED  BY <3>1, <4>1
    <3>2. CASE p[1] # "transfer"
      <4>1. Hold'[p] = Hold[p]
        BY <2>2, <3>2, OthersSame
      <4> QED  BY <2>1, <3>2, <4>1
    <3>3. (\E e \in Ep : p = <<"transfer", e>>) \/ p[1] # "transfer"
      BY PlaceIs
    <3> QED  BY <3>1, <3>2, <3>3
  <2>4. Partition(Hold', Place, inUse \ L)
    BY <2>3, DropKeeps DEF Own
  <2>5. Partition(Hold, Place, inUse)'
    BY <2>1, <2>4 DEF Partition, Place, Ep, InEps
  <2> QED  BY <1>0, <2>2, <2>5, StepKeeps
<1>27. ASSUME NEW e \in Ep, SetHalt(e) PROVE Goal
  <2>1. {e} \in SUBSET Ep /\ Abort({e}, "HALTED")
    BY <1>27 DEF SetHalt
  <2> QED  BY <1>26, <1>27, <2>1 DEF SetHalt
<1>28. ASSUME NEW e \in Ep, ClearHalt(e) PROVE Goal
  <2>1. xfer' = [xfer EXCEPT ![e].state = "IDLE"] /\ xfer[e] \in Xfer
    BY <1>0, <1>28 DEF ClearHalt, TypeOK
  <2>2. \A d \in Ep : xfer'[d].msg = xfer[d].msg
    BY <1>0, <2>1 DEF TypeOK, Xfer
  <2> QED  BY <1>0, <1>28, <2>2, SameKeeps, StepKeeps DEF ClearHalt, pool, holders, main
<1>29. CASE SetConfiguration
  <2>1. Ep \in SUBSET Ep /\ Abort(Ep, "IDLE")
    BY <1>29 DEF SetConfiguration
  <2> QED  BY <1>26, <1>29, <2>1 DEF SetConfiguration
<1>30. CASE UNCHANGED vars
  BY <1>0, <1>30, SameKeeps, StepKeeps DEF vars
<1> QED
  BY <1>2, <1>3, <1>4, <1>5, <1>6, <1>8, <1>9, <1>11, <1>12, <1>13, <1>14, <1>15, <1>17,
     <1>18, <1>19, <1>20, <1>21, <1>22, <1>23, <1>24, <1>25, <1>27, <1>28, <1>29, <1>30
     DEF Next, ToHost, FromHost, UsbIrq

\* At the start nobody holds anything.
LEMMA OwnInit == Init => Own
<1> SUFFICES ASSUME Init PROVE Own
  OBVIOUS
<1>1. /\ inUse = {} /\ rxMsg = NoBuf /\ txMsgs = {} /\ cmd.msg = NoBuf /\ cmd.segm = NoBuf
      /\ cur.msg = NoBuf /\ pc = "idle"
      /\ \A e \in Ep : queue[e] = <<>> /\ xfer[e].msg = NoBuf
  BY DEF Init, NoCmd, NoWork, Quiet
<1>2. \A e \in Ep : Queued(e) = {}
  BY <1>1 DEF Queued
<1>3. \A p \in Place : Hold[p] = {}
  BY <1>1, <1>2, PlaceIs, HoldIs
<1>4. Partition(Hold, Place, inUse)
  BY <1>1, <1>3 DEF Partition
<1>5. QueuesDistinct
  BY <1>1 DEF QueuesDistinct, Distinct
<1>6. Clean
  BY <1>1 DEF Clean
<1> QED  BY <1>4, <1>5, <1>6, InvInit DEF Own

\* A buffer of the pool has exactly one owner while it is in use and none when it is
\* free, for every pool and every limit: usb_buf_submit, the commands that keep or
\* release their message, aborted transfers and card_handle_reset neither leak a
\* buffer nor release one twice.
THEOREM Owned == Spec => []OneOwner
<1>1. Own /\ [Next]_vars => Own'
  <2> SUFFICES ASSUME Own, [Next]_vars PROVE Own'
    OBVIOUS
  <2>1. IInv'
    BY InvNext DEF Own
  <2> QED  BY <2>1, CleanNext, OwnedNext DEF Own
<1> QED  BY <1>1, OwnInit, OwnIs, PTL DEF Spec

-----------------------------------------------------------------------------
(* Transfers and their ends.                                                *)


\* The meaning of in_progress: what InProgressIsTransfer says.
Transfers ==
  \A e \in Ep \ cut : (xfer[e].inProgress = 1) <=>
                       (xfer[e].state = "BUSY" \/ (pc = "write" /\ cur.ep = e))

\* A transfer to the host has a length, and the last message of a packet ended.
Terminated ==
  /\ \A e \in InEps : xfer[e].state = "BUSY" => xfer[e].size \in Sizes
  /\ \A e \in InEps : ended[e]

\* The inductive invariant of transfers.
Ending == IInv /\ Transfers /\ Terminated

\* A transfer that runs is not one the main loop is about to start.
LEMMA OneEnded ==
  ASSUME IInv, NEW e \in Ep, xfer[e].state = "BUSY"
  PROVE  pc = "write" => cur.ep # e
BY DEF IInv, MainHolds

\* An aborted transfer ends at once, unless it is cut after its first packet.
LEMMA AbortEnds ==
  ASSUME Ending, NEW es \in SUBSET Ep, NEW s \in {"IDLE", "HALTED"},
         Abort(es, s), pc' = pc, cur' = cur, ended' = ended
  PROVE  Transfers' /\ Terminated'
<1> DEFINE busy == {e \in es : xfer[e].state = "BUSY"}
<1>1. PICK one \in [Ep -> BOOLEAN] :
        /\ xfer' = [e \in Ep |->
             CASE e \in busy -> [WriteEnded(xfer[e], one[e], FALSE) EXCEPT !.state = s]
               [] e \in es \ busy -> [xfer[e] EXCEPT !.state = s]
               [] e \notin es -> xfer[e]]
        /\ cut' = cut \cup {e \in busy : one[e]}
  BY DEF Abort
<1>2. ASSUME NEW e \in Ep
      PROVE  /\ e \in busy \ cut' => xfer'[e].inProgress = 0
             /\ e \notin busy => xfer'[e].inProgress = xfer[e].inProgress
             /\ e \in es => xfer'[e].state = s
             /\ e \notin es => xfer'[e] = xfer[e]
  <2>1. xfer[e] \in Xfer
    BY DEF Ending, IInv, TypeOK
  <2>2. (e \in es => xfer'[e].state = s) /\ (e \notin es => xfer'[e] = xfer[e])
    BY AbortIs DEF Ending
  <2>3. ASSUME e \in busy, e \notin cut' PROVE xfer'[e].inProgress = 0
    <3>1. xfer[e].inProgress = 1
      BY <2>3 DEF Ending, IInv, TransferHolds
    <3>2. ~NeedsZlp(xfer[e], one[e])
      BY <1>1, <2>3 DEF NeedsZlp
    <3>3. WriteEnded(xfer[e], one[e], FALSE) = Quiet
      BY <2>1, <3>1, <3>2, WriteEndedQuiet
    <3>4. xfer'[e] = [Quiet EXCEPT !.state = s]
      BY <1>1, <2>3, <3>3
    <3> QED  BY <3>4 DEF Quiet
  <2>4. ASSUME e \notin busy PROVE xfer'[e].inProgress = xfer[e].inProgress
    BY <2>4, AbortIs DEF Ending
  <2> QED  BY <2>2, <2>3, <2>4
<1>3. \A e \in Ep : xfer[e].state = "BUSY" => (pc = "write" => cur.ep # e)
  BY OneEnded DEF Ending
<1>4. Transfers'
  <2> SUFFICES ASSUME NEW e \in Ep, e \notin cut'
               PROVE  (xfer'[e].inProgress = 1) <=>
                       (xfer'[e].state = "BUSY" \/ (pc' = "write" /\ cur'.ep = e))
    BY DEF Transfers, Ep, InEps
  <2>0. e \notin cut
    BY <1>1
  <2>1. CASE e \in busy
    BY <1>2, <1>3, <2>1
  <2>2. CASE e \in es \ busy
    BY <1>2, <2>0, <2>2 DEF Ending, Transfers
  <2>3. CASE e \notin es
    BY <1>2, <2>0, <2>3 DEF Ending, Transfers
  <2> QED  BY <2>1, <2>2, <2>3
<1>5. Terminated'
  BY <1>2 DEF Ending, Terminated, Ep, InEps
<1> QED  BY <1>4, <1>5

\* Every step keeps it.
LEMMA EndingNext ==
  ASSUME Ending, [Next]_vars
  PROVE  Transfers' /\ Terminated'
<1> DEFINE Goal == Transfers' /\ Terminated'
<1>0. /\ IInv /\ Transfers /\ Terminated /\ TypeOK /\ MainHolds
      /\ InEps \subseteq Ep /\ OutEp \in Ep \ InEps
      /\ \A e \in Ep : xfer[e] \in Xfer /\ xfer[e].inProgress \in {0, 1}
  BY UsbAssumption DEF Ending, IInv, TypeOK, Ep, InEps, Xfer
<1>1. ASSUME xfer' = xfer, ended' = ended, cut' = cut, pc # "write", pc' # "write" PROVE Goal
  BY <1>0, <1>1 DEF Transfers, Terminated, Ep, InEps
<1>2. ASSUME xfer' = xfer, ended' = ended, cut' = cut, pc' = pc, cur' = cur PROVE Goal
  BY <1>0, <1>2 DEF Transfers, Terminated, Ep, InEps
<1>3. ASSUME NEW e \in InEps, RefillTake(e) PROVE Goal
  <2>1. xfer' = [xfer EXCEPT ![e] = [xfer[e] EXCEPT !.inProgress = 1]]
    BY <1>0, <1>3 DEF RefillTake, TypeOK, Xfer
  <2>2. /\ xfer'[e].inProgress = 1 /\ xfer'[e].state = xfer[e].state
        /\ xfer'[e].size = xfer[e].size /\ \A d \in Ep : d # e => xfer'[d] = xfer[d]
    BY <1>0, <2>1 DEF TypeOK, Xfer
  <2>3. pc = "idle" /\ pc' = "write" /\ cur'.ep = e /\ ended' = ended /\ cut' = cut
    BY <1>3 DEF RefillTake, history
  <2>4. Transfers'
    BY <1>0, <2>2, <2>3 DEF Transfers, Ep, InEps
  <2>5. Terminated'
    BY <1>0, <2>2, <2>3 DEF Terminated, Ep, InEps
  <2> QED  BY <2>4, <2>5
<1>4. CASE WriteOk
  <2>1. cur.ep \in InEps /\ pc = "write" /\ pc' = "idle" /\ ended' = ended /\ cut' = cut
    BY <1>0, <1>4 DEF WriteOk, MainHolds, history
  <2>2. PICK z \in Sizes :
          xfer' = [xfer EXCEPT ![cur.ep].state = "BUSY", ![cur.ep].msg = cur.msg,
                               ![cur.ep].size = z]
    BY <1>4 DEF WriteOk
  <2>3. /\ xfer'[cur.ep].inProgress = xfer[cur.ep].inProgress /\ xfer'[cur.ep].state = "BUSY"
        /\ xfer'[cur.ep].size = z /\ \A d \in Ep : d # cur.ep => xfer'[d] = xfer[d]
    BY <1>0, <2>1, <2>2 DEF TypeOK, Xfer
  <2>4. Transfers'
    BY <1>0, <2>1, <2>3 DEF Transfers, Ep, InEps
  <2>5. Terminated'
    BY <1>0, <2>1, <2>3 DEF Terminated, Ep, InEps
  <2> QED  BY <2>4, <2>5
<1>5. CASE WriteLocked
  <2>1. /\ cur.ep \in InEps /\ pc = "write" /\ pc' = "idle" /\ ended' = ended /\ cut' = cut
        /\ xfer[cur.ep].inProgress = 1 /\ xfer[cur.ep].state # "BUSY"
    BY <1>0, <1>5 DEF WriteLocked, MainHolds
  <2>2. xfer' = [xfer EXCEPT ![cur.ep] = [xfer[cur.ep] EXCEPT !.inProgress = 0]]
    BY <1>0, <1>5, <2>1 DEF WriteLocked, TypeOK, Xfer
  <2>3. /\ xfer'[cur.ep].inProgress = 0 /\ xfer'[cur.ep].state # "BUSY"
        /\ \A d \in Ep : d # cur.ep => xfer'[d] = xfer[d]
    BY <1>0, <2>1, <2>2 DEF TypeOK, Xfer
  <2>4. Transfers'
    BY <1>0, <2>1, <2>3 DEF Transfers, Ep, InEps
  <2>5. Terminated'
    BY <1>0, <2>1, <2>3 DEF Terminated, Ep, InEps
  <2> QED  BY <2>4, <2>5
<1>6. ASSUME NEW b \in Bufs, RefillFromHost(b) PROVE Goal
  <2>1. pc = "idle" /\ pc' = "idle" /\ ended' = ended /\ cut' = cut
    BY <1>6 DEF RefillFromHost, main, history
  <2>2. /\ xfer'[OutEp].inProgress = 1 /\ xfer'[OutEp].state = "BUSY"
        /\ \A d \in Ep : d # OutEp => xfer'[d] = xfer[d]
    BY <1>0, <1>6 DEF RefillFromHost, TypeOK, Xfer
  <2>3. Transfers'
    BY <1>0, <2>1, <2>2 DEF Transfers, Ep, InEps
  <2>4. Terminated'
    BY <1>0, <2>1, <2>2 DEF Terminated, Ep, InEps
  <2> QED  BY <2>3, <2>4
<1>7. ASSUME NEW e \in InEps, TxDone(e) PROVE Goal
  <2> DEFINE x == xfer[e]
  <2>1. /\ x \in Xfer /\ x.state = "BUSY" /\ x.inProgress = 1 /\ x.size \in Sizes
        /\ (pc = "write" => cur.ep # e) /\ pc' = pc /\ cur' = cur /\ cut' = cut
    BY <1>0, <1>7, OneEnded DEF TxDone, IInv, TransferHolds, Terminated, main
  <2>2. PICK one \in BOOLEAN : one = (x.size = "one")
    OBVIOUS
  <2>3. /\ xfer' = [xfer EXCEPT ![e] = WriteEnded(x, one, TRUE)]
        /\ ended' = IF NeedsZlp(x, one) \/ x.size = "many" THEN ended
                    ELSE [ended EXCEPT ![e] = x.size = "short" \/ x.zlp]
    BY <1>7, <2>2 DEF TxDone
  <2>4. xfer'[e] = WriteEnded(x, one, TRUE) /\ \A d \in Ep : d # e => xfer'[d] = xfer[d]
    BY <1>0, <2>3 DEF TypeOK
  <2> HIDE DEF x
  <2>5. CASE NeedsZlp(x, one)
    <3>1. WriteEnded(x, one, TRUE) = [x EXCEPT !.zlp = TRUE]
      BY <2>5 DEF WriteEnded
    <3>2. /\ xfer'[e].inProgress = 1 /\ xfer'[e].state = "BUSY" /\ xfer'[e].size = x.size
          /\ ended' = ended
      BY <2>1, <2>3, <2>4, <2>5, <3>1 DEF Xfer
    <3>3. Transfers'
      <4> SUFFICES ASSUME NEW d \in Ep \ cut
                   PROVE  (xfer'[d].inProgress = 1) <=>
                           (xfer'[d].state = "BUSY" \/ (pc' = "write" /\ cur'.ep = d))
        BY <2>1 DEF Transfers, Ep, InEps
      <4>1. CASE d = e
        BY <2>1, <3>2, <4>1
      <4>2. CASE d # e
        BY <1>0, <2>1, <2>4, <4>2 DEF Transfers
      <4> QED  BY <4>1, <4>2
    <3>4. Terminated'
      BY <1>0, <2>1, <2>4, <3>2 DEF Terminated, Ep, InEps
    <3> QED  BY <3>3, <3>4
  <2>6. CASE ~NeedsZlp(x, one)
    <3>1. WriteEnded(x, one, TRUE) = Quiet
      BY <2>1, <2>6, WriteEndedQuiet
    <3>2. xfer'[e].inProgress = 0 /\ xfer'[e].state = "IDLE"
      BY <2>4, <3>1, QuietIs
    <3>3. x.size \in {"short", "many"} \/ x.zlp
      BY <2>1, <2>2, <2>6, UsbAssumption DEF NeedsZlp, Xfer
    <3>4. \A d \in InEps : ended'[d]
      <4>1. CASE x.size = "many"
        BY <1>0, <2>3, <4>1 DEF Terminated
      <4>2. CASE x.size # "many"
        BY <1>0, <2>3, <2>6, <3>3, <4>2 DEF Terminated, TypeOK
      <4> QED  BY <4>1, <4>2
    <3>5. Transfers'
      <4> SUFFICES ASSUME NEW d \in Ep \ cut
                   PROVE  (xfer'[d].inProgress = 1) <=>
                           (xfer'[d].state = "BUSY" \/ (pc' = "write" /\ cur'.ep = d))
        BY <2>1 DEF Transfers, Ep, InEps
      <4>1. CASE d = e
        BY <2>1, <3>2, <4>1
      <4>2. CASE d # e
        BY <1>0, <2>1, <2>4, <4>2 DEF Transfers
      <4> QED  BY <4>1, <4>2
    <3>6. Terminated'
      BY <1>0, <2>4, <3>2, <3>4 DEF Terminated, Ep, InEps
    <3> QED  BY <3>5, <3>6
  <2> QED  BY <2>5, <2>6
<1>8. CASE RxDone
  <2>1. /\ pc' = pc /\ cur' = cur /\ ended' = ended /\ cut' = cut /\ (pc = "write" => cur.ep # OutEp)
        /\ xfer' = [xfer EXCEPT ![OutEp] = Quiet]
    BY <1>0, <1>8, OneEnded DEF RxDone, main, history
  <2>2. /\ xfer'[OutEp].inProgress = 0 /\ xfer'[OutEp].state = "IDLE"
        /\ \A d \in Ep : d # OutEp => xfer'[d] = xfer[d]
    BY <1>0, <2>1, QuietIs DEF TypeOK
  <2>3. Transfers'
    BY <1>0, <2>1, <2>2 DEF Transfers, Ep, InEps
  <2>4. Terminated'
    BY <1>0, <2>1, <2>2 DEF Terminated, Ep, InEps
  <2> QED  BY <2>3, <2>4
<1>9. ASSUME NEW e \in Ep, SetHalt(e) PROVE Goal
  <2>1. {e} \in SUBSET Ep /\ Abort({e}, "HALTED") /\ pc' = pc /\ cur' = cur /\ ended' = ended
    BY <1>9 DEF SetHalt, main, history
  <2> QED  BY <2>1, AbortEnds
<1>10. CASE SetConfiguration
  <2>1. Ep \in SUBSET Ep /\ Abort(Ep, "IDLE") /\ pc' = pc /\ cur' = cur /\ ended' = ended
    BY <1>10 DEF SetConfiguration, main, history
  <2> QED  BY <2>1, AbortEnds
<1>11. ASSUME NEW e \in Ep, ClearHalt(e) PROVE Goal
  <2>1. /\ xfer' = [xfer EXCEPT ![e].state = "IDLE"] /\ xfer[e].state = "HALTED"
        /\ pc' = pc /\ cur' = cur /\ ended' = ended /\ cut' = cut
    BY <1>11 DEF ClearHalt, main, history
  <2>2. /\ xfer'[e].inProgress = xfer[e].inProgress /\ xfer'[e].state = "IDLE"
        /\ \A d \in Ep : d # e => xfer'[d] = xfer[d]
    BY <1>0, <2>1 DEF TypeOK, Xfer
  <2>3. Transfers'
    BY <1>0, <2>1, <2>2 DEF Transfers, Ep, InEps
  <2>4. Terminated'
    BY <1>0, <2>1, <2>2 DEF Terminated, Ep, InEps
  <2> QED  BY <2>3, <2>4
<1>12. ASSUME \/ \E e \in InEps : WantMsg(e)
              \/ \E b \in Bufs : AllocOk(b) \/ SegmentAlloc(b) \/ AnswerSent(b)
              \/ AllocFails \/ DropOldest \/ KeepForReader \/ SubmitNow \/ FlushRx
              \/ CmdTake \/ CmdKeep \/ CmdFree \/ SegmentKeep \/ SegmentFree
              \/ HandleReset \/ UNCHANGED vars
       PROVE  Goal
  <2>1. /\ xfer' = xfer /\ ended' = ended /\ cut' = cut
        /\ (pc' = pc /\ cur' = cur) \/ (pc # "write" /\ pc' # "write")
    BY <1>12 DEF WantMsg, AllocOk, AllocFails, DropOldest, KeepForReader, SubmitNow, FlushRx,
         CmdTake, CmdKeep, CmdFree, SegmentAlloc, SegmentKeep, SegmentFree, AnswerSent,
         HandleReset, vars, pool, holders, main, history
  <2> QED  BY <1>1, <1>2, <2>1
<1> QED
  BY <1>3, <1>4, <1>5, <1>6, <1>7, <1>8, <1>9, <1>10, <1>11, <1>12
     DEF Next, ToHost, FromHost, UsbIrq

\* It holds at the start.
LEMMA EndingInit == Init => Transfers /\ Terminated
BY DEF Init, Transfers, Terminated, Quiet, Ep, InEps

\* It is an invariant.
LEMMA EndingInvariant == Spec => [](Transfers /\ Terminated)
<1>1. IInv /\ Transfers /\ Terminated /\ [Next]_vars => (Transfers /\ Terminated)'
  BY EndingNext DEF Ending
<1> QED  BY <1>1, EndingInit, Invariance, PTL DEF Spec

\* in_progress is set exactly while a transfer runs or is about to (usb_write_cb,
\* usb_refill_to_host): no halt or reconfiguration leaves an endpoint that is never
\* refilled, for messages of any length, except one that cuts a message of several
\* packets just after the first.
THEOREM EndpointsGivenBack == Spec => []InProgressIsTransfer
<1>1. Transfers => InProgressIsTransfer
  BY DEF Transfers, InProgressIsTransfer
<1> QED  BY <1>1, EndingInvariant, PTL

\* A message of exactly a packet is always followed by a zero-length packet
\* (usb_write_cb), whatever messages are sent before and after it.
THEOREM Terminates == Spec => []MessagesTerminated
<1>1. Terminated => MessagesTerminated
  BY DEF Terminated, MessagesTerminated
<1> QED  BY <1>1, EndingInvariant, PTL

-----------------------------------------------------------------------------
(***************************************************************************)
(* The USB buffers implement lossy queues, for every pool, every limit and *)
(* every set of message lengths: the refinement mapping of UsbBuf takes    *)
(* the message being written, the one in transfer and the queue, in that   *)
(* order, to one sequence per endpoint.                                    *)
(***************************************************************************)

\* Pending, of what it depends on: whether the main loop is about to write message m
\* to the endpoint, the message x in transfer, and the queue q.
Row(writes, m, x, q) ==
  (IF writes THEN <<m>> ELSE <<>>) \o (IF x # NoBuf THEN <<x>> ELSE <<>>) \o q

Writes(e) == pc = "write" /\ cur.ep = e

LEMMA PendingIs ==
  ASSUME NEW e
  PROVE  /\ Pending(e) = Row(Writes(e), cur.msg, xfer[e].msg, queue[e])
         /\ Pending(e)' = Row(Writes(e)', cur'.msg, xfer'[e].msg, queue'[e])
BY DEF Pending, Row, Writes

\* At most one message is ahead of the queue.
LEMMA RowIs ==
  ASSUME NEW q \in Seq(Bufs), NEW m, NEW x \in Bufs \cup {NoBuf}
  PROVE  /\ x = NoBuf => Row(FALSE, m, x, q) = q
         /\ m \in Bufs /\ x = NoBuf => Row(TRUE, m, x, q) = <<m>> \o q
         /\ x # NoBuf => Row(FALSE, m, x, q) = <<x>> \o q
<1>1. <<>> \o <<>> \o q = q
  OBVIOUS
<1>2. ASSUME m \in Bufs PROVE <<m>> \o <<>> \o q = <<m>> \o q
  BY <1>2
<1>3. ASSUME x \in Bufs PROVE <<>> \o <<x>> \o q = <<x>> \o q
  BY <1>3
<1> QED  BY <1>1, <1>2, <1>3, UsbAssumption DEF Row

\* What a channel may lose: nothing, its first message, or the one after its first.
LEMMA KeepsAll == ASSUME NEW q PROVE q \in Lossy!Less(q)
BY DEF Lossy!Less

LEMMA LosesFirst ==
  ASSUME NEW q \in Seq(Bufs), q # <<>>
  PROVE  Tail(q) \in Lossy!Less(q)
<1>1. 1 \in DOMAIN q /\ Len(q) \in Nat \ {0}
  OBVIOUS
<1>2. Tail(q) = SubSeq(q, 1, 0) \o SubSeq(q, 2, Len(q))
  BY <1>1
<1>3. Tail(q) = Lossy!RemoveAt(q, 1)
  BY <1>2 DEF Lossy!RemoveAt
<1> QED  BY <1>1, <1>3 DEF Lossy!Less

LEMMA LosesHead ==
  ASSUME NEW q \in Seq(Bufs), NEW m \in Bufs
  PROVE  q \in Lossy!Less(<<m>> \o q)
<1>1. /\ <<m>> \o q \in Seq(Bufs) /\ <<m>> \o q # <<>> /\ Tail(<<m>> \o q) = q
  OBVIOUS
<1> QED  BY <1>1, LosesFirst

LEMMA LosesSecond ==
  ASSUME NEW q \in Seq(Bufs), q # <<>>, NEW m \in Bufs
  PROVE  <<m>> \o Tail(q) \in Lossy!Less(<<m>> \o q)
<1> DEFINE r == <<m>> \o q
<1>1. 2 \in DOMAIN r /\ Len(r) = Len(q) + 1 /\ Len(q) \in Nat \ {0} /\ r \in Seq(Bufs)
  OBVIOUS
<1>2. SubSeq(r, 1, 1) = <<m>>
  <2>1. r[1] = m
    OBVIOUS
  <2> HIDE DEF r
  <2>2. SubSeq(r, 1, 1) \in Seq(Bufs) /\ Len(SubSeq(r, 1, 1)) = 1 /\ SubSeq(r, 1, 1)[1] = r[1]
    BY <1>1
  <2>3. <<m>> \in Seq(Bufs) /\ Len(<<m>>) = 1 /\ <<m>>[1] = m
    OBVIOUS
  <2> DEFINE t == SubSeq(r, 1, 1)
             u == <<m>>
  <2>4. t \in Seq(Bufs) /\ u \in Seq(Bufs) /\ Len(t) = Len(u) /\ Len(t) = 1 /\ t[1] = u[1]
    BY <2>1, <2>2, <2>3
  <2> HIDE DEF t, u
  <2>5. \A i \in 1..Len(t) : t[i] = u[i]
    BY <2>4
  <2>6. t = u
    BY <2>4, <2>5, SeqEqual
  <2> QED  BY <2>6 DEF t, u
<1>3. SubSeq(r, 3, Len(r)) = Tail(q)
  BY <1>1
<1>4. <<m>> \o Tail(q) = Lossy!RemoveAt(r, 2)
  BY <1>2, <1>3 DEF Lossy!RemoveAt
<1> HIDE DEF r
<1> QED  BY <1>1, <1>4 DEF Lossy!Less, r

\* What a step does to the message ahead of a queue and to the queue, when the main
\* loop is not writing to the endpoint.
LEMMA RowLoses ==
  ASSUME NEW q \in Seq(Bufs), NEW m, NEW n, NEW x \in Bufs \cup {NoBuf}
  PROVE  /\ Row(FALSE, n, x, q) \in Lossy!Less(Row(FALSE, m, x, q))
         /\ Row(FALSE, n, NoBuf, q) \in Lossy!Less(Row(FALSE, m, x, q))
         /\ q # <<>> => Row(FALSE, n, x, Tail(q)) \in Lossy!Less(Row(FALSE, m, x, q))
<1>1. q # <<>> => Tail(q) \in Seq(Bufs)
  OBVIOUS
<1>2. CASE x = NoBuf
  <2>1. Row(FALSE, m, x, q) = q /\ Row(FALSE, n, x, q) = q
    BY <1>2, RowIs
  <2>2. q # <<>> => Row(FALSE, n, x, Tail(q)) = Tail(q)
    BY <1>1, <1>2, RowIs
  <2> QED  BY <1>2, <2>1, <2>2, KeepsAll, LosesFirst
<1>3. CASE x # NoBuf
  <2>1. Row(FALSE, m, x, q) = <<x>> \o q /\ Row(FALSE, n, x, q) = <<x>> \o q
    BY <1>3, RowIs
  <2>2. q # <<>> => Row(FALSE, n, x, Tail(q)) = <<x>> \o Tail(q)
    BY <1>1, <1>3, RowIs
  <2>3. Row(FALSE, n, NoBuf, q) = q
    BY RowIs
  <2> QED  BY <1>3, <2>1, <2>2, <2>3, KeepsAll, LosesHead, LosesSecond
<1> QED  BY <1>2, <1>3

\* usb_buf_submit at the end of the queue is at the end of the channel.
LEMMA RowGains ==
  ASSUME NEW q \in Seq(Bufs), NEW m, NEW x \in Bufs \cup {NoBuf}, NEW b \in Bufs
  PROVE  Row(FALSE, m, x, Append(q, b)) = Append(Row(FALSE, m, x, q), b)
<1>1. Append(q, b) \in Seq(Bufs)
  OBVIOUS
<1>2. CASE x = NoBuf
  <2>1. Row(FALSE, m, x, Append(q, b)) = Append(q, b)
    BY <1>1, <1>2, RowIs
  <2>2. Row(FALSE, m, x, q) = q
    BY <1>2, RowIs
  <2> QED  BY <2>1, <2>2
<1>3. CASE x # NoBuf
  <2>1. <<x>> \o Append(q, b) = Append(<<x>> \o q, b)
    BY <1>3
  <2> QED  BY <1>1, <1>3, <2>1, RowIs
<1> QED  BY <1>2, <1>3

\* A row holds messages: the queue's and at most one more.
LEMMA RowType ==
  ASSUME NEW q \in Seq(Bufs), NEW m, NEW x \in Bufs \cup {NoBuf}
  PROVE  /\ Row(FALSE, m, x, q) \in Seq(Bufs)
         /\ Elems(Row(FALSE, m, x, q)) = ({x} \ {NoBuf}) \cup Elems(q)
<1>1. CASE x = NoBuf
  BY <1>1, RowIs
<1>2. CASE x # NoBuf
  <2>1. Row(FALSE, m, x, q) = <<x>> \o q
    BY <1>2, RowIs
  <2>2. /\ DOMAIN (<<x>> \o q) = 1..(Len(q) + 1) /\ (<<x>> \o q)[1] = x /\ Len(q) \in Nat
        /\ DOMAIN q = 1..Len(q)
        /\ \A i \in 1..Len(q) : (<<x>> \o q)[i + 1] = q[i]
        /\ \A i \in 2..(Len(q) + 1) : i - 1 \in 1..Len(q) /\ (<<x>> \o q)[i] = q[i - 1]
    BY <1>2
  <2>3. \A y \in Elems(<<x>> \o q) : y = x \/ y \in Elems(q)
    BY <2>2 DEF Elems
  <2>4. \A i \in 1..Len(q) : q[i] \in Elems(<<x>> \o q)
    <3> TAKE i \in 1..Len(q)
    <3>1. i + 1 \in 1..(Len(q) + 1)
      BY <2>2
    <3> QED  BY <2>2, <3>1 DEF Elems
  <2>5. x \in Elems(<<x>> \o q)
    <3>1. 1 \in 1..(Len(q) + 1)
      BY <2>2
    <3> QED  BY <2>2, <3>1 DEF Elems
  <2>6. Elems(q) \subseteq Elems(<<x>> \o q)
    BY <2>2, <2>4 DEF Elems
  <2>7. Elems(<<x>> \o q) = {x} \cup Elems(q)
    BY <2>3, <2>5, <2>6
  <2>8. <<x>> \o q \in Seq(Bufs)
    BY <1>2
  <2> QED  BY <1>2, <2>1, <2>7, <2>8
<1> QED  BY <1>1, <1>2

-----------------------------------------------------------------------------
\* The channels.
Chans == [e \in InEps |-> Pending(e)]

\* Their parts, in a reachable state, and the channel the main loop does not write to.
LEMMA PartsAre ==
  ASSUME Own, NEW e \in InEps
  PROVE  /\ e \in Ep /\ queue[e] \in Seq(Bufs) /\ xfer[e].msg \in Bufs \cup {NoBuf}
         /\ Writes(e) => cur.msg \in Bufs /\ xfer[e].msg = NoBuf /\ xfer[e].state # "BUSY"
         /\ xfer[e].state = "BUSY" => xfer[e].msg \in Bufs /\ xfer[e].inProgress = 1
         /\ xfer[e].inProgress = 0 => xfer[e].msg = NoBuf
BY DEF Own, IInv, TypeOK, MainHolds, TransferHolds, Clean, Ep, Xfer, Writes

LEMMA NotWriting ==
  ASSUME NEW e
  PROVE  /\ ~Writes(e) => Pending(e) = Row(FALSE, cur.msg, xfer[e].msg, queue[e])
         /\ ~Writes(e)' => Pending(e)' = Row(FALSE, cur'.msg, xfer'[e].msg, queue'[e])
BY PendingIs DEF Row

LEMMA Writing ==
  ASSUME Own, NEW e \in InEps, Writes(e)
  PROVE  Pending(e) = <<cur.msg>> \o queue[e]
<1>1. Pending(e) = Row(TRUE, cur.msg, xfer[e].msg, queue[e])
  BY PendingIs DEF Row
<1> QED  BY <1>1, PartsAre, RowIs

LEMMA PendingType ==
  ASSUME Own, NEW e \in InEps
  PROVE  Pending(e) \in Seq(Bufs)
<1>0. /\ queue[e] \in Seq(Bufs) /\ xfer[e].msg \in Bufs \cup {NoBuf}
      /\ Writes(e) => cur.msg \in Bufs
  BY PartsAre
<1>1. CASE Writes(e)
  <2>1. Pending(e) = <<cur.msg>> \o queue[e]
    BY <1>1, Writing
  <2> QED  BY <1>0, <1>1, <2>1
<1>2. CASE ~Writes(e)
  <2>1. Pending(e) = Row(FALSE, cur.msg, xfer[e].msg, queue[e])
    BY <1>2, NotWriting
  <2>2. Row(FALSE, cur.msg, xfer[e].msg, queue[e]) \in Seq(Bufs)
    BY <1>0, RowType
  <2> QED  BY <2>1, <2>2
<1> QED  BY <1>1, <1>2

\* Steps of the channels: none,
LEMMA ChansSame ==
  ASSUME \A e \in InEps : Pending(e)' = Pending(e)
  PROVE  Chans' = Chans
BY DEF Chans, InEps

\* a loss,
LEMMA IsLeave ==
  ASSUME \A e \in InEps : Pending(e)' \in Lossy!Less(Pending(e)) /\ Pending(e)' \in Seq(Bufs)
  PROVE  Lossy!Leave
<1>1. Chans' = [e \in InEps |-> Pending(e)']
  BY DEF Chans, InEps
<1>2. Chans' \in [InEps -> Seq(Bufs)]
  BY <1>1
<1>3. \A e \in InEps : Chans'[e] \in Lossy!Less(Chans[e])
  BY <1>1 DEF Chans
<1> QED  BY <1>2, <1>3 DEF Lossy!Leave, Chans

\* and a new message.
LEMMA IsPut ==
  ASSUME NEW e \in InEps, NEW b \in Bufs, b \notin Elems(Pending(e)),
         NEW q \in Lossy!Less(Pending(e)), Pending(e)' = Append(q, b),
         \A d \in InEps : d # e => Pending(d)' = Pending(d)
  PROVE  Lossy!Put(e, b)
<1>1. Chans' = [d \in InEps |-> Pending(d)']
  BY DEF Chans, InEps
<1>2. Chans' = [Chans EXCEPT ![e] = Append(q, b)]
  BY <1>1 DEF Chans
<1>3. \A i \in DOMAIN Chans[e] : Chans[e][i] # b
  BY DEF Chans, Elems
<1>4. q \in Lossy!Less(Chans[e])
  BY DEF Chans
<1> QED  BY <1>2, <1>3, <1>4 DEF Lossy!Put, Chans

\* Transfers that end, whole or aborted, take the first message of their channels.
LEMMA TransfersLeave ==
  ASSUME Own, queue' = queue, pc' = pc, cur' = cur,
         \A e \in InEps : xfer'[e].msg = xfer[e].msg \/ (xfer'[e].msg = NoBuf /\ ~Writes(e))
  PROVE  Lossy!Leave
<1> SUFFICES ASSUME NEW e \in InEps
             PROVE  Pending(e)' \in Lossy!Less(Pending(e)) /\ Pending(e)' \in Seq(Bufs)
  BY IsLeave
<1>1. CASE xfer'[e].msg = xfer[e].msg
  <2>1. Pending(e)' = Pending(e)
    BY <1>1 DEF Pending
  <2> QED  BY <2>1, KeepsAll, PendingType
<1>2. CASE xfer'[e].msg = NoBuf /\ ~Writes(e)
  <2>1. ~Writes(e)'
    BY <1>2 DEF Writes
  <2>2. /\ Pending(e) = Row(FALSE, cur.msg, xfer[e].msg, queue[e])
        /\ Pending(e)' = Row(FALSE, cur.msg, NoBuf, queue[e])
    BY <1>2, <2>1, NotWriting
  <2>3. queue[e] \in Seq(Bufs) /\ xfer[e].msg \in Bufs \cup {NoBuf}
    BY PartsAre
  <2>4. Row(FALSE, cur.msg, NoBuf, queue[e])
          \in Lossy!Less(Row(FALSE, cur.msg, xfer[e].msg, queue[e]))
    BY <2>3, RowLoses
  <2>5. Row(FALSE, cur.msg, NoBuf, queue[e]) \in Seq(Bufs)
    BY <2>3, RowType
  <2> QED  BY <2>2, <2>4, <2>5
<1> QED  BY <1>1, <1>2

\* usb_buf_submit puts its message into the channel of the endpoint, which loses the
\* evicted one.
LEMMA SubmitPuts ==
  ASSUME Own, NEW e \in InEps, NEW b \in Bufs, Submit(e, b),
         b \notin Queued(e), b # xfer[e].msg,
         pc # "write", pc' # "write", xfer' = xfer
  PROVE  Lossy!Put(e, b)
<1> DEFINE x == xfer[e].msg
           q == IF Full(e) THEN Dequeue(e)[e] ELSE queue[e]
<1>1. /\ e \in Ep /\ queue[e] \in Seq(Bufs) /\ x \in Bufs \cup {NoBuf}
      /\ b \notin Elems(queue[e])
  BY PartsAre, QueuedIs
<1>2. q = queue[e] \/ (queue[e] # <<>> /\ q = Tail(queue[e]))
  BY <1>1, DequeueIs DEF Own
<1>3. queue' = [queue EXCEPT ![e] = Append(q, b)]
  BY DEF Submit
<1>4. queue'[e] = Append(q, b) /\ \A d \in Ep : d # e => queue'[d] = queue[d]
  BY <1>1, <1>3 DEF Own, IInv, TypeOK
<1>5. ASSUME NEW d \in InEps, d # e PROVE Pending(d)' = Pending(d)
  <2>1. queue'[d] = queue[d]
    BY <1>4, <1>5 DEF Ep
  <2> QED  BY <2>1 DEF Pending
<1> HIDE DEF q
<1>6. q \in Seq(Bufs)
  <2>1. queue[e] # <<>> => Tail(queue[e]) \in Seq(Bufs)
    BY <1>1
  <2> QED  BY <1>1, <1>2, <2>1
<1>7. /\ Pending(e) = Row(FALSE, cur.msg, x, queue[e])
      /\ Pending(e)' = Row(FALSE, cur'.msg, x, Append(q, b))
  <2>1. ~Writes(e) /\ ~Writes(e)'
    BY DEF Writes
  <2> QED  BY <1>4, <2>1, NotWriting
<1> HIDE DEF x
<1>8. Row(FALSE, cur'.msg, x, q) \in Lossy!Less(Row(FALSE, cur.msg, x, queue[e]))
  BY <1>1, <1>2, RowLoses
<1>9. Row(FALSE, cur'.msg, x, Append(q, b)) = Append(Row(FALSE, cur'.msg, x, q), b)
  BY <1>1, <1>6, RowGains
<1>10. b \notin Elems(Row(FALSE, cur.msg, x, queue[e]))
  <2>1. Elems(Row(FALSE, cur.msg, x, queue[e])) = ({x} \ {NoBuf}) \cup Elems(queue[e])
    BY <1>1, RowType
  <2> QED  BY <1>1, <2>1 DEF x
<1> DEFINE r == Row(FALSE, cur'.msg, x, q)
<1>11. /\ r \in Lossy!Less(Pending(e)) /\ Pending(e)' = Append(r, b)
       /\ b \notin Elems(Pending(e))
  BY <1>7, <1>8, <1>9, <1>10
<1> HIDE DEF r
<1> QED  BY <1>5, <1>11, IsPut

\* A step that leaves the queues to the host, their transfers and the main loop's
\* write alone.
LEMMA Untouched ==
  ASSUME \A e \in InEps : queue'[e] = queue[e] /\ xfer'[e].msg = xfer[e].msg,
         \/ UNCHANGED <<pc, cur>>
         \/ pc # "write" /\ pc' # "write"
  PROVE  Chans' = Chans
<1>1. ASSUME NEW e \in InEps PROVE Pending(e)' = Pending(e)
  BY DEF Pending
<1> QED  BY <1>1, ChansSame

\* The messages the main loop is about to submit are in no channel.
LEMMA NotYetPut ==
  ASSUME Own, NEW e \in InEps, NEW b \in Bufs,
         b = cur.msg \/ b = rxMsg
  PROVE  b \notin Queued(e) /\ b # xfer[e].msg
<1>1. PICK p \in {<<"main", "loop">>, <<"card", "rx">>} : b \in Hold[p]
  BY HoldIs, UsbAssumption
<1>2. /\ p \in Place /\ <<"queue", e>> \in Place /\ <<"transfer", e>> \in Place /\ e \in Ep
  BY PlacesAre DEF Ep
<1>3. p # <<"queue", e>> /\ p # <<"transfer", e>>
  <2>1. <<"main", "loop">> # <<"queue", e>> /\ <<"card", "rx">> # <<"queue", e>>
    OBVIOUS
  <2>2. <<"main", "loop">> # <<"transfer", e>> /\ <<"card", "rx">> # <<"transfer", e>>
    OBVIOUS
  <2> QED  BY <2>1, <2>2
<1>4. b \notin Hold[<<"queue", e>>] /\ b \notin Hold[<<"transfer", e>>]
  BY <1>1, <1>2, <1>3, HoldInUse
<1>5. Hold[<<"queue", e>>] = Queued(e) /\ Hold[<<"transfer", e>>] = {xfer[e].msg} \ {NoBuf}
  BY <1>2, HoldIs
<1> QED  BY <1>4, <1>5, UsbAssumption

\* Every step of the buffers is a step of the channels, or none.
LEMMA StepIsLossy ==
  ASSUME Own, [Next]_vars
  PROVE  Lossy!Next \/ Chans' = Chans
<1> DEFINE Goal == Lossy!Next \/ Chans' = Chans
<1>0. /\ Clean /\ MainHolds /\ TypeOK /\ TransferHolds /\ IInv
      /\ OutEp \notin InEps /\ InEp \in InEps /\ InEps \subseteq Ep /\ OutEp \in Ep
  BY UsbAssumption DEF Own, IInv, Ep, InEps
<1>1. ASSUME NEW e \in InEps, WantMsg(e) PROVE Goal
  BY <1>1, Untouched DEF WantMsg, pool
<1>2. ASSUME NEW b \in Bufs, AllocOk(b) PROVE Goal
  BY <1>2, Untouched DEF AllocOk
<1>3. CASE AllocFails
  BY <1>3, Untouched DEF AllocFails, pool
<1>4. CASE DropOldest
  <2>0. PICK c \in InEps : c = cur.ep
    BY <1>0, <1>4 DEF DropOldest, MainHolds
  <2>1. /\ c \in InEps /\ queue[c] # <<>> /\ queue' = Dequeue(c)
        /\ pc = "drop" /\ pc' = "alloc" /\ UNCHANGED <<xfer, cur>>
    BY <1>0, <1>4, <2>0 DEF DropOldest, MainHolds
  <2>2. /\ queue'[c] = Tail(queue[c]) /\ \A d \in Ep : d # c => queue'[d] = queue[d]
        /\ c \in Ep
    BY <1>0, <2>1 DEF Dequeue, TypeOK
  <2>3. ASSUME NEW e \in InEps, e # c PROVE Pending(e)' = Pending(e)
    <3>1. queue'[e] = queue[e]
      BY <1>0, <2>2, <2>3
    <3> QED  BY <2>1, <3>1 DEF Pending
  <2>4. /\ Pending(c) = Row(FALSE, cur.msg, xfer[c].msg, queue[c])
        /\ Pending(c)' = Row(FALSE, cur.msg, xfer[c].msg, Tail(queue[c]))
    <3>1. ~Writes(c) /\ ~Writes(c)'
      BY <2>1 DEF Writes
    <3> QED  BY <2>1, <2>2, <3>1, NotWriting
  <2>5. queue[c] \in Seq(Bufs) /\ xfer[c].msg \in Bufs \cup {NoBuf}
    BY <2>1, PartsAre
  <2>6. Pending(c)' \in Lossy!Less(Pending(c))
    BY <2>1, <2>4, <2>5, RowLoses
  <2>7. Tail(queue[c]) \in Seq(Bufs)
    BY <2>1, <2>5
  <2>8. Pending(c)' \in Seq(Bufs)
    <3>1. Row(FALSE, cur.msg, xfer[c].msg, Tail(queue[c])) \in Seq(Bufs)
      BY <2>5, <2>7, RowType
    <3> QED  BY <2>4, <3>1
  <2>9. \A e \in InEps : Pending(e)' \in Lossy!Less(Pending(e)) /\ Pending(e)' \in Seq(Bufs)
    BY <2>3, <2>6, <2>8, KeepsAll, PendingType
  <2> QED  BY <2>9, IsLeave DEF Lossy!Next
<1>5. CASE KeepForReader
  BY <1>5, Untouched DEF KeepForReader, pool
<1>6. CASE SubmitNow
  <2>1. /\ cur.ep \in InEps /\ cur.msg \in Bufs /\ Submit(cur.ep, cur.msg)
        /\ pc # "write" /\ pc' # "write" /\ xfer' = xfer
    BY <1>0, <1>6 DEF SubmitNow, MainHolds
  <2>2. Lossy!Put(cur.ep, cur.msg)
    BY <2>1, NotYetPut, SubmitPuts
  <2> QED  BY <2>1, <2>2 DEF Lossy!Next
<1>7. CASE FlushRx
  <2>1. /\ rxMsg \in Bufs /\ Submit(InEp, rxMsg)
        /\ pc # "write" /\ pc' # "write" /\ xfer' = xfer
    BY <1>0, <1>7 DEF FlushRx, TypeOK, main
  <2>2. Lossy!Put(InEp, rxMsg)
    BY <1>0, <2>1, NotYetPut, SubmitPuts
  <2> QED  BY <1>0, <2>1, <2>2 DEF Lossy!Next
<1>8. ASSUME NEW e \in InEps, RefillTake(e) PROVE Goal
  <2>1. /\ xfer[e] \in Xfer /\ xfer[e].msg = NoBuf /\ queue[e] # <<>> /\ queue[e] \in Seq(Bufs)
        /\ e \in Ep
    BY <1>0, <1>8 DEF RefillTake, Clean, TypeOK
  <2>2. /\ pc = "idle" /\ pc' = "write" /\ cur' = [ep |-> e, msg |-> Head(queue[e])]
        /\ queue'[e] = Tail(queue[e]) /\ \A d \in Ep : d # e => queue'[d] = queue[d]
    BY <1>0, <1>8, <2>1 DEF RefillTake, Dequeue, TypeOK
  <2>3. \A d \in Ep : xfer'[d].msg = xfer[d].msg
    BY <1>0, <1>8, <2>1 DEF RefillTake, TypeOK, Xfer
  <2>4. ASSUME NEW d \in InEps, d # e PROVE Pending(d)' = Pending(d)
    <3>1. queue'[d] = queue[d] /\ xfer'[d].msg = xfer[d].msg
      BY <1>0, <2>2, <2>3, <2>4
    <3> QED  BY <2>2, <2>4, <3>1 DEF Pending
  <2>5. Pending(e) = queue[e]
    <3>1. ~Writes(e)
      BY <2>2 DEF Writes
    <3>2. Pending(e) = Row(FALSE, cur.msg, NoBuf, queue[e])
      BY <2>1, <3>1, NotWriting
    <3> QED  BY <2>1, <3>2, RowIs
  <2>6. Pending(e)' = <<Head(queue[e])>> \o Tail(queue[e])
    <3>1. Writes(e)' /\ xfer'[e].msg = NoBuf
      BY <2>1, <2>2, <2>3 DEF Writes
    <3>2. Pending(e)' = Row(TRUE, Head(queue[e]), NoBuf, Tail(queue[e]))
      BY <2>2, <3>1, PendingIs DEF Row
    <3>3. Head(queue[e]) \in Bufs /\ Tail(queue[e]) \in Seq(Bufs)
      BY <2>1
    <3> QED  BY <3>2, <3>3, RowIs
  <2>7. <<Head(queue[e])>> \o Tail(queue[e]) = queue[e]
    BY <2>1, HeadTailProperties
  <2> QED  BY <2>4, <2>5, <2>6, <2>7, ChansSame
<1>9. CASE WriteOk
  <2>0. PICK c \in InEps : c = cur.ep
    BY <1>0, <1>9 DEF WriteOk, MainHolds
  <2>1. /\ c \in InEps /\ c \in Ep /\ xfer[c] \in Xfer /\ pc = "write" /\ xfer[c].state # "BUSY"
        /\ cur.msg \in Bufs /\ pc' = "idle" /\ queue' = queue
    BY <1>0, <1>9, <2>0 DEF WriteOk, MainHolds, TypeOK, pool
  <2>2. PICK z \in Sizes :
          xfer' = [xfer EXCEPT ![c].state = "BUSY", ![c].msg = cur.msg, ![c].size = z]
    BY <1>9, <2>0 DEF WriteOk
  <2>3. xfer'[c].msg = cur.msg /\ \A d \in Ep : d # c => xfer'[d] = xfer[d]
    BY <1>0, <2>1, <2>2 DEF TypeOK, Xfer
  <2>4. ASSUME NEW d \in InEps, d # c PROVE Pending(d)' = Pending(d)
    <3>1. queue'[d] = queue[d] /\ xfer'[d].msg = xfer[d].msg
      BY <1>0, <2>1, <2>3, <2>4
    <3> QED  BY <2>0, <2>1, <2>4, <3>1 DEF Pending
  <2>5. Pending(c) = <<cur.msg>> \o queue[c]
    <3>1. Writes(c)
      BY <2>0, <2>1 DEF Writes
    <3> QED  BY <2>1, <3>1, Writing
  <2>6. Pending(c)' = <<cur.msg>> \o queue[c]
    <3>1. ~Writes(c)'
      BY <2>1 DEF Writes
    <3>2. Pending(c)' = Row(FALSE, cur'.msg, cur.msg, queue[c])
      BY <2>1, <2>3, <3>1, NotWriting
    <3>3. queue[c] \in Seq(Bufs) /\ cur.msg # NoBuf
      BY <2>1, PartsAre, UsbAssumption
    <3> QED  BY <2>1, <3>2, <3>3, RowIs, ZenonT(60)
  <2> QED  BY <2>4, <2>5, <2>6, ChansSame
<1>10. CASE WriteLocked
  <2>0. PICK c \in InEps : c = cur.ep
    BY <1>0, <1>10 DEF WriteLocked, MainHolds
  <2>1. /\ c \in InEps /\ c \in Ep /\ xfer[c] \in Xfer /\ pc = "write"
        /\ cur.msg \in Bufs /\ pc' = "idle" /\ xfer[c].msg = NoBuf
        /\ queue[c] \in Seq(Bufs)
    BY <1>0, <1>10, <2>0 DEF WriteLocked, MainHolds, TypeOK, Clean
  <2>2. queue'[c] = <<cur.msg>> \o queue[c] /\ \A d \in Ep : d # c => queue'[d] = queue[d]
    BY <1>0, <1>10, <2>0, <2>1 DEF WriteLocked, TypeOK
  <2>3. \A d \in Ep : xfer'[d].msg = xfer[d].msg
    BY <1>0, <1>10, <2>0, <2>1 DEF WriteLocked, TypeOK, Xfer
  <2>4. ASSUME NEW d \in InEps, d # c PROVE Pending(d)' = Pending(d)
    <3>1. queue'[d] = queue[d] /\ xfer'[d].msg = xfer[d].msg
      BY <1>0, <2>2, <2>3, <2>4
    <3> QED  BY <2>0, <2>1, <2>4, <3>1 DEF Pending
  <2>5. Pending(c) = <<cur.msg>> \o queue[c]
    <3>1. Writes(c)
      BY <2>0, <2>1 DEF Writes
    <3> QED  BY <2>1, <3>1, Writing
  <2>6. Pending(c)' = <<cur.msg>> \o queue[c]
    <3>1. ~Writes(c)'
      BY <2>1 DEF Writes
    <3>2. Pending(c)' = Row(FALSE, cur'.msg, NoBuf, <<cur.msg>> \o queue[c])
      BY <2>1, <2>2, <2>3, <3>1, NotWriting
    <3>3. <<cur.msg>> \o queue[c] \in Seq(Bufs)
      BY <2>1
    <3>4. Row(FALSE, cur'.msg, NoBuf, <<cur.msg>> \o queue[c]) = <<cur.msg>> \o queue[c]
      BY <3>3, RowIs
    <3> QED  BY <3>2, <3>4
  <2> QED  BY <2>4, <2>5, <2>6, ChansSame
<1>11. ASSUME NEW b \in Bufs, RefillFromHost(b) PROVE Goal
  <2>1. \A d \in InEps : xfer'[d] = xfer[d]
    BY <1>0, <1>11 DEF RefillFromHost, TypeOK
  <2> QED  BY <1>11, <2>1, Untouched DEF RefillFromHost, main
<1>12. CASE CmdTake
  <2>1. \A d \in InEps : queue'[d] = queue[d]
    BY <1>0, <1>12 DEF CmdTake, Dequeue, TypeOK
  <2> QED  BY <1>12, <2>1, Untouched DEF CmdTake, main
<1>13. CmdKeep \/ CmdFree \/ SegmentKeep \/ SegmentFree \/ HandleReset => Goal
  BY Untouched DEF CmdKeep, CmdFree, SegmentKeep, SegmentFree, HandleReset, pool, main
<1>14. ASSUME NEW b \in Bufs, SegmentAlloc(b) \/ AnswerSent(b) PROVE Goal
  BY <1>14, Untouched DEF SegmentAlloc, AnswerSent, main
<1>15. ASSUME NEW e \in InEps, TxDone(e) PROVE Goal
  <2> DEFINE x == xfer[e]
             one == x.size = "one"
  <2>1. /\ x.state = "BUSY" /\ xfer' = [xfer EXCEPT ![e] = WriteEnded(x, one, TRUE)]
        /\ queue' = queue /\ pc' = pc /\ cur' = cur
    BY <1>15 DEF TxDone, main
  <2>2. x \in Xfer /\ x.inProgress = 1 /\ ~Writes(e) /\ e \in Ep
    BY <1>0, <2>1, PartsAre DEF TypeOK
  <2>3. xfer'[e] = WriteEnded(x, one, TRUE) /\ \A d \in Ep : d # e => xfer'[d] = xfer[d]
    BY <1>0, <2>1, <2>2 DEF TypeOK
  <2> HIDE DEF one, x
  <2>4. WriteEnded(x, one, TRUE).msg \in {x.msg, NoBuf}
    <3>1. CASE NeedsZlp(x, one)
      <4>1. WriteEnded(x, one, TRUE) \in
              {y \in Xfer : y.inProgress = x.inProgress /\ y.msg = x.msg /\ y.state = x.state}
        BY <2>2, <3>1, WriteEndedZlp
      <4> QED  BY <4>1
    <3>2. CASE ~NeedsZlp(x, one)
      <4>1. WriteEnded(x, one, TRUE) = Quiet
        BY <2>2, <3>2, WriteEndedQuiet
      <4>2. Quiet.msg = NoBuf
        BY DEF Quiet
      <4> QED  BY <4>1, <4>2
    <3> QED  BY <3>1, <3>2
  <2>5. \A d \in InEps : xfer'[d].msg = xfer[d].msg \/ (xfer'[d].msg = NoBuf /\ ~Writes(d))
    BY <1>0, <2>2, <2>3, <2>4 DEF x
  <2>6. Lossy!Leave
    BY <2>1, <2>5, TransfersLeave
  <2> QED  BY <2>6 DEF Lossy!Next
<1>16. ASSUME NEW es \in SUBSET Ep, NEW s \in {"IDLE", "HALTED"}, Abort(es, s),
              queue' = queue, pc' = pc, cur' = cur
       PROVE  Goal
  <2>1. PICK L : \A e \in Ep :
                   /\ {xfer'[e].msg} \ {NoBuf} = ({xfer[e].msg} \ {NoBuf}) \ L
                   /\ xfer[e].state # "BUSY" => xfer'[e].msg = xfer[e].msg
    BY <1>16, AbortDrops
  <2>2. ASSUME NEW e \in InEps
        PROVE  xfer'[e].msg = xfer[e].msg \/ (xfer'[e].msg = NoBuf /\ ~Writes(e))
    <3>1. Writes(e) => xfer'[e].msg = xfer[e].msg
      BY <1>0, <2>1, PartsAre
    <3>2. xfer'[e].msg \in {NoBuf, xfer[e].msg}
      BY <1>0, <2>1
    <3> QED  BY <3>1, <3>2
  <2>3. Lossy!Leave
    BY <1>16, <2>2, TransfersLeave
  <2> QED  BY <2>3 DEF Lossy!Next
<1>17. ASSUME NEW e \in Ep, SetHalt(e) PROVE Goal
  BY <1>16, <1>17 DEF SetHalt, main
<1>18. CASE SetConfiguration
  BY <1>16, <1>18 DEF SetConfiguration, main
<1>19. ASSUME NEW e \in Ep, ClearHalt(e) PROVE Goal
  <2>1. \A d \in Ep : xfer'[d].msg = xfer[d].msg
    BY <1>0, <1>19 DEF ClearHalt, TypeOK, Xfer
  <2> QED  BY <1>0, <1>19, <2>1, Untouched DEF ClearHalt, main, pool
<1>20. CASE RxDone
  <2>1. \A d \in InEps : queue'[d] = queue[d] /\ xfer'[d] = xfer[d]
    BY <1>0, <1>20 DEF RxDone, TypeOK
  <2> QED  BY <1>20, <2>1, Untouched DEF RxDone, main
<1>21. CASE UNCHANGED vars
  BY <1>21, Untouched DEF vars
<1> QED  BY <1>1, <1>2, <1>3, <1>4, <1>5, <1>6, <1>7, <1>8, <1>9, <1>10, <1>11, <1>12, <1>13,
   <1>14, <1>15, <1>17, <1>18, <1>19, <1>20, <1>21 DEF Next, ToHost, FromHost, UsbIrq

\* What the host reads from an endpoint is what was submitted to it, each message
\* once and in order, though messages are evicted, dropped or lost with an aborted
\* transfer, refused ones go back to the head of the queue, and the USB interrupt comes
\* at any moment: for every pool and every limit.
THEOREM KeepsTheOrder == Spec => KeepsOrder
<1>1. Init => Lossy!Init
  <2> SUFFICES ASSUME Init, NEW e \in InEps PROVE Pending(e) = <<>>
    BY DEF Lossy!Init
  <2>1. pc = "idle" /\ xfer[e].msg = NoBuf /\ queue[e] = <<>>
    BY DEF Init, Quiet, Ep
  <2> QED  BY <2>1 DEF Pending
<1>2. Own /\ [Next]_vars => [Lossy!Next]_([e \in InEps |-> Pending(e)])
  BY StepIsLossy DEF Chans
<1>3. Own /\ [Next]_vars => Own'
  <2> SUFFICES ASSUME Own, [Next]_vars PROVE Own'
    OBVIOUS
  <2>1. IInv'
    BY InvNext DEF Own
  <2> QED  BY <2>1, CleanNext, OwnedNext DEF Own
<1>4. Spec => Lossy!Init /\ [][Lossy!Next]_([e \in InEps |-> Pending(e)])
  BY <1>1, <1>2, <1>3, OwnInit, PTL DEF Spec
<1> QED  BY <1>4, PTL DEF KeepsOrder, Lossy!Spec

=============================================================================
