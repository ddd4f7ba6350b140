------------------------------- MODULE UsbBuf -------------------------------
(***************************************************************************)
(* The buffers between the firmware and the USB host: the fixed pool       *)
(* (pseudo_talloc.c), one queue and one transfer per endpoint (usb_buf.c,  *)
(* host_communication.c), the allocation that drops the oldest message     *)
(* (card_emu.c), and the commands that keep or release the buffers they    *)
(* came in (mode_cardemu.c).                                               *)
(*                                                                         *)
(* The main loop holds a buffer from its allocation to its submission, and *)
(* from a queue to USBD_Write.  The USB interrupt completes or aborts a    *)
(* transfer and runs its call-back at any moment.  A call of USBD_Write or *)
(* USBD_Read is one step: the endpoint is idle or halted before it, and no *)
(* interrupt changes an idle endpoint otherwise than by halting it.        *)
(*                                                                         *)
(* A message is its buffer.  Of its length only the relation to the        *)
(* endpoint's packet size matters, chosen when the transfer starts.        *)
(***************************************************************************)
EXTENDS Integers, Sequences

CONSTANTS
  Bufs,        \* the buffers of the pool (NUM_RCTX_SMALL of them)
  InEp, IntEp, \* the endpoints to the host: bulk IN and interrupt
  OutEp,       \* the endpoint from the host
  NoBuf,       \* the null pointer
  UsbMaxQlen,  \* USB_MAX_QLEN
  QlenMod,     \* queue_len is unsigned: its values are 0..QlenMod-1
  Sizes        \* lengths in packets: "short", "one" packet, "many" packets

InEps == {InEp, IntEp}
Ep == InEps \cup {OutEp}

ASSUME UsbAssumption ==
  /\ InEp # IntEp /\ OutEp \notin InEps /\ NoBuf \notin Bufs
  /\ UsbMaxQlen \in Nat \ {0} /\ QlenMod \in Nat /\ QlenMod > UsbMaxQlen
  /\ Sizes \subseteq {"short", "one", "many"}

VARIABLES
  inUse,   \* msgb_inuse: the buffers taken from the pool
  queue,   \* usb_buffered_ep.queue
  qlen,    \* usb_buffered_ep.queue_len (the OUT queue is never counted)
  xfer,    \* in_progress, and the USB stack's endpoint: state, argument, size
  rxMsg,   \* ch->uart_rx_msg
  txMsgs,  \* ch->uart_tx_msg and ch->uart_tx_queue
  cmd,     \* the command being dispatched, whether in segments, the segment
  pc, cur, \* where the main loop is; the endpoint and buffer it works on
  ended,   \* history: per IN endpoint, the last message of at most a packet ended
           \* with a short packet
  refused, \* history: per IN endpoint, USBD_Write refused a message
  cut      \* history: the endpoints that had a message of several packets aborted
           \* just when the host had acknowledged its first packet

pool == <<inUse, queue, qlen>>
holders == <<rxMsg, txMsgs, cmd>>
main == <<pc, cur>>
history == <<ended, refused, cut>>
vars == <<inUse, queue, qlen, xfer, rxMsg, txMsgs, cmd, pc, cur, ended, refused, cut>>

Xfer == [inProgress : 0..1, state : {"IDLE", "BUSY", "HALTED"},
         msg : Bufs \cup {NoBuf}, size : Sizes \cup {"none"}, zlp : BOOLEAN]
Quiet == [inProgress |-> 0, state |-> "IDLE", msg |-> NoBuf, size |-> "none",
          zlp |-> FALSE]
NoCmd == [msg |-> NoBuf, slow |-> FALSE, segm |-> NoBuf]
NoWork == [ep |-> OutEp, msg |-> NoBuf]

Init ==
  /\ inUse = {} /\ queue = [e \in Ep |-> <<>>] /\ qlen = [e \in InEps |-> 0]
  /\ xfer = [e \in Ep |-> Quiet]
  /\ rxMsg = NoBuf /\ txMsgs = {} /\ cmd = NoCmd
  /\ pc = "idle" /\ cur = NoWork
  /\ ended = [e \in InEps |-> TRUE] /\ refused = [e \in InEps |-> FALSE]
  /\ cut = {}

\* seeded fault: a dequeued message is not counted
UncountNot(e) == qlen

\* msgb_dequeue_count: the count goes down only when there was a message
Uncount(e) == [qlen EXCEPT ![e] = IF queue[e] = <<>> THEN @ ELSE (@ - 1) % QlenMod]
Dequeue(e) == [queue EXCEPT ![e] = IF @ = <<>> THEN @ ELSE Tail(@)]

-----------------------------------------------------------------------------
(* Messages to the host.                                                    *)

\* usb_buf_alloc_st is called for a message to endpoint e
WantMsg(e) ==
  /\ pc = "idle"
  /\ pc' = "alloc" /\ cur' = [ep |-> e, msg |-> NoBuf]
  /\ UNCHANGED <<pool, xfer, holders, history>>

AllocOk(b) ==
  /\ pc = "alloc" /\ b \notin inUse
  /\ inUse' = inUse \cup {b}
  /\ cur' = [cur EXCEPT !.msg = b] /\ pc' = "fill"
  /\ UNCHANGED <<queue, qlen, xfer, holders, history>>

\* the pool is exhausted: drop the oldest queued message and try again, or give up
AllocFails ==
  /\ pc = "alloc" /\ inUse = Bufs
  /\ pc' = IF queue[cur.ep] = <<>> THEN "idle" ELSE "drop"
  /\ cur' = IF queue[cur.ep] = <<>> THEN NoWork ELSE cur
  /\ UNCHANGED <<pool, xfer, holders, history>>

DropOldest ==
  /\ pc = "drop"
  /\ inUse' = inUse \ {Head(queue[cur.ep])}
  /\ queue' = Dequeue(cur.ep) /\ qlen' = Uncount(cur.ep)
  /\ pc' = "alloc"
  /\ UNCHANGED <<xfer, holders, cur, history>>

\* the message collects bytes from the reader before it is submitted
KeepForReader ==
  /\ pc = "fill" /\ cur.ep = InEp /\ rxMsg = NoBuf
  /\ rxMsg' = cur.msg
  /\ pc' = "idle" /\ cur' = NoWork
  /\ UNCHANGED <<pool, xfer, txMsgs, cmd, history>>

\* seeded fault: the evicted message is not released
EvictedLeak(e) == {}

\* usb_buf_submit: a full queue loses its oldest message
Full(e) == qlen[e] >= UsbMaxQlen
Evicted(e) == IF Full(e) /\ queue[e] # <<>> THEN {Head(queue[e])} ELSE {}

Submit(e, b) ==
  LET q == IF Full(e) THEN Dequeue(e)[e] ELSE queue[e]
      n == IF Full(e) THEN Uncount(e)[e] ELSE qlen[e] IN
  /\ queue' = [queue EXCEPT ![e] = Append(q, b)]
  /\ qlen' = [qlen EXCEPT ![e] = (n + 1) % QlenMod]
  /\ inUse' = inUse \ Evicted(e)

SubmitNow ==
  /\ pc = "fill"
  /\ Submit(cur.ep, cur.msg)
  /\ pc' = "idle" /\ cur' = NoWork
  /\ UNCHANGED <<xfer, holders, history>>

\* flush_rx_buffer
FlushRx ==
  /\ pc = "idle" /\ rxMsg # NoBuf
  /\ Submit(InEp, rxMsg)
  /\ rxMsg' = NoBuf
  /\ UNCHANGED <<xfer, txMsgs, cmd, main, history>>

\* usb_refill_to_host, with the interrupts off: take the transfer and a message
RefillTake(e) ==
  /\ pc = "idle" /\ cmd = NoCmd
  /\ xfer[e].inProgress = 0 /\ queue[e] # <<>>
  /\ xfer' = [xfer EXCEPT ![e].inProgress = @ + 1]
  /\ cur' = [ep |-> e, msg |-> Head(queue[e])]
  /\ queue' = Dequeue(e) /\ qlen' = Uncount(e)
  /\ pc' = "write"
  /\ UNCHANGED <<inUse, holders, history>>

\* USBD_Write on an idle endpoint starts the transfer
WriteOk ==
  /\ pc = "write" /\ xfer[cur.ep].state = "IDLE"
  /\ \E s \in Sizes :
       xfer' = [xfer EXCEPT ![cur.ep].state = "BUSY", ![cur.ep].msg = cur.msg,
                            ![cur.ep].size = s]
  /\ pc' = "idle" /\ cur' = NoWork
  /\ UNCHANGED <<pool, holders, history>>

\* seeded fault: the message is put back behind the others
WriteLockedTail ==
  /\ pc = "write" /\ xfer[cur.ep].state = "HALTED"
  /\ queue' = [queue EXCEPT ![cur.ep] = Append(@, cur.msg)]
  /\ xfer' = [xfer EXCEPT ![cur.ep].inProgress = @ - 1]
  /\ refused' = [refused EXCEPT ![cur.ep] = TRUE]
  /\ pc' = "idle" /\ cur' = NoWork
  /\ UNCHANGED <<inUse, qlen, holders, ended, cut>>

\* USBD_Write fails with LOCKED: back to the head of the queue, uncounted
WriteLocked ==
  /\ pc = "write" /\ xfer[cur.ep].state = "HALTED"
  /\ queue' = [queue EXCEPT ![cur.ep] = <<cur.msg>> \o @]
  /\ xfer' = [xfer EXCEPT ![cur.ep].inProgress = @ - 1]
  /\ refused' = [refused EXCEPT ![cur.ep] = TRUE]
  /\ pc' = "idle" /\ cur' = NoWork
  /\ UNCHANGED <<inUse, qlen, holders, ended, cut>>

-----------------------------------------------------------------------------
(* Commands from the host.                                                  *)

\* usb_refill_from_host; when the pool is exhausted or the endpoint is halted
\* it changes nothing
RefillFromHost(b) ==
  /\ pc = "idle" /\ cmd = NoCmd /\ b \notin inUse
  /\ xfer[OutEp].inProgress = 0 /\ xfer[OutEp].state = "IDLE"
  /\ inUse' = inUse \cup {b}
  /\ xfer' = [xfer EXCEPT ![OutEp].inProgress = 1, ![OutEp].state = "BUSY",
                          ![OutEp].msg = b]
  /\ UNCHANGED <<queue, qlen, holders, main, history>>

\* process_any_usb_commands: one message with one command, or with several
CmdTake ==
  /\ pc = "idle" /\ cmd = NoCmd /\ queue[OutEp] # <<>>
  /\ \E slow \in BOOLEAN : cmd' = [msg |-> Head(queue[OutEp]), slow |-> slow, segm |-> NoBuf]
  /\ queue' = Dequeue(OutEp)
  /\ UNCHANGED <<inUse, qlen, xfer, rxMsg, txMsgs, main, history>>

\* fast path, TX_DATA: the card queues the message itself
CmdKeep ==
  /\ pc = "idle" /\ cmd.msg # NoBuf /\ ~cmd.slow
  /\ txMsgs' = txMsgs \cup {cmd.msg}
  /\ cmd' = NoCmd
  /\ UNCHANGED <<pool, xfer, rxMsg, main, history>>

\* every other command, and the end of a segmented message, whatever ended it
CmdFree ==
  /\ pc = "idle" /\ cmd.msg # NoBuf /\ cmd.segm = NoBuf
  /\ inUse' = inUse \ {cmd.msg}
  /\ cmd' = NoCmd
  /\ UNCHANGED <<queue, qlen, xfer, rxMsg, txMsgs, main, history>>

SegmentAlloc(b) ==
  /\ pc = "idle" /\ cmd.msg # NoBuf /\ cmd.slow /\ cmd.segm = NoBuf /\ b \notin inUse
  /\ inUse' = inUse \cup {b}
  /\ cmd' = [cmd EXCEPT !.segm = b]
  /\ UNCHANGED <<queue, qlen, xfer, rxMsg, txMsgs, main, history>>

SegmentKeep ==
  /\ pc = "idle" /\ cmd.segm # NoBuf
  /\ txMsgs' = txMsgs \cup {cmd.segm}
  /\ cmd' = [cmd EXCEPT !.segm = NoBuf]
  /\ UNCHANGED <<pool, xfer, rxMsg, main, history>>

SegmentFree ==
  /\ pc = "idle" /\ cmd.segm # NoBuf
  /\ inUse' = inUse \ {cmd.segm}
  /\ cmd' = [cmd EXCEPT !.segm = NoBuf]
  /\ UNCHANGED <<queue, qlen, xfer, rxMsg, txMsgs, main, history>>

\* tx_byte_tpdu, in the USART interrupt: an answer has been transmitted
AnswerSent(b) ==
  /\ b \in txMsgs
  /\ txMsgs' = txMsgs \ {b} /\ inUse' = inUse \ {b}
  /\ UNCHANGED <<queue, qlen, xfer, rxMsg, cmd, main, history>>

\* card_handle_reset releases what the card holds
HandleReset ==
  /\ pc = "idle" /\ cmd.msg = NoBuf
  /\ inUse' = (inUse \ txMsgs) \ {rxMsg}
  /\ txMsgs' = {} /\ rxMsg' = NoBuf
  /\ UNCHANGED <<queue, qlen, xfer, cmd, main, history>>

-----------------------------------------------------------------------------
(* The USB interrupt: UDP_EndOfTransfer and the call-backs.                 *)

\* seeded fault: an empty packet only after a message of several packets
NeedsZlpLong(x, onePacket) == x.size = "many" /\ ~x.zlp /\ onePacket

\* usb_write_cb: transferred is the length of exactly one packet
NeedsZlp(x, onePacket) == x.size \in {"one", "many"} /\ ~x.zlp /\ onePacket

\* seeded fault: a transfer that failed is taken for one still under way
WriteEndedKeep(x, onePacket, ok) ==
  IF NeedsZlp(x, onePacket) THEN [x EXCEPT !.zlp = TRUE]
  ELSE [Quiet EXCEPT !.inProgress = IF ok THEN x.inProgress - 1 ELSE x.inProgress]

\* the endpoint after usb_write_cb or usb_read_cb, which ignore whether the transfer
\* succeeded (ok)
WriteEnded(x, onePacket, ok) ==
  IF NeedsZlp(x, onePacket) THEN [x EXCEPT !.zlp = TRUE]
  ELSE [Quiet EXCEPT !.inProgress = x.inProgress - 1]

\* whether an aborted transfer may have got just one packet across
MaybeOnePacket(x) == IF x.size = "many" /\ ~x.zlp THEN BOOLEAN ELSE {FALSE}

\* the last packet of a message to the host went out
TxDone(e) ==
  LET x == xfer[e]
      one == x.size = "one" IN
  /\ x.state = "BUSY"
  /\ xfer' = [xfer EXCEPT ![e] = WriteEnded(x, one, TRUE)]
  /\ inUse' = IF NeedsZlp(x, one) THEN inUse ELSE inUse \ {x.msg}
  /\ ended' = IF NeedsZlp(x, one) \/ x.size = "many" THEN ended
              ELSE [ended EXCEPT ![e] = x.size = "short" \/ x.zlp]
  /\ UNCHANGED <<queue, qlen, holders, main, refused, cut>>

\* usb_read_cb: a message from the host is complete
RxDone ==
  /\ xfer[OutEp].state = "BUSY"
  /\ xfer' = [xfer EXCEPT ![OutEp] = Quiet]
  /\ queue' = [queue EXCEPT ![OutEp] = Append(@, xfer[OutEp].msg)]
  /\ UNCHANGED <<inUse, qlen, holders, main, history>>

\* the transfers of the endpoints es are aborted (their call-backs may start
\* zero-length packets, which does not save them), then es enter a state
Abort(es, state) ==
  LET busy == {e \in es : xfer[e].state = "BUSY"} IN
  \E one \in [Ep -> BOOLEAN] :
    /\ \A e \in Ep : one[e] \in (IF e \in busy THEN MaybeOnePacket(xfer[e]) ELSE {FALSE})
    /\ xfer' = [e \in Ep |->
         CASE e \in busy -> [WriteEnded(xfer[e], one[e], FALSE) EXCEPT !.state = state]
           [] e \in es \ busy -> [xfer[e] EXCEPT !.state = state]
           [] e \notin es -> xfer[e]]
    /\ inUse' = inUse \ {xfer[e].msg : e \in {d \in busy : ~NeedsZlp(xfer[d], one[d])}}
    /\ cut' = cut \cup {e \in busy : one[e]}

\* the host halts an endpoint (USBD_HAL_Halt)
SetHalt(e) ==
  /\ xfer[e].state # "HALTED"
  /\ Abort({e}, "HALTED")
  /\ UNCHANGED <<queue, qlen, holders, main, ended, refused>>

ClearHalt(e) ==
  /\ xfer[e].state = "HALTED"
  /\ xfer' = [xfer EXCEPT ![e].state = "IDLE"]
  /\ UNCHANGED <<pool, holders, main, history>>

\* the host selects the configuration again: every endpoint is reconfigured
SetConfiguration ==
  /\ Abort(Ep, "IDLE")
  /\ UNCHANGED <<queue, qlen, holders, main, ended, refused>>

-----------------------------------------------------------------------------
ToHost == \/ \E e \in InEps : WantMsg(e) \/ RefillTake(e)
          \/ \E b \in Bufs : AllocOk(b)
          \/ AllocFails \/ DropOldest \/ KeepForReader \/ SubmitNow \/ FlushRx
          \/ WriteOk \/ WriteLocked

FromHost == \/ \E b \in Bufs : RefillFromHost(b) \/ SegmentAlloc(b) \/ AnswerSent(b)
            \/ CmdTake \/ CmdKeep \/ CmdFree \/ SegmentKeep \/ SegmentFree
            \/ HandleReset

UsbIrq == \/ \E e \in InEps : TxDone(e)
          \/ \E e \in Ep : SetHalt(e) \/ ClearHalt(e)
          \/ RxDone \/ SetConfiguration

Next == ToHost \/ FromHost \/ UsbIrq

Spec == Init /\ [][Next]_vars

\* A message the main loop has taken reaches USBD_Write; the host polls the
\* endpoints to it.
Fairness == WF_vars(WriteOk \/ WriteLocked) /\ \A e \in InEps : WF_vars(TxDone(e))

FairSpec == Spec /\ Fairness

-----------------------------------------------------------------------------
\* Type correctness: above all, no endpoint ever has two transfers in progress
\* or ends one twice (in_progress of usb_buffered_ep).
TypeOK ==
  /\ inUse \subseteq Bufs /\ queue \in [Ep -> Seq(Bufs)]
  /\ qlen \in [InEps -> 0..QlenMod - 1]
  /\ xfer \in [Ep -> Xfer]
  /\ rxMsg \in Bufs \cup {NoBuf} /\ txMsgs \subseteq Bufs
  /\ cmd \in [msg : Bufs \cup {NoBuf}, slow : BOOLEAN, segm : Bufs \cup {NoBuf}]
  /\ pc \in {"idle", "alloc", "drop", "fill", "write"}
  /\ cur \in [ep : Ep, msg : Bufs \cup {NoBuf}]
  /\ ended \in [InEps -> BOOLEAN] /\ refused \in [InEps -> BOOLEAN]
  /\ cut \subseteq Ep

\* What type correctness rests on: the main loop holds what its next step needs,
\* and an endpoint that is busy has a message to release.
MainHolds ==
  /\ pc # "idle" => cur.ep \in InEps
  /\ pc \in {"fill", "write"} => cur.msg \in Bufs
  /\ pc = "drop" => queue[cur.ep] # <<>>
  /\ pc = "write" => xfer[cur.ep].inProgress = 1 /\ xfer[cur.ep].state # "BUSY"

TransferHolds ==
  \A e \in Ep : xfer[e].state = "BUSY" => xfer[e].inProgress = 1 /\ xfer[e].msg \in Bufs

IInv == TypeOK /\ MainHolds /\ TransferHolds

\* What the count rests on: a queue never outgrows the limit of eviction.
Counted(e) == qlen[e] = Len(queue[e]) /\ Len(queue[e]) <= UsbMaxQlen
QueuesBounded == \A e \in InEps : ~refused[e] => Counted(e)

\* the places that can hold buffers, and those they hold
Place == ({"queue", "transfer"} \X Ep) \cup ({"card"} \X {"rx", "tx"})
         \cup ({"command"} \X {"message", "segment"}) \cup {<<"main", "loop">>}

Queued(e) == {queue[e][i] : i \in DOMAIN queue[e]}
Held(p) ==
  CASE p[1] = "queue" -> Queued(p[2])
    [] p[1] = "transfer" -> {xfer[p[2]].msg} \ {NoBuf}
    [] p = <<"card", "rx">> -> {rxMsg} \ {NoBuf}
    [] p = <<"card", "tx">> -> txMsgs
    [] p = <<"command", "message">> -> {cmd.msg} \ {NoBuf}
    [] p = <<"command", "segment">> -> {cmd.segm} \ {NoBuf}
    [] p = <<"main", "loop">> -> {cur.msg} \ {NoBuf}

\* A buffer that is taken from the pool has exactly one owner, a free one none:
\* no leak, no use after free and no double free (the assertion of _talloc_free),
\* with transfers aborted and commands segmented at any moment.
OneOwner ==
  /\ \A p \in Place : Held(p) \subseteq inUse
  /\ \A b \in inUse : \E p \in Place :
       b \in Held(p) /\ \A q \in Place \ {p} : b \notin Held(q)
  /\ \A e \in Ep : \A i, j \in DOMAIN queue[e] : i # j => queue[e][i] # queue[e][j]

\* An endpoint is marked in progress exactly while the main loop is about to write
\* to it or its transfer runs, so that every idle endpoint is refilled
\* (usb_refill_to_host, usb_refill_from_host), whatever the lengths of the messages
\* and whenever they are aborted: but for an abort that comes just after the first of
\* several packets, which usb_write_cb takes for the end of a message of one packet.
InProgressIsTransfer ==
  \A e \in Ep \ cut : (xfer[e].inProgress = 1) =
                       (xfer[e].state = "BUSY" \/ (pc = "write" /\ cur.ep = e))

\* queue_len is the length of the queue (usb_buf.h), so that eviction starts exactly
\* when a queue is full: until a write to the endpoint is refused.
QueueLenIsLength == \A e \in InEps : ~refused[e] => qlen[e] = Len(queue[e])

\* A message of exactly one packet is followed by a zero-length packet (usb_write_cb),
\* so that the host can tell it from the next, whatever halts and aborts came before
\* and whatever messages are sent between (of one that fills several packets nothing
\* is said: transferred counts the whole transfer, so it gets no empty packet).
MessagesTerminated == \A e \in InEps : ended[e]

\* Every transfer to the host ends and gives the endpoint back, however often the
\* host halts or reconfigures it meanwhile: unless one was cut after its first packet,
\* when the endpoint is lost for good (host_communication.c:37).
TransfersEnd ==
  \A e \in InEps : xfer[e].inProgress = 1 ~> (xfer[e].inProgress = 0 \/ e \in cut)

\* What the host reads from an endpoint is what was submitted to it, in order and
\* each message once: messages can be lost, to eviction, exhaustion or an aborted
\* transfer, but never overtake another.
Pending(e) == (IF pc = "write" /\ cur.ep = e THEN <<cur.msg>> ELSE <<>>)
              \o (IF xfer[e].msg # NoBuf THEN <<xfer[e].msg>> ELSE <<>>)
              \o queue[e]
Lossy == INSTANCE LossyFifo WITH Chan <- InEps, Msg <- Bufs,
                                 chan <- [e \in InEps |-> Pending(e)]
KeepsOrder == Lossy!Spec
=============================================================================
