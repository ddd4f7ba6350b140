------------------------------- MODULE CardEmu -------------------------------
(***************************************************************************)
(* One card-emulation instance of the SIMtrace2 firmware: the ISO 7816-3   *)
(* state machine of card_emu.c together with the main loop and the USART   *)
(* interrupt handler of mode_cardemu.c.                                    *)
(*                                                                         *)
(* Two contexts share the state.  The main loop (mode_cardemu_run) is a    *)
(* sequence of steps named by pc.  The USART interrupt has the highest     *)
(* priority, so it runs atomically and may preempt the main loop between   *)
(* any two of its steps; a stretch of main-loop code is one step only when *)
(* no interrupt that the mask then allows can tell the difference.         *)
(*                                                                         *)
(* Data is abstracted: a byte from the reader is chosen when the code      *)
(* looks at it (the ring buffer only counts bytes), a message from the     *)
(* host is what tx_byte_tpdu asks of it (bytes left and three flags), and  *)
(* a message to the host is its kind.  F, D and WI only set bit rate and   *)
(* the length of the waiting time; the waiting time is reduced to its      *)
(* phases.                                                                 *)
(***************************************************************************)
EXTENDS Integers, Sequences, FiniteSets

CONSTANTS
  P3s,         \* values of the P3 header byte the reader sends
  PtsOptions,  \* the optional PTS1..PTS3 fields a PTS0 byte can announce
  Atrs,        \* the ATRs the host installs: sequences of bytes
  TxMsgs,      \* the TX_DATA messages the host sends
  Commands,    \* the kinds of USB commands the host sends
  MaxTxQ,      \* bound: messages in uart_tx_queue
  MaxAtrOut,   \* bound: no SET_ATR once this many ATR bytes were sent
  RbLen,       \* RING_BUFLEN (one slot stays unused)
  UsbMaxQlen,  \* USB_MAX_QLEN
  PoolTight    \* whether the buffer pool can be found exhausted

TxMsgType == [left : Nat \ {0}, pbTx : BOOLEAN, pbRx : BOOLEAN, final : BOOLEAN]

ASSUME DataAssumption ==
  /\ P3s \subseteq 0..255
  /\ PtsOptions \subseteq SUBSET {1, 2, 3}
  /\ TxMsgs \subseteq TxMsgType
  /\ Atrs # {} /\ \A a \in Atrs : a \in Seq(Nat)

ASSUME BoundAssumption ==
  /\ Commands \subseteq {"TX_DATA", "SET_ATR", "SIM_SELECT", "STATUS", "CONFIG"}
  /\ MaxTxQ \in Nat /\ MaxAtrOut \in Nat
  /\ RbLen \in Nat \ {0, 1}
  /\ UsbMaxQlen \in Nat \ {0}
  /\ PoolTight \in BOOLEAN

VARIABLES
  fsm,        \* ch->state, ch->tpdu.state, USART mask, waiting time
  pts,        \* ch->pts.state
  nextPts,    \* what next_pts_state returned, on its way to ch->pts.state
  pts0,       \* the option bits of ch->pts.req[_PTS0] (and of its copy in resp)
  p3,         \* ch->tpdu.hdr[_P3]
  atr,        \* ch->atr.atr and .len
  atrIdx,     \* ch->atr.idx
  rx,         \* data bytes in ch->uart_rx_msg, or NoRx
  tx,         \* ch->uart_tx_msg, or NoMsg
  txQ,        \* ch->uart_tx_queue
  pins,       \* ch->vcc_active, ch->clocked, ch->in_reset
  line,       \* ci->vcc_active, ci->rst_active (written by the pin interrupts)
  last,       \* ci->vcc_active_last, ci->rst_active_last
  enabled,    \* ci->enabled
  statusIrq,  \* ch->features & CEMU_FEAT_F_STATUS_IRQ
  rb,         \* bytes in ci->rb
  epq,        \* messages queued on the IN and on the interrupt endpoint
  pc, arg,    \* where the main loop is; the state it is about to set
  atrOut,     \* history: ATR bytes sent since IN_ATR was entered
  atrMixed    \* history: SET_ATR interfered with the ATR being sent

card == <<pts, nextPts, pts0, p3, rx>>
answer == <<tx, txQ>>
atrVars == <<atr, atrIdx, atrOut, atrMixed>>
io == <<pins, line, last, enabled, statusIrq>>
main == <<pc, arg>>
vars == <<fsm, pts, nextPts, pts0, p3, atr, atrIdx, rx, tx, txQ, pins, line, last,
          enabled, statusIrq, rb, epq, pc, arg, atrOut, atrMixed>>

State == {"WAIT_POWER", "WAIT_CLK", "WAIT_RST", "WAIT_ATR", "IN_ATR",
          "IN_PTS", "WAIT_TPDU", "IN_TPDU"}
Off == {"WAIT_POWER", "WAIT_CLK", "WAIT_RST"}
Ready == {"IN_PTS", "WAIT_TPDU", "IN_TPDU"}
HeaderStates == {"WAIT_CLA", "WAIT_INS", "WAIT_P1", "WAIT_P2", "WAIT_P3"}
TpduState == HeaderStates \cup {"WAIT_PB", "WAIT_RX", "WAIT_TX"}
PtsField == {"PTSS", "PTS0", "PTS1", "PTS2", "PTS3", "PCK"}
PtsState == {"REQ", "RESP"} \X PtsField
PtsStart == <<"REQ", "PTSS">>
Irq == {"RXRDY", "TXRDY", "TIMEOUT"}
WtPhase == {"off", "run", "half", "done"}
Pc == {"drain", "setPts", "respond", "enablePts", "setState", "vcc", "rst", "release",
       "refill", "cmd", "newTx", "enable", "setIdx"}
Kind == {"HDR", "DATA", "PTS", "STATUS", "CONFIG"}

NoRx == -1
NoMsg == [left |-> 0, pbTx |-> FALSE, pbRx |-> FALSE, final |-> FALSE]

-----------------------------------------------------------------------------
(* USART services (mode_cardemu.c), as functions of fsm.                    *)

RxMask == {"RXRDY"}
TxMask == {"TXRDY", "TIMEOUT"}
TimerMask == {"TIMEOUT"}

\* card_emu_uart_enable: the interrupts a mode leaves enabled
UartEnable(f, mask) == [f EXCEPT !.mask = mask, !.stale = FALSE, !.late = FALSE]

\* card_emu_uart_update_wt: reload with a non-zero time, or switch off
UpdateWt(f, on) == [f EXCEPT !.wt = IF on THEN "run" ELSE "off"]

\* card_emu_uart_reset_wt: reload with the same total, which may be zero
ResetWt(f) == UpdateWt(f, f.wt # "off")

\* usart_irq_rx: nothing to transmit, stop the TXRDY interrupt
DisableTxrdy(f) == [f EXCEPT !.mask = @ \ {"TXRDY"}]

-----------------------------------------------------------------------------
(* The ISO 7816-3 state machine (card_emu.c), as functions of fsm.          *)

\* seeded fault: the transmitter is not enabled after the body
SetTpduStateNoTx(f, t) ==
  LET g == [f EXCEPT !.tpdu = t] IN
  CASE f.tpdu = t -> f
    [] f.tpdu # t /\ t = "WAIT_CLA" -> UpdateWt(UartEnable(g, RxMask), FALSE)
    [] f.tpdu # t /\ t = "WAIT_RX" -> UpdateWt(UartEnable(g, RxMask), TRUE)
    [] f.tpdu # t /\ t = "WAIT_PB" -> UpdateWt(UartEnable(g, TxMask), TRUE)
    [] f.tpdu # t /\ t \in {"WAIT_INS", "WAIT_TX"} -> UpdateWt(g, TRUE)
    [] f.tpdu # t /\ t \in {"WAIT_P1", "WAIT_P2", "WAIT_P3"} -> g

SetTpduState(f, t) ==
  LET g == [f EXCEPT !.tpdu = t] IN
  CASE f.tpdu = t -> f
    [] f.tpdu # t /\ t = "WAIT_CLA" -> UpdateWt(UartEnable(g, RxMask), FALSE)
    [] f.tpdu # t /\ t = "WAIT_INS" -> UpdateWt(g, TRUE)
    [] f.tpdu # t /\ t = "WAIT_RX" -> UpdateWt(UartEnable(g, RxMask), TRUE)
    [] f.tpdu # t /\ t \in {"WAIT_PB", "WAIT_TX"} ->
         UpdateWt(UartEnable(g, TxMask), TRUE)
    [] f.tpdu # t /\ t \in {"WAIT_P1", "WAIT_P2", "WAIT_P3"} -> g

\* seeded fault: waiting for a command only resets the TPDU state
CardSetStateNoRx(f, s) ==
  LET g == [f EXCEPT !.state = s] IN
  CASE f.state = s -> f
    [] f.state # s /\ s \in Off -> UpdateWt(UartEnable(g, {}), FALSE)
    [] f.state # s /\ s = "WAIT_ATR" -> UpdateWt(UartEnable(g, TimerMask), TRUE)
    [] f.state # s /\ s = "IN_ATR" -> UartEnable(UpdateWt(g, TRUE), TxMask)
    [] f.state # s /\ s = "WAIT_TPDU" -> SetTpduState(g, "WAIT_CLA")
    [] f.state # s /\ s \in {"IN_PTS", "IN_TPDU"} -> g

\* seeded fault: the timer that delays the ATR is not enabled
CardSetStateNoTimer(f, s) ==
  LET g == [f EXCEPT !.state = s] IN
  CASE f.state = s -> f
    [] f.state # s /\ s \in Off \cup {"WAIT_ATR"} -> UpdateWt(UartEnable(g, {}), FALSE)
    [] f.state # s /\ s = "IN_ATR" -> UartEnable(UpdateWt(g, TRUE), TxMask)
    [] f.state # s /\ s = "WAIT_TPDU" ->
         UartEnable(SetTpduState(g, "WAIT_CLA"), RxMask)
    [] f.state # s /\ s \in {"IN_PTS", "IN_TPDU"} -> g

CardSetState(f, s) ==
  LET g == [f EXCEPT !.state = s] IN
  CASE f.state = s -> f
    [] f.state # s /\ s \in Off -> UpdateWt(UartEnable(g, {}), FALSE)
    [] f.state # s /\ s = "WAIT_ATR" -> UpdateWt(UartEnable(g, TimerMask), TRUE)
    [] f.state # s /\ s = "IN_ATR" -> UartEnable(UpdateWt(g, TRUE), TxMask)
    [] f.state # s /\ s = "WAIT_TPDU" ->
         UartEnable(SetTpduState(g, "WAIT_CLA"), RxMask)
    [] f.state # s /\ s \in {"IN_PTS", "IN_TPDU"} -> g

\* next_tpdu_state, for the four header bytes before P3
NextHeaderState(t) ==
  CASE t = "WAIT_CLA" -> "WAIT_INS"
    [] t = "WAIT_INS" -> "WAIT_P1"
    [] t = "WAIT_P1" -> "WAIT_P2"
    [] t = "WAIT_P2" -> "WAIT_P3"

\* next_pts_state: PTS0 says which of PTS1..PTS3 follow.  After the request's
\* PCK comes the response; after the response's PCK the code falls through to
\* from_ptss.
NextPtsState(p, options) ==
  LET after(n) == IF n < 1 /\ 1 \in options THEN "PTS1"
                  ELSE IF n < 2 /\ 2 \in options THEN "PTS2"
                  ELSE IF n < 3 /\ 3 \in options THEN "PTS3"
                  ELSE "PCK"
  IN CASE p = <<"REQ", "PCK">> -> <<"RESP", "PTSS">>
       [] p = <<"RESP", "PCK">> -> <<"RESP", "PTS0">>
       [] p[2] = "PTSS" -> <<p[1], "PTS0">>
       [] p[2] = "PTS0" -> <<p[1], after(0)>>
       [] p[2] = "PTS1" -> <<p[1], after(1)>>
       [] p[2] = "PTS2" -> <<p[1], after(2)>>
       [] p[2] = "PTS3" -> <<p[1], "PCK">>

\* seeded fault: the reader has to respect the activation sequence
EndActivationStrict(f, p) == f

\* card_emu_io_statechg: end of the activation, in whatever order it happened
EndActivation(f, p) ==
  IF f.state \in Off /\ p.vcc /\ p.clk /\ ~p.rst
  THEN CardSetState(f, "WAIT_ATR") ELSE f

-----------------------------------------------------------------------------
(* Buffers for the host (usb_buf.c and usb_buf_alloc_st in card_emu.c).     *)

\* usb_buf_submit: a full endpoint queue drops its oldest message
Submit(q, m) == Append(IF Len(q) >= UsbMaxQlen THEN Tail(q) ELSE q, m)

\* usb_buf_alloc_st: what may be left of the endpoint's queue once a buffer
\* was obtained.  An exhausted pool costs the queue its oldest message.
AllocSt(q) == {q} \cup (IF PoolTight /\ q # <<>> THEN {Tail(q)} ELSE {})

\* ... and it returns NULL when there is nothing to drop
AllocFails(q) == PoolTight /\ q = <<>>

\* allocate, fill and submit one message: the queues that can result
Sent(q, m) == {Submit(r, m) : r \in AllocSt(q)} \cup (IF AllocFails(q) THEN {q} ELSE {})

\* flush_rx_buffer, when uart_rx_msg exists
FlushRx(q) == IF rx = NoRx THEN q ELSE Submit(q, "DATA")

-----------------------------------------------------------------------------
\* card_emu_init in a freshly booted firmware.  The card handle starts from the
\* lines as they are, the *_last levels are zero-initialised.
Init ==
  /\ fsm = [state |-> "WAIT_POWER", tpdu |-> "WAIT_CLA", mask |-> {},
            wt |-> "off", stale |-> FALSE, late |-> FALSE]
  /\ pts = PtsStart /\ nextPts = PtsStart /\ pts0 = {} /\ p3 = 0
  /\ atr \in Atrs /\ atrIdx = 0 /\ atrOut = <<>> /\ atrMixed = FALSE
  /\ rx = NoRx /\ tx = NoMsg /\ txQ = <<>>
  /\ line \in [vcc : BOOLEAN, rst : BOOLEAN]
  /\ pins = [vcc |-> line.vcc, clk |-> line.vcc, rst |-> line.rst]
  /\ last = [vcc |-> FALSE, rst |-> FALSE]
  /\ enabled = FALSE /\ statusIrq = FALSE
  /\ rb = 0
  /\ epq = [ep \in {"IN", "INT"} |-> <<>>]
  /\ pc = "drain" /\ arg = "WAIT_POWER"

-----------------------------------------------------------------------------
(* The world outside: the reader's pins.                                    *)

\* usim1_vcc_irqhandler (or ADC_IrqHandler), usim1_rst_irqhandler
LineChange ==
  /\ \E w \in {"vcc", "rst"} : line' = [line EXCEPT ![w] = ~@]
  /\ UNCHANGED <<fsm, card, answer, atrVars, pins, last, enabled, statusIrq,
                 rb, epq, main>>

-----------------------------------------------------------------------------
(* usart_irq_rx: one action per cause of the interrupt.                     *)

\* RXRDY: a byte goes to the ring buffer; it is lost when the buffer is full
IrqRx ==
  /\ "RXRDY" \in fsm.mask
  /\ rb < RbLen - 1
  /\ rb' = rb + 1
  /\ UNCHANGED <<fsm, card, answer, atrVars, io, epq, main>>

\* TXRDY in IN_ATR (tx_byte_atr): the next ATR byte ...
IrqTxAtrByte ==
  /\ "TXRDY" \in fsm.mask /\ fsm.state = "IN_ATR"
  /\ atrIdx < Len(atr)
  /\ atrIdx' = atrIdx + 1
  /\ atrOut' = Append(atrOut, atr[atrIdx + 1])
  /\ UNCHANGED <<fsm, atr, atrMixed, card, answer, io, rb, epq, main>>

\* ... or the end of the ATR
IrqTxAtrEnd ==
  /\ "TXRDY" \in fsm.mask /\ fsm.state = "IN_ATR"
  /\ atrIdx >= Len(atr)
  /\ fsm' = DisableTxrdy(CardSetState(fsm, "WAIT_TPDU"))
  /\ atrOut' = <<>> /\ atrMixed' = FALSE
  /\ UNCHANGED <<atr, atrIdx, card, answer, io, rb, epq, main>>

\* TXRDY in IN_PTS (tx_byte_pts)
IrqTxPts ==
  /\ "TXRDY" \in fsm.mask /\ fsm.state = "IN_PTS"
  /\ CASE pts = <<"RESP", "PCK">> ->
            fsm' = CardSetState(fsm, "WAIT_TPDU") /\ pts' = <<"REQ", "PTSS">>
       [] pts[1] = "RESP" /\ pts[2] # "PCK" ->
            fsm' = fsm /\ pts' = NextPtsState(pts, pts0)
       [] pts[1] = "REQ" ->
            fsm' = DisableTxrdy(fsm) /\ pts' = pts
  /\ UNCHANGED <<nextPts, pts0, p3, rx, answer, atrVars, io, rb, epq, main>>

\* where the FSM goes with one byte of message m sent: a procedure byte decides
\* whether to go on sending or receiving, the last byte ends the message
AfterTxByte(f, m) ==
  LET g == CASE f.tpdu = "WAIT_PB" /\ m.pbTx -> SetTpduState(f, "WAIT_TX")
             [] f.tpdu = "WAIT_PB" /\ ~m.pbTx /\ m.pbRx -> SetTpduState(f, "WAIT_RX")
             [] OTHER -> f
  IN CASE m.left > 1 -> g
       [] m.left <= 1 /\ m.pbRx -> SetTpduState(g, "WAIT_RX")
       [] m.left <= 1 /\ ~m.pbRx /\ m.final -> CardSetState(g, "WAIT_TPDU")
       [] OTHER -> g

\* TXRDY in IN_TPDU (tx_byte_tpdu): send a byte of the current message, taking
\* the next one from the queue if there is none
IrqTxTpdu ==
  /\ "TXRDY" \in fsm.mask /\ fsm.state = "IN_TPDU"
  /\ tx # NoMsg \/ txQ # <<>>
  /\ LET m == IF tx # NoMsg THEN tx ELSE Head(txQ) IN
       /\ txQ' = IF tx # NoMsg THEN txQ ELSE Tail(txQ)
       /\ tx' = IF m.left <= 1 THEN NoMsg ELSE [m EXCEPT !.left = @ - 1]
       /\ fsm' = AfterTxByte(ResetWt(fsm), m)
  /\ UNCHANGED <<card, atrVars, io, rb, epq, main>>

\* TXRDY with nothing to send: card_emu_tx_byte returns 0
IrqTxNothing ==
  /\ "TXRDY" \in fsm.mask
  /\ \/ fsm.state \notin {"IN_ATR", "IN_PTS", "IN_TPDU"}
     \/ fsm.state = "IN_TPDU" /\ tx = NoMsg /\ txQ = <<>>
  /\ fsm' = DisableTxrdy(fsm)
  /\ UNCHANGED <<card, answer, atrVars, io, rb, epq, main>>

\* seeded fault: the NULL byte does not restart the waiting time
IrqHalfExpiredNoReset ==
  /\ "TIMEOUT" \in fsm.mask /\ fsm.wt = "run"
  /\ fsm' = [fsm EXCEPT !.wt = "half"]
  /\ UNCHANGED <<card, answer, atrVars, io, rb, epq, main>>

\* TIMEOUT at half of the waiting time (card_emu_wtime_half_expired): while the
\* host is due to answer, a NULL procedure byte buys another waiting time
IrqHalfExpired ==
  /\ "TIMEOUT" \in fsm.mask /\ fsm.wt = "run"
  /\ fsm' = LET f == [fsm EXCEPT !.wt = "half"] IN
            IF f.state = "IN_TPDU" /\ f.tpdu \in {"WAIT_PB", "WAIT_TX"}
            THEN ResetWt(f) ELSE f
  /\ UNCHANGED <<card, answer, atrVars, io, rb, epq, main>>

\* seeded fault: the next ATR goes on where the last one ended
IrqExpiredKeepIdx ==
  /\ "TIMEOUT" \in fsm.mask /\ fsm.wt = "half"
  /\ LET f == [fsm EXCEPT !.wt = "done"] IN
       IF f.state = "WAIT_ATR"
       THEN /\ fsm' = CardSetState(f, "IN_ATR")
            /\ atrOut' = <<>> /\ atrMixed' = (pc = "setIdx")
       ELSE fsm' = f /\ UNCHANGED <<atrOut, atrMixed>>
  /\ UNCHANGED <<atr, atrIdx, card, answer, io, rb, epq, main>>

\* TIMEOUT at the end of the waiting time (card_emu_wtime_expired)
IrqExpired ==
  /\ "TIMEOUT" \in fsm.mask /\ fsm.wt = "half"
  /\ LET f == [fsm EXCEPT !.wt = "done"] IN
       IF f.state = "WAIT_ATR"
       THEN /\ fsm' = CardSetState(f, "IN_ATR")
            /\ atrIdx' = 0 /\ atrOut' = <<>> /\ atrMixed' = (pc = "setIdx")
       ELSE fsm' = f /\ UNCHANGED <<atrIdx, atrOut, atrMixed>>
  /\ UNCHANGED <<atr, card, answer, io, rb, epq, main>>

-----------------------------------------------------------------------------
(* mode_cardemu_run, first part: drain the ring buffer into the FSM         *)
(* (card_emu_process_rx_byte).  new_state, when there is one, is set in a   *)
(* step of its own: the interrupt may have moved the FSM meanwhile.         *)

NextByte == pc = "drain" /\ rb > 0 /\ rb' = rb - 1

Drained ==
  /\ pc = "drain" /\ rb = 0
  /\ pc' = "vcc"
  /\ UNCHANGED <<fsm, card, answer, atrVars, io, rb, epq, arg>>

\* a byte for an instance that is disabled, or in a state that expects none
IgnoreByte ==
  /\ NextByte
  /\ ~enabled \/ fsm.state \notin Ready
  /\ UNCHANGED <<fsm, card, answer, atrVars, io, epq, main>>

\* process_byte_pts, up to the value of next_pts_state.  PTSS (0xff in WAIT_TPDU)
\* starts a request.  An interrupt between the look at ch->state and the one at
\* pts.state is like one before both.
RxPtsByte ==
  /\ NextByte /\ enabled
  /\ fsm.state \in {"WAIT_TPDU", "IN_PTS"}
  /\ LET p == IF fsm.state = "WAIT_TPDU" THEN PtsStart ELSE pts IN
       /\ pts0' \in IF p = <<"REQ", "PTS0">> THEN PtsOptions ELSE {pts0}
       /\ \/ /\ pts' = p
             /\ nextPts' = NextPtsState(p, pts0')
             /\ pc' = "setPts" /\ arg' = arg
          \/ /\ p = <<"REQ", "PCK">>  \* checksum error
             /\ pts' = PtsStart
             /\ pc' = "setState" /\ arg' = "WAIT_TPDU"
             /\ UNCHANGED nextPts
  /\ UNCHANGED <<fsm, p3, rx, answer, atrVars, io, epq>>

\* ... its set_pts_state, unprotected.  late (history) records that the interrupt
\* has sent the response to its end since next_pts_state looked.  (nextPts is
\* dead from here on.)
SetPts ==
  /\ pc = "setPts"
  /\ pts' = nextPts /\ nextPts' = PtsStart
  /\ fsm' = [fsm EXCEPT !.late = @ \/ (fsm.state = "WAIT_TPDU" /\ nextPts[1] = "RESP")]
  /\ pc' = "respond"
  /\ UNCHANGED <<pts0, p3, rx, answer, atrVars, io, rb, epq, arg>>

\* ... and its second look at pts.state: is a response due?
RespondPts ==
  /\ pc = "respond"
  /\ \/ /\ pts = <<"RESP", "PTSS">>
        /\ \E q \in Sent(epq["IN"], "PTS") : epq' = [epq EXCEPT !["IN"] = q]
        /\ pc' = "enablePts" /\ arg' = arg
     \/ /\ pts # <<"RESP", "PTSS">>
        /\ pc' = "setState" /\ arg' = "IN_PTS"
        /\ UNCHANGED epq
  /\ UNCHANGED <<fsm, card, answer, atrVars, io, rb>>

\* ... whose transmission starts; stale as in EnableTx
EnableTxPts ==
  /\ pc = "enablePts"
  /\ fsm' = [UartEnable(fsm, TxMask) EXCEPT !.stale = (fsm.state = "WAIT_TPDU")]
  /\ pc' = "drain"
  /\ UNCHANGED <<card, answer, atrVars, io, rb, epq, arg>>

TpduByte ==
  /\ NextByte /\ enabled
  /\ fsm.state \in {"WAIT_TPDU", "IN_TPDU"}
  /\ pc' = "setState" /\ arg' = "IN_TPDU"
  /\ UNCHANGED <<pts, nextPts, pts0, answer, atrVars, io>>

\* process_byte_tpdu: CLA, INS, P1, P2
RxHeaderByte ==
  /\ TpduByte
  /\ fsm.tpdu \in HeaderStates \ {"WAIT_P3"}
  /\ fsm' = SetTpduState(fsm, NextHeaderState(fsm.tpdu))
  /\ UNCHANGED <<p3, rx, epq>>

\* process_byte_tpdu: P3 completes the header, which goes to the host
\* (send_tpdu_header)
RxP3 ==
  /\ TpduByte
  /\ fsm.tpdu = "WAIT_P3"
  /\ p3' \in P3s
  /\ fsm' = SetTpduState(fsm, "WAIT_PB")
  /\ rx' = NoRx
  /\ \E q \in Sent(FlushRx(epq["IN"]), "HDR") : epq' = [epq EXCEPT !["IN"] = q]

\* add_tpdu_byte: collect the body; all of it goes to the host at once, because
\* a buffer holds the longest body.  Without a buffer the byte is lost.
RxBodyByte ==
  /\ TpduByte
  /\ fsm.tpdu = "WAIT_RX"
  /\ \/ /\ rx = NoRx /\ AllocFails(epq["IN"])
        /\ UNCHANGED <<fsm, rx, epq>>
     \/ \E q \in IF rx = NoRx THEN AllocSt(epq["IN"]) ELSE {epq["IN"]} :
          LET n == IF rx = NoRx THEN 1 ELSE rx + 1 IN
          /\ rx = NoRx => ~AllocFails(epq["IN"])
          /\ rx' = IF n >= p3 THEN NoRx ELSE n
          /\ fsm' = IF n >= p3 THEN SetTpduState(fsm, "WAIT_TX") ELSE fsm
          /\ epq' = [epq EXCEPT !["IN"] = IF n >= p3 THEN Submit(q, "DATA") ELSE q]
  /\ UNCHANGED p3

\* process_byte_tpdu: a byte while the card is due to send
RxUnexpectedByte ==
  /\ TpduByte
  /\ fsm.tpdu \in {"WAIT_PB", "WAIT_TX"}
  /\ UNCHANGED <<fsm, p3, rx, epq>>

\* the card_set_state at the end of card_emu_process_rx_byte
SetNewState ==
  /\ pc = "setState"
  /\ fsm' = CardSetState(fsm, arg)
  /\ pc' = "drain"
  /\ UNCHANGED <<card, answer, atrVars, io, rb, epq, arg>>

-----------------------------------------------------------------------------
(* mode_cardemu_run, second part: process_io_statechg forwards changed      *)
(* levels to card_emu_io_statechg; a disabled instance sees VCC and RST off. *)

Level == [vcc |-> line.vcc /\ enabled, rst |-> line.rst /\ enabled]

\* card_emu_report_status on the interrupt endpoint, if a level of the card
\* handle changed and the feature is on
Report(q, changed) == IF statusIrq /\ changed THEN Sent(q, "STATUS") ELSE {q}

\* card_handle_reset up to its loop: release the message being sent and the
\* one being received.  The loop follows; target is the state to set then.
StartReset(target) ==
  /\ fsm' = UpdateWt(fsm, FALSE)
  /\ tx' = NoMsg /\ rx' = NoRx
  /\ pc' = "release" /\ arg' = target
  /\ UNCHANGED <<pins, last, epq>>

VccSame ==
  /\ pc = "vcc" /\ Level.vcc = last.vcc
  /\ pc' = "rst"
  /\ UNCHANGED <<fsm, card, answer, atrVars, io, rb, epq, arg>>

\* CARD_IO_VCC, 0 on a powered card
VccOff ==
  /\ pc = "vcc" /\ ~Level.vcc /\ last.vcc /\ pins.vcc
  /\ StartReset("WAIT_POWER")
  /\ UNCHANGED <<pts, nextPts, pts0, p3, txQ, atrVars, line, enabled, statusIrq, rb>>

\* CARD_IO_VCC then CARD_IO_CLK in the other cases: the clock follows VCC
VccOther ==
  /\ pc = "vcc"
  /\ LET v == Level.vcc
         on == [pins EXCEPT !.vcc = v]
         f1 == IF v /\ ~pins.vcc THEN CardSetState(fsm, "WAIT_CLK") ELSE fsm
         f2 == EndActivation(f1, on)
         f3 == IF v /\ ~pins.clk /\ f2.state = "WAIT_CLK"
               THEN CardSetState(f2, "WAIT_RST") ELSE f2
     IN /\ v # last.vcc /\ (v \/ ~pins.vcc)
        /\ pins' = [on EXCEPT !.clk = v]
        /\ fsm' = EndActivation(f3, pins')
        /\ \E q \in Report(epq["INT"], v # pins.vcc) :
             \E r \in Report(q, v # pins.clk) : epq' = [epq EXCEPT !["INT"] = r]
        /\ last' = [last EXCEPT !.vcc = v]
  /\ pc' = "rst"
  /\ UNCHANGED <<card, answer, atrVars, line, enabled, statusIrq, rb, arg>>

RstSame ==
  /\ pc = "rst" /\ Level.rst = last.rst
  /\ pc' = "refill"
  /\ UNCHANGED <<fsm, card, answer, atrVars, io, rb, epq, arg>>

\* CARD_IO_RST asserted
RstAsserted ==
  /\ pc = "rst" /\ Level.rst /\ ~last.rst /\ ~pins.rst
  /\ StartReset("WAIT_RST")
  /\ UNCHANGED <<pts, nextPts, pts0, p3, txQ, atrVars, line, enabled, statusIrq, rb>>

\* CARD_IO_RST released, or asserted when the card handle already knew
RstOther ==
  /\ pc = "rst"
  /\ LET r == Level.rst
         f1 == IF ~r /\ pins.rst /\ pins.vcc /\ pins.clk /\ fsm.state = "WAIT_RST"
               THEN CardSetState(fsm, "WAIT_ATR") ELSE fsm
     IN /\ r # last.rst /\ (r => pins.rst)
        /\ pins' = [pins EXCEPT !.rst = r]
        /\ fsm' = EndActivation(f1, pins')
        /\ \E q \in Report(epq["INT"], r # pins.rst) : epq' = [epq EXCEPT !["INT"] = q]
        /\ last' = [last EXCEPT !.rst = r]
  /\ pc' = "refill"
  /\ UNCHANGED <<card, answer, atrVars, line, enabled, statusIrq, rb, arg>>

\* card_handle_reset: one iteration of the loop that empties uart_tx_queue
ReleaseQueued ==
  /\ pc = "release" /\ txQ # <<>>
  /\ txQ' = Tail(txQ)
  /\ UNCHANGED <<fsm, card, tx, atrVars, io, rb, epq, main>>

\* the rest of card_emu_io_statechg after card_handle_reset; CARD_IO_CLK
\* follows when it was VCC that went away
Released ==
  /\ pc = "release" /\ txQ = <<>>
  /\ fsm' = CardSetState(fsm, arg)
  /\ IF arg = "WAIT_POWER"
     THEN /\ pins' = [pins EXCEPT !.vcc = FALSE, !.clk = FALSE]
          /\ \E q \in Report(epq["INT"], TRUE) :
               \E r \in Report(q, pins.clk) : epq' = [epq EXCEPT !["INT"] = r]
          /\ last' = [last EXCEPT !.vcc = FALSE]
          /\ pc' = "rst"
     ELSE /\ pins' = [pins EXCEPT !.rst = TRUE]
          /\ \E q \in Report(epq["INT"], TRUE) : epq' = [epq EXCEPT !["INT"] = q]
          /\ last' = [last EXCEPT !.rst = TRUE]
          /\ pc' = "refill"
  /\ UNCHANGED <<card, answer, atrVars, line, enabled, statusIrq, rb, arg>>

-----------------------------------------------------------------------------
(* mode_cardemu_run, third part: refill the endpoints, run the commands.    *)

\* usb_refill_to_host on the interrupt, then on the IN endpoint: an endpoint
\* that is idle takes its oldest message, one that is not takes none
Refill ==
  /\ pc = "refill"
  /\ \E idle \in SUBSET {"IN", "INT"} :
       epq' = [ep \in {"IN", "INT"} |-> IF ep \in idle /\ epq[ep] # <<>>
                                       THEN Tail(epq[ep]) ELSE epq[ep]]
  /\ pc' = "cmd"
  /\ UNCHANGED <<fsm, card, answer, atrVars, io, rb, arg>>

\* a command the host sends is in the OUT queue when the loop looks
Command(c) == pc = "cmd" /\ c \in Commands

\* seeded fault: TX_DATA is queued for a card that is not ready
CmdTxDataAlways ==
  /\ Command("TX_DATA")
  /\ Len(txQ) < MaxTxQ
  /\ \E m \in TxMsgs : txQ' = Append(txQ, m)
  /\ pc' = "newTx"
  /\ UNCHANGED <<fsm, card, tx, atrVars, io, rb, epq, arg>>

\* dispatch_usb_command_cardem, TX_DATA: queue the message ...
CmdTxData ==
  /\ Command("TX_DATA")
  /\ fsm.state \in Ready
  /\ Len(txQ) < MaxTxQ
  /\ \E m \in TxMsgs : txQ' = Append(txQ, m)
  /\ pc' = "newTx"
  /\ UNCHANGED <<fsm, card, tx, atrVars, io, rb, epq, arg>>

\* ... or drop it when the card emu channel is in-active
CmdTxDataDropped ==
  /\ Command("TX_DATA")
  /\ fsm.state \notin Ready
  /\ UNCHANGED vars

\* seeded fault: the transmitter is only started while data is due
NewUartTxNotPb ==
  /\ pc = "newTx"
  /\ pc' = IF fsm.state = "IN_TPDU" /\ fsm.tpdu = "WAIT_TX" THEN "enable" ELSE "cmd"
  /\ UNCHANGED <<fsm, card, answer, atrVars, io, rb, epq, arg>>

\* card_emu_have_new_uart_tx: look at the FSM ...
NewUartTx ==
  /\ pc = "newTx"
  /\ pc' = IF fsm.state = "IN_TPDU" /\ fsm.tpdu \in {"WAIT_TX", "WAIT_PB"}
           THEN "enable" ELSE "cmd"
  /\ UNCHANGED <<fsm, card, answer, atrVars, io, rb, epq, arg>>

\* ... and start the transmitter if it was waiting for data.  stale (history)
\* records that an interrupt moved the FSM on between the two.
EnableTx ==
  /\ pc = "enable"
  /\ fsm' = [UartEnable(fsm, TxMask) EXCEPT
              !.stale = ~(fsm.state = "IN_TPDU" /\ fsm.tpdu \in {"WAIT_TX", "WAIT_PB"})]
  /\ pc' = "cmd"
  /\ UNCHANGED <<card, answer, atrVars, io, rb, epq, arg>>

\* card_emu_set_atr: install the bytes and the length ...  (A mixture of two
\* ATRs that a copy interrupted half-way could send is not told apart from one
\* sent after it; atrMixed records both.)
CmdSetAtr ==
  /\ Command("SET_ATR")
  /\ Len(atrOut) <= MaxAtrOut
  /\ atr' \in Atrs
  /\ atrMixed' = (fsm.state = "IN_ATR")
  /\ pc' = "setIdx"
  /\ UNCHANGED <<fsm, card, answer, atrIdx, atrOut, io, rb, epq, arg>>

\* ... and send it from its first byte
SetAtrIdx ==
  /\ pc = "setIdx"
  /\ atrIdx' = 0
  /\ pc' = "cmd"
  /\ atrMixed' = (fsm.state = "IN_ATR")
  /\ UNCHANGED <<fsm, card, answer, atr, atrOut, io, rb, epq, arg>>

\* usb_command_sim_select
CmdSimSelect ==
  /\ Command("SIM_SELECT")
  /\ enabled' \in BOOLEAN
  /\ UNCHANGED <<fsm, card, answer, atrVars, pins, line, last, statusIrq, rb, epq, main>>

\* card_emu_report_status on the IN endpoint
CmdStatus ==
  /\ Command("STATUS")
  /\ \E q \in Sent(epq["IN"], "STATUS") : epq' = [epq EXCEPT !["IN"] = q]
  /\ UNCHANGED <<fsm, card, answer, atrVars, io, rb, main>>

\* card_emu_set_config, which reports the configuration back
CmdConfig ==
  /\ Command("CONFIG")
  /\ statusIrq' \in BOOLEAN
  /\ \E q \in Sent(epq["IN"], "CONFIG") : epq' = [epq EXCEPT !["IN"] = q]
  /\ UNCHANGED <<fsm, card, answer, atrVars, pins, line, last, enabled, rb, main>>

\* the OUT queue is empty, or ten commands were run
CmdsDone ==
  /\ pc = "cmd"
  /\ pc' = "drain"
  /\ UNCHANGED <<fsm, card, answer, atrVars, io, rb, epq, arg>>

-----------------------------------------------------------------------------
UsartIrq == \/ IrqRx \/ IrqTxAtrByte \/ IrqTxAtrEnd \/ IrqTxPts \/ IrqTxTpdu
            \/ IrqTxNothing \/ IrqHalfExpired \/ IrqExpired

PtsStep == SetPts \/ RespondPts \/ EnableTxPts

DrainStep == \/ Drained \/ IgnoreByte \/ RxPtsByte \/ PtsStep \/ RxHeaderByte
             \/ RxP3 \/ RxBodyByte \/ RxUnexpectedByte \/ SetNewState

IoStep == \/ VccSame \/ VccOff \/ VccOther \/ RstSame \/ RstAsserted
          \/ RstOther \/ ReleaseQueued \/ Released

CommandStep == \/ CmdTxData \/ CmdTxDataDropped \/ CmdSetAtr \/ CmdSimSelect
               \/ CmdStatus \/ CmdConfig

MainStep == \/ DrainStep \/ IoStep \/ Refill \/ CommandStep
            \/ NewUartTx \/ EnableTx \/ SetAtrIdx \/ CmdsDone

Next == LineChange \/ UsartIrq \/ MainStep

Spec == Init /\ [][Next]_vars

\* The main loop never stops and the interrupts it is preempted by are taken,
\* as long as their cause persists.  Nothing is assumed of the reader's pins,
\* of the bytes the reader sends or of the host.
Fairness ==
  /\ WF_vars(Drained \/ PtsStep \/ SetNewState) /\ WF_vars(IoStep) /\ WF_vars(Refill)
  /\ WF_vars(NewUartTx \/ EnableTx \/ SetAtrIdx) /\ WF_vars(CmdsDone)
  /\ WF_vars(IrqTxAtrByte \/ IrqTxAtrEnd \/ IrqTxPts \/ IrqTxTpdu \/ IrqTxNothing)
  /\ WF_vars(IrqHalfExpired \/ IrqExpired)

FairSpec == Spec /\ Fairness

-----------------------------------------------------------------------------
\* Type correctness: above all, the ring buffer never holds more than its array
\* less the slot that tells full from empty (rbuf_write), and a body being
\* received never outgrows what one byte P3 can announce.
TypeOK ==
  /\ fsm \in [state : State, tpdu : TpduState, mask : SUBSET Irq,
              wt : WtPhase, stale : BOOLEAN, late : BOOLEAN]
  /\ pts \in PtsState /\ nextPts \in PtsState /\ pts0 \in SUBSET {1, 2, 3} /\ p3 \in 0..255
  /\ atr \in Atrs /\ atrIdx \in Nat /\ atrOut \in Seq(Nat) /\ atrMixed \in BOOLEAN
  /\ rx \in {NoRx} \cup 1..255
  /\ tx \in TxMsgType \cup {NoMsg} /\ txQ \in Seq(TxMsgType)
  /\ pins \in [vcc : BOOLEAN, clk : BOOLEAN, rst : BOOLEAN]
  /\ line \in [vcc : BOOLEAN, rst : BOOLEAN] /\ last \in [vcc : BOOLEAN, rst : BOOLEAN]
  /\ enabled \in BOOLEAN /\ statusIrq \in BOOLEAN
  /\ rb \in 0..(RbLen - 1)
  /\ epq \in [{"IN", "INT"} -> Seq(Kind)]
  /\ pc \in Pc /\ arg \in State

Responding == fsm.state = "IN_TPDU" /\ fsm.tpdu \in {"WAIT_PB", "WAIT_TX"}
Inactive == Off \cup {"WAIT_ATR", "IN_ATR"}

\* The interrupts a state needs: the receiver listens exactly when the reader is
\* to send, the transmitter runs exactly when the card is to send, everything is
\* silent while the card is off.
MaskFits(f, p) ==
  CASE f.state \in Off -> f.mask = {}
    [] f.state = "WAIT_ATR" -> f.mask = TimerMask
    [] f.state = "IN_ATR" -> f.mask = TxMask
    [] f.state = "IN_PTS" -> f.mask = IF p[1] = "REQ" THEN RxMask ELSE TxMask
    [] f.state = "WAIT_TPDU" -> f.mask = RxMask
    [] f.state = "IN_TPDU" /\ f.tpdu \in {"WAIT_PB", "WAIT_TX"} ->
         TimerMask \subseteq f.mask /\ f.mask \subseteq TxMask
    [] f.state = "IN_TPDU" /\ f.tpdu \notin {"WAIT_PB", "WAIT_TX"} -> f.mask = RxMask

\* the main loop is about to enable the transmitter for a PTS response
ResponseStarts ==
  pts = <<"RESP", "PTSS">> /\ pc \in {"respond", "enablePts"} /\ fsm.mask = RxMask

\* set_pts_state came after the end of the response: a receiver in a sub-state
\* of the response
LateSetPts == fsm.late /\ fsm.state = "IN_PTS" /\ pts[1] = "RESP" /\ fsm.mask = RxMask

\* The interrupts that are enabled are those the state needs, or the main loop is
\* on its way to enable them for a PTS response.  There are two exceptions, one
\* for each race of the main loop with the interrupt that the code leaves open,
\* both until the next call of card_emu_uart_enable: a late ENABLE_TX (stale: see
\* EnableTx and EnableTxPts) and, with exactly the outcome that LateSetPts says, a
\* late set_pts_state (late: see SetPts).  No other order of bytes, interrupts,
\* pins and commands leaves the card deaf or silent when it should not be.
UartMatchesState ==
  fsm.stale \/ MaskFits(fsm, pts) \/ ResponseStarts \/ LateSetPts

\* No lost wake-up between the main loop, which queues an answer and then enables
\* TXRDY, and the interrupt, which finds the queue empty and disables TXRDY:
\* whenever the card owes the reader data and has some, the transmitter runs, or
\* the main loop is still on its way to start it.
NoLostWakeup ==
  Responding /\ (tx # NoMsg \/ txQ # <<>>) /\ pc \notin {"newTx", "enable"}
    => "TXRDY" \in fsm.mask

\* While the reader waits for the card, the waiting time is running and not yet
\* half over, so a NULL byte will extend it before the reader gives up
\* (card_emu_wtime_half_expired).  A reset in progress has stopped the timer.
WaitingTimeGuarded == Responding /\ pc # "release" => fsm.wt = "run"

\* Once a reset has put the FSM in an inactive state, no queued answer and no
\* partly received body of the old session is left to reach the new one.
ResetEmptiesQueue == fsm.state \in Inactive => txQ = <<>> /\ rx = NoRx

\* A card whose VCC went on while the instance was enabled, and that is not held
\* in reset, has left the off states, in whatever order the reader switched the
\* signals ("check end activation state", card_emu_io_statechg).
ActivationComplete ==
  last.vcc => pins.vcc /\ pins.clk /\ (~pins.rst => fsm.state \notin Off)

\* An ATR that no SET_ATR interfered with is sent exactly as it was installed,
\* from its first byte to its last, however many activations or other commands
\* came before.
AtrEndsWhole ==
  [][fsm.state = "IN_ATR" /\ fsm'.state = "WAIT_TPDU" /\ ~atrMixed => atrOut = atr]_vars

-----------------------------------------------------------------------------
(* A claim of the code that does not hold.                                  *)

\* card_set_state, WAIT_TPDU: "enable the receiver, disable transmitter"; a card
\* that waits for a command hears it.
WaitTpduHears == fsm.state = "WAIT_TPDU" => "RXRDY" \in fsm.mask

-----------------------------------------------------------------------------
(* What the safety properties rest on: an invariant that is inductive.      *)

\* While the next PTS state is about to be written, the FSM is still where the
\* byte found it, or the interrupt has sent more of the response, or all of it.
SetPtsFits ==
  pc = "setPts" =>
    /\ fsm.state \in {"WAIT_TPDU", "IN_PTS"}
    /\ fsm.state = "WAIT_TPDU" /\ nextPts[1] = "RESP" => ~fsm.stale
    /\ IF nextPts = <<"RESP", "PTSS">>
       THEN fsm.state = "IN_PTS" /\ pts = <<"REQ", "PCK">>
       ELSE fsm.state = "IN_PTS" => nextPts[1] = pts[1]

\* Once it is written, the transmitter is due in an exchange that goes on.
RespondFits ==
  pc \in {"respond", "enablePts"} =>
    /\ fsm.state \in {"WAIT_TPDU", "IN_PTS"}
    /\ fsm.state = "WAIT_TPDU" => pts # <<"RESP", "PTSS">>
    /\ pc = "enablePts" /\ fsm.state = "IN_PTS" => pts[1] = "RESP"

\* Only a late set_pts_state takes a card that waits for a command back into a
\* response, and nothing but a reset takes it out again.
LateFits ==
  /\ fsm.state = "WAIT_TPDU" /\ pts[1] = "RESP"
     /\ (pc = "respond" \/ (pc = "setState" /\ arg = "IN_PTS")) => fsm.late
  /\ fsm.late =>
       /\ fsm.state \in {"WAIT_TPDU", "IN_PTS"} /\ fsm.mask = RxMask /\ ~fsm.stale
       /\ pts[1] = "RESP" /\ pts # <<"RESP", "PTSS">>
       /\ fsm.state = "WAIT_TPDU" => pc = "respond" \/ (pc = "setState" /\ arg = "IN_PTS")

\* While a new state is about to be set, the FSM is still where the byte found
\* it, or the interrupt has completed the exchange.
SetStateFits ==
  pc = "setState" =>
    \/ arg = "IN_PTS" /\ fsm.state \in {"WAIT_TPDU", "IN_PTS"}
    \/ arg = "WAIT_TPDU" /\ fsm.state \in {"WAIT_TPDU", "IN_PTS"}
    \/ arg = "IN_TPDU" /\ fsm.state \in {"WAIT_TPDU", "IN_TPDU"}

\* card_handle_reset is on its way to an off state and has dropped the body.
ReleaseFits == pc = "release" => arg \in {"WAIT_POWER", "WAIT_RST"} /\ rx = NoRx

\* The late ENABLE_TX can only hit a card that has completed an answer.
EnableFits == pc = "enable" => fsm.state \in {"WAIT_TPDU", "IN_TPDU"}

\* A card that waits for a command has no TPDU under way but the one whose first
\* byte is being handled.
WaitTpduIdle ==
  fsm.state = "WAIT_TPDU" =>
    \/ fsm.tpdu = "WAIT_CLA"
    \/ pc = "setState" /\ arg = "IN_TPDU" /\ fsm.tpdu = "WAIT_INS"

\* Only an active card has a late ENABLE_TX behind it; one without VCC is off.
StaleFits == fsm.stale => fsm.state \in Ready
PowerFits == ~pins.vcc => fsm.state \in Off

\* The bytes of an undisturbed ATR sent so far are its first atrIdx bytes.
AtrSent ==
  fsm.state = "IN_ATR" /\ ~atrMixed =>
    /\ atrIdx = Len(atrOut) /\ atrIdx <= Len(atr)
    /\ \A i \in 1..atrIdx : atrOut[i] = atr[i]

IInv == /\ TypeOK
        /\ SetPtsFits /\ RespondFits /\ LateFits
        /\ SetStateFits /\ ReleaseFits /\ EnableFits /\ WaitTpduIdle
        /\ StaleFits /\ PowerFits /\ AtrSent
        /\ UartMatchesState /\ NoLostWakeup /\ WaitingTimeGuarded
        /\ ResetEmptiesQueue /\ ActivationComplete

-----------------------------------------------------------------------------
\* An answer marked FINAL that the card has when it is to respond is sent to its
\* end (or the reader resets the card), whatever else is queued before it.
HasFinal == \/ tx.final /\ ~tx.pbRx
            \/ \E i \in 1..Len(txQ) : txQ[i].final /\ ~txQ[i].pbRx
AnswerCompletes == Responding /\ HasFinal ~> ~Responding

\* A card that is to send its ATR gets through it, or is reset.
AtrCompletes == fsm.state \in {"WAIT_ATR", "IN_ATR"} ~> fsm.state \notin {"WAIT_ATR", "IN_ATR"}
=============================================================================
