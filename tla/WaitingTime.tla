------------------------------ MODULE WaitingTime ------------------------------
(***************************************************************************)
(* The waiting time of ISO 7816-3 10.2 in card emulation: the count of etu *)
(* in ci->wt, the receiver time-out of the USART that drives it in rounds  *)
(* of at most 0xffff etu, and the main loop that reloads it while the      *)
(* USART's interrupt may preempt it between any two of its assignments     *)
(* ("FIXME: guard against race with interrupt handler").                   *)
(*                                                                         *)
(* CardEmu has the card's state machine in full and the waiting time only  *)
(* as phases; here it is the other way round.  Time passes in ticks of one *)
(* etu.                                                                    *)
(***************************************************************************)
EXTENDS Integers, FiniteSets

CONSTANTS
  Times,     \* the waiting times in etu the card can be told to use
  MaxRound,  \* 0xffff, the range of US_RTOR
  AtrDelay,  \* etu from RST to the ATR (card_set_state, WAIT_ATR)
  Lengths,   \* lengths in bytes of the host's messages
  AtrLen     \* length in bytes of the ATR

\* The card's waiting times are multiples of 960 etu (emu_update_wt): what the rounds
\* of 0xffff etu leave of the half of one is a multiple of 15 etu, so no round is as
\* short as the one tick that a byte may take here.
ASSUME TimesAssumption ==
  /\ MaxRound \in Nat /\ MaxRound > 1 /\ AtrDelay \in Nat \ {0}
  /\ Times \subseteq Nat
  /\ \A t \in Times : t > 3 /\ t - t \div 2 # MaxRound + 1
  /\ Lengths \subseteq Nat \ {0} /\ AtrLen \in Nat \ {0}

VARIABLES
  s,        \* what the interrupt handler reads and writes, see Fields
  waiting,  \* ch->waiting_time
  pc, arg,  \* where the main loop is in card_emu_uart_update_wt; its argument, 0
            \* when it was called by card_handle_reset
  next,     \* the time-out that compute_next_timeout returned to the main loop
  gap,      \* bound: ticks since a byte was sent or the main loop started a reload
  raced,    \* history: a time-out was served during the reload of the main loop
  silence,  \* history: etu since the card or the reader last did something
  faults    \* history: what went wrong, see Fault

vars == <<s, waiting, pc, arg, next, gap, raced, silence, faults>>

State == {"OFF", "WAIT_ATR", "IN_ATR", "WAIT_TPDU", "HEADER", "WAIT_PB", "WAIT_RX", "WAIT_TX"}
Owing == {"WAIT_PB", "WAIT_TX"}
Irq == {"RXRDY", "TXRDY", "TIMEOUT"}
Resetting == pc # "idle" /\ arg = 0
Flags == [pb : {"no", "tx", "rx"}, final : BOOLEAN]

\* the assertion failed; a NULL byte in the middle of a message; the ATR too early
Fault == {"assert", "null", "atr"}

\* st, left, begun, flags: the card's state; the bytes left of the message being
\* sent, whether one of them was, and its flags
\* total, remaining, half: ci->wt
\* rtor, count, timeout: US_RTOR; etu left to count, 0 when stopped; the TIMEOUT
\* flag of US_CSR
\* mask: US_IMR; ok: the assertion of compute_next_timeout holds
Fields == [st : State, left : Nat, begun : BOOLEAN, flags : Flags,
           total : Nat, remaining : Nat, half : BOOLEAN,
           rtor : 0..MaxRound, count : Nat, timeout : BOOLEAN, mask : SUBSET Irq, ok : BOOLEAN]

Booted == [st |-> "OFF", left |-> 0, begun |-> FALSE, flags |-> [pb |-> "no", final |-> FALSE],
           total |-> 0, remaining |-> 0, half |-> FALSE,
           rtor |-> 0, count |-> 0, timeout |-> FALSE, mask |-> {}, ok |-> TRUE]

Init ==
  /\ s = Booted
  /\ waiting \in Times
  /\ pc = "idle" /\ arg = 0 /\ next = 0 /\ gap = 0 /\ raced = FALSE
  /\ silence = 0 /\ faults = {}

-----------------------------------------------------------------------------
(* mode_cardemu.c                                                           *)

\* OSMO_ASSERT of compute_next_timeout
AssertFails(f) == f.total # 0 /\ ~f.half /\ f.remaining <= f.total \div 2

\* seeded fault: a round may exceed the range of the register
ComputeNextTimeoutWraps(f) ==
  IF f.total = 0 THEN 0
  ELSE (IF f.half THEN f.remaining ELSE f.remaining - f.total \div 2) % (MaxRound + 1)

\* compute_next_timeout: to half of the waiting time, then to its end
ComputeNextTimeout(f) ==
  LET want == IF f.half THEN f.remaining ELSE f.remaining - f.total \div 2
  IN IF f.total = 0 THEN 0 ELSE IF want < MaxRound THEN want ELSE MaxRound

\* writing US_RTOR: TIMEOUT reads as 0 while it is 0
SetRtor(f, v) == [f EXCEPT !.rtor = v, !.timeout = @ /\ v # 0]

\* US_RTOR = compute_next_timeout(ci)
SetNextTimeout(f) ==
  IF AssertFails(f) THEN [f EXCEPT !.ok = FALSE] ELSE SetRtor(f, ComputeNextTimeout(f))

\* abort() of a failed assertion resets the processor
After(f) == IF f.ok THEN f ELSE Booted

\* US_CR_RETTO; a byte on the line has the same effect on the counter
Retto(f) == [f EXCEPT !.count = f.rtor]

\* card_emu_uart_reset_wt and card_emu_uart_update_wt, undisturbed
ResetWt(f) ==
  LET g == [f EXCEPT !.remaining = f.total, !.half = FALSE]
  IN Retto(SetNextTimeout(g))

UpdateWt(f, w) == ResetWt([f EXCEPT !.total = w])

\* card_set_state(WAIT_TPDU)
ToWaitTpdu(f) == UpdateWt([f EXCEPT !.st = "WAIT_TPDU", !.mask = {"RXRDY"}], 0)

\* seeded fault: a byte does not restart the waiting time
ByteSentNoReset(f) == Retto([f EXCEPT !.left = @ - 1, !.begun = TRUE])

\* a byte of a message is sent (tx_byte_tpdu); one of the ATR only restarts the
\* counter in the hardware
ByteSent(f) ==
  LET g == Retto([f EXCEPT !.left = @ - 1, !.begun = TRUE])
  IN IF f.st \in Owing THEN ResetWt(g) ELSE g

\* set_tpdu_state after the procedure byte
AfterPb(f) ==
  IF f.st # "WAIT_PB" \/ f.flags.pb = "no" THEN f
  ELSE UpdateWt([f EXCEPT !.st = IF f.flags.pb = "rx" THEN "WAIT_RX" ELSE "WAIT_TX",
                          !.mask = IF f.flags.pb = "rx" THEN {"RXRDY"} ELSE @], waiting)

\* usart_irq_rx, TXRDY (card_emu_tx_byte)
TxByte(f) ==
  LET g == AfterPb(ByteSent(f))
      done == [g EXCEPT !.begun = FALSE]
  IN CASE f.left > 1 -> g
       [] f.left = 1 /\ f.st = "IN_ATR" -> g
       [] f.left = 1 /\ f.st # "IN_ATR" -> IF f.flags.pb # "rx" /\ f.flags.final THEN ToWaitTpdu(done) ELSE done
       [] f.left = 0 /\ f.st = "IN_ATR" -> ToWaitTpdu([f EXCEPT !.begun = FALSE, !.mask = @ \ {"TXRDY"}])
       [] OTHER -> [f EXCEPT !.mask = @ \ {"TXRDY"}]

\* seeded fault: the first time-out is taken for the end of the waiting time
ElapsedAll(f) == [f EXCEPT !.timeout = FALSE, !.count = 0, !.remaining = 0]

\* usart_irq_rx, TIMEOUT: count down the round that is over ...
Elapsed(f) ==
  [f EXCEPT !.timeout = FALSE, !.count = 0,
            !.remaining = IF @ <= f.rtor THEN 0 ELSE @ - f.rtor]

\* ... at the end of the waiting time, the ATR may be sent (card_emu_wtime_expired) ...
Expired(f) ==
  IF f.st # "WAIT_ATR" THEN f
  ELSE [UpdateWt([f EXCEPT !.st = "IN_ATR", !.mask = {"TXRDY", "TIMEOUT"}], waiting)
         EXCEPT !.left = AtrLen]

HalfReached(f) == f.remaining <= f.total \div 2 /\ ~f.half

\* seeded fault: the next round is computed before the half time is noted
NextRoundTooSoon(f) ==
  LET g == Retto(SetNextTimeout(f))
  IN [g EXCEPT !.half = @ \/ HalfReached(f)]

\* ... otherwise start the next round ...
NextRound(f) ==
  Retto(SetNextTimeout([f EXCEPT !.half = @ \/ HalfReached(f)]))

\* ... and, half of it being over, send a NULL byte if the card owes an answer
\* (card_emu_wtime_half_expired)
NullDue(f) == f.remaining # 0 /\ HalfReached(f) /\ f.st \in Owing

\* the TIMEOUT part of usart_irq_rx
TimeOut(f) ==
  LET g == Elapsed(f)
  IN IF g.remaining = 0 THEN Expired(g)
     ELSE IF NullDue(g) THEN ResetWt(NextRound(g)) ELSE NextRound(g)

\* usart_irq_rx: the causes are those of one snapshot of US_CSR & US_IMR
UsartIrq ==
  \E tx \in {FALSE} \cup {"TXRDY" \in s.mask} :
    LET out == s.timeout /\ "TIMEOUT" \in s.mask
        f == IF tx THEN TxByte(s) ELSE s
        g == Elapsed(f)
        h == IF out THEN TimeOut(f) ELSE f
        null == out /\ NullDue(g)
        atr == s.st = "WAIT_ATR" /\ s'.st = "IN_ATR"
    IN /\ tx \/ out
       /\ s' = After(h)
       /\ silence' = IF null \/ atr \/ (tx /\ s.left > 0) THEN 0 ELSE silence
       /\ gap' = IF tx THEN 0 ELSE gap
       /\ raced' = (raced \/ (out /\ pc # "idle"))
       /\ faults' = faults
            \cup {x \in {"assert"} : ~h.ok}
            \cup {x \in {"null"} : null /\ f.begun /\ f.left > 0 /\ ~tx}
            \cup {x \in {"atr"} : atr /\ silence < AtrDelay /\ ~Resetting}
       /\ pc' = IF h.ok THEN pc ELSE "idle"
       /\ UNCHANGED <<waiting, arg, next>>

\* a pending interrupt is taken before the main loop or time goes on
Pending == s.timeout /\ "TIMEOUT" \in s.mask

\* one etu: the counter counts, and raises TIMEOUT when it reaches 0.  Bounds: the
\* main loop and the transmitter take at most one etu over each step, and with the
\* counter stopped time matters only until the reader gives up.
Tick ==
  /\ ~Pending
  /\ s.count > 0 \/ (s.st \in Owing /\ silence <= waiting)
  /\ (pc # "idle" \/ "TXRDY" \in s.mask) => gap = 0
  /\ gap' = IF pc # "idle" \/ "TXRDY" \in s.mask THEN 1 ELSE 0
  /\ s' = [s EXCEPT !.count = IF @ = 0 THEN 0 ELSE @ - 1, !.timeout = @ \/ s.count = 1]
  /\ silence' = silence + 1
  /\ UNCHANGED <<waiting, pc, arg, next, raced, faults>>

-----------------------------------------------------------------------------
(* The main loop: calls of card_emu_uart_update_wt with the USART interrupt *)
(* enabled, assignment by assignment.                                       *)

At(p) == pc = p /\ ~Pending

Reload(w) == At("idle") /\ pc' = "total" /\ arg' = w /\ gap' = 0 /\ raced' = FALSE /\ UNCHANGED next

\* wt.total = wt
SetTotal ==
  /\ At("total")
  /\ s' = [s EXCEPT !.total = arg]
  /\ pc' = "remaining"
  /\ UNCHANGED <<waiting, arg, next, gap, raced, silence, faults>>

\* wt.remaining = wt.total
SetRemaining ==
  /\ At("remaining")
  /\ s' = [s EXCEPT !.remaining = s.total]
  /\ pc' = "half"
  /\ UNCHANGED <<waiting, arg, next, gap, raced, silence, faults>>

\* wt.half_time_notified = false
SetHalf ==
  /\ At("half")
  /\ s' = [s EXCEPT !.half = FALSE]
  /\ pc' = "compute"
  /\ UNCHANGED <<waiting, arg, next, gap, raced, silence, faults>>

\* compute_next_timeout
Compute ==
  /\ At("compute")
  /\ IF AssertFails(s)
     THEN s' = Booted /\ pc' = "idle" /\ UNCHANGED next
     ELSE next' = ComputeNextTimeout(s) /\ pc' = "rtor" /\ UNCHANGED s
  /\ faults' = faults \cup {x \in {"assert"} : AssertFails(s) /\ ~raced}
  /\ UNCHANGED <<waiting, arg, gap, raced, silence>>

\* US_RTOR = ..., US_CR |= US_CR_RETTO; a reset then turns the USART off
SetRtorRetto ==
  /\ At("rtor")
  /\ s' = LET f == Retto(SetRtor(s, next))
          IN IF arg # 0 THEN f
             ELSE UpdateWt([f EXCEPT !.st = "OFF", !.mask = {}, !.left = 0, !.begun = FALSE], 0)
  /\ pc' = "idle"
  /\ silence' = IF arg = 0 THEN 0 ELSE silence
  /\ UNCHANGED <<waiting, arg, next, gap, raced, faults>>

\* card_handle_reset: stop the waiting time, release the message
Reset ==
  /\ s.st # "OFF"
  /\ Reload(0)
  /\ s' = [s EXCEPT !.left = 0, !.begun = FALSE]
  /\ UNCHANGED <<waiting, silence, faults>>

\* card_set_state(WAIT_ATR)
Activate ==
  /\ s.st = "OFF"
  /\ s' = [s EXCEPT !.st = "WAIT_ATR", !.mask = {"TIMEOUT"}]
  /\ Reload(AtrDelay)
  /\ silence' = 0
  /\ UNCHANGED <<waiting, faults>>

\* the first byte of a header: wait for the rest.  The waiting time may have been
\* changed by the ATR or a PPS.
RxCla ==
  /\ At("idle") /\ s.st = "WAIT_TPDU"
  /\ waiting' \in Times
  /\ s' = UpdateWt([s EXCEPT !.st = "HEADER"], waiting')
  /\ silence' = 0
  /\ UNCHANGED <<pc, arg, next, gap, raced, faults>>

\* a byte of the header or of the body restarts the counter in the hardware
RxByte ==
  /\ At("idle") /\ s.st \in {"HEADER", "WAIT_RX"}
  /\ s' = Retto(s)
  /\ silence' = 0
  /\ UNCHANGED <<waiting, pc, arg, next, gap, raced, faults>>

\* the last byte of the header or of the body: the card owes an answer
RxLast ==
  /\ s.st \in {"HEADER", "WAIT_RX"}
  /\ s' = [Retto(s) EXCEPT !.st = IF @ = "HEADER" THEN "WAIT_PB" ELSE "WAIT_TX",
                           !.mask = {"TXRDY", "TIMEOUT"}]
  /\ Reload(waiting)
  /\ silence' = 0
  /\ UNCHANGED <<waiting, faults>>

\* a message of the host, for which the transmitter is started
HaveNewUartTx ==
  /\ At("idle") /\ s.st \in Owing /\ s.left = 0
  /\ \E n \in Lengths, flags \in Flags :
       /\ flags.pb # "no" => s.st = "WAIT_PB"
       /\ flags.pb = "rx" => n = 1 /\ ~flags.final
       /\ s' = [s EXCEPT !.left = n, !.flags = flags, !.mask = {"TXRDY", "TIMEOUT"}]
  /\ gap' = 0
  /\ UNCHANGED <<waiting, pc, arg, next, raced, silence, faults>>

UpdateWtStep == SetTotal \/ SetRemaining \/ SetHalf \/ Compute \/ SetRtorRetto
MainStep == Reset \/ Activate \/ RxCla \/ RxByte \/ RxLast \/ HaveNewUartTx

Next == UsartIrq \/ Tick \/ UpdateWtStep \/ MainStep

Spec == Init /\ [][Next]_vars

-----------------------------------------------------------------------------
\* Every variable has its type; US_RTOR is never given more than it can hold.
TypeOK ==
  /\ s \in Fields /\ waiting \in Times
  /\ pc \in {"idle", "total", "remaining", "half", "compute", "rtor"}
  /\ arg \in Nat /\ next \in 0..MaxRound /\ gap \in 0..1
  /\ raced \in BOOLEAN /\ silence \in Nat /\ faults \subseteq Fault

\* While the card owes the reader an answer, the reader never waits longer than the
\* waiting time: a NULL byte restarts it, in as many rounds of the timer as it takes.
\* Only a time-out served in the middle of the main loop's reload, the race of the
\* FIXME in card_emu_uart_reset_wt, can spoil that, until the next reload.
ReaderNeverGivesUp == s.st \in Owing /\ ~Resetting /\ ~raced => silence <= waiting

\* The assertion of compute_next_timeout, which resets the board, holds, unless a time-out was served in
\* the middle of the main loop's reload (the race of its FIXME).
AssertHolds == "assert" \notin faults

\* A NULL byte is not put between two bytes of an answer ("we are waiting for data
\* from the user"), unless TXRDY and TIMEOUT came in one snapshot of US_CSR, when
\* the time-out is charged to the waiting time the byte has just restarted.
NullsBetweenAnswers == "null" \notin faults

\* The ATR does not start before its delay, counted from the activation of the
\* card: no time-out left over from the last session starts it.
AtrOnTime == "atr" \notin faults
=============================================================================
