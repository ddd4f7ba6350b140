---------------------------------- MODULE Udp ----------------------------------
(***************************************************************************)
(* The driver of the USB controller (USBD_HAL.c), for one endpoint: how a   *)
(* transfer of the firmware becomes packets and ends in its call-back       *)
(* (usb_write_cb or usb_read_cb).  UsbBuf relies on these transfers.        *)
(*                                                                         *)
(* UDP_Write and UDP_Read run in the main loop and are cut at every access  *)
(* another party can observe; UDP_EndpointHandler, the halt feature, the    *)
(* configuration and the reset of the endpoint run in the USB interrupt,    *)
(* each in less time than the bus takes for a packet.                       *)
(*                                                                         *)
(* Lengths are in units, Size of which make a full packet.  Unit k of the   *)
(* n-th transfer to the host is <<n, k>>; the units from the host are       *)
(* numbered as they are sent.                                               *)
(***************************************************************************)
EXTENDS Integers, Sequences, SequencesExt

CONSTANTS
  Size,        \* units in a full packet
  Kinds,       \* the endpoints to look at: <<direction, number of FIFO banks>>
  Lengths,     \* the lengths of the transfers to the host
  Tailroom,    \* the length of a transfer from the host: the buffer's room
  MaxXfers,    \* bound: transfers to the host
  MaxPackets,  \* bound: packets from the host
  MaxEvents    \* bound: halts, configurations and resets

ASSUME UdpAssumption ==
  /\ Size \in Nat \ {0} /\ Kinds \subseteq {"in", "out"} \X {1, 2}
  /\ Lengths \subseteq Nat /\ Tailroom \in Nat \ {0}
  /\ MaxXfers \in Nat /\ MaxPackets \in Nat /\ MaxEvents \in Nat

VARIABLES
  kind,  \* direction and banks of the endpoint
  ep,    \* endpoints[]: its state, reception bank and transfer descriptor
  ie,    \* the endpoint's interrupt is enabled (UDP_IMR)
  hw,    \* the controller's registers and FIFO
  pc,    \* where the main loop is in UDP_Write or UDP_Read
  xfer,  \* history: the number and length of the current or last transfer
  last,  \* history: the last call-back
  got,   \* history: the units the host received since that transfer was begun
  from,  \* history: the host's packets, the units it sent, those delivered and those lost
  count, \* history: the transfers that ended, and those that never will
  off,   \* history: driver and controller may disagree (see OffIf)
  ev     \* events so far

vars == <<kind, ep, ie, hw, pc, xfer, last, got, from, count, off, ev>>
history == <<xfer, last, got, from, count, off, ev>>

Dir == kind[1]
Banks == kind[2]

\* the descriptor: data yet to load, or received; as UDP_EndOfTransfer leaves it
NoXfer == [data |-> <<>>, remaining |-> -1, buffered |-> -1, transferred |-> -1]
NewXfer(data, len) == [data |-> data, remaining |-> len, buffered |-> 0, transferred |-> 0]

\* build: what was written to the FIFO since TXPKTRDY was last set;
\* ready, packet: TXPKTRDY and the packet it covers; comp: TXCOMP; rx: the packets
\* received and not released, with their banks; fill: the bank of the next one;
\* stall, sent: FORCESTALL and STALLSENT
Quiet == [build |-> <<>>, ready |-> FALSE, packet |-> <<>>, comp |-> FALSE,
          rx |-> <<>>, fill |-> 0, stall |-> FALSE, sent |-> FALSE]

Init ==
  /\ kind \in Kinds
  /\ ep = [state |-> "IDLE", bank |-> 0, x |-> NoXfer] /\ ie = FALSE /\ hw = Quiet
  /\ pc = "idle" /\ xfer = [n |-> 0, len |-> 0]
  /\ last = [n |-> 0, status |-> "NONE", transferred |-> 0, remaining |-> 0]
  /\ got = <<>> /\ from = [packets |-> 0, sent |-> 0, delivered |-> <<>>, gone |-> {}]
  /\ count = [ended |-> 0, lost |-> 0] /\ off = FALSE /\ ev = 0

Flat(rx) == FlattenSeq([i \in DOMAIN rx |-> rx[i].data])

-----------------------------------------------------------------------------
(* The controller and the host (which leaves a disabled endpoint alone)      *)

\* an IN token while a packet is ready
HostReads ==
  /\ Dir = "in" /\ ep.state # "DISABLED" /\ ~hw.stall /\ hw.ready
  /\ hw' = [hw EXCEPT !.ready = FALSE, !.packet = <<>>, !.comp = TRUE]
  /\ got' = got \o hw.packet
  /\ UNCHANGED <<kind, ep, ie, pc, xfer, last, from, count, off, ev>>

HostSends ==
  /\ Dir = "out" /\ ep.state # "DISABLED" /\ ~hw.stall /\ Len(hw.rx) < Banks
  /\ from.packets < MaxPackets
  /\ \E k \in 0 .. Size :
       /\ hw' = [hw EXCEPT !.rx = Append(@, [bank |-> hw.fill,
                                             data |-> [i \in 1 .. k |-> from.sent + i]]),
                           !.fill = (@ + 1) % Banks]
       /\ from' = [from EXCEPT !.packets = @ + 1, !.sent = @ + k]
  /\ UNCHANGED <<kind, ep, ie, pc, xfer, last, got, count, off, ev>>

\* any token while the endpoint stalls
HostStalled ==
  /\ ep.state # "DISABLED" /\ hw.stall /\ ~hw.sent
  /\ hw' = [hw EXCEPT !.sent = TRUE]
  /\ UNCHANGED <<kind, ep, ie, pc, history>>

-----------------------------------------------------------------------------
(* Packets and the FIFO                                                     *)

\* UDP_WritePayload: of the endpoint's transfer and the FIFO
Load(x, h) ==
  LET size == IF x.remaining < Size THEN x.remaining ELSE Size IN
  [x |-> [x EXCEPT !.data = IF size > 0 THEN SubSeq(@, size + 1, Len(@)) ELSE @,
                   !.buffered = @ + size, !.remaining = @ - size],
   hw |-> [h EXCEPT !.build = @ \o SubSeq(x.data, 1, size)]]

\* SET_CSR(TXPKTRDY): what is in the FIFO is the next packet
Start(h) == [h EXCEPT !.ready = TRUE, !.packet = h.build, !.build = <<>>]

\* UDP_RST_EP empties the FIFO; whether TXPKTRDY survives, the driver does not care
FifoReset(h) ==
  {[h EXCEPT !.build = <<>>, !.packet = <<>>, !.ready = r, !.rx = <<>>, !.fill = 0] :
     r \in IF h.ready THEN BOOLEAN ELSE {FALSE}}

\* UDP_ReadPayload: what does not fit is dropped, and counted as buffered
Store(x, packet) ==
  LET size == IF Len(packet) > x.remaining THEN x.remaining ELSE Len(packet) IN
  [x EXCEPT !.data = @ \o SubSeq(packet, 1, size), !.remaining = @ - size,
            !.transferred = @ + size, !.buffered = @ + Len(packet) - size]

\* seeded fault: the banks are not swapped
NextBankStays(bank) == bank

\* UDP_ClearRxFlag: the bank the driver believes in is released
NextBank(bank) == IF bank = 0 /\ Banks > 1 THEN 1 ELSE 0
Release(rx, bank) ==
  FlattenSeq([i \in DOMAIN rx |-> IF rx[i].bank = bank THEN <<>> ELSE <<rx[i]>>])

\* seeded fault: the data left to load are not looked at
FinishedBuffered(x) == x.buffered <= Size

\* UDP_IsTransferFinished
Finished(x) == x.buffered <= Size /\ x.remaining = 0

-----------------------------------------------------------------------------
(* The end of a transfer                                                    *)

Active(e) == e.state \in {"SENDING", "RECEIVING"}

\* The interrupt found the main loop inside UDP_Write or UDP_Read; or the FIFO was
\* reset and a packet is still announced, or known to be sent, or the driver expects
\* the other bank
OffIf(cond) == off' = (off \/ pc # "idle" \/ cond)

\* usb_write_cb sends an empty packet after a message of one packet; and, whatever
\* the status, after a message of several of which one went out
WantsZlp(x) == Dir = "in" /\ xfer.len > 0 /\ xfer.len % Size = 0 /\ x.transferred = Size

\* UDP_EndOfTransfer and the call-back: what they make of the endpoint, the registers
\* and the history.  UDP_Write in the call-back waits until the host has read the
\* packet that is ready, then starts whatever the FIFO holds.
Ended(status) ==
  LET zlp == Active(ep) /\ WantsZlp(ep.x) IN
  IF ~Active(ep) THEN [ep |-> ep, hw |-> hw, ie |-> ie, got |-> got, xfer |-> xfer,
                       last |-> last, ended |-> 0]
  ELSE [ep |-> [ep EXCEPT !.state = IF zlp THEN "SENDING" ELSE "IDLE",
                          !.x = IF zlp THEN NewXfer(<<>>, 0) ELSE NoXfer],
        hw |-> IF zlp THEN Start([hw EXCEPT !.comp = @ \/ hw.ready]) ELSE hw,
        ie |-> ie \/ zlp,
        got |-> IF zlp THEN <<>> ELSE got,
        xfer |-> IF zlp THEN [n |-> xfer.n + 1, len |-> 0] ELSE xfer,
        last |-> [n |-> xfer.n, status |-> status, transferred |-> ep.x.transferred,
                  remaining |-> ep.x.remaining + ep.x.buffered],
        ended |-> 1]

\* the transfers r leaves active when the endpoint is not are never called back
Record(r, forgets) ==
  /\ got' = r.got /\ xfer' = r.xfer /\ last' = r.last /\ ie' = r.ie
  /\ count' = [ended |-> count.ended + r.ended,
               lost |-> count.lost + (IF forgets /\ Active(r.ep) THEN 1 ELSE 0)]

\* units that are in the FIFO, or that an aborted transfer had received
InFifo == ToSet(Flat(hw.rx))
Received == IF ep.state = "RECEIVING" /\ pc # "setup" THEN ep.x.data ELSE <<>>
InXfer == ToSet(Received)
Lose(units) == from' = [from EXCEPT !.gone = @ \cup units]

-----------------------------------------------------------------------------
(* The main loop: UDP_Write.  An interrupt that is enabled and pending        *)
(* preempts it.                                                             *)

Preempted == ie /\ (hw.comp \/ hw.rx # <<>> \/ hw.sent)

\* USBD_Write on an endpoint that is not idle fails with LOCKED
Write ==
  /\ Dir = "in" /\ pc = "idle" /\ ep.state = "IDLE" /\ xfer.n < MaxXfers
  /\ pc' = "setup"
  /\ UNCHANGED <<kind, ep, ie, hw, history>>

WriteSetup ==
  /\ pc = "setup" /\ Dir = "in"
  /\ \E len \in Lengths :
       /\ xfer' = [n |-> xfer.n + 1, len |-> len]
       /\ ep' = [ep EXCEPT !.state = "SENDING",
                           !.x = NewXfer([k \in 1 .. len |-> <<xfer.n + 1, k>>], len)]
  /\ got' = <<>> /\ pc' = "load"
  /\ UNCHANGED <<kind, ie, hw, last, from, count, off, ev>>

\* the wait for TXPKTRDY, then UDP_WritePayload
WriteLoad ==
  /\ pc = "load" /\ ~hw.ready
  /\ ep' = [ep EXCEPT !.x = Load(@, hw).x] /\ hw' = Load(ep.x, hw).hw
  /\ pc' = "start"
  /\ UNCHANGED <<kind, ie, history>>

WriteStart ==
  /\ pc = "start"
  /\ hw' = Start(hw)
  /\ pc' = IF Banks > 1 /\ ep.x.remaining > 0 THEN "second" ELSE "enable"
  /\ UNCHANGED <<kind, ep, ie, history>>

WriteSecond ==
  /\ pc = "second"
  /\ ep' = [ep EXCEPT !.x = Load(@, hw).x] /\ hw' = Load(ep.x, hw).hw
  /\ pc' = "enable"
  /\ UNCHANGED <<kind, ie, history>>

\* seeded fault: the interrupt stays as the last transfer or a refused packet left it
EnableNot ==
  /\ pc = "enable"
  /\ pc' = "idle"
  /\ UNCHANGED <<kind, ep, hw, ie, history>>

\* the end of UDP_Write and of UDP_Read
Enable ==
  /\ pc = "enable"
  /\ ie' = TRUE /\ pc' = "idle"
  /\ UNCHANGED <<kind, ep, hw, history>>

-----------------------------------------------------------------------------
(* The main loop: UDP_Read                                                  *)

\* the endpoint is RECEIVING before it has a descriptor
Read ==
  /\ Dir = "out" /\ pc = "idle" /\ ep.state = "IDLE"
  /\ ep' = [ep EXCEPT !.state = "RECEIVING"]
  /\ xfer' = [n |-> xfer.n + 1, len |-> Tailroom] /\ got' = <<>>
  /\ pc' = "setup"
  /\ UNCHANGED <<kind, ie, hw, last, from, count, off, ev>>

ReadSetup ==
  /\ pc = "setup" /\ Dir = "out"
  /\ ep' = [ep EXCEPT !.x = NewXfer(<<>>, Tailroom)]
  /\ pc' = "enable"
  /\ UNCHANGED <<kind, ie, hw, history>>

-----------------------------------------------------------------------------
(* The interrupt: UDP_EndpointHandler                                       *)

\* the last packet of a transfer was sent; bulk and interrupt endpoints are masked
\* before the call-back, which may unmask them
TransferSent ==
  /\ ie /\ hw.comp /\ ep.state = "SENDING" /\ Finished(ep.x)
  /\ LET done == [ep EXCEPT !.x.transferred = @ + ep.x.buffered, !.x.buffered = 0]
         zlp == WantsZlp(done.x) IN
     /\ ep' = [ep EXCEPT !.state = IF zlp THEN @ ELSE "IDLE",
                         !.x = IF zlp THEN NewXfer(<<>>, 0) ELSE NoXfer]
     /\ hw' = [(IF zlp THEN Start(hw) ELSE hw) EXCEPT !.comp = FALSE]
     /\ ie' = zlp
     /\ xfer' = IF zlp THEN [n |-> xfer.n + 1, len |-> 0] ELSE xfer
     /\ got' = IF zlp THEN <<>> ELSE got
     /\ last' = [n |-> xfer.n, status |-> "SUCCESS", transferred |-> done.x.transferred,
                 remaining |-> done.x.remaining]
  /\ count' = [count EXCEPT !.ended = @ + 1]
  /\ OffIf(FALSE)
  /\ UNCHANGED <<kind, pc, from, ev>>

\* seeded fault: both kinds of endpoint load the next packet before it is announced
PacketSentLoadFirst ==
  /\ ie /\ hw.comp /\ ep.state = "SENDING" /\ ~Finished(ep.x)
  /\ LET x == [ep.x EXCEPT !.transferred = @ + Size, !.buffered = @ - Size]
         next == Load(x, hw) IN
     /\ ep' = [ep EXCEPT !.x = next.x]
     /\ hw' = [Start(next.hw) EXCEPT !.comp = FALSE]
  /\ OffIf(FALSE)
  /\ UNCHANGED <<kind, ie, pc, xfer, last, got, from, count, ev>>

\* one packet was sent: with one bank the next is loaded and announced, with two the
\* loaded one is announced and the one after it loaded
PacketSent ==
  /\ ie /\ hw.comp /\ ep.state = "SENDING" /\ ~Finished(ep.x)
  /\ LET x == [ep.x EXCEPT !.transferred = @ + Size, !.buffered = @ - Size]
         next == Load(x, IF Banks = 1 THEN hw ELSE Start(hw)) IN
     /\ ep' = [ep EXCEPT !.x = next.x]
     /\ hw' = [(IF Banks = 1 THEN Start(next.hw) ELSE next.hw) EXCEPT !.comp = FALSE]
  /\ OffIf(FALSE)
  /\ UNCHANGED <<kind, ie, pc, xfer, last, got, from, count, ev>>

StrayComp ==
  /\ ie /\ hw.comp /\ ep.state # "SENDING"
  /\ hw' = [hw EXCEPT !.comp = FALSE]
  /\ OffIf(FALSE)
  /\ UNCHANGED <<kind, ep, ie, pc, xfer, last, got, from, count, ev>>

PacketRead ==
  /\ ie /\ hw.rx # <<>> /\ ep.state = "RECEIVING"
  /\ LET packet == Head(hw.rx).data
         x == Store(ep.x, packet)
         ends == x.remaining = 0 \/ Len(packet) < Size IN
     /\ ep' = [state |-> IF ends THEN "IDLE" ELSE ep.state, bank |-> NextBank(ep.bank),
               x |-> IF ends THEN NoXfer ELSE x]
     /\ ie' = (ie /\ ~ends)
     /\ last' = IF ends THEN [n |-> xfer.n, status |-> "SUCCESS",
                              transferred |-> x.transferred,
                              remaining |-> x.remaining + x.buffered]
                ELSE last
     /\ from' = [from EXCEPT !.delivered = IF ends THEN @ \o x.data ELSE @,
                             !.gone = @ \cup (ToSet(packet) \ ToSet(x.data))]
     /\ count' = [count EXCEPT !.ended = IF ends THEN @ + 1 ELSE @]
  /\ hw' = [hw EXCEPT !.rx = Release(@, ep.bank)]
  /\ OffIf(FALSE)
  /\ UNCHANGED <<kind, pc, xfer, got, ev>>

\* a packet that came before the endpoint was halted is thrown away
Discard ==
  /\ ie /\ hw.rx # <<>> /\ ep.state # "RECEIVING" /\ hw.stall
  /\ hw' = [hw EXCEPT !.rx = Release(@, ep.bank)]
  /\ ep' = [ep EXCEPT !.bank = NextBank(@)]
  /\ Lose(ToSet(Head(hw.rx).data))
  /\ OffIf(FALSE)
  /\ UNCHANGED <<kind, ie, pc, xfer, last, got, count, ev>>

\* a packet nobody waits for is left where it is until the next UDP_Read
Nak ==
  /\ ie /\ hw.rx # <<>> /\ ep.state # "RECEIVING" /\ ~hw.stall
  /\ ie' = FALSE
  /\ OffIf(FALSE)
  /\ UNCHANGED <<kind, ep, hw, pc, xfer, last, got, from, count, ev>>

StallSent ==
  /\ ie /\ hw.sent
  /\ hw' = [hw EXCEPT !.sent = FALSE, !.stall = @ /\ ep.state = "HALTED"]
  /\ UNCHANGED <<kind, ep, ie, pc, history>>

-----------------------------------------------------------------------------
(* The interrupt of endpoint 0 and of the bus                               *)

\* USBD_HAL_Halt, on SET_FEATURE
Halt ==
  /\ ev < MaxEvents /\ ev' = ev + 1
  /\ ep.state \notin {"DISABLED", "HALTED"}
  /\ LET r == Ended("ABORTED") IN
     /\ ep' = [r.ep EXCEPT !.state = "HALTED"]
     /\ hw' = [r.hw EXCEPT !.stall = TRUE]
     /\ Record([r EXCEPT !.ie = TRUE], TRUE)
  /\ Lose(InXfer) /\ OffIf(FALSE)
  /\ UNCHANGED <<kind, pc>>

\* USBD_HAL_Halt, on CLEAR_FEATURE: the reception bank is not reset
Unhalt ==
  /\ ep.state = "HALTED"
  /\ ep' = [ep EXCEPT !.state = "IDLE"]
  /\ hw' \in FifoReset([hw EXCEPT !.stall = FALSE])
  /\ Lose(InFifo) /\ OffIf(ep.bank # 0 \/ hw'.ready)
  /\ UNCHANGED <<kind, ie, pc, xfer, last, got, count, ev>>

\* seeded fault: the transfer in progress is forgotten
ConfigureEPForgets ==
  /\ ev < MaxEvents /\ ev' = ev + 1
  /\ ep' = [ep EXCEPT !.state = "IDLE", !.x = NoXfer]
  /\ hw' \in FifoReset(hw)
  /\ Lose(InXfer \cup InFifo) /\ OffIf(ep.bank # 0 \/ hw'.ready)
  /\ UNCHANGED <<kind, ie, pc, xfer, last, got, count>>

\* USBD_HAL_ConfigureEP, on SET_CONFIGURATION: nor is it here
ConfigureEP ==
  /\ ev < MaxEvents /\ ev' = ev + 1
  /\ LET r == Ended("RESET") IN
     /\ ep' = [r.ep EXCEPT !.state = "IDLE"]
     /\ hw' \in FifoReset(r.hw)
     /\ Record(r, TRUE)
  /\ Lose(InXfer \cup InFifo) /\ OffIf(ep.bank # 0 \/ hw'.ready)
  /\ UNCHANGED <<kind, pc>>

\* USBD_HAL_ResetEPs, on a bus reset or SET_CONFIGURATION(0): the endpoint is
\* disabled before UDP_EndOfTransfer looks at its state
ResetEPs ==
  /\ ev < MaxEvents /\ ev' = ev + 1
  /\ ep' = [ep EXCEPT !.state = "DISABLED", !.bank = 0]
  /\ ie' = FALSE
  /\ hw' \in FifoReset([hw EXCEPT !.ready = FALSE])
  /\ count' = [count EXCEPT !.lost = @ + (IF Active(ep) THEN 1 ELSE 0)]
  /\ Lose(InXfer \cup InFifo) /\ OffIf(hw.comp)
  /\ UNCHANGED <<kind, pc, xfer, last, got>>

-----------------------------------------------------------------------------
Host == HostReads \/ HostSends \/ HostStalled

MainLoop == ~Preempted /\ (\/ Write \/ WriteSetup \/ WriteLoad \/ WriteStart
                           \/ WriteSecond \/ Read \/ ReadSetup \/ Enable)

EndpointHandler == TransferSent \/ PacketSent \/ StrayComp
                   \/ PacketRead \/ Discard \/ Nak \/ StallSent

Control == Halt \/ Unhalt \/ ConfigureEP \/ ResetEPs

Next == Host \/ MainLoop \/ EndpointHandler \/ Control
Spec == Init /\ [][Next]_vars

\* the main loop and the interrupt run; the host polls the endpoint, and learns that
\* it stalls (ConfigureEP leaves FORCESTALL to be cleared by StallSent)
FairSpec == /\ Spec /\ WF_vars(MainLoop) /\ WF_vars(EndpointHandler)
            /\ WF_vars(HostReads \/ HostStalled)

-----------------------------------------------------------------------------
State == {"DISABLED", "HALTED", "IDLE", "SENDING", "RECEIVING"}
Status == {"NONE", "SUCCESS", "ABORTED", "RESET"}

\* The types; and while driver and controller agree, a packet is never longer than
\* the endpoint allows and the driver never has more in flight than the FIFO holds
\* (UDP_WritePayload is called once too often, or before the bank is free).
TypeOK ==
  /\ kind \in Kinds /\ ie \in BOOLEAN /\ off \in BOOLEAN
  /\ ep.state \in State /\ ep.bank \in 0 .. 1
  /\ pc \in {"idle", "setup", "load", "start", "second", "enable"}
  /\ last.status \in Status
  /\ Len(hw.rx) <= Banks /\ hw.fill \in 0 .. Banks - 1
  /\ ~off => /\ Len(hw.build) <= Size /\ Len(hw.packet) <= Size
             /\ ep.x.buffered \in -1 .. Banks * Size
             /\ ep.x.remaining >= -1 /\ ep.x.transferred >= -1

\* Every transfer the driver accepted is in progress, was ended by exactly one
\* call-back, or is one of those the code forgets (ResetEPs; the empty packet that
\* usb_write_cb starts in an aborted transfer).  A transfer that disappears otherwise
\* leaves in_progress set: the endpoint's queue is never served again.
Accounted ==
  ~off => xfer.n = count.ended + count.lost
                   + (IF Active(ep) \/ (pc = "setup" /\ Dir = "out") THEN 1 ELSE 0)

\* What the host receives is the transfer from its first unit on, nothing twice and
\* nothing of another transfer; and when the call-back says SUCCESS (which is when
\* usb_write_cb releases the buffer) the host has all of it.
WholeToHost ==
  Dir = "in" /\ ~off =>
    /\ \A k \in DOMAIN got : got[k] = <<xfer.n, k>>
    /\ last.status = "SUCCESS" /\ last.n = xfer.n =>
         Len(got) = xfer.len /\ last.transferred = xfer.len /\ last.remaining = 0

\* The host's units reach the firmware in order, none twice, and none is missing
\* but those thrown away with an aborted transfer, with the FIFO, with a halted
\* endpoint, or because they did not fit: the two banks are read in turn.
InOrder ==
  Dir = "out" /\ ~off =>
    LET seen == from.delivered \o Received \o Flat(hw.rx) IN
    /\ \A i, j \in DOMAIN seen : i < j => seen[i] < seen[j]
    /\ ToSet(seen) = (1 .. from.sent) \ from.gone

\* A transfer to the host ends, and a packet from the host does not stay in the FIFO
\* for ever (unless the endpoint is halted or disabled): no interrupt is lost between
\* the masking at the end of one transfer and the unmasking of the next.
Progress ==
  /\ ep.state = "SENDING" ~> (ep.state # "SENDING" \/ off)
  /\ []<>(hw.rx = <<>> \/ off \/ ep.state \in {"HALTED", "DISABLED"})

=============================================================================
